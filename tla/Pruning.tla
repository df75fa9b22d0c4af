------------------------------- MODULE Pruning -------------------------------
(***************************************************************************)
(* How a scan decides, without reading rows, that none of them can match:  *)
(* from the partition values of a manifest (manifest_evaluator.rs), from   *)
(* the file's column metrics                                               *)
(* (inclusive_metrics_evaluator.rs), from a row group's statistics         *)
(* (row_group_metrics_evaluator.rs) and from a page's                      *)
(* (page_index_evaluator.rs).                                              *)
(***************************************************************************)
EXTENDS Expressions

CONSTANT InLimit       \* IN_PREDICATE_LIMIT

(* None is no count. *)
ASSUME StatisticsAssumption == InLimit \in Nat /\ None < 0

(***************************************************************************)
(* Statistics of a file, row group or page: rows, nulls, nans (counts, or  *)
(* None) and the bounds lower and upper (or None).  Those of a manifest's  *)
(* partition field say whether there are nulls and NaNs instead.           *)
(***************************************************************************)
NullsOnly(s) == s.nulls # None /\ s.nulls = s.rows
NansOnly(s)  == s.nans # None /\ s.nans = s.rows
MayContainNull(s) == s.nulls = None \/ s.nulls > 0

(* visit_inequality: the lower bound decides < and <=, the upper > and >=. *)
InequalityFits(c, lo, up) ==
    LET bound == IF c.op \in {"lt", "lteq"} THEN lo ELSE up
    IN  Lit(c) = NaN \/ bound = None \/ Compares(c.op, bound, Lit(c))

(* eq: NaN bounds are not trusted. *)
EqFits(c, lo, up) ==
    \/ lo = NaN
    \/ /\ lo = None \/ lo <= Lit(c)
       /\ up = None \/ up = NaN \/ up >= Lit(c)

(* in: an IN list that is too long is not looked at. *)
InFits(c, lo, up) ==
    \/ Cardinality(c.lits) > InLimit
    \/ lo = NaN
    \/ /\ lo = None \/ \E l \in c.lits : l >= lo
       /\ up = None \/ up = NaN \/ \E l \in c.lits : l <= up

Cut(s, p) == First(s, Chars[p])

(* starts_with: both bounds are cut to the prefix's length first. *)
StartsWithFits(c, lo, up) ==
    /\ lo = None \/ Lit(c) >= Cut(lo, Lit(c))
    /\ up = None \/ Lit(c) <= Cut(up, Lit(c))

(* not_starts_with: impossible only when both bounds have the prefix. *)
NotStartsWithFits(c, lo, up) ==
    ~(lo # None /\ up # None /\ StartsWith(lo, Lit(c)) /\ StartsWith(up, Lit(c)))

-----------------------------------------------------------------------------
(* InclusiveMetricsEvaluator: a file by its column metrics. *)
FileUnary(c, s) ==
    CASE c.op = "is_null"  -> s.nulls # 0
      [] c.op = "not_null" -> ~NullsOnly(s)
      [] c.op = "is_nan"   -> s.nans # 0 /\ ~NullsOnly(s)
      [] OTHER             -> ~NansOnly(s)

FileCompare(c, s) ==
    CASE c.op = "not_eq" -> TRUE
      [] c.op = "eq" -> ~NullsOnly(s) /\ ~NansOnly(s) /\ EqFits(c, s.lower, s.upper)
      [] OTHER -> ~NullsOnly(s) /\ ~NansOnly(s) /\ InequalityFits(c, s.lower, s.upper)

FilePrefix(c, s) ==
    IF c.op = "starts_with" THEN ~NullsOnly(s) /\ StartsWithFits(c, s.lower, s.upper)
    ELSE MayContainNull(s) \/ NotStartsWithFits(c, s.lower, s.upper)

FileSet(c, s) ==
    c.op = "not_in" \/ (~NullsOnly(s) /\ ~NansOnly(s) /\ InFits(c, s.lower, s.upper))

FileMightMatch(c, s) ==
    CASE c.op \in {"is_null", "not_null", "is_nan", "not_nan"} -> FileUnary(c, s)
      [] c.op \in CompareOps -> FileCompare(c, s)
      [] c.op \in {"in", "not_in"} -> FileSet(c, s)
      [] OTHER -> FilePrefix(c, s)

(* RowGroupMetricsEvaluator: no NaN counts; without statistics (the column *)
(* is missing) everything is None.                                         *)
RowGroupUnary(c, s) ==
    CASE c.op = "is_null"  -> s.nulls # 0
      [] c.op = "not_null" -> ~NullsOnly(s)
      [] OTHER             -> TRUE

RowGroupCompare(c, s) ==
    CASE c.op = "not_eq" -> TRUE
      [] c.op = "eq" -> ~NullsOnly(s) /\ EqFits(c, s.lower, s.upper)
      [] OTHER -> ~NullsOnly(s) /\ InequalityFits(c, s.lower, s.upper)

RowGroupPrefix(c, s) ==
    IF c.op = "starts_with" THEN ~NullsOnly(s) /\ StartsWithFits(c, s.lower, s.upper)
    ELSE MayContainNull(s) \/ NotStartsWithFits(c, s.lower, s.upper)

RowGroupSet(c, s) ==
    c.op = "not_in" \/ (~NullsOnly(s) /\ InFits(c, s.lower, s.upper))

RowGroupMightMatch(c, s) ==
    CASE c.op \in {"is_null", "not_null", "is_nan", "not_nan"} -> RowGroupUnary(c, s)
      [] c.op \in CompareOps -> RowGroupCompare(c, s)
      [] c.op \in {"in", "not_in"} -> RowGroupSet(c, s)
      [] OTHER -> RowGroupPrefix(c, s)

(* PageIndexEvaluator: as the row group, but NaN bounds are trusted and an *)
(* IN list must have a member between the bounds.                          *)
PageNullCount(s) ==
    CASE s.nulls = None   -> "unknown"
      [] s.nulls = s.rows -> "all"
      [] s.nulls = 0 /\ s.rows # 0 -> "none"
      [] OTHER            -> "some"

PageUnary(c, s) ==
    CASE c.op = "is_null"  -> PageNullCount(s) # "none"
      [] c.op = "not_null" -> PageNullCount(s) # "all"
      [] OTHER             -> TRUE

PageEq(c, s) ==
    /\ PageNullCount(s) # "all"
    /\ s.lower = None \/ s.lower <= Lit(c)
    /\ s.upper = None \/ s.upper >= Lit(c)

PageInequality(c, s) ==
    PageNullCount(s) # "all" /\ InequalityFits(c, s.lower, s.upper)

PagePrefix(c, s) ==
    IF c.op = "starts_with"
    THEN PageNullCount(s) # "all" /\ StartsWithFits(c, s.lower, s.upper)
    ELSE PageNullCount(s) # "none" \/ NotStartsWithFits(c, s.lower, s.upper)

PageSet(c, s) ==
    \/ c.op = "not_in"
    \/ Cardinality(c.lits) > InLimit
    \/ /\ PageNullCount(s) # "all"
       /\ \E l \in c.lits : (s.lower = None \/ l >= s.lower) /\ (s.upper = None \/ l <= s.upper)

PageMightMatch(c, s) ==
    CASE c.op \in {"is_null", "not_null", "is_nan", "not_nan"} -> PageUnary(c, s)
      [] c.op = "eq" -> PageEq(c, s)
      [] c.op = "not_eq" -> TRUE
      [] c.op \in CompareOps \ {"eq", "not_eq"} -> PageInequality(c, s)
      [] c.op \in {"in", "not_in"} -> PageSet(c, s)
      [] OTHER -> PagePrefix(c, s)

(* MissingColBehavior of a column the row group lacks. *)
PageMissing(c) == c.op \notin {"not_null", "eq", "starts_with", "in"}

-----------------------------------------------------------------------------
(* ManifestEvaluator: a manifest by the summary of its partition values     *)
(* [nulls, nans, lower, upper], nulls and nans Boolean.  No lower bound    *)
(* means that no partition has a value.                                    *)
AllNull(s) == s.nulls /\ s.lower = None /\ ~s.nans

ManifestUnary(c, s) ==
    CASE c.op = "is_null"  -> s.nulls
      [] c.op = "not_null" -> ~AllNull(s)
      [] c.op = "is_nan"   -> s.nans /\ ~AllNull(s)
      [] OTHER             -> ~(s.nans /\ ~s.nulls /\ s.lower = None)

ManifestCompare(c, s) ==
    CASE c.op = "not_eq" -> TRUE
      [] c.op = "eq" -> s.lower # None /\ s.upper # None /\ s.lower <= Lit(c) /\ s.upper >= Lit(c)
      [] c.op \in {"lt", "lteq"} -> s.lower # None /\ Compares(c.op, s.lower, Lit(c))
      [] OTHER -> s.upper # None /\ Compares(c.op, s.upper, Lit(c))

ManifestPrefix(c, s) ==
    IF c.op = "starts_with"
    THEN s.lower # None /\ s.upper # None /\ StartsWithFits(c, s.lower, s.upper)
    ELSE s.nulls \/ NotStartsWithFits(c, s.lower, s.upper)

ManifestSet(c, s) ==
    \/ c.op = "not_in"
    \/ /\ s.lower # None
       /\ \/ Cardinality(c.lits) > InLimit
          \/ /\ \E l \in c.lits : l >= s.lower
             /\ s.upper = None \/ \E l \in c.lits : l <= s.upper

ManifestMightMatch(c, s) ==
    CASE c.op \in {"is_null", "not_null", "is_nan", "not_nan"} -> ManifestUnary(c, s)
      [] c.op \in CompareOps -> ManifestCompare(c, s)
      [] c.op \in {"in", "not_in"} -> ManifestSet(c, s)
      [] OTHER -> ManifestPrefix(c, s)

=============================================================================
