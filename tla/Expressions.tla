----------------------------- MODULE Expressions -----------------------------
(***************************************************************************)
(* Filters of a query on one column, what they mean for a row, and what is *)
(* left of them when the scan has converted them to an Iceberg predicate   *)
(* (expr_to_predicate.rs, physical_expr_to_predicate.rs), evaluated on     *)
(* partition values (expression_evaluator.rs) and on rows (the             *)
(* PredicateConverter of arrow/reader.rs).                                 *)
(*                                                                         *)
(* A cell is an integer: a number, a timestamp in ticks, or a string by    *)
(* its rank in byte order.  Null is below all cells, NaN above, as in      *)
(* Arrow's total order of floats.                                          *)
(***************************************************************************)
EXTENDS Integers, FiniteSets, Sequences

CONSTANTS
    Lowest, Highest,   \* cells other than Null and NaN are Lowest..Highest
    Chars,             \* a string's length in characters, by rank
    Bytes,             \* and in bytes
    Take,              \* Take[s][n]: the first n characters of s
    MaxChars           \* no string is longer

Values == Lowest..Highest
Null == Lowest - 1
NaN  == Highest + 1
None == Lowest - 2     \* Option::None of a statistic

Lengths == 0..MaxChars

Shorter(a, b) == IF a < b THEN a ELSE b

(* What the code relies on of strings: a character has a byte or more,     *)
(* cutting two of them at one length keeps their order, a cut is not above *)
(* the string and has the length it is cut to, cutting twice is cutting    *)
(* once, and a short string is not cut.                                    *)
ASSUME StringsAssumption ==
    /\ Lowest \in Int /\ Highest \in Int /\ Lowest <= Highest
    /\ MaxChars \in Nat
    /\ Chars \in [Values -> Lengths] /\ Bytes \in [Values -> Nat]
    /\ Take \in [Values -> [Lengths -> Values]]
    /\ \A s \in Values, n \in Lengths : Take[s][n] <= s
    /\ \A s \in Values, n \in Lengths : n >= Chars[s] => Take[s][n] = s
    /\ \A s, t \in Values, n \in Lengths : s <= t => Take[s][n] <= Take[t][n]
    /\ \A s \in Values : Chars[s] <= Bytes[s]
    /\ \A s \in Values, n \in Lengths : Chars[Take[s][n]] = Shorter(n, Chars[s])
    /\ \A s \in Values, n, m \in Lengths : Take[Take[s][n]][m] = Take[s][Shorter(n, m)]

First(s, n) == Take[s][Shorter(n, Chars[s])]

(* A condition on the column: an operator, its literals (one, or the set of *)
(* IN) and the form it is written in.  "cast" is a cast that is not exact  *)
(* around the column, "opaque" an expression Iceberg has no operator for.  *)
Ops == {"is_null", "not_null", "is_nan", "not_nan", "lt", "lteq", "gt", "gteq", "eq",
        "not_eq", "starts_with", "not_starts_with", "in", "not_in"}
Forms == {"plain", "cast", "opaque"}

Cond(op, lits, form) == [op |-> op, lits |-> lits, form |-> form]
Lit(c) == CHOOSE l \in c.lits : TRUE

StartsWith(s, p) == Take[s][Chars[p]] = p

Compares(op, v, l) ==
    CASE op = "lt"   -> v < l
      [] op = "lteq" -> v <= l
      [] op = "gt"   -> v > l
      [] op = "gteq" -> v >= l
      [] op = "eq"   -> v = l
      [] OTHER       -> v # l

CompareOps == {"lt", "lteq", "gt", "gteq", "eq", "not_eq"}

(* SQL: true of a cell, as DataFusion's own filter would evaluate it; a     *)
(* condition on Null is not true, except IS NULL.                          *)
Holds(c, v) ==
    CASE c.op = "is_null"  -> v = Null
      [] c.op = "not_null" -> v # Null
      [] c.op = "is_nan"   -> v = NaN
      [] c.op = "not_nan"  -> v # Null /\ v # NaN
      [] c.op = "starts_with"     -> v # Null /\ StartsWith(v, Lit(c))
      [] c.op = "not_starts_with" -> v # Null /\ ~StartsWith(v, Lit(c))
      [] c.op = "in"     -> v # Null /\ v \in c.lits
      [] c.op = "not_in" -> v # Null /\ v \notin c.lits
      [] OTHER -> v # Null /\ Compares(c.op, v, Lit(c))

(* PredicateOperator::negate. *)
NegatedOp(op) ==
    CASE op = "is_null" -> "not_null"
      [] op = "not_null" -> "is_null"
      [] op = "is_nan" -> "not_nan"
      [] op = "not_nan" -> "is_nan"
      [] op = "lt" -> "gteq"
      [] op = "gteq" -> "lt"
      [] op = "gt" -> "lteq"
      [] op = "lteq" -> "gt"
      [] op = "eq" -> "not_eq"
      [] op = "not_eq" -> "eq"
      [] op = "in" -> "not_in"
      [] op = "not_in" -> "in"
      [] op = "starts_with" -> "not_starts_with"
      [] OTHER -> "starts_with"

Negate(c) == Cond(NegatedOp(c.op), c.lits, c.form)

Negative == {"not_null", "not_nan", "not_eq", "not_in", "not_starts_with", "gt", "gteq"}

(* What the query means: a cast rounds to even, an opaque condition takes  *)
(* the odd ones, its negation the even ones.                               *)
Rounded(v) == IF v \in Values THEN v - (v % 2) ELSE v
Means(c, v) ==
    CASE c.form = "cast"   -> Holds(c, Rounded(v))
      [] c.form = "opaque" -> v # Null /\ v % 2 = IF c.op \in Negative THEN 0 ELSE 1
      [] OTHER             -> Holds(c, v)

-----------------------------------------------------------------------------
(* A filter is a condition, two of them, or NOT of either; a predicate may *)
(* be empty too, and then says nothing.                                    *)
Filter(con, l, r) == [con |-> con, l |-> l, r |-> r]
Conds(f) == IF f.con = "one" THEN {f.l} ELSE {f.l, f.r}

Evaluate(f, T(_)) ==
    CASE f.con = "true" -> TRUE
      [] f.con = "one"  -> T(f.l)
      [] f.con = "and"  -> T(f.l) /\ T(f.r)
      [] OTHER          -> T(f.l) \/ T(f.r)

(* rewrite_not: a predicate of the same meaning without NOT, which is how  *)
(* with_filter stores it.                                                  *)
Rewritten(f) ==
    CASE f.con = "not"     -> Filter("one", Negate(f.l), Negate(f.r))
      [] f.con = "not_and" -> Filter("or", Negate(f.l), Negate(f.r))
      [] f.con = "not_or"  -> Filter("and", Negate(f.l), Negate(f.r))
      [] OTHER             -> f

(* SQL: a filter is true of a cell.  NOT of a null is null, so De Morgan's *)
(* laws hold, and a negated condition is true when the condition is false. *)
Satisfies(f, v) == Evaluate(Rewritten(f), LAMBDA c : Means(c, v))

(* to_iceberg_predicate: every operator has its predicate, a cast that is   *)
(* not to a date is dropped around its operand.                            *)
LogicalConverts(c) == c.form # "opaque"

(* to_iceberg_from_physical: no LIKE, no function and no cast. *)
PhysicalConverts(c) ==
    /\ c.form = "plain"
    /\ c.op \notin {"starts_with", "not_starts_with", "is_nan", "not_nan"}

(* to_iceberg_and_predicate keeps the half it can convert, to_iceberg_or_   *)
(* predicate needs both; NOT negates whatever is left inside it.  What is  *)
(* not converted adds no predicate.                                        *)
Half(f, c) == Filter(IF f.con = "and" THEN "one" ELSE "not", c, c)
Converted(f, C(_)) ==
    CASE f.con \in {"one", "not"} -> IF C(f.l) THEN f ELSE [f EXCEPT !.con = "true"]
      [] f.con \notin {"one", "not"} /\ C(f.l) /\ C(f.r) -> f
      [] f.con \in {"and", "not_and"} /\ C(f.l) /\ ~C(f.r) -> Half(f, f.l)
      [] f.con \in {"and", "not_and"} /\ C(f.r) /\ ~C(f.l) -> Half(f, f.r)
      [] OTHER -> [f EXCEPT !.con = "true"]

(* merge_iceberg_predicates: the static predicate of the logical filters   *)
(* and the physical ones, both.                                            *)
Static(f)   == Rewritten(Converted(f, LogicalConverts))
Physical(f) == Rewritten(Converted(f, PhysicalConverts))
Says(f, T(_)) == Evaluate(Static(f), T) /\ Evaluate(Physical(f), T)
SaysNothing(f) == Static(f).con = "true" /\ Physical(f).con = "true"

(* scan.rs handle_child_pushdown_result: a filter whose columns exist is    *)
(* reported as handled, so no filter stays above the scan.                 *)
FilteredAbove(f) == FALSE

(* expression_evaluator.rs: a null partition value passes the negated      *)
(* conditions.                                                             *)
PartitionHolds(c, p) ==
    CASE c.op \in {"is_null", "not_null", "is_nan"} -> Holds(c, p)
      [] c.op = "not_nan" -> p # NaN
      [] c.op \in {"not_eq", "not_in", "not_starts_with"} -> p = Null \/ Holds(c, p)
      [] OTHER -> Holds(c, p)

(* Mutant: a null is not equal to anything. *)
FilterPresentNullDiffers(c, v) == (c.op = "not_eq" /\ v = Null) \/ Holds(c, v)

(* The PredicateConverter on a column the file has: the NaN tests are       *)
(* constants, everything else is Arrow's kernel.                           *)
FilterPresent(c, v) ==
    CASE c.op = "is_nan"  -> TRUE
      [] c.op = "not_nan" -> FALSE
      [] OTHER -> Holds(c, v)

(* and on a column the file lacks. *)
FilterMissing(c) ==
    c.op \in {"is_null", "not_nan", "lt", "lteq", "not_starts_with", "not_in"}

=============================================================================
