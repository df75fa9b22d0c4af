----------------------------- MODULE Projection ------------------------------
(***************************************************************************)
(* Partition transforms (the modules of transform) and the projection of a condition *)
(* on the source column to a condition on the partition value              *)
(* (spec/transform.rs, inclusive_projection.rs).                           *)
(*                                                                         *)
(* A transform is [name, w], w the number of buckets or the width.  The    *)
(* kind of a column is "int", "float", "string", "ts" (timestamp) or       *)
(* "tstz" (timestamptz); a timestamp counts ticks from the epoch.          *)
(***************************************************************************)
EXTENDS Pruning

CONSTANTS
    Hash,              \* murmur3 of a cell, without its sign bit
    TicksPerSecond, SecondsPerDay, TicksPerHour, TicksPerMonth, MonthsPerYear

ASSUME TransformsAssumption ==
    /\ Hash \in [Values -> Nat]
    /\ {TicksPerSecond, SecondsPerDay, TicksPerHour, TicksPerMonth, MonthsPerYear}
            \subseteq Nat \ {0}

TemporalNames == {"year", "month", "day", "hour"}
Kinds == {"int", "float", "string", "ts", "tstz"}

(* Transform::result_type: the transforms a kind of column may have. *)
TransformsOf(kind) ==
    CASE kind = "float" -> {"identity", "void"}
      [] kind \in {"int", "string"} -> {"identity", "void", "bucket", "truncate"}
      [] OTHER -> {"identity", "void", "bucket"} \cup TemporalNames

(* Rust's integer division rounds toward zero. *)
Quotient(a, b) == IF a >= 0 THEN a \div b ELSE -((-a) \div b)

(* day_timestamp_micro.  num_days() of a chrono Duration of secs seconds   *)
(* and nanos rounds toward zero twice, to seconds and to days.             *)
DayOf(v) ==
    LET secs    == Quotient(v, TicksPerSecond)
        nanos   == (IF v >= 0 THEN v ELSE v + 1) % TicksPerSecond
        seconds == IF secs < 0 /\ nanos > 0 THEN secs + 1 ELSE secs
    IN  Quotient(seconds, SecondsPerDay) - (IF v >= 0 THEN 0 ELSE 1)

(* truncate_str counts characters, truncate_i32 and truncate_i64 round     *)
(* down to a multiple.                                                     *)
Truncate(w, kind, v) == IF kind = "string" THEN First(v, w) ELSE v - (v % w)

Bucket(n, v) == Hash[v] % n
Month(v) == v \div TicksPerMonth
Year(v) == Month(v) \div MonthsPerYear
Hour(v) == v \div TicksPerHour

(* transform and transform_literal: a null stays null. *)
Transformed(t, kind, v) ==
    IF v = Null \/ t.name = "void" THEN Null ELSE
    CASE t.name = "identity" -> v
      [] t.name = "bucket"   -> Bucket(t.w, v)
      [] t.name = "truncate" -> Truncate(t.w, kind, v)
      [] t.name = "year"     -> Year(v)
      [] t.name = "month"    -> Month(v)
      [] t.name = "day"      -> DayOf(v)
      [] OTHER               -> Hour(v)

-----------------------------------------------------------------------------
(* No condition: Transform::project returns None. *)
NoCond == Cond("true", {}, "plain")

(* adjust_boundary: x < 5 is x <= 4, where the type has a predecessor.      *)
AdjustBoundary(kind, op, l) ==
    CASE kind \in {"int", "ts"} /\ op = "lt" -> l - 1
      [] kind \in {"int", "ts"} /\ op = "gt" -> l + 1
      [] OTHER -> l

(* Mutant: the strict comparisons stay strict. *)
AdjustOperatorStrict(op, l, t) == IF op = "not_starts_with" THEN "none" ELSE op

(* adjust_operator: a prefix as long as the width is the whole partition    *)
(* value.  The length is s.len(), in bytes.                                *)
AdjustOperator(op, l, t) ==
    CASE op = "lt" -> "lteq"
      [] op = "gt" -> "gteq"
      [] op = "starts_with" /\ t.name = "truncate" /\ Bytes[l] = t.w -> "eq"
      [] op = "not_starts_with" /\ t.name = "truncate" /\ Bytes[l] = t.w -> "not_eq"
      [] op = "not_starts_with" /\ t.name = "truncate" /\ Bytes[l] > t.w -> "none"
      [] OTHER -> op

(* adjust_time_projection: before the epoch a neighbouring value is taken  *)
(* too, for the tables of writers that rounded toward zero.                *)
AdjustsTime(t, kind, v) ==
    /\ t.name \in {"year", "month"} \/ (t.name = "day" /\ kind = "ts")
    /\ v < 0

(* project_binary_with_adjusted_boundary, of truncate and the time         *)
(* transforms.                                                             *)
ProjectComparison(t, kind, c) ==
    LET op == AdjustOperator(c.op, Lit(c), t)
        v  == Transformed(t, kind, AdjustBoundary(kind, c.op, Lit(c)))
    IN  CASE c.op = "not_eq" \/ op = "none" -> NoCond
          [] AdjustsTime(t, kind, v) /\ c.op \in {"lt", "lteq"} -> Cond(op, {v + 1}, "plain")
          [] AdjustsTime(t, kind, v) /\ c.op = "eq" -> Cond("in", {v, v + 1}, "plain")
          [] OTHER -> Cond(op, {v}, "plain")

(* project_set_expr. *)
ProjectSet(t, kind, c) ==
    LET image == {Transformed(t, kind, l) : l \in c.lits}
    IN  IF c.op = "not_in" THEN NoCond
        ELSE Cond("in", image \cup {v + 1 : v \in {u \in image : AdjustsTime(t, kind, u)}}, "plain")

UnaryOps == {"is_null", "not_null", "is_nan", "not_nan"}

(* Transform::project. *)
Project(t, kind, c) ==
    IF t.name = "void" THEN NoCond
    ELSE IF t.name = "identity" \/ c.op \in UnaryOps THEN c
    ELSE IF c.op \in {"in", "not_in"} THEN ProjectSet(t, kind, c)
    ELSE IF t.name # "bucket" THEN ProjectComparison(t, kind, c)
    ELSE IF c.op = "eq" THEN Cond("eq", {Bucket(t.w, Lit(c))}, "plain")
    ELSE NoCond

(* A projected condition on a partition value, and on a manifest's summary *)
(* of them.                                                                *)
PartitionMatches(t, kind, c, p) ==
    LET q == Project(t, kind, c) IN q = NoCond \/ PartitionHolds(q, p)

ManifestMatches(t, kind, c, s) ==
    LET q == Project(t, kind, c) IN q = NoCond \/ ManifestMightMatch(q, s)

=============================================================================
