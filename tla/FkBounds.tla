------------------------------ MODULE FkBounds -------------------------------
(***************************************************************************)
(* The physical rules for a join of a filtered dimension with a large fact *)
(* table: the swap of the inputs (join_reorder.rs), the bound on the fact  *)
(* key read from the dimension while the query is planned and kept in a    *)
(* cache of the process (fk_bound_pushdown.rs, dim_key_bounds.rs) and the  *)
(* broadcast of the small side (join_collect_left.rs).  Queries are        *)
(* planned concurrently, between inserts into the dimension.               *)
(***************************************************************************)
EXTENDS Integers, FiniteSets, Sequences, FiniteSetsExt

CONSTANTS
    Planners,          \* threads that plan queries
    Queries,           \* queries they may plan
    FirstRows,         \* the dimension's rows at first
    Inserts,           \* rows that may be inserted into it
    FactRows,          \* the fact table's rows
    MaxQueries,        \* queries that are planned, at most
    MaxVersions,       \* snapshots of the dimension, at most
    MaxDimRows,        \* MAX_PLAN_TIME_DIM_ROWS
    MaxInList,         \* MAX_INLIST_VALUES
    TopRows,           \* the LIMIT of a query's top-k
    Null               \* the key that is null

(* A query is [pin, type, fact, filter, shape, name, nulls, large, twin,   *)
(* mode, grouped]: the snapshot it asks for (0 for the current one), the   *)
(* join's type, the side its fact scan is on, the filter of the dimension  *)
(* ("none" when it has none), what lies between the join and the fact      *)
(* scan, what the name of the dimension's key denotes in its table,        *)
(* whether null equals null, whether the dimension is large, which of its  *)
(* columns has the name of the fact key, the join's mode and whether an    *)
(* aggregate is right above.                                               *)
Types == {"Inner", "Left", "Right", "Full", "LeftSemi", "RightSemi", "LeftAnti", "RightAnti"}
Shapes == {"scan", "self", "renamed", "hidden", "topk", "window", "maxkey", "bykey"}
Sides == {"left", "right"}

ASSUME QueriesAssumption ==
    /\ MaxQueries \in Nat /\ MaxVersions \in Nat \ {0} /\ MaxDimRows \in Nat /\ MaxInList \in Nat
    /\ \A q \in Queries :
          /\ q.type \in Types /\ q.fact \in Sides /\ q.shape \in Shapes
          /\ q.name \in {"key", "other", "absent"} /\ q.twin \in {"key", "other", "none"}
          /\ q.mode \in {"Partitioned", "CollectLeft"}
          /\ {q.nulls, q.large, q.grouped} \subseteq BOOLEAN /\ q.pin \in Nat

(* Keys are integers or null; an Iceberg table is finite; no two fact rows *)
(* have the same time, which is what a top-k orders by.                    *)
ASSUME RowsAssumption ==
    /\ Null \notin Int /\ IsFiniteSet(FirstRows)
    /\ \A d \in FirstRows \cup Inserts : {d.key, d.other} \subseteq Int \cup {Null}
    /\ \A f \in FactRows : f.time \in Int /\ {f.k, f.w} \subseteq Int \cup {Null}
    /\ \A f, g \in FactRows : f.time = g.time => f = g
    /\ TopRows \in Nat

VARIABLES
    dim,               \* the dimension's snapshots, the current one last
    cache,             \* CACHE: <<filter, key column>> -> a constraint
    plan,              \* planner -> its plan, or Idle
    begun              \* queries planned so far

join_vars == <<dim, cache, plan, begun>>

Idle == [pc |-> "idle"]
NoBound == [kind |-> "none"]

JoinInit ==
    /\ dim = <<FirstRows>>
    /\ cache = [k \in {} |-> NoBound]
    /\ plan = [p \in Planners |-> Idle]
    /\ begun = 0

Other(side) == IF side = "left" THEN "right" ELSE "left"

-----------------------------------------------------------------------------
(* What a join returns, from the rows and keys of its two sides. *)
Matches(a, b, nulls) == a.key = b.key /\ (nulls \/ a.key # Null)

JoinRows(type, L, R, nulls) ==
    LET pairs == {p \in L \X R : Matches(p[1], p[2], nulls)}
        leftIn == {p[1] : p \in pairs}
        rightIn == {p[2] : p \in pairs}
    IN  CASE type = "Inner"     -> pairs
          [] type = "Left"      -> pairs \cup {<<l, Null>> : l \in L \ leftIn}
          [] type = "Right"     -> pairs \cup {<<Null, r>> : r \in R \ rightIn}
          [] type = "Full"      -> pairs \cup {<<l, Null>> : l \in L \ leftIn}
                                         \cup {<<Null, r>> : r \in R \ rightIn}
          [] type = "LeftSemi"  -> leftIn
          [] type = "RightSemi" -> rightIn
          [] type = "LeftAnti"  -> L \ leftIn
          [] type = "RightAnti" -> R \ rightIn

(* JoinType::swap. *)
Swapped(type) ==
    CASE type = "Left" -> "Right" [] type = "Right" -> "Left"
      [] type = "LeftSemi" -> "RightSemi" [] type = "RightSemi" -> "LeftSemi"
      [] type = "LeftAnti" -> "RightAnti" [] type = "RightAnti" -> "LeftAnti"
      [] OTHER -> type

(* The bound as a predicate; nothing holds for null. *)
Allows(c, v) ==
    CASE c.kind = "none"  -> TRUE
      [] c.kind = "range" -> v # Null /\ c.lo <= v /\ v <= c.hi
      [] c.kind = "in"    -> v \in c.set

(* What the plan between the join and the fact scan makes of the scan's    *)
(* rows: the table joined with itself; a projection that gives the name of *)
(* one column to another, or the key a name the table does not have; ORDER *)
(* BY time LIMIT; a window PARTITION BY w; and GROUP BY, with the greatest *)
(* key of the group or with the key as the group.  What is computed from a *)
(* partition or a group is a function of its rows.                         *)
KeyOf(group) == LET keys == {f.k : f \in group} \ {Null} IN IF keys = {} THEN Null ELSE Max(keys)

Between(shape, rows) ==
    LET peers(f) == {g \in rows : g.w = f.w}
        first == {f \in rows : Cardinality({g \in rows : g.time < f.time}) < TopRows}
    IN  CASE shape \in {"scan", "hidden"} -> {[key |-> f.k, row |-> f] : f \in rows}
          [] shape = "self"    -> {[key |-> f[1].k, row |-> f] :
                                      f \in {g \in rows \X rows : g[1].w = g[2].w}}
          [] shape = "renamed" -> {[key |-> f.w, row |-> f] : f \in rows}
          [] shape = "topk"    -> {[key |-> f.k, row |-> f] : f \in first}
          [] shape = "window"  -> {[key |-> f.k, row |-> <<f, peers(f)>>] : f \in rows}
          [] shape = "maxkey"  -> {[key |-> KeyOf(peers(f)), row |-> peers(f)] : f \in rows}
          [] shape = "bykey"   -> {[key |-> f.k, row |-> {g \in rows : g.k = f.k}] : f \in rows}

(* The fact side under apply_predicate_to_fact_scans, which adds the bound *)
(* to every large scan below the join that has a column of the fact key's  *)
(* name, whatever is in between.                                           *)
FactSide(shape, c) ==
    Between(shape, {f \in FactRows : shape = "hidden" \/ Allows(c, f.k)})

Filtered(rows, filter) == {d \in rows : filter = "none" \/ d.attr = filter}

(* The dimension's scan is below the join too: a large one gets the bound  *)
(* on whatever column of it has the fact key's name.                       *)
DimSide(q, rows, c) ==
    {d \in Filtered(rows, q.filter) : q.large /\ q.twin # "none" => Allows(c, d[q.twin])}

(* The rows of a plan, as if the fact side were the left one. *)
Norm(type, side) == IF side = "left" THEN type ELSE Swapped(type)

Result(q, type, side, rows, c) ==
    JoinRows(Norm(type, side), FactSide(q.shape, c), DimSide(q, rows, c), q.nulls)

-----------------------------------------------------------------------------
(* as_iceberg_scan on the two sides: projections and repartitions are      *)
(* looked through, nothing else is.                                        *)
FactIsScan(q) == q.shape \in {"scan", "renamed", "hidden"}

(* join_order_weight: a filtered dimension is always a small one. *)
DimSmall(q) == q.filter # "none" \/ ~q.large

(* HashJoinExec::swap_inputs. *)
SwapInputs(pl) == [pl EXCEPT !.side = Other(@), !.type = Swapped(@)]

(* The query is resolved against the catalog's table, to a snapshot it     *)
(* has, and join_reorder puts the fact table on the probe side.            *)
Begin(p, q) ==
    /\ plan[p].pc \in {"idle", "planned", "failed"} /\ begun < MaxQueries
    /\ q.pin <= Len(dim)
    /\ begun' = begun + 1
    /\ LET pl == [pc |-> "bound", q |-> q, at |-> IF q.pin = 0 THEN Len(dim) ELSE q.pin,
                  side |-> q.fact, type |-> q.type, mode |-> q.mode,
                  parts |-> IF q.mode = "CollectLeft" THEN 1 ELSE 2,
                  bound |-> NoBound, of |-> 0]
       IN  plan' = [plan EXCEPT ![p] =
                       IF FactIsScan(q) /\ q.fact = "left" /\ DimSmall(q) THEN SwapInputs(pl) ELSE pl]
    /\ UNCHANGED <<dim, cache>>

(* range_is_selective. *)
Selective(keys) == Max(keys) - Min(keys) + 1 <= 4 * Cardinality(keys)

(* Mutant: keys that make no tight range are cut to the list's limit. *)
ConstraintCut(rows, filter, column) ==
    LET found == Filtered(rows, filter)
        keys == {d[column] : d \in found} \ {Null}
    IN  IF Cardinality(found) > MaxDimRows \/ keys = {} THEN NoBound
        ELSE IF Selective(keys) THEN [kind |-> "range", lo |-> Min(keys), hi |-> Max(keys)]
        ELSE [kind |-> "in", set |-> CHOOSE S \in SUBSET keys :
                 Cardinality(S) = (IF Cardinality(keys) < MaxInList THEN Cardinality(keys) ELSE MaxInList)]

(* plan_time_join_key_constraint. *)
Constraint(rows, filter, column) ==
    LET found == Filtered(rows, filter)
        keys == {d[column] : d \in found} \ {Null}
    IN  IF Cardinality(found) > MaxDimRows \/ keys = {} THEN NoBound
        ELSE IF Selective(keys) THEN [kind |-> "range", lo |-> Min(keys), hi |-> Max(keys)]
        ELSE IF Cardinality(keys) <= MaxInList THEN [kind |-> "in", set |-> keys]
        ELSE NoBound

(* cache_key: the snapshot is the one that was asked for, none for the     *)
(* current one.                                                            *)
CacheKey(q) == <<q.pin, q.filter, q.name>>

WithBound(p, bound, of) ==
    plan' = [plan EXCEPT ![p].pc = "collect", ![p].bound = bound, ![p].of = of]

(* push_fk_bounds: a dimension without a filter gives no bound; else the   *)
(* cache is asked, whatever the type of the join.                          *)
Resolve(p) ==
    /\ plan[p].pc = "bound"
    /\ LET q == plan[p].q
           k == CacheKey(q)
       IN  IF q.filter = "none" THEN WithBound(p, NoBound, 0)
           ELSE IF k \in DOMAIN cache THEN WithBound(p, cache[k].bound, cache[k].of)
           ELSE plan' = [plan EXCEPT ![p].pc = "reading"]
    /\ UNCHANGED <<dim, cache, begun>>

(* The keys are read with the lock released.  A key the dimension's table  *)
(* does not have under that name fails the query.                          *)
ReadKeys(p) ==
    /\ plan[p].pc = "reading"
    /\ LET q == plan[p].q
           c == Constraint(dim[plan[p].at], q.filter, q.name)
           entry == [bound |-> c, of |-> plan[p].at]
       IN  IF q.name = "absent"
           THEN /\ plan' = [plan EXCEPT ![p].pc = "failed"]
                /\ UNCHANGED cache
           ELSE /\ cache' = [k \in DOMAIN cache \cup {CacheKey(q)} |->
                                IF k = CacheKey(q) THEN entry ELSE cache[k]]
                /\ WithBound(p, c, plan[p].at)
    /\ UNCHANGED <<dim, begun>>

(* Mutant: the build side of a join made CollectLeft is left as it is. *)
CollectedAsIs(pl) == [pl EXCEPT !.mode = "CollectLeft"]

(* ensure_collect_left_build_side. *)
Collected(pl) == [pl EXCEPT !.mode = "CollectLeft", !.parts = 1]

(* IcebergCollectLeft: not under an aggregate.  A fact scan that has got a *)
(* bound is not fact-like any more.                                        *)
CollectLeft(p) ==
    /\ plan[p].pc = "collect"
    /\ LET pl == plan[p]
           q == pl.q
           unbound == pl.bound = NoBound \/ q.shape = "hidden"
           eligible == FactIsScan(q) /\ unbound /\ DimSmall(q)
           out == IF q.grouped THEN pl
                  ELSE IF pl.mode = "CollectLeft" THEN Collected(pl)
                  ELSE IF ~eligible THEN pl
                  ELSE IF pl.side = "left" THEN Collected(SwapInputs(pl))
                  ELSE Collected(pl)
       IN  plan' = [plan EXCEPT ![p] = [out EXCEPT !.pc = "planned"]]
    /\ UNCHANGED <<dim, cache, begun>>

(* An INSERT into the dimension commits. *)
Insert(d) ==
    /\ Len(dim) < MaxVersions
    /\ dim' = Append(dim, dim[Len(dim)] \cup {d})
    /\ UNCHANGED <<cache, plan, begun>>

JoinNext ==
    \/ \E p \in Planners : \E q \in Queries : Begin(p, q)
    \/ \E p \in Planners : Resolve(p) \/ ReadKeys(p) \/ CollectLeft(p)
    \/ \E d \in Inserts : Insert(d)

JoinSpec == JoinInit /\ [][JoinNext]_join_vars

-----------------------------------------------------------------------------
(* Where the rule does change what a query returns.                        *)
(* The join returns fact rows that match nothing. *)
KeepsFactRows(pl) == Norm(pl.type, pl.side) \in {"Left", "Full", "LeftAnti"}

(* Null equals null, and the bound has no null. *)
NullsMatch(pl) == pl.q.nulls

(* A name denotes another column, or a column of another scan too. *)
Misnamed(pl) ==
    \/ pl.q.shape \in {"self", "renamed"}
    \/ pl.q.name = "other"
    \/ pl.q.large /\ pl.q.twin = "other"

(* A row of the fact side is computed from fact rows with other keys, or   *)
(* is there because of them.                                               *)
Recomputed(pl) == pl.q.shape \in {"topk", "window", "maxkey"}

(* The bound was read from another snapshot than the plan's. *)
Stale(pl) == pl.of # 0 /\ pl.of # pl.at

(* The bound is on the dimension's key too, and its rows without a key are *)
(* returned.                                                               *)
LosesDimRows(pl) ==
    /\ pl.q.large /\ pl.q.twin = "key"
    /\ Norm(pl.type, pl.side) \in {"Right", "Full", "RightAnti"}

(* One of these cases, with a bound. *)
MayChange(pl) ==
    /\ pl.bound # NoBound
    /\ \/ KeepsFactRows(pl) \/ NullsMatch(pl) \/ Misnamed(pl) \/ Recomputed(pl)
       \/ Stale(pl) \/ LosesDimRows(pl)

(* Whatever was planned at the same time, inserted and cached before, a    *)
(* planned query returns the rows the join as written returns on the       *)
(* snapshot it was resolved to, unless one of the cases above holds: the   *)
(* rule asks for none of them.                                             *)
ResultKept ==
    \A p \in Planners :
        LET pl == plan[p] IN
        pl.pc = "planned" =>
            \/ MayChange(pl)
            \/ Result(pl.q, pl.type, pl.side, dim[pl.at], pl.bound)
                   = Result(pl.q, pl.q.type, pl.q.fact, dim[pl.at], NoBound)

(* A join this project broadcasts collects the dimension, in a single      *)
(* partition, and never the fact table.                                    *)
BroadcastsDimension ==
    \A p \in Planners :
        LET pl == plan[p] IN
        pl.pc = "planned" /\ pl.mode = "CollectLeft" =>
            pl.parts = 1 /\ (pl.q.mode = "Partitioned" => pl.side = "right")

=============================================================================
