----------------------------- MODULE MCFkBounds ------------------------------
(***************************************************************************)
(* Under the filter "a" two keys make a list, three are too many for one   *)
(* and four rows are as many as are read; "b" gives a range.               *)
(***************************************************************************)
EXTENDS FkBounds, TLC

Row(k, o, a) == [key |-> k, other |-> o, attr |-> a]
MCFirstRows == {Row(1, 2, "a"), Row(20, 2, "a"), Row(Null, 20, "a"), Row(2, 2, "b")}
MCInserts == {Row(2, 1, "a"), Row(21, 1, "a")}
Fact(k, w, t) == [k |-> k, w |-> w, time |-> t]
MCFactRows == {Fact(1, 2, 3), Fact(2, 20, 1), Fact(20, 2, 2), Fact(Null, 1, 4), Fact(2, 2, 5)}

Query(t, f, sh, n, nu, l) ==
    [pin |-> 0, type |-> t, fact |-> f, filter |-> "a", shape |-> sh, name |-> n, nulls |-> nu,
     large |-> l, twin |-> "key", mode |-> "Partitioned", grouped |-> FALSE]

Plain == Query("Inner", "right", "scan", "key", FALSE, FALSE)

(* Every type of join on either side, and each other difference alone. *)
MCQueries ==
    {Query(t, "right", "scan", "key", FALSE, FALSE) : t \in Types}
    \cup {Query(t, "left", "scan", "key", FALSE, FALSE) : t \in {"Left", "RightAnti"}}
    \cup {Query(t, "right", "scan", "key", FALSE, TRUE) : t \in {"Inner", "Left"}}
    \cup {[Plain EXCEPT !.large = TRUE, !.twin = tw] : tw \in {"none", "other"}}
    \cup {Query("Inner", "left", sh, "key", FALSE, FALSE) : sh \in Shapes}
    \cup {Query("Inner", "right", "scan", n, FALSE, FALSE) : n \in {"other", "absent"}}
    \cup {[Plain EXCEPT !.pin = 1], [Plain EXCEPT !.filter = "b"], [Plain EXCEPT !.grouped = TRUE],
          [Plain EXCEPT !.nulls = TRUE]}
    \cup {[Plain EXCEPT !.filter = "none", !.large = l, !.mode = m] :
             l \in BOOLEAN, m \in {"Partitioned", "CollectLeft"}}

PlannerSymmetry == Permutations(Planners)

=============================================================================
