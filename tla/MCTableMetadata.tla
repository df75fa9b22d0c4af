-------------------------- MODULE MCTableMetadata ---------------------------
(* Both halves of the metadata builder on small tables.  An update of one   *)
(* half reads nothing of the other, so a behaviour follows one half and     *)
(* leaves the other at its initial state.                                   *)
EXTENDS TableDefinitions, TableHistory, TLC

CONSTANTS s1, s2

VARIABLE half

Col(i, n, p) == [id |-> i, name |-> n, primitive |-> p]
a == Col(1, "a", TRUE)
b == Col(2, "b", TRUE)
nested == Col(2, "b", FALSE)
p == Col(3, "p", TRUE)

\* Column b comes, goes and turns into a struct; a column takes a partition's name.
MCSchemas == {{a}, {a, b}, {b}, {a, nested}, {a, p}}

On(i, t, n, k) == [source |-> i, transform |-> t, name |-> n, fid |-> k]
\* Id 1000 is the first field's of a new table; the last spec brings an id that
\* the field before it has to skip.
MCSpecs == {<< >>, <<On(1, "identity", "a", None)>>, <<On(1, "bucket", "p", None)>>,
            <<On(2, "void", "q", None), On(1, "bucket", "r", None)>>,
            <<On(1, "bucket", "p", 1000)>>,
            <<On(1, "identity", "a", None), On(1, "bucket", "r", 1000)>>,
            <<On(2, "void", "q", None), On(1, "bucket", "r", 1001)>>}
MCOrders == {<< >>, <<1>>, <<2>>}

MCSnapshotIds == {s1, s2}
Perms == Permutations(MCSnapshotIds)

OneTable ==
    /\ schemas = [i \in {0} |-> {a}]
    /\ default_spec.fields = << >>
    /\ sort_orders[default_sort_order_id] = << >>
    /\ format_version = 2

\* Tables as created: v1 or v2, sorted or not.
NewTable ==
    /\ schemas[0] = {a}
    /\ format_version \in {1, 2}
    /\ partition_specs[0] # << >>

MCInit ==
    /\ InitDefinitions /\ InitHistory
    /\ half \in {"definitions", "history"}
    /\ half = "history" => OneTable
    /\ half = "definitions" => NewTable /\ version = 2

MCNext ==
    /\ UNCHANGED half
    /\ \/ half = "definitions" /\ NextDefinitions /\ UNCHANGED histVars
       \/ half = "history" /\ NextHistory /\ UNCHANGED defVars

MCSpec == MCInit /\ [][MCNext]_<<defVars, histVars, half>>

=============================================================================
