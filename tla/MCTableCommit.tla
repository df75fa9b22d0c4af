--------------------------- MODULE MCTableCommit ---------------------------
(* One table that inserts and a property update are for, a second name to   *)
(* rename it to, and tables of other engines that can be registered.        *)
EXTENDS TableCommit, FiniteSets, TLC

CONSTANTS t1, t2, i1, i2, i3, s1, f1, f2, g1, other

\* i2 and i3 add the same file, which no other has.
MCFilesOf == [w \in Appenders |-> IF w = i1 THEN {f1} ELSE {f2}]
MCTarget == [w \in Writers |-> t1]
\* A table whose metadata file is named v1.metadata.json.
HadoopTable ==
  [uuid |-> MaxTables, versioned |-> FALSE, main |-> <<other, 1>>, last_seq |-> 1,
   props |-> {},
   snapshots |-> {[id |-> <<other, 1>>, parent |-> NoSnapshot, seq |-> 1,
                   manifests |-> {[id |-> <<other, 1>>, files |-> {g1}]}]}]
MCExternal == {HadoopTable}
\* i2 and i3 differ in nothing but their names.
MCSymmetry == Permutations({i2, i3})

\* Bound: three transactions on the one table created, two when a second one is.
WorkBound == created + Cardinality({w \in Writers : pc[w] # "idle"}) <= 4
============================================================================
