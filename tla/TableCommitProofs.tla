------------------------- MODULE TableCommitProofs -------------------------
(***************************************************************************)
(* Proofs about TableCommit for any set of transactions, tables and        *)
(* external metadata and any number of retries: CommitInv is inductive, no *)
(* data file is in a snapshot twice, the history of a table is one line,   *)
(* and transactions on the memory catalog implement AppendLog.             *)
(***************************************************************************)
EXTENDS TableCommit, TLAPS

\* Every loaded table is a table.
LEMMA LoadedType == TypeOK => Loaded \subseteq Metadata
BY ExternalAssumption DEF TypeOK, Loaded

\* The table of a name that load_table can read is loaded.
LEMMA ReadableLoaded ==
  ASSUME TypeOK, NEW n \in Names, Readable(n)
  PROVE  catalog[n] \in Loaded /\ catalog[n] \in Metadata
BY NoneAssumption DEF TypeOK, Readable, Loaded

\* A step after which no table is loaded that was not loaded before, and no
\* success is taken back, keeps what holds of loaded tables.
LEMMA NothingLoaded ==
  ASSUME CommitInv, Loaded' \subseteq Loaded, created' = created,
         \A w \in Writers : pc[w] = "ok" => pc'[w] = "ok"
  PROVE  IdInv' /\ FreshInv' /\ TableInv'
<1>1. IdInv'
  BY DEF CommitInv, IdInv, Writers
<1>2. FreshInv'
  <2>1. \A k \in Loaded : k.props \subseteq Writers
    BY LoadedType DEF CommitInv, Metadata, Writers
  <2> QED BY <2>1 DEF CommitInv, FreshInv
<1>3. TableInv'
  BY DEF CommitInv, TableInv
<1> QED BY <1>1, <1>2, <1>3

\* The current snapshot of a linear table with one snapshot per id.
LEMMA CurrentIsMain ==
  ASSUME NEW meta \in Metadata, Linear(meta),
         \A s, t \in meta.snapshots : s.id = t.id => s = t
  PROVE  /\ meta.snapshots = {} <=> meta.main = NoSnapshot
         /\ \A p \in Current(meta) :
              /\ p.seq = meta.last_seq /\ Manifests(meta) = p.manifests
              /\ \A s \in meta.snapshots : s.parent # p.id
         /\ meta.snapshots # {} => Current(meta) # {}
<1>1. meta.snapshots \subseteq Snapshot /\ meta.last_seq \in Nat
  BY DEF Metadata
<1>2. meta.snapshots # {} => \E s \in meta.snapshots : s.id = meta.main /\ s.seq = meta.last_seq
  BY DEF Linear
<1>3. meta.snapshots = {} <=> meta.main = NoSnapshot
  BY <1>1, <1>2, NoneAssumption DEF Linear, Snapshot
<1>4. ASSUME NEW p \in Current(meta)
      PROVE  /\ p.seq = meta.last_seq /\ Manifests(meta) = p.manifests
             /\ \A s \in meta.snapshots : s.parent # p.id
  <2>1. p \in meta.snapshots /\ p.id = meta.main
    BY <1>4 DEF Current
  <2>2. p.seq = meta.last_seq
    BY <1>2, <2>1
  <2>3. Current(meta) = {p}
    BY <2>1 DEF Current
  <2>4. Manifests(meta) = p.manifests
    BY <2>3 DEF Manifests
  <2>5. ASSUME NEW s \in meta.snapshots, s.parent = p.id PROVE FALSE
    <3>1. s \in Snapshot /\ p \in Snapshot /\ p.id # NoSnapshot
      BY <1>1, <2>1, NoneAssumption DEF Snapshot
    <3>2. PICK q \in meta.snapshots : q.id = s.parent /\ q.seq < s.seq
      BY <2>5, <3>1 DEF Linear
    <3>3. q = p
      BY <2>1, <2>5, <3>2
    <3>4. s.seq <= meta.last_seq
      BY DEF Linear
    <3> QED BY <2>2, <3>1, <3>2, <3>3, <3>4 DEF Snapshot
  <2> QED BY <2>2, <2>4, <2>5
<1>5. meta.snapshots # {} => Current(meta) # {}
  BY <1>2 DEF Current
<1> QED BY <1>3, <1>4, <1>5

\* The new manifest of an append.
Added(w) == [id |-> <<w, attempt[w]>>, files |-> FilesOf[w]]

\* What SnapshotProducer builds is a snapshot.
LEMMA NewSnapshotType ==
  ASSUME TypeOK, NEW w \in Appenders, base[w] \in Metadata
  PROVE  NewSnapshot(w) \in Snapshot /\ Added(w) \in Manifest
<1> DEFINE id == <<w, attempt[w]>>
<1>1. w \in Writers /\ attempt[w] \in Nat
  BY WriterAssumption DEF Writers, TypeOK
<1>2. id \in Ids
  BY <1>1 DEF Ids
<1>3. Added(w) \in Manifest
  BY <1>2, WriterAssumption DEF Added, Manifest
<1>4. base[w].snapshots \subseteq Snapshot
  BY DEF Metadata
<1>5. Manifests(base[w]) \subseteq Manifest
  BY <1>4 DEF Manifests, Current, Snapshot
<1>6. base[w].main \in Ids \cup {NoSnapshot} /\ base[w].last_seq + 1 \in Nat
  BY DEF Metadata
<1>7. NewSnapshot(w) =
        [id |-> id, parent |-> base[w].main, seq |-> base[w].last_seq + 1,
         manifests |-> Manifests(base[w]) \cup {Added(w)}]
  BY DEF NewSnapshot, Added
<1> HIDE DEF id
<1> QED BY <1>2, <1>3, <1>5, <1>6, <1>7 DEF Snapshot

\* The base of an append whose requirements hold has the current manifests and
\* sequence number of the table, unless the table has no snapshot yet.
LEMMA BaseIsCurrent ==
  ASSUME CommitInv, NEW w \in Appenders, pc[w] = "update",
         NEW meta \in Loaded, Requirements(w, meta)
  PROVE  /\ base[w] \in Loaded /\ base[w].main = meta.main
         /\ Manifests(base[w]) = Manifests(meta)
         /\ meta.snapshots # {} => base[w].last_seq = meta.last_seq
<1>1. w \in Writers /\ base[w] \in Metadata
  BY DEF CommitInv, BaseInv, TypeOK, Writers
<1>2. base[w] \in Loaded
  BY <1>1, NoneAssumption DEF Loaded
<1>3. base[w].main = meta.main
  BY DEF Requirements
<1>4. meta \in Metadata
  BY LoadedType DEF CommitInv
<1>5. Linear(meta) /\ Linear(base[w])
  BY <1>2 DEF CommitInv, TableInv
<1>6. /\ \A s, t \in meta.snapshots : s.id = t.id => s = t
      /\ \A s, t \in base[w].snapshots : s.id = t.id => s = t
      /\ \A s \in meta.snapshots, t \in base[w].snapshots : s.id = t.id => s = t
  BY <1>2 DEF CommitInv, IdInv
<1>7. CASE meta.snapshots = {}
  <2>1. base[w].snapshots = {}
    BY <1>1, <1>3, <1>4, <1>5, <1>6, <1>7, CurrentIsMain
  <2> QED BY <1>2, <1>3, <1>7, <2>1 DEF Manifests, Current
<1>8. CASE meta.snapshots # {}
  <2>1. base[w].snapshots # {}
    BY <1>1, <1>3, <1>4, <1>5, <1>6, <1>8, CurrentIsMain
  <2>2. PICK p \in Current(meta), q \in Current(base[w]) : TRUE
    BY <1>1, <1>4, <1>5, <1>6, <1>8, <2>1, CurrentIsMain
  <2>3. p = q
    BY <1>3, <1>6, <2>2 DEF Current
  <2>4. /\ p.seq = meta.last_seq /\ Manifests(meta) = p.manifests
        /\ q.seq = base[w].last_seq /\ Manifests(base[w]) = q.manifests
    BY <1>1, <1>4, <1>5, <1>6, <2>2, CurrentIsMain
  <2> QED BY <1>2, <1>3, <2>3, <2>4
<1> QED BY <1>7, <1>8

\* The snapshot of an append is new, and the table with it is again a line of
\* snapshots without a file twice.
LEMMA AppendGood ==
  ASSUME CommitInv, NEW w \in Appenders, pc[w] = "update",
         NEW meta \in Loaded, Requirements(w, meta),
         NEW new, new = AddSnapshot(meta, NewSnapshot(w))
  PROVE  /\ new \in Metadata /\ FilesOnce(new) /\ Linear(new)
         /\ \A m \in Loaded : \A t \in m.snapshots : t.id # NewSnapshot(w).id
         /\ Manifests(new) = Manifests(meta) \cup {Added(w)}
         /\ validate_duplicate_files(w, meta)
<1> DEFINE s == NewSnapshot(w)
           b == base[w]
<1>1. b \in Loaded /\ meta \in Metadata /\ b \in Metadata
  BY BaseIsCurrent, LoadedType DEF CommitInv
<1>2. s \in Snapshot /\ Added(w) \in Manifest
  BY <1>1, NewSnapshotType DEF CommitInv
<1>3. /\ s.id = <<w, attempt[w]>> /\ s.parent = b.main /\ s.seq = b.last_seq + 1
      /\ s.manifests = Manifests(b) \cup {Added(w)}
  BY DEF NewSnapshot, Added
<1>4. /\ b.main = meta.main /\ Manifests(b) = Manifests(meta)
      /\ meta.snapshots # {} => b.last_seq = meta.last_seq
  BY BaseIsCurrent
<1>5. /\ new.snapshots = meta.snapshots \cup {s} /\ new.main = s.id /\ new.last_seq = s.seq
      /\ new \in Metadata
  <2> HIDE DEF s
  <2>1. new = [meta EXCEPT !.snapshots = @ \cup {s}, !.main = s.id, !.last_seq = s.seq]
    BY DEF AddSnapshot, s
  <2>2. s.id \in Ids \cup {NoSnapshot} /\ s.seq \in Nat
    BY <1>2 DEF Snapshot
  <2>3. meta.snapshots \cup {s} \in SUBSET Snapshot
    BY <1>1, <1>2 DEF Metadata
  <2>4. /\ new.snapshots = meta.snapshots \cup {s} /\ new.main = s.id /\ new.last_seq = s.seq
    BY <1>1, <2>1 DEF Metadata
  <2>5. new \in Metadata
    BY <1>1, <2>1, <2>2, <2>3 DEF Metadata
  <2> QED BY <2>4, <2>5
<1>6. validate_duplicate_files(w, b) /\ validate_duplicate_files(w, meta)
  BY <1>4 DEF CommitInv, BaseInv, Writers, validate_duplicate_files
<1>7. \A m \in Loaded : \A t \in m.snapshots : t.id # s.id
  BY <1>3 DEF CommitInv, IdInv
<1>8. FilesOnce(meta) /\ Linear(meta) /\ FilesOnce(b)
  BY <1>1 DEF CommitInv, TableInv
<1>9. \A t, u \in meta.snapshots : t.id = u.id => t = u
  BY DEF CommitInv, IdInv
<1> HIDE DEF s, b
<1>10. FilesOnce(new)
  <2>1. \A k, m \in Manifests(meta) : k # m => k.files \cap m.files = {}
    BY <1>1, <1>8, <1>9, CurrentIsMain DEF FilesOnce, Manifests, Current
  <2>2. \A k \in Manifests(meta) : k.files \cap Added(w).files = {}
    BY <1>6 DEF validate_duplicate_files, FilesIn, Added
  <2>3. \A k, m \in s.manifests : k # m => k.files \cap m.files = {}
    BY <1>3, <1>4, <2>1, <2>2
  <2> QED BY <1>5, <1>8, <2>3 DEF FilesOnce
<1>11. Linear(new)
  <2>1. \A p \in Current(meta) : /\ p.seq = meta.last_seq /\ Manifests(meta) = p.manifests
                                 /\ \A t \in meta.snapshots : t.parent # p.id
    BY <1>1, <1>8, <1>9, CurrentIsMain
  <2>2. meta.snapshots = {} <=> meta.main = NoSnapshot
    BY <1>1, <1>8, <1>9, CurrentIsMain
  <2>3. meta.snapshots # {} => \E p \in Current(meta) : p \in meta.snapshots /\ p.id = meta.main
    BY <1>1, <1>8, <1>9, CurrentIsMain DEF Current
  <2>4. \A t \in meta.snapshots : t.parent # s.parent
    BY <1>3, <1>4, <2>1, <2>3
  <2>5. \A t, u \in new.snapshots : t.parent = u.parent => t = u
    BY <1>5, <1>8, <2>4 DEF Linear
  <2>6. b.last_seq \in Nat /\ meta.last_seq \in Nat /\ \A t \in meta.snapshots : t.seq \in Nat
    BY <1>1 DEF Metadata, Snapshot
  <2>7. ASSUME s.parent # NoSnapshot
        PROVE  \E p \in new.snapshots : p.id = s.parent /\ p.seq < s.seq /\ p.manifests \subseteq s.manifests
    <3>1. PICK p \in Current(meta) : p \in meta.snapshots /\ p.id = meta.main
      BY <1>3, <1>4, <2>2, <2>3, <2>7
    <3>2. p.seq = meta.last_seq /\ Manifests(meta) = p.manifests
      BY <2>1
    <3>3. b.last_seq = meta.last_seq
      BY <1>4, <3>1
    <3>4. p.seq < s.seq
      BY <1>3, <2>6, <3>2, <3>3
    <3> QED BY <1>3, <1>4, <1>5, <3>1, <3>2, <3>4
  <2>8. ASSUME NEW t \in meta.snapshots, t.parent # NoSnapshot
        PROVE  \E p \in new.snapshots : p.id = t.parent /\ p.seq < t.seq /\ p.manifests \subseteq t.manifests
    BY <1>5, <1>8, <2>8 DEF Linear
  <2>9. ASSUME NEW t \in new.snapshots PROVE t.seq <= new.last_seq
    <3>1. CASE t = s
      BY <1>3, <1>5, <2>6, <3>1
    <3>2. CASE t \in meta.snapshots
      <4>1. t.seq <= meta.last_seq /\ b.last_seq = meta.last_seq
        BY <1>4, <1>8, <3>2 DEF Linear
      <4> QED BY <1>3, <1>5, <2>6, <3>2, <4>1
    <3> QED BY <1>5, <3>1, <3>2
  <2> QED BY <1>5, <2>5, <2>7, <2>8, <2>9 DEF Linear
<1>12. Manifests(new) = Manifests(meta) \cup {Added(w)}
  <2>1. Current(new) = {s}
    BY <1>5, <1>7 DEF Current
  <2> QED BY <1>3, <1>4, <2>1 DEF Manifests
<1> QED BY <1>5, <1>6, <1>7, <1>10, <1>11, <1>12 DEF s

\* A step after which one more table is loaded, which shares no snapshot id
\* with another snapshot and whose appends have all succeeded.
LEMMA OneLoaded ==
  ASSUME CommitInv, NEW new, Loaded' \subseteq Loaded \cup {new},
         \A w \in Writers : pc[w] = "ok" => pc'[w] = "ok",
         FilesOnce(new), Linear(new),
         \A s \in new.snapshots : s.id[1] \in Appenders => pc'[s.id[1]] = "ok",
         \A s, t \in new.snapshots : s.id = t.id => s = t,
         \A s \in new.snapshots : \A m \in Loaded : \A t \in m.snapshots : s.id = t.id => s = t,
         created' \in Nat, created' >= created,
         \A w \in new.props : pc'[w] = "ok", new.uuid \notin created' .. MaxTables - 1
  PROVE  IdInv' /\ FreshInv' /\ TableInv'
<1>1. TableInv'
  BY DEF CommitInv, TableInv
<1>4. FreshInv'
  <2>1. \A k \in Loaded : k.props \subseteq Writers /\ k.uuid \in Nat
    BY LoadedType DEF CommitInv, Metadata, Writers
  <2>2. ASSUME NEW k \in Loaded
        PROVE  (\A w \in k.props : pc'[w] = "ok") /\ k.uuid \notin created' .. MaxTables - 1
    BY <2>1, WriterAssumption DEF CommitInv, TypeOK, FreshInv
  <2> QED BY <2>2 DEF FreshInv
<1>2. ASSUME NEW k \in Loaded', NEW m \in Loaded', NEW s \in k.snapshots
      PROVE  /\ \A t \in m.snapshots : s.id = t.id => s = t
             /\ s.id[1] \in Appenders => pc'[s.id[1]] = "ok"
  <2>1. CASE k \in Loaded /\ m \in Loaded
    BY <1>2, <2>1 DEF CommitInv, IdInv, Writers
  <2>2. CASE k \in Loaded /\ m = new
    BY <1>2, <2>2 DEF CommitInv, IdInv, Writers
  <2>3. CASE k = new
    BY <1>2, <2>3
  <2> QED BY <2>1, <2>2, <2>3
<1>3. IdInv'
  BY <1>2 DEF IdInv
<1> QED BY <1>1, <1>3, <1>4

-----------------------------------------------------------------------------
(* CommitInv holds initially and every action keeps it                      *)

\* The empty catalog satisfies the invariant.
LEMMA InitInv == Init => CommitInv
<1> SUFFICES ASSUME Init PROVE CommitInv
  OBVIOUS
<1>1. TypeOK
  BY WriterAssumption, ExternalAssumption DEF Init, TypeOK, Outcomes
<1>2. Loaded \subseteq External
  BY DEF Init, Loaded
<1>3. IdInv
  BY <1>2, ExternalAssumption, WriterAssumption DEF IdInv
<1>4. TableInv
  BY <1>2, ExternalAssumption DEF TableInv
<1>5. BaseInv
  BY DEF Init, BaseInv
<1>6. FreshInv
  <2>1. \A k \in External : k.uuid \in Nat /\ k.uuid >= MaxTables /\ k.props = {}
    BY ExternalAssumption DEF Metadata
  <2>2. created = 0
    BY DEF Init
  <2> QED BY <1>2, <2>1, <2>2, WriterAssumption DEF FreshInv
<1> QED BY <1>1, <1>3, <1>4, <1>5, <1>6 DEF CommitInv

\* The table of create_table.
LEMMA EmptyGood ==
  ASSUME CommitInv, created < MaxTables
  PROVE  /\ EmptyTable(created) \in Metadata \ Loaded
         /\ FilesOnce(EmptyTable(created)) /\ Linear(EmptyTable(created))
<1>1. created \in Nat /\ MaxTables \in Nat
  BY WriterAssumption DEF CommitInv, TypeOK
<1>2. EmptyTable(created) \in Metadata
  BY <1>1 DEF EmptyTable, Metadata
<1>3. EmptyTable(created).uuid = created
  BY DEF EmptyTable
<1>4. EmptyTable(created) \notin Loaded
  BY <1>1, <1>3 DEF CommitInv, FreshInv
<1>5. FilesOnce(EmptyTable(created)) /\ Linear(EmptyTable(created))
  BY DEF EmptyTable, FilesOnce, Linear
<1> QED BY <1>2, <1>4, <1>5

\* create_table loads a table without snapshots.
LEMMA CreateInv ==
  ASSUME CommitInv, NEW n \in Names, create_table(n)
  PROVE  CommitInv'
<1> DEFINE new == EmptyTable(created)
<1>1. new \in Metadata \ Loaded /\ FilesOnce(new) /\ Linear(new)
  BY EmptyGood DEF create_table
<1>2. new.snapshots = {} /\ new.props = {} /\ new.uuid = created
  BY DEF EmptyTable
<1>3. /\ created < MaxTables /\ created' = created + 1 /\ files' = files \cup {new}
      /\ catalog' = [catalog EXCEPT ![n] = new] \/ catalog' = catalog
      /\ pc' = pc /\ base' = base /\ attempt' = attempt
  BY DEF create_table, Locate, trans
<1> HIDE DEF new
<1>4. TypeOK'
  BY <1>1, <1>3, WriterAssumption DEF CommitInv, TypeOK
<1>5. Loaded' \subseteq Loaded \cup {new}
  BY <1>3 DEF CommitInv, TypeOK, Loaded
<1>6. /\ created' \in Nat /\ created' >= created /\ created \notin created' .. MaxTables - 1
      /\ pc' = pc
  BY <1>3, WriterAssumption DEF CommitInv, TypeOK
<1>7. IdInv' /\ FreshInv' /\ TableInv'
  BY <1>1, <1>2, <1>5, <1>6, OneLoaded
<1>8. BaseInv'
  BY <1>3 DEF CommitInv, BaseInv, validate_duplicate_files
<1> QED BY <1>4, <1>7, <1>8 DEF CommitInv

\* register_table, drop_table and rename_table load nothing new.
LEMMA MoveInv ==
  ASSUME CommitInv, NEW n \in Names,
         \/ drop_table(n)
         \/ \E meta \in files \cup External : register_table(n, meta)
         \/ \E m \in Names : rename_table(n, m)
  PROVE  CommitInv'
<1>1. pc' = pc /\ base' = base /\ attempt' = attempt /\ created' = created
  BY DEF drop_table, register_table, rename_table, trans
<1>2. TypeOK' /\ Loaded' \subseteq Loaded
  <2>1. CASE drop_table(n)
    BY <1>1, <2>1 DEF CommitInv, TypeOK, drop_table, Locate, Loaded
  <2>2. ASSUME NEW meta \in files \cup External, register_table(n, meta)
        PROVE  TypeOK' /\ Loaded' \subseteq Loaded
    <3>1. meta \in Metadata
      BY ExternalAssumption DEF CommitInv, TypeOK
    <3> QED BY <1>1, <2>2, <3>1 DEF CommitInv, TypeOK, register_table, Locate, Loaded
  <2>3. ASSUME NEW m \in Names, rename_table(n, m)
        PROVE  TypeOK' /\ Loaded' \subseteq Loaded
    BY <1>1, <2>3 DEF CommitInv, TypeOK, rename_table, Loaded
  <2> QED BY <2>1, <2>2, <2>3
<1>3. IdInv' /\ FreshInv' /\ TableInv'
  BY <1>1, <1>2, NothingLoaded
<1>4. BaseInv'
  BY <1>1 DEF CommitInv, BaseInv, validate_duplicate_files
<1> QED BY <1>2, <1>3, <1>4 DEF CommitInv

\* A step of a transaction that leaves the catalog alone and either returns or
\* takes the base from the catalog after the checks.
LEMMA WaitInv ==
  ASSUME CommitInv, NEW w \in Writers, UNCHANGED tables, pc[w] \notin Outcomes,
         \/ Return(w, "failed")
         \/ Goto(w, "refresh") /\ UNCHANGED base /\ attempt' \in [Writers -> 0 .. MaxRetries]
         \/ /\ Accepted(w) /\ Goto(w, "update") /\ UNCHANGED attempt
            /\ base' = [base EXCEPT ![w] = catalog[Target[w]]]
  PROVE  CommitInv'
<1>1. UNCHANGED <<catalog, files, created>>
  BY DEF tables
<1>2. Target[w] \in Names
  BY WriterAssumption
<1>3. Accepted(w) => catalog[Target[w]] \in Loaded /\ catalog[Target[w]] \in Metadata
  BY <1>2, ReadableLoaded DEF CommitInv, Accepted
<1>4. TypeOK'
  BY <1>1, <1>3, WriterAssumption DEF CommitInv, TypeOK, Return, Goto, Outcomes
<1>5. Loaded' \subseteq Loaded
  BY <1>1, <1>3 DEF CommitInv, TypeOK, Return, Loaded
<1>6. \A v \in Writers : pc[v] = "ok" => pc'[v] = "ok"
  BY DEF CommitInv, TypeOK, Return, Goto, Outcomes
<1>7. IdInv' /\ FreshInv' /\ TableInv'
  BY <1>1, <1>5, <1>6, NothingLoaded
<1>8. BaseInv'
  BY <1>1, <1>3, NoneAssumption
     DEF CommitInv, TypeOK, BaseInv, Return, Goto, Accepted, validate_duplicate_files
<1> QED BY <1>4, <1>7, <1>8 DEF CommitInv

\* Every step of a transaction but update_table is such a step.
LEMMA StepWaits ==
  ASSUME CommitInv, NEW w \in Writers,
         \/ insert_into(w) \/ update_table_properties(w) \/ do_commit(w)
         \/ UpdateFails(w) \/ CommitConflicts(w) \/ Fails(w)
  PROVE  CommitInv'
<1>1. CASE insert_into(w) \/ update_table_properties(w)
  BY <1>1, WaitInv DEF CommitInv, TypeOK, insert_into, update_table_properties, Begin, Outcomes, trans
<1>2. CASE do_commit(w)
  BY <1>2, WaitInv DEF do_commit, Outcomes
<1>3. CASE UpdateFails(w)
  BY <1>3, WaitInv DEF UpdateFails, Outcomes
<1>4. CASE Fails(w)
  BY <1>4, WaitInv DEF Fails, Outcomes
<1>5. CASE CommitConflicts(w)
  <2>1. pc[w] = "update" /\ UNCHANGED tables
    BY <1>5 DEF CommitConflicts, Conflict
  <2>2. CASE Return(w, "failed")
    BY <2>1, <2>2, WaitInv DEF Outcomes
  <2>3. CASE /\ attempt[w] < MaxRetries /\ attempt' = [attempt EXCEPT ![w] = @ + 1]
             /\ Goto(w, "refresh") /\ UNCHANGED base
    <3>1. attempt' \in [Writers -> 0 .. MaxRetries]
      BY <2>3, WriterAssumption DEF CommitInv, TypeOK
    <3> QED BY <2>1, <2>3, <3>1, WaitInv DEF Outcomes
  <2> QED BY <1>5, <2>2, <2>3 DEF CommitConflicts
<1> QED BY <1>1, <1>2, <1>3, <1>4, <1>5

\* A property update changes nothing that the snapshots depend on.
LEMMA SetterApplied ==
  ASSUME NEW w \in Setters, NEW meta \in Metadata, FilesOnce(meta), Linear(meta),
         NEW new, new = [meta EXCEPT !.props = @ \cup {w}]
  PROVE  /\ new \in Metadata /\ FilesOnce(new) /\ Linear(new)
         /\ new.snapshots = meta.snapshots /\ new.main = meta.main
         /\ new.props = meta.props \cup {w} /\ new.uuid = meta.uuid
<1>1. /\ new.snapshots = meta.snapshots /\ new.main = meta.main /\ new.uuid = meta.uuid
      /\ new.last_seq = meta.last_seq /\ new.props = meta.props \cup {w}
  BY DEF Metadata
<1>2. new \in Metadata
  BY DEF Metadata
<1>3. FilesOnce(new) /\ Linear(new)
  BY <1>1 DEF FilesOnce, Linear
<1> QED BY <1>1, <1>2, <1>3

\* What update_table writes is a new table, for appends and property updates.
LEMMA AppliedGood ==
  ASSUME CommitInv, NEW w \in Writers, pc[w] = "update",
         NEW meta \in Loaded, Requirements(w, meta), NEW new, new = Applied(w, meta)
  PROVE  /\ new \in Metadata /\ FilesOnce(new) /\ Linear(new)
         /\ new \notin Loaded /\ new.uuid = meta.uuid
         /\ \A v \in new.props : v = w \/ v \in meta.props
         /\ \A s \in new.snapshots :
              s \in meta.snapshots \/ (s.id[1] = w /\ s = NewSnapshot(w))
         /\ \A s \in new.snapshots \ meta.snapshots :
              \A m \in Loaded : \A t \in m.snapshots : t.id # s.id
<1>1. meta \in Metadata /\ FilesOnce(meta) /\ Linear(meta)
  BY LoadedType DEF CommitInv, TableInv
<1>2. CASE w \in Appenders
  <2>1. new = AddSnapshot(meta, NewSnapshot(w))
    BY <1>2 DEF Applied
  <2>2. /\ new \in Metadata /\ FilesOnce(new) /\ Linear(new)
        /\ \A m \in Loaded : \A t \in m.snapshots : t.id # NewSnapshot(w).id
    BY <1>2, <2>1, AppendGood
  <2>3. /\ new.snapshots = meta.snapshots \cup {NewSnapshot(w)} /\ NewSnapshot(w).id[1] = w
        /\ new.uuid = meta.uuid /\ new.props = meta.props
    BY <1>1, <2>1 DEF AddSnapshot, NewSnapshot, Metadata
  <2> QED BY <2>2, <2>3
<1>3. CASE w \notin Appenders
  <2>1. new = [meta EXCEPT !.props = @ \cup {w}] /\ w \in Setters
    BY <1>3 DEF Applied, Writers
  <2>2. /\ new \in Metadata /\ FilesOnce(new) /\ Linear(new) /\ new.snapshots = meta.snapshots
        /\ new.props = meta.props \cup {w} /\ new.uuid = meta.uuid
    BY <1>1, <2>1, SetterApplied
  <2>3. new \notin Loaded
    BY <2>2 DEF CommitInv, FreshInv
  <2> QED BY <2>2, <2>3
<1> QED BY <1>2, <1>3

\* update_table loads that table.
LEMMA UpdateInv ==
  ASSUME CommitInv, NEW w \in Writers, update_table(w)
  PROVE  CommitInv'
<1> DEFINE meta == catalog[Target[w]]
           new == Applied(w, meta)
<1>1. Target[w] \in Names /\ Readable(Target[w]) /\ pc[w] = "update" /\ Requirements(w, meta)
  BY WriterAssumption DEF update_table
<1>2. meta \in Loaded /\ meta \in Metadata
  BY <1>1, ReadableLoaded DEF CommitInv
<1>3. /\ catalog' = [catalog EXCEPT ![Target[w]] = new] /\ files' = files \cup {new}
  BY DEF update_table, Locate
<1>4. /\ pc' = [pc EXCEPT ![w] = "ok"] /\ base' = [base EXCEPT ![w] = NoTable]
      /\ attempt' = [attempt EXCEPT ![w] = 0] /\ created' = created
  BY DEF update_table, Return, Goto
<1>5. /\ new \in Metadata /\ FilesOnce(new) /\ Linear(new) /\ new.uuid = meta.uuid
      /\ \A v \in new.props : v = w \/ v \in meta.props
      /\ \A s \in new.snapshots :
           s \in meta.snapshots \/ (s.id[1] = w /\ s = NewSnapshot(w))
      /\ \A s \in new.snapshots \ meta.snapshots :
           \A m \in Loaded : \A t \in m.snapshots : t.id # s.id
  BY <1>1, <1>2, AppliedGood
<1> HIDE DEF meta, new
<1>6. TypeOK'
  <2>1. catalog' \in [Names -> Metadata \cup {NoTable}] /\ files' \subseteq Metadata
    BY <1>3, <1>5 DEF CommitInv, TypeOK
  <2>2. pc' \in [Writers -> {"idle", "refresh", "update"} \cup Outcomes]
    BY <1>4 DEF CommitInv, TypeOK, Outcomes
  <2>3. base' \in [Writers -> Metadata \cup {NoTable}]
    BY <1>4 DEF CommitInv, TypeOK
  <2>4. attempt' \in [Writers -> 0 .. MaxRetries]
    BY <1>4, WriterAssumption DEF CommitInv, TypeOK
  <2> QED BY <1>4, <2>1, <2>2, <2>3, <2>4 DEF CommitInv, TypeOK
<1>7. Loaded' \subseteq Loaded \cup {new}
  BY <1>3, <1>4 DEF CommitInv, TypeOK, Loaded
<1>8. pc'[w] = "ok" /\ \A v \in Writers : pc[v] = "ok" => pc'[v] = "ok"
  BY <1>4 DEF CommitInv, TypeOK
<1>9. \A s \in new.snapshots : s.id[1] \in Appenders => pc'[s.id[1]] = "ok"
  BY <1>2, <1>5, <1>8 DEF CommitInv, IdInv, Writers
<1>10. \A s \in new.snapshots : \A m \in Loaded : \A t \in m.snapshots : s.id = t.id => s = t
  BY <1>2, <1>5 DEF CommitInv, IdInv
<1>11. \A s, t \in new.snapshots : s.id = t.id => s = t
  BY <1>2, <1>5 DEF CommitInv, IdInv
<1>12. \A v \in new.props : pc'[v] = "ok"
  <2>1. meta.props \subseteq Writers
    BY <1>2 DEF Metadata, Writers
  <2> QED BY <1>2, <1>5, <1>8, <2>1 DEF CommitInv, FreshInv
<1>13. created' \in Nat /\ created' >= created /\ new.uuid \notin created' .. MaxTables - 1
  BY <1>2, <1>4, <1>5 DEF CommitInv, TypeOK, FreshInv
<1>14. IdInv' /\ FreshInv' /\ TableInv'
  BY <1>5, <1>7, <1>8, <1>9, <1>10, <1>11, <1>12, <1>13, OneLoaded
<1>15. BaseInv'
  BY <1>4 DEF CommitInv, TypeOK, BaseInv, validate_duplicate_files
<1> QED BY <1>6, <1>14, <1>15 DEF CommitInv

\* Every step keeps the invariant.
LEMMA NextInv ==
  ASSUME CommitInv, [Next]_vars
  PROVE  CommitInv'
<1>1. CASE UNCHANGED vars
  BY <1>1 DEF CommitInv, TypeOK, IdInv, FreshInv, TableInv, BaseInv, Loaded, validate_duplicate_files,
              vars, tables, trans
<1>2. ASSUME NEW n \in Names, CatalogStep(n) PROVE CommitInv'
  BY <1>2, CreateInv, MoveInv DEF CatalogStep
<1>3. ASSUME NEW w \in Writers, WriterStep(w) PROVE CommitInv'
  BY <1>3, UpdateInv, StepWaits DEF WriterStep
<1> QED BY <1>1, <1>2, <1>3 DEF Next

-----------------------------------------------------------------------------
(* Theorems                                                                 *)

\* CommitInv is an invariant: whatever transactions and catalog operations
\* run, an id names one snapshot, every table that the catalog or a
\* transaction holds is a line of snapshots, and a transaction's base has
\* passed the checks of do_commit.
THEOREM CommitInvariant == Spec => []CommitInv
BY InitInv, NextInv, PTL DEF Spec

\* The variables keep their types and retries their limit.
THEOREM TypeCorrect == Spec => []TypeOK
<1>1. CommitInv => TypeOK
  BY DEF CommitInv
<1> QED BY <1>1, CommitInvariant, PTL

\* No data file is in a snapshot twice, retries and concurrent appends of one
\* file included.
THEOREM FilesCommittedOnce == Spec => []EachFileOnce
<1>1. CommitInv => EachFileOnce
  BY ReadableLoaded DEF CommitInv, TableInv, EachFileOnce
<1> QED BY <1>1, CommitInvariant, PTL

\* update_table never forks the history of a table and loses no snapshot.
THEOREM HistoryLinear == Spec => []LinearHistory
<1>1. CommitInv => LinearHistory
  BY ReadableLoaded DEF CommitInv, TableInv, LinearHistory
<1> QED BY <1>1, CommitInvariant, PTL

-----------------------------------------------------------------------------
(* Refinement of AppendLog                                                  *)

\* A name is seen as its table, as broken without its file, or not at all.
LEMMA ViewType ==
  ASSUME TypeOK
  PROVE  /\ \A meta \in Metadata : TableOf(meta) \in View
         /\ ViewOf(NoTable) = NoTable
         /\ \A meta \in Metadata : /\ meta \in files => ViewOf(meta) = TableOf(meta)
                                   /\ meta \notin files => ViewOf(meta) = Broken
         /\ \A n \in Names :
              /\ view[n] = ViewOf(catalog[n])
              /\ view[n] = NoTable <=> catalog[n] = NoTable
              /\ view[n] \notin {NoTable, Broken} <=> Readable(n)
<1>1. ASSUME NEW meta \in Metadata PROVE TableOf(meta) \in View
  <2>1. Manifests(meta) \subseteq Manifest /\ meta.props \subseteq Setters
    BY DEF Metadata, Manifests, Current, Snapshot
  <2>2. FilesIn(Manifests(meta)) \subseteq DataFiles
    BY <2>1 DEF FilesIn, Manifest
  <2> QED BY <2>1, <2>2 DEF TableOf, View
<1>2. ViewOf(NoTable) = NoTable
  BY DEF ViewOf
<1>3. ASSUME NEW meta \in Metadata
      PROVE  /\ meta \in files => ViewOf(meta) = TableOf(meta)
             /\ meta \notin files => ViewOf(meta) = Broken
  BY NoneAssumption DEF ViewOf
<1>4. ASSUME NEW n \in Names
      PROVE  /\ view[n] = ViewOf(catalog[n])
             /\ view[n] = NoTable <=> catalog[n] = NoTable
             /\ view[n] \notin {NoTable, Broken} <=> Readable(n)
  <2>1. view[n] = ViewOf(catalog[n])
    BY DEF view
  <2>2. catalog[n] \in Metadata \cup {NoTable} /\ files \subseteq Metadata
    BY DEF TypeOK
  <2> QED BY <1>1, <1>2, <1>3, <2>1, <2>2, NoneAssumption DEF Readable
<1> QED BY <1>1, <1>2, <1>3, <1>4

\* A pointer that moves to a new file changes the view of its name only.
LEMMA WriteView ==
  ASSUME CommitInv, NEW n \in Names, NEW new \in Metadata \ Loaded,
         catalog' = [catalog EXCEPT ![n] = new], files' = files \cup {new}
  PROVE  view' = [view EXCEPT ![n] = TableOf(new)]
<1>1. TypeOK /\ new # NoTable
  BY NoneAssumption DEF CommitInv
<1>2. \A x \in Names : catalog'[x] = IF x = n THEN new ELSE catalog[x]
  BY <1>1 DEF TypeOK
<1>3. view' = [x \in Names |-> ViewOf(catalog[x])']
  BY DEF view
<1>4. ASSUME NEW x \in Names, x # n PROVE ViewOf(catalog[x])' = view[x]
  <2>1. catalog[x] # new
    BY <1>1 DEF Loaded
  <2>2. catalog'[x] = catalog[x] /\ (catalog[x] \in files' <=> catalog[x] \in files)
    BY <1>2, <1>4, <2>1
  <2> QED BY <2>2 DEF view, ViewOf
<1>5. ViewOf(catalog[n])' = TableOf(new)
  <2>1. catalog'[n] = new /\ new \in files'
    BY <1>2
  <2> QED BY <1>1, <2>1 DEF ViewOf
<1> QED BY <1>3, <1>4, <1>5 DEF view

\* A new file that no name points to is not seen.
LEMMA LeftOverView ==
  ASSUME CommitInv, NEW new \in Metadata \ Loaded, catalog' = catalog, files' = files \cup {new}
  PROVE  view' = view
<1>1. \A x \in Names : catalog[x] # new
  BY NoneAssumption DEF Loaded
<1> QED BY <1>1 DEF view, ViewOf

\* An operation of the catalog is the operation of the same name.
LEMMA CatalogRefines ==
  ASSUME CommitInv, NEW n \in Names, CatalogStep(n)
  PROVE  AppendLogSpec!Next \/ UNCHANGED <<view, outcome>>
<1>1. TypeOK
  BY DEF CommitInv
<1>2. outcome' = outcome
  BY DEF CatalogStep, create_table, drop_table, register_table, rename_table, outcome
<1>3. CASE create_table(n)
  <2> DEFINE new == EmptyTable(created)
  <2>1. new \in Metadata \ Loaded
    BY <1>3, EmptyGood DEF create_table
  <2>2. files' = files \cup {new}
    BY <1>3 DEF create_table
  <2>3. CASE catalog[n] # NoTable
    <3>1. catalog' = catalog
      BY <1>3, <2>3 DEF create_table
    <3> QED BY <1>2, <2>1, <2>2, <3>1, LeftOverView
  <2>4. CASE catalog[n] = NoTable
    <3>1. catalog' = [catalog EXCEPT ![n] = new]
      BY <1>3, <2>4 DEF create_table, Locate
    <3>2. TableOf(new) = AppendLogSpec!Table
      BY DEF TableOf, EmptyTable, Manifests, Current, FilesIn, AppendLogSpec!Table
    <3> HIDE DEF new
    <3>3. view' = [view EXCEPT ![n] = TableOf(new)]
      BY <2>1, <2>2, <3>1, WriteView
    <3>4. view[n] = NoTable
      BY <1>1, <2>4, ViewType
    <3>5. AppendLogSpec!Create(n)
      BY <3>2, <3>3, <3>4 DEF AppendLogSpec!Create
    <3> QED BY <1>2, <3>5 DEF AppendLogSpec!Next
  <2> QED BY <2>3, <2>4
<1>4. CASE drop_table(n)
  <2>1. /\ catalog[n] # NoTable /\ catalog' = [catalog EXCEPT ![n] = NoTable]
        /\ files' \in {files, files \ {catalog[n]}}
    BY <1>4 DEF drop_table, Locate
  <2>2. \A x \in Names : catalog'[x] = IF x = n THEN NoTable ELSE catalog[x]
    BY <1>1, <2>1 DEF TypeOK
  <2>3. view' = [x \in Names |-> ViewOf(catalog[x])']
    BY DEF view
  <2>4. ViewOf(catalog[n])' = NoTable
    BY <2>2 DEF ViewOf
  <2>5. ASSUME NEW x \in Names, x # n
        PROVE  \/ ViewOf(catalog[x])' = view[x]
               \/ view[x] = view[n] /\ ViewOf(catalog[x])' = Broken
    <3>1. catalog'[x] = catalog[x]
      BY <2>2, <2>5
    <3>2. CASE catalog[x] = catalog[n]
      <4>1. view[x] = view[n]
        BY <3>2 DEF view
      <4>2. CASE files' = files
        BY <3>1, <4>2 DEF view, ViewOf
      <4>3. CASE files' = files \ {catalog[n]}
        BY <2>1, <3>1, <3>2, <4>1, <4>3 DEF ViewOf
      <4> QED BY <2>1, <4>2, <4>3
    <3>3. CASE catalog[x] # catalog[n]
      <4>1. catalog[x] \in files' <=> catalog[x] \in files
        BY <2>1, <3>3
      <4> QED BY <3>1, <4>1 DEF view, ViewOf
    <3> QED BY <3>2, <3>3
  <2> DEFINE gone == {x \in Names \ {n} : view[x] = view[n] /\ ViewOf(catalog[x])' = Broken}
  <2>6. /\ gone \in SUBSET {x \in Names \ {n} : view[x] = view[n]}
        /\ view' = [x \in Names |-> IF x = n THEN NoTable
                                    ELSE IF x \in gone THEN Broken ELSE view[x]]
    BY <2>3, <2>4, <2>5
  <2>7. view[n] # NoTable
    BY <1>1, <2>1, ViewType
  <2> HIDE DEF gone
  <2>8. AppendLogSpec!Drop(n)
    BY <2>6, <2>7 DEF AppendLogSpec!Drop
  <2> QED BY <1>2, <2>8 DEF AppendLogSpec!Next
<1>5. ASSUME NEW meta \in files \cup External, register_table(n, meta) PROVE AppendLogSpec!Next
  <2>1. catalog[n] = NoTable /\ catalog' = [catalog EXCEPT ![n] = meta] /\ files' = files
    BY <1>5 DEF register_table, Locate
  <2>2. meta \in Metadata
    BY <1>1, ExternalAssumption DEF TypeOK
  <2>3. view' = [view EXCEPT ![n] = ViewOf(meta)]
    BY <1>1, <2>1 DEF TypeOK, view, ViewOf
  <2>4. view[n] = NoTable
    BY <1>1, <2>1, ViewType
  <2>5. ViewOf(meta) # NoTable
    BY <1>1, <2>2, ViewType, NoneAssumption
  <2>6. view'[n] = ViewOf(meta)
    BY <2>3 DEF view
  <2>7. AppendLogSpec!Register(n)
    BY <2>3, <2>4, <2>5, <2>6 DEF AppendLogSpec!Register
  <2> QED BY <1>2, <2>7 DEF AppendLogSpec!Next
<1>6. ASSUME NEW m \in Names, rename_table(n, m) PROVE AppendLogSpec!Next
  <2>1. view' = [view EXCEPT ![m] = view[n], ![n] = NoTable]
    <3>1. catalog' = [catalog EXCEPT ![m] = catalog[n], ![n] = NoTable] /\ files' = files
      BY <1>6 DEF rename_table
    <3>2. \A x \in Names : catalog'[x] = IF x = n THEN NoTable
                                         ELSE IF x = m THEN catalog[n] ELSE catalog[x]
      BY <1>1, <3>1 DEF TypeOK
    <3>3. view' = [x \in Names |-> ViewOf(catalog[x])']
      BY DEF view
    <3>4. \A x \in Names : ViewOf(catalog[x])' = IF x = n THEN NoTable
                                         ELSE IF x = m THEN view[n] ELSE view[x]
      <4>1. ASSUME NEW x \in Names, NEW y \in Names, catalog'[x] = catalog[y]
            PROVE  ViewOf(catalog[x])' = view[y]
        BY <3>1, <4>1 DEF view, ViewOf
      <4>2. ViewOf(catalog[n])' = NoTable
        BY <3>2 DEF ViewOf
      <4> QED BY <3>2, <4>1, <4>2
    <3>5. [view EXCEPT ![m] = view[n], ![n] = NoTable] =
            [x \in Names |-> IF x = n THEN NoTable ELSE IF x = m THEN view[n] ELSE view[x]]
      BY DEF view
    <3> QED BY <3>3, <3>4, <3>5
  <2>2. view[n] # NoTable /\ view[m] = NoTable
    BY <1>1, <1>6, ViewType DEF rename_table
  <2>3. AppendLogSpec!Rename(n, m)
    BY <2>1, <2>2 DEF AppendLogSpec!Rename
  <2> QED BY <1>2, <2>3 DEF AppendLogSpec!Next
<1> QED BY <1>3, <1>4, <1>5, <1>6 DEF CatalogStep

\* A transaction that returns with an error fails, and one that goes on is not
\* seen.
LEMMA WaitRefines ==
  ASSUME CommitInv, NEW w \in Writers, UNCHANGED tables, pc[w] \notin Outcomes,
         Goto(w, "failed") \/ Goto(w, "refresh") \/ Goto(w, "update")
  PROVE  AppendLogSpec!Next \/ UNCHANGED <<view, outcome>>
<1>1. view' = view
  BY DEF tables, view, ViewOf
<1>2. pc \in [Writers -> {"idle", "refresh", "update"} \cup Outcomes]
  BY DEF CommitInv, TypeOK
<1>3. CASE Goto(w, "failed")
  <2>1. outcome[w] = "pending" /\ outcome' = [outcome EXCEPT ![w] = "failed"]
    BY <1>2, <1>3 DEF Goto, outcome, Outcomes
  <2>2. AppendLogSpec!Fail(w)
    BY <1>1, <2>1 DEF AppendLogSpec!Fail
  <2> QED BY <2>2 DEF AppendLogSpec!Next, Writers
<1>4. CASE Goto(w, "refresh") \/ Goto(w, "update")
  <2>1. outcome' = outcome
    BY <1>2, <1>4 DEF Goto, outcome, Outcomes
  <2> QED BY <1>1, <2>1
<1> QED BY <1>3, <1>4

\* update_table is the append or the property update.
LEMMA UpdateRefines ==
  ASSUME CommitInv, NEW w \in Writers, update_table(w)
  PROVE  AppendLogSpec!Next
<1> DEFINE n == Target[w]
           meta == catalog[n]
           new == Applied(w, meta)
<1>1. n \in Names /\ Readable(n) /\ pc[w] = "update" /\ Requirements(w, meta) /\ TypeOK
  BY WriterAssumption DEF update_table, CommitInv
<1>2. meta \in Loaded /\ meta \in Metadata /\ FilesOnce(meta) /\ Linear(meta)
  BY <1>1, ReadableLoaded DEF CommitInv, TableInv
<1>3. view' = [view EXCEPT ![n] = TableOf(new)] /\ view[n] = TableOf(meta)
  <2>1. new \in Metadata \ Loaded
    BY <1>1, <1>2, AppliedGood
  <2>2. catalog' = [catalog EXCEPT ![n] = new] /\ files' = files \cup {new}
    BY DEF update_table, Locate
  <2> HIDE DEF new
  <2>3. view' = [view EXCEPT ![n] = TableOf(new)]
    BY <1>1, <2>1, <2>2, WriteView
  <2> QED BY <1>1, <1>2, <2>3, ViewType DEF Readable
<1>4. outcome[w] = "pending" /\ outcome' = [outcome EXCEPT ![w] = "ok"]
  BY <1>1 DEF TypeOK, update_table, Return, Goto, outcome, Outcomes
<1>5. AppendLogSpec!Succeeds(w) /\ AppendLogSpec!Usable(n)
  BY <1>1, <1>4, ViewType DEF AppendLogSpec!Succeeds, AppendLogSpec!Usable
<1>6. CASE w \in Appenders
  <2>1. new = AddSnapshot(meta, NewSnapshot(w))
    BY <1>6 DEF Applied
  <2>2. /\ new \in Metadata /\ validate_duplicate_files(w, meta)
        /\ Manifests(new) = Manifests(meta) \cup {Added(w)}
    BY <1>1, <1>2, <1>6, <2>1, AppendGood
  <2>3. new.props = meta.props
    BY <1>2, <2>1 DEF AddSnapshot, Metadata
  <2>5. Added(w).files = FilesOf[w] /\ Added(w).id[1] = w
    BY DEF Added
  <2> HIDE DEF n, meta, new
  <2>6. TableOf(new) = [TableOf(meta) EXCEPT !.files = @ \cup FilesOf[w], !.appends = @ \cup {w}]
    <3>1. FilesIn(Manifests(new)) = FilesIn(Manifests(meta)) \cup FilesOf[w]
      BY <2>2, <2>5 DEF FilesIn
    <3>2. {v \in Appenders : \E m \in Manifests(new) : m.id[1] = v} =
            {v \in Appenders : \E m \in Manifests(meta) : m.id[1] = v} \cup {w}
      BY <1>6, <2>2, <2>5
    <3>3. /\ TableOf(new).files = TableOf(meta).files \cup FilesOf[w]
          /\ TableOf(new).appends = TableOf(meta).appends \cup {w}
          /\ TableOf(new).props = TableOf(meta).props
      BY <2>3, <3>1, <3>2, Zenon DEF TableOf
    <3>4. TableOf(new) \in View /\ TableOf(meta) \in View
      BY <1>1, <1>2, <2>2, ViewType
    <3> QED BY <3>3, <3>4 DEF View
  <2>7. FilesOf[w] \cap view[n].files = {}
    BY <1>3, <2>2 DEF TableOf, validate_duplicate_files
  <2>8. view' = [view EXCEPT ![n].files = @ \cup FilesOf[w], ![n].appends = @ \cup {w}]
    BY <1>1, <1>3, <2>6 DEF view
  <2>9. AppendLogSpec!Append(w, n)
    BY <1>5, <1>6, <2>7, <2>8 DEF AppendLogSpec!Append
  <2> QED BY <1>1, <2>9 DEF AppendLogSpec!Next, Writers
<1>7. CASE w \notin Appenders
  <2>1. new = [meta EXCEPT !.props = @ \cup {w}] /\ w \in Setters
    BY <1>7 DEF Applied, Writers
  <2>2. /\ new \in Metadata /\ new.snapshots = meta.snapshots /\ new.main = meta.main
        /\ new.props = meta.props \cup {w}
    BY <1>2, <2>1, SetterApplied
  <2>4. Manifests(new) = Manifests(meta)
    BY <2>2 DEF Manifests, Current
  <2> HIDE DEF n, meta, new
  <2>5. TableOf(new) = [TableOf(meta) EXCEPT !.props = @ \cup {w}]
    <3>1. /\ TableOf(new).files = TableOf(meta).files
          /\ TableOf(new).appends = TableOf(meta).appends
          /\ TableOf(new).props = TableOf(meta).props \cup {w}
      BY <2>2, <2>4, Zenon DEF TableOf
    <3>2. TableOf(new) \in View /\ TableOf(meta) \in View
      BY <1>1, <1>2, <2>2, ViewType
    <3> QED BY <3>1, <3>2 DEF View
  <2>6. view' = [view EXCEPT ![n].props = @ \cup {w}]
    BY <1>1, <1>3, <2>5 DEF view
  <2>7. AppendLogSpec!SetProperty(w, n)
    BY <1>5, <2>1, <2>6 DEF AppendLogSpec!SetProperty
  <2> QED BY <1>1, <2>7 DEF AppendLogSpec!Next, Writers
<1> QED BY <1>6, <1>7

\* Transactions on the memory catalog implement AppendLog: each takes effect
\* in the step of update_table, in full and on top of all that committed
\* before, and one that fails has left no trace.
THEOREM CommitsAtomic == Spec => ImplementsAppendLog
<1>1. Init => AppendLogSpec!Init
  BY DEF Init, AppendLogSpec!Init, view, ViewOf, outcome, Outcomes, Writers
<1>2. ASSUME CommitInv, [Next]_vars
      PROVE  AppendLogSpec!Next \/ UNCHANGED <<view, outcome>>
  <2>1. CASE UNCHANGED vars
    BY <2>1 DEF vars, tables, trans, view, ViewOf, outcome
  <2>2. ASSUME NEW n \in Names, CatalogStep(n)
        PROVE  AppendLogSpec!Next \/ UNCHANGED <<view, outcome>>
    BY <1>2, <2>2, CatalogRefines
  <2>3. ASSUME NEW w \in Writers, update_table(w) PROVE AppendLogSpec!Next
    BY <1>2, <2>3, UpdateRefines
  <2>4. ASSUME NEW w \in Writers,
               \/ insert_into(w) \/ update_table_properties(w) \/ do_commit(w)
               \/ UpdateFails(w) \/ CommitConflicts(w) \/ Fails(w)
        PROVE  AppendLogSpec!Next \/ UNCHANGED <<view, outcome>>
    <3>1. UNCHANGED tables /\ pc[w] \notin Outcomes
      BY <2>4 DEF insert_into, update_table_properties, Begin, do_commit, UpdateFails,
                  CommitConflicts, Conflict, Fails, Outcomes
    <3>2. Goto(w, "failed") \/ Goto(w, "refresh") \/ Goto(w, "update")
      BY <2>4 DEF insert_into, update_table_properties, Begin, do_commit, UpdateFails,
                  CommitConflicts, Fails, Return
    <3> QED BY <1>2, <3>1, <3>2, WaitRefines
  <2> QED BY <1>2, <2>1, <2>2, <2>3, <2>4 DEF Next, WriterStep
<1>3. CommitInv /\ [Next]_vars => [AppendLogSpec!Next]_<<view, outcome>>
  BY <1>2
<1> QED BY <1>1, <1>3, CommitInvariant, PTL DEF Spec, ImplementsAppendLog, AppendLogSpec!Spec
=============================================================================
