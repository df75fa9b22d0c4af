---------------------------- MODULE TableCommit ----------------------------
(***************************************************************************)
(* INSERT and property updates: IcebergCommitExec (patches/                *)
(* iceberg-datafusion-0.9.1/src/physical_plan/commit.rs), transactions     *)
(* (patches/iceberg-0.9.1/src/transaction) and the memory catalog          *)
(* (catalog/memory).                                                       *)
(*                                                                         *)
(* A transaction loads the table, builds its updates against that base,    *)
(* writing manifests on the way, and asks the catalog to apply them.  The  *)
(* catalog works under one lock: it loads the table again, checks the      *)
(* requirements, applies the updates to what it has loaded, writes a new   *)
(* metadata file and flips the pointer of the name.  A requirement that    *)
(* fails is retried from the start, a limited number of times.             *)
(*                                                                         *)
(* A metadata file is written once, under a location of its own, and no    *)
(* two files hold the same metadata: a location is modelled by what is     *)
(* written there, and files says which of the files exist.  Several names  *)
(* may point to one location.  Snapshot ids are random 63-bit numbers:     *)
(* those of different attempts are different.                              *)
(***************************************************************************)
EXTENDS Naturals

CONSTANTS
  Names,         \* table names of a namespace
  Appenders,     \* transactions that append data files (INSERT)
  Setters,       \* transactions that set a table property
  DataFiles,
  FilesOf,       \* the data files of each append, never none: an INSERT
                 \* without rows returns before it starts a transaction
  Target,        \* [Appenders \cup Setters -> Names], the table of each
  Others,        \* other engines
  External,      \* metadata that other engines have written, of format
                 \* version 2 or later
  NoTable,       \* no entry for a name; no table loaded
  Broken,        \* what a client sees of a name whose file does not exist
  NoSnapshot,    \* the empty snapshot reference
  MaxRetries,    \* commit.retry.num-retries
  MaxTables      \* bound on the tables created here

Writers == Appenders \cup Setters

\* Snapshots are identified by who made them and at which attempt.
Ids == (Appenders \cup Others) \X Nat
Manifest == [id : Ids, files : SUBSET DataFiles]
Snapshot ==
  [id : Ids, parent : Ids \cup {NoSnapshot}, seq : Nat,
   manifests : SUBSET Manifest]
\* TableMetadata; versioned says that its file is named <version>-<uuid>.
Metadata ==
  [uuid : Nat, snapshots : SUBSET Snapshot, main : Ids \cup {NoSnapshot},
   last_seq : Nat, props : SUBSET Setters, versioned : BOOLEAN]

\* current_snapshot and the manifests in its manifest list.
Current(meta) == {s \in meta.snapshots : s.id = meta.main}
Manifests(meta) == UNION {s.manifests : s \in Current(meta)}
FilesIn(manifests) == UNION {m.files : m \in manifests}

\* No data file is in two manifests of a snapshot.
FilesOnce(meta) ==
  \A s \in meta.snapshots : \A k, m \in s.manifests : k # m => k.files \cap m.files = {}

\* The snapshots are one line: none has two children, each keeps the manifests
\* of its parent under a greater sequence number, and main is the last one.
Linear(meta) ==
  LET S == meta.snapshots IN
  /\ \A s, t \in S : s.parent = t.parent => s = t
  /\ \A s \in S : s.parent # NoSnapshot => \E p \in S :
       p.id = s.parent /\ p.seq < s.seq /\ p.manifests \subseteq s.manifests
  /\ \A s \in S : s.seq <= meta.last_seq
  /\ IF S = {} THEN meta.main = NoSnapshot
               ELSE \E s \in S : s.id = meta.main /\ s.seq = meta.last_seq

ASSUME WriterAssumption ==
  /\ Appenders \cap Setters = {} /\ Appenders \cap Others = {}
  /\ Target \in [Writers -> Names]
  /\ MaxRetries \in Nat /\ MaxTables \in Nat
  /\ FilesOf \in [Appenders -> SUBSET DataFiles]
  /\ \A w \in Appenders : FilesOf[w] # {}

\* Other engines keep the rules of the format and choose ids of their own; the
\* tables created here have the uuids 0 .. MaxTables - 1.
ASSUME ExternalAssumption ==
  /\ External \subseteq Metadata
  /\ \A meta \in External : /\ FilesOnce(meta) /\ Linear(meta)
                             /\ meta.uuid >= MaxTables /\ meta.props = {}
  /\ \A s, t \in UNION {meta.snapshots : meta \in External} :
       s.id[1] \in Others /\ (s.id = t.id => s = t)

\* What a client of the catalog sees of a table.
View == [files : SUBSET DataFiles, appends : SUBSET Appenders, props : SUBSET Setters]

ASSUME NoneAssumption ==
  /\ NoTable \notin Metadata \cup View /\ Broken \notin View
  /\ NoTable # Broken /\ NoSnapshot \notin Ids

VARIABLES
  catalog,   \* table_metadata_locations: name to location
  files,     \* metadata files that exist
  created,   \* number of tables created
  pc,        \* where each transaction is
  base,      \* the table it last loaded
  attempt    \* number of its retries

tables == <<catalog, files, created>>
trans == <<base, attempt>>
vars == <<tables, pc, trans>>

\* TableMetadata right after create_table, in a file <version>-<uuid>.
EmptyTable(uuid) ==
  [uuid |-> uuid, snapshots |-> {}, main |-> NoSnapshot, last_seq |-> 0, props |-> {},
   versioned |-> TRUE]

\* load_table_from_locked_state: a name whose metadata file can be read.
Readable(n) == catalog[n] \in files

-----------------------------------------------------------------------------
(* The catalog, each operation under its lock                               *)

Locate(n, to) == catalog' = [catalog EXCEPT ![n] = to]

\* The metadata file is written before the name is looked at, and left over
\* if the name is taken.
create_table(n) ==
  /\ created < MaxTables /\ created' = created + 1
  /\ files' = files \cup {EmptyTable(created)}
  /\ IF catalog[n] = NoTable THEN Locate(n, EmptyTable(created)) ELSE UNCHANGED catalog
  /\ UNCHANGED <<pc, trans>>

\* Any location can be registered under a free name, also one that another
\* name has.  The name is entered before the metadata file is read, and stays
\* if there is none.
register_table(n, meta) ==
  /\ catalog[n] = NoTable /\ Locate(n, meta)
  /\ UNCHANGED <<files, created, pc, trans>>

\* The name goes first; deleting the metadata file, whoever else points to it,
\* may fail.
drop_table(n) ==
  /\ catalog[n] # NoTable /\ Locate(n, NoTable)
  /\ files' \in {files, files \ {catalog[n]}}
  /\ UNCHANGED <<created, pc, trans>>

rename_table(n, m) ==
  /\ catalog[n] # NoTable /\ catalog[m] = NoTable
  /\ catalog' = [catalog EXCEPT ![m] = catalog[n], ![n] = NoTable]
  /\ UNCHANGED <<files, created, pc, trans>>

-----------------------------------------------------------------------------
(* The transaction                                                          *)

Goto(w, to) == pc' = [pc EXCEPT ![w] = to]

\* The transaction returns and is consumed.
Return(w, result) ==
  /\ Goto(w, result)
  /\ base' = [base EXCEPT ![w] = NoTable]
  /\ attempt' = [attempt EXCEPT ![w] = 0]

\* The table is loaded, which fails if it is not there.
Begin(w) ==
  /\ pc[w] = "idle"
  /\ \/ Readable(Target[w]) /\ Goto(w, "refresh") /\ UNCHANGED trans
     \/ ~Readable(Target[w]) /\ Return(w, "failed")
  /\ UNCHANGED tables

\* IcebergTableProvider::insert_into plans the write and the commit.  Data
\* files are written and handed to IcebergCommitExec, which starts to commit
\* when it has them all.
insert_into(w) == w \in Appenders /\ Begin(w)

\* A caller starts a transaction with update_table_properties.
update_table_properties(w) == w \in Setters /\ Begin(w)

\* An error of the input, of a write, a read or a conversion, a snapshot whose
\* timestamp the builder rejects, or the query dropped at an await: nothing
\* but files nobody refers to is left behind.
Fails(w) ==
  /\ pc[w] \in {"refresh", "update"} /\ Return(w, "failed")
  /\ UNCHANGED tables

\* validate_duplicate_files
validate_duplicate_files(w, meta) == FilesOf[w] \cap FilesIn(Manifests(meta)) = {}

\* SnapshotProducer::commit on the base: its manifests and one of the files.
NewSnapshot(w) ==
  LET id == <<w, attempt[w]>> IN
  [id |-> id, parent |-> base[w].main, seq |-> base[w].last_seq + 1,
   manifests |-> Manifests(base[w]) \cup {[id |-> id, files |-> FilesOf[w]]}]

Accepted(w) ==
  Readable(Target[w]) /\ (w \in Appenders => validate_duplicate_files(w, catalog[Target[w]]))

\* do_commit up to the call of the catalog: the base is refreshed, whatever
\* the transaction was started with, and the action applied to it.
do_commit(w) ==
  /\ pc[w] = "refresh"
  /\ \/ /\ Accepted(w) /\ Goto(w, "update")
        /\ base' = [base EXCEPT ![w] = catalog[Target[w]]]
        /\ UNCHANGED attempt
     \/ ~Accepted(w) /\ Return(w, "failed")
  /\ UNCHANGED tables

\* Mutation: only the identity of the table is required.
RequireUuid(w, meta) == w \in Appenders => meta.uuid = base[w].uuid

\* TableRequirement::check: UuidMatch and RefSnapshotIdMatch of an append; a
\* property update requires nothing.
Requirements(w, meta) ==
  w \in Appenders => meta.uuid = base[w].uuid /\ meta.main = base[w].main

\* add_snapshot and set_ref of the metadata builder.
CanAddSnapshot(meta, s) ==
  /\ \A t \in meta.snapshots : t.id # s.id
  /\ s.seq > meta.last_seq \/ s.parent = NoSnapshot
AddSnapshot(meta, s) ==
  [meta EXCEPT !.snapshots = @ \cup {s}, !.main = s.id, !.last_seq = s.seq]

\* Mutation: the updates are applied to the base of the transaction.
AppliedToBase(w, meta) ==
  IF w \in Appenders THEN AddSnapshot(base[w], NewSnapshot(w))
                     ELSE [base[w] EXCEPT !.props = @ \cup {w}]

\* TableCommit::apply: the updates of w applied to the table of the catalog.
Applied(w, meta) ==
  IF w \in Appenders THEN AddSnapshot(meta, NewSnapshot(w))
                     ELSE [meta EXCEPT !.props = @ \cup {w}]

\* MetadataLocation::from_str accepts the location, and the builder the
\* snapshot.
Applies(w) ==
  /\ catalog[Target[w]].versioned
  /\ w \in Appenders => CanAddSnapshot(catalog[Target[w]], NewSnapshot(w))

\* update_table: a new metadata file, and the pointer flipped to it.
update_table(w) ==
  /\ pc[w] = "update" /\ Readable(Target[w])
  /\ Requirements(w, catalog[Target[w]]) /\ Applies(w)
  /\ files' = files \cup {Applied(w, catalog[Target[w]])}
  /\ Locate(Target[w], Applied(w, catalog[Target[w]]))
  /\ Return(w, "ok")
  /\ UNCHANGED created

\* update_table finds no table, or the commit cannot be applied.
UpdateFails(w) ==
  /\ pc[w] = "update"
  /\ Readable(Target[w]) => Requirements(w, catalog[Target[w]]) /\ ~Applies(w)
  /\ Return(w, "failed")
  /\ UNCHANGED tables

Conflict(w) ==
  pc[w] = "update" /\ Readable(Target[w]) /\ ~Requirements(w, catalog[Target[w]])

\* Mutation: the retry takes the new base without the checks of the action.
RetryUnchecked(w) ==
  /\ Conflict(w)
  /\ \/ /\ attempt[w] < MaxRetries /\ attempt' = [attempt EXCEPT ![w] = @ + 1]
        /\ base' = [base EXCEPT ![w] = catalog[Target[w]]] /\ UNCHANGED pc
     \/ Return(w, "failed")
  /\ UNCHANGED tables

\* Mutation: one retry too many.
RetryOnceMore(w) ==
  /\ Conflict(w)
  /\ \/ /\ attempt[w] <= MaxRetries /\ attempt' = [attempt EXCEPT ![w] = @ + 1]
        /\ Goto(w, "refresh") /\ UNCHANGED base
     \/ Return(w, "failed")
  /\ UNCHANGED tables

\* A requirement fails, which is retryable: do_commit again after a pause,
\* unless the number of retries or the total delay is used up.
CommitConflicts(w) ==
  /\ Conflict(w)
  /\ \/ /\ attempt[w] < MaxRetries /\ attempt' = [attempt EXCEPT ![w] = @ + 1]
        /\ Goto(w, "refresh") /\ UNCHANGED base
     \/ Return(w, "failed")
  /\ UNCHANGED tables

-----------------------------------------------------------------------------
Init ==
  /\ catalog = [n \in Names |-> NoTable]
  /\ files = External
  /\ created = 0
  /\ pc = [w \in Writers |-> "idle"]
  /\ base = [w \in Writers |-> NoTable]
  /\ attempt = [w \in Writers |-> 0]

CatalogStep(n) ==
  \/ create_table(n) \/ drop_table(n)
  \/ \E meta \in files \cup External : register_table(n, meta)
  \/ \E m \in Names : rename_table(n, m)
WriterStep(w) ==
  \/ insert_into(w) \/ update_table_properties(w)
  \/ do_commit(w) \/ update_table(w) \/ UpdateFails(w)
  \/ CommitConflicts(w) \/ Fails(w)

Next ==
  \/ \E n \in Names : CatalogStep(n)
  \/ \E w \in Writers : WriterStep(w)

Spec == Init /\ [][Next]_vars

-----------------------------------------------------------------------------
(* Properties                                                               *)

Outcomes == {"ok", "failed"}

TypeOK ==
  /\ catalog \in [Names -> Metadata \cup {NoTable}]
  /\ files \subseteq Metadata
  /\ created \in 0 .. MaxTables
  /\ pc \in [Writers -> {"idle", "refresh", "update"} \cup Outcomes]
  /\ base \in [Writers -> Metadata \cup {NoTable}]
  /\ attempt \in [Writers -> 0 .. MaxRetries]

\* No data file is in a snapshot twice, also when two transactions add the
\* same file at the same time: validate_duplicate_files looks at the base, and
\* the base is still current when the catalog applies the snapshot.
EachFileOnce == \A n \in Names : Readable(n) => FilesOnce(catalog[n])

\* Whatever transactions run, a table has one line of snapshots that ends in
\* main: update_table never puts two on one parent, and loses none.
LinearHistory == \A n \in Names : Readable(n) => Linear(catalog[n])

\* The tables and outcomes as a client of the catalog sees them.
TableOf(meta) ==
  [files |-> FilesIn(Manifests(meta)),
   appends |-> {w \in Appenders : \E m \in Manifests(meta) : m.id[1] = w},
   props |-> meta.props]
ViewOf(meta) == IF meta = NoTable THEN NoTable
                ELSE IF meta \in files THEN TableOf(meta) ELSE Broken
view == [n \in Names |-> ViewOf(catalog[n])]
outcome == [w \in Writers |-> IF pc[w] \in Outcomes THEN pc[w] ELSE "pending"]
AppendLogSpec == INSTANCE AppendLog WITH tables <- view, outcome <- outcome

\* Concurrent transactions behave as if each took effect in one step: an
\* append that succeeds is in its table once and all of it, one that fails has
\* left no trace, and no update of another transaction is undone.
ImplementsAppendLog == AppendLogSpec!Spec

-----------------------------------------------------------------------------
(* What the proofs need besides                                             *)

\* Every table that is or can be in the catalog or is some transaction's base.
Loaded ==
  (External \cup files \cup {catalog[n] : n \in Names} \cup {base[w] : w \in Writers})
    \ {NoTable}

\* An id is the same snapshot wherever it occurs, and the snapshot of a
\* transaction occurs only once that has succeeded.
IdInv ==
  \A k, m \in Loaded : \A s \in k.snapshots :
    /\ \A t \in m.snapshots : s.id = t.id => s = t
    /\ s.id[1] \in Appenders => pc[s.id[1]] = "ok"

\* So does its property, and the uuid of a table only once it is created: what
\* create_table and update_table write is in no other file.
FreshInv ==
  \A k \in Loaded :
    /\ \A w \in k.props : pc[w] = "ok"
    /\ k.uuid \notin created .. MaxTables - 1

TableInv == \A meta \in Loaded : FilesOnce(meta) /\ Linear(meta)

\* The checks of do_commit still hold of the base when the catalog is called.
BaseInv ==
  \A w \in Writers : pc[w] = "update" =>
    base[w] # NoTable /\ (w \in Appenders => validate_duplicate_files(w, base[w]))

\* The conjunction is inductive.
CommitInv == TypeOK /\ IdInv /\ FreshInv /\ TableInv /\ BaseInv
=============================================================================
