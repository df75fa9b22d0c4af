---------------------------- MODULE DeleteFilter ----------------------------
(***************************************************************************)
(* Loading the delete files of a scan: ArrowReader::read,                  *)
(* CachingDeleteFileLoader::load_deletes and DeleteFilter (patches/        *)
(* iceberg-0.9.1/src/arrow/reader.rs, caching_delete_file_loader.rs and    *)
(* delete_filter.rs).                                                      *)
(*                                                                         *)
(* One reader reads many data files at once.  Each of them spawns a loader *)
(* for its own delete files; the filter they share makes sure that a       *)
(* delete file is loaded once, so a loader may find a positional delete    *)
(* being loaded by another loader and wait for it, and a data file may     *)
(* find an equality delete whose predicate is not there yet and wait too.  *)
(* A predicate travels from the loader to the filter through a oneshot     *)
(* channel and a task that stores it and wakes the waiters.                *)
(*                                                                         *)
(* Positional deletes are merged into one delete vector per data file; the *)
(* vector is the set of delete files whose positions are in it.            *)
(***************************************************************************)
EXTENDS Naturals, FiniteSets

CONSTANTS
  Tasks,         \* data files to read, one FileScanTask each
  PosDeletes,    \* positional delete files
  EqDeletes,     \* equality delete files
  DeletesOf,     \* [Tasks -> SUBSET (PosDeletes \cup EqDeletes)], from the plan
  Refs,          \* [PosDeletes -> SUBSET Tasks], data files with positions in it
  Limit          \* concurrency_limit_data_files

Deletes == PosDeletes \cup EqDeletes

ASSUME DeletesAssumption ==
  /\ PosDeletes \cap EqDeletes = {}
  /\ DeletesOf \in [Tasks -> SUBSET Deletes]

\* A delete file with positions of a data file is planned with that data file.
ASSUME RefsAssumption ==
  /\ Refs \in [PosDeletes -> SUBSET Tasks]
  /\ \A d \in PosDeletes : \A t \in Refs[d] : d \in DeletesOf[t]

VARIABLES
  task,      \* process_file_scan_task of each data file
  loader,    \* the task that load_deletes spawns
  entry,     \* where the loader is with each of its delete files
  file,      \* state of each delete file in the filter
  vectors,   \* delete_vectors: positional deletes merged per data file
  pred,      \* where build_equality_delete_predicate is with each delete
  seen,      \* delete vector a data file was read with
  loads,     \* history: how often each delete file was opened
  outcome    \* what the stream of batches ended with

vars == <<task, loader, entry, file, vectors, pred, seen, loads, outcome>>

TaskState == {"todo", "open", "await", "predicate", "done", "failed"}
LoaderState == {"off", "running", "ok", "err"}
EntryState == {"none", "todo", "started", "loading", "parsed", "merged", "notify",
               "looked", "waiting", "done", "dropped"}
\* PosDelState: Loading is "reading", Loaded is "read".
PosState == {"none", "reading", "read"}
\* EqDelState: Loading with the first Notify is "started", with the second one
\* "loading", "sent" (predicate in the channel) or "panicked" (sender dropped);
\* Loaded is "stored", then "notified".
EqState == {"none", "started", "loading", "sent", "panicked", "stored", "notified"}
PredState == {"none", "todo", "looked_first", "looked", "waiting_first", "waiting",
              "woken", "got"}

PosOf(t) == DeletesOf[t] \cap PosDeletes
EqOf(t) == DeletesOf[t] \cap EqDeletes

\* Steps inside a piece of code without an await: nothing else of the same
\* task runs before they are finished, and on one event loop (wasm) nothing
\* of any other task either.
EntryMid == {"started", "merged", "notify", "looked"}
PredMid == {"looked_first", "looked"}
LoaderMid(t) == \E d \in DeletesOf[t] : entry[t][d] \in EntryMid
ReaderMid == \E t \in Tasks : \E d \in EqOf(t) : pred[t][d] \in PredMid

Entry(t, d, from, to) == entry[t][d] = from /\ entry' = [entry EXCEPT ![t][d] = to]

-----------------------------------------------------------------------------
(* ArrowReader::read and process_file_scan_task                             *)

InFlight == {t \in Tasks : task[t] \in {"open", "await", "predicate"}}

\* A task of the stream starts: load_deletes spawns its loader.
process_file_scan_task(t) ==
  /\ task[t] = "todo" /\ Cardinality(InFlight) < Limit /\ ~ReaderMid
  /\ task' = [task EXCEPT ![t] = "open"]
  /\ loader' = [loader EXCEPT ![t] = "running"]
  /\ UNCHANGED <<entry, file, vectors, pred, seen, loads, outcome>>

\* open_parquet_file and the resolution of the schema, which may fail.
open_parquet_file(t) ==
  /\ task[t] = "open" /\ ~ReaderMid
  /\ \E result \in {"await", "failed"} : task' = [task EXCEPT ![t] = result]
  /\ UNCHANGED <<loader, entry, file, vectors, pred, seen, loads, outcome>>

\* delete_filter_rx.await
AwaitDeletes(t) ==
  /\ task[t] = "await" /\ ~ReaderMid
  /\ \/ loader[t] = "ok" /\ task' = [task EXCEPT ![t] = "predicate"]
     \/ loader[t] = "err" /\ task' = [task EXCEPT ![t] = "failed"]
  /\ UNCHANGED <<loader, entry, file, vectors, pred, seen, loads, outcome>>

Pred(t, d, from, to) == pred[t][d] = from /\ pred' = [pred EXCEPT ![t][d] = to]

\* One round of build_equality_delete_predicate up to the wait.
LookUpPredicate(t, d) ==
  /\ task[t] = "predicate" /\ d \in EqOf(t) /\ ~ReaderMid
  /\ \A c \in EqOf(t) : pred[t][c] \in {"todo", "got"}
  /\ \/ /\ file[d] = "none" /\ pred[t][d] = "todo" /\ UNCHANGED pred
        /\ task' = [task EXCEPT ![t] = "failed"]
     \/ file[d] = "started" /\ Pred(t, d, "todo", "looked_first") /\ UNCHANGED task
     \/ /\ file[d] \in {"loading", "sent", "panicked"} /\ Pred(t, d, "todo", "looked")
        /\ UNCHANGED task
     \/ file[d] \in {"stored", "notified"} /\ Pred(t, d, "todo", "got") /\ UNCHANGED task
  /\ UNCHANGED <<loader, entry, file, vectors, seen, loads, outcome>>

\* notifier.notified() registers with the Notify found in the state.
AwaitPredicate(t, d) ==
  /\ d \in EqOf(t)
  /\ \/ Pred(t, d, "looked_first", "waiting_first")
     \/ Pred(t, d, "looked", "waiting")
  /\ UNCHANGED <<task, loader, entry, file, vectors, seen, loads, outcome>>

\* A woken task finds the predicate, or panics at unreachable!.
GotPredicate(t, d) ==
  /\ d \in EqOf(t) /\ ~ReaderMid
  /\ file[d] \in {"stored", "notified"}
  /\ Pred(t, d, "woken", "got")
  /\ UNCHANGED <<task, loader, entry, file, vectors, seen, loads, outcome>>

\* get_delete_vector, synchronous, and the rows are read.
ReadRows(t) ==
  /\ task[t] = "predicate" /\ ~ReaderMid
  /\ \A d \in EqOf(t) : pred[t][d] = "got"
  /\ task' = [task EXCEPT ![t] = "done"]
  /\ seen' = [seen EXCEPT ![t] = vectors[t]]
  /\ UNCHANGED <<loader, entry, file, vectors, pred, loads, outcome>>

\* The first error ends the stream, and with it every task and its waits.
StreamEnds ==
  /\ \/ (\A t \in Tasks : task[t] = "done") /\ outcome' = "ok"
     \/ (\E t \in Tasks : task[t] = "failed") /\ outcome' = "err"
  /\ UNCHANGED <<task, loader, entry, file, vectors, pred, seen, loads>>

-----------------------------------------------------------------------------
(* The loader of a task                                                     *)

Buffered(t) == {d \in DeletesOf[t] : entry[t][d] \notin {"todo", "done"}}

\* The loader takes the next delete file into its buffer.
CanStart(t, d) ==
  /\ loader[t] = "running" /\ ~LoaderMid(t)
  /\ entry[t][d] = "todo" /\ Cardinality(Buffered(t)) < Limit

File(d, to) == file' = [file EXCEPT ![d] = to]

\* Mutation: a delete file being loaded elsewhere is not waited for.
StartPosNoWait(t, d) ==
  /\ d \in PosOf(t) /\ CanStart(t, d)
  /\ \/ /\ file[d] = "none" /\ File(d, "reading") /\ Entry(t, d, "todo", "loading")
        /\ loads' = [loads EXCEPT ![d] = @ + 1]
     \/ file[d] # "none" /\ Entry(t, d, "todo", "done") /\ UNCHANGED <<file, loads>>
  /\ UNCHANGED <<task, loader, vectors, pred, seen, outcome>>

\* try_start_pos_del_load: Load, WaitFor or AlreadyLoaded.
try_start_pos_del_load(t, d) ==
  /\ d \in PosOf(t) /\ CanStart(t, d)
  /\ \/ /\ file[d] = "none" /\ File(d, "reading") /\ Entry(t, d, "todo", "loading")
        /\ loads' = [loads EXCEPT ![d] = @ + 1]
     \/ file[d] = "reading" /\ Entry(t, d, "todo", "looked") /\ UNCHANGED <<file, loads>>
     \/ file[d] = "read" /\ Entry(t, d, "todo", "done") /\ UNCHANGED <<file, loads>>
  /\ UNCHANGED <<task, loader, vectors, pred, seen, outcome>>

\* notify.notified() of a loader told to wait.
AwaitPosDelete(t, d) ==
  /\ d \in PosOf(t) /\ Entry(t, d, "looked", "waiting")
  /\ UNCHANGED <<task, loader, file, vectors, pred, seen, loads, outcome>>

\* Mutation: the check does not claim the file.
StartEqUnclaimed(t, d) ==
  /\ d \in EqOf(t) /\ CanStart(t, d)
  /\ \/ file[d] \in {"none", "started"} /\ Entry(t, d, "todo", "started") /\ UNCHANGED file
     \/ file[d] \notin {"none", "started"} /\ Entry(t, d, "todo", "done") /\ UNCHANGED file
  /\ UNCHANGED <<task, loader, vectors, pred, seen, loads, outcome>>

\* try_start_eq_del_load: claim the file, or leave it to its owner.
try_start_eq_del_load(t, d) ==
  /\ d \in EqOf(t) /\ CanStart(t, d)
  /\ \/ file[d] = "none" /\ File(d, "started") /\ Entry(t, d, "todo", "started")
     \/ file[d] # "none" /\ Entry(t, d, "todo", "done") /\ UNCHANGED file
  /\ UNCHANGED <<task, loader, vectors, pred, seen, loads, outcome>>

\* insert_equality_delete puts a second Notify into the state and spawns the
\* task that waits for the predicate; the delete file is opened.
insert_equality_delete(t, d) ==
  /\ d \in EqOf(t) /\ Entry(t, d, "started", "loading")
  /\ File(d, "loading")
  /\ loads' = [loads EXCEPT ![d] = @ + 1]
  /\ UNCHANGED <<task, loader, vectors, pred, seen, outcome>>

\* parse_file_content_for_task: positions parsed, or the predicate sent.
parse_file_content_for_task(t, d) ==
  /\ d \in DeletesOf[t] /\ loader[t] = "running" /\ ~LoaderMid(t)
  /\ \/ d \in PosDeletes /\ Entry(t, d, "loading", "parsed") /\ UNCHANGED file
     \/ d \in EqDeletes /\ Entry(t, d, "loading", "done") /\ File(d, "sent")
  /\ UNCHANGED <<task, loader, vectors, pred, seen, loads, outcome>>

\* Opening or parsing a delete file fails: the loader reports the error and
\* drops everything it has in flight, the senders of predicates included,
\* whose receivers unwrap the closed channel and panic.
LoadFails(t, d) ==
  /\ loader[t] = "running" /\ ~LoaderMid(t)
  /\ d \in DeletesOf[t] /\ entry[t][d] = "loading"
  /\ loader' = [loader EXCEPT ![t] = "err"]
  /\ entry' = [entry EXCEPT ![t] = [c \in Deletes |->
       IF entry[t][c] \in {"none", "done"} THEN entry[t][c] ELSE "dropped"]]
  /\ file' = [c \in Deletes |->
       IF c \in EqOf(t) /\ entry[t][c] = "loading" THEN "panicked" ELSE file[c]]
  /\ UNCHANGED <<task, vectors, pred, seen, loads, outcome>>

Merged(d) == [u \in Tasks |-> IF u \in Refs[d] THEN vectors[u] \cup {d} ELSE vectors[u]]

\* Mutation: the delete vectors are merged when all files are parsed.
UpsertAtEnd(t, d) ==
  /\ d \in PosOf(t) /\ loader[t] = "running" /\ ~LoaderMid(t)
  /\ \A c \in DeletesOf[t] : entry[t][c] \in {"parsed", "done"}
  /\ Entry(t, d, "parsed", "merged")
  /\ vectors' = Merged(d)
  /\ UNCHANGED <<task, loader, file, pred, seen, loads, outcome>>

\* upsert_delete_vector for every data file with positions in the file.
upsert_delete_vector(t, d) ==
  /\ d \in PosOf(t) /\ loader[t] = "running" /\ ~LoaderMid(t)
  /\ Entry(t, d, "parsed", "merged")
  /\ vectors' = Merged(d)
  /\ UNCHANGED <<task, loader, file, pred, seen, loads, outcome>>

\* finish_pos_del_load: the state becomes Loaded under the lock.
finish_pos_del_load(t, d) ==
  /\ d \in PosOf(t) /\ Entry(t, d, "merged", "notify")
  /\ File(d, "read")
  /\ UNCHANGED <<task, loader, vectors, pred, seen, loads, outcome>>

\* notify_waiters, after the lock: the loaders waiting now go on.
NotifyPosWaiters(t, d) ==
  /\ d \in PosOf(t) /\ entry[t][d] = "notify"
  /\ entry' = [u \in Tasks |-> [entry[u] EXCEPT ![d] =
       IF u = t \/ entry[u][d] = "waiting" THEN "done" ELSE @]]
  /\ UNCHANGED <<task, loader, file, vectors, pred, seen, loads, outcome>>

LoaderEnds(t) ==
  /\ loader[t] = "running"
  /\ \A d \in DeletesOf[t] : entry[t][d] = "done"
  /\ loader' = [loader EXCEPT ![t] = "ok"]
  /\ UNCHANGED <<task, entry, file, vectors, pred, seen, loads, outcome>>

-----------------------------------------------------------------------------
(* The task spawned by insert_equality_delete                               *)

Woken(d) == [t \in Tasks |-> [pred[t] EXCEPT ![d] = IF @ = "waiting" THEN "woken" ELSE @]]

\* Mutation: the waiters are woken before the predicate is stored.
StorePredicateLate(d) ==
  /\ d \in EqDeletes /\ file[d] = "sent"
  /\ \/ pred' = Woken(d) /\ UNCHANGED file
     \/ File(d, "stored") /\ UNCHANGED pred
  /\ UNCHANGED <<task, loader, entry, vectors, seen, loads, outcome>>

StorePredicate(d) ==
  /\ d \in EqDeletes /\ file[d] = "sent" /\ File(d, "stored")
  /\ UNCHANGED <<task, loader, entry, vectors, pred, seen, loads, outcome>>

\* notify_waiters of the second Notify: nobody waits on the first any more.
NotifyEqWaiters(d) ==
  /\ d \in EqDeletes /\ file[d] = "stored" /\ File(d, "notified")
  /\ pred' = Woken(d)
  /\ UNCHANGED <<task, loader, entry, vectors, seen, loads, outcome>>

-----------------------------------------------------------------------------
Init ==
  /\ task = [t \in Tasks |-> "todo"]
  /\ loader = [t \in Tasks |-> "off"]
  /\ entry = [t \in Tasks |-> [d \in Deletes |-> IF d \in DeletesOf[t] THEN "todo" ELSE "none"]]
  /\ file = [d \in Deletes |-> "none"]
  /\ vectors = [t \in Tasks |-> {}]
  /\ pred = [t \in Tasks |-> [d \in Deletes |-> IF d \in EqOf(t) THEN "todo" ELSE "none"]]
  /\ seen = [t \in Tasks |-> {}]
  /\ loads = [d \in Deletes |-> 0]
  /\ outcome = "pending"

\* Rest of a piece of code without an await.
Continue ==
  \/ \E t \in Tasks, d \in Deletes :
       \/ AwaitPredicate(t, d) \/ AwaitPosDelete(t, d) \/ insert_equality_delete(t, d)
       \/ finish_pos_del_load(t, d) \/ NotifyPosWaiters(t, d)
  \/ \E d \in Deletes : NotifyEqWaiters(d)

\* A task is polled.
Poll ==
  \/ \E t \in Tasks :
       \/ process_file_scan_task(t) \/ open_parquet_file(t) \/ AwaitDeletes(t)
       \/ ReadRows(t) \/ LoaderEnds(t)
  \/ \E t \in Tasks, d \in Deletes :
       \/ LookUpPredicate(t, d) \/ GotPredicate(t, d)
       \/ try_start_pos_del_load(t, d) \/ try_start_eq_del_load(t, d)
       \/ parse_file_content_for_task(t, d) \/ LoadFails(t, d)
       \/ upsert_delete_vector(t, d)
  \/ \E d \in Deletes : StorePredicate(d)
  \/ StreamEnds

\* Nothing a task does after the stream has ended can be observed.
Next ==
  /\ outcome = "pending"
  /\ \/ Continue
     \/ Poll

Spec == Init /\ [][Next]_vars

\* The runtime polls a task that can go on, and a read of the object store
\* returns or fails; every behaviour is finite.
FairSpec == Spec /\ WF_vars(Next)

-----------------------------------------------------------------------------
(* Properties                                                               *)

TypeOK ==
  /\ task \in [Tasks -> TaskState]
  /\ loader \in [Tasks -> LoaderState]
  /\ entry \in [Tasks -> [Deletes -> EntryState]]
  /\ file \in [Deletes -> PosState \cup EqState]
  /\ \A d \in Deletes : file[d] \in IF d \in PosDeletes THEN PosState ELSE EqState
  /\ vectors \in [Tasks -> SUBSET PosDeletes]
  /\ pred \in [Tasks -> [Deletes -> PredState]]
  /\ seen \in [Tasks -> SUBSET PosDeletes]
  /\ loads \in [Deletes -> Nat]
  /\ outcome \in {"pending", "ok", "err"}

\* A data file is read with the positions of all of its positional deletes and
\* the predicates of all of its equality deletes, whoever loaded them: the
\* delete vector is looked up without waiting, so it has to be complete.
DeletesApplied ==
  \A t \in Tasks : task[t] = "done" =>
    /\ seen[t] = {d \in PosDeletes : t \in Refs[d]}
    /\ \A d \in EqOf(t) : pred[t][d] = "got"

\* A delete file is opened at most once however many data files share it.
LoadsOnce == \A d \in Deletes : loads[d] <= 1

\* A woken task never reaches unreachable!("Cannot be any other state than
\* loaded"), and a task never misses the predicate of a planned delete file.
PredicatePresent ==
  \A t \in Tasks : task[t] = "predicate" => \A d \in EqOf(t) :
    /\ file[d] # "none"
    /\ pred[t][d] = "woken" => file[d] \in {"stored", "notified"}

\* A Notify was signalled, or replaced, between a task's look at the state of
\* a delete file and its registration; on one event loop no step of another
\* task comes between those two.
Overtaken ==
  \/ \E t \in Tasks : \E d \in PosOf(t) : entry[t][d] = "looked" /\ file[d] = "read"
  \/ \E t \in Tasks : \E d \in EqOf(t) :
       \/ pred[t][d] = "looked_first"
       \/ pred[t][d] = "looked" /\ file[d] = "notified"

\* That race is the only way to a read that hangs: loaders that wait for each
\* other's delete files, failed loads and predicates never sent do not.
EndsUnlessOvertaken == <>(outcome # "pending" \/ Overtaken)

-----------------------------------------------------------------------------
(* The inductive invariant behind DeletesApplied, LoadsOnce and             *)
(* PredicatePresent                                                         *)

\* Positions are in the vectors before the file counts as loaded, and a loader
\* is done with a file only when it does.
PosInv ==
  \A d \in PosDeletes :
    /\ file[d] = "read" => \A u \in Refs[d] : d \in vectors[u]
    /\ \A t \in Tasks :
         /\ entry[t][d] = "merged" => \A u \in Refs[d] : d \in vectors[u]
         /\ entry[t][d] \in {"notify", "done"} => file[d] = "read"

\* A delete vector holds positions of its own data file only.
VectorInv == \A t \in Tasks : \A d \in vectors[t] : t \in Refs[d]

\* An equality delete has one owner, whose progress the filter shows.
EqInv ==
  \A d \in EqDeletes : \A t \in Tasks :
    /\ entry[t][d] \in {"started", "loading"} => file[d] = entry[t][d]
    /\ entry[t][d] = "done" => file[d] # "none"
    /\ pred[t][d] = "woken" => file[d] \in {"stored", "notified"}
    /\ \A u \in Tasks :
         entry[t][d] \in {"started", "loading"} /\ entry[u][d] \in {"started", "loading"}
           => t = u

\* A file that is not claimed, or claimed and not opened, has not been opened.
LoadInv ==
  \A d \in Deletes :
    /\ file[d] \in {"none", "started"} => loads[d] = 0
    /\ loads[d] <= 1

\* A data file is past its loader only when the loader is done with all files.
StageInv ==
  \A t \in Tasks :
    /\ loader[t] = "ok" => \A d \in DeletesOf[t] : entry[t][d] = "done"
    /\ task[t] \in {"predicate", "done"} => loader[t] = "ok"

\* The conjunction is inductive.
FilterInv ==
  TypeOK /\ PosInv /\ VectorInv /\ EqInv /\ LoadInv /\ StageInv /\ DeletesApplied
=============================================================================
