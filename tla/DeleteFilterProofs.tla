------------------------- MODULE DeleteFilterProofs -------------------------
(***************************************************************************)
(* FilterInv is an inductive invariant of DeleteFilter, for every set of   *)
(* data and delete files, on threads or on one event loop.  From it follow *)
(* that a data file is read with all of its deletes, that a delete file is *)
(* opened once, and that a woken task finds its predicate.                 *)
(*                                                                         *)
(* The argument: positions are merged before a positional delete counts as *)
(* loaded (PosInv) and a loader is done with it only then, so a data file  *)
(* past its loader (StageInv) finds its whole vector; an equality delete   *)
(* has one owner (EqInv), so its state never goes back once the predicate  *)
(* is stored.                                                              *)
(***************************************************************************)
EXTENDS DeleteFilter, TLAPS

\* Positional and equality deletes are told apart.
LEMMA Sets ==
  /\ PosDeletes \subseteq Deletes /\ EqDeletes \subseteq Deletes
  /\ \A d \in Deletes : d \in PosDeletes <=> d \notin EqDeletes
  /\ \A t \in Tasks : DeletesOf[t] \subseteq Deletes
BY DeletesAssumption DEF Deletes

\* A step that moves one entry of one loader.
LEMMA EntryUpdate ==
  ASSUME TypeOK, NEW t \in Tasks, NEW d \in Deletes, NEW from, NEW to \in EntryState,
         Entry(t, d, from, to)
  PROVE  /\ entry' \in [Tasks -> [Deletes -> EntryState]]
         /\ entry[t][d] = from /\ entry'[t][d] = to
         /\ \A u \in Tasks, c \in Deletes :
              u # t \/ c # d => entry'[u][c] = entry[u][c]
BY DEF TypeOK, Entry

\* A step that moves one lookup of one data file.
LEMMA PredUpdate ==
  ASSUME TypeOK, NEW t \in Tasks, NEW d \in Deletes, NEW from, NEW to \in PredState,
         Pred(t, d, from, to)
  PROVE  /\ pred' \in [Tasks -> [Deletes -> PredState]]
         /\ pred[t][d] = from /\ pred'[t][d] = to
         /\ \A u \in Tasks, c \in Deletes :
              u # t \/ c # d => pred'[u][c] = pred[u][c]
BY DEF TypeOK, Pred

\* The invariant holds before any data file is read.
LEMMA InitFilterInv == Init => FilterInv
<1> SUFFICES ASSUME Init PROVE FilterInv
  OBVIOUS
<1>1. TypeOK
  BY DeletesAssumption DEF Init, TypeOK, TaskState, LoaderState, EntryState, PosState,
     EqState, PredState, Deletes, EqOf
<1>2. PosInv /\ VectorInv /\ EqInv /\ LoadInv
  BY DeletesAssumption DEF Init, PosInv, VectorInv, EqInv, LoadInv, Deletes, EqOf
<1>3. StageInv /\ DeletesApplied
  BY DEF Init, StageInv, DeletesApplied
<1>4. QED
  BY <1>1, <1>2, <1>3 DEF FilterInv

\* A data file starts and spawns its loader.
LEMMA process_file_scan_taskStep ==
  ASSUME FilterInv, NEW t \in Tasks, process_file_scan_task(t)
  PROVE  FilterInv'
<1> USE DeletesAssumption DEF FilterInv, TypeOK, Deletes, process_file_scan_task
<1>1. TypeOK'
  BY DEF TaskState, LoaderState, EntryState, PosState, EqState, PredState
<1>2. PosInv'
  BY DEF PosInv, PosOf, EqOf
<1>3. VectorInv'
  BY DEF VectorInv
<1>4. EqInv'
  BY DEF EqInv, PosOf, EqOf
<1>5. LoadInv'
  BY DEF LoadInv, EqInv, PosOf, EqOf
<1>6. StageInv'
  BY DEF StageInv, PosOf, EqOf
<1>7. DeletesApplied'
  BY DEF DeletesApplied, PosOf, EqOf, StageInv
<1>8. QED
  BY <1>1, <1>2, <1>3, <1>4, <1>5, <1>6, <1>7

\* The data file is opened, or fails.
LEMMA open_parquet_fileStep ==
  ASSUME FilterInv, NEW t \in Tasks, open_parquet_file(t)
  PROVE  FilterInv'
<1> USE DeletesAssumption DEF FilterInv, TypeOK, Deletes, open_parquet_file
<1>1. TypeOK'
  <2>1. PICK result \in {"await", "failed"} : task' = [task EXCEPT ![t] = result]
    OBVIOUS
  <2>2. QED
    BY <2>1 DEF TaskState
<1>2. PosInv'
  BY DEF PosInv, PosOf, EqOf
<1>3. VectorInv'
  BY DEF VectorInv
<1>4. EqInv'
  BY DEF EqInv, PosOf, EqOf
<1>5. LoadInv'
  BY DEF LoadInv, EqInv, PosOf, EqOf
<1>6. StageInv'
  BY DEF StageInv, PosOf, EqOf
<1>7. DeletesApplied'
  BY DEF DeletesApplied, PosOf, EqOf, StageInv
<1>8. QED
  BY <1>1, <1>2, <1>3, <1>4, <1>5, <1>6, <1>7

\* The loader's answer arrives.
LEMMA AwaitDeletesStep ==
  ASSUME FilterInv, NEW t \in Tasks, AwaitDeletes(t)
  PROVE  FilterInv'
<1> USE DeletesAssumption DEF FilterInv, TypeOK, Deletes, AwaitDeletes
<1>1. TypeOK'
  BY DEF TaskState, LoaderState, EntryState, PosState, EqState, PredState
<1>2. PosInv'
  BY DEF PosInv, PosOf, EqOf
<1>3. VectorInv'
  BY DEF VectorInv
<1>4. EqInv'
  BY DEF EqInv, PosOf, EqOf
<1>5. LoadInv'
  BY DEF LoadInv, EqInv, PosOf, EqOf
<1>6. StageInv'
  BY DEF StageInv, PosOf, EqOf
<1>7. DeletesApplied'
  BY DEF DeletesApplied, PosOf, EqOf, StageInv
<1>8. QED
  BY <1>1, <1>2, <1>3, <1>4, <1>5, <1>6, <1>7

\* The rows are read: every delete of the file has been loaded.
LEMMA ReadRowsStep ==
  ASSUME FilterInv, NEW t \in Tasks, ReadRows(t)
  PROVE  FilterInv'
<1> USE DeletesAssumption DEF FilterInv, TypeOK, Deletes, ReadRows
<1>1. TypeOK'
  BY DEF TaskState, LoaderState, EntryState, PosState, EqState, PredState
<1>2. PosInv'
  BY DEF PosInv, PosOf, EqOf
<1>3. VectorInv'
  BY DEF VectorInv
<1>4. EqInv'
  BY DEF EqInv, PosOf, EqOf
<1>5. LoadInv'
  BY DEF LoadInv, EqInv, PosOf, EqOf
<1>6. StageInv'
  BY DEF StageInv, PosOf, EqOf
<1>7. DeletesApplied'
  <2>1. \A c \in PosDeletes : t \in Refs[c] => c \in vectors[t]
    BY RefsAssumption DEF StageInv, PosInv
  <2>2. \A c \in vectors[t] : c \in PosDeletes /\ t \in Refs[c]
    BY DEF VectorInv
  <2>3. vectors[t] = {c \in PosDeletes : t \in Refs[c]}
    BY <2>1, <2>2
  <2>4. QED
    BY <2>3 DEF DeletesApplied, EqOf
<1>8. QED
  BY <1>1, <1>2, <1>3, <1>4, <1>5, <1>6, <1>7

\* A loader is done with all of its files.
LEMMA LoaderEndsStep ==
  ASSUME FilterInv, NEW t \in Tasks, LoaderEnds(t)
  PROVE  FilterInv'
<1> USE DeletesAssumption DEF FilterInv, TypeOK, Deletes, LoaderEnds
<1>1. TypeOK'
  BY DEF TaskState, LoaderState, EntryState, PosState, EqState, PredState
<1>2. PosInv'
  BY DEF PosInv, PosOf, EqOf
<1>3. VectorInv'
  BY DEF VectorInv
<1>4. EqInv'
  BY DEF EqInv, PosOf, EqOf
<1>5. LoadInv'
  BY DEF LoadInv, EqInv, PosOf, EqOf
<1>6. StageInv'
  BY DEF StageInv, PosOf, EqOf
<1>7. DeletesApplied'
  BY DEF DeletesApplied, PosOf, EqOf, StageInv
<1>8. QED
  BY <1>1, <1>2, <1>3, <1>4, <1>5, <1>6, <1>7

\* A data file looks a predicate up.
LEMMA LookUpPredicateStep ==
  ASSUME FilterInv, NEW t \in Tasks, NEW d \in Deletes, LookUpPredicate(t, d)
  PROVE  FilterInv'
<1> USE Sets DEF FilterInv
<1>9. /\ UNCHANGED <<loader, entry, file, vectors, seen, loads, outcome>>
      /\ task[t] = "predicate" /\ d \in EqDeletes
  BY DEF LookUpPredicate, EqOf
<1>10. \/ UNCHANGED pred /\ task' = [task EXCEPT ![t] = "failed"]
       \/ /\ UNCHANGED task /\ pred'[t][d] \in {"looked_first", "looked", "got"}
          /\ pred' \in [Tasks -> [Deletes -> PredState]]
          /\ \A u \in Tasks, c \in Deletes :
               u # t \/ c # d => pred'[u][c] = pred[u][c]
  <2>1. CASE file[d] = "none" /\ UNCHANGED pred /\ task' = [task EXCEPT ![t] = "failed"]
    BY <2>1
  <2>2. CASE Pred(t, d, "todo", "looked_first") /\ UNCHANGED task
    BY <2>2, PredUpdate DEF PredState
  <2>3. CASE Pred(t, d, "todo", "looked") /\ UNCHANGED task
    BY <2>3, PredUpdate DEF PredState
  <2>4. CASE Pred(t, d, "todo", "got") /\ UNCHANGED task
    BY <2>4, PredUpdate DEF PredState
  <2>5. QED
    BY <2>1, <2>2, <2>3, <2>4 DEF LookUpPredicate
<1>1. TypeOK'
  BY <1>9, <1>10 DEF TypeOK, TaskState, LoaderState, EntryState, PosState, EqState, PredState
<1>2. PosInv'
  BY <1>9, <1>10 DEF TypeOK, PosInv, PosOf, EqOf
<1>3. VectorInv'
  BY <1>9, <1>10 DEF TypeOK, VectorInv
<1>4. EqInv'
  BY <1>9, <1>10 DEF TypeOK, EqInv, PosOf, EqOf
<1>5. LoadInv'
  BY <1>9, <1>10 DEF TypeOK, LoadInv, EqInv, PosOf, EqOf
<1>6. StageInv'
  BY <1>9, <1>10 DEF TypeOK, StageInv, PosOf, EqOf
<1>7. DeletesApplied'
  <2>1. \A u \in Tasks : task'[u] = "done" => u # t /\ task[u] = "done"
    BY <1>9, <1>10 DEF TypeOK
  <2>2. \A u \in Tasks : u # t => \A c \in EqOf(u) : pred'[u][c] = pred[u][c]
    BY <1>10 DEF EqOf
  <2>3. QED
    BY <1>9, <2>1, <2>2 DEF DeletesApplied
<1>8. QED
  BY <1>1, <1>2, <1>3, <1>4, <1>5, <1>6, <1>7

\* A data file waits for a predicate.
LEMMA AwaitPredicateStep ==
  ASSUME FilterInv, NEW t \in Tasks, NEW d \in Deletes, AwaitPredicate(t, d)
  PROVE  FilterInv'
<1> USE Sets DEF FilterInv
<1>9. UNCHANGED <<task, loader, entry, file, vectors, seen, loads, outcome>>
  BY DEF AwaitPredicate
<1>10. /\ pred' \in [Tasks -> [Deletes -> PredState]]
           /\ \A u \in Tasks, c \in Deletes :
                u # t \/ c # d => pred'[u][c] = pred[u][c]
  BY PredUpdate DEF FilterInv, AwaitPredicate, PredState
<1>11. /\ d \in EqDeletes /\ d \in DeletesOf[t]
        /\ pred[t][d] # "got" /\ pred'[t][d] \in {"waiting_first", "waiting"}
  BY PredUpdate DEF FilterInv, AwaitPredicate, PredState, PosOf, EqOf, TypeOK
<1>1. TypeOK'
  BY <1>9, <1>10, <1>11 DEF TypeOK, TaskState, LoaderState, EntryState, PosState, EqState, PredState
<1>2. PosInv'
  BY <1>9, <1>10, <1>11 DEF TypeOK, PosInv, PosOf, EqOf
<1>3. VectorInv'
  BY <1>9, <1>10, <1>11 DEF TypeOK, VectorInv
<1>4. EqInv'
  BY <1>9, <1>10, <1>11 DEF TypeOK, EqInv, PosOf, EqOf
<1>5. LoadInv'
  BY <1>9, <1>10, <1>11 DEF TypeOK, LoadInv, EqInv, PosOf, EqOf
<1>6. StageInv'
  BY <1>9, <1>10, <1>11 DEF StageInv, PosOf, EqOf
<1>7. DeletesApplied'
  BY <1>9, <1>10, <1>11 DEF TypeOK, DeletesApplied, PosOf, EqOf, StageInv
<1>8. QED
  BY <1>1, <1>2, <1>3, <1>4, <1>5, <1>6, <1>7

\* A woken data file takes the predicate.
LEMMA GotPredicateStep ==
  ASSUME FilterInv, NEW t \in Tasks, NEW d \in Deletes, GotPredicate(t, d)
  PROVE  FilterInv'
<1> USE DeletesAssumption DEF FilterInv, TypeOK, Deletes, GotPredicate, Pred
<1>1. TypeOK'
  BY DEF TaskState, LoaderState, EntryState, PosState, EqState, PredState
<1>2. PosInv'
  BY DEF PosInv, PosOf, EqOf
<1>3. VectorInv'
  BY DEF VectorInv
<1>4. EqInv'
  BY DEF EqInv, PosOf, EqOf
<1>5. LoadInv'
  BY DEF LoadInv, EqInv, PosOf, EqOf
<1>6. StageInv'
  BY DEF StageInv, PosOf, EqOf
<1>7. DeletesApplied'
  BY DEF DeletesApplied, PosOf, EqOf, StageInv
<1>8. QED
  BY <1>1, <1>2, <1>3, <1>4, <1>5, <1>6, <1>7

\* A loader claims a positional delete, or leaves it to its owner.
LEMMA try_start_pos_del_loadStep ==
  ASSUME FilterInv, NEW t \in Tasks, NEW d \in Deletes, try_start_pos_del_load(t, d)
  PROVE  FilterInv'
<1> USE Sets DEF FilterInv
<1>9. UNCHANGED <<task, loader, vectors, pred, seen, outcome>>
  BY DEF try_start_pos_del_load
<1>10. /\ entry' \in [Tasks -> [Deletes -> EntryState]]
           /\ \A u \in Tasks, c \in Deletes :
                u # t \/ c # d => entry'[u][c] = entry[u][c]
  BY EntryUpdate DEF FilterInv, try_start_pos_del_load, CanStart, File, EntryState
<1>11. /\ d \in PosDeletes /\ loader[t] = "running" /\ entry[t][d] = "todo"
        /\ \/ /\ file[d] = "none" /\ entry'[t][d] = "loading"
              /\ file' = [file EXCEPT ![d] = "reading"] /\ file'[d] = "reading"
              /\ loads' = [loads EXCEPT ![d] = loads[d] + 1]
           \/ file[d] = "reading" /\ entry'[t][d] = "looked" /\ UNCHANGED <<file, loads>>
           \/ file[d] = "read" /\ entry'[t][d] = "done" /\ UNCHANGED <<file, loads>>
  BY EntryUpdate DEF FilterInv, try_start_pos_del_load, CanStart, File, EntryState, PosOf, EqOf, TypeOK
<1>12. /\ file' \in [Deletes -> PosState \cup EqState]
        /\ \A c \in Deletes : c # d => file'[c] = file[c]
  BY <1>11 DEF TypeOK, PosState, EqState
<1>1. TypeOK'
  <2>1. loads' \in [Deletes -> Nat]
    BY <1>11 DEF TypeOK
  <2>2. \A c \in Deletes : file'[c] \in IF c \in PosDeletes THEN PosState ELSE EqState
    BY <1>11, <1>12 DEF TypeOK, PosState
  <2>3. QED
    BY <1>9, <1>10, <1>12, <2>1, <2>2 DEF TypeOK
<1>2. PosInv'
  <2>1. \A c \in PosDeletes : file[c] = "read" <=> file'[c] = "read"
    BY <1>11, <1>12
  <2>2. \A u \in Tasks, c \in PosDeletes :
          /\ entry'[u][c] = "merged" => entry[u][c] = "merged"
          /\ entry'[u][c] \in {"notify", "done"} =>
               entry[u][c] \in {"notify", "done"} \/ file'[c] = "read"
    BY <1>10, <1>11
  <2>3. QED
    BY <1>9, <2>1, <2>2 DEF PosInv
<1>3. VectorInv'
  BY <1>9, <1>10, <1>11, <1>12 DEF TypeOK, VectorInv
<1>4. EqInv'
  BY <1>9, <1>10, <1>11, <1>12 DEF TypeOK, EqInv, PosOf, EqOf
<1>5. LoadInv'
  BY <1>9, <1>10, <1>11, <1>12 DEF TypeOK, LoadInv, EqInv, PosOf, EqOf
<1>6. StageInv'
  BY <1>9, <1>10, <1>11, <1>12 DEF StageInv, PosOf, EqOf
<1>7. DeletesApplied'
  BY <1>9, <1>10, <1>11, <1>12 DEF TypeOK, DeletesApplied, PosOf, EqOf, StageInv
<1>8. QED
  BY <1>1, <1>2, <1>3, <1>4, <1>5, <1>6, <1>7

\* A loader waits for the owner of a positional delete.
LEMMA AwaitPosDeleteStep ==
  ASSUME FilterInv, NEW t \in Tasks, NEW d \in Deletes, AwaitPosDelete(t, d)
  PROVE  FilterInv'
<1> USE Sets DEF FilterInv
<1>9. UNCHANGED <<task, loader, file, vectors, pred, seen, loads, outcome>>
  BY DEF AwaitPosDelete
<1>10. /\ entry' \in [Tasks -> [Deletes -> EntryState]]
           /\ \A u \in Tasks, c \in Deletes :
                u # t \/ c # d => entry'[u][c] = entry[u][c]
  BY EntryUpdate DEF FilterInv, AwaitPosDelete, EntryState
<1>11. /\ d \in PosDeletes /\ d \in DeletesOf[t]
        /\ entry[t][d] = "looked" /\ entry'[t][d] = "waiting"
  BY EntryUpdate DEF FilterInv, AwaitPosDelete, EntryState, PosOf, EqOf, TypeOK
<1>1. TypeOK'
  BY <1>9, <1>10, <1>11 DEF TypeOK, TaskState, LoaderState, EntryState, PosState, EqState, PredState
<1>2. PosInv'
  BY <1>9, <1>10, <1>11 DEF TypeOK, PosInv, PosOf, EqOf
<1>3. VectorInv'
  BY <1>9, <1>10, <1>11 DEF TypeOK, VectorInv
<1>4. EqInv'
  BY <1>9, <1>10, <1>11 DEF TypeOK, EqInv, PosOf, EqOf
<1>5. LoadInv'
  BY <1>9, <1>10, <1>11 DEF TypeOK, LoadInv, EqInv, PosOf, EqOf
<1>6. StageInv'
  BY <1>9, <1>10, <1>11 DEF StageInv, PosOf, EqOf
<1>7. DeletesApplied'
  BY <1>9, <1>10, <1>11 DEF TypeOK, DeletesApplied, PosOf, EqOf, StageInv
<1>8. QED
  BY <1>1, <1>2, <1>3, <1>4, <1>5, <1>6, <1>7

\* A loader claims an equality delete, or leaves it to its owner.
LEMMA try_start_eq_del_loadStep ==
  ASSUME FilterInv, NEW t \in Tasks, NEW d \in Deletes, try_start_eq_del_load(t, d)
  PROVE  FilterInv'
<1> USE Sets DEF FilterInv
<1>9. UNCHANGED <<task, loader, vectors, pred, seen, loads, outcome>>
  BY DEF try_start_eq_del_load
<1>10. /\ entry' \in [Tasks -> [Deletes -> EntryState]]
           /\ \A u \in Tasks, c \in Deletes :
                u # t \/ c # d => entry'[u][c] = entry[u][c]
  BY EntryUpdate DEF FilterInv, try_start_eq_del_load, CanStart, File, EntryState
<1>11. /\ d \in EqDeletes /\ loader[t] = "running" /\ entry[t][d] = "todo"
        /\ \/ /\ file[d] = "none" /\ entry'[t][d] = "started"
              /\ file' = [file EXCEPT ![d] = "started"] /\ file'[d] = "started"
           \/ file[d] # "none" /\ entry'[t][d] = "done" /\ UNCHANGED file
  BY EntryUpdate DEF FilterInv, try_start_eq_del_load, CanStart, File, EntryState, PosOf, EqOf, TypeOK
<1>12. /\ file' \in [Deletes -> PosState \cup EqState]
        /\ \A c \in Deletes : c # d => file'[c] = file[c]
  BY <1>11 DEF TypeOK, PosState, EqState
<1>1. TypeOK'
  BY <1>9, <1>10, <1>11, <1>12 DEF TypeOK, TaskState, LoaderState, EntryState, PosState, EqState, PredState
<1>2. PosInv'
  BY <1>9, <1>10, <1>11, <1>12 DEF TypeOK, PosInv, PosOf, EqOf
<1>3. VectorInv'
  BY <1>9, <1>10, <1>11, <1>12 DEF TypeOK, VectorInv
<1>4. EqInv'
  <2>1. \A u \in Tasks, c \in EqDeletes :
          /\ pred'[u][c] = pred[u][c]
          /\ c # d => file'[c] = file[c] /\ entry'[u][c] = entry[u][c]
    BY <1>9, <1>10, <1>12
  <2>2. CASE file[d] = "none"
    <3>1. /\ file'[d] = "started" /\ entry'[t][d] = "started"
          /\ \A u \in Tasks : u # t => entry'[u][d] = entry[u][d]
      BY <2>2, <1>10, <1>11
    <3>2. \A u \in Tasks : entry[u][d] \notin {"started", "loading", "done"}
      BY <2>2, <1>11 DEF EqInv
    <3>3. QED
      BY <2>1, <2>2, <3>1, <3>2, <1>11 DEF EqInv
  <2>3. CASE file[d] # "none"
    <3>1. /\ file'[d] = file[d] /\ entry'[t][d] = "done"
          /\ \A u \in Tasks : u # t => entry'[u][d] = entry[u][d]
      BY <2>3, <1>10, <1>11
    <3>2. QED
      BY <2>1, <2>3, <3>1, <1>11 DEF EqInv
  <2>4. QED
    BY <2>2, <2>3
<1>5. LoadInv'
  BY <1>9, <1>10, <1>11, <1>12 DEF TypeOK, LoadInv, EqInv, PosOf, EqOf
<1>6. StageInv'
  BY <1>9, <1>10, <1>11, <1>12 DEF StageInv, PosOf, EqOf
<1>7. DeletesApplied'
  BY <1>9, <1>10, <1>11, <1>12 DEF TypeOK, DeletesApplied, PosOf, EqOf, StageInv
<1>8. QED
  BY <1>1, <1>2, <1>3, <1>4, <1>5, <1>6, <1>7

\* The owner of an equality delete opens it.
LEMMA insert_equality_deleteStep ==
  ASSUME FilterInv, NEW t \in Tasks, NEW d \in Deletes, insert_equality_delete(t, d)
  PROVE  FilterInv'
<1> USE Sets DEF FilterInv
<1>9. UNCHANGED <<task, loader, vectors, pred, seen, outcome>>
  BY DEF insert_equality_delete
<1>10. /\ entry' \in [Tasks -> [Deletes -> EntryState]]
           /\ \A u \in Tasks, c \in Deletes :
                u # t \/ c # d => entry'[u][c] = entry[u][c]
  BY EntryUpdate DEF FilterInv, insert_equality_delete, File, EntryState
<1>11. /\ d \in EqDeletes /\ d \in DeletesOf[t]
        /\ entry[t][d] = "started" /\ entry'[t][d] = "loading"
        /\ file' = [file EXCEPT ![d] = "loading"] /\ file'[d] = "loading"
        /\ loads' = [loads EXCEPT ![d] = loads[d] + 1]
  BY EntryUpdate DEF FilterInv, insert_equality_delete, File, EntryState, PosOf, EqOf, TypeOK
<1>12. /\ file' \in [Deletes -> PosState \cup EqState]
        /\ \A c \in Deletes : c # d => file'[c] = file[c]
  BY <1>11 DEF TypeOK, PosState, EqState
<1>1. TypeOK'
  BY <1>9, <1>10, <1>11, <1>12 DEF TypeOK, TaskState, LoaderState, EntryState, PosState, EqState, PredState
<1>2. PosInv'
  BY <1>9, <1>10, <1>11, <1>12 DEF TypeOK, PosInv, PosOf, EqOf
<1>3. VectorInv'
  BY <1>9, <1>10, <1>11, <1>12 DEF TypeOK, VectorInv
<1>4. EqInv'
  BY <1>9, <1>10, <1>11, <1>12 DEF TypeOK, EqInv, PosOf, EqOf
<1>5. LoadInv'
  BY <1>9, <1>10, <1>11, <1>12 DEF TypeOK, LoadInv, EqInv, PosOf, EqOf
<1>6. StageInv'
  BY <1>9, <1>10, <1>11, <1>12 DEF StageInv, PosOf, EqOf
<1>7. DeletesApplied'
  BY <1>9, <1>10, <1>11, <1>12 DEF TypeOK, DeletesApplied, PosOf, EqOf, StageInv
<1>8. QED
  BY <1>1, <1>2, <1>3, <1>4, <1>5, <1>6, <1>7

\* A delete file is parsed.
LEMMA parse_file_content_for_taskStep ==
  ASSUME FilterInv, NEW t \in Tasks, NEW d \in Deletes, parse_file_content_for_task(t, d)
  PROVE  FilterInv'
<1> USE Sets DEF FilterInv
<1>9. UNCHANGED <<task, loader, vectors, pred, seen, loads, outcome>>
  BY DEF parse_file_content_for_task
<1>10. /\ entry' \in [Tasks -> [Deletes -> EntryState]]
           /\ \A u \in Tasks, c \in Deletes :
                u # t \/ c # d => entry'[u][c] = entry[u][c]
  BY EntryUpdate DEF FilterInv, parse_file_content_for_task, File, EntryState
<1>11. /\ loader[t] = "running" /\ entry[t][d] = "loading"
        /\ \/ d \in PosDeletes /\ entry'[t][d] = "parsed" /\ UNCHANGED file
           \/ /\ d \in EqDeletes /\ entry'[t][d] = "done"
              /\ file' = [file EXCEPT ![d] = "sent"] /\ file'[d] = "sent"
  BY EntryUpdate DEF FilterInv, parse_file_content_for_task, File, EntryState, PosOf, EqOf, TypeOK
<1>12. /\ file' \in [Deletes -> PosState \cup EqState]
        /\ \A c \in Deletes : c # d => file'[c] = file[c]
  BY <1>11 DEF TypeOK, PosState, EqState
<1>1. TypeOK'
  BY <1>9, <1>10, <1>11, <1>12 DEF TypeOK, TaskState, LoaderState, EntryState, PosState, EqState, PredState
<1>2. PosInv'
  BY <1>9, <1>10, <1>11, <1>12 DEF TypeOK, PosInv, PosOf, EqOf
<1>3. VectorInv'
  BY <1>9, <1>10, <1>11, <1>12 DEF TypeOK, VectorInv
<1>4. EqInv'
  BY <1>9, <1>10, <1>11, <1>12 DEF TypeOK, EqInv, PosOf, EqOf
<1>5. LoadInv'
  BY <1>9, <1>10, <1>11, <1>12 DEF TypeOK, LoadInv, EqInv, PosOf, EqOf
<1>6. StageInv'
  BY <1>9, <1>10, <1>11, <1>12 DEF StageInv, PosOf, EqOf
<1>7. DeletesApplied'
  BY <1>9, <1>10, <1>11, <1>12 DEF TypeOK, DeletesApplied, PosOf, EqOf, StageInv
<1>8. QED
  BY <1>1, <1>2, <1>3, <1>4, <1>5, <1>6, <1>7

\* A loader fails and drops what it has in flight.
LEMMA LoadFailsStep ==
  ASSUME FilterInv, NEW t \in Tasks, NEW d \in Deletes, LoadFails(t, d)
  PROVE  FilterInv'
<1> USE DeletesAssumption DEF FilterInv, TypeOK, Deletes, LoadFails
<1>1. TypeOK'
  <2>1. entry' \in [Tasks -> [Deletes -> EntryState]]
    BY DEF EntryState
  <2>2. \A c \in Deletes : file'[c] \in IF c \in PosDeletes THEN PosState ELSE EqState
    BY DEF EqOf, EqState
  <2>3. QED
    BY <2>1, <2>2 DEF LoaderState, PosState, EqState
<1>2. PosInv'
  BY DEF PosInv, PosOf, EqOf
<1>3. VectorInv'
  BY DEF VectorInv
<1>4. EqInv'
  BY DEF EqInv, PosOf, EqOf
<1>5. LoadInv'
  BY DEF LoadInv, EqInv, PosOf, EqOf
<1>6. StageInv'
  BY DEF StageInv, PosOf, EqOf
<1>7. DeletesApplied'
  BY DEF DeletesApplied, PosOf, EqOf, StageInv
<1>8. QED
  BY <1>1, <1>2, <1>3, <1>4, <1>5, <1>6, <1>7

\* Positions are merged into the vectors.
LEMMA upsert_delete_vectorStep ==
  ASSUME FilterInv, NEW t \in Tasks, NEW d \in Deletes, upsert_delete_vector(t, d)
  PROVE  FilterInv'
<1> USE Sets DEF FilterInv
<1>9. UNCHANGED <<task, loader, file, pred, seen, loads, outcome>>
  BY DEF upsert_delete_vector
<1>10. /\ entry' \in [Tasks -> [Deletes -> EntryState]]
           /\ \A u \in Tasks, c \in Deletes :
                u # t \/ c # d => entry'[u][c] = entry[u][c]
  BY EntryUpdate DEF FilterInv, upsert_delete_vector, Merged, EntryState
<1>11. /\ d \in PosDeletes /\ loader[t] = "running"
        /\ entry[t][d] = "parsed" /\ entry'[t][d] = "merged"
        /\ vectors' = [u \in Tasks |->
             IF u \in Refs[d] THEN vectors[u] \cup {d} ELSE vectors[u]]
  BY EntryUpdate DEF FilterInv, upsert_delete_vector, Merged, EntryState, PosOf, EqOf, TypeOK
<1>1. TypeOK'
  BY <1>9, <1>10, <1>11 DEF TypeOK, TaskState, LoaderState, EntryState, PosState, EqState, PredState
<1>2. PosInv'
  <2>1. /\ \A u \in Tasks : vectors[u] \subseteq vectors'[u]
        /\ \A u \in Refs[d] : u \in Tasks => d \in vectors'[u]
    BY <1>11
  <2>2. \A u \in Tasks, c \in PosDeletes :
          /\ entry'[u][c] = "merged" => entry[u][c] = "merged" \/ c = d
          /\ entry'[u][c] \in {"notify", "done"} => entry[u][c] \in {"notify", "done"}
    BY <1>10, <1>11
  <2>3. \A c \in PosDeletes : Refs[c] \subseteq Tasks
    BY RefsAssumption
  <2>4. QED
    BY <1>9, <1>11, <2>1, <2>2, <2>3 DEF PosInv
<1>3. VectorInv'
  BY <1>9, <1>10, <1>11 DEF TypeOK, VectorInv
<1>4. EqInv'
  BY <1>9, <1>10, <1>11 DEF TypeOK, EqInv, PosOf, EqOf
<1>5. LoadInv'
  BY <1>9, <1>10, <1>11 DEF TypeOK, LoadInv, EqInv, PosOf, EqOf
<1>6. StageInv'
  BY <1>9, <1>10, <1>11 DEF StageInv, PosOf, EqOf
<1>7. DeletesApplied'
  BY <1>9, <1>10, <1>11 DEF TypeOK, DeletesApplied, PosOf, EqOf, StageInv
<1>8. QED
  BY <1>1, <1>2, <1>3, <1>4, <1>5, <1>6, <1>7

\* A positional delete counts as loaded.
LEMMA finish_pos_del_loadStep ==
  ASSUME FilterInv, NEW t \in Tasks, NEW d \in Deletes, finish_pos_del_load(t, d)
  PROVE  FilterInv'
<1> USE Sets DEF FilterInv
<1>9. UNCHANGED <<task, loader, vectors, pred, seen, loads, outcome>>
  BY DEF finish_pos_del_load
<1>10. /\ entry' \in [Tasks -> [Deletes -> EntryState]]
           /\ \A u \in Tasks, c \in Deletes :
                u # t \/ c # d => entry'[u][c] = entry[u][c]
  BY EntryUpdate DEF FilterInv, finish_pos_del_load, File, EntryState
<1>11. /\ d \in PosDeletes /\ d \in DeletesOf[t]
        /\ entry[t][d] = "merged" /\ entry'[t][d] = "notify"
        /\ file' = [file EXCEPT ![d] = "read"] /\ file'[d] = "read"
  BY EntryUpdate DEF FilterInv, finish_pos_del_load, File, EntryState, PosOf, EqOf, TypeOK
<1>12. /\ file' \in [Deletes -> PosState \cup EqState]
        /\ \A c \in Deletes : c # d => file'[c] = file[c]
  BY <1>11 DEF TypeOK, PosState, EqState
<1>1. TypeOK'
  BY <1>9, <1>10, <1>11, <1>12 DEF TypeOK, TaskState, LoaderState, EntryState, PosState, EqState, PredState
<1>2. PosInv'
  BY <1>9, <1>10, <1>11, <1>12 DEF TypeOK, PosInv, PosOf, EqOf
<1>3. VectorInv'
  BY <1>9, <1>10, <1>11, <1>12 DEF TypeOK, VectorInv
<1>4. EqInv'
  BY <1>9, <1>10, <1>11, <1>12 DEF TypeOK, EqInv, PosOf, EqOf
<1>5. LoadInv'
  BY <1>9, <1>10, <1>11, <1>12 DEF TypeOK, LoadInv, EqInv, PosOf, EqOf
<1>6. StageInv'
  BY <1>9, <1>10, <1>11, <1>12 DEF StageInv, PosOf, EqOf
<1>7. DeletesApplied'
  BY <1>9, <1>10, <1>11, <1>12 DEF TypeOK, DeletesApplied, PosOf, EqOf, StageInv
<1>8. QED
  BY <1>1, <1>2, <1>3, <1>4, <1>5, <1>6, <1>7

\* The loaders that wait for a positional delete go on.
LEMMA NotifyPosWaitersStep ==
  ASSUME FilterInv, NEW t \in Tasks, NEW d \in Deletes, NotifyPosWaiters(t, d)
  PROVE  FilterInv'
<1> USE DeletesAssumption DEF FilterInv, TypeOK, Deletes, NotifyPosWaiters
<1>1. TypeOK'
  BY DEF TaskState, LoaderState, EntryState, PosState, EqState, PredState
<1>2. PosInv'
  BY DEF PosInv, PosOf, EqOf
<1>3. VectorInv'
  BY DEF VectorInv
<1>4. EqInv'
  BY DEF EqInv, PosOf, EqOf
<1>5. LoadInv'
  BY DEF LoadInv, EqInv, PosOf, EqOf
<1>6. StageInv'
  BY DEF StageInv, PosOf, EqOf
<1>7. DeletesApplied'
  BY DEF DeletesApplied, PosOf, EqOf, StageInv
<1>8. QED
  BY <1>1, <1>2, <1>3, <1>4, <1>5, <1>6, <1>7

\* A predicate enters the filter.
LEMMA StorePredicateStep ==
  ASSUME FilterInv, NEW d \in Deletes, StorePredicate(d)
  PROVE  FilterInv'
<1> USE DeletesAssumption DEF FilterInv, TypeOK, Deletes, StorePredicate, File
<1>1. TypeOK'
  BY DEF TaskState, LoaderState, EntryState, PosState, EqState, PredState
<1>2. PosInv'
  BY DEF PosInv, PosOf, EqOf
<1>3. VectorInv'
  BY DEF VectorInv
<1>4. EqInv'
  BY DEF EqInv, PosOf, EqOf
<1>5. LoadInv'
  BY DEF LoadInv, EqInv, PosOf, EqOf
<1>6. StageInv'
  BY DEF StageInv, PosOf, EqOf
<1>7. DeletesApplied'
  BY DEF DeletesApplied, PosOf, EqOf, StageInv
<1>8. QED
  BY <1>1, <1>2, <1>3, <1>4, <1>5, <1>6, <1>7

\* The data files that wait for a predicate are woken.
LEMMA NotifyEqWaitersStep ==
  ASSUME FilterInv, NEW d \in Deletes, NotifyEqWaiters(d)
  PROVE  FilterInv'
<1> USE DeletesAssumption DEF FilterInv, TypeOK, Deletes, NotifyEqWaiters, File, Woken
<1>1. TypeOK'
  BY DEF TaskState, LoaderState, EntryState, PosState, EqState, PredState
<1>2. PosInv'
  BY DEF PosInv, PosOf, EqOf
<1>3. VectorInv'
  BY DEF VectorInv
<1>4. EqInv'
  BY DEF EqInv, PosOf, EqOf
<1>5. LoadInv'
  BY DEF LoadInv, EqInv, PosOf, EqOf
<1>6. StageInv'
  BY DEF StageInv, PosOf, EqOf
<1>7. DeletesApplied'
  BY DEF DeletesApplied, PosOf, EqOf, StageInv
<1>8. QED
  BY <1>1, <1>2, <1>3, <1>4, <1>5, <1>6, <1>7

\* The stream ends.
LEMMA StreamEndsStep ==
  ASSUME FilterInv, StreamEnds
  PROVE  FilterInv'
<1> USE DeletesAssumption DEF FilterInv, TypeOK, Deletes, StreamEnds
<1>1. TypeOK'
  BY DEF TaskState, LoaderState, EntryState, PosState, EqState, PredState
<1>2. PosInv'
  BY DEF PosInv, PosOf, EqOf
<1>3. VectorInv'
  BY DEF VectorInv
<1>4. EqInv'
  BY DEF EqInv, PosOf, EqOf
<1>5. LoadInv'
  BY DEF LoadInv, EqInv, PosOf, EqOf
<1>6. StageInv'
  BY DEF StageInv, PosOf, EqOf
<1>7. DeletesApplied'
  BY DEF DeletesApplied, PosOf, EqOf, StageInv
<1>8. QED
  BY <1>1, <1>2, <1>3, <1>4, <1>5, <1>6, <1>7

\* FilterInv always holds: it holds initially and every step preserves it.
THEOREM FilterInvariant == Spec => []FilterInv
<1>1. ASSUME FilterInv, Next PROVE FilterInv'
  <2>1. CASE Continue
    BY <1>1, <2>1, AwaitPredicateStep, AwaitPosDeleteStep, insert_equality_deleteStep,
       finish_pos_del_loadStep, NotifyPosWaitersStep, NotifyEqWaitersStep DEF Continue
  <2>2. CASE Poll
    <3>1. CASE \E t \in Tasks :
                 \/ process_file_scan_task(t) \/ open_parquet_file(t) \/ AwaitDeletes(t)
                 \/ ReadRows(t) \/ LoaderEnds(t)
      BY <1>1, <3>1, process_file_scan_taskStep, open_parquet_fileStep, AwaitDeletesStep,
         ReadRowsStep, LoaderEndsStep
    <3>2. CASE \E t \in Tasks, d \in Deletes :
                 \/ LookUpPredicate(t, d) \/ GotPredicate(t, d)
                 \/ try_start_pos_del_load(t, d) \/ try_start_eq_del_load(t, d)
                 \/ parse_file_content_for_task(t, d) \/ LoadFails(t, d)
                 \/ upsert_delete_vector(t, d)
      BY <1>1, <3>2, LookUpPredicateStep, GotPredicateStep, try_start_pos_del_loadStep,
         try_start_eq_del_loadStep, parse_file_content_for_taskStep, LoadFailsStep,
         upsert_delete_vectorStep
    <3>3. CASE (\E d \in Deletes : StorePredicate(d)) \/ StreamEnds
      BY <1>1, <3>3, StorePredicateStep, StreamEndsStep
    <3>4. QED
      BY <2>2, <3>1, <3>2, <3>3 DEF Poll
  <2>3. QED
    BY <1>1, <2>1, <2>2 DEF Next
<1>2. ASSUME FilterInv, UNCHANGED vars PROVE FilterInv'
  BY <1>2 DEF vars, FilterInv, TypeOK, PosInv, VectorInv, EqInv, LoadInv, StageInv,
     DeletesApplied
<1>3. QED
  BY <1>1, <1>2, InitFilterInv, PTL DEF Spec

\* The state has its types in every reachable state.
THEOREM TypeCorrect == Spec => []TypeOK
<1>1. FilterInv => TypeOK
  BY DEF FilterInv
<1>2. QED
  BY <1>1, FilterInvariant, PTL

\* A data file is read with all of its deletes, whoever loaded them.
THEOREM DeletesAreApplied == Spec => []DeletesApplied
<1>1. FilterInv => DeletesApplied
  BY DEF FilterInv
<1>2. QED
  BY <1>1, FilterInvariant, PTL

\* A delete file is opened at most once.
THEOREM DeleteFilesLoadedOnce == Spec => []LoadsOnce
<1>1. FilterInv => LoadsOnce
  BY DEF FilterInv, LoadInv, LoadsOnce
<1>2. QED
  BY <1>1, FilterInvariant, PTL

\* A woken task finds its predicate; none is ever missing.
THEOREM PredicatesPresent == Spec => []PredicatePresent
<1>1. FilterInv => PredicatePresent
  BY DeletesAssumption DEF FilterInv, StageInv, EqInv, PredicatePresent, EqOf, Deletes
<1>2. QED
  BY <1>1, FilterInvariant, PTL
=============================================================================
