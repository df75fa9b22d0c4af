--------------------------- MODULE QueryPlanProofs ---------------------------
(***************************************************************************)
(* Proofs about the planning and the execution of a query's scans: the     *)
(* files (ScanPlan), their groups and partitions (ParallelScan) and the    *)
(* rules for joins (FkBounds), for every table, filter, query and          *)
(* concurrency.                                                            *)
(*                                                                         *)
(* ScanPlan.  Until a failure (Healthy), every stage that has ended has    *)
(* passed on all it received, so the index is complete when it is          *)
(* populated and the caller has every task when the stream ends; a failure *)
(* is always followed by an error before the stream can end.               *)
(*                                                                         *)
(* ParallelScan.  Sorting and greedy assignment are a list by descending   *)
(* size (Lists, Descending) and groups that share its files out evenly     *)
(* (SharedOut, Even); there is one such list unless two files have the     *)
(* same size, so partitions that plan for themselves agree.                *)
(*                                                                         *)
(* FkBounds.  A bound read from the dimension's keys loses no row of the   *)
(* join, outside the cases that ResultKept names.                          *)
(***************************************************************************)
EXTENDS ScanPlan, ParallelScan, FkBounds, SumTheorems

(* ScanPlan: the files of a scan.                                          *)

\* A populated index holds every delete file that applies to a matching data
\* file, and no other one.
LEMMA IndexComplete ==
  ASSUME PlanInv, Healthy, index # "populating", NEW e \in Data, KeepsData(e)
  PROVE  {d \in With(Deletes, {"indexed"}) : Applies(d, e)} = Applicable(e)
<1> USE EntryAssumption
<1>1. ASSUME NEW d \in With(Deletes, {"indexed"}), Applies(d, e)
      PROVE  d \in Applicable(e)
  BY <1>1 DEF PlanInv, KeepInv, KeepsDelete, With, Applies, Applicable, Deletes
<1>2. ASSUME NEW d \in Applicable(e)
      PROVE  d \in With(Deletes, {"indexed"}) /\ Applies(d, e)
  <2>1. d \in Entries /\ d \in Deletes /\ ManifestOf[d] \in Manifests
    BY DEF Applicable, Deletes
  <2>2. Kind[d] \in {"position", "equality"}
    BY <2>1 DEF Deletes, Data
  <2>3. Applies(d, e)
    BY <2>2 DEF Applicable, Applies
  <2>4. KeepsDelete(d)
    BY PartitionAssumption DEF Applicable, KeepsDelete, KeepsData
  <2>5. ctx[ManifestOf[d]] # "skipped"
    BY <2>1, <2>4 DEF PlanInv, CtxInv, ManifestPasses, EntriesOf, KeepsDelete
  <2>6. delete_consumer = "ended" /\ Closed(Deletes) /\ ctx[ManifestOf[d]] # "dropped"
    BY <2>1 DEF PlanInv, HealthInv
  <2>7. ctx[ManifestOf[d]] = "done"
    BY <2>1, <2>5, <2>6 DEF Closed
  <2>8. status[d] # "unsent"
    BY <2>1, <2>7 DEF PlanInv, CtxInv, EntriesOf
  <2>9. status[d] \notin {"queued", "parked", "active", "indexing", "lost"}
    BY <2>1, <2>6 DEF PlanInv, HealthInv
  <2>10. status[d] # "skipped"
    BY <2>1, <2>4 DEF PlanInv, KeepInv
  <2>11. status[d] = "indexed"
    BY <2>1, <2>8, <2>9, <2>10 DEF PlanInv, TypeOK, DeleteStatus
  <2>12. QED
    BY <2>1, <2>3, <2>11 DEF With
<1>3. QED
  BY <1>1, <1>2 DEF Applicable, With

\* The invariant holds before the plan starts.
LEMMA InitPlanInv == Init => PlanInv
<1> SUFFICES ASSUME Init PROVE PlanInv
  OBVIOUS
<1>1. TypeOK
  BY DEF Init, TypeOK, CtxState, TaskState, DeleteStatus, DataStatus, Deletes, Data
<1>2. TaskInv /\ CtxInv /\ KeepInv
  BY EntryAssumption DEF Init, TaskInv, CtxInv, KeepInv, EntriesOf, Deletes, Data
<1>3. HealthInv
  BY EntryAssumption DEF Init, HealthInv, Deletes, Data
<1>4. QED
  BY <1>1, <1>2, <1>3 DEF PlanInv

\* A context starts: nothing is sent yet.
LEMMA StartContextStep ==
  ASSUME PlanInv, outcome = "pending", NEW m \in Manifests, StartContext(m)
  PROVE  PlanInv'
<1> USE EntryAssumption DEF PlanInv, TypeOK, tasks, StartContext
<1>1. TypeOK'
  BY DEF CtxState, TaskState, DeleteStatus, DataStatus, Deletes, With
<1>2. TaskInv'
  BY DEF TaskInv, Healthy, InDataTask, With, Deletes
<1>3. CtxInv'
  BY DEF CtxInv, EntriesOf, ManifestPasses
<1>4. KeepInv'
  BY DEF KeepInv, KeepsDelete, KeepsData
<1>5. HealthInv'
  BY DEF HealthInv, Healthy, Closed, TaskInv, With, InDataTask
<1>6. QED
  BY <1>1, <1>2, <1>3, <1>4, <1>5

\* A manifest is fetched.
LEMMA get_manifestStep ==
  ASSUME PlanInv, outcome = "pending", NEW m \in Manifests, get_manifest(m)
  PROVE  PlanInv'
<1> USE EntryAssumption DEF PlanInv, TypeOK, tasks, get_manifest
<1>1. TypeOK'
  BY DEF CtxState, TaskState, DeleteStatus, DataStatus, Deletes, With
<1>2. TaskInv'
  BY DEF TaskInv, Healthy, InDataTask, With, Deletes
<1>3. CtxInv'
  BY DEF CtxInv, EntriesOf, ManifestPasses
<1>4. KeepInv'
  BY DEF KeepInv, KeepsDelete, KeepsData
<1>5. HealthInv'
  BY DEF HealthInv, Healthy, Closed, TaskInv, With, InDataTask
<1>6. QED
  BY <1>1, <1>2, <1>3, <1>4, <1>5

\* A fetch fails: the scan is no longer healthy.
LEMMA get_manifest_failsStep ==
  ASSUME PlanInv, outcome = "pending", NEW m \in Manifests, get_manifest_fails(m)
  PROVE  PlanInv'
<1> USE EntryAssumption DEF PlanInv, TypeOK, tasks, get_manifest_fails, ProducerFails
<1>1. TypeOK'
  BY DEF CtxState, TaskState, DeleteStatus, DataStatus, Deletes, With
<1>2. TaskInv'
  BY DEF TaskInv, CtxInv, Healthy, InDataTask, With
<1>3. CtxInv'
  BY DEF CtxInv, EntriesOf, ManifestPasses
<1>4. KeepInv'
  BY DEF KeepInv, KeepsDelete, KeepsData
<1>5. HealthInv'
  BY DEF HealthInv, Healthy, Closed, TaskInv, With, InDataTask
<1>6. QED
  BY <1>1, <1>2, <1>3, <1>4, <1>5

\* A context ends once it has sent all its entries.
LEMMA ContextDoneStep ==
  ASSUME PlanInv, outcome = "pending", NEW m \in Manifests, ContextDone(m)
  PROVE  PlanInv'
<1> USE EntryAssumption DEF PlanInv, TypeOK, tasks, ContextDone
<1>1. TypeOK'
  BY DEF CtxState, TaskState, DeleteStatus, DataStatus, Deletes, With
<1>2. TaskInv'
  BY DEF TaskInv, Healthy, InDataTask, With, Deletes
<1>3. CtxInv'
  BY DEF CtxInv, EntriesOf, ManifestPasses
<1>4. KeepInv'
  BY DEF KeepInv, KeepsDelete, KeepsData
<1>5. HealthInv'
  BY DEF HealthInv, Healthy, Closed, TaskInv, With, InDataTask
<1>6. QED
  BY <1>1, <1>2, <1>3, <1>4, <1>5

\* An entry enters a channel whose receiver still runs.
LEMMA StreamEntryStep ==
  ASSUME PlanInv, outcome = "pending", NEW e \in Entries, StreamEntry(e)
  PROVE  PlanInv'
<1> USE EntryAssumption DEF PlanInv, TypeOK, tasks, StreamEntry, ConsumerOf
<1>1. TypeOK'
  BY DEF CtxState, TaskState, DeleteStatus, DataStatus, Deletes, With
<1>2. TaskInv'
  BY DEF TaskInv, Healthy, InDataTask, With, Deletes
<1>3. CtxInv'
  BY DEF CtxInv, EntriesOf, ManifestPasses
<1>4. KeepInv'
  BY DEF KeepInv, KeepsDelete, KeepsData
<1>5. HealthInv'
  BY DEF HealthInv, Healthy, Closed, TaskInv, With, InDataTask
<1>6. QED
  BY <1>1, <1>2, <1>3, <1>4, <1>5

\* The sender of an entry is woken: the entry stays in its channel.
LEMMA UnparkStep ==
  ASSUME PlanInv, outcome = "pending", NEW e \in Entries, Unpark(e)
  PROVE  PlanInv'
<1> USE EntryAssumption DEF PlanInv, TypeOK, tasks, Unpark
<1>1. TypeOK'
  BY DEF CtxState, TaskState, DeleteStatus, DataStatus, Deletes, With
<1>2. TaskInv'
  BY DEF TaskInv, Healthy, InDataTask, With, Deletes
<1>3. CtxInv'
  BY DEF CtxInv, EntriesOf, ManifestPasses
<1>4. KeepInv'
  BY DEF KeepInv, KeepsDelete, KeepsData
<1>5. HealthInv'
  BY DEF HealthInv, Healthy, Closed, TaskInv, With, InDataTask
<1>6. QED
  BY <1>1, <1>2, <1>3, <1>4, <1>5

\* A delete entry gets its task.
LEMMA ReceiveDeleteStep ==
  ASSUME PlanInv, outcome = "pending", NEW e \in Entries, ReceiveDelete(e)
  PROVE  PlanInv'
<1> USE EntryAssumption DEF PlanInv, TypeOK, tasks, ReceiveDelete
<1>1. TypeOK'
  BY DEF CtxState, TaskState, DeleteStatus, DataStatus, Deletes, With
<1>2. TaskInv'
  BY DEF TaskInv, Healthy, InDataTask, With, Deletes
<1>3. CtxInv'
  BY DEF CtxInv, EntriesOf, ManifestPasses
<1>4. KeepInv'
  BY DEF KeepInv, KeepsDelete, KeepsData
<1>5. HealthInv'
  BY DEF HealthInv, Healthy, Closed, TaskInv, With, InDataTask
<1>6. QED
  BY <1>1, <1>2, <1>3, <1>4, <1>5

\* The task of a delete entry filters it or feeds it to the index.
LEMMA process_delete_manifest_entryStep ==
  ASSUME PlanInv, outcome = "pending", NEW e \in Entries, process_delete_manifest_entry(e)
  PROVE  PlanInv'
<1>1. PICK s \in {"skipped", "indexing"} :
        /\ e \in Deletes /\ status[e] = "active"
        /\ status' = [status EXCEPT ![e] = s]
        /\ s = "skipped" => ~KeepsDelete(e)
        /\ s = "indexing" => KeepsDelete(e)
        /\ UNCHANGED <<ctx, deletes, tasks, index, reports, outcome>>
  BY DEF process_delete_manifest_entry
<1> USE <1>1, EntryAssumption DEF PlanInv, TypeOK, tasks
<1>2. TypeOK'
  BY DEF CtxState, TaskState, DeleteStatus, DataStatus, Deletes
<1>3. TaskInv'
  BY DEF TaskInv, Healthy, Deletes
<1>4. CtxInv'
  BY DEF CtxInv, EntriesOf, ManifestPasses
<1>5. KeepInv'
  BY DEF KeepInv, KeepsDelete, KeepsData
<1>6. HealthInv'
  BY DEF HealthInv, Healthy, Closed, Deletes
<1>7. QED
  BY <1>2, <1>3, <1>4, <1>5, <1>6

\* A failed delete task is a failure of the scan: its consumer still runs or has
\* already failed.
LEMMA DeleteEntryFailsStep ==
  ASSUME PlanInv, outcome = "pending", NEW e \in Entries, DeleteEntryFails(e)
  PROVE  PlanInv'
<1>1. /\ status' \in [Entries -> DeleteStatus \cup DataStatus]
      /\ \A d \in Entries : \/ status'[d] = status[d]
                            \/ /\ status'[d] = "lost" /\ status[d] # "unsent"
                               /\ d \in Deletes
      /\ e \in Deletes /\ status[e] = "active"
      /\ delete_consumer \in {"running", "failed"} => delete_consumer' = "failed"
      /\ delete_consumer \notin {"running", "failed"} => delete_consumer' = delete_consumer
      /\ UNCHANGED <<ctx, deletes, producer, data_consumer, index, reports, outcome>>
  BY DEF PlanInv, TypeOK, DeleteEntryFails, Lost, DeleteStatus
<1>2. ~Healthy'
  <2>1. ~Healthy \/ delete_consumer \in {"running", "failed"}
    BY <1>1, EntryAssumption DEF PlanInv, TypeOK, TaskState, TaskInv, CtxInv, EntriesOf, HealthInv, InDataTask
  <2>2. QED
    BY <1>1, <2>1 DEF Healthy
<1> USE <1>1, <1>2, EntryAssumption DEF PlanInv, TypeOK
<1>3. TypeOK'
  BY DEF CtxState, TaskState, DeleteStatus, DataStatus, Deletes, Data
<1>4. TaskInv'
  BY DEF TaskInv, Healthy, InDataTask, Deletes, Data
<1>5. CtxInv'
  BY DEF CtxInv, EntriesOf, ManifestPasses
<1>6. KeepInv'
  BY DEF KeepInv, KeepsDelete, KeepsData, Deletes, Data
<1>7. HealthInv'
  BY DEF HealthInv
<1>8. QED
  BY <1>3, <1>4, <1>5, <1>6, <1>7

\* The index task takes a delete file.
LEMMA IndexReceivesStep ==
  ASSUME PlanInv, outcome = "pending", NEW e \in Entries, IndexReceives(e)
  PROVE  PlanInv'
<1> USE EntryAssumption DEF PlanInv, TypeOK, tasks, IndexReceives
<1>1. TypeOK'
  BY DEF CtxState, TaskState, DeleteStatus, DataStatus, Deletes, With
<1>2. TaskInv'
  BY DEF TaskInv, Healthy, InDataTask, With, Deletes
<1>3. CtxInv'
  BY DEF CtxInv, EntriesOf, ManifestPasses
<1>4. KeepInv'
  BY DEF KeepInv, KeepsDelete, KeepsData
<1>5. HealthInv'
  BY DEF HealthInv, Healthy, Closed, TaskInv, With, InDataTask
<1>6. QED
  BY <1>1, <1>2, <1>3, <1>4, <1>5

\* A data entry gets its task.
LEMMA ReceiveDataStep ==
  ASSUME PlanInv, outcome = "pending", NEW e \in Entries, ReceiveData(e)
  PROVE  PlanInv'
<1> USE EntryAssumption DEF PlanInv, TypeOK, tasks, ReceiveData
<1>1. TypeOK'
  BY DEF CtxState, TaskState, DeleteStatus, DataStatus, Deletes, With
<1>2. TaskInv'
  BY DEF TaskInv, Healthy, InDataTask, With, Deletes
<1>3. CtxInv'
  BY DEF CtxInv, EntriesOf, ManifestPasses
<1>4. KeepInv'
  BY DEF KeepInv, KeepsDelete, KeepsData
<1>5. HealthInv'
  BY DEF HealthInv, Healthy, Closed, TaskInv, With, InDataTask
<1>6. QED
  BY <1>1, <1>2, <1>3, <1>4, <1>5

\* The lookup in the index gives a matching data file its deletes.
LEMMA GetDeletesStep ==
  ASSUME PlanInv, outcome = "pending", NEW e \in Data, status[e] \in {"active", "woken"},
         index # "populating", KeepsData(e), GetDeletes(e),
         UNCHANGED <<ctx, tasks, index, reports, outcome>>
  PROVE  PlanInv'
<1>1. /\ e \in Entries /\ status' = [status EXCEPT ![e] = "sending"]
      /\ \A d \in Entries \ {e} : deletes'[d] = deletes[d]
      /\ deletes' \in [Entries -> SUBSET Deletes]
      /\ Healthy => deletes'[e] = Applicable(e)
  BY IndexComplete DEF PlanInv, TypeOK, GetDeletes, Data, With
<1> USE <1>1, EntryAssumption DEF PlanInv, TypeOK, tasks
<1>2. TypeOK'
  BY DEF CtxState, TaskState, DeleteStatus, DataStatus, Deletes, Data
<1>3. TaskInv'
  BY DEF TaskInv, Healthy, InDataTask
<1>4. CtxInv'
  BY DEF CtxInv, EntriesOf, ManifestPasses
<1>5. KeepInv'
  BY DEF KeepInv, KeepsDelete, KeepsData, Deletes
<1>6. HealthInv'
  BY DEF HealthInv, Healthy, Closed, TaskInv, InDataTask, Deletes, Data, Applicable
<1>7. QED
  BY <1>2, <1>3, <1>4, <1>5, <1>6

\* The task of a data entry filters it, looks its deletes up, or waits.
LEMMA process_data_manifest_entryStep ==
  ASSUME PlanInv, outcome = "pending", NEW e \in Entries, process_data_manifest_entry(e)
  PROVE  PlanInv'
<1>1. CASE KeepsData(e) /\ index # "populating" /\ GetDeletes(e)
  BY <1>1, GetDeletesStep DEF process_data_manifest_entry
<1>2. ASSUME NEW s \in {"skipped", "looked", "waiting"},
             status' = [status EXCEPT ![e] = s], UNCHANGED deletes,
             s = "skipped" => ~KeepsData(e), s # "skipped" => KeepsData(e)
      PROVE  PlanInv'
  <2>1. /\ e \in Data /\ status[e] = "active"
        /\ UNCHANGED <<ctx, deletes, tasks, index, reports, outcome>>
    BY <1>2 DEF process_data_manifest_entry
  <2> USE <1>2, <2>1, EntryAssumption DEF PlanInv, TypeOK, tasks
  <2>2. TypeOK'
    BY DEF CtxState, TaskState, DeleteStatus, DataStatus, Deletes
  <2>3. TaskInv'
    BY DEF TaskInv, Healthy, InDataTask
  <2>4. CtxInv'
    BY DEF CtxInv, EntriesOf, ManifestPasses
  <2>5. KeepInv'
    BY DEF KeepInv, KeepsDelete, KeepsData, Deletes
  <2>6. HealthInv'
    BY DEF HealthInv, Healthy, Closed, InDataTask, Deletes
  <2>7. QED
    BY <2>2, <2>3, <2>4, <2>5, <2>6
<1>3. QED
  BY <1>1, <1>2 DEF process_data_manifest_entry

\* A woken task finds the index populated.
LEMMA WokenLookupStep ==
  ASSUME PlanInv, outcome = "pending", NEW e \in Entries, WokenLookup(e)
  PROVE  PlanInv'
<1>1. KeepsData(e) /\ index # "populating"
  BY DEF PlanInv, KeepInv, WokenLookup
<1>2. QED
  BY <1>1, GetDeletesStep DEF WokenLookup

\* A data task waits for the index.
LEMMA notifiedStep ==
  ASSUME PlanInv, outcome = "pending", NEW e \in Entries, notified(e)
  PROVE  PlanInv'
<1> USE EntryAssumption DEF PlanInv, TypeOK, tasks, notified
<1>1. TypeOK'
  BY DEF CtxState, TaskState, DeleteStatus, DataStatus, Deletes, With
<1>2. TaskInv'
  BY DEF TaskInv, Healthy, InDataTask, With, Deletes
<1>3. CtxInv'
  BY DEF CtxInv, EntriesOf, ManifestPasses
<1>4. KeepInv'
  BY DEF KeepInv, KeepsDelete, KeepsData
<1>5. HealthInv'
  BY DEF HealthInv, Healthy, Closed, TaskInv, With, InDataTask
<1>6. QED
  BY <1>1, <1>2, <1>3, <1>4, <1>5

\* The same for a data task.
LEMMA DataEntryFailsStep ==
  ASSUME PlanInv, outcome = "pending", NEW e \in Entries, DataEntryFails(e)
  PROVE  PlanInv'
<1>1. /\ status' \in [Entries -> DeleteStatus \cup DataStatus]
      /\ \A d \in Entries : \/ status'[d] = status[d]
                            \/ /\ status'[d] = "lost" /\ status[d] # "unsent"
                               /\ d \in Data
      /\ e \in Data /\ status[e] = "active"
      /\ data_consumer \in {"running", "failed"} => data_consumer' = "failed"
      /\ data_consumer \notin {"running", "failed"} => data_consumer' = data_consumer
      /\ UNCHANGED <<ctx, deletes, producer, delete_consumer, index, reports, outcome>>
  BY DEF PlanInv, TypeOK, DataEntryFails, Lost, DeleteStatus
<1>2. ~Healthy'
  <2>1. ~Healthy \/ data_consumer \in {"running", "failed"}
    BY <1>1, EntryAssumption DEF PlanInv, TypeOK, TaskState, TaskInv, CtxInv, EntriesOf, HealthInv, InDataTask
  <2>2. QED
    BY <1>1, <2>1 DEF Healthy
<1> USE <1>1, <1>2, EntryAssumption DEF PlanInv, TypeOK
<1>3. TypeOK'
  BY DEF CtxState, TaskState, DeleteStatus, DataStatus, Deletes, Data
<1>4. TaskInv'
  BY DEF TaskInv, Healthy, InDataTask, Deletes, Data
<1>5. CtxInv'
  BY DEF CtxInv, EntriesOf, ManifestPasses
<1>6. KeepInv'
  BY DEF KeepInv, KeepsDelete, KeepsData, Deletes, Data
<1>7. HealthInv'
  BY DEF HealthInv
<1>8. QED
  BY <1>3, <1>4, <1>5, <1>6, <1>7

\* A finished task is sent to the caller.
LEMMA SendTaskStep ==
  ASSUME PlanInv, outcome = "pending", NEW e \in Entries, SendTask(e)
  PROVE  PlanInv'
<1> USE EntryAssumption DEF PlanInv, TypeOK, tasks, SendTask
<1>1. TypeOK'
  BY DEF CtxState, TaskState, DeleteStatus, DataStatus, Deletes, With
<1>2. TaskInv'
  BY DEF TaskInv, Healthy, InDataTask, With, Deletes
<1>3. CtxInv'
  BY DEF CtxInv, EntriesOf, ManifestPasses
<1>4. KeepInv'
  BY DEF KeepInv, KeepsDelete, KeepsData
<1>5. HealthInv'
  BY DEF HealthInv, Healthy, Closed, TaskInv, With, InDataTask
<1>6. QED
  BY <1>1, <1>2, <1>3, <1>4, <1>5

\* The caller takes a task.
LEMMA CollectStep ==
  ASSUME PlanInv, outcome = "pending", NEW e \in Entries, Collect(e)
  PROVE  PlanInv'
<1> USE EntryAssumption DEF PlanInv, TypeOK, tasks, Collect
<1>1. TypeOK'
  BY DEF CtxState, TaskState, DeleteStatus, DataStatus, Deletes, With
<1>2. TaskInv'
  BY DEF TaskInv, Healthy, InDataTask, With, Deletes
<1>3. CtxInv'
  BY DEF CtxInv, EntriesOf, ManifestPasses
<1>4. KeepInv'
  BY DEF KeepInv, KeepsDelete, KeepsData
<1>5. HealthInv'
  BY DEF HealthInv, Healthy, Closed, TaskInv, With, InDataTask
<1>6. QED
  BY <1>1, <1>2, <1>3, <1>4, <1>5

\* A send to a dropped receiver fails the producer.
LEMMA StreamEntryFailsStep ==
  ASSUME PlanInv, outcome = "pending", NEW e \in Entries, StreamEntryFails(e)
  PROVE  PlanInv'
<1> USE EntryAssumption DEF PlanInv, TypeOK, tasks, StreamEntryFails, ProducerFails, ConsumerOf
<1>1. TypeOK'
  BY DEF CtxState, TaskState, DeleteStatus, DataStatus, Deletes, With
<1>2. TaskInv'
  BY DEF TaskInv, Healthy, InDataTask, With, Deletes
<1>3. CtxInv'
  BY DEF CtxInv, EntriesOf, ManifestPasses
<1>4. KeepInv'
  BY DEF KeepInv, KeepsDelete, KeepsData
<1>5. HealthInv'
  BY DEF HealthInv, Healthy, Closed, TaskInv, With, InDataTask
<1>6. QED
  BY <1>1, <1>2, <1>3, <1>4, <1>5

\* No manifest list: the plan fails at once.
LEMMA get_manifest_list_failsStep ==
  ASSUME PlanInv, outcome = "pending", get_manifest_list_fails
  PROVE  PlanInv'
<1> USE EntryAssumption DEF PlanInv, TypeOK, tasks, get_manifest_list_fails
<1>1. TypeOK'
  BY DEF CtxState, TaskState, DeleteStatus, DataStatus, Deletes, With
<1>2. TaskInv'
  BY DEF TaskInv, Healthy, InDataTask, With, Deletes
<1>3. CtxInv'
  BY DEF CtxInv, EntriesOf, ManifestPasses
<1>4. KeepInv'
  BY DEF KeepInv, KeepsDelete, KeepsData
<1>5. HealthInv'
  BY DEF HealthInv, Healthy, Closed, TaskInv, With, InDataTask
<1>6. QED
  BY <1>1, <1>2, <1>3, <1>4, <1>5

\* The pipeline starts.
LEMMA build_manifest_file_contextsStep ==
  ASSUME PlanInv, outcome = "pending", build_manifest_file_contexts
  PROVE  PlanInv'
<1> USE EntryAssumption DEF PlanInv, TypeOK, tasks, build_manifest_file_contexts
<1>1. TypeOK'
  BY DEF CtxState, TaskState, DeleteStatus, DataStatus, Deletes, With
<1>2. TaskInv'
  BY DEF TaskInv, Healthy, InDataTask, With, Deletes
<1>3. CtxInv'
  BY DEF CtxInv, EntriesOf, ManifestPasses
<1>4. KeepInv'
  BY DEF KeepInv, KeepsDelete, KeepsData
<1>5. HealthInv'
  BY DEF HealthInv, Healthy, Closed, TaskInv, With, InDataTask
<1>6. QED
  BY <1>1, <1>2, <1>3, <1>4, <1>5

\* The producer ends with all contexts done, or reports its error.
LEMMA ProducerEndsStep ==
  ASSUME PlanInv, outcome = "pending", ProducerEnds
  PROVE  PlanInv'
<1>1. /\ producer \in {"running", "failed"} /\ producer' = "ended"
      /\ UNCHANGED <<ctx, status, deletes, delete_consumer, data_consumer, index, outcome>>
      /\ reports' \subseteq {"producer", "delete", "data"}
  BY DEF ProducerEnds, Report, PlanInv, TypeOK
<1>2. Healthy' => Healthy /\ \A m \in Manifests : ctx[m] \in {"done", "skipped"}
  BY DEF ProducerEnds, Report, Healthy
<1> USE <1>1, EntryAssumption DEF PlanInv, TypeOK
<1>3. TypeOK'
  BY DEF TaskState
<1>4. TaskInv'
  BY DEF TaskInv
<1>5. CtxInv'
  BY DEF CtxInv, EntriesOf, ManifestPasses
<1>6. KeepInv'
  BY DEF KeepInv, KeepsDelete, KeepsData
<1>7. HealthInv'
  BY <1>2 DEF HealthInv, Closed
<1>8. QED
  BY <1>3, <1>4, <1>5, <1>6, <1>7

\* The delete consumer ends when its channel is closed and its tasks joined.
LEMMA DeleteConsumerEndsStep ==
  ASSUME PlanInv, outcome = "pending", DeleteConsumerEnds
  PROVE  PlanInv'
<1> USE EntryAssumption DEF PlanInv, TypeOK, tasks, DeleteConsumerEnds, Report
<1>1. TypeOK'
  BY DEF CtxState, TaskState, DeleteStatus, DataStatus, Deletes, With
<1>2. TaskInv'
  BY DEF TaskInv, Healthy, InDataTask, With, Deletes
<1>3. CtxInv'
  BY DEF CtxInv, EntriesOf, ManifestPasses
<1>4. KeepInv'
  BY DEF KeepInv, KeepsDelete, KeepsData
<1>5. HealthInv'
  BY DEF HealthInv, Healthy, Closed, TaskInv, With, InDataTask
<1>6. QED
  BY <1>1, <1>2, <1>3, <1>4, <1>5

\* The index is populated from a drained channel.
LEMMA PopulateStep ==
  ASSUME PlanInv, outcome = "pending", Populate
  PROVE  PlanInv'
<1> USE EntryAssumption DEF PlanInv, TypeOK, tasks, Populate
<1>1. TypeOK'
  BY DEF CtxState, TaskState, DeleteStatus, DataStatus, Deletes, With
<1>2. TaskInv'
  BY DEF TaskInv, Healthy, InDataTask, With, Deletes
<1>3. CtxInv'
  BY DEF CtxInv, EntriesOf, ManifestPasses
<1>4. KeepInv'
  BY DEF KeepInv, KeepsDelete, KeepsData
<1>5. HealthInv'
  BY DEF HealthInv, Healthy, Closed, TaskInv, With, InDataTask
<1>6. QED
  BY <1>1, <1>2, <1>3, <1>4, <1>5

\* Notifying wakes waiting tasks and nothing else.
LEMMA NotifyWaitersStep ==
  ASSUME PlanInv, outcome = "pending", NotifyWaiters
  PROVE  PlanInv'
<1>1. /\ index = "populated" /\ index' = "notified"
      /\ status' \in [Entries -> DeleteStatus \cup DataStatus]
      /\ \A d \in Entries :
           \/ status'[d] = status[d]
           \/ d \in Data /\ status[d] = "waiting" /\ status'[d] = "woken"
      /\ UNCHANGED <<ctx, deletes, tasks, reports, outcome>>
  BY DEF NotifyWaiters, PlanInv, TypeOK, DataStatus
<1> USE <1>1, EntryAssumption DEF PlanInv, TypeOK, tasks
<1>2. TypeOK'
  BY DEF DeleteStatus, DataStatus, Deletes, Data
<1>3. TaskInv'
  BY DEF TaskInv, Healthy
<1>4. CtxInv'
  BY DEF CtxInv, EntriesOf, ManifestPasses
<1>5. KeepInv'
  BY DEF KeepInv, KeepsDelete, KeepsData, Deletes, Data
<1>6. HealthInv'
  BY DEF HealthInv, Healthy, Closed, InDataTask, Deletes, Data
<1>7. QED
  BY <1>2, <1>3, <1>4, <1>5, <1>6

\* plan_files returns after the delete consumer.
LEMMA plan_files_returnsStep ==
  ASSUME PlanInv, outcome = "pending", plan_files_returns
  PROVE  PlanInv'
<1> USE EntryAssumption DEF PlanInv, TypeOK, tasks, plan_files_returns
<1>1. TypeOK'
  BY DEF CtxState, TaskState, DeleteStatus, DataStatus, Deletes, With
<1>2. TaskInv'
  BY DEF TaskInv, Healthy, InDataTask, With, Deletes
<1>3. CtxInv'
  BY DEF CtxInv, EntriesOf, ManifestPasses
<1>4. KeepInv'
  BY DEF KeepInv, KeepsDelete, KeepsData
<1>5. HealthInv'
  BY DEF HealthInv, Healthy, Closed, TaskInv, With, InDataTask
<1>6. QED
  BY <1>1, <1>2, <1>3, <1>4, <1>5

\* The data consumer ends when its channel is closed and its tasks joined.
LEMMA DataConsumerEndsStep ==
  ASSUME PlanInv, outcome = "pending", DataConsumerEnds
  PROVE  PlanInv'
<1> USE EntryAssumption DEF PlanInv, TypeOK, tasks, DataConsumerEnds, Report
<1>1. TypeOK'
  BY DEF CtxState, TaskState, DeleteStatus, DataStatus, Deletes, With
<1>2. TaskInv'
  BY DEF TaskInv, Healthy, InDataTask, With, Deletes
<1>3. CtxInv'
  BY DEF CtxInv, EntriesOf, ManifestPasses
<1>4. KeepInv'
  BY DEF KeepInv, KeepsDelete, KeepsData
<1>5. HealthInv'
  BY DEF HealthInv, Healthy, Closed, TaskInv, With, InDataTask
<1>6. QED
  BY <1>1, <1>2, <1>3, <1>4, <1>5

\* The caller sees an error.
LEMMA CollectErrorStep ==
  ASSUME PlanInv, outcome = "pending", CollectError
  PROVE  PlanInv'
<1> USE EntryAssumption DEF PlanInv, TypeOK, tasks, CollectError
<1>1. TypeOK'
  BY DEF CtxState, TaskState, DeleteStatus, DataStatus, Deletes, With
<1>2. TaskInv'
  BY DEF TaskInv, Healthy, InDataTask, With, Deletes
<1>3. CtxInv'
  BY DEF CtxInv, EntriesOf, ManifestPasses
<1>4. KeepInv'
  BY DEF KeepInv, KeepsDelete, KeepsData
<1>5. HealthInv'
  BY DEF HealthInv, Healthy, Closed, TaskInv, With, InDataTask
<1>6. QED
  BY <1>1, <1>2, <1>3, <1>4, <1>5

\* The stream ends without an error.
LEMMA CollectEndStep ==
  ASSUME PlanInv, outcome = "pending", CollectEnd
  PROVE  PlanInv'
<1> USE EntryAssumption DEF PlanInv, TypeOK, tasks, CollectEnd
<1>1. TypeOK'
  BY DEF CtxState, TaskState, DeleteStatus, DataStatus, Deletes, With
<1>2. TaskInv'
  BY DEF TaskInv, Healthy, InDataTask, With, Deletes
<1>3. CtxInv'
  BY DEF CtxInv, EntriesOf, ManifestPasses
<1>4. KeepInv'
  BY DEF KeepInv, KeepsDelete, KeepsData
<1>5. HealthInv'
  BY DEF HealthInv, Healthy, Closed, TaskInv, With, InDataTask
<1>6. QED
  BY <1>1, <1>2, <1>3, <1>4, <1>5

\* Every step of every task preserves the invariant.
LEMMA NextPlanInv ==
  ASSUME PlanInv, [Next]_vars
  PROVE  PlanInv'
<1>1. CASE UNCHANGED vars
  BY <1>1 DEF vars, tasks, PlanInv, TypeOK, TaskInv, CtxInv, KeepInv, HealthInv, Healthy,
              Closed, ManifestPasses, KeepsDelete, KeepsData
<1>2. ASSUME outcome = "pending", NEW m \in Manifests, ContextStep(m)
      PROVE  PlanInv'
  BY <1>2, StartContextStep, get_manifestStep, get_manifest_failsStep, ContextDoneStep DEF ContextStep
<1>3. ASSUME outcome = "pending", NEW e \in Entries, EntryStep(e)
      PROVE  PlanInv'
  BY <1>3, StreamEntryStep, UnparkStep, ReceiveDeleteStep, process_delete_manifest_entryStep, DeleteEntryFailsStep,
     IndexReceivesStep, ReceiveDataStep, process_data_manifest_entryStep, notifiedStep, WokenLookupStep,
     DataEntryFailsStep, SendTaskStep, CollectStep, StreamEntryFailsStep DEF EntryStep
<1>4. ASSUME outcome = "pending", TaskStep
      PROVE  PlanInv'
  BY <1>4, get_manifest_list_failsStep, build_manifest_file_contextsStep, ProducerEndsStep,
     DeleteConsumerEndsStep, PopulateStep, NotifyWaitersStep, plan_files_returnsStep, DataConsumerEndsStep,
     CollectErrorStep, CollectEndStep DEF TaskStep
<1>5. QED
  BY <1>1, <1>2, <1>3, <1>4 DEF Next

\* PlanInv is an invariant of the pipeline.
THEOREM PlanInvariant == Spec => []PlanInv
<1>1. Init => PlanInv
  BY InitPlanInv
<1>2. PlanInv /\ [Next]_vars => PlanInv'
  BY NextPlanInv
<1>3. QED
  BY <1>1, <1>2, PTL DEF Spec

\* At the end of the stream the collected files are exactly the wanted ones.
LEMMA ExactAtEnd == PlanInv => PlanExact
<1> SUFFICES ASSUME PlanInv, outcome = "ok"
             PROVE  /\ With(Data, {"collected"}) = Wanted
                    /\ \A e \in Wanted : deletes[e] = Applicable(e)
  BY DEF PlanExact
<1> USE EntryAssumption
<1>1. /\ Healthy /\ producer = "ended" /\ data_consumer = "ended"
      /\ \A e \in Data : status[e] \notin InDataTask \cup {"sent"}
  BY DEF PlanInv, TaskInv
<1>2. ASSUME NEW e \in Wanted
      PROVE  status[e] = "collected"
  <2>1. e \in Data /\ e \in Entries /\ ManifestOf[e] \in Manifests /\ KeepsData(e)
    BY DEF Wanted, Data
  <2>2. ctx[ManifestOf[e]] = "done"
    BY <1>1, <2>1 DEF PlanInv, HealthInv, CtxInv, ManifestPasses, EntriesOf, KeepsData
  <2>3. status[e] \notin {"unsent", "queued", "parked", "lost", "skipped"}
    BY <1>1, <2>1, <2>2 DEF PlanInv, HealthInv, CtxInv, KeepInv, EntriesOf
  <2>4. QED
    BY <1>1, <2>1, <2>3 DEF PlanInv, TypeOK, DataStatus, InDataTask
<1>3. ASSUME NEW e \in Data, status[e] = "collected"
      PROVE  e \in Wanted
  BY <1>3 DEF PlanInv, KeepInv, Wanted
<1>4. \A e \in Wanted : deletes[e] = Applicable(e)
  BY <1>1, <1>2 DEF PlanInv, HealthInv, Wanted
<1>5. QED
  BY <1>2, <1>3, <1>4 DEF With, Wanted

\* A plan that succeeds has every matching file with every delete file.
THEOREM PlansExact == Spec => []PlanExact
<1>1. QED
  BY ExactAtEnd, PlanInvariant, PTL

\* plan_files implements the atomic plan: no partial plan is ever returned.
THEOREM PlanRefinement == Spec => ImplementsFilePlan
<1>1. Init => FilePlanSpec!Init
  BY DEF Init, FilePlanSpec!Init, FilePlanSpec!NoPlan, planned
<1>2. ASSUME PlanInv, PlanInv', [Next]_vars
      PROVE  [FilePlanSpec!Next]_<<outcome, planned>>
  <2>1. CASE outcome' = outcome /\ outcome # "ok"
    BY <2>1 DEF planned
  <2>2. CASE UNCHANGED vars
    BY <2>2 DEF vars, planned, With
  <2>3. CASE Next /\ outcome' = "err"
    BY <2>3 DEF Next, planned, FilePlanSpec!Next, FilePlanSpec!Fail
  <2>4. CASE Next /\ outcome' = "ok"
    <3>1. With(Data, {"collected"})' = Wanted /\ \A e \in Wanted : deletes'[e] = Applicable(e)
      <4>1. PlanExact'
        BY <1>2, ExactAtEnd, PTL
      <4>2. QED
        BY <2>4, <4>1 DEF PlanExact, Wanted, KeepsData, Applicable
    <3>2. QED
      BY <2>4, <3>1 DEF Next, planned, FilePlanSpec!Next, FilePlanSpec!Succeed
  <2>5. QED
    BY <1>2, <2>1, <2>2, <2>3, <2>4 DEF Next, PlanInv, TypeOK
<1>3. QED
  BY <1>1, <1>2, PlanInvariant, PTL DEF Spec, ImplementsFilePlan, FilePlanSpec!Spec

-----------------------------------------------------------------------------
(* ParallelScan: the groups of the files.                                  *)

(* Every file of P once. *)
Lists(q, P) ==
    /\ q \in [1..Cardinality(P) -> P]
    /\ \A i, j \in 1..Cardinality(P) : q[i] = q[j] => i = j
    /\ \A f \in P : \E i \in 1..Cardinality(P) : q[i] = f

(* A larger file before a smaller one. *)
Descending(q, P) == \A i, j \in 1..Cardinality(P) : i < j => bytes[q[j]] <= bytes[q[i]]

\* An injection of a finite set into one of as many members reaches all of them.
LEMMA Reaches ==
  ASSUME NEW S, NEW T, IsFiniteSet(T), Cardinality(S) = Cardinality(T), NEW f \in [S -> T],
         \A i, j \in S : f[i] = f[j] => i = j
  PROVE  \A y \in T : \E i \in S : f[i] = y
<1>1. f \in Injection(S, T)
  BY DEF Injection, IsInjective
<1>2. f \in Surjection(S, T)
  BY <1>1, FS_Injection
<1>3. QED
  BY <1>2 DEF Surjection

\* The numbers up to n.
LEMMA Numbers ==
  ASSUME NEW n \in Nat
  PROVE  IsFiniteSet(1..n) /\ Cardinality(1..n) = n
BY FS_Interval

\* What plan_files sends is a list of the files.
LEMMA TasksList ==
  ASSUME NEW P, IsFiniteSet(P), NEW listed \in SetToSeqs(P)
  PROVE  Lists(listed, P) /\ ToSet(listed) = P /\ Cardinality(P) \in Nat
<1> DEFINE n == Cardinality(P)
<1>1. n \in Nat
  BY FS_CardinalityType
<1>2. listed \in [1..n -> P] /\ \A i, j \in 1..n : listed[i] = listed[j] => i = j
  BY DEF SetToSeqs
<1>3. Cardinality(1..n) = Cardinality(P)
  BY <1>1, Numbers
<1> HIDE DEF n
<1>4. \A f \in P : \E i \in 1..n : listed[i] = f
  <2> DEFINE D == 1..n
  <2>1. listed \in [D -> P] /\ (\A i, j \in D : listed[i] = listed[j] => i = j)
        /\ Cardinality(D) = Cardinality(P)
    BY <1>2, <1>3
  <2> HIDE DEF D
  <2>2. \A f \in P : \E i \in D : listed[i] = f
    BY <2>1, Reaches
  <2>3. QED
    BY <2>2 DEF D
<1>5. ToSet(listed) = P
  BY <1>2, <1>4 DEF ToSet
<1>6. QED
  BY <1>1, <1>2, <1>4, <1>5 DEF Lists, n

\* sort_by_key gives a list of the same files, the largest first.
LEMMA SortIs ==
  ASSUME bytes \in [Files -> Nat], NEW P \in SUBSET Files, IsFiniteSet(P), NEW t, Lists(t, P)
  PROVE  Lists(LargestFirst(t), P) /\ Descending(LargestFirst(t), P)
<1> DEFINE n == Cardinality(P)
           D == 1..n
           B(i) == Before(t, i)
           R(i) == Cardinality(B(i))
<1>1. n \in Nat /\ IsFiniteSet(D) /\ Cardinality(D) = n
  BY FS_CardinalityType, Numbers
<1>2. DOMAIN t = D /\ \A i \in D : t[i] \in P /\ bytes[t[i]] \in Nat
  BY DEF Lists
<1>3. \A i, j \in D : j \in B(i) <=> \/ bytes[t[j]] > bytes[t[i]]
                                     \/ bytes[t[j]] = bytes[t[i]] /\ j < i
  BY <1>2 DEF Before
<1>4. \A i \in D : B(i) \subseteq D
  BY <1>2 DEF Before
<1> HIDE DEF n, B
<1>5. \A i \in D : i \in Nat
  OBVIOUS
<1> HIDE DEF D
<1>6. \A i \in D : i \notin B(i)
  BY <1>2, <1>3, <1>5
<1>7. \A i, j \in D : i # j => i \in B(j) \/ j \in B(i)
  BY <1>2, <1>3, <1>5
<1>8. \A i, j, k \in D : k \in B(j) /\ j \in B(i) => k \in B(i)
  BY <1>2, <1>3, <1>5
<1>9. \A i \in D : IsFiniteSet(B(i)) /\ R(i) \in Nat
  BY <1>1, <1>4, FS_Subset, FS_CardinalityType
<1>10. ASSUME NEW i \in D, NEW j \in D, j \in B(i) PROVE R(j) < R(i)
  <2>1. B(j) \subseteq B(i) /\ B(j) # B(i)
    BY <1>4, <1>6, <1>8, <1>10
  <2>2. R(j) <= R(i) /\ R(j) # R(i)
    BY <1>9, <2>1, FS_Subset
  <2>3. QED
    BY <1>9, <2>2
<1>11. ASSUME NEW i \in D PROVE R(i) + 1 \in D
  <2>1. B(i) \subseteq D /\ B(i) # D
    BY <1>4, <1>6
  <2>2. R(i) <= n /\ R(i) # n
    BY <1>1, <2>1, FS_Subset
  <2>3. QED
    BY <1>1, <1>9, <2>2 DEF D
<1>12. \A i, j \in D : R(i) = R(j) => i = j
  <2>1. SUFFICES ASSUME NEW i \in D, NEW j \in D, i # j PROVE R(i) # R(j)
    OBVIOUS
  <2>2. R(i) < R(j) \/ R(j) < R(i)
    BY <1>7, <1>10, <2>1
  <2>3. QED
    BY <1>9, <2>2
<1> DEFINE r == [i \in D |-> R(i) + 1]
<1> HIDE DEF R
<1>13. r \in [D -> D] /\ \A i, j \in D : r[i] = r[j] => i = j
  BY <1>9, <1>11, <1>12
<1> HIDE DEF r
<1>14. \A m \in D : \E i \in D : r[i] = m
  BY <1>1, <1>13, Reaches
<1> DEFINE C(m) == CHOOSE i \in D : R(i) = m - 1
<1>15. ASSUME NEW m \in D PROVE C(m) \in D /\ R(C(m)) = m - 1
  <2>1. PICK i \in D : r[i] = m
    BY <1>14
  <2>2. R(i) = m - 1
    BY <1>5, <1>9, <2>1 DEF r
  <2>3. QED
    BY <2>2
<1> DEFINE q == LargestFirst(t)
<1>16. q = [m \in D |-> t[C(m)]]
  BY <1>2 DEF LargestFirst, R, B
<1> HIDE DEF q, C
<1>17. DOMAIN q = D /\ \A m \in D : q[m] = t[C(m)]
  BY <1>16
<1>18. q \in [D -> P]
  BY <1>2, <1>15, <1>16
<1>19. \A i, j \in D : q[i] = q[j] => i = j
  <2>1. SUFFICES ASSUME NEW i \in D, NEW j \in D, q[i] = q[j] PROVE i = j
    OBVIOUS
  <2>2. C(i) = C(j)
    BY <1>15, <1>17, <2>1 DEF Lists, D, n
  <2>3. i - 1 = j - 1
    BY <1>15, <2>2
  <2>4. QED
    BY <1>5, <2>3
<1>20. \A f \in P : \E m \in D : q[m] = f
  <2>1. SUFFICES ASSUME NEW f \in P PROVE \E m \in D : q[m] = f
    OBVIOUS
  <2>2. PICK i \in D : t[i] = f
    BY DEF Lists, D, n
  <2> DEFINE m == R(i) + 1
  <2>3. m \in D /\ R(i) = m - 1
    BY <1>9, <1>11
  <2> HIDE DEF m
  <2>4. C(m) = i
    BY <1>12, <1>15, <2>3
  <2>5. QED
    BY <1>17, <2>2, <2>3, <2>4
<1>21. ASSUME NEW i \in D, NEW j \in D, i < j PROVE bytes[q[j]] <= bytes[q[i]]
  <2>1. C(i) \in D /\ C(j) \in D /\ R(C(i)) = i - 1 /\ R(C(j)) = j - 1
    BY <1>15
  <2>2. ~(R(C(j)) < R(C(i))) /\ C(i) # C(j)
    BY <1>5, <1>21, <2>1
  <2>3. C(i) \in B(C(j))
    BY <1>7, <1>10, <2>1, <2>2
  <2>4. bytes[t[C(j)]] <= bytes[t[C(i)]]
    BY <1>2, <1>3, <2>1, <2>3
  <2>5. QED
    BY <1>17, <2>4
<1>22. Lists(q, P)
  BY <1>18, <1>19, <1>20 DEF Lists, D, n
<1>23. Descending(q, P)
  BY <1>21 DEF Descending, D, n
<1>24. QED
  BY <1>22, <1>23 DEF q

\* When no two files have the same size there is one such list.
LEMMA OneOrder ==
  ASSUME bytes \in [Files -> Nat], DistinctSizes, NEW P \in SUBSET Files, IsFiniteSet(P),
         NEW a, Lists(a, P), Descending(a, P), NEW b, Lists(b, P), Descending(b, P)
  PROVE  a = b
<1> DEFINE D == 1..Cardinality(P)
           Bad == {n \in D : a[n] # b[n]}
<1>1. Cardinality(P) \in Nat /\ D \subseteq Nat
  BY FS_CardinalityType
<1>2. /\ a \in [D -> P] /\ b \in [D -> P]
      /\ \A i, j \in D : a[i] = a[j] => i = j
      /\ \A i, j \in D : b[i] = b[j] => i = j
      /\ \A f \in P : (\E i \in D : a[i] = f) /\ (\E i \in D : b[i] = f)
      /\ \A i, j \in D : i < j => bytes[a[j]] <= bytes[a[i]] /\ bytes[b[j]] <= bytes[b[i]]
  BY DEF Lists, Descending
<1> HIDE DEF D
<1>3. \A f, g \in P : bytes[f] \in Nat /\ (f # g => bytes[f] # bytes[g])
  BY DEF DistinctSizes
<1>4. Bad = {}
  <2> SUFFICES ASSUME Bad # {} PROVE FALSE
    OBVIOUS
  <2>1. PICK n \in Bad : \A k \in Bad : n <= k
    BY <1>1, LeastNat
  <2>2. n \in D /\ a[n] # b[n] /\ a[n] \in P /\ b[n] \in P
    BY <1>2, <2>1
  <2>3. \A k \in D : k < n => a[k] = b[k]
    BY <1>1, <2>1
  <2>4. PICK i \in D : b[i] = a[n]
    BY <1>2, <2>2
  <2>5. PICK j \in D : a[j] = b[n]
    BY <1>2, <2>2
  <2>6. n < i
    <3>1. i # n
      BY <2>2, <2>4
    <3>2. ~(i < n)
      <4>1. ASSUME i < n PROVE FALSE
        <5>1. a[i] = a[n]
          BY <2>3, <2>4, <4>1
        <5>2. QED
          BY <1>2, <2>2, <3>1, <5>1
      <4>2. QED
        BY <4>1
    <3>3. QED
      BY <1>1, <2>2, <3>1, <3>2
  <2>7. n < j
    <3>1. j # n
      BY <2>2, <2>5
    <3>2. ~(j < n)
      <4>1. ASSUME j < n PROVE FALSE
        <5>1. b[j] = b[n]
          BY <2>3, <2>5, <4>1
        <5>2. QED
          BY <1>2, <2>2, <3>1, <5>1
      <4>2. QED
        BY <4>1
    <3>3. QED
      BY <1>1, <2>2, <3>1, <3>2
  <2>8. bytes[a[n]] <= bytes[b[n]] /\ bytes[b[n]] <= bytes[a[n]]
    BY <1>2, <2>2, <2>4, <2>5, <2>6, <2>7
  <2>9. QED
    BY <1>3, <2>2, <2>8
<1>5. QED
  BY <1>2, <1>4

\* The bytes, the rows and the rows returned are sums.
LEMMA SumsAre ==
  /\ \A S : BytesOf(S) = SumOf(bytes, S)
  /\ \A S : RowsOf(S) = SumOf(Rows, S)
  /\ \A S : MapThenSumSet(LAMBDA p : emitted[p], S) = SumOf(emitted, S)
<1>1. ASSUME NEW S PROVE BytesOf(S) = SumOf(bytes, S)
  <2>1. BytesOf(S) = (CHOOSE g : g = [s \in SUBSET S |->
          IF s = {} THEN 0
          ELSE bytes[CHOOSE x \in s : TRUE] + g[s \ {CHOOSE x \in s : TRUE}]])[S]
    BY DEF BytesOf, MapThenSumSet, MapThenFoldSet
  <2>2. QED
    BY <2>1 DEF SumOf, SumsTo, Pick
<1>2. ASSUME NEW S PROVE RowsOf(S) = SumOf(Rows, S)
  <2>1. RowsOf(S) = (CHOOSE g : g = [s \in SUBSET S |->
          IF s = {} THEN 0
          ELSE Rows[CHOOSE x \in s : TRUE] + g[s \ {CHOOSE x \in s : TRUE}]])[S]
    BY DEF RowsOf, MapThenSumSet, MapThenFoldSet
  <2>2. QED
    BY <2>1 DEF SumOf, SumsTo, Pick
<1>3. ASSUME NEW S PROVE MapThenSumSet(LAMBDA p : emitted[p], S) = SumOf(emitted, S)
  <2>1. MapThenSumSet(LAMBDA p : emitted[p], S) = (CHOOSE g : g = [s \in SUBSET S |->
          IF s = {} THEN 0
          ELSE emitted[CHOOSE x \in s : TRUE] + g[s \ {CHOOSE x \in s : TRUE}]])[S]
    BY DEF MapThenSumSet, MapThenFoldSet
  <2>2. QED
    BY <2>1 DEF SumOf, SumsTo, Pick
<1>4. QED
  BY <1>1, <1>2, <1>3

-----------------------------------------------------------------------------
(* The groups share the files of Q out among them. *)
SharedOut(g, target, Q) ==
    /\ g \in [0..(target - 1) -> SUBSET Q]
    /\ \A f \in Q : \E p \in 0..(target - 1) : f \in g[p]
    /\ \A p, q \in 0..(target - 1) : p # q => g[p] \cap g[q] = {}

(* Without a smallest file, no group is heavier than another. *)
Even(g, target) ==
    \A p, q \in 0..(target - 1) : \A f \in g[p] :
        (\A h \in g[p] : bytes[f] <= bytes[h]) => BytesOf(g[p] \ {f}) <= BytesOf(g[q])

\* The bytes of files are a number, and a file adds its own.
LEMMA BytesAre ==
  ASSUME bytes \in [Files -> Nat], NEW S \in SUBSET Files, IsFiniteSet(S)
  PROVE  /\ BytesOf(S) \in Nat
         /\ \A x \in Files \ S : BytesOf(S \cup {x}) = bytes[x] + BytesOf(S)
         /\ \A x \in S : BytesOf(S) = bytes[x] + BytesOf(S \ {x})
<1>1. \A y \in S : bytes[y] \in Nat
  OBVIOUS
<1>2. BytesOf(S) \in Nat /\ \A x \in S : BytesOf(S) = bytes[x] + BytesOf(S \ {x})
  BY <1>1, SumsAre, SumFacts
<1>3. ASSUME NEW x \in Files \ S PROVE BytesOf(S \cup {x}) = bytes[x] + BytesOf(S)
  <2>1. \A y \in S \cup {x} : bytes[y] \in Nat
    OBVIOUS
  <2>2. QED
    BY <2>1, SumsAre, SumMore
<1>4. QED
  BY <1>2, <1>3

\* There is a lightest group.
LEMMA LightestIs ==
  ASSUME NEW target \in Nat \ {0}, NEW g, DOMAIN g = 0..(target - 1),
         \A p \in DOMAIN g : BytesOf(g[p]) \in Nat
  PROVE  /\ Lightest(g) \in DOMAIN g
         /\ \A q \in DOMAIN g : BytesOf(g[Lightest(g)]) <= BytesOf(g[q])
<1> DEFINE T == DOMAIN g
           b(p) == BytesOf(g[p])
           S == {b(p) : p \in T}
<1>1. 0 \in T /\ T \subseteq Nat /\ \A p \in T : b(p) \in Nat
  OBVIOUS
<1> HIDE DEF T, b
<1>2. PICK m \in S : \A k \in S : m <= k
  <2>1. S \subseteq Nat /\ S # {}
    BY <1>1
  <2> HIDE DEF S
  <2>2. QED
    BY <2>1, LeastNat
<1> DEFINE U == {p \in T : b(p) = m}
<1>3. PICK p \in U : \A q \in U : p <= q
  <2>1. U \subseteq Nat /\ U # {}
    BY <1>1, <1>2
  <2> HIDE DEF U
  <2>2. QED
    BY <2>1, LeastNat
<1>4. p \in T /\ \A q \in T \ {p} : b(p) < b(q) \/ (b(p) = b(q) /\ p < q)
  <2>1. p \in T /\ b(p) = m /\ \A q \in T : m <= b(q) /\ (b(q) = m => p <= q)
    BY <1>1, <1>2, <1>3
  <2>2. SUFFICES ASSUME NEW q \in T \ {p} PROVE b(p) < b(q) \/ (b(p) = b(q) /\ p < q)
    BY <2>1
  <2>3. b(p) <= b(q) /\ (b(q) = b(p) => p <= q) /\ p # q
    BY <2>1, <2>2
  <2>4. p \in Nat /\ q \in Nat /\ b(p) \in Nat /\ b(q) \in Nat
    BY <1>1, <2>1
  <2> HIDE DEF U
  <2>5. QED
    BY <2>3, <2>4
<1> DEFINE Ok(c) == \A q \in T \ {c} : b(c) < b(q) \/ (b(c) = b(q) /\ c < q)
           c == CHOOSE c \in T : Ok(c)
<1>5. Lightest(g) = c
  BY DEF Lightest, T, b
<1>6. Ok(p)
  BY <1>4
<1> HIDE DEF Ok
<1>7. c \in T /\ Ok(c)
  BY <1>4, <1>6
<1> HIDE DEF c
<1>8. \A q \in T : b(c) <= b(q)
  BY <1>1, <1>7 DEF Ok
<1>9. QED
  BY <1>5, <1>7, <1>8 DEF T, b

\* One file more, not larger than the others, keeps the groups even.
LEMMA AssignStep ==
  ASSUME bytes \in [Files -> Nat], NEW target \in Nat \ {0}, NEW Q \in SUBSET Files, IsFiniteSet(Q),
         NEW g, SharedOut(g, target, Q), Even(g, target),
         NEW x \in Files \ Q, \A f \in Q : bytes[x] <= bytes[f]
  PROVE  SharedOut(Assign(g, x), target, Q \cup {x}) /\ Even(Assign(g, x), target)
<1> DEFINE T == 0..(target - 1)
           c == Lightest(g)
           h == Assign(g, x)
<1>1. /\ g \in [T -> SUBSET Q] /\ DOMAIN g = T
      /\ \A f \in Q : \E p \in T : f \in g[p]
      /\ \A p, q \in T : p # q => g[p] \cap g[q] = {}
  BY DEF SharedOut
<1>2. \A p \in T : g[p] \in SUBSET Files /\ IsFiniteSet(g[p]) /\ BytesOf(g[p]) \in Nat
  BY <1>1, FS_Subset, BytesAre
<1>3. c \in T /\ \A q \in T : BytesOf(g[c]) <= BytesOf(g[q])
  BY <1>1, <1>2, LightestIs
<1>4. h = [g EXCEPT ![c] = @ \cup {x}]
  BY DEF Assign
<1> HIDE DEF T, c, h
<1>5. /\ h \in [T -> SUBSET (Q \cup {x})] /\ h[c] = g[c] \cup {x}
      /\ \A p \in T : p # c => h[p] = g[p]
  BY <1>1, <1>3, <1>4
<1>6. SharedOut(h, target, Q \cup {x})
  <2>1. ASSUME NEW f \in Q \cup {x} PROVE \E p \in T : f \in h[p]
    <3>1. CASE f = x
      BY <1>3, <1>5, <3>1
    <3>2. CASE f \in Q
      <4>1. PICK p \in T : f \in g[p]
        BY <1>1, <3>2
      <4>2. f \in h[p]
        BY <1>5, <4>1
      <4>3. QED
        BY <4>2
    <3>3. QED
      BY <3>1, <3>2
  <2>2. ASSUME NEW p \in T, NEW q \in T, p # q PROVE h[p] \cap h[q] = {}
    <3>1. \A r \in T : x \notin g[r]
      BY <1>1
    <3>2. g[p] \cap g[q] = {}
      BY <1>1, <2>2
    <3>3. QED
      BY <1>5, <2>2, <3>1, <3>2
  <2>3. QED
    BY <1>5, <2>1, <2>2 DEF SharedOut, T
<1>7. BytesOf(h[c]) = bytes[x] + BytesOf(g[c]) /\ h[c] \in SUBSET Files /\ IsFiniteSet(h[c])
  <2>1. x \in Files \ g[c]
    BY <1>1, <1>3
  <2>2. BytesOf(g[c] \cup {x}) = bytes[x] + BytesOf(g[c])
    BY <1>2, <1>3, <2>1, BytesAre
  <2>3. IsFiniteSet(g[c] \cup {x})
    BY <1>2, <1>3, FS_AddElement
  <2>4. QED
    BY <1>2, <1>3, <1>5, <2>2, <2>3
<1>8. bytes[x] \in Nat /\ \A q \in T : BytesOf(g[q]) <= BytesOf(h[q])
  BY <1>2, <1>5, <1>7
<1>9. ASSUME NEW p \in T, NEW q \in T, NEW f \in h[p], \A k \in h[p] : bytes[f] <= bytes[k]
      PROVE  BytesOf(h[p] \ {f}) <= BytesOf(h[q])
  <2>1. BytesOf(h[q]) \in Nat
    <3>1. CASE q = c
      BY <1>7, <3>1, BytesAre
    <3>2. CASE q # c
      BY <1>2, <1>5, <3>2
    <3>3. QED
      BY <3>1, <3>2
  <2>2. CASE p # c
    <3>1. h[p] = g[p]
      BY <1>5, <2>2
    <3>2. BytesOf(g[p] \ {f}) <= BytesOf(g[q])
      BY <1>9, <3>1 DEF Even, T
    <3>3. BytesOf(g[p] \ {f}) \in Nat
      <4>1. f \in g[p] /\ bytes[f] \in Nat
        BY <1>2, <3>1
      <4>2. g[p] \ {f} \in SUBSET Files /\ IsFiniteSet(g[p] \ {f})
        BY <1>2, FS_RemoveElement
      <4> DEFINE w == g[p] \ {f}
      <4> HIDE DEF w
      <4>3. BytesOf(w) \in Nat
        BY <4>2, BytesAre DEF w
      <4>4. QED
        BY <4>3 DEF w
    <3>4. QED
      BY <1>2, <1>8, <2>1, <3>1, <3>2, <3>3
  <2>3. CASE p = c
    <3>1. f \in h[c] /\ x \in h[c] /\ bytes[f] <= bytes[x] /\ bytes[f] \in Nat
      BY <1>5, <1>7, <1>9, <2>3
    <3>2. f = x \/ f \in Q
      BY <1>1, <1>3, <1>5, <3>1
    <3>3. bytes[f] = bytes[x]
      BY <1>8, <3>1, <3>2
    <3> DEFINE w == h[c] \ {f}
    <3>4. BytesOf(h[c]) = bytes[f] + BytesOf(w)
      BY <1>7, <3>1, BytesAre
    <3>5. w \in SUBSET Files /\ IsFiniteSet(w)
      BY <1>7, FS_RemoveElement
    <3> HIDE DEF w
    <3>6. BytesOf(w) \in Nat
      BY <3>5, BytesAre
    <3>7. BytesOf(w) = BytesOf(g[c])
      BY <1>2, <1>3, <1>7, <1>8, <3>3, <3>4, <3>6
    <3>8. BytesOf(w) <= BytesOf(h[q])
      BY <1>2, <1>3, <1>8, <2>1, <3>7
    <3>9. QED
      BY <2>3, <3>8 DEF w
  <2>4. QED
    BY <2>2, <2>3
<1>10. Even(h, target)
  BY <1>9 DEF Even, T
<1>11. QED
  BY <1>6, <1>10 DEF h

AssignsTo(q, target, m, g) ==
    g = [n \in 0..m |-> IF n = 0 THEN NoFiles(target) ELSE Assign(g[n - 1], q[n])]

\* The function of Balanced exists.
LEMMA AssignExists ==
  ASSUME NEW q, NEW target
  PROVE  \A m \in Nat : \E g : AssignsTo(q, target, m, g)
<1> DEFINE V(g, n) == IF n = 0 THEN NoFiles(target) ELSE Assign(g[n - 1], q[n])
           Bad == {m \in Nat : ~\E g : AssignsTo(q, target, m, g)}
<1> SUFFICES ASSUME Bad # {} PROVE FALSE
  OBVIOUS
<1>1. PICK m \in Bad : \A k \in Bad : m <= k
  BY LeastNat
<1>2. CASE m = 0
  <2> DEFINE g == [n \in 0..0 |-> NoFiles(target)]
  <2>1. g = [n \in 0..0 |-> V(g, n)]
    OBVIOUS
  <2>2. AssignsTo(q, target, 0, g)
    BY <2>1 DEF AssignsTo
  <2>3. QED
    BY <1>1, <1>2, <2>2
<1>3. CASE m # 0
  <2>1. m \in Nat /\ m - 1 \in Nat /\ m - 1 \notin Bad
    BY <1>1, <1>3
  <2>2. PICK g : AssignsTo(q, target, m - 1, g)
    BY <2>1
  <2> DEFINE h == [n \in 0..m |-> IF n = m THEN V(g, n) ELSE g[n]]
  <2>3. ASSUME NEW n \in 0..m PROVE h[n] = V(h, n)
    <3>1. CASE n = m
      <4>1. n # 0 /\ n - 1 \in 0..m /\ n - 1 # m
        BY <1>3, <2>1, <3>1
      <4>2. h[n] = V(g, n) /\ h[n - 1] = g[n - 1]
        BY <3>1, <4>1
      <4>3. QED
        BY <4>1, <4>2
    <3>2. CASE n # m
      <4>1. n \in 0..(m - 1) /\ (n = 0 \/ (n - 1 \in 0..m /\ n - 1 # m))
        BY <2>1, <3>2
      <4>2. h[n] = g[n] /\ g[n] = V(g, n)
        BY <2>2, <3>2, <4>1 DEF AssignsTo
      <4>3. n = 0 \/ h[n - 1] = g[n - 1]
        BY <4>1
      <4>4. QED
        BY <4>2, <4>3
    <3>3. QED
      BY <3>1, <3>2
  <2>4. h = [n \in 0..m |-> h[n]]
    OBVIOUS
  <2> HIDE DEF h
  <2>5. h = [n \in 0..m |-> V(h, n)]
    BY <2>3, <2>4
  <2>6. AssignsTo(q, target, m, h)
    BY <2>5 DEF AssignsTo
  <2>7. QED
    BY <1>1, <2>6
<1>4. QED
  BY <1>2, <1>3

\* The greedy groups of a list by descending size share its files out evenly.
LEMMA BalancedIs ==
  ASSUME bytes \in [Files -> Nat], NEW target \in Nat \ {0}, NEW P \in SUBSET Files, IsFiniteSet(P),
         NEW q, Lists(q, P), Descending(q, P)
  PROVE  SharedOut(Balanced(q, target), target, P) /\ Even(Balanced(q, target), target)
<1> DEFINE m == Cardinality(P)
           g == CHOOSE g : AssignsTo(q, target, m, g)
           Upto(n) == {q[i] : i \in 1..n}
           OK(n) == SharedOut(g[n], target, Upto(n)) /\ Even(g[n], target)
           Bad == {n \in 0..m : ~OK(n)}
<1>1. m \in Nat
  BY FS_CardinalityType
<1>2. /\ q \in [1..m -> P]
      /\ \A i, j \in 1..m : q[i] = q[j] => i = j
      /\ \A f \in P : \E i \in 1..m : q[i] = f
      /\ \A i, j \in 1..m : i < j => bytes[q[j]] <= bytes[q[i]]
  BY DEF Lists, Descending
<1>3. Len(q) = m
  BY <1>1, <1>2
<1>4. Balanced(q, target) = g[m]
  BY <1>3 DEF Balanced, AssignsTo
<1> HIDE DEF m
<1>5. AssignsTo(q, target, m, g)
  <2>1. \E f : AssignsTo(q, target, m, f)
    BY <1>1, AssignExists
  <2>2. QED
    BY <2>1
<1> HIDE DEF g
<1>6. \A n \in 0..m : g[n] = IF n = 0 THEN NoFiles(target) ELSE Assign(g[n - 1], q[n])
  BY <1>5 DEF AssignsTo
<1>7. Bad = {}
  <2> SUFFICES ASSUME Bad # {} PROVE FALSE
    OBVIOUS
  <2>1. PICK n \in Bad : \A k \in Bad : n <= k
    <3>1. Bad \subseteq Nat
      OBVIOUS
    <3> HIDE DEF Bad
    <3>2. QED
      BY <3>1, LeastNat
  <2>2. n \in 0..m /\ ~OK(n)
    BY <2>1
  <2>3. CASE n = 0
    <3>1. g[0] = NoFiles(target) /\ Upto(0) = {}
      BY <1>1, <1>6
    <3>2. SharedOut(NoFiles(target), target, {}) /\ Even(NoFiles(target), target)
      BY DEF SharedOut, Even, NoFiles
    <3>3. QED
      BY <2>2, <2>3, <3>1, <3>2
  <2>4. CASE n # 0
    <3> DEFINE k == n - 1
               x == q[n]
               Q == Upto(k)
    <3>1. k \in 0..m /\ n \in 1..m /\ k \in Nat /\ x \in Files /\ x \in P
      BY <1>1, <1>2, <2>2, <2>4
    <3>2. OK(k)
      <4>1. ~(n <= k)
        BY <1>1, <2>2
      <4>2. k \notin Bad
        BY <2>1, <4>1
      <4>3. QED
        BY <3>1, <4>2
    <3>3. Upto(n) = Q \cup {x}
      <4>1. \A i \in 1..n : i = n \/ i \in 1..k
        BY <3>1
      <4>2. n \in 1..n /\ \A i \in 1..k : i \in 1..n
        BY <3>1
      <4>3. QED
        BY <4>1, <4>2
    <3>4. \A i \in 1..k : i \in 1..m /\ i # n /\ i < n
      BY <1>1, <3>1
    <3>5. x \notin Q /\ (\A f \in Q : bytes[x] <= bytes[f]) /\ Q \in SUBSET Files
      BY <1>2, <3>1, <3>4
    <3>6. IsFiniteSet(Q)
      <4>1. Q \subseteq P
        BY <1>2, <3>4
      <4>2. QED
        BY <4>1, FS_Subset
    <3>7. g[n] = Assign(g[k], x)
      BY <1>6, <2>2, <2>4
    <3>8. SharedOut(g[k], target, Q) /\ Even(g[k], target)
      BY <3>2
    <3> HIDE DEF k, x, Q, Upto
    <3>9. SharedOut(Assign(g[k], x), target, Q \cup {x}) /\ Even(Assign(g[k], x), target)
      BY <3>1, <3>5, <3>6, <3>8, AssignStep
    <3>10. QED
      BY <2>2, <3>3, <3>7, <3>9
  <2>5. QED
    BY <2>3, <2>4
<1>8. Upto(m) = P
  BY <1>2
<1>9. OK(m)
  <2>1. m \in 0..m
    BY <1>1
  <2> HIDE DEF OK
  <2>2. QED
    BY <1>7, <2>1
<1>10. QED
  BY <1>4, <1>8, <1>9

\* Every plan is shared out among the partitions.
LEMMA PlanSharedOut ==
  ASSUME bytes \in [Files -> Nat], NEW target \in Nat \ {0}, NEW min,
         NEW P \in SUBSET Files, IsFiniteSet(P), NEW listed \in SetToSeqs(P)
  PROVE  SharedOut(partition_file_scan_tasks(listed, target, min), target, P)
<1>1. Lists(listed, P) /\ ToSet(listed) = P
  BY TasksList
<1>2. CASE target = 1 \/ BytesOf(ToSet(listed)) < min
  <2>1. partition_file_scan_tasks(listed, target, min) = [NoFiles(target) EXCEPT ![0] = P]
    BY <1>1, <1>2 DEF partition_file_scan_tasks
  <2>2. 0 \in 0..(target - 1)
    OBVIOUS
  <2>3. SharedOut([NoFiles(target) EXCEPT ![0] = P], target, P)
    BY <2>2 DEF SharedOut, NoFiles
  <2>4. QED
    BY <2>1, <2>3
<1>3. CASE ~(target = 1 \/ BytesOf(ToSet(listed)) < min)
  <2>1. partition_file_scan_tasks(listed, target, min) = Balanced(LargestFirst(listed), target)
    BY <1>3 DEF partition_file_scan_tasks
  <2>2. Lists(LargestFirst(listed), P) /\ Descending(LargestFirst(listed), P)
    BY <1>1, SortIs
  <2>3. QED
    BY <2>1, <2>2, BalancedIs
<1>4. QED
  BY <1>2, <1>3

\* Two plans of the same files are shared out alike, unless the sort left two
\* files of one size in the order they were planned.
LEMMA PlansAgree ==
  ASSUME bytes \in [Files -> Nat], NEW target, NEW min,
         NEW P \in SUBSET Files, IsFiniteSet(P), NEW a \in SetToSeqs(P), NEW b \in SetToSeqs(P),
         DistinctSizes \/ BytesOf(P) < min
  PROVE  partition_file_scan_tasks(a, target, min) = partition_file_scan_tasks(b, target, min)
<1>1. Lists(a, P) /\ ToSet(a) = P /\ Lists(b, P) /\ ToSet(b) = P
  BY TasksList
<1>2. CASE target = 1 \/ BytesOf(P) < min
  BY <1>1, <1>2 DEF partition_file_scan_tasks
<1>3. CASE ~(target = 1 \/ BytesOf(P) < min)
  <2>1. /\ Lists(LargestFirst(a), P) /\ Descending(LargestFirst(a), P)
        /\ Lists(LargestFirst(b), P) /\ Descending(LargestFirst(b), P)
    BY <1>1, SortIs
  <2>2. LargestFirst(a) = LargestFirst(b)
    BY <1>3, <2>1, OneOrder
  <2>3. QED
    BY <1>1, <1>3, <2>2 DEF partition_file_scan_tasks
<1>4. QED
  BY <1>2, <1>3

\* A plan that is large enough to be split is split evenly.
LEMMA PlanEven ==
  ASSUME bytes \in [Files -> Nat], NEW target \in Nat \ {0}, NEW min \in Nat,
         NEW P \in SUBSET Files, IsFiniteSet(P), NEW listed \in SetToSeqs(P),
         BytesOf(ToSet(listed)) >= min
  PROVE  Even(partition_file_scan_tasks(listed, target, min), target)
<1> DEFINE g == partition_file_scan_tasks(listed, target, min)
<1>1. Lists(listed, P) /\ ToSet(listed) = P /\ BytesOf(P) \in Nat
  BY TasksList, BytesAre
<1>2. CASE target = 1
  <2>1. g = [NoFiles(1) EXCEPT ![0] = P]
    BY <1>1, <1>2 DEF partition_file_scan_tasks
  <2>2. \A p \in 0..(target - 1) : p = 0
    BY <1>2
  <2>3. g[0] = P
    BY <2>1 DEF NoFiles
  <2> HIDE DEF g
  <2>4. ASSUME NEW f \in P PROVE BytesOf(P \ {f}) <= BytesOf(P)
    <3> DEFINE w == P \ {f}
    <3>1. BytesOf(P) = bytes[f] + BytesOf(w) /\ bytes[f] \in Nat
      BY BytesAre
    <3>2. w \in SUBSET Files /\ IsFiniteSet(w)
      BY FS_RemoveElement
    <3> HIDE DEF w
    <3>3. BytesOf(w) \in Nat
      BY <3>2, BytesAre
    <3>4. BytesOf(w) <= BytesOf(P)
      BY <3>1, <3>3
    <3>5. QED
      BY <3>4 DEF w
  <2>5. Even(g, target)
    <3>1. SUFFICES ASSUME NEW p \in 0..(target - 1), NEW q \in 0..(target - 1), NEW f \in g[p]
                   PROVE  BytesOf(g[p] \ {f}) <= BytesOf(g[q])
      BY DEF Even
    <3>2. g[p] = P /\ g[q] = P
      BY <2>2, <2>3
    <3>3. QED
      BY <2>4, <3>2
  <2>6. QED
    BY <2>5 DEF g
<1>3. CASE target # 1
  <2>1. ~(BytesOf(ToSet(listed)) < min)
    BY <1>1
  <2>2. g = Balanced(LargestFirst(listed), target)
    BY <1>3, <2>1 DEF partition_file_scan_tasks
  <2>3. Lists(LargestFirst(listed), P) /\ Descending(LargestFirst(listed), P)
    BY <1>1, SortIs
  <2>4. QED
    BY <2>2, <2>3, BalancedIs
<1>4. QED
  BY <1>2, <1>3

-----------------------------------------------------------------------------
(* S is the group of index p in a plan under the filter s. *)
GroupOfPlan(s, p, S) ==
    \E listed \in SetToSeqs(Passes[s]) :
        S = partition_file_scan_tasks(listed, scan_partitions, MinFileSize)[p]

ScanTypes ==
    /\ bytes \in [Files -> Nat] /\ min_size \in Nat /\ limit \in Nat \cup {NoLimit}
    /\ scan_partitions \in 1..MaxPartitions /\ level \in Levels
    /\ pc \in [Partitions -> {"planned", "planning", "reading", "done", "failed"}]
    /\ seen \in [Partitions -> Levels]
    /\ todo \in [Partitions -> SUBSET Files] /\ read \in [Partitions -> SUBSET Files]
    /\ emitted \in [Partitions -> Nat] /\ DOMAIN remaining = Partitions

(* What a partition has read and will read is its group; what it has       *)
(* returned is what it has read, up to the limit.                          *)
PartitionOK(p) ==
    /\ pc[p] # "planned" => p \in Active
    /\ pc[p] \in {"planned", "planning"} => read[p] = {} /\ todo[p] = {} /\ emitted[p] = 0
    /\ pc[p] \in {"reading", "done"} => GroupOfPlan(seen[p], p, read[p] \cup todo[p])
    /\ pc[p] = "done" => todo[p] = {}
    /\ read[p] \cap todo[p] = {}
    /\ limit # NoLimit /\ pc[p] # "planned" =>
          /\ remaining[p] \in Nat /\ remaining[p] + emitted[p] = limit
          /\ emitted[p] = limit \/ emitted[p] = RowsOf(read[p])

ScanInv == ScanTypes /\ \A p \in Partitions : PartitionOK(p)

\* The rows of files are a number, and a file adds its own.
LEMMA RowsAre ==
  ASSUME NEW S \in SUBSET Files
  PROVE  /\ RowsOf(S) \in Nat /\ IsFiniteSet(S)
         /\ \A f \in Files \ S : RowsOf(S \cup {f}) = Rows[f] + RowsOf(S)
         /\ S = {} => RowsOf(S) = 0
<1>1. IsFiniteSet(S) /\ \A y \in Files : Rows[y] \in Nat
  BY FilesAssumption, FS_Subset
<1>2. RowsOf(S) \in Nat /\ (S = {} => RowsOf(S) = 0)
  BY <1>1, SumsAre, SumFacts
<1>3. ASSUME NEW f \in Files \ S PROVE RowsOf(S \cup {f}) = Rows[f] + RowsOf(S)
  <2>1. \A y \in S \cup {f} : Rows[y] \in Nat
    BY <1>1
  <2>2. QED
    BY <1>1, <2>1, SumsAre, SumMore
<1>4. QED
  BY <1>1, <1>2, <1>3

\* The lower of two numbers.
LEMMA MinIs ==
  ASSUME NEW a \in Nat, NEW b \in Nat
  PROVE  Min({a, b}) = IF a <= b THEN a ELSE b
<1>1. CASE a <= b
  <2>1. \E x \in {a, b} : \A y \in {a, b} : x =< y
    BY <1>1
  <2>2. QED
    BY <1>1, <2>1 DEF Min
<1>2. CASE ~(a <= b)
  <2>1. \E x \in {a, b} : \A y \in {a, b} : x =< y
    BY <1>2
  <2>2. QED
    BY <1>2, <2>1 DEF Min
<1>3. QED
  BY <1>1, <1>2

\* A partition that a step leaves alone.
LEMMA OthersStay ==
  ASSUME ScanInv, UNCHANGED <<table, scan_partitions>>, NEW q \in Partitions,
         pc'[q] = pc[q], seen'[q] = seen[q], todo'[q] = todo[q], read'[q] = read[q],
         remaining'[q] = remaining[q], emitted'[q] = emitted[q]
  PROVE  PartitionOK(q)'
<1>1. UNCHANGED <<bytes, min_size, limit, scan_partitions>>
  BY DEF table
<1>2. PartitionOK(q)
  BY DEF ScanInv
<1>3. Active' = Active
  BY <1>1 DEF Active
<1>4. RowsOf(read[q])' = RowsOf(read[q])
  BY DEF RowsOf, MapThenSumSet, MapThenFoldSet
<1>5. GroupOfPlan(seen[q], q, read[q] \cup todo[q])' <=> GroupOfPlan(seen[q], q, read[q] \cup todo[q])
  BY <1>1 DEF GroupOfPlan, partition_file_scan_tasks, Balanced, Assign, Lightest, LargestFirst,
     Before, BytesOf, NoFiles, MinFileSize, MapThenSumSet, MapThenFoldSet
<1>6. QED
  BY <1>1, <1>2, <1>3, <1>4, <1>5 DEF PartitionOK

\* A partition that a step moves on, given what it has then.
LEMMA OneMoves ==
  ASSUME ScanTypes, UNCHANGED <<table, scan_partitions>>, NEW p \in Partitions
  PROVE  /\ Active' = Active /\ limit' = limit
         /\ RowsOf(read[p])' = RowsOf(read'[p])
         /\ GroupOfPlan(seen[p], p, read[p] \cup todo[p])'
               <=> GroupOfPlan(seen'[p], p, read'[p] \cup todo'[p])
<1>1. UNCHANGED <<bytes, min_size, limit, scan_partitions>>
  BY DEF table
<1>2. Active' = Active
  BY <1>1 DEF Active
<1>3. RowsOf(read[p])' = RowsOf(read'[p])
  BY DEF RowsOf, MapThenSumSet, MapThenFoldSet
<1>4. GroupOfPlan(seen[p], p, read[p] \cup todo[p])'
               <=> GroupOfPlan(seen'[p], p, read'[p] \cup todo'[p])
  BY <1>1 DEF GroupOfPlan, partition_file_scan_tasks, Balanced, Assign, Lightest, LargestFirst,
     Before, BytesOf, NoFiles, MinFileSize, MapThenSumSet, MapThenFoldSet
<1>5. QED
  BY <1>1, <1>2, <1>3, <1>4

\* Before the first step.
LEMMA ScanInitInv == ScanInit => ScanInv
<1>1. SUFFICES ASSUME ScanInit PROVE ScanInv
  OBVIOUS
<1>2. ScanTypes
  <2>1. 1 \in 1..MaxPartitions /\ 0 \in Levels
    BY FilesAssumption, LevelAssumption
  <2>2. bytes \in [Files -> Nat] /\ min_size \in Nat /\ limit \in Nat \cup {NoLimit}
    BY <1>1, FilesAssumption DEF ScanInit
  <2>3. QED
    BY <1>1, <2>1, <2>2 DEF ScanInit, ScanTypes
<1>3. ASSUME NEW p \in Partitions PROVE PartitionOK(p)
  BY <1>1 DEF ScanInit, PartitionOK
<1>4. QED
  BY <1>2, <1>3 DEF ScanInv

\* The group of a plan holds files of it.
LEMMA GroupIs ==
  ASSUME ScanTypes, NEW s \in Levels, NEW p \in Active, NEW S, GroupOfPlan(s, p, S)
  PROVE  S \in SUBSET Passes[s] /\ Passes[s] \in SUBSET Files /\ IsFiniteSet(Passes[s])
<1>1. Passes[s] \in SUBSET Files /\ IsFiniteSet(Passes[s])
  BY LevelAssumption, FilesAssumption, FS_Subset
<1>2. PICK listed \in SetToSeqs(Passes[s]) :
         S = partition_file_scan_tasks(listed, scan_partitions, MinFileSize)[p]
  BY DEF GroupOfPlan
<1>3. scan_partitions \in Nat \ {0} /\ bytes \in [Files -> Nat]
  BY FilesAssumption DEF ScanTypes
<1> DEFINE P == Passes[s]
           m == MinFileSize
           n == scan_partitions
<1> HIDE DEF P, m, n
<1>4. SharedOut(partition_file_scan_tasks(listed, n, m), n, P)
  BY <1>1, <1>2, <1>3, PlanSharedOut DEF P, n
<1>5. QED
  BY <1>1, <1>2, <1>4 DEF SharedOut, Active, P, m, n

\* A step of the partitions keeps the invariant.
LEMMA PartitionStep ==
  ASSUME ScanInv, NEW p \in Partitions,
         execute(p) \/ read_partition(p) \/ Fail(p) \/ Finish(p) \/ \E f \in Files : ReadFile(p, f)
  PROVE  ScanInv'
<1>1. UNCHANGED <<table, scan_partitions, level>>
  BY DEF execute, read_partition, Fail, Finish, ReadFile
<1>2. ScanTypes /\ PartitionOK(p)
  BY DEF ScanInv
<1>3. ASSUME ScanTypes', PartitionOK(p)',
             \A q \in Partitions : q # p =>
                /\ pc'[q] = pc[q] /\ seen'[q] = seen[q] /\ todo'[q] = todo[q] /\ read'[q] = read[q]
                /\ remaining'[q] = remaining[q] /\ emitted'[q] = emitted[q]
      PROVE  ScanInv'
  <2>1. ASSUME NEW q \in Partitions PROVE PartitionOK(q)'
    <3>1. CASE q = p
      BY <1>3, <3>1
    <3>2. CASE q # p
      BY <1>1, <1>3, <3>2, OthersStay
    <3>3. QED
      BY <3>1, <3>2
  <2>2. Partitions' = Partitions
    BY DEF Partitions
  <2>3. QED
    BY <1>3, <2>1, <2>2 DEF ScanInv
<1>4. /\ Active' = Active /\ limit' = limit /\ RowsOf(read[p])' = RowsOf(read'[p])
      /\ GroupOfPlan(seen[p], p, read[p] \cup todo[p])'
            <=> GroupOfPlan(seen'[p], p, read'[p] \cup todo'[p])
  BY <1>1, <1>2, OneMoves
<1>5. UNCHANGED <<bytes, min_size, limit>> /\ limit \in Nat \cup {NoLimit}
  BY <1>1, <1>2 DEF table, ScanTypes
<1>6. CASE execute(p)
  <2>1. /\ p \in Active /\ pc[p] = "planned" /\ pc' = [pc EXCEPT ![p] = "planning"]
        /\ seen' = [seen EXCEPT ![p] = level] /\ remaining' = [remaining EXCEPT ![p] = limit]
        /\ UNCHANGED <<todo, read, emitted>>
    BY <1>6 DEF execute
  <2>2. ScanTypes'
    BY <1>1, <1>2, <1>5, <2>1 DEF ScanTypes
  <2>3. read[p] = {} /\ todo[p] = {} /\ emitted[p] = 0
    BY <1>2, <2>1 DEF PartitionOK
  <2>4. RowsOf({}) = 0
    BY RowsAre
  <2>5. pc'[p] = "planning" /\ remaining'[p] = limit
    BY <1>2, <2>1 DEF ScanTypes
  <2>6. PartitionOK(p)'
    BY <1>4, <1>5, <2>1, <2>3, <2>4, <2>5 DEF PartitionOK
  <2>7. QED
    BY <1>2, <1>3, <2>1, <2>2, <2>6 DEF ScanTypes
<1>7. CASE read_partition(p)
  <2>1. PICK listed \in SetToSeqs(Passes[seen[p]]) : todo' = [todo EXCEPT ![p] =
            partition_file_scan_tasks(listed, scan_partitions, MinFileSize)[p]]
    BY <1>7 DEF read_partition
  <2> DEFINE S == partition_file_scan_tasks(listed, scan_partitions, MinFileSize)[p]
  <2>2. GroupOfPlan(seen[p], p, S)
    BY <2>1 DEF GroupOfPlan
  <2>3. /\ pc[p] = "planning" /\ pc' = [pc EXCEPT ![p] = "reading"]
        /\ todo' = [todo EXCEPT ![p] = S] /\ UNCHANGED <<seen, read, remaining, emitted>>
    BY <1>7, <2>1 DEF read_partition
  <2> HIDE DEF S
  <2>4. p \in Active /\ seen[p] \in Levels /\ read[p] = {} /\ emitted[p] = 0
    BY <1>2, <2>3 DEF ScanTypes, PartitionOK
  <2>5. S \in SUBSET Files
    BY <1>2, <2>2, <2>4, GroupIs
  <2>6. ScanTypes'
    BY <1>1, <1>2, <1>5, <2>3, <2>5 DEF ScanTypes
  <2>7. pc'[p] = "reading" /\ todo'[p] = S /\ read'[p] = {} /\ read'[p] \cup todo'[p] = S
    BY <1>2, <2>3, <2>4 DEF ScanTypes
  <2>8. GroupOfPlan(seen[p], p, read[p] \cup todo[p])'
    BY <1>4, <2>2, <2>3, <2>7
  <2>9. PartitionOK(p)'
    BY <1>2, <1>4, <1>5, <2>3, <2>4, <2>7, <2>8 DEF PartitionOK
  <2>10. QED
    BY <1>2, <1>3, <2>3, <2>6, <2>9 DEF ScanTypes
<1>8. CASE Fail(p)
  <2>1. /\ pc[p] \in {"planning", "reading"} /\ pc' = [pc EXCEPT ![p] = "failed"]
        /\ UNCHANGED <<seen, todo, read, remaining, emitted>>
    BY <1>8 DEF Fail
  <2>2. ScanTypes'
    BY <1>1, <1>2, <1>5, <2>1 DEF ScanTypes
  <2>3. pc'[p] = "failed"
    BY <1>2, <2>1 DEF ScanTypes
  <2>4. PartitionOK(p)'
    BY <1>2, <1>4, <1>5, <2>1, <2>3 DEF PartitionOK
  <2>5. QED
    BY <1>2, <1>3, <2>1, <2>2, <2>4 DEF ScanTypes
<1>9. CASE Finish(p)
  <2>1. /\ pc[p] = "reading" /\ todo[p] = {} /\ pc' = [pc EXCEPT ![p] = "done"]
        /\ UNCHANGED <<seen, todo, read, remaining, emitted>>
    BY <1>9 DEF Finish
  <2>2. ScanTypes'
    BY <1>1, <1>2, <1>5, <2>1 DEF ScanTypes
  <2>3. pc'[p] = "done"
    BY <1>2, <2>1 DEF ScanTypes
  <2>4. PartitionOK(p)'
    BY <1>2, <1>4, <1>5, <2>1, <2>3 DEF PartitionOK
  <2>5. QED
    BY <1>2, <1>3, <2>1, <2>2, <2>4 DEF ScanTypes
<1>10. ASSUME NEW f \in Files, ReadFile(p, f) PROVE ScanInv'
  <2> DEFINE n == Rows[f]
             k == Limited(p, n)
  <2>1. /\ pc[p] = "reading" /\ f \in todo[p] /\ todo' = [todo EXCEPT ![p] = @ \ {f}]
        /\ read' = [read EXCEPT ![p] = @ \cup {f}] /\ emitted' = [emitted EXCEPT ![p] = @ + k]
        /\ remaining' = IF limit = NoLimit THEN remaining ELSE [remaining EXCEPT ![p] = Left(p, n)]
        /\ UNCHANGED <<pc, seen>>
    BY <1>10 DEF ReadFile
  <2>2. n \in Nat /\ emitted[p] \in Nat /\ read[p] \in SUBSET Files
    BY <1>2, FilesAssumption DEF ScanTypes
  <2>3. limit # NoLimit => /\ remaining[p] \in Nat /\ remaining[p] + emitted[p] = limit
                           /\ emitted[p] = limit \/ emitted[p] = RowsOf(read[p])
    BY <1>2, <2>1 DEF PartitionOK
  <2>4. limit = NoLimit => k = n
    BY DEF Limited
  <2>5. limit # NoLimit => k = IF n <= remaining[p] THEN n ELSE remaining[p]
    BY <2>2, <2>3, MinIs DEF Limited
  <2>6. Left(p, n) = IF n <= remaining[p] THEN remaining[p] - n ELSE 0
    BY DEF Left
  <2> HIDE DEF n, k
  <2>7. k \in Nat
    BY <2>2, <2>3, <2>4, <2>5
  <2>8. ScanTypes'
    <3>1. emitted' \in [Partitions -> Nat] /\ DOMAIN remaining' = Partitions
      BY <1>2, <2>1, <2>7 DEF ScanTypes
    <3>2. todo' \in [Partitions -> SUBSET Files] /\ read' \in [Partitions -> SUBSET Files]
      BY <1>2, <2>1 DEF ScanTypes
    <3>3. QED
      BY <1>1, <1>2, <1>5, <2>1, <3>1, <3>2 DEF ScanTypes
  <2>9. /\ todo'[p] = todo[p] \ {f} /\ read'[p] = read[p] \cup {f} /\ emitted'[p] = emitted[p] + k
        /\ (limit # NoLimit => remaining'[p] = Left(p, n))
    BY <1>2, <2>1 DEF ScanTypes
  <2>10. f \notin read[p] /\ read'[p] \cup todo'[p] = read[p] \cup todo[p]
         /\ read'[p] \cap todo'[p] = {}
    BY <1>2, <2>1, <2>9 DEF PartitionOK
  <2>11. RowsOf(read'[p]) = n + RowsOf(read[p]) /\ RowsOf(read[p]) \in Nat
    BY <2>2, <2>9, <2>10, RowsAre DEF n
  <2>12. ASSUME limit # NoLimit
         PROVE  /\ remaining'[p] \in Nat /\ remaining'[p] + emitted'[p] = limit
                /\ emitted'[p] = limit \/ emitted'[p] = RowsOf(read'[p])
    <3>1. CASE n <= remaining[p]
      BY <2>2, <2>3, <2>5, <2>6, <2>9, <2>11, <2>12, <3>1
    <3>2. CASE ~(n <= remaining[p])
      BY <2>2, <2>3, <2>5, <2>6, <2>9, <2>11, <2>12, <3>2
    <3>3. QED
      BY <3>1, <3>2
  <2>13. p \in Active /\ GroupOfPlan(seen[p], p, read[p] \cup todo[p])
    BY <1>2, <2>1 DEF PartitionOK
  <2>14. GroupOfPlan(seen[p], p, read[p] \cup todo[p])'
    BY <1>4, <2>1, <2>10, <2>13
  <2>15. PartitionOK(p)'
    BY <1>4, <1>5, <2>1, <2>10, <2>12, <2>13, <2>14 DEF PartitionOK
  <2>16. QED
    BY <1>2, <1>3, <2>1, <2>8, <2>15 DEF ScanTypes
<1>11. QED
  BY <1>6, <1>7, <1>8, <1>9, <1>10

\* Every step keeps the invariant.
LEMMA ScanStep ==
  ASSUME ScanInv, [ScanNext]_scan_vars
  PROVE  ScanInv'
<1>1. ASSUME NEW target \in 1..MaxPartitions, repartitioned(target) PROVE ScanInv'
  <2>1. /\ \A p \in Partitions : pc[p] = "planned"
        /\ scan_partitions' = target /\ UNCHANGED <<table, level, streams>>
    BY <1>1 DEF repartitioned
  <2>2. ScanTypes'
    BY <2>1 DEF ScanInv, ScanTypes, table, streams, Partitions
  <2>3. ASSUME NEW p \in Partitions PROVE PartitionOK(p)'
    <3>1. pc'[p] = "planned" /\ UNCHANGED <<read, todo, emitted, limit>>
      BY <2>1 DEF streams, table
    <3>2. read[p] = {} /\ todo[p] = {} /\ emitted[p] = 0
      BY <2>1 DEF ScanInv, PartitionOK
    <3>3. QED
      BY <3>1, <3>2 DEF PartitionOK
  <2>4. QED
    BY <2>2, <2>3 DEF ScanInv, Partitions
<1>2. ASSUME UNCHANGED <<table, scan_partitions, streams>>, level' \in Levels PROVE ScanInv'
  <2>1. ScanTypes'
    BY <1>2 DEF ScanInv, ScanTypes, table, streams, Partitions
  <2>2. ASSUME NEW q \in Partitions PROVE PartitionOK(q)'
    BY <1>2, OthersStay DEF streams
  <2>3. QED
    BY <2>1, <2>2 DEF ScanInv, Partitions
<1>3. CASE TightenFilter
  BY <1>2, <1>3 DEF TightenFilter
<1>4. CASE UNCHANGED scan_vars
  BY <1>2, <1>4 DEF scan_vars, ScanInv, ScanTypes
<1>5. QED
  BY <1>1, <1>3, <1>4, PartitionStep DEF ScanNext

\* A finished scan with one filter has read the groups of one plan.
LEMMA DoneReads ==
  ASSUME ScanInv, ScanDone, SameFilter, DistinctSizes \/ SmallScan
  PROVE  /\ SharedOut([p \in Active |-> read[p]], scan_partitions, Passes[seen[0]])
         /\ Passes[seen[0]] \in SUBSET Files
<1> DEFINE s == seen[0]
           P == Passes[s]
           n == scan_partitions
           m == MinFileSize
           G(listed) == partition_file_scan_tasks(listed, n, m)
<1>1. ScanTypes /\ MaxPartitions \in Nat /\ n \in Nat \ {0} /\ n <= MaxPartitions
      /\ bytes \in [Files -> Nat]
  BY FilesAssumption DEF ScanInv, ScanTypes
<1>2. 0 \in Active /\ Active \subseteq Partitions /\ Active = 0..(n - 1)
  BY <1>1 DEF Active, Partitions
<1>3. s \in Levels
  BY <1>1, <1>2 DEF ScanTypes
<1>4. P \in SUBSET Files /\ IsFiniteSet(P)
  BY <1>3, LevelAssumption, FilesAssumption, FS_Subset
<1>5. ASSUME NEW p \in Active PROVE \E listed \in SetToSeqs(P) : read[p] = G(listed)[p]
  <2>1. pc[p] = "done" /\ seen[p] = s /\ PartitionOK(p)
    BY <1>2 DEF ScanDone, SameFilter, ScanInv
  <2>2. GroupOfPlan(s, p, read[p])
    BY <2>1 DEF PartitionOK
  <2>3. QED
    BY <2>2 DEF GroupOfPlan
<1>6. PICK a \in SetToSeqs(P) : read[0] = G(a)[0]
  BY <1>2, <1>5
<1>7. DistinctSizes \/ BytesOf(P) < m
  BY DEF SmallScan
<1> HIDE DEF P, n, m
<1>8. ASSUME NEW p \in Active PROVE read[p] = G(a)[p]
  <2>1. PICK b \in SetToSeqs(P) : read[p] = G(b)[p]
    BY <1>5
  <2>2. G(b) = G(a)
    BY <1>1, <1>4, <1>6, <1>7, <2>1, PlansAgree
  <2>3. QED
    BY <2>1, <2>2
<1>9. SharedOut(G(a), n, P)
  BY <1>1, <1>4, <1>6, PlanSharedOut
<1> DEFINE g == G(a)
<1> HIDE DEF g
<1>10. g = [p \in Active |-> read[p]]
  <2>1. g \in [Active -> SUBSET P]
    BY <1>2, <1>9 DEF SharedOut, g
  <2>2. \A p \in Active : g[p] = read[p]
    BY <1>8 DEF g
  <2>3. QED
    BY <2>1, <2>2
<1>11. SharedOut(g, n, P)
  BY <1>9 DEF g
<1>12. QED
  BY <1>4, <1>10, <1>11 DEF P, n

\* What the invariant says of a finished scan.
LEMMA InvReads == ScanInv => ReadsEachFileOnce
<1>1. SUFFICES ASSUME ScanInv, ScanDone, SameFilter, DistinctSizes \/ SmallScan
               PROVE  /\ UNION {read[p] : p \in Active} = Passes[seen[0]]
                      /\ \A p, q \in Active : p # q => read[p] \cap read[q] = {}
  BY DEF ReadsEachFileOnce
<1> DEFINE P == Passes[seen[0]]
<1>2. SharedOut([p \in Active |-> read[p]], scan_partitions, P) /\ Active = 0..(scan_partitions - 1)
  BY <1>1, DoneReads DEF Active
<1> HIDE DEF P
<1>3. /\ \A p \in Active : read[p] \subseteq P
      /\ \A f \in P : \E p \in Active : f \in read[p]
      /\ \A p, q \in Active : p # q => read[p] \cap read[q] = {}
  BY <1>2 DEF SharedOut
<1>4. UNION {read[p] : p \in Active} = P
  BY <1>3
<1>5. QED
  BY <1>3, <1>4 DEF P

\* What it says of the groups.
LEMMA InvBalanced == ScanInv => GroupsBalanced
<1> DEFINE m == MinFileSize
           n == scan_partitions
           P == Passes[level]
<1>1. SUFFICES ASSUME ScanInv, NEW listed \in SetToSeqs(P), BytesOf(ToSet(listed)) >= m
               PROVE  \A p, q \in Active : \A f \in partition_file_scan_tasks(listed, n, m)[p] :
                        (\A g \in partition_file_scan_tasks(listed, n, m)[p] : bytes[f] <= bytes[g]) =>
                          BytesOf(partition_file_scan_tasks(listed, n, m)[p] \ {f})
                             <= BytesOf(partition_file_scan_tasks(listed, n, m)[q])
  BY DEF GroupsBalanced
<1>2. n \in Nat \ {0} /\ m \in Nat /\ bytes \in [Files -> Nat] /\ level \in Levels
  BY <1>1, FilesAssumption DEF ScanInv, ScanTypes, MinFileSize
<1>3. P \in SUBSET Files /\ IsFiniteSet(P)
  BY <1>2, LevelAssumption, FilesAssumption, FS_Subset
<1>4. Active = 0..(n - 1)
  BY DEF Active
<1> HIDE DEF m, n, P
<1>5. Even(partition_file_scan_tasks(listed, n, m), n)
  BY <1>1, <1>2, <1>3, PlanEven
<1>6. QED
  BY <1>4, <1>5 DEF Even

\* The rows of the first partitions, against the rows they have returned.
LEMMA InvLimit == ScanInv => LimitReached
<1>1. SUFFICES ASSUME ScanInv, ScanDone, limit # NoLimit, SameFilter, DistinctSizes \/ SmallScan
               PROVE  MapThenSumSet(LAMBDA p : emitted[p], Active)
                        >= Min({limit, RowsOf(Passes[seen[0]])})
  BY DEF LimitReached
<1> DEFINE P == Passes[seen[0]]
           n == scan_partitions
           U(k) == UNION {read[p] : p \in 0..(k - 1)}
           E(k) == SumOf(emitted, 0..(k - 1))
           OK(k) == E(k) >= limit \/ E(k) >= RowsOf(U(k))
           Bad == {k \in 0..n : ~OK(k)}
<1>2. P \in SUBSET Files /\ ReadsEachFileOnce
  BY <1>1, DoneReads, InvReads
<1>3. limit \in Nat /\ n \in Nat \ {0} /\ n <= MaxPartitions /\ MaxPartitions \in Nat
  BY <1>1, FilesAssumption DEF ScanInv, ScanTypes
<1>4. Active = 0..(n - 1) /\ Active \subseteq Partitions
  BY <1>3 DEF Active, Partitions
<1>5. U(n) = P
  BY <1>1, <1>2, <1>4 DEF ReadsEachFileOnce
<1>6. ASSUME NEW p \in Active
      PROVE  /\ emitted[p] \in Nat /\ read[p] \in SUBSET Files
             /\ emitted[p] = limit \/ emitted[p] = RowsOf(read[p])
  <2>1. PartitionOK(p) /\ pc[p] = "done" /\ ScanTypes
    BY <1>1, <1>4 DEF ScanInv, ScanDone
  <2>2. QED
    BY <1>1, <1>4, <2>1 DEF PartitionOK, ScanTypes
<1> HIDE DEF n
<1>7. ASSUME NEW k \in 0..n PROVE E(k) \in Nat /\ U(k) \in SUBSET Files
                                  /\ IsFiniteSet(0..(k - 1)) /\ \A p \in 0..(k - 1) : p \in Active
  <2>1. \A p \in 0..(k - 1) : p \in Active
    BY <1>3, <1>4
  <2>2. IsFiniteSet(0..(k - 1))
    BY <1>3, FS_Interval
  <2>3. E(k) \in Nat
    <3> DEFINE S == 0..(k - 1)
    <3>1. IsFiniteSet(S) /\ \A p \in S : emitted[p] \in Nat
      BY <1>6, <2>1, <2>2
    <3> HIDE DEF S
    <3>2. SumOf(emitted, S) \in Nat
      BY <3>1, SumFacts
    <3>3. QED
      BY <3>2 DEF S
  <2>4. U(k) \in SUBSET Files
    BY <1>6, <2>1
  <2>5. QED
    BY <2>1, <2>2, <2>3, <2>4
<1>8. Bad = {}
  <2> SUFFICES ASSUME Bad # {} PROVE FALSE
    OBVIOUS
  <2>1. PICK k \in Bad : \A j \in Bad : k <= j
    <3>1. Bad \subseteq Nat
      OBVIOUS
    <3> HIDE DEF Bad
    <3>2. QED
      BY <3>1, LeastNat
  <2>2. k \in 0..n /\ ~OK(k)
    BY <2>1
  <2>3. CASE k = 0
    <3>1. U(0) = {} /\ E(0) \in Nat
      BY <1>7, <2>2, <2>3
    <3>2. RowsOf({}) = 0
      BY RowsAre
    <3> HIDE DEF U, E
    <3>3. QED
      BY <2>2, <2>3, <3>1, <3>2
  <2>4. CASE k # 0
    <3> DEFINE j == k - 1
               S == 0..(j - 1)
    <3>1. j \in 0..n /\ j \in Nat /\ ~(k <= j) /\ j \in Active
      BY <1>3, <1>4, <2>2, <2>4
    <3>2. OK(j)
      <4>1. j \notin Bad
        BY <2>1, <3>1
      <4>2. QED
        BY <3>1, <4>1
    <3>3. 0..(k - 1) = S \cup {j} /\ j \notin S
      BY <3>1
    <3>4. U(k) = U(j) \cup read[j]
      BY <3>3
    <3>5. E(j) \in Nat /\ U(j) \in SUBSET Files /\ IsFiniteSet(S) /\ \A p \in S : p \in Active
      BY <1>7, <3>1
    <3>6. E(j) = SumOf(emitted, S) /\ E(k) = SumOf(emitted, S \cup {j})
      BY <3>3
    <3> HIDE DEF U, E, S, j
    <3>7. \A p \in S \cup {j} : emitted[p] \in Nat
      BY <1>6, <3>1, <3>5
    <3>8. E(k) = emitted[j] + E(j)
      <4>1. j \notin S /\ IsFiniteSet(S)
        BY <3>3, <3>5
      <4> DEFINE F == emitted
      <4>2. \A y \in S \cup {j} : F[y] \in Nat
        BY <3>7
      <4> HIDE DEF F
      <4>3. SumOf(F, S \cup {j}) = F[j] + SumOf(F, S)
        BY <4>1, <4>2, SumMore
      <4>4. QED
        BY <3>6, <4>3 DEF F
    <3> DEFINE A == U(j)
               B == read[j]
    <3>9. A \in SUBSET Files /\ B \in SUBSET Files
      BY <1>6, <3>1, <3>5
    <3> HIDE DEF A, B
    <3>10. RowsOf(A \cup B) <= RowsOf(A) + RowsOf(B)
      <4>1. IsFiniteSet(A) /\ IsFiniteSet(B) /\ \A y \in A \cup B : Rows[y] \in Nat
        BY <3>9, RowsAre, FilesAssumption
      <4>2. QED
        BY <4>1, SumsAre, SumUnion
    <3>11. RowsOf(A) \in Nat /\ RowsOf(B) \in Nat /\ RowsOf(A \cup B) \in Nat
      <4>1. A \cup B \in SUBSET Files
        BY <3>9
      <4>2. QED
        BY <3>9, <4>1, RowsAre
    <3>12. emitted[j] \in Nat /\ (emitted[j] = limit \/ emitted[j] = RowsOf(B))
      BY <1>6, <3>1 DEF B
    <3>13. RowsOf(U(k)) = RowsOf(A \cup B) /\ RowsOf(U(j)) = RowsOf(A)
      BY <3>4 DEF A, B
    <3>14. QED
      BY <1>3, <2>2, <3>2, <3>5, <3>8, <3>10, <3>11, <3>12, <3>13
  <2>5. QED
    BY <2>3, <2>4
<1>9. E(n) >= limit \/ E(n) >= RowsOf(U(n))
  <2>1. n \in 0..n
    BY <1>3
  <2> HIDE DEF E, U
  <2>2. QED
    BY <1>8, <2>1
<1>10. MapThenSumSet(LAMBDA p : emitted[p], Active) = E(n)
  <2>1. MapThenSumSet(LAMBDA p : emitted[p], Active) = SumOf(emitted, Active)
    BY SumsAre
  <2>2. QED
    BY <1>4, <2>1
<1>11. E(n) \in Nat
  BY <1>3, <1>7
<1>12. RowsOf(P) \in Nat
  BY <1>2, RowsAre
<1>13. Min({limit, RowsOf(P)}) = IF limit <= RowsOf(P) THEN limit ELSE RowsOf(P)
  BY <1>3, <1>12, MinIs
<1> HIDE DEF E
<1>14. E(n) >= Min({limit, RowsOf(P)})
  <2>1. E(n) >= limit \/ E(n) >= RowsOf(P)
    BY <1>5, <1>9
  <2> HIDE DEF P, U
  <2>2. QED
    BY <1>3, <1>11, <1>12, <1>13, <2>1
<1>15. QED
  BY <1>10, <1>14 DEF P

(* When all partitions resolve the same filter and no two files have the   *)
(* same size, or the scan is too small to be split, the partitions read    *)
(* every file of the plan exactly once, although each of them plans and    *)
(* groups the files for itself and in its own order (scan.rs               *)
(* read_partition, file_groups.rs partition_file_scan_tasks).              *)
THEOREM EachFileReadOnce == ScanSpec => []ReadsEachFileOnce
BY ScanInitInv, ScanStep, InvReads, PTL DEF ScanSpec

(* Without its smallest file no group is heavier than another, whatever    *)
(* the sizes, the number of partitions and the order of the plan           *)
(* (file_groups.rs partition_file_scan_tasks).                             *)
THEOREM GroupsAlwaysBalanced == ScanSpec => []GroupsBalanced
BY ScanInitInv, ScanStep, InvBalanced, PTL DEF ScanSpec

(* Partitions that apply the limit each for itself return together at      *)
(* least the rows asked for, or all there are (scan.rs execute).           *)
THEOREM LimitAlwaysReached == ScanSpec => []LimitReached
BY ScanInitInv, ScanStep, InvLimit, PTL DEF ScanSpec

-----------------------------------------------------------------------------
(* FkBounds: the rules for joins.                                          *)

DimOK(rows) == IsFiniteSet(rows) /\ \A d \in rows : d.key \in Int \cup {Null}

(* A bound that every key the filter leaves satisfies. *)
CoversKeys(c, rows, filter) ==
    \A d \in Filtered(rows, filter) : d.key # Null => Allows(c, d.key)

Extremes(lo, hi, S) == lo \in S /\ hi \in S /\ \A n \in S : lo <= n /\ n <= hi

-----------------------------------------------------------------------------
\* A finite set of integers that is not empty has a least and a greatest element.
LEMMA ExtremesExist ==
  ASSUME NEW S, S \subseteq Int, IsFiniteSet(S), S # {}
  PROVE  \E lo, hi : Extremes(lo, hi, S)
<1> DEFINE Bad == {A \in FiniteSubsetsOf(S) : A # {} /\ ~\E lo, hi : Extremes(lo, hi, A)}
<1> SUFFICES ASSUME ~\E lo, hi : Extremes(lo, hi, S) PROVE FALSE
  OBVIOUS
<1>1. S \in Bad
  BY DEF FiniteSubsetsOf
<1>2. PICK A \in Bad : \A B \in Bad : ~(<<B, A>> \in StrictSubsetOrdering(S))
  <2>1. IsWellFoundedOn(StrictSubsetOrdering(S), FiniteSubsetsOf(S))
    BY FS_StrictSubsetOrderingWellFounded
  <2>2. Bad \subseteq FiniteSubsetsOf(S) /\ Bad # {}
    BY <1>1
  <2>3. QED
    BY <2>1, <2>2, WFMin
<1>3. A \subseteq S /\ IsFiniteSet(A) /\ A # {} /\ ~\E lo, hi : Extremes(lo, hi, A)
  BY DEF FiniteSubsetsOf
<1>4. PICK x \in A : TRUE
  BY <1>3
<1> DEFINE B == A \ {x}
<1>5. B # {}
  <2>1. SUFFICES ASSUME B = {} PROVE FALSE
    OBVIOUS
  <2>2. A = {x} /\ x \in Int
    BY <1>3, <1>4, <2>1
  <2>3. Extremes(x, x, A)
    BY <2>2 DEF Extremes
  <2>4. QED
    BY <1>3, <2>3
<1>6. \E lo, hi : Extremes(lo, hi, B)
  <2>1. SUFFICES ASSUME ~\E lo, hi : Extremes(lo, hi, B) PROVE FALSE
    OBVIOUS
  <2>2. B \in SUBSET A /\ IsFiniteSet(B)
    BY <1>3, FS_Subset
  <2>3. B \in Bad
    BY <1>3, <1>5, <2>1, <2>2 DEF FiniteSubsetsOf
  <2>4. <<B, A>> \in StrictSubsetOrdering(S)
    BY <1>3, <1>4 DEF StrictSubsetOrdering
  <2>5. QED
    BY <1>2, <2>3, <2>4
<1>7. PICK lo, hi : Extremes(lo, hi, B)
  BY <1>6
<1>8. lo \in Int /\ hi \in Int /\ x \in Int /\ lo \in A /\ hi \in A /\ A \subseteq Int
  BY <1>3, <1>4, <1>7 DEF Extremes
<1>9. Extremes(IF x < lo THEN x ELSE lo, IF hi < x THEN x ELSE hi, A)
  <2> DEFINE l == IF x < lo THEN x ELSE lo
             h == IF hi < x THEN x ELSE hi
  <2>1. /\ l \in {x, lo} /\ l <= x /\ l <= lo /\ l \in Int
        /\ h \in {x, hi} /\ x <= h /\ hi <= h /\ h \in Int
    BY <1>8
  <2>2. \A n \in A : n = x \/ (lo <= n /\ n <= hi)
    BY <1>7 DEF Extremes
  <2> HIDE DEF l, h
  <2>3. \A n \in A : l <= n /\ n <= h
    BY <1>8, <2>1, <2>2
  <2>4. Extremes(l, h, A)
    BY <1>4, <1>8, <2>1, <2>3 DEF Extremes
  <2>5. QED
    BY <2>4 DEF l, h
<1>10. QED
  BY <1>3, <1>9

\* Min and Max of such a set.
LEMMA MinMaxAre ==
  ASSUME NEW S, S \subseteq Int, IsFiniteSet(S), S # {}
  PROVE  \A n \in S : Min(S) <= n /\ n <= Max(S)
<1>1. PICK lo, hi : Extremes(lo, hi, S)
  BY ExtremesExist
<1>2. \A n \in S : Min(S) <= n
  <2>1. \E x \in S : \A y \in S : x =< y
    BY <1>1 DEF Extremes
  <2>2. QED
    BY <2>1 DEF Min
<1>3. \A n \in S : n <= Max(S)
  <2>1. \E x \in S : \A y \in S : x >= y
    BY <1>1 DEF Extremes
  <2>2. Max(S) \in S /\ \A y \in S : Max(S) >= y
    BY <2>1 DEF Max
  <2>3. QED
    BY <2>2
<1>4. QED
  BY <1>2, <1>3

\* plan_time_join_key_constraint: its bound covers the keys it was read from.
LEMMA ConstraintCovers ==
  ASSUME NEW rows, DimOK(rows), NEW filter
  PROVE  CoversKeys(Constraint(rows, filter, "key"), rows, filter)
<1> DEFINE found == Filtered(rows, filter)
           all == {d.key : d \in found}
           keys == {d["key"] : d \in found} \ {Null}
           c == Constraint(rows, filter, "key")
<1>1. found \in SUBSET rows
  BY DEF Filtered
<1>2. IsFiniteSet(found)
  BY <1>1, FS_Subset DEF DimOK
<1>3. IsFiniteSet(all)
  <2> DEFINE f == [d \in found |-> d.key]
  <2>1. f \in Surjection(found, all)
    BY DEF Surjection
  <2>2. QED
    BY <1>2, <2>1, FS_Surjection
<1>4. keys \in SUBSET all
  OBVIOUS
<1>5. IsFiniteSet(keys)
  BY <1>3, <1>4, FS_Subset
<1>6. keys \subseteq Int
  BY <1>1 DEF DimOK
<1>7. SUFFICES ASSUME NEW d \in found, d.key # Null
               PROVE  Allows(c, d.key)
  BY DEF CoversKeys
<1>8. d.key \in keys
  BY <1>7
<1>9. c = IF Cardinality(found) > MaxDimRows \/ keys = {} THEN NoBound
          ELSE IF Selective(keys) THEN [kind |-> "range", lo |-> Min(keys), hi |-> Max(keys)]
          ELSE IF Cardinality(keys) <= MaxInList THEN [kind |-> "in", set |-> keys]
          ELSE NoBound
  BY DEF Constraint
<1> HIDE DEF found, all, keys, c
<1>10. CASE c = NoBound
  BY <1>10 DEF Allows, NoBound
<1>11. CASE c = [kind |-> "range", lo |-> Min(keys), hi |-> Max(keys)]
  <2>1. c.kind = "range" /\ c.lo = Min(keys) /\ c.hi = Max(keys)
    BY <1>11
  <2>2. Min(keys) <= d.key /\ d.key <= Max(keys)
    BY <1>5, <1>6, <1>8, MinMaxAre
  <2>3. QED
    BY <1>7, <2>1, <2>2 DEF Allows
<1>12. CASE c = [kind |-> "in", set |-> keys]
  <2>1. c.kind = "in" /\ c.set = keys
    BY <1>12
  <2>2. QED
    BY <1>8, <2>1 DEF Allows
<1>13. QED
  BY <1>9, <1>10, <1>11, <1>12

-----------------------------------------------------------------------------
\* The pairs of a join.
Pairs(L, R, nulls) == {p \in L \X R : Matches(p[1], p[2], nulls)}

\* The bound takes no row of either side that has a partner.
LEMMA PairsKept ==
  ASSUME NEW q, NEW rows, NEW c, CoversKeys(c, rows, q.filter),
         q.shape \in {"scan", "hidden", "bykey"}, ~q.nulls,
         q.large => q.twin \in {"key", "none"}
  PROVE  Pairs(FactSide(q.shape, c), DimSide(q, rows, c), q.nulls)
           = Pairs(FactSide(q.shape, NoBound), DimSide(q, rows, NoBound), q.nulls)
<1> DEFINE L == FactSide(q.shape, c)
           L0 == FactSide(q.shape, NoBound)
           R == DimSide(q, rows, c)
           R0 == DimSide(q, rows, NoBound)
<1>1. \A v : Allows(NoBound, v)
  BY DEF Allows, NoBound
<1>2. R \subseteq R0 /\ R0 \subseteq Filtered(rows, q.filter)
      /\ \A d \in R0 : Allows(c, d.key) => d \in R
  BY <1>1 DEF DimSide
<1>3. L \subseteq L0 /\ \A l \in L0 : Allows(c, l.key) => l \in L
  <2>1. CASE q.shape = "scan"
    <3>1. L = {[key |-> f.k, row |-> f] : f \in {g \in FactRows : Allows(c, g.k)}}
      BY <2>1 DEF FactSide, Between
    <3>2. L0 = {[key |-> f.k, row |-> f] : f \in FactRows}
      BY <1>1, <2>1 DEF FactSide, Between
    <3> HIDE DEF L, L0
    <3>3. L \subseteq L0
      BY <3>1, <3>2
    <3>4. ASSUME NEW l \in L0, Allows(c, l.key)
          PROVE  l \in L
      <4>1. PICK f \in FactRows : l = [key |-> f.k, row |-> f]
        BY <3>2
      <4>2. l.key = f.k
        BY <4>1
      <4>3. QED
        BY <3>1, <3>4, <4>1, <4>2
    <3>5. QED
      BY <3>3, <3>4
  <2>2. CASE q.shape = "hidden"
    BY <2>2 DEF FactSide
  <2>3. CASE q.shape = "bykey"
    <3> DEFINE B == {f \in FactRows : Allows(c, f.k)}
               Group(S, f) == {g \in S : g.k = f.k}
    <3>1. L = {[key |-> f.k, row |-> Group(B, f)] : f \in B}
      <4>1. B = {f \in FactRows : q.shape = "hidden" \/ Allows(c, f.k)}
        BY <2>3
      <4> HIDE DEF B
      <4>2. QED
        BY <2>3, <4>1 DEF FactSide, Between
    <3>2. L0 = {[key |-> f.k, row |-> Group(FactRows, f)] : f \in FactRows}
      <4>1. FactRows = {f \in FactRows : q.shape = "hidden" \/ Allows(NoBound, f.k)}
        BY <1>1
      <4>2. QED
        BY <2>3, <4>1 DEF FactSide, Between
    <3>3. \A f \in B : Group(B, f) = Group(FactRows, f)
      OBVIOUS
    <3> HIDE DEF L, L0, Group
    <3>4. L \subseteq L0
      BY <3>1, <3>2, <3>3
    <3>5. ASSUME NEW l \in L0, Allows(c, l.key)
          PROVE  l \in L
      <4>1. PICK f \in FactRows : l = [key |-> f.k, row |-> Group(FactRows, f)]
        BY <3>2
      <4>2. f \in B
        BY <3>5, <4>1
      <4>3. QED
        BY <3>1, <3>3, <4>1, <4>2
    <3>6. QED
      BY <3>4, <3>5
  <2>4. QED
    BY <2>1, <2>2, <2>3
<1> HIDE DEF L, L0, R, R0
<1>4. ASSUME NEW l \in L0, NEW r \in R0, Matches(l, r, q.nulls)
      PROVE  l \in L /\ r \in R
  <2>1. l.key = r.key /\ r.key # Null
    BY <1>4 DEF Matches
  <2>2. Allows(c, r.key)
    BY <1>2, <2>1 DEF CoversKeys
  <2>3. QED
    BY <1>2, <1>3, <2>1, <2>2
<1>5. Pairs(L, R, q.nulls) = Pairs(L0, R0, q.nulls)
  BY <1>2, <1>3, <1>4 DEF Pairs
<1>6. QED
  BY <1>5 DEF L, L0, R, R0

\* A join that returns no left row without a partner is made of its pairs and
\* of the right side.
LEMMA JoinOfPairs ==
  ASSUME NEW L, NEW R, NEW L0, NEW R0, NEW nulls, NEW type \in Types,
         Pairs(L, R, nulls) = Pairs(L0, R0, nulls),
         type \notin {"Left", "Full", "LeftAnti"},
         type \in {"Right", "RightAnti"} => R = R0
  PROVE  JoinRows(type, L, R, nulls) = JoinRows(type, L0, R0, nulls)
<1>1. type \in {"Inner", "Right", "LeftSemi", "RightSemi", "RightAnti"}
  BY DEF Types
<1>2. \A A, B : JoinRows("Inner", A, B, nulls) = Pairs(A, B, nulls)
  BY DEF JoinRows, Pairs
<1>3. \A A, B : JoinRows("Right", A, B, nulls) = Pairs(A, B, nulls)
         \cup {<<Null, r>> : r \in B \ {p[2] : p \in Pairs(A, B, nulls)}}
  BY DEF JoinRows, Pairs
<1>4. \A A, B : JoinRows("LeftSemi", A, B, nulls) = {p[1] : p \in Pairs(A, B, nulls)}
  BY DEF JoinRows, Pairs
<1>5. \A A, B : JoinRows("RightSemi", A, B, nulls) = {p[2] : p \in Pairs(A, B, nulls)}
  BY DEF JoinRows, Pairs
<1>6. \A A, B : JoinRows("RightAnti", A, B, nulls) = B \ {p[2] : p \in Pairs(A, B, nulls)}
  BY DEF JoinRows, Pairs
<1>7. CASE type = "Inner"
  BY <1>2, <1>7
<1>8. CASE type = "Right"
  <2> DEFINE Padded(P, B) == P \cup {<<Null, r>> : r \in B \ {p[2] : p \in P}}
  <2>1. /\ JoinRows("Right", L, R, nulls) = Padded(Pairs(L, R, nulls), R)
        /\ JoinRows("Right", L0, R0, nulls) = Padded(Pairs(L0, R0, nulls), R0)
    BY <1>3
  <2> HIDE DEF Padded
  <2>2. QED
    BY <1>8, <2>1
<1>9. CASE type = "LeftSemi"
  BY <1>4, <1>9
<1>10. CASE type = "RightSemi"
  BY <1>5, <1>10
<1>11. CASE type = "RightAnti"
  <2> DEFINE Unmatched(P, B) == B \ {p[2] : p \in P}
  <2>1. /\ JoinRows("RightAnti", L, R, nulls) = Unmatched(Pairs(L, R, nulls), R)
        /\ JoinRows("RightAnti", L0, R0, nulls) = Unmatched(Pairs(L0, R0, nulls), R0)
    BY <1>6
  <2> HIDE DEF Unmatched
  <2>2. QED
    BY <1>11, <2>1
<1>12. QED
  BY <1>1, <1>7, <1>8, <1>9, <1>10, <1>11

\* The bound changes no result but those of the joins it asks to be left out.
LEMMA BoundKeepsRows ==
  ASSUME NEW q, NEW rows, NEW c, CoversKeys(c, rows, q.filter),
         q.shape \in {"scan", "hidden", "bykey"}, ~q.nulls, NEW type \in Types,
         q.large => q.twin \in {"key", "none"},
         type \notin {"Left", "Full", "LeftAnti"},
         ~(q.large /\ q.twin = "key" /\ type \in {"Right", "Full", "RightAnti"})
  PROVE  JoinRows(type, FactSide(q.shape, c), DimSide(q, rows, c), q.nulls)
           = JoinRows(type, FactSide(q.shape, NoBound), DimSide(q, rows, NoBound), q.nulls)
<1>1. Pairs(FactSide(q.shape, c), DimSide(q, rows, c), q.nulls)
         = Pairs(FactSide(q.shape, NoBound), DimSide(q, rows, NoBound), q.nulls)
  BY PairsKept
<1>2. type \in {"Right", "RightAnti"} => DimSide(q, rows, c) = DimSide(q, rows, NoBound)
  BY DEF DimSide
<1>3. QED
  BY <1>1, <1>2, JoinOfPairs

\* swap_inputs exchanges the sides and the type with them.
LEMMA SwapNorm ==
  ASSUME NEW type \in Types, NEW side \in Sides
  PROVE  /\ Swapped(type) \in Types /\ Other(side) \in Sides
         /\ Norm(Swapped(type), Other(side)) = Norm(type, side)
         /\ Norm(type, side) \in Types
BY DEF Types, Sides, Swapped, Other, Norm

-----------------------------------------------------------------------------
(* What is cached or kept in a plan as the bound of the snapshot `of`. *)
BoundOf(b, of, filter, name, dims) ==
    /\ of \in 1..Len(dims)
    /\ name # "absent"
    /\ b = Constraint(dims[of], filter, name)

PlanFields == {"pc", "q", "at", "side", "type", "mode", "parts", "bound", "of"}

(* A plan is of a query and of a snapshot; swaps keep its meaning; the     *)
(* bound it has is that of some snapshot, or none.                         *)
PlanOK(pl, dims) ==
    \/ pl = Idle
    \/ /\ DOMAIN pl = PlanFields
       /\ pl.pc \in {"bound", "reading", "collect", "planned", "failed"}
       /\ pl.q \in Queries /\ pl.at \in 1..Len(dims)
       /\ pl.type \in Types /\ pl.side \in Sides
       /\ Norm(pl.type, pl.side) = Norm(pl.q.type, pl.q.fact)
       /\ pl.pc # "planned" => /\ pl.mode = pl.q.mode
                               /\ pl.mode = "CollectLeft" => pl.parts = 1
       /\ \/ pl.bound = NoBound /\ pl.of = 0
          \/ BoundOf(pl.bound, pl.of, pl.q.filter, pl.q.name, dims)

DimsInv ==
    /\ dim \in Seq(SUBSET (FirstRows \cup Inserts)) /\ Len(dim) # 0
    /\ \A i \in 1..Len(dim) : DimOK(dim[i])

CacheInv ==
    \A q \in Queries : CacheKey(q) \in DOMAIN cache =>
        BoundOf(cache[CacheKey(q)].bound, cache[CacheKey(q)].of, q.filter, q.name, dim)

PlansInv ==
    /\ DOMAIN plan = Planners
    /\ \A p \in Planners : PlanOK(plan[p], dim)

FkInv == DimsInv /\ CacheInv /\ PlansInv /\ BroadcastsDimension

\* The rules' plan of one query returns its rows.
LEMMA PlanKeepsRows ==
  ASSUME DimsInv, NEW pl, PlanOK(pl, dim), pl.pc = "planned",
         ~MayChange(pl)
  PROVE  Result(pl.q, pl.type, pl.side, dim[pl.at], pl.bound)
           = Result(pl.q, pl.q.type, pl.q.fact, dim[pl.at], NoBound)
<1>1. pl # Idle
  BY DEF Idle
<1>2. /\ pl.q \in Queries /\ pl.at \in 1..Len(dim) /\ pl.type \in Types /\ pl.side \in Sides
      /\ Norm(pl.type, pl.side) = Norm(pl.q.type, pl.q.fact)
      /\ \/ pl.bound = NoBound /\ pl.of = 0
         \/ BoundOf(pl.bound, pl.of, pl.q.filter, pl.q.name, dim)
  BY <1>1 DEF PlanOK
<1>3. CASE pl.bound = NoBound
  BY <1>2, <1>3 DEF Result
<1>4. CASE pl.bound # NoBound
  <2>0. /\ BoundOf(pl.bound, pl.of, pl.q.filter, pl.q.name, dim)
        /\ ~KeepsFactRows(pl) /\ ~NullsMatch(pl) /\ ~Misnamed(pl) /\ ~Recomputed(pl)
        /\ ~Stale(pl) /\ ~LosesDimRows(pl)
    BY <1>2, <1>4 DEF MayChange
  <2>1. /\ pl.q.name \in {"key", "other", "absent"} /\ pl.q.shape \in Shapes
        /\ pl.q.twin \in {"key", "other", "none"}
    BY <1>2, QueriesAssumption
  <2>2. /\ pl.q.name = "key" /\ pl.q.shape \in {"scan", "hidden", "bykey"}
        /\ pl.q.large => pl.q.twin \in {"key", "none"}
    BY <2>0, <2>1 DEF BoundOf, Misnamed, Recomputed, Shapes
  <2>3. pl.of = pl.at
    BY <2>0 DEF BoundOf, Stale
  <2>4. DimOK(dim[pl.at])
    BY <1>2 DEF DimsInv
  <2>5. CoversKeys(pl.bound, dim[pl.at], pl.q.filter)
    BY <2>0, <2>2, <2>3, <2>4, ConstraintCovers DEF BoundOf
  <2>6. Norm(pl.type, pl.side) \in Types
    BY <1>2, SwapNorm
  <2>7. /\ ~pl.q.nulls /\ Norm(pl.type, pl.side) \notin {"Left", "Full", "LeftAnti"}
        /\ ~(pl.q.large /\ pl.q.twin = "key"
             /\ Norm(pl.type, pl.side) \in {"Right", "Full", "RightAnti"})
    BY <2>0 DEF NullsMatch, KeepsFactRows, LosesDimRows
  <2>8. Result(pl.q, pl.type, pl.side, dim[pl.at], pl.bound)
           = Result(pl.q, pl.type, pl.side, dim[pl.at], NoBound)
    BY <2>2, <2>5, <2>6, <2>7, BoundKeepsRows DEF Result
  <2>9. QED
    BY <1>2, <2>8 DEF Result
<1>5. QED
  BY <1>2, <1>3, <1>4

\* The invariant gives ResultKept.
LEMMA InvKeepsRows ==
  ASSUME FkInv
  PROVE  ResultKept
BY PlanKeepsRows DEF FkInv, PlansInv, ResultKept

-----------------------------------------------------------------------------
\* Every field of a plan but the ones a step sets.
LEMMA PlanUpdated ==
  ASSUME NEW pl, DOMAIN pl = PlanFields, NEW b, NEW n
  PROVE  LET pw == [pl EXCEPT !.pc = "collect", !.bound = b, !.of = n] IN
         /\ DOMAIN pw = PlanFields /\ pw.pc = "collect" /\ pw.bound = b /\ pw.of = n
         /\ pw.q = pl.q /\ pw.at = pl.at /\ pw.side = pl.side /\ pw.type = pl.type
         /\ pw.mode = pl.mode /\ pw.parts = pl.parts
BY DEF PlanFields

\* One planner's plan changes and nothing else that matters.
LEMMA OnePlan ==
  ASSUME FkInv, dim' = dim, CacheInv', NEW p \in Planners, NEW new,
         plan' = [plan EXCEPT ![p] = new], PlanOK(new, dim),
         new.pc = "planned" /\ new.mode = "CollectLeft" =>
            new.parts = 1 /\ (new.q.mode = "Partitioned" => new.side = "right")
  PROVE  FkInv'
<1>1. DOMAIN plan' = Planners /\ plan'[p] = new /\ \A u \in Planners : u # p => plan'[u] = plan[u]
  BY DEF FkInv, PlansInv
<1>2. DimsInv'
  BY DEF FkInv, DimsInv
<1>3. \A u \in Planners : PlanOK(plan'[u], dim')
  BY <1>1 DEF FkInv, PlansInv
<1>4. BroadcastsDimension'
  BY <1>1 DEF FkInv, BroadcastsDimension
<1>5. QED
  BY <1>1, <1>2, <1>3, <1>4 DEF FkInv, PlansInv

\* A query is resolved and its inputs may be swapped.
LEMMA BeginStep ==
  ASSUME FkInv, NEW p \in Planners, NEW q \in Queries, Begin(p, q)
  PROVE  FkInv'
<1> DEFINE pl == [pc |-> "bound", q |-> q, at |-> IF q.pin = 0 THEN Len(dim) ELSE q.pin,
                  side |-> q.fact, type |-> q.type, mode |-> q.mode,
                  parts |-> IF q.mode = "CollectLeft" THEN 1 ELSE 2,
                  bound |-> NoBound, of |-> 0]
           sw == SwapInputs(pl)
<1>1. /\ UNCHANGED <<dim, cache>>
      /\ plan' = [plan EXCEPT ![p] = pl] \/ plan' = [plan EXCEPT ![p] = sw]
  BY DEF Begin
<1>2. /\ q.type \in Types /\ q.fact \in Sides /\ q.pin \in Nat /\ q.pin <= Len(dim)
  BY QueriesAssumption DEF Begin
<1>3. Len(dim) \in Nat \ {0}
  BY DEF FkInv, DimsInv
<1>4. (IF q.pin = 0 THEN Len(dim) ELSE q.pin) \in 1..Len(dim)
  BY <1>2, <1>3
<1>5. /\ DOMAIN pl = PlanFields /\ pl.pc = "bound" /\ pl.q = q /\ pl.at \in 1..Len(dim)
      /\ pl.side = q.fact /\ pl.type = q.type /\ pl.mode = q.mode
      /\ pl.mode = "CollectLeft" => pl.parts = 1
      /\ pl.bound = NoBound /\ pl.of = 0
  BY <1>4 DEF PlanFields
<1> HIDE DEF pl
<1>6. /\ DOMAIN sw = PlanFields /\ sw.pc = "bound" /\ sw.q = q /\ sw.at = pl.at
      /\ sw.side = Other(q.fact) /\ sw.type = Swapped(q.type) /\ sw.mode = q.mode
      /\ sw.parts = pl.parts /\ sw.bound = NoBound /\ sw.of = 0
  BY <1>5 DEF SwapInputs, PlanFields
<1> HIDE DEF sw
<1>7. PlanOK(pl, dim)
  BY <1>2, <1>5 DEF PlanOK
<1>8. PlanOK(sw, dim)
  BY <1>2, <1>5, <1>6, SwapNorm DEF PlanOK
<1>9. CacheInv'
  BY <1>1 DEF FkInv, CacheInv
<1>10. CASE plan' = [plan EXCEPT ![p] = pl]
  BY <1>1, <1>5, <1>7, <1>9, <1>10, OnePlan
<1>11. CASE plan' = [plan EXCEPT ![p] = sw]
  BY <1>1, <1>6, <1>8, <1>9, <1>11, OnePlan
<1>12. QED
  BY <1>1, <1>10, <1>11

\* The bound comes from the cache, is none, or is to be read.
LEMMA ResolveStep ==
  ASSUME FkInv, NEW p \in Planners, Resolve(p)
  PROVE  FkInv'
<1> DEFINE pl == plan[p]
           q == pl.q
           k == CacheKey(q)
<1>1. /\ pl.pc = "bound" /\ pl # Idle /\ PlanOK(pl, dim) /\ UNCHANGED <<dim, cache>>
      /\ DOMAIN plan = Planners
  BY DEF Resolve, Idle, FkInv, PlansInv
<1>2. CacheInv'
  BY <1>1 DEF FkInv, CacheInv
<1>3. DOMAIN pl = PlanFields /\ q \in Queries
  BY <1>1 DEF PlanOK
<1>4. ASSUME NEW b, NEW n, WithBound(p, b, n),
             (b = NoBound /\ n = 0) \/ BoundOf(b, n, q.filter, q.name, dim)
      PROVE  FkInv'
  <2> DEFINE new == [pl EXCEPT !.pc = "collect", !.bound = b, !.of = n]
  <2>1. plan' = [plan EXCEPT ![p] = new]
    BY <1>1, <1>4 DEF WithBound
  <2>2. /\ DOMAIN new = PlanFields /\ new.pc = "collect" /\ new.bound = b /\ new.of = n
        /\ new.q = pl.q /\ new.at = pl.at /\ new.side = pl.side /\ new.type = pl.type
        /\ new.mode = pl.mode /\ new.parts = pl.parts
    BY <1>3, PlanUpdated
  <2> HIDE DEF new
  <2>3. PlanOK(new, dim)
    BY <1>1, <1>4, <2>2 DEF PlanOK
  <2>4. QED
    BY <1>1, <1>2, <2>1, <2>2, <2>3, OnePlan
<1>5. CASE WithBound(p, NoBound, 0)
  BY <1>4, <1>5
<1>6. CASE k \in DOMAIN cache /\ WithBound(p, cache[k].bound, cache[k].of)
  <2>1. BoundOf(cache[k].bound, cache[k].of, q.filter, q.name, dim)
    BY <1>3, <1>6 DEF FkInv, CacheInv
  <2>2. QED
    BY <1>4, <1>6, <2>1
<1>7. CASE plan' = [plan EXCEPT ![p].pc = "reading"]
  <2> DEFINE new == [pl EXCEPT !.pc = "reading"]
  <2>1. plan' = [plan EXCEPT ![p] = new]
    BY <1>7
  <2>2. /\ DOMAIN new = PlanFields /\ new.pc = "reading" /\ new.bound = pl.bound /\ new.of = pl.of
        /\ new.q = pl.q /\ new.at = pl.at /\ new.side = pl.side /\ new.type = pl.type
        /\ new.mode = pl.mode /\ new.parts = pl.parts
    BY <1>3 DEF PlanFields
  <2> HIDE DEF new
  <2>3. PlanOK(new, dim)
    BY <1>1, <2>2 DEF PlanOK
  <2>4. QED
    BY <1>1, <1>2, <2>1, <2>2, <2>3, OnePlan
<1>8. QED
  BY <1>5, <1>6, <1>7 DEF Resolve

\* The keys are read, the bound is kept and put in the cache.
LEMMA ReadKeysStep ==
  ASSUME FkInv, NEW p \in Planners, ReadKeys(p)
  PROVE  FkInv'
<1> DEFINE pl == plan[p]
           q == pl.q
           key == CacheKey(q)
           c == Constraint(dim[pl.at], q.filter, q.name)
           entry == [bound |-> c, of |-> pl.at]
<1>1. /\ pl.pc = "reading" /\ pl # Idle /\ PlanOK(pl, dim) /\ dim' = dim /\ DOMAIN plan = Planners
  BY DEF ReadKeys, Idle, FkInv, PlansInv
<1>2. DOMAIN pl = PlanFields /\ q \in Queries /\ pl.at \in 1..Len(dim)
  BY <1>1 DEF PlanOK
<1>3. CASE plan' = [plan EXCEPT ![p].pc = "failed"] /\ cache' = cache
  <2> DEFINE new == [pl EXCEPT !.pc = "failed"]
  <2>1. plan' = [plan EXCEPT ![p] = new]
    BY <1>3
  <2>2. /\ DOMAIN new = PlanFields /\ new.pc = "failed" /\ new.bound = pl.bound /\ new.of = pl.of
        /\ new.q = pl.q /\ new.at = pl.at /\ new.side = pl.side /\ new.type = pl.type
        /\ new.mode = pl.mode /\ new.parts = pl.parts
    BY <1>2 DEF PlanFields
  <2> HIDE DEF new
  <2>3. PlanOK(new, dim)
    BY <1>1, <2>2 DEF PlanOK
  <2>4. CacheInv'
    BY <1>1, <1>3 DEF FkInv, CacheInv
  <2>5. QED
    BY <1>1, <2>1, <2>2, <2>3, <2>4, OnePlan
<1>4. CASE /\ q.name # "absent"
           /\ cache' = [k \in DOMAIN cache \cup {key} |-> IF k = key THEN entry ELSE cache[k]]
           /\ WithBound(p, c, pl.at)
  <2> DEFINE new == [pl EXCEPT !.pc = "collect", !.bound = c, !.of = pl.at]
  <2>1. plan' = [plan EXCEPT ![p] = new]
    BY <1>1, <1>4 DEF WithBound
  <2>2. /\ DOMAIN new = PlanFields /\ new.pc = "collect" /\ new.bound = c /\ new.of = pl.at
        /\ new.q = pl.q /\ new.at = pl.at /\ new.side = pl.side /\ new.type = pl.type
        /\ new.mode = pl.mode /\ new.parts = pl.parts
    BY <1>2, PlanUpdated
  <2> HIDE DEF new
  <2>3. BoundOf(c, pl.at, q.filter, q.name, dim)
    BY <1>2, <1>4 DEF BoundOf
  <2>4. PlanOK(new, dim)
    BY <1>1, <2>2, <2>3 DEF PlanOK
  <2>5. entry.bound = c /\ entry.of = pl.at
    OBVIOUS
  <2>6. CacheInv'
    <3>1. SUFFICES ASSUME NEW s \in Queries, CacheKey(s) \in DOMAIN cache'
                   PROVE  BoundOf(cache'[CacheKey(s)].bound, cache'[CacheKey(s)].of,
                                  s.filter, s.name, dim')
      BY DEF CacheInv
    <3>2. CASE CacheKey(s) = key
      <4>1. s.filter = q.filter /\ s.name = q.name
        BY <3>2 DEF CacheKey
      <4>2. cache'[CacheKey(s)] = entry
        BY <1>4, <3>2
      <4>3. QED
        BY <1>1, <2>3, <2>5, <4>1, <4>2
    <3>3. CASE CacheKey(s) # key
      <4>1. CacheKey(s) \in DOMAIN cache /\ cache'[CacheKey(s)] = cache[CacheKey(s)]
        BY <1>4, <3>1, <3>3
      <4>2. QED
        BY <1>1, <4>1 DEF FkInv, CacheInv
    <3>4. QED
      BY <3>2, <3>3
  <2>7. QED
    BY <1>1, <2>1, <2>2, <2>4, <2>6, OnePlan
<1>5. QED
  BY <1>3, <1>4 DEF ReadKeys

\* The broadcast: swaps again, and never with the fact table as the build side.
LEMMA CollectLeftStep ==
  ASSUME FkInv, NEW p \in Planners, CollectLeft(p)
  PROVE  FkInv'
<1> DEFINE pl == plan[p]
           q == pl.q
           asis == [pl EXCEPT !.pc = "planned"]
           coll == [Collected(pl) EXCEPT !.pc = "planned"]
           swap == [Collected(SwapInputs(pl)) EXCEPT !.pc = "planned"]
<1>1. /\ pl.pc = "collect" /\ pl # Idle /\ PlanOK(pl, dim) /\ UNCHANGED <<dim, cache>>
      /\ DOMAIN plan = Planners
  BY DEF CollectLeft, Idle, FkInv, PlansInv
<1>2. /\ DOMAIN pl = PlanFields /\ q \in Queries /\ pl.mode = q.mode
      /\ pl.mode = "CollectLeft" => pl.parts = 1
      /\ pl.type \in Types /\ pl.side \in Sides
  BY <1>1 DEF PlanOK
<1>3. q.mode \in {"Partitioned", "CollectLeft"}
  BY <1>2, QueriesAssumption
<1>4. CacheInv'
  BY <1>1 DEF FkInv, CacheInv
<1>5. \/ plan' = [plan EXCEPT ![p] = asis] /\ (pl.mode # "CollectLeft" \/ q.grouped)
      \/ plan' = [plan EXCEPT ![p] = coll] /\ (pl.mode = "CollectLeft" \/ pl.side # "left")
      \/ plan' = [plan EXCEPT ![p] = swap] /\ pl.side = "left"
  BY DEF CollectLeft
<1>6. /\ DOMAIN asis = PlanFields /\ asis.pc = "planned" /\ asis.q = q /\ asis.at = pl.at
      /\ asis.side = pl.side /\ asis.type = pl.type /\ asis.bound = pl.bound /\ asis.of = pl.of
      /\ asis.mode = pl.mode /\ asis.parts = pl.parts
  BY <1>2 DEF PlanFields
<1>7. /\ DOMAIN coll = PlanFields /\ coll.pc = "planned" /\ coll.q = q /\ coll.at = pl.at
      /\ coll.side = pl.side /\ coll.type = pl.type /\ coll.bound = pl.bound /\ coll.of = pl.of
      /\ coll.mode = "CollectLeft" /\ coll.parts = 1
  BY <1>2 DEF Collected, PlanFields
<1>8. /\ DOMAIN swap = PlanFields /\ swap.pc = "planned" /\ swap.q = q /\ swap.at = pl.at
      /\ swap.side = Other(pl.side) /\ swap.type = Swapped(pl.type)
      /\ swap.bound = pl.bound /\ swap.of = pl.of
      /\ swap.mode = "CollectLeft" /\ swap.parts = 1
  BY <1>2 DEF Collected, SwapInputs, PlanFields
<1> HIDE DEF asis, coll, swap
<1>9. CASE plan' = [plan EXCEPT ![p] = asis]
  <2>1. PlanOK(asis, dim)
    BY <1>1, <1>6 DEF PlanOK
  <2>2. QED
    BY <1>1, <1>2, <1>4, <1>6, <1>9, <2>1, OnePlan
<1>10. CASE plan' = [plan EXCEPT ![p] = coll] /\ (pl.mode = "CollectLeft" \/ pl.side # "left")
  <2>1. PlanOK(coll, dim)
    BY <1>1, <1>7 DEF PlanOK
  <2>2. coll.q.mode = "Partitioned" => coll.side = "right"
    BY <1>2, <1>7, <1>10 DEF Sides
  <2>3. QED
    BY <1>1, <1>4, <1>7, <1>10, <2>1, <2>2, OnePlan
<1>11. CASE plan' = [plan EXCEPT ![p] = swap] /\ pl.side = "left"
  <2>1. PlanOK(swap, dim)
    BY <1>1, <1>2, <1>8, SwapNorm DEF PlanOK
  <2>2. swap.side = "right"
    BY <1>8, <1>11 DEF Other
  <2>3. QED
    BY <1>1, <1>4, <1>8, <1>11, <2>1, <2>2, OnePlan
<1>12. QED
  BY <1>5, <1>9, <1>10, <1>11

\* A snapshot more; the ones plans and cache are about are what they were.
LEMMA InsertStep ==
  ASSUME FkInv, NEW d \in Inserts, Insert(d)
  PROVE  FkInv'
<1> DEFINE rows == dim[Len(dim)] \cup {d}
           all == SUBSET (FirstRows \cup Inserts)
<1>1. dim \in Seq(all) /\ Len(dim) \in Nat \ {0} /\ DimOK(dim[Len(dim)])
  BY DEF FkInv, DimsInv
<1>2. rows \in all /\ DimOK(rows)
  <2>1. dim[Len(dim)] \in all
    BY <1>1
  <2>2. IsFiniteSet(rows)
    BY <1>1, FS_AddElement DEF DimOK
  <2>3. QED
    BY <1>1, <2>1, <2>2, RowsAssumption DEF DimOK
<1>3. dim' = Append(dim, rows) /\ UNCHANGED <<cache, plan>>
  BY DEF Insert
<1> HIDE DEF rows, all
<1>4. /\ dim' \in Seq(all) /\ Len(dim') = Len(dim) + 1 /\ dim'[Len(dim) + 1] = rows
      /\ \A i \in 1..Len(dim) : dim'[i] = dim[i]
  BY <1>1, <1>2, <1>3
<1>5. DimsInv'
  <2>1. \A i \in 1..Len(dim') : DimOK(dim'[i])
    BY <1>1, <1>2, <1>4 DEF FkInv, DimsInv
  <2>2. QED
    BY <1>1, <1>4, <2>1 DEF DimsInv, all
<1>6. \A b, n, f, s : BoundOf(b, n, f, s, dim) => BoundOf(b, n, f, s, dim')
  BY <1>1, <1>4 DEF BoundOf
<1>7. CacheInv'
  BY <1>3, <1>6 DEF FkInv, CacheInv
<1>8. PlansInv'
  <2>1. \A pl : PlanOK(pl, dim) => PlanOK(pl, dim')
    BY <1>1, <1>4, <1>6 DEF PlanOK
  <2>2. QED
    BY <1>3, <2>1 DEF FkInv, PlansInv
<1>9. BroadcastsDimension'
  BY <1>3 DEF FkInv, BroadcastsDimension
<1>10. QED
  BY <1>5, <1>7, <1>8, <1>9 DEF FkInv

\* Nothing is planned or cached at first.
LEMMA FkInit == JoinInit => FkInv
<1>1. SUFFICES ASSUME JoinInit PROVE FkInv
  OBVIOUS
<1>2. DimsInv
  <2>1. dim = <<FirstRows>> /\ DimOK(FirstRows)
    BY <1>1, RowsAssumption DEF JoinInit, DimOK
  <2>2. QED
    BY <2>1 DEF DimsInv
<1>3. CacheInv
  BY <1>1 DEF JoinInit, CacheInv
<1>4. PlansInv /\ BroadcastsDimension
  BY <1>1 DEF JoinInit, PlansInv, PlanOK, BroadcastsDimension, Idle
<1>5. QED
  BY <1>2, <1>3, <1>4 DEF FkInv

\* Every step.
LEMMA FkNext ==
  ASSUME FkInv, [JoinNext]_join_vars
  PROVE  FkInv'
<1>1. CASE UNCHANGED join_vars
  <2>1. UNCHANGED <<dim, cache, plan>>
    BY <1>1 DEF join_vars
  <2>2. DimsInv' /\ CacheInv' /\ BroadcastsDimension'
    BY <2>1 DEF FkInv, DimsInv, CacheInv, BroadcastsDimension
  <2>3. PlansInv'
    BY <2>1 DEF FkInv, PlansInv
  <2>4. QED
    BY <2>2, <2>3 DEF FkInv
<1>2. CASE \E p \in Planners : \E q \in Queries : Begin(p, q)
  BY <1>2, BeginStep
<1>3. CASE \E p \in Planners : Resolve(p) \/ ReadKeys(p) \/ CollectLeft(p)
  BY <1>3, ResolveStep, ReadKeysStep, CollectLeftStep
<1>4. CASE \E d \in Inserts : Insert(d)
  BY <1>4, InsertStep
<1>5. QED
  BY <1>1, <1>2, <1>3, <1>4 DEF JoinNext

(* The swap of a join's inputs, the bound on its fact key (from the cache   *)
(* or just read, while other queries are planned and the dimension grows)   *)
(* and the broadcast change no query's rows, but in the cases that          *)
(* ResultKept names and fk_bound_pushdown.rs does not exclude.              *)
THEOREM RowsAlwaysKept == JoinSpec => []ResultKept
<1>1. FkInv => ResultKept
  BY InvKeepsRows
<1>2. QED
  BY <1>1, FkInit, FkNext, PTL DEF JoinSpec

(* A join that join_collect_left.rs broadcasts collects the dimension, in  *)
(* one partition.                                                          *)
THEOREM AlwaysBroadcastsDimension == JoinSpec => []BroadcastsDimension
<1>1. FkInv => BroadcastsDimension
  BY DEF FkInv
<1>2. QED
  BY <1>1, FkInit, FkNext, PTL DEF JoinSpec

=============================================================================
