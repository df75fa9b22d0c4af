------------------------------ MODULE ScanPlan ------------------------------
(***************************************************************************)
(* File planning of a table scan: TableScan::plan_files and the delete     *)
(* file index (patches/iceberg-0.9.1/src/scan/mod.rs, scan/context.rs and  *)
(* delete_file_index.rs), with a caller that collects the stream, as       *)
(* IcebergTableScan does.                                                  *)
(*                                                                         *)
(* Tasks joined by bounded channels: a producer runs at most Limit         *)
(* manifest contexts at once, each fetching a manifest and sending its     *)
(* entries to the data or to the delete channel; a delete consumer spawns  *)
(* a task per delete entry, each feeding the index; plan_files waits for   *)
(* it, then starts a data consumer that spawns a task per data entry, each *)
(* looking up its deletes, waiting for the index if it must, and sending a *)
(* FileScanTask to the caller.  Any of them may fail and report an error   *)
(* to the caller's channel.                                                *)
(*                                                                         *)
(* A channel is the set of entries whose status says they are in it: they  *)
(* leave it in any order, which includes the order they were sent in.  The *)
(* channels are those of futures::channel::mpsc: a send enters a message   *)
(* even into a full channel, and then waits (parked) until the receiver    *)
(* has made room; a message whose sender is parked is behind the others.   *)
(***************************************************************************)
EXTENDS Naturals, FiniteSets

CONSTANTS
  Manifests,      \* manifest files of the snapshot's manifest list
  Entries,        \* manifest entries: data files and delete files
  ManifestOf,     \* [Entries -> Manifests]
  Kind,           \* [Entries -> {"data", "position", "equality"}]
  Partition,      \* [Entries -> partition values, with their spec]
  SeqNum,         \* [Entries -> Nat], sequence numbers
  Unpartitioned,  \* the empty partition value
  Alive,          \* entries not marked as deleted
  PassPartitions, \* partition values the scan's partition filter lets through
  PassMetrics,    \* data files whose metrics may match the scan's filter
  Limit,          \* concurrency limit and channel buffer (the number of CPUs)
  IndexBuffer     \* buffer of the delete index channel (10)

Data == {e \in Entries : Kind[e] = "data"}
Deletes == Entries \ Data
EntriesOf(m) == {e \in Entries : ManifestOf[e] = m}
DeleteManifests == {ManifestOf[e] : e \in Deletes}

ASSUME EntryAssumption ==
  /\ ManifestOf \in [Entries -> Manifests]
  /\ Kind \in [Entries -> {"data", "position", "equality"}]
  /\ SeqNum \in [Entries -> Nat]

\* A manifest holds data files or delete files, never both.
ASSUME ManifestAssumption ==
  \A d, e \in Entries : ManifestOf[d] = ManifestOf[e] => (d \in Data <=> e \in Data)

\* A filter projected onto an unpartitioned spec lets everything through.
ASSUME PartitionAssumption == Unpartitioned \in PassPartitions

VARIABLES
  ctx,             \* the context of each manifest
  status,          \* where each entry is
  deletes,         \* delete files found for each data file
  producer,        \* the task that runs the contexts
  delete_consumer, \* the task that spawns a task per delete entry
  data_consumer,   \* the task that spawns a task per data entry
  index,           \* DeleteFileIndexState
  reports,         \* whose errors are in the caller's channel
  outcome          \* what the caller's collect returned

tasks == <<producer, delete_consumer, data_consumer>>
vars == <<ctx, status, deletes, tasks, index, reports, outcome>>

CtxState == {"none", "skipped", "waiting", "fetching", "streaming", "done", "dropped"}
TaskState == {"off", "running", "failed", "ended"}
DeleteStatus == {"unsent", "queued", "parked", "active", "indexing", "indexed", "skipped", "lost"}
DataStatus == {"unsent", "queued", "parked", "active", "looked", "waiting", "woken",
               "sending", "sent", "collected", "skipped", "lost"}

With(kind, states) == {e \in kind : status[e] \in states}
InDataTask == {"active", "looked", "waiting", "woken", "sending"}

-----------------------------------------------------------------------------
(* The producer                                                             *)

\* The manifest evaluator keeps a manifest that may hold a matching partition.
ManifestPasses(m) == \E e \in EntriesOf(m) : Partition[e] \in PassPartitions

\* Reading the manifest list, or building the contexts, fails.
get_manifest_list_fails ==
  /\ producer = "off"
  /\ outcome' = "err"
  /\ UNCHANGED <<ctx, status, deletes, tasks, index, reports>>

\* get_manifest_list, build_manifest_file_contexts, and the producer and the
\* delete consumer are spawned.
build_manifest_file_contexts ==
  /\ producer = "off"
  /\ ctx' = [m \in Manifests |-> IF ManifestPasses(m) THEN "waiting" ELSE "skipped"]
  /\ producer' = "running"
  /\ delete_consumer' = "running"
  /\ UNCHANGED <<status, deletes, data_consumer, index, reports, outcome>>

Running == {m \in Manifests : ctx[m] \in {"fetching", "streaming"}}

\* Mutation: manifests are processed in list order.
StartContextUnsorted(m) ==
  /\ producer = "running" /\ ctx[m] = "waiting"
  /\ Cardinality(Running) < Limit
  /\ ctx' = [ctx EXCEPT ![m] = "fetching"]
  /\ UNCHANGED <<status, deletes, tasks, index, reports, outcome>>

\* try_for_each_concurrent takes the next context; delete manifests are sorted
\* before data manifests.
StartContext(m) ==
  /\ producer = "running" /\ ctx[m] = "waiting"
  /\ Cardinality(Running) < Limit
  /\ m \notin DeleteManifests => \A n \in DeleteManifests : ctx[n] # "waiting"
  /\ ctx' = [ctx EXCEPT ![m] = "fetching"]
  /\ UNCHANGED <<status, deletes, tasks, index, reports, outcome>>

get_manifest(m) ==
  /\ ctx[m] = "fetching"
  /\ ctx' = [ctx EXCEPT ![m] = "streaming"]
  /\ UNCHANGED <<status, deletes, tasks, index, reports, outcome>>

\* The first error drops every other context, and with them their senders.
ProducerFails(m) ==
  /\ producer' = "failed"
  /\ ctx' = [n \in Manifests |->
       IF ctx[n] \in {"waiting", "fetching", "streaming"} THEN "dropped" ELSE ctx[n]]
  /\ UNCHANGED <<status, deletes, delete_consumer, data_consumer, index, reports, outcome>>

get_manifest_fails(m) == ctx[m] = "fetching" /\ ProducerFails(m)

KindOf(e) == IF e \in Data THEN Data ELSE Deletes
ConsumerOf(e) == IF e \in Data THEN data_consumer ELSE delete_consumer
Parked(m) == \E e \in EntriesOf(m) : status[e] = "parked"

\* sender.send(entry) of fetch_manifest_and_stream_manifest_entries: a context
\* goes on with its next entry unless the channel was full.
StreamEntry(e) ==
  /\ ctx[ManifestOf[e]] = "streaming" /\ status[e] = "unsent" /\ ~Parked(ManifestOf[e])
  /\ ConsumerOf(e) \in {"off", "running"}
  /\ \E s \in {"queued", "parked"} :
       /\ s = "queued" <=> Cardinality(With(KindOf(e), {"queued", "parked"})) < Limit
       /\ status' = [status EXCEPT ![e] = s]
  /\ UNCHANGED <<ctx, deletes, tasks, index, reports, outcome>>

\* The receiver has made room and wakes a parked sender, if it is still there:
\* the entry is in the channel whether its context was dropped or not.
Unpark(e) ==
  /\ status[e] = "parked" /\ Cardinality(With(KindOf(e), {"queued"})) < Limit
  /\ status' = [status EXCEPT ![e] = "queued"]
  /\ UNCHANGED <<ctx, deletes, tasks, index, reports, outcome>>

\* The receiver is gone: "mpsc channel SendError".
StreamEntryFails(e) ==
  /\ ctx[ManifestOf[e]] = "streaming" /\ status[e] = "unsent"
  /\ ConsumerOf(e) \in {"failed", "ended"}
  /\ ProducerFails(ManifestOf[e])

ContextDone(m) ==
  /\ ctx[m] = "streaming"
  /\ \A e \in EntriesOf(m) : status[e] \notin {"unsent", "parked"}
  /\ ctx' = [ctx EXCEPT ![m] = "done"]
  /\ UNCHANGED <<status, deletes, tasks, index, reports, outcome>>

\* send(Err(error)).await on the caller's channel, which holds tasks and errors.
\* Nobody reads it before plan_files has returned.
Report(task) ==
  /\ Cardinality(With(Data, {"sent"})) + Cardinality(reports) < Limit
  /\ reports' = reports \cup {task}

\* The producer ends, or reports its error and ends.
ProducerEnds ==
  /\ \/ /\ producer = "running"
        /\ \A m \in Manifests : ctx[m] \in {"done", "skipped"}
        /\ UNCHANGED reports
     \/ producer = "failed" /\ Report("producer")
  /\ producer' = "ended"
  /\ UNCHANGED <<ctx, status, deletes, delete_consumer, data_consumer, index, outcome>>

-----------------------------------------------------------------------------
(* The delete consumer and the delete file index                            *)

\* Every context that sends to the channel of these entries has ended.
Closed(kind) ==
  \A e \in kind : ctx[ManifestOf[e]] \in {"done", "skipped", "dropped"}

\* A delete entry is received and its task spawned.
ReceiveDelete(e) ==
  /\ delete_consumer = "running" /\ e \in Deletes /\ status[e] = "queued"
  /\ Cardinality(With(Deletes, {"active"})) < Limit
  /\ status' = [status EXCEPT ![e] = "active"]
  /\ UNCHANGED <<ctx, deletes, tasks, index, reports, outcome>>

KeepsDelete(e) == e \in Alive /\ Partition[e] \in PassPartitions

process_delete_manifest_entry(e) ==
  /\ e \in Deletes /\ status[e] = "active"
  /\ \/ ~KeepsDelete(e) /\ status' = [status EXCEPT ![e] = "skipped"]
     \/ /\ KeepsDelete(e) /\ Cardinality(With(Deletes, {"indexing"})) < IndexBuffer
        /\ status' = [status EXCEPT ![e] = "indexing"]
  /\ UNCHANGED <<ctx, deletes, tasks, index, reports, outcome>>

\* status when entry e fails and the receiver with everything in it is dropped.
Lost(e, kind) ==
  [d \in Entries |-> IF d = e \/ (d \in kind /\ status[d] \in {"queued", "parked"})
                     THEN "lost" ELSE status[d]]

\* The task of an entry fails: the consumer stops and drops its receiver, the
\* other spawned tasks go on.  Nobody joins a task once the consumer stopped.
DeleteEntryFails(e) ==
  /\ e \in Deletes /\ status[e] = "active"
  /\ status' = Lost(e, Deletes)
  /\ delete_consumer' = IF delete_consumer = "running" THEN "failed" ELSE delete_consumer
  /\ UNCHANGED <<ctx, deletes, producer, data_consumer, index, reports, outcome>>

DeleteConsumerEnds ==
  /\ \/ /\ delete_consumer = "running" /\ Closed(Deletes)
        /\ With(Deletes, {"queued", "parked", "active"}) = {} /\ UNCHANGED reports
     \/ delete_consumer = "failed" /\ Report("delete")
  /\ delete_consumer' = "ended"
  /\ UNCHANGED <<ctx, status, deletes, producer, data_consumer, index, outcome>>

IndexReceives(e) ==
  /\ e \in Deletes /\ status[e] = "indexing"
  /\ status' = [status EXCEPT ![e] = "indexed"]
  /\ UNCHANGED <<ctx, deletes, tasks, index, reports, outcome>>

\* Mutation: the index is built when the consumer ends, not when its channel
\* is drained.
PopulateEarly ==
  /\ index = "populating" /\ delete_consumer \in {"failed", "ended"}
  /\ index' = "populated"
  /\ UNCHANGED <<ctx, status, deletes, tasks, reports, outcome>>

\* The index channel is closed and drained: the state becomes Populated.
Populate ==
  /\ index = "populating" /\ delete_consumer \in {"failed", "ended"}
  /\ With(Deletes, {"active", "indexing"}) = {}
  /\ index' = "populated"
  /\ UNCHANGED <<ctx, status, deletes, tasks, reports, outcome>>

\* notify_waiters wakes the tasks that are waiting now and leaves no permit.
NotifyWaiters ==
  /\ index = "populated"
  /\ index' = "notified"
  /\ status' = [e \in Entries |-> IF e \in Data /\ status[e] = "waiting"
                                  THEN "woken" ELSE status[e]]
  /\ UNCHANGED <<ctx, deletes, tasks, reports, outcome>>

-----------------------------------------------------------------------------
(* The data consumer                                                        *)

\* plan_files has joined the delete consumer, spawns the data consumer and
\* returns the stream.
plan_files_returns ==
  /\ delete_consumer = "ended" /\ data_consumer = "off"
  /\ data_consumer' = "running"
  /\ UNCHANGED <<ctx, status, deletes, producer, delete_consumer, index, reports, outcome>>

ReceiveData(e) ==
  /\ data_consumer = "running" /\ e \in Data /\ status[e] = "queued"
  /\ Cardinality(With(Data, InDataTask)) < Limit
  /\ status' = [status EXCEPT ![e] = "active"]
  /\ UNCHANGED <<ctx, deletes, tasks, index, reports, outcome>>

KeepsData(e) ==
  e \in Alive /\ Partition[e] \in PassPartitions /\ e \in PassMetrics

\* Mutation: an equality delete also applies to files of its own commit.
AppliesSameSequence(d, e) ==
  \/ /\ Kind[d] = "position" /\ Partition[d] = Partition[e]
     /\ SeqNum[d] >= SeqNum[e]
  \/ /\ Kind[d] = "equality" /\ Partition[d] \in {Unpartitioned, Partition[e]}
     /\ SeqNum[d] >= SeqNum[e]

\* The delete file d applies to the data file e.
Applies(d, e) ==
  \/ /\ Kind[d] = "position" /\ Partition[d] = Partition[e]
     /\ SeqNum[d] >= SeqNum[e]
  \/ /\ Kind[d] = "equality" /\ Partition[d] \in {Unpartitioned, Partition[e]}
     /\ SeqNum[d] > SeqNum[e]

\* PopulatedDeleteFileIndex::get_deletes_for_data_file, and the task built.
GetDeletes(e) ==
  /\ deletes' = [deletes EXCEPT ![e] = {d \in With(Deletes, {"indexed"}) : Applies(d, e)}]
  /\ status' = [status EXCEPT ![e] = "sending"]

\* process_data_manifest_entry up to the wait for the index: the state lock is
\* released before notified() is called, so on a thread of its own (native,
\* not on the event loop of wasm) the task may be overtaken in between.
process_data_manifest_entry(e) ==
  /\ e \in Data /\ status[e] = "active"
  /\ \/ /\ ~KeepsData(e) /\ status' = [status EXCEPT ![e] = "skipped"]
        /\ UNCHANGED deletes
     \/ KeepsData(e) /\ index # "populating" /\ GetDeletes(e)
     \/ /\ KeepsData(e) /\ index = "populating"
        /\ status' = [status EXCEPT ![e] = "looked"]
        /\ UNCHANGED deletes
  /\ UNCHANGED <<ctx, tasks, index, reports, outcome>>

\* notifier.notified() registers the task.
notified(e) ==
  /\ e \in Data /\ status[e] = "looked"
  /\ status' = [status EXCEPT ![e] = "waiting"]
  /\ UNCHANGED <<ctx, deletes, tasks, index, reports, outcome>>

\* The task is woken and reads the state again.
WokenLookup(e) ==
  /\ e \in Data /\ status[e] = "woken"
  /\ GetDeletes(e)
  /\ UNCHANGED <<ctx, tasks, index, reports, outcome>>

DataEntryFails(e) ==
  /\ e \in Data /\ status[e] = "active"
  /\ status' = Lost(e, Data)
  /\ data_consumer' = IF data_consumer = "running" THEN "failed" ELSE data_consumer
  /\ UNCHANGED <<ctx, deletes, producer, delete_consumer, index, reports, outcome>>

\* file_scan_task_tx.send(Ok(..)).await
SendTask(e) ==
  /\ e \in Data /\ status[e] = "sending"
  /\ Cardinality(With(Data, {"sent"})) + Cardinality(reports) < Limit
  /\ status' = [status EXCEPT ![e] = "sent"]
  /\ UNCHANGED <<ctx, deletes, tasks, index, reports, outcome>>

DataConsumerEnds ==
  /\ \/ /\ data_consumer = "running" /\ Closed(Data)
        /\ With(Data, {"queued", "parked"} \cup InDataTask) = {} /\ UNCHANGED reports
     \/ data_consumer = "failed" /\ Report("data")
  /\ data_consumer' = "ended"
  /\ UNCHANGED <<ctx, status, deletes, producer, delete_consumer, index, outcome>>

-----------------------------------------------------------------------------
(* The caller: plan_files().await?.try_collect().await?                     *)

Collect(e) ==
  /\ data_consumer # "off" /\ e \in Data /\ status[e] = "sent"
  /\ status' = [status EXCEPT ![e] = "collected"]
  /\ UNCHANGED <<ctx, deletes, tasks, index, reports, outcome>>

CollectError ==
  /\ data_consumer # "off" /\ reports # {}
  /\ outcome' = "err"
  /\ UNCHANGED <<ctx, status, deletes, tasks, index, reports>>

\* The stream ends when every sender, those of spawned tasks too, is dropped.
CollectEnd ==
  /\ producer = "ended" /\ delete_consumer = "ended" /\ data_consumer = "ended"
  /\ With(Data, InDataTask \cup {"sent"}) = {}
  /\ reports = {}
  /\ outcome' = "ok"
  /\ UNCHANGED <<ctx, status, deletes, tasks, index, reports>>

-----------------------------------------------------------------------------
Init ==
  /\ ctx = [m \in Manifests |-> "none"]
  /\ status = [e \in Entries |-> "unsent"]
  /\ deletes = [e \in Entries |-> {}]
  /\ producer = "off" /\ delete_consumer = "off" /\ data_consumer = "off"
  /\ index = "populating"
  /\ reports = {}
  /\ outcome = "pending"

ContextStep(m) == StartContext(m) \/ get_manifest(m) \/ get_manifest_fails(m)
                    \/ ContextDone(m)
EntryStep(e) ==
  \/ StreamEntry(e) \/ Unpark(e) \/ StreamEntryFails(e)
  \/ ReceiveDelete(e) \/ process_delete_manifest_entry(e) \/ DeleteEntryFails(e)
  \/ IndexReceives(e)
  \/ ReceiveData(e) \/ process_data_manifest_entry(e) \/ notified(e)
  \/ WokenLookup(e) \/ DataEntryFails(e) \/ SendTask(e) \/ Collect(e)
TaskStep ==
  \/ get_manifest_list_fails \/ build_manifest_file_contexts
  \/ ProducerEnds \/ DeleteConsumerEnds \/ Populate \/ NotifyWaiters
  \/ plan_files_returns \/ DataConsumerEnds \/ CollectError \/ CollectEnd

\* Nothing the tasks do after the caller has its answer can be observed.
Next ==
  /\ outcome = "pending"
  /\ \/ TaskStep
     \/ \E m \in Manifests : ContextStep(m)
     \/ \E e \in Entries : EntryStep(e)

Spec == Init /\ [][Next]_vars

\* The runtime polls a task that can go on, and a read of the object store
\* returns or fails; every behaviour is finite.
FairSpec == Spec /\ WF_vars(Next)

-----------------------------------------------------------------------------
(* Properties                                                               *)

TypeOK ==
  /\ ctx \in [Manifests -> CtxState]
  /\ status \in [Entries -> DeleteStatus \cup DataStatus]
  /\ \A e \in Deletes : status[e] \in DeleteStatus
  /\ \A e \in Data : status[e] \in DataStatus
  /\ deletes \in [Entries -> SUBSET Deletes]
  /\ producer \in TaskState /\ delete_consumer \in TaskState /\ data_consumer \in TaskState
  /\ index \in {"populating", "populated", "notified"}
  /\ reports \subseteq {"producer", "delete", "data"}
  /\ outcome \in {"pending", "ok", "err"}

\* The files a scan must read, and for each the delete files it must apply,
\* from the table alone.
Wanted == {e \in Data : KeepsData(e)}
Applicable(e) ==
  {d \in Deletes : /\ d \in Alive
                   /\ Kind[d] = "equality" => SeqNum[d] > SeqNum[e]
                   /\ Kind[d] = "position" => SeqNum[d] >= SeqNum[e]
                   /\ \/ Partition[d] = Partition[e]
                      \/ Kind[d] = "equality" /\ Partition[d] = Unpartitioned}

\* A plan that succeeds is exact: every matching live data file once and no
\* other, each with every delete file that applies to it, whatever the order
\* of the tasks and whatever failed and was reported on the way.
PlanExact ==
  outcome = "ok" =>
    /\ With(Data, {"collected"}) = Wanted
    /\ \A e \in Wanted : deletes[e] = Applicable(e)

\* What the comment in build_manifest_file_contexts (context.rs) promises:
\* delete manifests are processed first, which "avoids a deadlock": a plan
\* always ends, with its files or with an error.
PlanEnds == <>(outcome # "pending")

\* notify_waiters has run between a data task's look at the index and its
\* registration; on one event loop no step comes between those two.
Overtaken == \E e \in Data : status[e] = "looked" /\ index = "notified"

\* The delete consumer waits for room in the caller's channel, which nobody
\* reads before plan_files has joined it.
ReportStuck ==
  /\ delete_consumer = "failed" /\ data_consumer = "off"
  /\ Cardinality(reports) >= Limit

\* Those two are the only ways to a plan that hangs: delete manifests listed
\* after data manifests, a failed consumer, a full channel between two stages
\* or tasks that fill the caller's channel never block the tasks on each other.
EndsUnlessOvertaken == <>(outcome # "pending" \/ Overtaken \/ ReportStuck)

\* The plan as its caller sees it.
planned == IF outcome = "ok" THEN [e \in With(Data, {"collected"}) |-> deletes[e]]
                             ELSE <<>>
FilePlanSpec == INSTANCE FilePlan WITH
  Plan <- [e \in Wanted |-> Applicable(e)], planned <- planned, outcome <- outcome

\* The pipeline implements the atomic plan of module FilePlan.
ImplementsFilePlan == FilePlanSpec!Spec

-----------------------------------------------------------------------------
(* The inductive invariant behind PlanExact                                 *)

\* No failure so far, reported or on its way to the caller.
Healthy ==
  /\ reports = {} /\ producer # "failed"
  /\ delete_consumer # "failed" /\ data_consumer # "failed"

\* The tasks start in order.
TaskInv ==
  /\ producer = "off" <=> delete_consumer = "off"
  /\ data_consumer # "off" => delete_consumer = "ended"
  /\ data_consumer = "off" => \A e \in Data : status[e] \in {"unsent", "queued", "parked"}
  /\ outcome = "ok" =>
       /\ Healthy
       /\ producer = "ended" /\ data_consumer = "ended"
       /\ \A e \in Data : status[e] \notin InDataTask \cup {"sent"}

\* A context that has not started has sent nothing, one that is done all.
CtxInv ==
  \A m \in Manifests :
    /\ ctx[m] = "none" <=> producer = "off"
    /\ ctx[m] = "skipped" => ~ManifestPasses(m)
    /\ ctx[m] \in {"none", "skipped", "waiting", "fetching"} =>
         \A e \in EntriesOf(m) : status[e] = "unsent"
    /\ ctx[m] = "done" => \A e \in EntriesOf(m) : status[e] # "unsent"

\* Filters are applied once and never undone.
KeepInv ==
  /\ \A e \in Deletes :
       /\ status[e] \in {"indexing", "indexed"} => KeepsDelete(e)
       /\ status[e] = "skipped" => ~KeepsDelete(e)
  /\ \A e \in Data :
       /\ status[e] \in {"looked", "waiting", "woken", "sending", "sent", "collected"} =>
            KeepsData(e)
       /\ status[e] = "skipped" => ~KeepsData(e)
       /\ status[e] = "woken" => index # "populating"

\* Without a failure nothing is lost, and what has ended has ended complete.
HealthInv ==
  Healthy =>
    /\ \A e \in Entries : status[e] # "lost"
    /\ \A m \in Manifests : ctx[m] # "dropped"
    /\ producer = "ended" => \A m \in Manifests : ctx[m] \in {"done", "skipped"}
    /\ delete_consumer = "ended" =>
         Closed(Deletes) /\ \A e \in Deletes : status[e] \notin {"queued", "parked", "active"}
    /\ data_consumer = "ended" =>
         Closed(Data) /\ \A e \in Data : status[e] \notin {"queued", "parked"} \cup InDataTask
    /\ index # "populating" =>
         delete_consumer = "ended" /\ \A e \in Deletes : status[e] # "indexing"
    /\ \A e \in Data :
         status[e] \in {"sending", "sent", "collected"} => deletes[e] = Applicable(e)

\* The conjunction is inductive.
PlanInv == TypeOK /\ TaskInv /\ CtxInv /\ KeepInv /\ HealthInv
=============================================================================
