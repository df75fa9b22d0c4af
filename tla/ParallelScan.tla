---------------------------- MODULE ParallelScan ----------------------------
(***************************************************************************)
(* The parallel table scan: IcebergTableScan (patches/                     *)
(* iceberg-datafusion-0.9.1/src/physical_plan/scan.rs) and the grouping of *)
(* its files (file_groups.rs).                                             *)
(*                                                                         *)
(* The optimizer may raise the number of partitions; then each partition   *)
(* runs on its own task.  A partition resolves the dynamic join filter as  *)
(* it is at that moment, plans the files of the whole table, groups them   *)
(* and reads the group of its own index.  Nothing is shared between        *)
(* partitions: each sees the filter at its own time, and each receives the *)
(* planned files in the order the tasks of module ScanPlan sent them.      *)
(***************************************************************************)
EXTENDS Integers, Sequences, FiniteSetsExt, SequencesExt

CONSTANTS
  Files,             \* data files of the snapshot
  FileSizes,         \* sizes the files may have, a set of [Files -> Nat]
  Rows,              \* [Files -> Nat], rows of each file
  Levels,            \* 0 .. n, states of the dynamic filter, ever tighter
  Passes,            \* [Levels -> SUBSET Files], files each of them keeps
  MaxPartitions,     \* bound on target_partitions
  Limits,            \* limits of a scan, NoLimit included
  NoLimit,
  MinSizes,          \* values of repartition_file_min_size
  DefaultMinSize     \* DEFAULT_REPARTITION_FILE_MIN_SIZE

ASSUME LevelAssumption ==
  /\ 0 \in Levels /\ Levels \subseteq Nat
  /\ \A i \in Levels : Passes[i] \subseteq Files
  /\ \A i, j \in Levels : i <= j => Passes[j] \subseteq Passes[i]

ASSUME FilesAssumption ==
  /\ IsFiniteSet(Files) /\ FileSizes \subseteq [Files -> Nat] /\ Rows \in [Files -> Nat]
  /\ MaxPartitions \in Nat \ {0}
  /\ NoLimit \notin Nat /\ Limits \subseteq Nat \cup {NoLimit}
  /\ MinSizes \subseteq Nat /\ DefaultMinSize \in Nat

VARIABLES
  bytes,             \* size of each file
  min_size,          \* repartition_file_min_size of the session
  limit,             \* limit of the scan
  scan_partitions,   \* output partitions of the scan
  level,             \* state of the dynamic filter
  pc,                \* where each partition is
  seen,              \* filter level a partition resolved
  todo,              \* files of its group not yet read
  read,              \* files it has read
  remaining,         \* rows it may still return, with a limit
  emitted,           \* rows it has returned
  planned_file_count \* files of the first plan of partition 0, for EXPLAIN

table == <<bytes, min_size, limit>>
streams == <<pc, seen, todo, read, remaining, emitted>>
scan_vars == <<table, scan_partitions, level, streams, planned_file_count>>

Partitions == 0 .. MaxPartitions - 1
Active == 0 .. scan_partitions - 1
BytesOf(files) == MapThenSumSet(LAMBDA f : bytes[f], files)
RowsOf(files) == MapThenSumSet(LAMBDA f : Rows[f], files)

-----------------------------------------------------------------------------
(* file_groups.rs                                                           *)

\* Mutation: the files are taken in the order they were planned.
AsPlanned(tasks) == tasks

\* The tasks that sort_by_key, which is stable, puts before task i.
Before(tasks, i) ==
  {j \in DOMAIN tasks : \/ bytes[tasks[j]] > bytes[tasks[i]]
                        \/ bytes[tasks[j]] = bytes[tasks[i]] /\ j < i}

\* Files by descending size.
LargestFirst(tasks) ==
  [n \in DOMAIN tasks |->
     tasks[CHOOSE i \in DOMAIN tasks : Cardinality(Before(tasks, i)) = n - 1]]

\* Mutation: a file goes to the group with the fewest files.
FewestFiles(groups) ==
  CHOOSE p \in DOMAIN groups :
    \A q \in DOMAIN groups \ {p} :
      \/ Cardinality(groups[p]) < Cardinality(groups[q])
      \/ Cardinality(groups[p]) = Cardinality(groups[q]) /\ p < q

\* The first group with the fewest bytes (min_by_key).
Lightest(groups) ==
  CHOOSE p \in DOMAIN groups :
    \A q \in DOMAIN groups \ {p} :
      \/ BytesOf(groups[p]) < BytesOf(groups[q])
      \/ BytesOf(groups[p]) = BytesOf(groups[q]) /\ p < q

Assign(groups, f) == [groups EXCEPT ![Lightest(groups)] = @ \cup {f}]

NoFiles(target) == [p \in 0 .. target - 1 |-> {}]

\* The files of a sequence, each given to the group that is then the lightest.
Balanced(tasks, target) ==
  LET groups[n \in 0 .. Len(tasks)] ==
        IF n = 0 THEN NoFiles(target) ELSE Assign(groups[n - 1], tasks[n])
  IN groups[Len(tasks)]

\* The groups of a plan, in the order the files were planned.
partition_file_scan_tasks(tasks, target, min) ==
  IF target = 1 \/ BytesOf(ToSet(tasks)) < min
  THEN [NoFiles(target) EXCEPT ![0] = ToSet(tasks)]
  ELSE Balanced(LargestFirst(tasks), target)

-----------------------------------------------------------------------------
(* The optimizer                                                            *)

\* ExecutionPlan::repartitioned, with repartition_file_scans on.
repartitioned(target) ==
  /\ \A p \in Partitions : pc[p] = "planned"
  /\ target > 1 /\ scan_partitions < target
  /\ scan_partitions' = target
  /\ UNCHANGED <<table, level, streams, planned_file_count>>

-----------------------------------------------------------------------------
(* Execution                                                                *)

\* A hash join or a top-K sort above the scan tightens the dynamic filter.
TightenFilter ==
  /\ level + 1 \in Levels
  /\ level' = level + 1
  /\ UNCHANGED <<table, scan_partitions, streams, planned_file_count>>

\* First poll of the stream of execute: merge_iceberg_predicates resolves the
\* dynamic filter, which does not wait for it to settle.
execute(p) ==
  /\ p \in Active /\ pc[p] = "planned"
  /\ pc' = [pc EXCEPT ![p] = "planning"]
  /\ seen' = [seen EXCEPT ![p] = level]
  /\ remaining' = [remaining EXCEPT ![p] = limit]
  /\ UNCHANGED <<table, scan_partitions, level, todo, read, emitted, planned_file_count>>

MinFileSize == IF min_size = 0 THEN DefaultMinSize ELSE min_size

\* read_partition up to the reader: plan_files gives the files the predicate
\* keeps in any order (module FilePlan); the group of index p is taken.
read_partition(p) ==
  /\ pc[p] = "planning"
  /\ \E tasks \in SetToSeqs(Passes[seen[p]]) :
       /\ todo' = [todo EXCEPT ![p] =
            partition_file_scan_tasks(tasks, scan_partitions, MinFileSize)[p]]
       /\ planned_file_count' = IF p = 0 /\ planned_file_count = 0
                                THEN Len(tasks) ELSE planned_file_count
  /\ pc' = [pc EXCEPT ![p] = "reading"]
  /\ UNCHANGED <<table, scan_partitions, level, seen, read, remaining, emitted>>

\* Planning or reading fails: the partition's stream ends with the error.
Fail(p) ==
  /\ pc[p] \in {"planning", "reading"}
  /\ pc' = [pc EXCEPT ![p] = "failed"]
  /\ UNCHANGED <<table, scan_partitions, level, seen, todo, read, remaining, emitted,
                 planned_file_count>>

\* Mutation: the batch that reaches the limit is dropped, not sliced.
LimitedWholeBatches(p, n) ==
  IF limit = NoLimit THEN n ELSE IF n <= remaining[p] THEN n ELSE 0

\* Rows of a batch of n that pass the limit of the partition.
Limited(p, n) ==
  IF limit = NoLimit THEN n ELSE Min({n, remaining[p]})

\* What is left of the limit after a batch of n rows.
Left(p, n) == IF n <= remaining[p] THEN remaining[p] - n ELSE 0

\* The reader returns a file as a batch, which the limit may slice or drop.
ReadFile(p, f) ==
  /\ pc[p] = "reading" /\ f \in todo[p]
  /\ todo' = [todo EXCEPT ![p] = @ \ {f}]
  /\ read' = [read EXCEPT ![p] = @ \cup {f}]
  /\ emitted' = [emitted EXCEPT ![p] = @ + Limited(p, Rows[f])]
  /\ remaining' = IF limit = NoLimit THEN remaining
                  ELSE [remaining EXCEPT ![p] = Left(p, Rows[f])]
  /\ UNCHANGED <<table, scan_partitions, level, pc, seen, planned_file_count>>

Finish(p) ==
  /\ pc[p] = "reading" /\ todo[p] = {}
  /\ pc' = [pc EXCEPT ![p] = "done"]
  /\ UNCHANGED <<table, scan_partitions, level, seen, todo, read, remaining, emitted,
                 planned_file_count>>

-----------------------------------------------------------------------------
ScanInit ==
  /\ bytes \in FileSizes
  /\ min_size \in MinSizes
  /\ limit \in Limits
  /\ scan_partitions = 1
  /\ level = 0
  /\ pc = [p \in Partitions |-> "planned"]
  /\ seen = [p \in Partitions |-> 0]
  /\ todo = [p \in Partitions |-> {}]
  /\ read = [p \in Partitions |-> {}]
  /\ remaining = [p \in Partitions |-> NoLimit]
  /\ emitted = [p \in Partitions |-> 0]
  /\ planned_file_count = 0

ScanNext ==
  \/ \E target \in 1 .. MaxPartitions : repartitioned(target)
  \/ TightenFilter
  \/ \E p \in Partitions :
       \/ execute(p) \/ read_partition(p) \/ Fail(p) \/ Finish(p)
       \/ \E f \in Files : ReadFile(p, f)

ScanSpec == ScanInit /\ [][ScanNext]_scan_vars

-----------------------------------------------------------------------------
(* Properties                                                               *)

ScanDone == \A p \in Active : pc[p] = "done"
SameFilter == \A p, q \in Active : seen[p] = seen[q]
DistinctSizes == \A f, g \in Files : f # g => bytes[f] # bytes[g]
SmallScan == BytesOf(Passes[seen[0]]) < MinFileSize

\* When all partitions resolved the same filter and no two files have the same
\* size, or the scan is too small to be split, the partitions together read
\* every file of the plan, each exactly once, however the plans were ordered.
ReadsEachFileOnce ==
  ScanDone /\ SameFilter /\ (DistinctSizes \/ SmallScan) =>
    /\ UNION {read[p] : p \in Active} = Passes[seen[0]]
    /\ \A p, q \in Active : p # q => read[p] \cap read[q] = {}

\* The greedy grouping is balanced: without its smallest file, no group is
\* heavier than any other, so the split is never worse than one file.
GroupsBalanced ==
  (\A p \in Partitions : pc[p] = "planned") => \A tasks \in SetToSeqs(Passes[level]) :
    LET groups == partition_file_scan_tasks(tasks, scan_partitions, MinFileSize) IN
    BytesOf(ToSet(tasks)) >= MinFileSize =>
      \A p, q \in Active : \A f \in groups[p] :
        (\A g \in groups[p] : bytes[f] <= bytes[g]) =>
          BytesOf(groups[p] \ {f}) <= BytesOf(groups[q])

\* A limit is applied by each partition on its own: together they return
\* at least the rows asked for, when the files have them.
LimitReached ==
  ScanDone /\ limit # NoLimit /\ SameFilter /\ (DistinctSizes \/ SmallScan) =>
    MapThenSumSet(LAMBDA p : emitted[p], Active) >= Min({limit, RowsOf(Passes[seen[0]])})

\* What the module comment of scan.rs says: a scan "reads a disjoint file
\* subset per partition index" (scan.rs:24).
DisjointSubsets ==
  \A p, q \in Active : p # q => read[p] \cap read[q] = {}
=============================================================================
