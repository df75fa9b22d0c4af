# TLA+ models of iceberg-db

iceberg-db (`idb`) is a SQL engine for Apache Iceberg tables. It runs as a
native command line program and, compiled to WebAssembly, inside a browser tab.
It is DataFusion for SQL, a patched copy of the Apache Iceberg Rust crates for
tables, and its own crates for storage, caching, catalogs and sessions. This
directory holds TLA+ specifications of the parts of it that are concurrent, that
fail half-way, or that promise something across several steps, TLC
configurations that check them on small instances, and TLAPS proofs of the most
important invariants for every instance.

Paths below are relative to the repository (`src/`). `iceberg` stands for
`patches/iceberg-0.9.1/src` and `iceberg-df` for
`patches/iceberg-datafusion-0.9.1/src`.

## Inventory

A query goes through the system like this. The session resolves a table name
through a catalog provider, which loads the table's metadata with the storage of
its catalog. DataFusion plans the query; the optimizer rules push filters, join
keys and limits into `IcebergTableScan`. Each of its partitions plans the files
of the snapshot (manifest list, manifests, delete file index), keeps the group
of files with its own index, and reads them with the Arrow reader, which loads
delete files once for all data files. All bytes come through `CachingStorage`.
`INSERT` writes data files, and then one plan node commits them to the catalog
as one snapshot.

| Component | State | Operations | Hard behaviour | What makes it correct |
|---|---|---|---|---|
| Native byte cache (`crates/idb-catalog/src/byte_cache/mod.rs`, `caching_storage.rs`) | `.bin` and `.tmp` files, per-process index of ranges | `get`, `get_full_object`, `put`, read-through `read` | unlocked interleaving of threads and processes, failing writes, restarts | a read returns exactly the bytes asked for |
| Wasm byte cache (`MemoryByteCache`, cache globals) | ranges per path and fingerprint, total, process-wide fingerprint | `put` with eviction, lookups, `install_global_byte_cache` | limit, two caches in a row, a fingerprint that changes | total within the limit; a read gets its own bytes |
| File planning (`iceberg/scan`, `iceberg/delete_file_index.rs`) | bounded channels, delete index with a notification | `plan_files`, manifest and entry consumers, `get_deletes_for_data_file` | backpressure cycles, lost wakeups, one task of many failing, errors reported on a full channel | a successful plan is every live matching file with exactly its deletes; every plan ends |
| Delete loading (`iceberg/arrow/delete_filter.rs`, `caching_delete_file_loader.rs`, `reader.rs`) | state of each delete file, delete vectors, predicates | `load_deletes`, `try_start_*_load`, `finish_pos_del_load`, predicate lookup | tasks that share loads and wait for each other | each data file is read with all its deletes; each delete file is loaded once; nobody waits forever |
| Parallel scan (`iceberg-df/physical_plan/scan.rs`, `file_groups.rs`) | dynamic filters, one plan per partition | `execute`, filter resolution, grouping, limit | every partition plans by itself at its own time | files are read exactly once in all; limits reached |
| Predicate conversion and pushdown (`iceberg-df/physical_plan/*predicate*`) | none, pure | expression to predicate, `handle_child_pushdown_result` | partial conversion under NOT and AND | a pushed predicate keeps every row the filter keeps |
| Join rules and foreign-key bounds (`iceberg-df/physical_plan/join_reorder.rs`, `fk_bound_pushdown.rs`, `dim_key_bounds.rs`, `join_collect_left.rs`) | process-wide cache of constraints | swap, bound inference, pushdown to fact scans, broadcast | a cached constraint and a newer snapshot; every join type; whatever lies between join and scan | the rewritten join returns the rows of the join |
| Insert (`iceberg-df/physical_plan/write.rs`, `commit.rs`) and transactions (`iceberg/transaction`, `iceberg/catalog/memory`) | table metadata chain, catalog pointer | fast append, retry, `update_table`, `register_table`, `drop_table` | concurrent writers, failures between file write and pointer flip, names that share a metadata file | every committed append is in the table once |
| Wasm query session (`web-wasm/app.js`, `crates/idb-wasm`, `wasm_query_io.rs`) | global cancel flag and counters, page state | run, load tables, cancel, finish, connect | globals shared by overlapping queries and by a connect | the page shows the last query and its own numbers; every query ends |
| Wasm S3 storage (`wasm_s3_storage.rs`) | request semaphore | HEAD, GET by range | readers dropped while they wait for or hold a permit | never more requests than permits, no permit lost |
| Catalogs (REST, Hadoop, demo, path rewriting, Snowflake proxy) | tokens, credentials per table, version hint | open, load | refresh, stale hint | the table loaded is the current one |
| Session, catalog registration, config, CLI, bench | registered catalogs | register, resolve | little | names resolve to the table meant |
| Table metadata builder (`iceberg/spec/table_metadata_builder.rs`, `table_metadata.rs`, `partition.rs`, `sort.rs`) | schemas, specs, orders, snapshots, references, logs, counters, changes so far | `TableUpdate::apply`, `build`, `try_normalize` | long sequences of legal and refused updates, removals, -1 ids | ids keep their meaning; what is built can be read; the log is the history |
| Row pruning (`iceberg/scan`, `iceberg/expr/visitors`, `iceberg/spec/transform.rs`, `iceberg/arrow/reader.rs`) | the delete walk; otherwise pure | projection, inclusive evaluators, row group and page selection, delete walk, row filter | six levels that must agree on nulls, NaN, truncated bounds, missing columns | no matching row lost, no other returned |
| Task writer (`iceberg-df/task_writer.rs`, `iceberg/writer`) | open and closed partition writers | split, write, roll, close | partition order of a hash map | each row in one file of its partition |
| Avro, Puffin, views, metadata tables, Arrow schemas | none across calls | conversions | none | left to upstream tests |

## Modules

| Module | Models | Role |
|---|---|---|
| `FsByteCache` | native byte cache and caching storage | component |
| `FsByteCacheProofs` | | theorems |
| `FilePlan` | what planning promises, in one step | abstract specification |
| `ScanPlan` | file planning and the delete file index | component; implements `FilePlan` |
| `DeleteFilter` | delete loading of a scan | component |
| `DeleteFilterProofs` | | theorems |
| `ParallelScan` | partitions of a table scan | component |
| `AppendLog` | what a catalog promises to concurrent transactions | abstract specification |
| `TableCommit` | INSERT, transactions and the memory catalog | component; implements `AppendLog` |
| `TableCommitProofs` | | theorems |
| `TableDefinitions` | schemas, partition specs and sort orders of the metadata builder | component |
| `TableHistory` | snapshots, references, logs and row ids of the metadata builder | component |
| `TableMetadataProofs` | | theorems about both |
| `Expressions` | filters, what SQL means by them, their conversion and evaluation | operators |
| `Projection` | partition transforms and the inclusive projection, checked through `ReadPath` | operators |
| `Pruning` | the inclusive evaluators of manifests, files, row groups and pages | operators |
| `TaskWriter` | split, partitioning and rolling writers, file metrics | component |
| `ReadPath` | a query on the files `TaskWriter` wrote | composes the four above |
| `ReadPathProofs` | | theorems about `TaskWriter` and `ReadPath` |
| `WasmQuery` | the browser page, its queries, S3 requests and memory cache | component |
| `WasmQueryProofs` | | theorems |
| `FkBounds` | the join rules and their cache | component |
| `QueryPlanProofs` | | theorems about `ScanPlan`, `ParallelScan` and `FkBounds` |
| `SumTheorems` | what a sum over a finite set is | lemmas of the other proofs |
| `MC*` | instances of the above for TLC | model checking |

The components are chained by what each hands to the next: `ScanPlan` delivers
tasks in the order its concurrent consumers finish, which is the arbitrary order
`ParallelScan` gives every partition; the deletes attached to a task by
`ScanPlan` are `DeletesOf` of `DeleteFilter`; the reads of all of them are the
reads of `FsByteCache`. A file is the unit at each of those boundaries, so they
are checked separately and the products of their state spaces are not needed.
Inside a file the unit is the row: `ReadPath` extends `TaskWriter`, so the
statistics a query is pruned by are those the writer has computed.

### FsByteCache

Readers (async tasks on threads of one or more processes) share a cache
directory. Objects are immutable, so a byte string is the interval of an object
it was cut from (`BytesType`), and offsets and lengths stay exact. A cache file
is missing, `torn` (some but not all of the bytes, what `File::create` and an
unfinished write leave) or `full`.

| Action | Code |
|---|---|
| `read_range`, `read_whole` | `CachingFileRead::read`, `CachingStorage::read` entered |
| `get_full_object`, `metadata` | a whole-file read: the index first, then the size that names the file |
| `get`, `get_range` | `FsByteCache::get`: the file of the exact range, then the index of ranges |
| `fetch` | the wrapped storage, which may fail |
| `PutOpen`, `PutWrite`, `PutWriteFails`, `PutRename`, `PutInsert` | `put`: `File::create` and truncation of `<hash>.tmp`, write, rename, index |
| `Restart` | a process dies at any point; its index is lost, the files stay |

`tmpFds` and `binFds` follow open file descriptors through renames, since the
write of one put lands in the file another put has already renamed.
`overlapped` and `faulted` are history variables used by properties only.
`SplitAssumption` states how the storage is used: metadata files are read
whole, Parquet files by ranges.

### ScanPlan and FilePlan

One `plan_files` call. The manifest list gives a set of manifests, data and
delete; `build_manifest_file_contexts` drops the ones a predicate prunes and
puts delete manifests first. The producer (`StartContext` to `ProducerEnds`),
the consumers of the two entry channels, the task that fills the delete file
index and one task per entry are processes; at most `Limit` contexts and entry
tasks run at a time and a channel holds at most `Limit` entries, one
`concurrency_limit` for all of them as in the code. A sender that finds its
channel full is parked with its entry (`StreamEntry`, `Unpark`), and so is a task
that has an error to report: `Report` puts it on the caller's channel, next to the
planned tasks, and that channel is first read when `plan_files` has joined the
delete consumer and returned. The index is `populating`,
`populated` or `notified`, and its `Notify` wakes only tasks that are already
registered: `process_data_manifest_entry` looks at the index, and registering
(`notified`) is a step of its own, since the code drops its lock between them.
On native threads anything may run in between; on the browser's event loop
nothing does, so its behaviours are among the modelled ones. Every I/O step may
fail. Predicates are abstracted to the partitions and files they keep, and the
deletes of a data file follow the sequence number and partition rules of
`PopulatedDeleteFileIndex::get_deletes_for_data_file`.

`FilePlan` is the promise: from nothing to the exact plan, or to a failure, in
one step. The mapping of `ScanPlan` is the planned result once the caller has
it.

### DeleteFilter

The tasks of one scan, up to `Limit` at a time, run
`process_file_scan_task`: they load their delete files through
`CachingDeleteFileLoader::load_deletes`, whose loads share the `DeleteFilter`.
The first task that asks for a delete file loads it; the others find it loading
and wait (positional) or go on and wait later for the predicate (equality). The
content of a delete file is the set of data files it refers to (`Refs`). A
failed load leaves the file `loading` forever, as the code does.

### ParallelScan

`Partitions` of one `IcebergTableScan` each resolve the dynamic filters when
first polled, plan the files (any order of the files the resolved filter keeps),
sort them by size with a stable sort, hand them out to the lightest group and
keep the group of their index. Filters only tighten. The per-partition limit and
the number of partitions are the code's arithmetic.

### TableCommit and AppendLog

Transactions (`Appenders` are INSERTs, `Setters` property updates) on the tables
of a namespace, against other users of the catalog that create, register, rename
and drop tables. A metadata file is never overwritten and no two hold the same
metadata, so a location is modelled by what is written there: the catalog gives a
name its location, and `files` says which of the files exist. Several names may
have one location (`register_table` asks only whether the name is free), and
`drop_table` deletes the file under all of them; a name whose file is gone cannot
be loaded. `create_table` writes its file before it finds out
that the name is taken.

| Action | Code |
|---|---|
| `create_table`, `register_table`, `drop_table`, `rename_table` | the same methods of `MemoryCatalog`, each under its lock |
| `insert_into`, `update_table_properties` | the transaction gets its table |
| `do_commit` | `Transaction::do_commit` up to the catalog: refresh, `validate_duplicate_files`, `SnapshotProducer::commit` |
| `update_table` | `MemoryCatalog::update_table`: load, `TableCommit::apply`, write, pointer |
| `CommitConflicts` | a requirement failed: retry, or give up |
| `UpdateFails`, `Fails` | every other error, and a query dropped at an await |

The base of a transaction is what it loaded last; `NewSnapshot` is built from it
and `Applied` puts it on the table the catalog loads, which is the difference all
of its properties are about. The requirements of an append are the uuid and the
current snapshot of the base; a property update has none. `AppendLog` says what
this comes to: an append or update happens in one step in which it succeeds, on
whatever table the name has then. That the table may be a different one from the
one the INSERT was planned for (dropped and created again, or renamed over) is
what the code does: every attempt refreshes by name and takes the uuid it
requires from the refreshed table. `Drop` of `AppendLog` may break other names of
the same table, and a table may be broken from its registration on; an append to
one fails. `InsertOp` is ignored by `insert_into`, so an
INSERT OVERWRITE is an append as well.

### TableDefinitions and TableHistory

The two halves of `TableMetadataBuilder`. A builder is made from the table's
metadata, receives the updates of one commit through `TableUpdate::apply`, and
either builds the next metadata or is dropped at the first error. One action per
variant of `TableUpdate`; each has the code's reuse of an equal definition, its
errors and its early returns. `asked` remembers what was last passed to an
`add_*`, which is what the id -1 should stand for. A partition field has an id of
its caller's or none; `Lent` gives a field without one the id of an equivalent old
field, and `SetFieldIds` counts on for the rest, up to `MaxFieldId` (`i32::MAX`).
`disputed` remembers which fields a caller numbered against the table.

`TableHistory` has the snapshots with their sequence numbers, times, parents and
row ids, the references, the snapshot log and the metadata log. The log is a set
of entries numbered by their push. `Normalizes` is `try_normalize`, which `build`
runs before it adds the entry of the previous metadata file, and which every
later load runs on the result. `published` remembers which entries were current
in a table some reader could load. The two halves read nothing of each other, so
an instance follows one of them at a time. Location, properties, statistics and
encryption keys are maps without rules and are left out.

### TaskWriter and ReadPath

`TaskWriter` is one task of an INSERT: a batch of rows is split by partition value
(`Split`; the groups come in any order, as from the code's hash map) and given to
the unpartitioned, fanout or clustered writer. A closed file has row groups, pages
and metrics, with strings truncated in statistics and NaN counted apart.

`ReadPath` follows one scan task over one of those files, or over a file written
before the column was added: `PlanFile` (manifest summary, partition value, file
metrics), `SelectRowGroups`, `WalkDeletes` (`build_deletes_row_selection`, one row
group a step), `ReadRows` (page selection and row filter). Every level evaluates
the same converted filter with its own evaluator, an operator of `Pruning`,
`Projection` or `Expressions` that mirrors the visitor of that name. A cell is an
integer: a number, a timestamp in ticks, or the rank of a string in byte order,
with lengths in characters and in bytes and the cut of a string as constants. A
condition may be written plainly, with a cast around the column, or in a form
Iceberg has no operator for; a filter is a condition, an AND or OR of two, or NOT
of one of these. The conversion keeps half of an AND and negates what is left under
a NOT (`Converted`), and `Rewritten` is `rewrite_not`. The reference is
`Satisfies`, what SQL says of the row.

### WasmQuery

Everything runs on one browser thread, so an action is what happens between two
awaits.

| Action | Code |
|---|---|
| `RunQuery`, `CancelQuery`, `UiTimeout`, `Finish` | `runQuery` and `cancelQuery` of `app.js`; `reset_query_state` |
| `Reconnect`, `ConnectAnswer`, `ConnectFails` | `initEngine`: a second `store_session` is refused after the fingerprint has been replaced, a token fetched and the tables listed |
| `LoadAnswer`, `LoadFails` | `load_table_provider`: the tables of a query, from the REST catalog |
| `BeginRead`, `HitOuter`, `HitInner` | `CachingStorage` and inside it `WasmS3Storage`, each with its own lookup |
| `Enqueue`, `Acquire` | `signed_request` and the semaphore, which is first come first served |
| `HeadAnswer`, `GetAnswer`, `RequestFails`, `OrphanAnswer` | what the browser answers, also to a reader that is gone |
| `EndQuery`, `EndTask` | `run_query` after `session.query`; a spawned task that outlives its query |

A dropped reader leaves the queue or gives its permit back, and the request it
had sent goes on in the browser (`orphans`). Reads in spawned tasks (manifests,
delete files) go on when their query has failed. The body of every answer, of S3
and of the catalog, is added to one counter (`from_response`), also those of a
connect beside a running query. `own`, `mixed` and `quit` are history variables.

### FkBounds

Planners (queries planned at the same time) take a query through
`IcebergJoinReorder`, `IcebergFkBoundPushdown` and `IcebergCollectLeft`, while
inserts commit new snapshots of the dimension. A query fixes the join type, the
side of the fact table, the dimension's filter, what lies between the join and
the fact scan, what the key's name denotes, and which column of the dimension has
the fact key's name (`twin`). `apply_predicate_to_fact_scans` descends through
every node, so `Between` has the kinds that matter: nothing, a projection that
renames, a self join, ORDER BY with LIMIT, a window, GROUP BY with a computed key
and GROUP BY the key. A plan keeps the rewritten join; `Result` evaluates it on
the rows of the snapshot the query was resolved to. The swap of `CollectLeft`
never happens in the model: `Begin`, which is `join_reorder`, swaps under the
same condition before.
`ReadKeys` is a step of its own: the code reads the keys with the lock released.

## Runs

| Run | Instance | Checked | What it shows |
|---|---|---|---|
| `fs_cache` | 2 tasks of a process, two overlapping ranges, an empty file | `TornOnlyAfterOverlap`, `IndexExact`, `ReadExactOrOverlap`, `TornHeals` | slices of a larger range are cut at the right offset; only fetched bytes enter the index; without overlapping puts a read is exact or an error; a torn file heals unless a fault cut the writer off |
| `plan_exact` | 4 manifests, 6 entries, limits 1 and 2, all failures | `PlanExact`, `EndsAtEachLimit`, `ImplementsFilePlan` | a plan that succeeds is exact; only the lost wakeup or a stuck error report keeps one from ending |
| `plan_native` | the same, limit 2 | `PlanEnds`: violated | the lost wakeup |
| `delete_filter_exact` | 2 data files, 2 positional and 1 equality delete | `DeletesApplied`, `LoadsOnce`, `PredicatePresent`, `EndsUnlessOvertaken` | shared loads reach every data file; only the lost wakeup keeps a scan from ending |
| `scan_groups` | 3 files of all sizes up to 3, 2 partitions, limits, a filter that tightens | `ReadsEachFileOnce`, `GroupsBalanced`, `LimitReached` | with distinct sizes and one filter, any plan order gives the same groups |
| `scan_ties` | the same files and filter, no limit | `DisjointSubsets`: violated | equal sizes in different orders |
| `table_commit` | 3 appends, two of one file, a property update, 2 names, 2 tables created, 1 external, 1 retry | `TypeOK`, `EachFileOnce`, `LinearHistory`, `ImplementsAppendLog` | commits are atomic, retries, shared locations and drops included, and an update without requirements undoes no append |
| `table_metadata` | 4 updates over 3 commits; 5 schemas, 7 specs with and without ids, 3 orders; 2 snapshots, 2 references, 2 times | `DefinitionsTypeOK`, `LastAddedAsAsked`, `BuiltUsable`, `PartitionFieldIds`, `DefinitionsKept`, `HistoryTypeOK`, `LogIsHistory`, `ReadsBack`, `RowIdsDisjoint` | any sequence of updates leaves ids, log and row ids meaning what they meant, and a table that loads |
| `read_path` | 22 tables: strings, numbers, floats and times, every transform, every writer, AND, OR and NOT, deletes of all subsets of 5 rows | `EachRowOnce`, `RefusesAcrossBatches`, `NoRowLost`, `OnlyMatching`, `DeletesRespected` | write and read agree, but for the cases the invariants name |
| `read_unfiltered` | one table, filters with a part Iceberg has no operator for | `PushedDownApplied`: violated | a filter reported as handled is not applied |
| `wasm_query` | 2 queries and a cancel, 1 permit, a cache of 2 bytes for objects of 3 and 2, 2 fingerprints, a connect with a request | `TypeOK`, `ShownIsCurrent`, `CacheBounded`, `BytesAsAsked`, `StatsOwn`, `Settles` | overlapping, cancelled and failed queries do not disturb page, cache or semaphore |
| `join_bounds` | 3 queries by 2 planners, 3 snapshots; all join types, both sides, eight kinds of nodes below the join, lists, ranges and too many keys | `ResultKept`, `BroadcastsDimension` | when a bound changes the result, and that nothing else of what is modelled does |

`read_path` and `join_bounds` state their exceptions by name, one definition per
case (`NanBlind`, `CastStripped`, `DefaultInvisible`, `OutsideBounds`,
`ShortPrefix`, `DayMisplaced`, `HalfNegated`, `MayBeExtra`; `KeepsFactRows`,
`NullsMatch`, `Misnamed`, `Recomputed`, `Stale`, `LosesDimRows`). Each is needed: without it TLC finds a
counterexample in the run. They are described under known deviations.

### Bounds

- `FsByteCache`: two readers give every overlap of two puts, and either may read
  the torn file afterwards; a range, a part of it and an empty object give every
  case of `slice_cached_range`. Nothing is counted, so no bound cuts behaviours.
  Several processes differ from one only in who shares an index, which the proofs
  cover for all.
- `ScanPlan`: two data and two delete manifests give both orders of manifests,
  a pruned manifest, a dead entry, all three kinds, an equality delete of the
  same and of a later sequence number, and channels at their limit. The
  plans of `plan_exact` have a limit of 1 or of 2 (`MCScanPlanLimits`): the code's is
  the number of CPUs, 1 where that is not known on native targets and 6 in the browser
  (`utils.rs:22`), and its own deadlock test sets it to 1 (`scan/mod.rs:2132`).
- `DeleteFilter`: two tasks are the first and the later one of every shared load.
- `ParallelScan`: three files and two partitions are the smallest case in which
  the greedy grouping can differ from any other; sizes run over all orders and
  ties.
- `TableCommit`: `MaxTables` bounds creations, two of them being a table that is
  dropped and made again; `MaxRetries` is the code's setting, 1 instead of 4;
  three appends give a parent, a child and a conflicting sibling. The two appends
  of one file are interchangeable, hence the symmetry; the properties of that run
  are safety properties. `WorkBound` keeps transactions begun and tables created
  together at four: any three transactions on one table, or two of them while the
  table is dropped and made again.
- `TableDefinitions`, `TableHistory`: four updates are an addition, its use, a
  removal and a second addition under the id that is free again; three commits let
  a later builder start from what an earlier one left. `MaxFieldId` is 1002 instead
  of `i32::MAX`, so that the counter of field ids, which starts at 999, overflows;
  the specs' own ids lie below, among and above those it gives out. Snapshot ids are
  interchangeable, hence the symmetry. Two row ids and two ticks reach the limit
  of the counter and every order of two times within and beyond the tolerance.
- `ReadPath`: files of two to five rows in row groups of two and pages of one have
  selected and skipped row groups before, between and after deletes. Literals lie
  on, next to and between the cells and the boundaries of each transform, on both
  sides of zero. A day has two seconds of three ticks, so that fractions, seconds,
  hours, days, months and years are all told apart by few values.
- `WasmQuery`: one permit makes every request wait for another; the cache holds one
  of the two objects, and one range is larger than it. An answer of the catalog is
  one byte long, which is enough to tell whose counter it was added to.
- `FkBounds`: `MaxInList` and `MaxDimRows` are small enough to be reached by an
  insert; three queries are one that fills the cache, one that reads it and one
  planned beside them.

### Fairness

`ScanPlan` and `DeleteFilter` have finite behaviours (a status only moves
forward), and `WF_vars(Next)` says only that the scan does not stop while some
step is possible: the runtime polls runnable tasks and a read returns or fails.
Nothing is assumed about which task runs. `FsByteCache` assumes that a started
write of a live process ends, with success or an error; readers may stop
anywhere else. `WasmQuery` assumes that tasks that can run are run, that the
semaphore hands a free permit to the first in its queue, and that the browser
answers a request or gives it up, as `fetch` does; one weak fairness condition on
`EngineStep` says so, since every query has finitely many such steps. The user need
not do anything. The other modules are checked for safety only.

A run with deadlock checking turned off ends in a state in which the system is
done (`outcome` or every partition decided); whether it can stop before that is
what the liveness properties say.

## Findings

Each is a run that expects a violation.

1. **Plan that never ends** (`delete_file_index.rs:100`, run `plan_native`). A task
   that has seen the index populating and registers after `notify_waiters` waits
   forever, and `plan_files` with it.
2. **Files read twice or never** (`iceberg-df/physical_plan/scan.rs:471`, run
   `scan_ties`). Partitions plan on their own and break ties of size by arrival order.
3. **Filters that are not applied** (`iceberg-df/physical_plan/scan.rs:326`, run
   `read_unfiltered`). The scan reports every filter on its columns as handled, and
   the conversion then drops what Iceberg has no operator for.

## Known deviations

What the models show the code to do, and which the passing properties therefore
state as their exceptions or leave to the caller.

Storage and reading:

- All puts of a cache key write `<hash>.tmp`; one can rename the file another has
  just truncated, and `get` does not compare lengths (`byte_cache/mod.rs:360`,
  against the comment at line 111). The overlap is the hypothesis of
  `ReadExactOrOverlap`.
- An equality delete's waiter can miss its wakeup, as in finding 1
  (`delete_filter.rs:167`); `insert_equality_delete` (line 237) also replaces the
  `Notify` that waiters may hold, against the comment in
  `caching_delete_file_loader.rs:102`. This is `EndsUnlessOvertaken` of
  `DeleteFilter`.

Scans:

- The delete consumer reports its error on the caller's channel (`scan/mod.rs:402`),
  and `plan_files` joins it before it returns the receiver (line 408). With a limit of
  1 and an error of the producer already in the channel (line 380), both wait forever.
  This is `ReportStuck`, next to the lost wakeup (`Overtaken`) an exception of
  `EndsAtEachLimit`; without it the run fails at limit 1.
- Partitions resolve a dynamic filter when they are first polled (`scan.rs:376`); when
  it tightens in between they group different lists of files, and a file is read twice
  or by none. `ReadsEachFileOnce` excludes this and finding 2 by its hypotheses
  (`SameFilter`, `DistinctSizes`).

Rows lost or kept by pruning (the exceptions of `NoRowLost` and `OnlyMatching`):

- A NaN is in no statistic; as row filters, `NOT isnan` is constant false and
  `isnan` constant true (`NanBlind`).
- A cast around a column is removed in the logical conversion (`CastStripped`).
- On a column the file lacks, the row filter sees null instead of the column's
  default (`DefaultInvisible`), and takes `<`, `<=`, NOT IN, NOT LIKE and
  `NOT isnan` for true (`MayBeExtra`).
- `MinMaxColAggregator` skips row groups whose bounds are inexact, so the file's
  bounds may not cover them (`OutsideBounds`).
- NOT negates what the conversion has left of an AND, so NOT (a AND b) with a b that
  is not converted becomes NOT a, and rows that fail b only are lost
  (`expr_to_predicate.rs:86` and 250, `physical_expr_to_predicate.rs:162`,
  `HalfNegated`). DataFusion's simplifier usually has applied De Morgan's law before
  a filter gets here; nothing in this code asks for it.
- The projection of a prefix onto `truncate` compares its bytes with a width in
  characters (`transform.rs:463`, `ShortPrefix`).
- `day` of a fraction of the last second of a day before 1970 is the day after
  (`DayMisplaced`).
- The clustered writer refuses an input whose partitions come back in a later
  batch. Within a batch the splitter groups rows, but in the order of a hash map, so
  the last partition of one batch need not be the first of the next even when the
  input is sorted, and the insert then fails with "The input is not sorted!". It
  fails and writes nothing wrong, which is `RefusesAcrossBatches`.

Metadata:

- `register_table` accepts a location that another name has (as the repository's own
  test does), and dropping one of the names deletes the file under the other, which
  then cannot be loaded (`memory/catalog.rs:324`). A name registered at a location
  that cannot be read stays taken (line 361). Both are states of `AppendLog`.
- `SnapshotProducer::summary` looks the previous snapshot up by the id of the new one,
  which is not in the table yet (`transaction/snapshot.rs:385`), so the totals of a
  summary are those of its own append, while `scan_statistics.rs:31` reads them as
  cumulative. Summaries are not modelled.
- A partition field id that the caller supplies is compared with the ids of its own
  spec only (`table_metadata_builder.rs:905`, `partition.rs:544`), so one id can stand
  for two fields, while the comment at `partition.rs:247` says that in v2 it is unique
  across all specs. `PartitionFieldIds` excludes the fields a caller has numbered
  against the table (`disputed`).
- `build` adds the entry of the previous metadata file after its checks
  (`table_metadata.rs:482` promises normalized metadata); `ReadsBack` shows that the
  checks of `add_snapshot` make up for it.
- When the definition with the highest id is removed its id is given out again; a
  `first_row_id` above `next_row_id` is accepted; a snapshot without a parent may
  lower `last_sequence_number`. The instances send what writers read from the table.

Browser:

- Ctrl+Enter does not ask whether a query is running. Starting a query clears the
  cancel flag, which revives a cancelled query still in flight; its result is not
  shown, but its requests go on and are counted with the next query's (`mixed`
  in `StatsOwn`). So are the answers to a connect that runs beside a query.
- A second connect leaves the page unready until it is reloaded. Objects are cached
  twice, under the fingerprint of the storage and under the one of the moment.
- A path read both as a whole and by range would get a prefix as the whole
  (`WantsAssumption`).

Joins (the exceptions of `ResultKept`):

- The bound is pushed whatever the join type, so joins that return unmatched fact
  rows lose them (`KeepsFactRows`), and a large dimension loses rows without a key
  (`LosesDimRows`).
- Joins in which null equals null lose the null keys (`NullsMatch`).
- Columns are found by name, which may denote another column of another scan, or of
  a large dimension itself (`Misnamed`); a key under an alias fails the query.
- The bound goes down through every node between the join and the fact scan
  (`fk_bound_pushdown.rs:191`). ORDER BY with LIMIT then takes other rows, and windows
  and aggregates over several keys compute something else (`Recomputed`); GROUP BY
  the key itself is safe.
- The key of the bound cache has the snapshot that was asked for, which is none for
  the current one, although the comment says it has the snapshot
  (`dim_key_bounds.rs:55` and 72): after an insert the old bound is used, and refuses
  the new key (`Stale`).
- A fact scan that has received a bound is not taken for a fact table any more, so
  its join is not made CollectLeft.

## Proofs

The modules named `*Proofs` hold TLAPS proofs for every value of the constants that
satisfies the assumptions named in the component's module. Each goes the same
way: the property is not inductive by itself, so an invariant strengthens it
(`CacheInv`, `PlanInv`, `FilterInv`, `CommitInv`, `DefInv`, `HistInv`, `WriterInv`,
`ReadInv`, `PageInv`, `ScanInv`, `FkInv`); one lemma per action shows that the action preserves it, `Next` is put
together from them, and the theorems follow.

- `CacheInvariant`: `CacheInv` adds to the properties that a reader fetches only
  keys in use, that descriptors belong to puts in progress (`FdsInv`), that a
  temporary file is complete when its only writer is about to rename it
  (`TmpInv`) and that a key never overlapped has at most one put (`SolePutInv`).
  From it `IndexAlwaysExact`, `TornFilesOverlapped` and `ReadsExact`. Assumed:
  ranges lie inside their objects, and no object is read both whole and by range.
- `PlanInvariant`: `PlanInv` adds where an entry can be for each state of its
  task and manifest, and that as long as nothing has failed no entry is lost
  (`HealthInv`): an error stays visible as a failed task or as a report in the
  caller's channel; in particular, when the index is populated it has every
  delete that matters. From it `PlansExact` and the refinement `PlanRefinement`.
  Assumed: a manifest holds only data or only delete files.
- `FilterInvariant`: `FilterInv` relates what a loader knows of a delete file to
  the shared state (`PosInv`, `EqInv`), counts loads (`LoadInv`) and says what is
  merged at each stage. From it `DeletesAreApplied`, `DeleteFilesLoadedOnce` and
  `PredicatesPresent`. Assumed: a positional delete refers only to data files it
  is planned with.
- `CommitInvariant`: `CommitInv` speaks of all tables that are loaded, in the
  catalog, in a file or as some transaction's base: an id is the same snapshot in all of
  them and that of a transaction occurs only after its success (`IdInv`), a property or the uuid of a table only
  once it was set or created, so that a file that is written is a new one
  (`FreshInv`), every
  one is a line of snapshots without a file twice (`TableInv`), and a base has
  passed the duplicate check (`BaseInv`). The key step is `BaseIsCurrent`: when the
  requirements hold, base and table have the same current snapshot, hence the
  same manifests, although the table may have other properties by then. From it
  `FilesCommittedOnce`, `HistoryLinear` and the refinement `CommitsAtomic`.
  Assumed: ids of snapshots are unique (in the code random 63-bit numbers), and
  external tables keep the rules of the format.
- `DefInvariant`: `DefInv` adds to the properties that the maps of definitions are
  finite and keyed by numbers, so that one past the highest key is free
  (`NextIdFree`), that the default spec is a copy of the one under its id, that
  order 0 is the unsorted one, and that metadata just built fits (`DefinitionsFit`).
  The key step is `CreateSpecInv`: a new field has its caller's id, that of an
  equivalent old one (`LentFacts`) or one above all there are (`BoundFacts`), no two
  fields of the spec have the same (`BoundIdsUnique`), and against the old specs an
  id is shared exactly by equivalent fields unless the caller's contradicts them
  (`BoundAgainstOld`). From it `FieldIdsIdentify`, `LastAddedMeansAsked`,
  `BuiltIsUsable`, `DefinitionsTypeCorrect` and the action property
  `DefinitionsNeverChange`. Assumed: a schema is finite and has no two columns of
  one id or name.
- `HistoryType`, `LogIsAlwaysHistory`, `RowIdsAlwaysDisjoint`: `HistInv` says what
  holds while a commit is half applied: the log ends at the current snapshot after
  every update, an entry without its snapshot means that a removal was recorded
  (`LogShape`), what earlier commits published is in the log from its first entry
  on, and the entries of this commit's own snapshots are told from it (`LogPast`);
  before v3 no snapshot has row ids (`RowInv`).
- `AlwaysReadsBack`: the times need more (`TimeInv`): nothing is later than the
  clock and the skew of the writers, and the last update is not before the last
  log entry by more than the tolerance. The premise is `Skew <= Tolerance`, the
  clocks of two writers differ by no more than the minute that `try_normalize`
  allows; with a larger skew TLC finds a table that cannot be read back.
- `WritesEachRowOnce`: rows are known by their number in the input. `WriterInv` says
  that those taken so far (`GroupsOK`, `WritersOK`) are each in one place of the
  closed files, of an open writer or of the groups `split` made of the current
  batch (`NothingLost`), in files of their partition and in input order. The lemmas
  are about the operators: what sorting a set of row numbers (`InOrderIs`), cutting
  a sequence into pieces and joining pieces compute. Assumed: positive sizes
  (`SizesAssumption`) and the three kinds of writers (`TablesAssumption`).
- `RefusesOnlyAcrossBatches`: `RefuseInv` adds that a partition that was given a
  writer has a row in an earlier batch than any group of it still to be written,
  so a group that is refused was split over two batches.
- `NeverReturnsDeleted`: in `ReadInv` the walk holds exactly the deletes from its
  base on (`WalkOK`, `Ahead`), also when row groups were skipped; `Answer` says which
  rows the result then has (`Returned`): those of a file that was planned, in a
  selected group and page, not deleted and passing the row filter.
- `ReturnsOnlyMatching`: follows from `Answer` and from what the row filter computes
  for each operator, on a file that has the column and on an older one.
- `LosesNoRow`: a row that matches is `Returned`. `Covers` says that statistics
  admit a cell: every kind of statistics admits the cells it is made of
  (`StatisticsCover`, and for a file, whose bounds leave out truncated ones,
  `MetricsCover`), and no evaluator refuses statistics that admit a match
  (`FileSound`, `RowGroupSound`, `PageSound`, `ManifestSound`). A transform keeps
  order (`TransformOrder`) and prefixes (`TruncatedPrefix`, `TruncatedOther`), so what
  `project` makes of a condition holds of the row's partition value
  (`ProjectSound`), and what is converted of a filter is weaker than the filter
  (`ConversionWeakens`) unless it is half of an AND under a NOT (`HalvesLeft`;
  `NegateFacts` is about the rewritten NOT). `ChosenInv` ties file and filter to the table. Assumed: cutting a
  string keeps order and cuts of cuts are cuts (`StringsAssumption`); a column has a
  transform of its type and partition values its type has room for
  (`TablesAssumption`); a filter is one SQL accepts, with literals that have a
  predecessor and a successor in their type (`FiltersAssumption`). The exceptions are
  those of `MayBeLost` and `HalfNegated`, each a case that TLC finds when it is taken out.
- `PageShowsCurrent`: `PageInv` adds that tokens are drawn in order, that a
  cancelled query is behind the active one and that a result on the page is the
  active query's.
- `ReadsGetTheirBytes`: `ReadsInv` adds what each cache holds under a key
  (`CacheOK`). Assumed: a path is read by range or as a whole, never both
  (`WantsAssumption`), which is how the code uses its files.
- `StatsAreOwn`: `OwnInv` adds that the global counters are those of the one query
  that runs alone, answers of the catalog included (`CatalogOwn`). `PermitsAlwaysKept`: a permit belongs to exactly one request in
  flight.
- `QueueMatchesReads`: `QueueInv` says that the queue of the semaphore holds the reads
  whose state is to wait (`WaitSet`), each once: a read that is granted its permit or
  dropped leaves one place and no more. The lemmas are about queues: their members
  after one is added, taken or after several give up (`AppendIs`, `TailIs`, `LeaveIs`).
- `CacheStaysBounded`: `BoundInv` adds that the cache is finite. `PutBounded` is the
  step: whichever paths `evict_if_needed` removes, what is left and the new chunk fit,
  or nothing is left and the chunk is alone. It rests on what the sums of the model
  are: a sum loses a member's number with the member (`SumFacts`) and depends on the
  numbers only (`SumAgrees`), so a chunk adds its length at most (`WeightGrows`).
- `EachFileReadOnce`, `GroupsAlwaysBalanced`, `LimitAlwaysReached`: the algorithm
  first. Sorting gives a list of the same files by descending size (`SortIs`), and
  when no two have the same size there is one such list (`OneOrder`), so partitions
  that plan for themselves and in their own order make the same groups
  (`PlansAgree`). A file not larger than those before it, given to the lightest
  group, leaves the groups even: without a smallest file none is heavier than
  another (`AssignStep`). `ScanInv` then says that what a partition has read and will
  read is its group of some plan under the filter it resolved, and that it has
  returned all of what it read or the limit. Sums over the partitions give the
  limit: the rows of a union are at most those of its parts (`SumUnion`). Assumed:
  finitely many files (`FilesAssumption`).
- `RowsAlwaysKept`, `AlwaysBroadcastsDimension`: `FkInv` says of the cache that a
  bound under a key covers the keys of the snapshot it names (`CacheInv`) and of a
  plan that its bound is of the snapshot it was resolved to (`PlansInv`). The
  lemmas about joins carry it: a finite set of keys has extremes
  (`ExtremesExist`), the constraint made of them covers every key
  (`ConstraintCovers`), and a bound that covers them removes no pair of rows
  (`BoundKeepsRows`), through each node that may lie between, since the rows it makes
  of a key are made of fact rows with that key; swapping the inputs is undone by the type (`SwapNorm`).
  Assumed: finitely many rows, keys integers or null (`RowsAssumption`).

The recursive functions and folds of the model are reasoned about through least
counterexamples: a set of numbers that is not empty has a least member, and a
property that fails somewhere fails first at a number whose predecessor has it.

Only model-checked: the liveness properties, because fairness is outside the
prover's reach. Every invariant of the passing runs is a theorem.

## Not modelled

- `fact_filter_pushdown.rs` and the estimates of `scan_statistics.rs`: the first
  hands DataFusion's own dynamic filters on, the second are numbers that only
  order joins.
- The strict metrics evaluator and the strict projection: nothing calls them.
- Views, Puffin, metadata tables, delete file writers, Avro and JSON forms, Arrow
  schemas, the record batch transformer, decimals and the overflow of a boundary
  at the end of its type: sequential conversions of values and layouts.
- Catalog opening, signing, HTTP, the Snowflake proxy, SQL session and
  registration, configuration, command line and benchmarks: I/O and glue around
  state that is set once.
- Within modelled parts: log messages, the content of rows beyond one column, and
  the clock of a commit (a snapshot whose timestamp is rejected is one of the
  failures of `TableCommit`; `TableHistory` has the clock).

## Plan

1. Filters over two columns in `ReadPath`.
