----------------------------- MODULE TaskWriter ------------------------------
(***************************************************************************)
(* The writer of one insert task (task_writer.rs): record batches are      *)
(* split by partition value and given to the unpartitioned, fanout or      *)
(* clustered writer, whose rolling writers cut them into Parquet files of  *)
(* row groups with statistics.                                             *)
(*                                                                         *)
(* A row is [id, cell]: its place in the input and its value of the one    *)
(* column the table's transform and the queries are about.                 *)
(***************************************************************************)
EXTENDS Projection, SequencesExt

CONSTANTS
    Tables,            \* a sequence of tables [kind, transform, mode, cells, rows, ...]
    BatchSize,         \* rows of a record batch
    RowGroupSize,      \* rows of a row group
    PageSize,          \* rows of a data page
    StatChars          \* a longer string is truncated in the statistics

ASSUME SizesAssumption ==
    /\ {BatchSize, RowGroupSize, PageSize, StatChars} \subseteq Nat \ {0}
    /\ StatChars \in Lengths

(* The values a column of a kind has besides Null. *)
CellsOfKind(kind) == Values \cup (IF kind = "float" THEN {NaN} ELSE {})

(* A table has a transform of its column's kind, and partition values that *)
(* their type has room for.                                                *)
ASSUME TablesAssumption ==
    \A t \in DOMAIN Tables :
        LET T == Tables[t]
        IN  /\ T.rows \in Nat /\ T.oldRows \in Nat
            /\ T.mode \in {"unpartitioned", "fanout", "clustered"}
            /\ T.kind \in Kinds
            /\ T.transform.name \in TransformsOf(T.kind) /\ T.transform.w \in Nat \ {0}
            /\ T.cells \subseteq CellsOfKind(T.kind) \cup {Null}
            /\ T.transform.name # "void" =>
                   \A v \in T.cells \cap Values : Transformed(T.transform, T.kind, v) \in Values

VARIABLES
    tid,               \* the table written and read
    input,             \* its rows, in the order of the input
    taken,             \* how many of them the task has taken
    pending,           \* what split() returned and is not yet written
    writers,           \* partition value -> its files, the last one open
    closed,            \* closed_partitions of the clustered writer
    output,            \* data files of the writers closed so far
    phase              \* "write", "failed", "written"

writerVars == <<tid, input, taken, pending, writers, closed, output, phase>>

table == Tables[tid]

Rows == [id : Nat, cell : Values \cup {Null, NaN}]

Chunks(s, n) ==
    [i \in 1..((Len(s) + n - 1) \div n) |-> SubSeq(s, (i - 1) * n + 1, Shorter(i * n, Len(s)))]

(* The members of a finite set of numbers, ascending. *)
InOrder(S) == CHOOSE s \in SetToSeqs(S) : \A i, j \in DOMAIN s : i < j => s[i] < s[j]

Unpartitioned == None

PartitionOf(t, r) ==
    IF t.mode = "unpartitioned" THEN Unpartitioned
    ELSE Transformed(t.transform, t.kind, r.cell)

(* Mutant: a group is a run of rows of one partition. *)
SplitRuns(t, batch) ==
    {[key |-> PartitionOf(t, batch[i]), rows |-> <<batch[i]>>] : i \in DOMAIN batch}

(* RecordBatchPartitionSplitter::split: the rows of each partition value,  *)
(* in the order of a HashMap, which is any.                                *)
Split(t, batch) ==
    LET keys == {PartitionOf(t, batch[i]) : i \in DOMAIN batch}
        row_ids(k) == InOrder({i \in DOMAIN batch : PartitionOf(t, batch[i]) = k})
    IN  {[key |-> k, rows |-> [j \in DOMAIN row_ids(k) |-> batch[row_ids(k)[j]]]] : k \in keys}

(* RollingFileWriter::write: a file that has rows may have become too      *)
(* large, and is then closed first.                                        *)
Appended(fs, rows, roll) ==
    IF fs = <<>> \/ roll THEN Append(fs, rows)
    ELSE [fs EXCEPT ![Len(fs)] = @ \o rows]

(* DataFileWriter::close: the files of a partition. *)
Closed(k, fs) == [i \in DOMAIN fs |-> [partition |-> k, rows |-> fs[i]]]

-----------------------------------------------------------------------------
WriterInit ==
    /\ tid \in DOMAIN Tables
    /\ input \in [1..table.rows -> {[id |-> 0, cell |-> v] : v \in table.cells}]
    /\ taken = 0
    /\ pending = {}
    /\ writers = [k \in {} |-> <<>>]
    /\ closed = {}
    /\ output = <<>>
    /\ phase = "write"

Numbered(s, from) == [i \in DOMAIN s |-> [s[i] EXCEPT !.id = from + i]]

(* TaskWriter::write splits the next batch. *)
TakeBatch ==
    /\ phase = "write" /\ pending = {} /\ taken < Len(input)
    /\ LET upto == Shorter(taken + BatchSize, Len(input))
       IN  /\ pending' = Split(table, Numbered(SubSeq(input, taken + 1, upto), taken))
           /\ taken' = upto
    /\ UNCHANGED <<tid, input, writers, closed, output, phase>>

FilesOf(k) == IF k \in DOMAIN writers THEN writers[k] ELSE <<>>

(* UnpartitionedWriter::write and FanoutWriter::write: one writer for each *)
(* partition, created when it is first needed.                             *)
FanoutWrite(g, roll) ==
    /\ table.mode \in {"unpartitioned", "fanout"}
    /\ writers' = [k \in DOMAIN writers \cup {g.key} |->
                       IF k = g.key THEN Appended(FilesOf(k), g.rows, roll) ELSE writers[k]]
    /\ UNCHANGED <<closed, output, phase>>

(* Mutant: the writer left behind is dropped instead of closed. *)
CloseCurrentDropped(k) ==
    /\ closed' = closed \cup (DOMAIN writers \ {k})
    /\ UNCHANGED output

(* close_current_writer, of the partition that is not k. *)
CloseCurrent(k) ==
    /\ closed' = closed \cup (DOMAIN writers \ {k})
    /\ output' = IF DOMAIN writers \subseteq {k} THEN output
                 ELSE LET old == CHOOSE o \in DOMAIN writers : TRUE
                      IN  output \o Closed(old, writers[old])

(* ClusteredWriter::write: one writer at a time, and none for a partition  *)
(* that was left.                                                          *)
ClusteredWrite(g, roll) ==
    /\ table.mode = "clustered"
    /\ IF g.key \in closed
       THEN phase' = "failed" /\ UNCHANGED <<writers, closed, output>>
       ELSE /\ CloseCurrent(g.key)
            /\ writers' = [k \in {g.key} |-> Appended(FilesOf(k), g.rows, roll)]
            /\ UNCHANGED phase

(* One turn of the loop of write_partitioned_batches. *)
WriteGroup(g, roll) ==
    /\ phase = "write" /\ g \in pending
    /\ roll => FilesOf(g.key) # <<>>
    /\ FanoutWrite(g, roll) \/ ClusteredWrite(g, roll)
    /\ pending' = pending \ {g}
    /\ UNCHANGED <<tid, input, taken>>

(* TaskWriter::close: every open writer is closed.  The fanout writer does  *)
(* so in the order of a HashMap, which nothing depends on.                 *)
CloseWriter ==
    /\ phase = "write" /\ pending = {} /\ taken = Len(input)
    /\ LET order == SetToSeq(DOMAIN writers)
       IN  output' = output \o FlattenSeq([i \in DOMAIN order |->
                                             Closed(order[i], writers[order[i]])])
    /\ writers' = [k \in {} |-> <<>>]
    /\ phase' = "written"
    /\ UNCHANGED <<tid, input, taken, pending, closed>>

WriterNext ==
    \/ TakeBatch
    \/ \E g \in pending, roll \in BOOLEAN : WriteGroup(g, roll)
    \/ CloseWriter

-----------------------------------------------------------------------------
(* Statistics the Parquet writer keeps of the cells of some rows; external. *)
CellsOf(rows) == {rows[i].cell : i \in DOMAIN rows}
Count(rows, v) == Cardinality({i \in DOMAIN rows : rows[i].cell = v})
Least(S) == CHOOSE x \in S : \A y \in S : x <= y
Greatest(S) == CHOOSE x \in S : \A y \in S : x >= y

(* A long string's lower bound is cut, its upper bound cut and incremented *)
(* where that is possible; neither is exact then.                          *)
StatLower(kind, v) == IF kind = "string" THEN First(v, StatChars) ELSE v
StatUpper(kind, v) ==
    LET above == {u \in Values : u > v /\ Chars[u] <= StatChars}
    IN  IF kind = "string" /\ Chars[v] > StatChars /\ above # {} THEN Least(above) ELSE v

(* NaN is in no bound, and only the file's metrics count it. *)
Statistics(kind, rows) ==
    LET vals == CellsOf(rows) \cap Values
    IN  [rows |-> Len(rows), nulls |-> Count(rows, Null), nans |-> None,
         lower |-> IF vals = {} THEN None ELSE StatLower(kind, Least(vals)),
         upper |-> IF vals = {} THEN None ELSE StatUpper(kind, Greatest(vals)),
         exactLower |-> vals # {} /\ StatLower(kind, Least(vals)) = Least(vals),
         exactUpper |-> vals # {} /\ StatUpper(kind, Greatest(vals)) = Greatest(vals)]

(* NanValueCountVisitor looks at float columns only. *)
NanCount(kind, rows) == IF kind = "float" THEN Count(rows, NaN) ELSE None

(* parquet_to_data_file_builder and MinMaxColAggregator: bounds of a row   *)
(* group that are not exact are left out.                                  *)
FileMetrics(kind, rows) ==
    LET groups == Chunks(rows, RowGroupSize)
        stats  == {Statistics(kind, groups[i]) : i \in DOMAIN groups}
        lowers == {s.lower : s \in {u \in stats : u.exactLower}}
        uppers == {s.upper : s \in {u \in stats : u.exactUpper}}
    IN  [rows |-> Len(rows), nulls |-> Count(rows, Null), nans |-> NanCount(kind, rows),
         lower |-> IF lowers = {} THEN None ELSE Least(lowers),
         upper |-> IF uppers = {} THEN None ELSE Greatest(uppers)]

(* PartitionFieldStats over the partition values of a manifest's files. *)
FieldSummary(parts) ==
    LET vals == parts \ {Null, NaN}
    IN  [nulls |-> Null \in parts, nans |-> NaN \in parts,
         lower |-> IF vals = {} THEN None ELSE Least(vals),
         upper |-> IF vals = {} THEN None ELSE Greatest(vals)]

-----------------------------------------------------------------------------
(* The clustered writer refuses a row only when its partition is in an     *)
(* earlier batch too: inside a batch split() brings a partition's rows     *)
(* together, whatever their order.                                         *)
RefusesAcrossBatches ==
    phase = "failed" =>
        \E m, n \in DOMAIN input :
            /\ (m - 1) \div BatchSize # (n - 1) \div BatchSize
            /\ PartitionOf(table, input[m]) = PartitionOf(table, input[n])

=============================================================================
