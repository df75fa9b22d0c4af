------------------------------ MODULE ReadPath -------------------------------
(***************************************************************************)
(* A query on the files of a table: which of them the plan keeps, which    *)
(* row groups and pages of a kept file the Arrow reader decodes, which     *)
(* rows its positional deletes hide, and which rows its row filter leaves  *)
(* (scan/mod.rs, arrow/reader.rs process_file_scan_task).                  *)
(*                                                                         *)
(* The tasks of a scan share nothing that is modelled here, so the model   *)
(* follows one of them.  A table may hold one file, written before the     *)
(* column was added, instead of the files its task writer writes.          *)
(***************************************************************************)
EXTENDS TaskWriter

VARIABLES
    query,             \* [filter, deletes]: the filter, and the deleted positions
    file,              \* the file of the task: [partition, rows, old]
    stage,             \* "idle", "plan", "open", "deletes", "read", "done"
    selected,          \* the selected row groups, ascending
    walk,              \* the local state of build_deletes_row_selection
    result             \* ids of the rows returned

readVars == <<query, file, stage, selected, walk, result>>
vars == <<tid, input, taken, pending, writers, closed, output, phase,
          query, file, stage, selected, walk, result>>

NoFilter == Filter("true", NoCond, NoCond)

(* A condition SQL accepts on a column of a kind.  A literal has a         *)
(* predecessor and a successor in its type.                                *)
PrefixOps == {"starts_with", "not_starts_with"}
Literals(kind) == ((Lowest + 1)..(Highest - 1)) \cup (IF kind = "float" THEN {NaN} ELSE {})
Accepts(kind, c) ==
    /\ c \in [op : Ops, lits : SUBSET Literals(kind), form : Forms]
    /\ c.op \in CompareOps \cup PrefixOps => \E l \in Literals(kind) : c.lits = {l}
    /\ c.op \in PrefixOps => kind = "string"

ASSUME FiltersAssumption ==
    \A t \in DOMAIN Tables : \A f \in Tables[t].filters :
        \/ f = NoFilter
        \/ /\ f = Filter(f.con, f.l, f.r) /\ f.con \in {"one", "and", "or", "not", "not_and", "not_or"}
           /\ Accepts(Tables[t].kind, f.l) /\ Accepts(Tables[t].kind, f.r)

NoQuery  == [filter |-> NoFilter, deletes |-> {}]
NoFile   == [partition |-> Unpartitioned, rows |-> <<>>, old |-> FALSE]
NoWalk   == [idx |-> 0, sel |-> 0, base |-> 0, cached |-> -1, rest |-> {}, out |-> <<>>]

Init ==
    /\ WriterInit
    /\ query = NoQuery
    /\ file = NoFile
    /\ stage = "idle"
    /\ selected = <<>>
    /\ walk = NoWalk
    /\ result = {}

Write == stage = "idle" /\ WriterNext /\ UNCHANGED readVars

-----------------------------------------------------------------------------
(* The rows of the old file have the column's initial default. *)
OldFile(t) ==
    [partition |-> Unpartitioned, old |-> TRUE,
     rows |-> [i \in 1..t.oldRows |-> [id |-> i, cell |-> t.default]]]

ChooseQuery(f, d) ==
    /\ stage = "idle" /\ phase = "written"
    /\ \/ \E i \in DOMAIN output :
              file' = [partition |-> output[i].partition, rows |-> output[i].rows, old |-> FALSE]
       \/ table.oldRows > 0 /\ file' = OldFile(table)
    /\ d \subseteq 0..(Len(file'.rows) - 1)
    /\ query' = [filter |-> f, deletes |-> d]
    /\ stage' = "plan"
    /\ UNCHANGED <<writerVars, selected, walk, result>>

(* The summary of the manifest the files were committed in. *)
ManifestSummary == FieldSummary({output[i].partition : i \in DOMAIN output})

(* A column without metrics or statistics. *)
NoStatistics(rows) ==
    [rows |-> Len(rows), nulls |-> None, nans |-> None, lower |-> None, upper |-> None]

Partitioned == table.mode # "unpartitioned" /\ ~file.old

(* build_manifest_file_contexts: the partition filter on the manifest. *)
ManifestKept ==
    Partitioned => Says(query.filter, LAMBDA c :
                            ManifestMatches(table.transform, table.kind, c, ManifestSummary))

(* process_data_manifest_entry: the partition filter on the file's value,  *)
(* then its metrics.                                                       *)
PartitionKept ==
    Partitioned => Says(query.filter, LAMBDA c :
                            PartitionMatches(table.transform, table.kind, c, file.partition))

MetricsKept ==
    LET m == IF file.old THEN NoStatistics(file.rows) ELSE FileMetrics(table.kind, file.rows)
    IN  Says(query.filter, LAMBDA c : FileMightMatch(c, m))

PlanFile ==
    /\ stage = "plan"
    /\ stage' = IF SaysNothing(query.filter) \/ (ManifestKept /\ PartitionKept /\ MetricsKept)
                THEN "open" ELSE "done"
    /\ UNCHANGED <<writerVars, query, file, selected, walk, result>>

Groups == Chunks(file.rows, RowGroupSize)

(* get_selected_row_group_indices; the byte range of a task is the whole   *)
(* file, which selects every row group.                                    *)
GroupKept(i) ==
    LET s == IF file.old THEN NoStatistics(Groups[i]) ELSE Statistics(table.kind, Groups[i])
    IN  Says(query.filter, LAMBDA c : RowGroupMightMatch(c, s))

SelectRowGroups ==
    /\ stage = "open"
    /\ selected' = InOrder({i \in DOMAIN Groups : GroupKept(i)})
    /\ LET first == IF query.deletes = {} THEN -1 ELSE Least(query.deletes)
       IN  walk' = [idx |-> 1, sel |-> 1, base |-> 0, cached |-> first,
                    rest |-> query.deletes \ {first}, out |-> <<>>]
    /\ stage' = IF query.deletes = {} THEN "read" ELSE "deletes"
    /\ UNCHANGED <<writerVars, query, file, result>>

-----------------------------------------------------------------------------
(* build_deletes_row_selection, one row group at a time.  cached is the    *)
(* delete taken from the iterator (-1 for none), rest those still in it.   *)
NextDelete(rest) == IF rest = {} THEN -1 ELSE Least(rest)
After(w, next) == {d \in w.rest : d >= next}

(* Mutant: the delete at hand is replaced even if it is further on. *)
SkipGroupAlways(w, n) ==
    LET next == w.base + n
        rest == After(w, next)
    IN  [w EXCEPT !.idx = @ + 1, !.base = next, !.cached = NextDelete(rest),
                  !.rest = rest \ {NextDelete(rest)}]

(* A row group that is not selected: advance_to, and a new delete only if  *)
(* the one at hand was in the row group.                                   *)
SkipGroup(w, n) ==
    LET next == w.base + n
        rest == After(w, next)
        v    == [w EXCEPT !.idx = @ + 1, !.base = next, !.rest = rest]
    IN  IF w.cached # -1 /\ w.cached < next
        THEN [v EXCEPT !.cached = NextDelete(rest), !.rest = rest \ {NextDelete(rest)}]
        ELSE v

(* A selected row group: its deletes are skipped, its other rows selected. *)
TakeGroup(w, n) ==
    LET next == w.base + n
        here == {d \in w.rest \cup {w.cached} : d < next}
        rest == After(w, next)
        v    == [w EXCEPT !.idx = @ + 1, !.sel = @ + 1, !.base = next,
                          !.out = @ \o [i \in 1..n |-> w.base + i - 1 \notin here]]
    IN  IF w.cached # -1 /\ w.cached < next
        THEN [v EXCEPT !.cached = NextDelete(rest), !.rest = rest \ {NextDelete(rest)}]
        ELSE v

WalkDeletes ==
    /\ stage = "deletes"
    /\ IF walk.idx > Len(Groups) \/ walk.sel > Len(selected)
       THEN stage' = "read" /\ UNCHANGED walk
       ELSE /\ walk' = IF walk.idx = selected[walk.sel]
                       THEN TakeGroup(walk, Len(Groups[walk.idx]))
                       ELSE SkipGroup(walk, Len(Groups[walk.idx]))
            /\ UNCHANGED stage
    /\ UNCHANGED <<writerVars, query, file, selected, result>>

(* get_row_selection_for_filter_predicate: which rows of a selected row    *)
(* group are in a page that may match.                                     *)
PageKept(group, i) ==
    LET page == Chunks(group, PageSize)[(i - 1) \div PageSize + 1]
        s    == Statistics(table.kind, page)
    IN  Says(query.filter, LAMBDA c : IF file.old THEN PageMissing(c) ELSE PageMightMatch(c, s))

RowKept(r) ==
    Says(query.filter, LAMBDA c : IF file.old THEN FilterMissing(c) ELSE FilterPresent(c, r.cell))

(* What a filter above the scan would leave. *)
KeptAbove(r) ==
    FilteredAbove(query.filter) => Satisfies(query.filter, r.cell)

SelectedRows == FlattenSeq([j \in DOMAIN selected |-> Groups[selected[j]]])

PageSelection ==
    FlattenSeq([j \in DOMAIN selected |->
        LET g == Groups[selected[j]] IN [i \in DOMAIN g |-> PageKept(g, i)]])

(* The two selections are intersected by position, over the rows of the    *)
(* selected row groups, and the row filter sees what is left.  A file      *)
(* without a page index is read without the first of them.                 *)
ReadRows ==
    /\ stage = "read"
    /\ LET rows  == SelectedRows
           pages == IF table.pageIndex THEN PageSelection ELSE [k \in DOMAIN rows |-> TRUE]
           kept  == {k \in DOMAIN rows : /\ pages[k]
                                         /\ query.deletes # {} => walk.out[k]
                                         /\ RowKept(rows[k])
                                         /\ KeptAbove(rows[k])}
       IN  result' = {rows[k].id : k \in kept}
    /\ stage' = "done"
    /\ UNCHANGED <<writerVars, query, file, selected, walk>>

Next ==
    \/ Write
    \/ \E f \in table.filters, d \in table.deletes : ChooseQuery(f, d)
    \/ PlanFile
    \/ SelectRowGroups
    \/ WalkDeletes
    \/ ReadRows

Spec == Init /\ [][Next]_vars

-----------------------------------------------------------------------------
(* Every row of the input is in exactly one place of one file, the file is *)
(* of the row's partition, and the rows of a file are in input order:      *)
(* split, the three writers and the rolling writer lose, repeat and        *)
(* misplace nothing.                                                       *)
EachRowOnce ==
    phase = "written" /\ stage = "idle" =>
        /\ \A n \in DOMAIN input :
               Cardinality({p \in (DOMAIN output) \X (1..Len(input)) :
                                /\ p[2] \in DOMAIN output[p[1]].rows
                                /\ output[p[1]].rows[p[2]].id = n}) = 1
        /\ \A f \in DOMAIN output : \A i \in DOMAIN output[f].rows :
               LET r == output[f].rows[i]
               IN  /\ output[f].partition = PartitionOf(table, r)
                   /\ input[r.id].cell = r.cell
                   /\ i > 1 => output[f].rows[i - 1].id < r.id

(* Where the code is known to drop a row that matches; see the README.     *)
(* NaN is in no statistic and NOT isnan() is constant false.               *)
NanBlind(c, r) == r.cell = NaN \/ c.op = "not_nan"

(* The cast around a column is removed. *)
CastStripped(c) == c.form = "cast"

(* A row filter takes a missing column for null, not for its default. *)
DefaultInvisible == file.old /\ table.default # Null

(* The file's bounds leave out the row's group, its statistics being        *)
(* truncated, and do not cover the row.                                    *)
OutsideBounds(r) ==
    LET m == FileMetrics(table.kind, file.rows)
        s == Statistics(table.kind, Groups[CHOOSE i \in DOMAIN Groups :
                                              \E k \in DOMAIN Groups[i] : Groups[i][k] = r])
    IN  \/ ~s.exactLower /\ m.lower # None /\ r.cell < m.lower
        \/ ~s.exactUpper /\ m.upper # None /\ r.cell > m.upper

(* A prefix of as many bytes, but fewer characters, than the truncate      *)
(* width.                                                                  *)
ShortPrefix(c) ==
    /\ table.transform.name = "truncate" /\ c.op = "starts_with"
    /\ Bytes[Lit(c)] = table.transform.w /\ Chars[Lit(c)] < Bytes[Lit(c)]

(* day() of a fraction of the last second of a day before 1970 is the day  *)
(* after.                                                                  *)
DayTooLate(v) == DayOf(v) # v \div (TicksPerSecond * SecondsPerDay)
DayMisplaced(c, r) ==
    /\ table.transform.name = "day"
    /\ \E v \in {r.cell} \cup c.lits : \E u \in {v - 1, v, v + 1} : DayTooLate(u)

(* Half of an AND under a NOT is negated: a stronger filter, not a weaker. *)
HalfNegated(f) ==
    /\ f.con = "not_and"
    /\ \/ LogicalConverts(f.l) # LogicalConverts(f.r)
       \/ PhysicalConverts(f.l) # PhysicalConverts(f.r)

MayBeLost(c, r) ==
    NanBlind(c, r) \/ CastStripped(c) \/ DefaultInvisible \/ OutsideBounds(r)
        \/ ShortPrefix(c) \/ DayMisplaced(c, r)

Deleted(r) == \E i \in query.deletes : i + 1 \in DOMAIN file.rows /\ file.rows[i + 1] = r

(* No level of pruning loses a row: what satisfies the query's filter and  *)
(* is not deleted is returned, through the conversion of the filter, the   *)
(* projection on the partition, manifest, file, row group and page         *)
(* statistics, the delete walk and the row filter.                         *)
NoRowLost ==
    stage = "done" =>
        \A i \in DOMAIN file.rows :
            LET r == file.rows[i]
            IN  \/ r.id \in result
                \/ ~Satisfies(query.filter, r.cell)
                \/ Deleted(r)
                \/ HalfNegated(query.filter)
                \/ \E c \in Conds(Rewritten(query.filter)) : MayBeLost(c, r)

(* Where the code is known to return a row that does not match: a          *)
(* condition it could not convert, isnan(), and on a column the file lacks *)
(* the conditions its row filter takes for true.                           *)
MayBeExtra(c) ==
    \/ c.form # "plain" \/ c.op = "is_nan"
    \/ file.old /\ c.op \in {"not_nan", "lt", "lteq", "not_starts_with", "not_in"}
    \/ DefaultInvisible

(* What the scan says it has filtered is filtered: no filter above the     *)
(* scan would remove a row.                                                *)
OnlyMatching ==
    stage = "done" /\ ~(\E c \in Conds(Rewritten(query.filter)) : MayBeExtra(c)) =>
        \A i \in DOMAIN file.rows :
            file.rows[i].id \in result => Satisfies(query.filter, file.rows[i].cell)

(* A deleted row is never returned, whichever row groups the filter skips, *)
(* and the walk never holds a delete it has passed, on which its inner     *)
(* loop would spin.                                                        *)
DeletesRespected ==
    /\ stage = "done" => \A i \in DOMAIN file.rows :
                             Deleted(file.rows[i]) => file.rows[i].id \notin result
    /\ stage = "deletes" /\ walk.cached # -1 => walk.cached >= walk.base

(* What a filter that was pushed down leaves is what SQL asked for. *)
PushedDownApplied ==
    stage = "done" =>
        \A i \in DOMAIN file.rows :
            file.rows[i].id \in result => Satisfies(query.filter, file.rows[i].cell)

=============================================================================
