---------------------------- MODULE TableHistory ----------------------------
(***************************************************************************)
(* The half of TableMetadataBuilder (spec/table_metadata_builder.rs) that  *)
(* keeps a table's history: its snapshots, the references to them, the     *)
(* snapshot log that time travel reads, sequence numbers, row ids and the  *)
(* times of all these, with the checks of TableMetadata::try_normalize     *)
(* that every build, and every later load of the metadata file, runs.      *)
(*                                                                         *)
(* The log is a vector; here an entry carries the number of its push, n,   *)
(* and the vector is the set of entries in the order of n.  Time is        *)
(* counted in ticks; Tolerance is ONE_MINUTE_MS.                           *)
(***************************************************************************)
EXTENDS Integers, FiniteSets, Sequences

CONSTANTS
    SnapshotIds,  \* ids that writers draw for their snapshots
    NoSnapshot,   \* None
    Refs,         \* names of branches and tags, "main" among them
    Tolerance,    \* clock skew the checks forgive
    Skew,         \* how far a snapshot's timestamp may be ahead of this clock
    MaxTime,      \* bound: ticks
    MaxRowId,     \* largest row id (u64::MAX)
    MaxLog,       \* write.metadata.previous-versions-max
    MaxUpdates,   \* bound: updates over all commits
    MaxBuilds     \* bound: commits after the table's creation

MAIN_BRANCH == "main"
NoTime      == -1
NoRow       == -1

ASSUME HistoryAssumption ==
    /\ NoSnapshot \notin SnapshotIds
    /\ MAIN_BRANCH \in Refs
    /\ Tolerance \in Nat /\ Skew \in Nat /\ MaxTime \in Nat
    /\ MaxRowId \in Nat /\ MaxLog \in Nat \ {0}
    /\ MaxUpdates \in Nat /\ MaxBuilds \in Nat

VARIABLES
    version,              \* format version
    snapshots,            \* id |-> [seq, ts, parent, first, rows]
    current_snapshot_id,
    refs,                 \* name |-> snapshot id
    snapshot_log,         \* set of [n, id, ts, own]; own: added by the logging commit
    last_sequence_number,
    next_row_id,
    last_updated_ms,      \* of the metadata the builder was made from
    metadata_log,         \* times of the earlier metadata files
    builder_ms,           \* the builder's last_updated_ms, or NoTime
    added,                \* ids of the AddSnapshot updates in changes
    mainSet,              \* ids of the SetSnapshotRef updates of main in changes
    removedAny,           \* changes holds a RemoveSnapshots
    phase,                \* "building" | "built" | "failed"
    clock,
    used,                 \* history: ids drawn so far
    published,            \* history: [n, id], log entries that were current in a build
    pushes,               \* history: entries pushed so far
    updates, builds       \* history, for the bounds

tableVars   == <<version, snapshots, current_snapshot_id, refs, snapshot_log,
                 last_sequence_number, next_row_id>>
changeVars  == <<builder_ms, added, mainSet, removedAny>>
timeVars    == <<last_updated_ms, metadata_log, clock>>
ghostVars   == <<used, published, pushes>>
histVars    == <<tableVars, changeVars, timeVars, ghostVars, phase, updates, builds>>

-----------------------------------------------------------------------------
PutAt(f, k, v) == [i \in DOMAIN f \cup {k} |-> IF i = k THEN v ELSE f[i]]
KeepAt(f, S)   == [i \in DOMAIN f \cap S |-> f[i]]
Later(a, b)    == IF a > b THEN a ELSE b

(* The last entry of a log. *)
IsLast(e, log) == e \in log /\ \A d \in log : d.n <= e.n
(* The entries d, e are neighbours in the log. *)
Adjacent(d, e, log) == d.n < e.n /\ ~\E x \in log : d.n < x.n /\ x.n < e.n

Receive ==
    /\ phase = "building"
    /\ updates < MaxUpdates
    /\ updates' = updates + 1
    /\ UNCHANGED <<builds, timeVars>>

Reject == phase' = "failed" /\ UNCHANGED <<tableVars, changeVars, ghostVars>>

(* add_snapshot: its early returns. *)
StaleSequence(s) ==
    version # 1 /\ s.seq <= last_sequence_number /\ s.parent # NoSnapshot

BeforeLog(s) ==
    \E e \in snapshot_log : IsLast(e, snapshot_log) /\ s.ts - e.ts < -Tolerance
(* Mutant: the time is not compared with the last update. *)
BeforeNothing(s) == FALSE

BeforeUpdate(s) ==
    s.ts - Later(builder_ms, last_updated_ms) < -Tolerance
(* Mutant: any first row id passes. *)
RowIdsMissing(s) ==
    version >= 3 /\ (s.first = NoRow \/ next_row_id + s.rows > MaxRowId)

RowIdsTaken(s) ==
    version >= 3 /\ (s.first = NoRow \/ s.first < next_row_id
                                     \/ next_row_id + s.rows > MaxRowId)

Refused(s) == StaleSequence(s) \/ BeforeLog(s) \/ BeforeUpdate(s) \/ RowIdsTaken(s)

(* add_snapshot: the id is one that no snapshot had before (writers draw   *)
(* random ids), so the check for an existing id never fails.               *)
TakeSnapshot(id, s) ==
    /\ snapshots' = PutAt(snapshots, id, s)
    /\ last_sequence_number' = s.seq
    /\ next_row_id' = IF version >= 3 THEN next_row_id + s.rows ELSE next_row_id
    /\ builder_ms' = s.ts
    /\ added' = added \cup {id}
    /\ used' = used \cup {id}
    /\ UNCHANGED <<version, removedAny, published, phase>>

AddSnapshot(id, s) ==
    /\ Receive
    /\ id \notin used
    /\ \/ Refused(s) /\ Reject
       \/ /\ ~Refused(s)
          /\ TakeSnapshot(id, s)
          /\ UNCHANGED <<current_snapshot_id, refs, snapshot_log, mainSet, pushes>>

(* set_branch_snapshot: add_snapshot, then set_ref of the branch to it. *)
LogOwn(id, s) ==
    /\ current_snapshot_id' = id
    /\ pushes' = pushes + 1
    /\ snapshot_log' = snapshot_log \cup
            {[n |-> pushes + 1, id |-> id, ts |-> s.ts, own |-> TRUE]}
    /\ mainSet' = mainSet \cup {id}

SetBranchSnapshot(r, id, s) ==
    /\ Receive
    /\ id \notin used
    /\ \/ Refused(s) /\ Reject
       \/ /\ ~Refused(s)
          /\ TakeSnapshot(id, s)
          /\ refs' = PutAt(refs, r, id)
          /\ \/ r = MAIN_BRANCH /\ LogOwn(id, s)
             \/ /\ r # MAIN_BRANCH
                /\ UNCHANGED <<current_snapshot_id, snapshot_log, mainSet, pushes>>

(* Mutant: references to a removed snapshot are kept. *)
RemoveSnapshotsKeepRefs(S) ==
    /\ Receive
    /\ snapshots' = KeepAt(snapshots, DOMAIN snapshots \ S)
    /\ removedAny' = (removedAny \/ S \cap DOMAIN snapshots # {})
    /\ UNCHANGED <<version, current_snapshot_id, refs, snapshot_log, last_sequence_number,
                   next_row_id, builder_ms, added, mainSet, ghostVars, phase>>

(* remove_snapshots: references to a removed snapshot go with it, the      *)
(* current snapshot id and the log stay until build.                       *)
RemoveSnapshots(S) ==
    /\ Receive
    /\ snapshots' = KeepAt(snapshots, DOMAIN snapshots \ S)
    /\ removedAny' = (removedAny \/ S \cap DOMAIN snapshots # {})
    /\ refs' = KeepAt(refs, {r \in DOMAIN refs : refs[r] \in DOMAIN snapshots \ S})
    /\ UNCHANGED <<version, current_snapshot_id, snapshot_log, last_sequence_number,
                   next_row_id, builder_ms, added, mainSet, ghostVars, phase>>

(* set_ref: the main branch moves the current snapshot and is logged, at    *)
(* the time of the last snapshot the commit added or, without one, now.    *)
RefTime(id) == IF id \in added THEN snapshots[id].ts ELSE builder_ms
LogTime(id) == IF RefTime(id) # NoTime THEN RefTime(id) ELSE clock

LogMain(id) ==
    /\ current_snapshot_id' = id
    /\ builder_ms' = LogTime(id)
    /\ pushes' = pushes + 1
    /\ snapshot_log' = snapshot_log \cup
            {[n |-> pushes + 1, id |-> id, ts |-> LogTime(id), own |-> id \in added]}
    /\ mainSet' = mainSet \cup {id}

MoveBranch(id) ==
    /\ builder_ms' = RefTime(id)
    /\ UNCHANGED <<current_snapshot_id, snapshot_log, pushes, mainSet>>

SetRef(r, id) ==
    /\ Receive
    /\ \/ /\ r \in DOMAIN refs /\ refs[r] = id
          /\ UNCHANGED <<tableVars, changeVars, ghostVars, phase>>
       \/ /\ ~(r \in DOMAIN refs /\ refs[r] = id)
          /\ id \notin DOMAIN snapshots
          /\ Reject
       \/ /\ ~(r \in DOMAIN refs /\ refs[r] = id)
          /\ id \in DOMAIN snapshots
          /\ IF r = MAIN_BRANCH THEN LogMain(id) ELSE MoveBranch(id)
          /\ refs' = PutAt(refs, r, id)
          /\ UNCHANGED <<version, snapshots, last_sequence_number, next_row_id, added,
                         removedAny, used, published, phase>>

(* remove_ref *)
RemoveRef(r) ==
    /\ Receive
    /\ refs' = KeepAt(refs, DOMAIN refs \ {r})
    /\ current_snapshot_id' = IF r = MAIN_BRANCH THEN NoSnapshot ELSE current_snapshot_id
    /\ UNCHANGED <<version, snapshots, snapshot_log, last_sequence_number, next_row_id,
                   changeVars, ghostVars, phase>>

(* upgrade_format_version: row ids start at 0 when v3 begins. *)
Upgrade(v) ==
    /\ Receive
    /\ \/ v < version /\ Reject
       \/ /\ v >= version
          /\ version' = v
          /\ next_row_id' = IF v = 3 /\ version # 3 THEN 0 ELSE next_row_id
          /\ UNCHANGED <<snapshots, current_snapshot_id, refs, snapshot_log,
                         last_sequence_number, changeVars, ghostVars, phase>>

-----------------------------------------------------------------------------
(* get_intermediate_snapshots: added and made current, but not the current *)
(* snapshot in the end.                                                    *)
Intermediate == {id \in added \cap mainSet : id # current_snapshot_id}

(* Mutant: only the entry of a removed snapshot goes. *)
LogUpdatedWithGaps ==
    {e \in snapshot_log : e.id \in DOMAIN snapshots /\ e.id \notin Intermediate}

(* update_snapshot_log: nothing is dropped unless a snapshot was removed or *)
(* is intermediate; the entry of a removed snapshot takes the history      *)
(* before it along.                                                        *)
LogUpdated ==
    IF Intermediate = {} /\ ~removedAny THEN snapshot_log
    ELSE {e \in snapshot_log :
            /\ e.id \in DOMAIN snapshots
            /\ e.id \notin Intermediate
            /\ removedAny => ~\E d \in snapshot_log :
                                 d.n > e.n /\ d.id \notin DOMAIN snapshots}

LogEndsCurrent ==
    \/ Intermediate = {} /\ ~removedAny
    \/ current_snapshot_id = NoSnapshot
    \/ \E e \in LogUpdated : IsLast(e, LogUpdated) /\ e.id = current_snapshot_id

UpdatedMs == IF builder_ms # NoTime THEN builder_ms ELSE clock

(* construct_refs *)
RefsConstructed ==
    IF current_snapshot_id # NoSnapshot /\ MAIN_BRANCH \notin DOMAIN refs
    THEN PutAt(refs, MAIN_BRANCH, current_snapshot_id) ELSE refs

(* The checks of try_normalize, which also run when the file is loaded. *)
CurrentExists(cur) == cur # NoSnapshot => cur \in DOMAIN snapshots

RefsValid(cur, rs) ==
    /\ \A r \in DOMAIN rs : rs[r] \in DOMAIN snapshots
    /\ MAIN_BRANCH \in DOMAIN rs => rs[MAIN_BRANCH] = cur

LogChronological(log, ms) ==
    /\ \A d, e \in log : Adjacent(d, e, log) => e.ts - d.ts >= -Tolerance
    /\ \A e \in log : IsLast(e, log) => ms - e.ts >= -Tolerance

MetadataLogChronological(ml, ms) ==
    /\ \A i \in 1..Len(ml) - 1 : ml[i + 1] - ml[i] >= -Tolerance
    /\ ml # << >> => ms - ml[Len(ml)] >= -Tolerance

SequenceNumbersValid ==
    /\ version < 2 => last_sequence_number = 0
    /\ version >= 2 => \A id \in DOMAIN snapshots :
                            snapshots[id].seq <= last_sequence_number

Normalizes(cur, rs, log, ml, ms) ==
    /\ CurrentExists(cur)
    /\ RefsValid(cur, rs)
    /\ LogChronological(log, ms)
    /\ MetadataLogChronological(ml, ms)
    /\ SequenceNumbersValid

(* build: the previous file joins the metadata log after the checks, and    *)
(* expire_metadata_log keeps its last MaxLog entries.                      *)
Expired(ml) == SubSeq(ml, Later(0, Len(ml) - MaxLog) + 1, Len(ml))

BuildPasses ==
    /\ LogEndsCurrent
    /\ Normalizes(current_snapshot_id, RefsConstructed, LogUpdated, metadata_log, UpdatedMs)

(* What the built metadata publishes: its last log entry, when there is a   *)
(* current snapshot.                                                       *)
PublishedNow ==
    {[n |-> e.n, id |-> e.id] : e \in {x \in LogUpdated :
        IsLast(x, LogUpdated) /\ x.id = current_snapshot_id}}

BuildHistory ==
    /\ phase = "building"
    /\ \/ /\ ~BuildPasses
          /\ Reject
          /\ UNCHANGED timeVars
       \/ /\ BuildPasses
          /\ phase' = "built"
          /\ snapshot_log' = LogUpdated
          /\ refs' = RefsConstructed
          /\ last_updated_ms' = UpdatedMs
          /\ metadata_log' = IF builds = 0 THEN metadata_log
                             ELSE Expired(Append(metadata_log, last_updated_ms))
          /\ published' = published \cup PublishedNow
          /\ UNCHANGED <<version, snapshots, current_snapshot_id, last_sequence_number,
                         next_row_id, changeVars, clock, used, pushes>>
    /\ UNCHANGED <<updates, builds>>

(* new_from_metadata: the next commit's builder. *)
BeginHistory ==
    /\ phase = "built"
    /\ builds < MaxBuilds
    /\ phase' = "building"
    /\ builds' = builds + 1
    /\ builder_ms' = NoTime
    /\ added' = {}
    /\ mainSet' = {}
    /\ removedAny' = FALSE
    /\ UNCHANGED <<tableVars, timeVars, ghostVars, updates>>

(* Time passes between commits; applying one takes less than a tick. *)
Tick ==
    /\ phase = "built"
    /\ clock < MaxTime
    /\ clock' = clock + 1
    /\ UNCHANGED <<tableVars, changeVars, last_updated_ms, metadata_log, ghostVars,
                   phase, updates, builds>>

(* new: an empty table. *)
InitHistory ==
    /\ version \in 1..3
    /\ snapshots = << >>
    /\ current_snapshot_id = NoSnapshot
    /\ refs = << >>
    /\ snapshot_log = {}
    /\ last_sequence_number = 0
    /\ next_row_id = 0
    /\ last_updated_ms = 0
    /\ metadata_log = << >>
    /\ builder_ms = NoTime
    /\ added = {}
    /\ mainSet = {}
    /\ removedAny = FALSE
    /\ phase = "building"
    /\ clock = 0
    /\ used = {}
    /\ published = {}
    /\ pushes = 0
    /\ updates = 0
    /\ builds = 0

(* The snapshots writers send: the next sequence number or a stale one (in  *)
(* v1 always 0, TableMetadata::next_sequence_number), the current snapshot  *)
(* as parent or none, a time at or before their own clock, and in v3 a first *)
(* row id read from this table, now or earlier, or none.                     *)
Sendable ==
    [seq : IF version = 1 THEN {0} ELSE {last_sequence_number, last_sequence_number + 1},
     ts : 0..clock + Skew,
     parent : {NoSnapshot, current_snapshot_id},
     first : IF version >= 3 THEN (NoRow..next_row_id) \cap {NoRow, next_row_id - 1, next_row_id}
             ELSE {NoRow},
     rows : IF version >= 3 THEN 1..2 ELSE {0}]

(* TableUpdate::apply, the history's variants. *)
ApplyHistory ==
    \/ \E id \in SnapshotIds, s \in Sendable : AddSnapshot(id, s)
    \/ \E r \in Refs, id \in SnapshotIds, s \in Sendable : SetBranchSnapshot(r, id, s)
    \/ \E id \in DOMAIN snapshots : RemoveSnapshots({id})
    \/ \E r \in Refs, id \in used : SetRef(r, id)
    \/ \E r \in Refs : RemoveRef(r)
    \/ \E v \in 1..3 : Upgrade(v)

NextHistory == ApplyHistory \/ BuildHistory \/ BeginHistory \/ Tick

SpecHistory == InitHistory /\ [][NextHistory]_histVars

-----------------------------------------------------------------------------
Snapshot ==
    [seq : Nat, ts : Nat, parent : SnapshotIds \cup {NoSnapshot}, first : Nat \cup {NoRow}, rows : Nat]

(* Types; every reference of the builder names a snapshot it has, after    *)
(* every update.                                                           *)
HistoryTypeOK ==
    /\ version \in 1..3
    /\ DOMAIN snapshots \subseteq used /\ \A i \in DOMAIN snapshots : snapshots[i] \in Snapshot
    /\ current_snapshot_id \in SnapshotIds \cup {NoSnapshot}
    /\ DOMAIN refs \subseteq Refs /\ \A r \in DOMAIN refs : refs[r] \in DOMAIN snapshots
    /\ snapshot_log \subseteq [n : 1..pushes, id : used, ts : Nat, own : BOOLEAN]
    /\ last_sequence_number \in Nat /\ next_row_id \in 0..MaxRowId
    /\ last_updated_ms \in Nat /\ metadata_log \in Seq(Nat) /\ builder_ms \in Nat \cup {NoTime}
    /\ added \subseteq used /\ mainSet \subseteq used /\ removedAny \in BOOLEAN
    /\ phase \in {"building", "built", "failed"} /\ clock \in 0..MaxTime
    /\ used \subseteq SnapshotIds /\ published \subseteq [n : 1..pushes, id : used]
    /\ pushes \in Nat /\ updates \in 0..MaxUpdates /\ builds \in 0..MaxBuilds

(* The first part of LogIsHistory: from its first entry on, the log of a   *)
(* built table holds every snapshot that was the current one of a built    *)
(* table, however many were removed since.                                 *)
HistoryGapFree ==
    phase = "built" =>
        \A p \in published : (\E e \in snapshot_log : e.n <= p.n) =>
            \E e \in snapshot_log : e.n = p.n /\ e.id = p.id

(* The second: a snapshot added and overtaken within one commit was never  *)
(* current for a reader, so it is not in the log of the built table.       *)
NoPhantomHistory ==
    phase = "built" =>
        \A e \in snapshot_log : e.own => \E p \in published : p.id = e.id

(* The third: in a built table main, the current snapshot and the end of   *)
(* the log are the same snapshot, and the log names only snapshots the     *)
(* table has, although removals, moves and re-creations of references      *)
(* leave the three apart within a commit.                                  *)
LogFollowsMain ==
    phase = "built" =>
        /\ current_snapshot_id # NoSnapshot =>
              /\ MAIN_BRANCH \in DOMAIN refs /\ refs[MAIN_BRANCH] = current_snapshot_id
              /\ \E e \in snapshot_log :
                    IsLast(e, snapshot_log) /\ e.id = current_snapshot_id
        /\ MAIN_BRANCH \in DOMAIN refs => current_snapshot_id # NoSnapshot
        /\ \A e \in snapshot_log : e.id \in DOMAIN snapshots

(* Time travel reads the history readers saw: the snapshot log of a built  *)
(* table, which update_snapshot_log prunes after removals and intermediate *)
(* snapshots ("any invalid entry causes the history before it to be        *)
(* removed"), has no gaps, no snapshot that was never current, and ends at *)
(* the head of main.                                                       *)
LogIsHistory == HistoryGapFree /\ NoPhantomHistory /\ LogFollowsMain

(* Whatever build publishes can be loaded again: loading runs the checks   *)
(* of try_normalize on the whole metadata, the log entry included that     *)
(* build appends after it ran them.  "All constructors for TableMetadata   *)
(* which are part of iceberg-rust should return normalized TableMetadata"  *)
(* (table_metadata.rs:482).                                                *)
ReadsBack ==
    phase = "built" =>
        Normalizes(current_snapshot_id, refs, snapshot_log, metadata_log, last_updated_ms)

(* No row id is given out twice: the row ranges of two snapshots of a v3   *)
(* table are disjoint and all below next_row_id.                           *)
RowIdsDisjoint ==
    \A a, b \in {i \in DOMAIN snapshots : snapshots[i].first # NoRow} :
        /\ snapshots[a].first + snapshots[a].rows <= next_row_id
        /\ a # b => \/ snapshots[a].first + snapshots[a].rows <= snapshots[b].first
                    \/ snapshots[b].first + snapshots[b].rows <= snapshots[a].first

=============================================================================
