---------------------------- MODULE FsByteCache ----------------------------
(***************************************************************************)
(* The native byte cache (crates/idb-catalog/src/byte_cache/mod.rs,        *)
(* FsByteCache) and the read-through storage wrapper in front of it        *)
(* (caching_storage.rs, CachingStorage::read and CachingFileRead::read).   *)
(*                                                                         *)
(* Readers are tasks on the threads of one or more CLI processes that      *)
(* share one cache directory.  A read misses, fetches the object store and *)
(* puts the bytes: temporary file, rename, in-memory index.  Nothing is    *)
(* locked between those steps, and the temporary file of a key has one     *)
(* name for every reader, so two puts of one key share it.                 *)
(*                                                                         *)
(* Objects are immutable (Iceberg never rewrites a file), so the bytes of  *)
(* an object are the positions 0 .. Size[p]-1 and a byte string is the     *)
(* interval it was cut from.  A file is missing, torn or full: torn is     *)
(* what File::create and an unfinished write leave behind, a file with not *)
(* all of the data, which std::fs::read reads without an error.            *)
(***************************************************************************)
EXTENDS Naturals

CONSTANTS
  Readers,      \* tasks that read objects
  Processes,    \* operating-system processes sharing the cache directory
  ProcessOf,    \* [Readers -> Processes]
  Paths,        \* object paths (one credential fingerprint)
  Size,         \* [Paths -> Nat], bytes of each object
  Requests,     \* keys asked for through CachingFileRead::read (Parquet)
  WholePaths,   \* paths read through CachingStorage::read (JSON, Avro)
  NoBytes       \* result of a read that has not returned, or returned an error

\* ByteCacheKey: a path and the half-open range start..end.
KeyType == [path : Paths, start : Nat, end : Nat]

ASSUME ProcessAssumption == ProcessOf \in [Readers -> Processes]
ASSUME SizeAssumption == Size \in [Paths -> Nat]
ASSUME RequestAssumption ==
  /\ Requests \subseteq KeyType
  /\ \A k \in Requests : k.start < k.end /\ k.end <= Size[k.path]

\* Parquet files are only read by range and metadata files only as a whole:
\* InputFile::reader and InputFile::read are never called on the same path.
ASSUME SplitAssumption ==
  /\ WholePaths \subseteq Paths
  /\ \A k \in Requests : k.path \notin WholePaths

VARIABLES
  pc,           \* where each reader is
  key,          \* the key it reads
  result,       \* what its last read returned
  tmp, bin,     \* state of <name>.tmp and <name>.bin, per key
  tmpFds,       \* readers whose open file is the one named .tmp
  binFds,       \* readers whose open file has become the one named .bin
  by_path,      \* in-memory index of each process: chunks of each path
  overlapped,   \* history: two puts of the key have overlapped
  faulted       \* history: a put of the key was cut off while it wrote

files == <<tmp, bin, tmpFds, binFds>>
vars == <<pc, key, result, files, by_path, overlapped, faulted>>

WholeKey(p) == [path |-> p, start |-> 0, end |-> Size[p]]
Keys == Requests \cup {WholeKey(p) : p \in WholePaths}

\* A byte string: len bytes of object path from position off.
BytesType == [path : Paths, off : Nat, len : Nat]
BytesOf(k) == [path |-> k.path, off |-> k.start, len |-> k.end - k.start]
EmptyBytes(k) == [path |-> k.path, off |-> k.start, len |-> 0]

\* CachedChunk: a range of a path and the bytes stored for it.
ChunkType == [start : Nat, end : Nat, data : BytesType]
FileState == {"none", "torn", "full"}
Writing == {"write", "rename"}

-----------------------------------------------------------------------------
(* PathByteCache and slice_cached_range                                     *)

\* Mutation: the offset of the chunk is not subtracted.
slice_from_want_start(c, k) ==
  [path |-> c.data.path, off |-> c.data.off + k.start, len |-> k.end - k.start]

\* The slice of chunk c that answers range start..end.
slice_cached_range(c, k) ==
  [path |-> c.data.path, off |-> c.data.off + (k.start - c.start),
   len |-> k.end - k.start]

Covers(c, k) ==
  /\ c.start <= k.start /\ k.end <= c.end
  /\ (k.start - c.start) + (k.end - k.start) <= c.data.len

\* find_range: chunks that can answer k (the Vec order picks one of them).
find_range(chunks, k) == {c \in chunks : Covers(c, k)}

\* find_full_object: the chunks from offset 0 with the greatest end.
find_full_object(chunks) ==
  {c \in chunks : c.start = 0 /\ \A d \in chunks : d.start = 0 => d.end <= c.end}

\* PathByteCache::insert replaces the chunk of an equal range.
InsertChunk(chunks, k, data) ==
  {c \in chunks : c.start # k.start \/ c.end # k.end}
    \cup {[start |-> k.start, end |-> k.end, data |-> data]}

Chunks(t) == by_path[ProcessOf[t]][key[t].path]

-----------------------------------------------------------------------------
(* Reads                                                                    *)

Goto(t, from, to) == pc[t] = from /\ pc' = [pc EXCEPT ![t] = to]

Return(t, bytes) == result' = [result EXCEPT ![t] = bytes]

\* CachingFileRead::read(range).
read_range(t) ==
  /\ Goto(t, "idle", "disk")
  /\ \E k \in Requests : key' = [key EXCEPT ![t] = k]
  /\ Return(t, NoBytes)
  /\ UNCHANGED <<files, by_path, overlapped, faulted>>

\* CachingStorage::read(path).
read_whole(t) ==
  /\ Goto(t, "idle", "full")
  /\ \E p \in WholePaths : key' = [key EXCEPT ![t] = WholeKey(p)]
  /\ Return(t, NoBytes)
  /\ UNCHANGED <<files, by_path, overlapped, faulted>>

\* lookup_full_object, first step of CachingStorage::read.
get_full_object(t) ==
  LET hits == find_full_object(Chunks(t)) IN
  /\ \/ \E c \in hits : Goto(t, "full", "idle") /\ Return(t, c.data)
     \/ hits = {} /\ Goto(t, "full", "metadata") /\ UNCHANGED result
  /\ UNCHANGED <<key, files, by_path, overlapped, faulted>>

\* metadata(path): fails, or gives the size; an empty object is read directly.
metadata(t) ==
  /\ \/ Goto(t, "metadata", "idle") /\ UNCHANGED result
     \/ /\ key[t].end = 0 /\ Goto(t, "metadata", "idle")
        /\ Return(t, EmptyBytes(key[t]))
     \/ key[t].end > 0 /\ Goto(t, "metadata", "disk") /\ UNCHANGED result
  /\ UNCHANGED <<key, files, by_path, overlapped, faulted>>

\* What std::fs::read finds in the .bin of key k: a torn file holds any part
\* of the data but all of it.
FileBytes(k) ==
  IF bin[k] = "full" THEN {BytesOf(k)}
  ELSE {[path |-> k.path, off |-> k.start, len |-> n] :
          n \in {i \in 0 .. k.end - k.start : i < k.end - k.start}}

\* Mutation: a disk hit also warms the in-memory index.
get_and_warm(t) ==
  /\ \/ /\ bin[key[t]] # "none" /\ Goto(t, "disk", "insert")
        /\ \E b \in FileBytes(key[t]) : Return(t, b)
     \/ bin[key[t]] = "none" /\ Goto(t, "disk", "index") /\ UNCHANGED result
  /\ UNCHANGED <<key, files, by_path, overlapped, faulted>>

\* FsByteCache::get, first half of get_range: read the file of the exact key.
get(t) ==
  /\ \/ /\ bin[key[t]] # "none" /\ Goto(t, "disk", "idle")
        /\ \E b \in FileBytes(key[t]) : Return(t, b)
     \/ bin[key[t]] = "none" /\ Goto(t, "disk", "index") /\ UNCHANGED result
  /\ UNCHANGED <<key, files, by_path, overlapped, faulted>>

\* Second half of get_range: a slice of a chunk in the index.
get_range(t) ==
  LET hits == find_range(Chunks(t), key[t]) IN
  /\ \/ /\ \E c \in hits : Return(t, slice_cached_range(c, key[t]))
        /\ Goto(t, "index", "idle")
     \/ hits = {} /\ Goto(t, "index", "fetch") /\ UNCHANGED result
  /\ UNCHANGED <<key, files, by_path, overlapped, faulted>>

\* inner.read(range).await: fails, or returns the bytes asked for.
fetch(t) ==
  /\ \/ Goto(t, "fetch", "idle") /\ UNCHANGED result
     \/ Goto(t, "fetch", "open") /\ Return(t, BytesOf(key[t]))
  /\ UNCHANGED <<key, files, by_path, overlapped, faulted>>

-----------------------------------------------------------------------------
(* FsByteCache::put                                                         *)

\* Mutation: the data is written straight to .bin.
PutOpenInPlace(t) ==
  LET k == key[t] IN
  /\ Goto(t, "open", "write")
  /\ bin' = [bin EXCEPT ![k] = "torn"]
  /\ binFds' = [binFds EXCEPT ![k] = @ \cup {t}]
  /\ overlapped' = [overlapped EXCEPT ![k] =
       @ \/ \E u \in Readers \ {t} : key[u] = k /\ pc[u] \in Writing]
  /\ UNCHANGED <<key, result, tmp, tmpFds, by_path, faulted>>

\* fs::write opens .tmp with create and truncate, or fails before it does.
PutOpen(t) ==
  LET k == key[t] IN
  /\ \/ /\ Goto(t, "open", "write")
        /\ tmp' = [tmp EXCEPT ![k] = "torn"]
        /\ tmpFds' = [tmpFds EXCEPT ![k] = @ \cup {t}]
        /\ overlapped' = [overlapped EXCEPT ![k] =
             @ \/ \E u \in Readers \ {t} : key[u] = k /\ pc[u] \in Writing]
     \/ Goto(t, "open", "insert") /\ UNCHANGED <<tmp, tmpFds, overlapped>>
  /\ UNCHANGED <<key, result, bin, binFds, by_path, faulted>>

\* A file named f holds the data once a reader that has it open has written.
Written(f, fds, t, k) == [f EXCEPT ![k] = IF t \in fds[k] THEN "full" ELSE @]
Closed(fds, t, k) == [fds EXCEPT ![k] = @ \ {t}]

\* Mutation: the write goes to whatever file is named .tmp.
PutWriteByName(t) ==
  LET k == key[t] IN
  /\ Goto(t, "write", "rename")
  /\ tmp' = Written(tmp, tmpFds, t, k)
  /\ tmpFds' = Closed(tmpFds, t, k)
  /\ binFds' = Closed(binFds, t, k)
  /\ UNCHANGED <<key, result, bin, by_path, overlapped, faulted>>

\* fs::write writes all bytes and closes the file it opened, whatever name
\* that file has by now.
PutWrite(t) ==
  LET k == key[t] IN
  /\ Goto(t, "write", "rename")
  /\ tmp' = Written(tmp, tmpFds, t, k)
  /\ bin' = Written(bin, binFds, t, k)
  /\ tmpFds' = Closed(tmpFds, t, k)
  /\ binFds' = Closed(binFds, t, k)
  /\ UNCHANGED <<key, result, by_path, overlapped, faulted>>

\* fs::write returns an error (disk full): no rename.
PutWriteFails(t) ==
  LET k == key[t] IN
  /\ Goto(t, "write", "insert")
  /\ tmpFds' = Closed(tmpFds, t, k)
  /\ binFds' = Closed(binFds, t, k)
  /\ faulted' = [faulted EXCEPT ![k] = TRUE]
  /\ UNCHANGED <<key, result, tmp, bin, by_path, overlapped>>

\* fs::rename(.tmp, .bin); an error, a missing .tmp included, is ignored.
PutRename(t) ==
  LET k == key[t] IN
  /\ Goto(t, "rename", "insert")
  /\ \/ /\ tmp[k] # "none"
        /\ bin' = [bin EXCEPT ![k] = tmp[k]]
        /\ binFds' = [binFds EXCEPT ![k] = tmpFds[k]]
        /\ tmp' = [tmp EXCEPT ![k] = "none"]
        /\ tmpFds' = [tmpFds EXCEPT ![k] = {}]
     \/ UNCHANGED files
  /\ UNCHANGED <<key, result, by_path, overlapped, faulted>>

\* The chunk enters the index under the write lock and the read returns.
PutInsert(t) ==
  LET k == key[t] IN
  /\ Goto(t, "insert", "idle")
  /\ by_path' = [by_path EXCEPT ![ProcessOf[t]][k.path] =
                   InsertChunk(@, k, result[t])]
  /\ UNCHANGED <<key, result, files, overlapped, faulted>>

-----------------------------------------------------------------------------
\* A process dies and is started again: its files are closed as they are,
\* its index is gone (FsByteCache::new), the cache directory stays.
Restart(p) ==
  LET dead == {t \in Readers : ProcessOf[t] = p} IN
  /\ pc' = [t \in Readers |-> IF t \in dead THEN "idle" ELSE pc[t]]
  /\ result' = [t \in Readers |-> IF t \in dead THEN NoBytes ELSE result[t]]
  /\ tmpFds' = [k \in Keys |-> tmpFds[k] \ dead]
  /\ binFds' = [k \in Keys |-> binFds[k] \ dead]
  /\ faulted' = [k \in Keys |->
       faulted[k] \/ (tmpFds[k] \cup binFds[k]) \cap dead # {}]
  /\ by_path' = [by_path EXCEPT ![p] = [q \in Paths |-> {}]]
  /\ UNCHANGED <<key, tmp, bin, overlapped>>

Init ==
  /\ pc = [t \in Readers |-> "idle"]
  /\ key \in [Readers -> Keys]
  /\ result = [t \in Readers |-> NoBytes]
  /\ tmp = [k \in Keys |-> "none"]
  /\ bin = [k \in Keys |-> "none"]
  /\ tmpFds = [k \in Keys |-> {}]
  /\ binFds = [k \in Keys |-> {}]
  /\ by_path = [p \in Processes |-> [q \in Paths |-> {}]]
  /\ overlapped = [k \in Keys |-> FALSE]
  /\ faulted = [k \in Keys |-> FALSE]

Lookup(t) == get_full_object(t) \/ metadata(t) \/ get(t) \/ get_range(t)
Put(t) == PutOpen(t) \/ PutWrite(t) \/ PutWriteFails(t) \/ PutRename(t)
            \/ PutInsert(t)

Next ==
  \/ \E t \in Readers : read_range(t) \/ read_whole(t) \/ Lookup(t)
                          \/ fetch(t) \/ Put(t)
  \/ \E p \in Processes : Restart(p)

Spec == Init /\ [][Next]_vars

\* A thread in a put keeps running: the steps are plain file-system calls.
Fairness == \A t \in Readers : WF_vars(PutWrite(t) \/ PutWriteFails(t))
FairSpec == Spec /\ Fairness

-----------------------------------------------------------------------------
(* Properties                                                               *)

TypeOK ==
  /\ pc \in [Readers -> {"idle", "full", "metadata", "disk", "index", "fetch",
                         "open", "write", "rename", "insert"}]
  /\ key \in [Readers -> Keys]
  /\ result \in [Readers -> BytesType \cup {NoBytes}]
  /\ tmp \in [Keys -> FileState]
  /\ bin \in [Keys -> FileState]
  /\ tmpFds \in [Keys -> SUBSET Readers]
  /\ binFds \in [Keys -> SUBSET Readers]
  /\ by_path \in [Processes -> [Paths -> SUBSET ChunkType]]
  /\ overlapped \in [Keys -> BOOLEAN]
  /\ faulted \in [Keys -> BOOLEAN]

\* Every chunk of every index holds exactly the bytes of its own range, so a
\* superset hit can never return bytes of another position: only fetched
\* bytes enter the index, never bytes that came from the shared files.
IndexExact ==
  \A p \in Processes, q \in Paths : \A c \in by_path[p][q] :
    c.data = BytesOf([path |-> q, start |-> c.start, end |-> c.end])

\* Write-to-temporary-then-rename protects the cached file: it is torn only
\* if two puts of the same key overlapped, and it stays torn only while one of
\* them still has it open, or because a fault cut that put off.
TornOnlyAfterOverlap ==
  \A k \in Keys : bin[k] = "torn" =>
    overlapped[k] /\ (binFds[k] # {} \/ faulted[k])

\* A read returns exactly the bytes asked for, or an error, through every
\* lookup, fetch, fault and restart, unless two puts of that key overlapped.
ReadExactOrOverlap ==
  \A t \in Readers :
    result[t] \in {NoBytes, BytesOf(key[t])} \/ overlapped[key[t]]

\* A torn cached file heals: unless a fault hits the key, some overlapping put
\* writes the full data into it.
TornHeals ==
  \A k \in Keys :
    (bin[k] = "torn" /\ ~faulted[k]) ~> (bin[k] = "full" \/ faulted[k])
-----------------------------------------------------------------------------
(* The inductive invariant behind IndexExact, TornOnlyAfterOverlap and      *)
(* ReadExactOrOverlap                                                       *)

\* From the fetch on, a reader carries exactly the bytes of its key.
FetchedInv ==
  \A t \in Readers :
    pc[t] \in {"open", "write", "rename", "insert"} => result[t] = BytesOf(key[t])

\* CachingStorage::read looks up the range of the whole object.
WholeInv ==
  \A t \in Readers :
    pc[t] \in {"full", "metadata"} =>
      key[t].path \in WholePaths /\ key[t] = WholeKey(key[t].path)

\* A chunk is stored under a key that some read asked for.
ChunkKeyInv ==
  \A p \in Processes, q \in Paths : \A c \in by_path[p][q] :
    [path |-> q, start |-> c.start, end |-> c.end] \in Keys

\* An open file belongs to a put that is about to write.
FdsInv ==
  \A k \in Keys : \A t \in tmpFds[k] \cup binFds[k] :
    pc[t] = "write" /\ key[t] = k

\* An unfinished temporary file is still open, or a fault left it behind.
TmpInv ==
  \A k \in Keys : tmp[k] = "torn" => tmpFds[k] # {} \/ faulted[k]

\* Without an overlap, a key has one put at a time, whose file is the one
\* named .tmp until it renames it, complete.
SolePutInv ==
  \A k \in Keys : ~overlapped[k] =>
    /\ binFds[k] = {}
    /\ \A t \in Readers : key[t] = k =>
         /\ pc[t] = "write" => t \in tmpFds[k]
         /\ pc[t] = "rename" => tmp[k] = "full"
         /\ pc[t] \in Writing =>
              \A u \in Readers : key[u] = k /\ pc[u] \in Writing => u = t

\* The conjunction is inductive.
CacheInv ==
  /\ TypeOK /\ FetchedInv /\ WholeInv /\ ChunkKeyInv /\ FdsInv /\ TmpInv
  /\ SolePutInv /\ IndexExact /\ TornOnlyAfterOverlap /\ ReadExactOrOverlap
=============================================================================
