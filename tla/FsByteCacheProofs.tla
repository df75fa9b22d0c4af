------------------------- MODULE FsByteCacheProofs -------------------------
(***************************************************************************)
(* CacheInv is an inductive invariant of FsByteCache, for any number of    *)
(* readers, processes, objects and ranges.  From it follow that the index  *)
(* is exact, that a cached file is torn only after an overlap of puts, and *)
(* that a read returns the bytes asked for unless puts of its key          *)
(* overlapped.                                                             *)
(***************************************************************************)
EXTENDS FsByteCache, TLAPS

\* The bytes of a key are a byte string of its path.
LEMMA KeyFacts ==
  ASSUME NEW k \in Keys
  PROVE  /\ k \in KeyType
         /\ k.start <= k.end
         /\ BytesOf(k) \in BytesType
         /\ EmptyBytes(k) \in BytesType
         /\ k.path \in WholePaths => k = WholeKey(k.path)
<1>1. CASE k \in Requests
  BY <1>1, RequestAssumption, SplitAssumption DEF KeyType, BytesOf, EmptyBytes, BytesType
<1>2. CASE \E p \in WholePaths : k = WholeKey(p)
  BY <1>2, SizeAssumption, SplitAssumption DEF KeyType, BytesOf, EmptyBytes, BytesType, WholeKey
<1>3. QED
  BY <1>1, <1>2 DEF Keys

\* A key is determined by its three fields.
LEMMA KeyFields ==
  ASSUME NEW k \in KeyType
  PROVE  k = [path |-> k.path, start |-> k.start, end |-> k.end]
BY DEF KeyType

\* slice_cached_range cuts exactly the wanted bytes out of an exact chunk.
LEMMA SliceExact ==
  ASSUME NEW k \in Keys, NEW c \in ChunkType,
         c.data = BytesOf([path |-> k.path, start |-> c.start, end |-> c.end]),
         Covers(c, k)
  PROVE  slice_cached_range(c, k) = BytesOf(k)
<1>1. k \in KeyType /\ k.start <= k.end
  BY KeyFacts
<1>2. c.data.off = c.start /\ c.data.path = k.path
  BY DEF BytesOf
<1>3. c.start + (k.start - c.start) = k.start
  BY <1>1 DEF KeyType, ChunkType
<1>4. QED
  BY <1>2, <1>3 DEF slice_cached_range, BytesOf

\* The invariant holds before any read.
LEMMA InitCacheInv == Init => CacheInv
<1> SUFFICES ASSUME Init PROVE CacheInv
  OBVIOUS
<1>1. TypeOK
  BY DEF Init, TypeOK, FileState
<1>2. FetchedInv /\ WholeInv /\ FdsInv /\ TmpInv /\ ReadExactOrOverlap
  BY DEF Init, FetchedInv, WholeInv, FdsInv, TmpInv, ReadExactOrOverlap
<1>3. ChunkKeyInv /\ IndexExact
  BY DEF Init, ChunkKeyInv, IndexExact
<1>4. SolePutInv /\ TornOnlyAfterOverlap
  BY DEF Init, SolePutInv, TornOnlyAfterOverlap, Writing
<1>5. QED
  BY <1>1, <1>2, <1>3, <1>4 DEF CacheInv

\* Steps before the put change only pc, key and result of one reader that is
\* not in a put, so the files and the index keep their invariants.
LEMMA QuietStep ==
  ASSUME CacheInv, NEW t \in Readers,
         pc[t] \notin {"open", "write", "rename", "insert"},
         NEW q \in {"idle", "full", "metadata", "disk", "index", "fetch", "open"},
         pc' = [pc EXCEPT ![t] = q],
         key' \in [Readers -> Keys],
         \A u \in Readers \ {t} : key'[u] = key[u],
         result' \in [Readers -> BytesType \cup {NoBytes}],
         \A u \in Readers \ {t} : result'[u] = result[u],
         result'[t] \in {NoBytes, BytesOf(key'[t])} \/ overlapped[key'[t]],
         q = "open" => result'[t] = BytesOf(key'[t]),
         q \in {"full", "metadata"} =>
           key'[t].path \in WholePaths /\ key'[t] = WholeKey(key'[t].path),
         UNCHANGED <<files, by_path, overlapped, faulted>>
  PROVE  CacheInv'
<1> USE DEF CacheInv, files
<1>1. TypeOK'
  BY DEF TypeOK
<1>2. FetchedInv'
  BY DEF FetchedInv, TypeOK
<1>3. WholeInv'
  BY DEF WholeInv, TypeOK
<1>4. ChunkKeyInv' /\ IndexExact'
  BY DEF ChunkKeyInv, IndexExact
<1>5. FdsInv'
  BY DEF FdsInv, TypeOK
<1>6. TmpInv' /\ TornOnlyAfterOverlap'
  BY DEF TmpInv, TornOnlyAfterOverlap
<1>7. SolePutInv'
  BY DEF SolePutInv, Writing, TypeOK
<1>8. ReadExactOrOverlap'
  BY DEF ReadExactOrOverlap, TypeOK
<1>9. QED
  BY <1>1, <1>2, <1>3, <1>4, <1>5, <1>6, <1>7, <1>8

\* The two entry points of a read.
LEMMA StartStep ==
  ASSUME CacheInv, NEW t \in Readers, read_range(t) \/ read_whole(t)
  PROVE  CacheInv'
<1>1. CASE read_range(t)
  <2>1. PICK k \in Requests : key' = [key EXCEPT ![t] = k]
    BY <1>1 DEF read_range
  <2>2. QED
    BY <1>1, <2>1, QuietStep DEF read_range, Goto, Return, CacheInv, TypeOK, Keys
<1>2. CASE read_whole(t)
  <2>1. PICK p \in WholePaths : key' = [key EXCEPT ![t] = WholeKey(p)]
    BY <1>2 DEF read_whole
  <2>2. WholeKey(p).path = p /\ WholeKey(p) \in Keys
    BY DEF WholeKey, Keys
  <2>3. /\ pc[t] = "idle" /\ pc' = [pc EXCEPT ![t] = "full"]
        /\ key' \in [Readers -> Keys] /\ key'[t] = WholeKey(p)
        /\ \A u \in Readers \ {t} : key'[u] = key[u]
        /\ result' \in [Readers -> BytesType \cup {NoBytes}]
        /\ result'[t] = NoBytes /\ \A u \in Readers \ {t} : result'[u] = result[u]
        /\ UNCHANGED <<files, by_path, overlapped, faulted>>
    BY <1>2, <2>1, <2>2 DEF read_whole, Goto, Return, CacheInv, TypeOK
  <2>4. QED
    BY <2>2, <2>3, QuietStep
<1>3. QED
  BY <1>1, <1>2

\* lookup_full_object returns the whole object: the only chunk of a path that
\* is read as a whole is the whole object.
LEMMA FullObjectStep ==
  ASSUME CacheInv, NEW t \in Readers, get_full_object(t)
  PROVE  CacheInv'
<1> DEFINE k == key[t]
<1>1. /\ k \in Keys /\ k.path \in Paths /\ ProcessOf[t] \in Processes
      /\ pc[t] = "full" /\ k.path \in WholePaths /\ k = WholeKey(k.path)
  BY KeyFacts, ProcessAssumption
     DEF CacheInv, TypeOK, WholeInv, get_full_object, Goto, KeyType
<1>2. CASE find_full_object(Chunks(t)) = {}
  <2>1. pc' = [pc EXCEPT ![t] = "metadata"] /\ UNCHANGED result
    BY <1>2 DEF get_full_object, Goto
  <2>2. QED
    BY <1>1, <2>1, QuietStep DEF get_full_object, CacheInv, TypeOK, ReadExactOrOverlap
<1>3. ASSUME NEW c \in find_full_object(Chunks(t)),
             Goto(t, "full", "idle"), Return(t, c.data)
      PROVE  CacheInv'
  <2>1. c \in by_path[ProcessOf[t]][k.path]
    BY <1>3 DEF find_full_object, Chunks
  <2>2. /\ [path |-> k.path, start |-> c.start, end |-> c.end] \in Keys
        /\ c.data = BytesOf([path |-> k.path, start |-> c.start, end |-> c.end])
    BY <1>1, <2>1 DEF CacheInv, ChunkKeyInv, IndexExact
  <2>3. [path |-> k.path, start |-> c.start, end |-> c.end] = k
    BY <1>1, <2>2, KeyFacts
  <2>4. c.data = BytesOf(k) /\ c.data \in BytesType
    BY <1>1, <2>2, <2>3, KeyFacts
  <2>5. QED
    BY <1>1, <1>3, <2>4, QuietStep DEF get_full_object, Goto, Return, CacheInv, TypeOK
<1>4. QED
  BY <1>2, <1>3 DEF get_full_object

\* metadata, the disk lookup and the fetch.
LEMMA OtherQuietSteps ==
  ASSUME CacheInv, NEW t \in Readers, metadata(t) \/ get(t) \/ fetch(t)
  PROVE  CacheInv'
<1> DEFINE k == key[t]
<1>1. k \in Keys /\ k \in KeyType /\ BytesOf(k) \in BytesType /\ EmptyBytes(k) \in BytesType
  BY KeyFacts DEF CacheInv, TypeOK
<1>2. CASE metadata(t)
  <2>1. pc[t] = "metadata" /\ k.path \in WholePaths /\ k = WholeKey(k.path)
    BY <1>2 DEF metadata, Goto, CacheInv, WholeInv
  <2>2. k.end = 0 => EmptyBytes(k) = BytesOf(k)
    BY <2>1 DEF EmptyBytes, BytesOf, WholeKey
  <2>3. QED
    BY <1>1, <1>2, <2>1, <2>2, QuietStep
       DEF metadata, Goto, Return, CacheInv, TypeOK, ReadExactOrOverlap
<1>3. CASE get(t)
  <2>1. bin[k] \notin {"none", "full"} => overlapped[k]
    BY <1>1 DEF CacheInv, TypeOK, FileState, TornOnlyAfterOverlap
  <2>2. CASE bin[k] = "none"
    BY <1>1, <1>3, <2>2, QuietStep
       DEF get, Goto, Return, CacheInv, TypeOK, ReadExactOrOverlap
  <2>3. ASSUME bin[k] # "none", NEW b \in FileBytes(k), Return(t, b)
        PROVE  CacheInv'
    <3>1. b \in BytesType /\ (b = BytesOf(k) \/ overlapped[k])
      BY <1>1, <2>1, <2>3 DEF FileBytes, BytesType, KeyType
    <3>2. QED
      BY <1>1, <1>3, <2>3, <3>1, QuietStep DEF get, Goto, Return, CacheInv, TypeOK
  <2>4. QED
    BY <1>3, <2>2, <2>3 DEF get
<1>4. CASE fetch(t)
  BY <1>1, <1>4, QuietStep DEF fetch, Goto, Return, CacheInv, TypeOK, ReadExactOrOverlap
<1>5. QED
  BY <1>2, <1>3, <1>4

\* A superset hit in the index returns exactly the wanted slice.
LEMMA IndexStep ==
  ASSUME CacheInv, NEW t \in Readers, get_range(t)
  PROVE  CacheInv'
<1> DEFINE k == key[t]
<1>1. /\ k \in Keys /\ k.path \in Paths /\ ProcessOf[t] \in Processes
      /\ BytesOf(k) \in BytesType
  BY KeyFacts, ProcessAssumption DEF CacheInv, TypeOK, KeyType
<1>2. CASE find_range(Chunks(t), k) = {}
  BY <1>1, <1>2, QuietStep
     DEF get_range, Goto, CacheInv, TypeOK, ReadExactOrOverlap
<1>3. ASSUME NEW c \in find_range(Chunks(t), k), Goto(t, "index", "idle"),
             Return(t, slice_cached_range(c, k))
      PROVE  CacheInv'
  <2>1. c \in by_path[ProcessOf[t]][k.path] /\ Covers(c, k)
    BY <1>3 DEF find_range, Chunks
  <2>2. /\ c \in ChunkType
        /\ c.data = BytesOf([path |-> k.path, start |-> c.start, end |-> c.end])
    BY <1>1, <2>1 DEF CacheInv, IndexExact, TypeOK
  <2>3. slice_cached_range(c, k) = BytesOf(k)
    BY <1>1, <2>1, <2>2, SliceExact
  <2>4. QED
    BY <1>1, <1>3, <2>3, QuietStep DEF get_range, Goto, Return, CacheInv, TypeOK
<1>4. QED
  BY <1>2, <1>3 DEF get_range

\* Opening the temporary file: it is torn and open, and an overlap with
\* another put of the key is recorded.
LEMMA OpenStep ==
  ASSUME CacheInv, NEW t \in Readers, PutOpen(t)
  PROVE  CacheInv'
<1> DEFINE k == key[t]
<1> USE DEF CacheInv, Goto
<1>1. k \in Keys
  BY DEF TypeOK
<1>2. CASE pc' = [pc EXCEPT ![t] = "insert"] /\ UNCHANGED <<tmp, tmpFds, overlapped>>
  <2>0. pc[t] = "open" /\ UNCHANGED <<key, result, files, by_path, overlapped, faulted>>
    BY <1>2 DEF PutOpen, files
  <2>1. TypeOK'
    BY <1>2, <2>0 DEF TypeOK, files
  <2>2. FetchedInv' /\ WholeInv' /\ ReadExactOrOverlap'
    BY <1>2, <2>0 DEF FetchedInv, WholeInv, ReadExactOrOverlap, TypeOK
  <2>3. FdsInv' /\ TmpInv' /\ TornOnlyAfterOverlap'
    BY <1>2, <2>0 DEF FdsInv, TmpInv, TornOnlyAfterOverlap, TypeOK, files
  <2>4. SolePutInv'
    BY <1>2, <2>0 DEF SolePutInv, Writing, TypeOK, files
  <2>5. ChunkKeyInv' /\ IndexExact'
    BY <2>0 DEF ChunkKeyInv, IndexExact
  <2>6. QED
    BY <2>1, <2>2, <2>3, <2>4, <2>5
<1>3. CASE /\ pc' = [pc EXCEPT ![t] = "write"]
           /\ tmp' = [tmp EXCEPT ![k] = "torn"]
           /\ tmpFds' = [tmpFds EXCEPT ![k] = @ \cup {t}]
           /\ overlapped' = [overlapped EXCEPT ![k] =
                @ \/ \E u \in Readers \ {t} : key[u] = k /\ pc[u] \in Writing]
  <2>0. pc[t] = "open" /\ UNCHANGED <<key, result, bin, binFds, by_path, faulted>>
    BY <1>3 DEF PutOpen
  <2>1. TypeOK'
    <3>1. overlapped' \in [Keys -> BOOLEAN]
      BY <1>1, <1>3, Zenon DEF TypeOK
    <3>2. QED
      BY <1>1, <1>3, <2>0, <3>1 DEF TypeOK, FileState
  <2>2. \A j \in Keys : overlapped[j] => overlapped'[j]
    BY <1>1, <1>3, Zenon DEF TypeOK
  <2>3. FetchedInv' /\ WholeInv'
    BY <1>3, <2>0 DEF FetchedInv, WholeInv, TypeOK
  <2>4. ReadExactOrOverlap'
    BY <2>0, <2>2 DEF ReadExactOrOverlap, TypeOK
  <2>5. FdsInv' /\ TmpInv'
    BY <1>1, <1>3, <2>0 DEF FdsInv, TmpInv, TypeOK
  <2>6. TornOnlyAfterOverlap'
    BY <2>0, <2>2 DEF TornOnlyAfterOverlap
  <2>7. ~overlapped'[k] => ~overlapped[k] /\ \A u \in Readers \ {t} : ~(key[u] = k /\ pc[u] \in Writing)
    BY <1>1, <1>3, Zenon DEF TypeOK
  <2>8. \A j \in Keys \ {k} : overlapped'[j] = overlapped[j]
    BY <1>3, Zenon DEF TypeOK
  <2>9. SolePutInv'
    <3> SUFFICES ASSUME NEW j \in Keys, ~overlapped'[j]
                 PROVE  /\ binFds'[j] = {}
                        /\ \A u \in Readers : key'[u] = j =>
                             /\ pc'[u] = "write" => u \in tmpFds'[j]
                             /\ pc'[u] = "rename" => tmp'[j] = "full"
                             /\ pc'[u] \in Writing =>
                                  \A v \in Readers : key'[v] = j /\ pc'[v] \in Writing => v = u
      BY DEF SolePutInv
    <3>1. CASE j = k
      BY <1>1, <1>3, <2>0, <2>7, <3>1 DEF SolePutInv, Writing, TypeOK
    <3>2. CASE j # k
      BY <1>3, <2>0, <2>8, <3>2 DEF SolePutInv, Writing, TypeOK
    <3>3. QED
      BY <3>1, <3>2
  <2>10. ChunkKeyInv' /\ IndexExact'
    BY <2>0 DEF ChunkKeyInv, IndexExact
  <2>11. QED
    BY <2>1, <2>3, <2>4, <2>5, <2>6, <2>9, <2>10
<1>4. QED
  BY <1>2, <1>3 DEF PutOpen

\* Writing completes the file that was opened, under either name.
LEMMA WriteStep ==
  ASSUME CacheInv, NEW t \in Readers, PutWrite(t)
  PROVE  CacheInv'
<1> DEFINE k == key[t]
<1> USE DEF CacheInv, Goto, PutWrite, Written, Closed
<1>1. k \in Keys
  BY DEF TypeOK
<1>2. TypeOK'
  BY <1>1 DEF TypeOK, FileState
<1>3. FetchedInv' /\ WholeInv' /\ ReadExactOrOverlap'
  BY DEF FetchedInv, WholeInv, ReadExactOrOverlap, TypeOK
<1>4. FdsInv'
  BY <1>1 DEF FdsInv, TypeOK
<1>5. TmpInv'
  BY <1>1 DEF TmpInv, TypeOK
<1>6. TornOnlyAfterOverlap'
  BY <1>1 DEF TornOnlyAfterOverlap, TypeOK
<1>7. SolePutInv'
  BY <1>1 DEF SolePutInv, Writing, TypeOK
<1>8. ChunkKeyInv' /\ IndexExact'
  BY DEF ChunkKeyInv, IndexExact
<1>9. QED
  BY <1>2, <1>3, <1>4, <1>5, <1>6, <1>7, <1>8

\* A failed write closes the file as it is and never reaches the rename.
LEMMA WriteFailsStep ==
  ASSUME CacheInv, NEW t \in Readers, PutWriteFails(t)
  PROVE  CacheInv'
<1> DEFINE k == key[t]
<1> USE DEF CacheInv, Goto, PutWriteFails, Closed
<1>1. k \in Keys
  BY DEF TypeOK
<1>2. TypeOK'
  BY <1>1 DEF TypeOK
<1>3. FetchedInv' /\ WholeInv' /\ ReadExactOrOverlap'
  BY DEF FetchedInv, WholeInv, ReadExactOrOverlap, TypeOK
<1>4. FdsInv'
  BY <1>1 DEF FdsInv, TypeOK
<1>5. TmpInv' /\ TornOnlyAfterOverlap'
  BY <1>1 DEF TmpInv, TornOnlyAfterOverlap, TypeOK
<1>6. SolePutInv'
  BY <1>1 DEF SolePutInv, Writing, TypeOK
<1>7. ChunkKeyInv' /\ IndexExact'
  BY DEF ChunkKeyInv, IndexExact
<1>8. QED
  BY <1>2, <1>3, <1>4, <1>5, <1>6, <1>7

\* Renaming: without an overlap the temporary file is complete and closed.
LEMMA RenameStep ==
  ASSUME CacheInv, NEW t \in Readers, PutRename(t)
  PROVE  CacheInv'
<1> DEFINE k == key[t]
<1> USE DEF CacheInv, Goto
<1>0. /\ k \in Keys /\ pc[t] = "rename" /\ pc' = [pc EXCEPT ![t] = "insert"]
      /\ UNCHANGED <<key, result, by_path, overlapped, faulted>>
  BY DEF TypeOK, PutRename
<1>1. FetchedInv' /\ WholeInv' /\ ReadExactOrOverlap'
  BY <1>0 DEF FetchedInv, WholeInv, ReadExactOrOverlap, TypeOK
<1>2. ChunkKeyInv' /\ IndexExact'
  BY <1>0 DEF ChunkKeyInv, IndexExact
<1>3. CASE UNCHANGED files
  <2>1. TypeOK' /\ FdsInv' /\ TmpInv' /\ TornOnlyAfterOverlap'
    BY <1>0, <1>3 DEF TypeOK, FdsInv, TmpInv, TornOnlyAfterOverlap, files
  <2>2. SolePutInv'
    BY <1>0, <1>3 DEF SolePutInv, Writing, TypeOK, files
  <2>3. QED
    BY <1>1, <1>2, <2>1, <2>2
<1>4. CASE /\ tmp[k] # "none"
           /\ bin' = [bin EXCEPT ![k] = tmp[k]]
           /\ binFds' = [binFds EXCEPT ![k] = tmpFds[k]]
           /\ tmp' = [tmp EXCEPT ![k] = "none"]
           /\ tmpFds' = [tmpFds EXCEPT ![k] = {}]
  <2>1. TypeOK'
    BY <1>0, <1>4 DEF TypeOK, FileState
  <2>2. FdsInv' /\ TmpInv'
    BY <1>0, <1>4 DEF FdsInv, TmpInv, TypeOK
  <2>3. ~overlapped[k] =>
          /\ tmp[k] = "full" /\ tmpFds[k] = {}
          /\ \A u \in Readers : key[u] = k /\ pc[u] \in Writing => u = t
    BY <1>0 DEF SolePutInv, FdsInv, Writing, TypeOK
  <2>4. TornOnlyAfterOverlap'
    BY <1>0, <1>4, <2>3 DEF TornOnlyAfterOverlap, TmpInv, TypeOK
  <2>5. SolePutInv'
    <3> SUFFICES ASSUME NEW j \in Keys, ~overlapped[j]
                 PROVE  /\ binFds'[j] = {}
                        /\ \A u \in Readers : key[u] = j =>
                             /\ pc'[u] = "write" => u \in tmpFds'[j]
                             /\ pc'[u] = "rename" => tmp'[j] = "full"
                             /\ pc'[u] \in Writing =>
                                  \A v \in Readers : key[v] = j /\ pc'[v] \in Writing => v = u
      BY <1>0 DEF SolePutInv
    <3>1. CASE j = k
      BY <1>0, <1>4, <2>3, <3>1 DEF Writing, TypeOK
    <3>2. CASE j # k
      BY <1>0, <1>4, <3>2 DEF SolePutInv, Writing, TypeOK
    <3>3. QED
      BY <3>1, <3>2
  <2>6. QED
    BY <1>1, <1>2, <2>1, <2>2, <2>4, <2>5
<1>5. QED
  BY <1>3, <1>4 DEF PutRename

\* Only fetched bytes enter the index, under the key they were fetched for.
LEMMA InsertStep ==
  ASSUME CacheInv, NEW t \in Readers, PutInsert(t)
  PROVE  CacheInv'
<1> DEFINE k == key[t]
           new == [start |-> k.start, end |-> k.end, data |-> result[t]]
<1> USE DEF CacheInv, Goto
<1>0. /\ k \in Keys /\ k \in KeyType /\ k.path \in Paths /\ ProcessOf[t] \in Processes
      /\ result[t] = BytesOf(k) /\ BytesOf(k) \in BytesType
  <2>1. pc[t] = "insert" /\ k \in Keys
    BY DEF TypeOK, PutInsert
  <2>2. result[t] = BytesOf(k)
    BY <2>1 DEF FetchedInv
  <2>3. QED
    BY <2>1, <2>2, KeyFacts, ProcessAssumption DEF KeyType
<1>1. new \in ChunkType
  BY <1>0 DEF ChunkType, KeyType
<1>2. \A p \in Processes, q \in Paths :
        /\ p = ProcessOf[t] /\ q = k.path =>
             by_path'[p][q] \subseteq by_path[p][q] \cup {new}
        /\ ~(p = ProcessOf[t] /\ q = k.path) => by_path'[p][q] = by_path[p][q]
  BY <1>0 DEF PutInsert, InsertChunk, TypeOK
<1>3. TypeOK'
  <2>1. InsertChunk(by_path[ProcessOf[t]][k.path], k, result[t]) \subseteq ChunkType
    BY <1>0, <1>1 DEF InsertChunk, TypeOK
  <2>2. by_path' \in [Processes -> [Paths -> SUBSET ChunkType]]
    BY <1>0, <2>1 DEF PutInsert, TypeOK
  <2>3. QED
    BY <2>2 DEF PutInsert, TypeOK, files
<1>4. [path |-> k.path, start |-> new.start, end |-> new.end] = k
  BY <1>0, KeyFields
<1>5. ASSUME NEW p \in Processes, NEW q \in Paths, NEW c \in by_path'[p][q]
      PROVE  c \in by_path[p][q] \/ (q = k.path /\ c = new)
  BY <1>2
<1>6. ChunkKeyInv' /\ IndexExact'
  <2>1. ASSUME NEW p \in Processes, NEW q \in Paths, NEW c \in by_path'[p][q]
        PROVE  /\ [path |-> q, start |-> c.start, end |-> c.end] \in Keys
               /\ c.data = BytesOf([path |-> q, start |-> c.start, end |-> c.end])
    <3>1. CASE c \in by_path[p][q]
      BY <3>1 DEF ChunkKeyInv, IndexExact
    <3>2. CASE q = k.path /\ c = new
      BY <1>0, <1>4, <3>2
    <3>3. QED
      BY <2>1, <1>5, <3>1, <3>2
  <2>2. QED
    BY <2>1 DEF ChunkKeyInv, IndexExact
<1>7. /\ pc[t] = "insert" /\ pc' = [pc EXCEPT ![t] = "idle"]
      /\ UNCHANGED <<key, result, files, overlapped, faulted>>
  BY DEF PutInsert
<1>8. FetchedInv' /\ WholeInv' /\ ReadExactOrOverlap'
  BY <1>7 DEF FetchedInv, WholeInv, ReadExactOrOverlap, TypeOK
<1>9. FdsInv' /\ TmpInv' /\ TornOnlyAfterOverlap'
  BY <1>7 DEF FdsInv, TmpInv, TornOnlyAfterOverlap, TypeOK, files
<1>10. SolePutInv'
  BY <1>7 DEF SolePutInv, Writing, TypeOK, files
<1>11. QED
  BY <1>3, <1>6, <1>8, <1>9, <1>10

\* A dead process leaves torn files only where it is recorded as a fault.
LEMMA RestartStep ==
  ASSUME CacheInv, NEW p \in Processes, Restart(p)
  PROVE  CacheInv'
<1> USE DEF CacheInv, Restart
<1>0. /\ \A k \in Keys : faulted[k] => faulted'[k]
      /\ \A k \in Keys : ~faulted'[k] =>
           tmpFds'[k] = tmpFds[k] /\ binFds'[k] = binFds[k]
  BY DEF TypeOK
<1>1. TypeOK'
  <2>1. faulted' \in [Keys -> BOOLEAN]
    BY Zenon
  <2>2. by_path' \in [Processes -> [Paths -> SUBSET ChunkType]]
    BY DEF TypeOK
  <2>3. QED
    BY <2>1, <2>2 DEF TypeOK
<1>2. FetchedInv' /\ WholeInv' /\ ReadExactOrOverlap'
  BY DEF FetchedInv, WholeInv, ReadExactOrOverlap, TypeOK
<1>3. \A r \in Processes, q \in Paths : by_path'[r][q] \subseteq by_path[r][q]
  BY DEF TypeOK
<1>4. ChunkKeyInv' /\ IndexExact'
  BY <1>3 DEF ChunkKeyInv, IndexExact
<1>5. FdsInv'
  BY DEF FdsInv, TypeOK
<1>6. TmpInv'
  BY <1>0 DEF TmpInv
<1>7. TornOnlyAfterOverlap'
  BY <1>0 DEF TornOnlyAfterOverlap
<1>8. SolePutInv'
  BY DEF SolePutInv, Writing, TypeOK
<1>9. QED
  BY <1>1, <1>2, <1>4, <1>5, <1>6, <1>7, <1>8

\* Every step of every reader and every restart preserves the invariant.
LEMMA NextCacheInv ==
  ASSUME CacheInv, [Next]_vars
  PROVE  CacheInv'
<1>1. CASE UNCHANGED vars
  <2>1. TypeOK' /\ FetchedInv' /\ WholeInv' /\ ChunkKeyInv' /\ FdsInv'
    BY <1>1 DEF CacheInv, vars, files, TypeOK, FetchedInv, WholeInv, ChunkKeyInv, FdsInv
  <2>2. TmpInv' /\ SolePutInv' /\ IndexExact' /\ TornOnlyAfterOverlap' /\ ReadExactOrOverlap'
    BY <1>1 DEF CacheInv, vars, files, TmpInv, SolePutInv, IndexExact,
                TornOnlyAfterOverlap, ReadExactOrOverlap
  <2>3. QED
    BY <2>1, <2>2 DEF CacheInv
<1>2. ASSUME NEW t \in Readers,
             read_range(t) \/ read_whole(t) \/ Lookup(t) \/ fetch(t)
      PROVE  CacheInv'
  BY <1>2, StartStep, FullObjectStep, OtherQuietSteps, IndexStep DEF Lookup
<1>3. ASSUME NEW t \in Readers, Put(t)
      PROVE  CacheInv'
  BY <1>3, OpenStep, WriteStep, WriteFailsStep, RenameStep, InsertStep DEF Put
<1>4. ASSUME NEW p \in Processes, Restart(p)
      PROVE  CacheInv'
  BY <1>4, RestartStep
<1>5. QED
  BY <1>1, <1>2, <1>3, <1>4 DEF Next

\* CacheInv is an invariant of the cache.
THEOREM CacheInvariant == Spec => []CacheInv
<1>1. Init => CacheInv
  BY InitCacheInv
<1>2. CacheInv /\ [Next]_vars => CacheInv'
  BY NextCacheInv
<1>3. QED
  BY <1>1, <1>2, PTL DEF Spec

\* Every variable keeps its type: bytes put in the index are always real bytes.
THEOREM TypeCorrect == Spec => []TypeOK
<1>1. CacheInv => TypeOK
  BY DEF CacheInv
<1>2. QED
  BY <1>1, CacheInvariant, PTL

\* The in-memory index of get_range and get_full_object is always exact.
THEOREM IndexAlwaysExact == Spec => []IndexExact
<1>1. CacheInv => IndexExact
  BY DEF CacheInv
<1>2. QED
  BY <1>1, CacheInvariant, PTL

\* FsByteCache::put tears a cached file only by overlapping another put.
THEOREM TornFilesOverlapped == Spec => []TornOnlyAfterOverlap
<1>1. CacheInv => TornOnlyAfterOverlap
  BY DEF CacheInv
<1>2. QED
  BY <1>1, CacheInvariant, PTL

\* A read through the cache returns the bytes asked for unless puts overlapped.
THEOREM ReadsExact == Spec => []ReadExactOrOverlap
<1>1. CacheInv => ReadExactOrOverlap
  BY DEF CacheInv
<1>2. QED
  BY <1>1, CacheInvariant, PTL
=============================================================================
