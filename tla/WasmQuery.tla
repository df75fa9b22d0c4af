----------------------------- MODULE WasmQuery -------------------------------
(***************************************************************************)
(* A query in the browser: the page's runQuery and cancelQuery (app.js),   *)
(* the engine's run_query (idb-wasm), the per-query globals                *)
(* (wasm_query_io.rs), its requests to the REST catalog (rest_vended.rs,   *)
(* wasm_local.rs), the reads of S3 behind a semaphore                      *)
(* (wasm_s3_storage.rs) and the in-memory byte cache (MemoryByteCache).    *)
(*                                                                         *)
(* Everything runs on one thread: an action is what happens between two    *)
(* awaits.  The tokens of queries are 1, 2, ... in the order they start,   *)
(* with a gap for each cancel.                                             *)
(***************************************************************************)
EXTENDS Integers, FiniteSets, Sequences, FiniteSetsExt

CONSTANTS
    MaxTokens,         \* queries and cancels the user asks for, at most
    MaxQueries,        \* queries among them, at most
    Size,              \* object -> its length in bytes
    Wants,             \* a set of sets of reads: what a query may read
    FetchConcurrency,  \* permits of the semaphore
    MaxBytes,          \* of the cache
    Fingerprints,      \* catalogs the user connects to, at most
    CatalogBytes,      \* the length of an answer of the REST catalog
    ConnectRequests    \* requests of a connect: the token, then the lists of tables

(* A read is [path, lo, hi, whole, spawned]: spawned when the code that    *)
(* reads runs in a task of its own (manifests and delete files), which     *)
(* goes on when the query has failed.                                      *)
Paths == DOMAIN Size
Tokens == 1..MaxTokens
Reads == UNION Wants
Length(r) == r.hi - r.lo

(* A path is read by range (data files) or as a whole (metadata), never    *)
(* both: what find_full_object relies on.                                  *)
ASSUME WantsAssumption ==
    /\ MaxTokens \in Nat /\ MaxQueries \in Nat
    /\ FetchConcurrency \in Nat \ {0} /\ MaxBytes \in Nat
    /\ Fingerprints \in Nat \ {0} /\ CatalogBytes \in Nat /\ ConnectRequests \in Nat
    /\ \A p \in Paths : Size[p] \in Nat \ {0}
    /\ \A r \in Reads : /\ r.path \in Paths /\ r.lo \in Nat /\ r.hi \in Nat
                        /\ r.lo < r.hi /\ r.hi <= Size[r.path]
                        /\ r.whole \in BOOLEAN /\ r.spawned \in BOOLEAN
                        /\ r.whole => r.lo = 0 /\ r.hi = Size[r.path]
    /\ \A r, s \in Reads : r.path = s.path => r.whole = s.whole

VARIABLES
    ready,             \* __idbReady
    token,             \* activeQueryToken
    running,           \* queryRunning
    shown,             \* what the status bar says of queries
    cancel,            \* QUERY_CANCEL_REQUESTED
    seen,              \* SEEN_S3_OBJECTS; its size is S3_FILES_FETCHED
    bytes,             \* BYTES_FETCHED
    state,             \* token -> "none", "running", "ok", "failed", "cancelled"
    reads,             \* token -> the query's reads, each with its state
    waiting,           \* the semaphore's queue of <<token, read>>
    orphans,           \* requests whose reader was dropped
    cache,             \* <<path, fingerprint>> -> its cached ranges
    used,              \* bytes_used of the cache
    fingerprint,       \* GLOBAL_CRED_FINGERPRINT
    own,               \* token -> what its own requests have fetched
    mixed,             \* queries that began or ran beside requests of another
    loading,           \* queries the catalog has not sent their tables yet
    connecting,        \* requests of a second connect that are still to come
    quit               \* queries the user has cancelled

page == <<ready, token, running, shown, quit>>
globals == <<cancel, seen, bytes>>
store == <<cache, used, fingerprint>>
catalog == <<loading, connecting>>
vars == <<page, globals, state, reads, waiting, orphans, store, own, mixed, catalog>>

NoReads == [r \in {} |-> [st |-> "todo", leg |-> "get", got |-> <<0, 0>>]]
Nothing == [files |-> 0, bytes |-> 0]

Init ==
    /\ ready = TRUE /\ token = 0 /\ running = FALSE /\ quit = {}
    /\ shown = [what |-> "ready", of |-> 0, stats |-> Nothing]
    /\ cancel = FALSE /\ seen = {} /\ bytes = 0
    /\ state = [t \in Tokens |-> "none"]
    /\ reads = [t \in Tokens |-> NoReads]
    /\ waiting = <<>> /\ orphans = {}
    /\ cache = [k \in {} |-> {}] /\ used = 0 /\ fingerprint = 1
    /\ own = [t \in Tokens |-> [files |-> {}, bytes |-> 0]]
    /\ mixed = {} /\ loading = {} /\ connecting = 0

Running(t) == state[t] = "running"
Sent(t, r) == r \in DOMAIN reads[t] /\ reads[t][r].st = "fetch"
Others(t) == {u \in Tokens \ {t} : reads[u] # NoReads \/ Running(u)}

-----------------------------------------------------------------------------
(* Mutant: the objects of the last query are kept. *)
ResetKeepsObjects == cancel' = FALSE /\ bytes' = 0 /\ UNCHANGED seen

(* reset_query_state. *)
Reset == cancel' = FALSE /\ seen' = {} /\ bytes' = 0

(* runQuery up to its await, and run_query up to its first one.  Nothing   *)
(* asks whether a query is running: the button is disabled then, the       *)
(* keyboard is not.                                                        *)
RunQuery(want) ==
    LET t == token + 1
    IN  /\ ready /\ t \in Tokens
        /\ Cardinality({u \in Tokens : state[u] # "none"}) < MaxQueries
        /\ token' = t /\ running' = TRUE
        /\ shown' = [what |-> "running", of |-> t, stats |-> Nothing]
        /\ Reset
        /\ state' = [state EXCEPT ![t] = "running"]
        /\ reads' = [reads EXCEPT ![t] = [r \in want |->
                        [st |-> "todo", leg |-> IF r.whole THEN "head" ELSE "get", got |-> <<0, 0>>]]]
        /\ mixed' = IF Others(t) # {} \/ orphans # {} THEN mixed \cup {t} \cup Others(t) ELSE mixed
        /\ loading' = loading \cup {t}
        /\ UNCHANGED <<ready, quit, waiting, orphans, store, own, connecting>>

(* cancelQuery: the promise is left alone, the flag stops new requests. *)
CancelQuery ==
    /\ running /\ token + 1 \in Tokens
    /\ token' = token + 1 /\ running' = FALSE
    /\ cancel' = TRUE
    /\ shown' = [what |-> "cancelled", of |-> token, stats |-> Nothing]
    /\ quit' = quit \cup {token}
    /\ UNCHANGED <<ready, seen, bytes, state, reads, waiting, orphans, store, own, mixed, catalog>>

(* QUERY_UI_WAIT_MS has passed. *)
UiTimeout ==
    /\ running /\ shown.what = "running"
    /\ shown' = [shown EXCEPT !.what = "still running"]
    /\ UNCHANGED <<ready, token, running, quit, globals, state, reads, waiting, orphans, store,
                   own, mixed, catalog>>

(* initEngine again, with the demo or with a catalog: the page runs no     *)
(* query any more, as store_session refuses a second session, but not      *)
(* before install_global_byte_cache has replaced the fingerprint and the   *)
(* catalog has been asked for a token and for its tables.                  *)
Reconnect ==
    /\ ready' = FALSE
    /\ \/ UNCHANGED <<fingerprint, connecting>>
       \/ /\ fingerprint < Fingerprints
          /\ fingerprint' = fingerprint + 1
          /\ connecting' = connecting + ConnectRequests
    /\ UNCHANGED <<token, running, shown, quit, globals, state, reads, waiting, orphans, cache,
                   used, own, mixed, loading>>

(* An answer to a connect is counted as every HTTP body is (from_response),*)
(* beside the queries that run.                                            *)
ConnectAnswer ==
    /\ connecting > 0
    /\ connecting' = connecting - 1
    /\ bytes' = bytes + CatalogBytes
    /\ mixed' = mixed \cup {t \in Tokens : Running(t)}
    /\ UNCHANGED <<page, cancel, seen, state, reads, waiting, orphans, store, own, loading>>

(* The connect is given up: what it had still to ask is not asked. *)
ConnectFails ==
    /\ \E n \in 0..connecting - 1 : connecting' = n
    /\ UNCHANGED <<page, globals, state, reads, waiting, orphans, store, own, mixed, loading>>

-----------------------------------------------------------------------------
(* Mutant: whatever query ends is shown. *)
FinishAny(t, what, stats) ==
    /\ running' = FALSE
    /\ shown' = [what |-> what, of |-> t, stats |-> stats]

(* The end of a query's promise, seen by runQuery.  A query that is not    *)
(* the active one any more changes nothing on the page.                    *)
Finish(t, what, stats) ==
    IF t = token
    THEN /\ running' = FALSE
         /\ shown' = [what |-> what, of |-> t, stats |-> stats]
    ELSE UNCHANGED <<running, shown>>

(* The reads of a query that has failed: the ones a task of their own has  *)
(* begun go on, the others leave the queue or give their permit back.      *)
GoOn(t, r) == reads[t][r].st \in {"wait", "fetch"} /\ r.spawned

(* A queue without the members of W, which have given up waiting. *)
Leave(q, W) ==
    LET left[n \in 0..Len(q)] ==
            IF n = 0 THEN <<>>
            ELSE IF q[n] \in W THEN left[n - 1] ELSE Append(left[n - 1], q[n])
    IN  left[Len(q)]

(* Mutant: a dropped read stays in the queue. *)
DropReadsQueued(t, gone) ==
    /\ reads' = [reads EXCEPT ![t] = [r \in {s \in DOMAIN @ \ gone : GoOn(t, s)} |-> @[r]]]
    /\ UNCHANGED <<waiting, orphans>>

(* The request of a dropped read was handed to the browser: it goes on.    *)
DropReads(t, gone) ==
    /\ reads' = [reads EXCEPT ![t] = [r \in {s \in DOMAIN @ \ gone : GoOn(t, s)} |-> @[r]]]
    /\ waiting' = Leave(waiting, {<<t, r>> : r \in {s \in DOMAIN reads[t] : ~GoOn(t, s)}})
    /\ orphans' = orphans \cup {<<t, r>> : r \in {s \in DOMAIN reads[t] \ gone :
                                                    /\ Sent(t, s) /\ ~GoOn(t, s)
                                                    /\ reads[t][s].leg = "get"}}

(* The query fails, with what is left of its reads. *)
FailQuery(t, gone, how) ==
    /\ state' = [state EXCEPT ![t] = how]
    /\ DropReads(t, gone)
    /\ Finish(t, how, Nothing)

(* The read r fails: the query with it, unless that has ended before. *)
FailRead(t, r, how) ==
    /\ IF Running(t)
       THEN FailQuery(t, {r}, how)
       ELSE /\ reads' = [reads EXCEPT ![t] = [s \in DOMAIN @ \ {r} |-> @[s]]]
            /\ UNCHANGED <<state, waiting, orphans, running, shown>>
    /\ UNCHANGED <<ready, token, quit, globals, store, own, mixed, catalog>>

(* load_table_provider: the catalog sends the tables of the query. *)
LoadAnswer(t) ==
    /\ t \in loading /\ Running(t)
    /\ loading' = loading \ {t}
    /\ bytes' = bytes + CatalogBytes
    /\ own' = [own EXCEPT ![t].bytes = @ + CatalogBytes]
    /\ UNCHANGED <<page, cancel, seen, state, reads, waiting, orphans, store, mixed, connecting>>

(* The catalog does not answer, or not with tables. *)
LoadFails(t) ==
    /\ t \in loading /\ Running(t)
    /\ loading' = loading \ {t}
    /\ FailQuery(t, {}, "failed")
    /\ UNCHANGED <<ready, token, quit, globals, store, own, mixed, connecting>>

-----------------------------------------------------------------------------
(* Mutant: a chunk that starts early enough is taken. *)
CoversStart(c, r) == c[1] <= r.lo /\ c[2] > r.lo

(* slice_cached_range. *)
Covers(c, r) == c[1] <= r.lo /\ c[2] >= r.hi

(* PathByteCache: find_full_object takes the longest chunk from 0,         *)
(* find_range the part of the first chunk that covers the range.           *)
ChunksOf(p, f) == IF <<p, f>> \in DOMAIN cache THEN cache[<<p, f>>] ELSE {}
FullObject(cs) == {c \in cs : c[1] = 0 /\ \A d \in cs : d[1] = 0 => d[2] <= c[2]}
Slice(c, r) == <<r.lo, IF c[2] < r.hi THEN c[2] ELSE r.hi>>

Lookup(r, f) ==
    IF r.whole THEN FullObject(ChunksOf(r.path, f))
    ELSE {Slice(c, r) : c \in {d \in ChunksOf(r.path, f) : Covers(d, r)}}

Total(ch) == MapThenSumSet(LAMBDA k : MapThenSumSet(LAMBDA c : c[2] - c[1], ch[k]), DOMAIN ch)
Without(ch, E) == [k \in DOMAIN ch \ E |-> ch[k]]

(* Mutant: the incoming bytes are not counted. *)
EvictedEarly(ch, n) ==
    IF Total(ch) <= MaxBytes THEN {ch} ELSE {Without(ch, DOMAIN ch)}

(* evict_if_needed: paths go, in the order of a HashMap, until the new     *)
(* bytes fit or none is left.                                              *)
Evicted(ch, n) ==
    LET Fits(E) == Total(Without(ch, E)) + n <= MaxBytes
    IN  {Without(ch, E) : E \in {E \in SUBSET DOMAIN ch :
            /\ Fits(E) \/ E = DOMAIN ch
            /\ E # {} => \E e \in E : ~Fits(E \ {e})}}

(* MemoryByteCache::put. *)
Inserted(ch, k, c) ==
    [i \in DOMAIN ch \cup {k} |->
        IF i # k THEN ch[i] ELSE IF k \in DOMAIN ch THEN ch[k] \cup {c} ELSE {c}]

Put(ch, k, c) == {Inserted(e, k, c) : e \in Evicted(ch, c[2] - c[1])}

Cached(ch) == cache' = ch /\ used' = Total(ch)

-----------------------------------------------------------------------------
SetRead(t, r, st, leg, got) ==
    reads' = [reads EXCEPT ![t][r] = [st |-> st, leg |-> leg, got |-> got]]

(* CachingStorage was built under the first fingerprint and looks there.   *)
HitOuter(t, r) ==
    /\ \E c \in Lookup(r, 1) : SetRead(t, r, "done", "get", c)
    /\ UNCHANGED <<page, globals, state, waiting, orphans, store, own, mixed, catalog>>

(* The S3 storage inside looks under the fingerprint of the moment, and    *)
(* what it finds is cached once more outside.                              *)
HitInner(t, r) ==
    /\ Lookup(r, 1) = {}
    /\ \E c \in Lookup(r, fingerprint) :
          /\ SetRead(t, r, "done", "get", c)
          /\ \E ch \in Put(cache, <<r.path, 1>>, <<r.lo, r.hi>>) : Cached(ch)
    /\ UNCHANGED <<page, globals, state, waiting, orphans, fingerprint, own, mixed, catalog>>

(* signed_request up to the semaphore.  A GET is recorded before it waits. *)
Enqueue(t, r, leg) ==
    /\ SetRead(t, r, "wait", leg, <<0, 0>>)
    /\ waiting' = Append(waiting, <<t, r>>)
    /\ IF leg = "get"
       THEN /\ seen' = seen \cup {r.path}
            /\ own' = [own EXCEPT ![t].files = @ \cup {r.path}]
       ELSE UNCHANGED <<seen, own>>
    /\ UNCHANGED <<page, cancel, bytes, state, orphans, store, mixed, catalog>>

(* CachingFileRead::read and CachingStorage::read up to their first await. *)
(* The inner lookup of a whole object comes after its size is known.       *)
BeginRead(t, r) ==
    /\ Running(t) /\ t \notin loading /\ reads[t][r].st = "todo"
    /\ \/ cancel /\ FailRead(t, r, "cancelled")
       \/ ~cancel /\ HitOuter(t, r)
       \/ ~cancel /\ ~r.whole /\ HitInner(t, r)
       \/ /\ ~cancel /\ Lookup(r, 1) = {}
          /\ r.whole \/ Lookup(r, fingerprint) = {}
          /\ Enqueue(t, r, reads[t][r].leg)

(* Mutant: the permit of the HEAD is kept for the GET that follows it. *)
HoldingForBoth ==
    {w \in Tokens \X Reads : \/ Sent(w[1], w[2])
                             \/ /\ w[2] \in DOMAIN reads[w[1]] /\ w[2].whole
                                /\ reads[w[1]][w[2]].st = "wait" /\ reads[w[1]][w[2]].leg = "get"}

(* A permit is held from the queue to the answer. *)
Holding == {w \in Tokens \X Reads : Sent(w[1], w[2])}

(* The semaphore is fair: the first in the queue gets the permit. *)
Acquire ==
    /\ waiting # <<>> /\ Cardinality(Holding) < FetchConcurrency
    /\ LET t == Head(waiting)[1]
           r == Head(waiting)[2]
       IN  SetRead(t, r, "fetch", reads[t][r].leg, <<0, 0>>)
    /\ waiting' = Tail(waiting)
    /\ UNCHANGED <<page, globals, state, orphans, store, own, mixed, catalog>>

(* The answer to a HEAD: the whole object is looked up again, then got.    *)
HeadAnswer(t, r) ==
    /\ Sent(t, r) /\ reads[t][r].leg = "head"
    /\ \/ HitOuter(t, r)
       \/ HitInner(t, r)
       \/ /\ Lookup(r, 1) = {} /\ Lookup(r, fingerprint) = {}
          /\ \/ cancel /\ FailRead(t, r, "cancelled")
             \/ ~cancel /\ Enqueue(t, r, "get")

(* The answer to a GET: counted, put in the cache under the fingerprint of *)
(* the moment and under the storage's own.                                 *)
GetAnswer(t, r) ==
    /\ Sent(t, r) /\ reads[t][r].leg = "get"
    /\ bytes' = bytes + Length(r)
    /\ own' = [own EXCEPT ![t].bytes = @ + Length(r)]
    /\ \E inner \in Put(cache, <<r.path, fingerprint>>, <<r.lo, r.hi>>) :
          \E outer \in Put(inner, <<r.path, 1>>, <<r.lo, r.hi>>) : Cached(outer)
    /\ SetRead(t, r, "done", "get", <<r.lo, r.hi>>)
    /\ UNCHANGED <<page, cancel, seen, state, waiting, orphans, fingerprint, mixed, catalog>>

(* A network error, or a status that is not a success. *)
RequestFails(t, r) == Sent(t, r) /\ FailRead(t, r, "failed")

(* The answer to a request nobody waits for is counted all the same. *)
OrphanAnswer(o) ==
    /\ bytes' = bytes + Length(o[2])
    /\ orphans' = orphans \ {o}
    /\ UNCHANGED <<page, cancel, seen, state, reads, waiting, store, own, mixed, catalog>>

(* run_query after session.query: a cancel that came late still counts.    *)
EndQuery(t) ==
    /\ Running(t) /\ t \notin loading /\ \A r \in DOMAIN reads[t] : reads[t][r].st = "done"
    /\ LET how == IF cancel THEN "cancelled" ELSE "ok"
       IN  /\ state' = [state EXCEPT ![t] = how]
           /\ Finish(t, how, IF cancel THEN Nothing
                             ELSE [files |-> Cardinality(seen), bytes |-> bytes])
    /\ reads' = [reads EXCEPT ![t] = NoReads]
    /\ UNCHANGED <<ready, token, quit, globals, waiting, orphans, store, own, mixed, catalog>>

(* A task that goes on after its query has ended with its read done. *)
EndTask(t, r) ==
    /\ ~Running(t) /\ reads[t][r].st = "done"
    /\ reads' = [reads EXCEPT ![t] = [s \in DOMAIN @ \ {r} |-> @[s]]]
    /\ UNCHANGED <<page, globals, state, waiting, orphans, store, own, mixed, catalog>>

ReadStep(t, r) ==
    \/ BeginRead(t, r)
    \/ HeadAnswer(t, r)
    \/ GetAnswer(t, r)
    \/ RequestFails(t, r)
    \/ EndTask(t, r)

(* What the engine and the browser do. *)
EngineStep ==
    \/ \E t \in Tokens : LoadAnswer(t) \/ LoadFails(t) \/ EndQuery(t)
    \/ \E t \in Tokens : \E r \in DOMAIN reads[t] : ReadStep(t, r)
    \/ Acquire
    \/ \E o \in orphans : OrphanAnswer(o)
    \/ ConnectAnswer \/ ConnectFails

Next ==
    \/ \E want \in Wants : RunQuery(want)
    \/ CancelQuery
    \/ UiTimeout
    \/ Reconnect
    \/ EngineStep

Spec == Init /\ [][Next]_vars

(* While something can be done, something is: tasks that can run are run,  *)
(* the semaphore hands its permits out, and the browser answers a request  *)
(* or gives it up.  Nothing is done for ever.                              *)
Fairness == WF_vars(EngineStep)

FairSpec == Spec /\ Fairness

-----------------------------------------------------------------------------
ReadStates == [st : {"todo", "wait", "fetch", "done"}, leg : {"head", "get"}, got : Nat \X Nat]

(* No more requests are under way than the semaphore has permits. *)
PermitsKept == Cardinality(Holding) <= FetchConcurrency

(* The state has its shape; a read waits in the queue exactly when its     *)
(* state says so, and no more requests are under way than there are        *)
(* permits.                                                                *)
TypeOK ==
    /\ ready \in BOOLEAN /\ running \in BOOLEAN /\ cancel \in BOOLEAN
    /\ token \in 0..MaxTokens /\ quit \subseteq Tokens /\ mixed \subseteq Tokens
    /\ seen \subseteq Paths /\ bytes \in Nat /\ fingerprint \in 1..Fingerprints
    /\ loading \subseteq Tokens /\ connecting \in Nat
    /\ \A t \in Tokens : /\ DOMAIN reads[t] \subseteq Reads
                         /\ \A r \in DOMAIN reads[t] : reads[t][r] \in ReadStates
    /\ \A t \in Tokens : \A r \in Reads :
          (r \in DOMAIN reads[t] /\ reads[t][r].st = "wait")
              <=> \E i \in DOMAIN waiting : waiting[i] = <<t, r>>
    /\ PermitsKept

(* What the page says of a finished query is about the last one that was   *)
(* started and not cancelled, whatever queries are still in flight, and    *)
(* the page waits exactly while that query runs.                           *)
ShownIsCurrent ==
    /\ running <=> token # 0 /\ Running(token)
    /\ shown.what \in {"ok", "failed"} =>
          /\ shown.of \notin quit /\ state[shown.of] = shown.what
          /\ \A t \in Tokens : state[t] # "none" => t <= shown.of

(* The cache counts what it holds and stays within max_bytes, but for one  *)
(* chunk that alone is larger, in which case it holds nothing else.        *)
CacheBounded ==
    /\ used = Total(cache)
    /\ used > MaxBytes => \E k \in DOMAIN cache : DOMAIN cache = {k} /\ Cardinality(cache[k]) = 1

(* A read that has returned has the bytes it asked for, from wherever they *)
(* came: the two caches in a row, evictions and a changed fingerprint      *)
(* never give it others.                                                   *)
BytesAsAsked ==
    \A t \in Tokens : \A r \in DOMAIN reads[t] :
        reads[t][r].st = "done" => reads[t][r].got = <<r.lo, r.hi>>

(* The files and bytes shown with a result are those of the query's own    *)
(* requests, to S3 and to the catalog, unless another query, a request     *)
(* left from one or a connect was under way: the counters are global.      *)
StatsOwn ==
    shown.what = "ok" /\ shown.of \notin mixed =>
        shown.stats = [files |-> Cardinality(own[shown.of].files), bytes |-> own[shown.of].bytes]

(* Every query ends, whatever was cancelled, failed or evicted meanwhile:  *)
(* no read waits for ever for a permit a dropped one has taken with it,    *)
(* and after the last query that is asked for (MaxQueries) none runs.      *)
Settles == (\E t \in Tokens : Running(t)) ~> (\A t \in Tokens : ~Running(t))

=============================================================================
