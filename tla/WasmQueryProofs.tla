--------------------------- MODULE WasmQueryProofs ---------------------------
(***************************************************************************)
(* Proofs about WasmQuery: what the page shows, the bytes a read returns,  *)
(* the statistics shown with a result, the permits and the queue of the    *)
(* semaphore and the bound of the cache.  Each has an invariant of its     *)
(* own; the queue is a recursive function, about which the lemmas argue    *)
(* from a least counterexample, and so are the sums (SumTheorems).         *)
(***************************************************************************)
EXTENDS WasmQuery, SumTheorems

QueryStates == {"none", "running", "ok", "failed", "cancelled"}

(* Tokens are drawn in order; a cancelled query is behind the active one,  *)
(* and a result on the page is the active query's.                         *)
PageInv ==
    /\ token \in 0..MaxTokens
    /\ state \in [Tokens -> QueryStates]
    /\ \E w, o, s : shown = [what |-> w, of |-> o, stats |-> s]
    /\ \A q \in quit : q \in Tokens /\ q < token
    /\ \A t \in Tokens : t > token => state[t] = "none"
    /\ running <=> token # 0 /\ Running(token)
    /\ shown.what \in {"ok", "failed"} =>
          token # 0 /\ shown.of = token /\ state[token] = shown.what

-----------------------------------------------------------------------------
\* A query's promise settles.
Ends(t, how, stats) ==
    /\ Running(t)
    /\ state' = [state EXCEPT ![t] = how]
    /\ Finish(t, how, stats)
    /\ UNCHANGED <<token, quit>>

\* What fails ends its query, or is the last of a task that outlived it.
Fails(t, gone, how) ==
    /\ \/ Running(t) /\ FailQuery(t, gone, how)
       \/ /\ ~Running(t)
          /\ reads' = [reads EXCEPT ![t] = [s \in DOMAIN @ \ gone |-> @[s]]]
          /\ UNCHANGED <<state, waiting, orphans, running, shown>>
    /\ UNCHANGED <<ready, token, quit, globals, store, own, mixed>>

\* A read fails, or the load of the tables before the reads.
LEMMA WhatFails ==
  /\ \A t, r, how : FailRead(t, r, how) => Fails(t, {r}, how) /\ UNCHANGED catalog
  /\ \A t : LoadFails(t) => /\ Running(t) /\ Fails(t, {}, "failed")
                            /\ loading' = loading \ {t} /\ UNCHANGED connecting
<1>1. ASSUME NEW t, NEW r, NEW how, FailRead(t, r, how)
      PROVE  Fails(t, {r}, how) /\ UNCHANGED catalog
  BY <1>1 DEF FailRead, Fails
<1>2. ASSUME NEW t, LoadFails(t)
      PROVE  /\ Running(t) /\ Fails(t, {}, "failed")
             /\ loading' = loading \ {t} /\ UNCHANGED connecting
  BY <1>2 DEF LoadFails, Fails
<1>3. QED
  BY <1>1, <1>2

\* The page's part of it.
LEMMA FailPage ==
  ASSUME NEW t, NEW gone, NEW how, Fails(t, gone, how)
  PROVE  Ends(t, how, Nothing) \/ UNCHANGED <<token, running, shown, quit, state>>
BY DEF Fails, FailQuery, Ends

\* What a step does to the page and to the states of the queries.
LEMMA PageSteps ==
  ASSUME [Next]_vars
  PROVE  \/ \E want \in Wants : RunQuery(want)
         \/ CancelQuery
         \/ UiTimeout
         \/ \E t \in Tokens : \E how \in {"failed", "cancelled"} : Ends(t, how, Nothing)
         \/ \E t \in Tokens : \E how \in {"ok", "cancelled"}, stats \in
               {Nothing, [files |-> Cardinality(seen), bytes |-> bytes]} : Ends(t, how, stats)
         \/ UNCHANGED <<token, running, shown, quit, state>>
<1>1. ASSUME NEW t \in Tokens, NEW r \in DOMAIN reads[t], ReadStep(t, r)
      PROVE  \/ \E how \in {"failed", "cancelled"} : Ends(t, how, Nothing)
             \/ UNCHANGED <<token, running, shown, quit, state>>
  <2>1. CASE FailRead(t, r, "cancelled")
    BY <2>1, WhatFails, FailPage
  <2>2. CASE FailRead(t, r, "failed")
    BY <2>2, WhatFails, FailPage
  <2>3. CASE UNCHANGED <<page, state>>
    BY <2>3 DEF page
  <2>4. BeginRead(t, r) => FailRead(t, r, "cancelled") \/ UNCHANGED <<page, state>>
    BY DEF BeginRead, HitOuter, HitInner, Enqueue
  <2>5. HeadAnswer(t, r) => FailRead(t, r, "cancelled") \/ UNCHANGED <<page, state>>
    BY DEF HeadAnswer, HitOuter, HitInner, Enqueue
  <2>6. GetAnswer(t, r) \/ EndTask(t, r) => UNCHANGED <<page, state>>
    BY DEF GetAnswer, EndTask
  <2>7. QED
    BY <1>1, <2>1, <2>2, <2>3, <2>4, <2>5, <2>6 DEF ReadStep, RequestFails
<1>2. ASSUME NEW t \in Tokens, EndQuery(t)
      PROVE  \E how \in {"ok", "cancelled"}, stats \in
                {Nothing, [files |-> Cardinality(seen), bytes |-> bytes]} : Ends(t, how, stats)
  BY <1>2 DEF EndQuery, Ends
<1>3. CASE \/ Acquire \/ Reconnect \/ (\E o \in orphans : OrphanAnswer(o))
           \/ ConnectAnswer \/ ConnectFails \/ \E t \in Tokens : LoadAnswer(t)
  BY <1>3 DEF Acquire, Reconnect, OrphanAnswer, ConnectAnswer, ConnectFails, LoadAnswer, page
<1>4. CASE \E t \in Tokens : LoadFails(t)
  BY <1>4, WhatFails, FailPage
<1>5. CASE UNCHANGED vars
  BY <1>5 DEF vars, page
<1>6. QED
  BY <1>1, <1>2, <1>3, <1>4, <1>5 DEF Next, EngineStep

\* The page's invariant is kept.
LEMMA PageStep ==
  ASSUME PageInv, [Next]_vars
  PROVE  PageInv'
<1>1. MaxTokens \in Nat /\ Tokens = 1..MaxTokens /\ token \in 0..MaxTokens
  BY WantsAssumption DEF PageInv, Tokens
<1>2. ASSUME NEW want \in Wants, RunQuery(want)
      PROVE  PageInv'
  <2>1. /\ token' = token + 1 /\ token' \in Tokens /\ quit' = quit /\ running' = TRUE
        /\ state' = [state EXCEPT ![token + 1] = "running"]
        /\ shown' = [what |-> "running", of |-> token + 1, stats |-> Nothing]
    BY <1>2 DEF RunQuery
  <2>2. shown'.what = "running"
    BY <2>1
  <2>3. state' \in [Tokens -> QueryStates] /\ state'[token'] = "running"
        /\ \A t \in Tokens : t > token' => state'[t] = "none"
    BY <1>1, <2>1 DEF PageInv, QueryStates
  <2>4. \E w, o, s : shown' = [what |-> w, of |-> o, stats |-> s]
    BY <2>1
  <2>5. running' <=> token' # 0 /\ Running(token)'
    BY <1>1, <2>1, <2>3 DEF Running
  <2>6. \A q \in quit' : q \in Tokens /\ q < token'
    BY <1>1, <2>1 DEF PageInv
  <2>7. token' \in 0..MaxTokens
    BY <1>1, <2>1
  <2>8. QED
    BY <2>2, <2>3, <2>4, <2>5, <2>6, <2>7 DEF PageInv
<1>3. CASE CancelQuery
  <2>1. /\ token' = token + 1 /\ token' \in Tokens /\ quit' = quit \cup {token}
        /\ running' = FALSE /\ running /\ state' = state
        /\ shown' = [what |-> "cancelled", of |-> token, stats |-> Nothing]
    BY <1>3 DEF CancelQuery
  <2>2. shown'.what = "cancelled"
    BY <2>1
  <2>3. token \in Tokens /\ state'[token'] = "none"
    BY <1>1, <2>1 DEF PageInv
  <2>4. \E w, o, s : shown' = [what |-> w, of |-> o, stats |-> s]
    BY <2>1
  <2>5. running' <=> token' # 0 /\ Running(token)'
    BY <1>1, <2>1, <2>3 DEF Running
  <2>6. \A q \in quit' : q \in Tokens /\ q < token'
    BY <1>1, <2>1, <2>3 DEF PageInv
  <2>7. token' \in 0..MaxTokens
    BY <1>1, <2>1
  <2>8. state' \in [Tokens -> QueryStates] /\ \A t \in Tokens : t > token' => state'[t] = "none"
    BY <1>1, <2>1 DEF PageInv
  <2>9. QED
    BY <2>2, <2>4, <2>5, <2>6, <2>7, <2>8 DEF PageInv
<1>4. CASE UiTimeout
  <2>1. PICK w, o, s : shown = [what |-> w, of |-> o, stats |-> s]
    BY DEF PageInv
  <2>2. shown' = [what |-> "still running", of |-> o, stats |-> s]
    BY <1>4, <2>1 DEF UiTimeout
  <2>3. shown'.what = "still running" /\ UNCHANGED <<token, running, quit, state>>
    BY <1>4, <2>2 DEF UiTimeout
  <2>4. QED
    BY <1>1, <2>2, <2>3 DEF PageInv, Running
<1>5. ASSUME NEW t \in Tokens, NEW how \in {"ok", "failed", "cancelled"}, NEW stats,
             Ends(t, how, stats)
      PROVE  PageInv'
  <2>1. /\ Running(t) /\ state' = [state EXCEPT ![t] = how] /\ UNCHANGED <<token, quit>>
    BY <1>5 DEF Ends
  <2>2. t <= token /\ token # 0
    BY <1>1, <2>1 DEF PageInv, Running
  <2>3. /\ state' \in [Tokens -> QueryStates] /\ state'[t] = how
        /\ \A u \in Tokens : u # t => state'[u] = state[u]
        /\ \A u \in Tokens : u > token => state'[u] = "none"
    BY <1>1, <2>1, <2>2 DEF PageInv, QueryStates
  <2>4. CASE t = token
    <3>1. running' = FALSE /\ shown' = [what |-> how, of |-> t, stats |-> stats]
      BY <1>5, <2>4 DEF Ends, Finish
    <3>2. shown'.what = how /\ shown'.of = t
      BY <3>1
    <3>3. QED
      BY <1>1, <2>1, <2>2, <2>3, <2>4, <3>1, <3>2 DEF PageInv, Running
  <2>5. CASE t # token
    <3>1. UNCHANGED <<running, shown>>
      BY <1>5, <2>5 DEF Ends, Finish
    <3>2. token \in Tokens
      BY <1>1, <2>2
    <3>3. state'[token'] = state[token]
      BY <2>1, <2>3, <2>5, <3>2
    <3>4. QED
      BY <1>1, <2>1, <2>2, <2>3, <3>1, <3>3 DEF PageInv, Running
  <2>6. QED
    BY <2>4, <2>5
<1>6. CASE UNCHANGED <<token, running, shown, quit, state>>
  BY <1>6 DEF PageInv, Running
<1>7. QED
  BY <1>2, <1>3, <1>4, <1>5, <1>6, PageSteps

\* The page before the first query.
LEMMA PageInit == Init => PageInv
<1>1. SUFFICES ASSUME Init PROVE PageInv
  OBVIOUS
<1>2. shown = [what |-> "ready", of |-> 0, stats |-> Nothing] /\ shown.what = "ready"
  BY <1>1 DEF Init
<1>3. token = 0 /\ 0 \in 0..MaxTokens /\ running = FALSE /\ quit = {}
      /\ state = [t \in Tokens |-> "none"]
  BY <1>1, WantsAssumption DEF Init
<1>4. QED
  BY <1>2, <1>3 DEF PageInv, QueryStates

\* What the invariant says of what is shown.
LEMMA PageShows == PageInv => ShownIsCurrent
<1>1. SUFFICES ASSUME PageInv PROVE ShownIsCurrent
  OBVIOUS
<1>2. MaxTokens \in Nat /\ Tokens = 1..MaxTokens /\ token \in 0..MaxTokens
  BY <1>1, WantsAssumption DEF PageInv, Tokens
<1>3. running <=> token # 0 /\ Running(token)
  BY <1>1 DEF PageInv
<1>4. ASSUME shown.what \in {"ok", "failed"}
      PROVE  /\ shown.of \notin quit /\ state[shown.of] = shown.what
             /\ \A t \in Tokens : state[t] # "none" => t <= shown.of
  BY <1>1, <1>2, <1>4 DEF PageInv
<1>5. QED
  BY <1>3, <1>4 DEF ShownIsCurrent

(* The page shows the outcome of the active query only, whatever queries   *)
(* are in flight, and waits exactly while that one runs (app.js runQuery,  *)
(* cancelQuery).                                                           *)
THEOREM PageShowsCurrent == Spec => []ShownIsCurrent
BY PageInit, PageStep, PageShows, PTL DEF Spec

-----------------------------------------------------------------------------
(* A cached chunk is what some read of its path asked for. *)
CacheOK(ch) ==
    \A k \in DOMAIN ch : \A c \in ch[k] : \E r \in Reads : r.path = k[1] /\ c = <<r.lo, r.hi>>

(* The reads of a query are there from its start until it ends well, and a *)
(* read that is done has its bytes.                                        *)
ReadsInv ==
    /\ DOMAIN reads = Tokens
    /\ \A t \in Tokens : DOMAIN reads[t] \subseteq Reads
    /\ \A t \in Tokens : state[t] \in {"none", "ok"} => DOMAIN reads[t] = {}
    /\ BytesAsAsked
    /\ CacheOK(cache)

\* evict_if_needed and put add nothing but the new chunk.
LEMMA PutKeeps ==
  ASSUME NEW ch, CacheOK(ch), NEW r \in Reads, NEW f,
         NEW res \in Put(ch, <<r.path, f>>, <<r.lo, r.hi>>)
  PROVE  CacheOK(res)
<1> DEFINE key == <<r.path, f>>
           chunk == <<r.lo, r.hi>>
<1>1. PICK e \in Evicted(ch, chunk[2] - chunk[1]) : res = Inserted(e, key, chunk)
  BY DEF Put
<1>2. PICK E : e = Without(ch, E)
  BY <1>1 DEF Evicted
<1>3. DOMAIN e \subseteq DOMAIN ch /\ \A k \in DOMAIN e : e[k] = ch[k]
  BY <1>2 DEF Without
<1>4. key[1] = r.path
  OBVIOUS
<1> HIDE DEF key, chunk
<1>5. /\ DOMAIN res = DOMAIN e \cup {key}
      /\ \A k \in DOMAIN e : k # key => res[k] = e[k]
      /\ res[key] \subseteq (IF key \in DOMAIN e THEN e[key] ELSE {}) \cup {chunk}
  BY <1>1 DEF Inserted
<1>6. SUFFICES ASSUME NEW k \in DOMAIN res, NEW c \in res[k]
               PROVE  \E s \in Reads : s.path = k[1] /\ c = <<s.lo, s.hi>>
  BY DEF CacheOK
<1>7. CASE k = key /\ c = chunk
  BY <1>4, <1>7 DEF chunk
<1>8. CASE k \in DOMAIN e /\ c \in e[k]
  BY <1>3, <1>8 DEF CacheOK
<1>9. QED
  BY <1>5, <1>6, <1>7, <1>8

\* find_full_object and find_range: what is found is what was asked for.
LEMMA LookupFinds ==
  ASSUME CacheOK(cache), NEW r \in Reads, NEW f, NEW c \in Lookup(r, f)
  PROVE  c = <<r.lo, r.hi>>
<1>1. /\ r.path \in Paths /\ r.lo \in Nat /\ r.hi \in Nat
      /\ r.whole \in BOOLEAN /\ (r.whole => r.lo = 0 /\ r.hi = Size[r.path])
  BY WantsAssumption
<1>2. \A d \in ChunksOf(r.path, f) : \E s \in Reads : s.path = r.path /\ d = <<s.lo, s.hi>>
  <2>1. SUFFICES ASSUME NEW d \in ChunksOf(r.path, f)
                 PROVE  \E s \in Reads : s.path = r.path /\ d = <<s.lo, s.hi>>
    OBVIOUS
  <2> DEFINE key == <<r.path, f>>
  <2>2. key \in DOMAIN cache /\ d \in cache[key] /\ key[1] = r.path
    BY <2>1 DEF ChunksOf
  <2> HIDE DEF key
  <2>3. QED
    BY <2>2 DEF CacheOK
<1>3. CASE r.whole
  <2>1. c \in ChunksOf(r.path, f)
    BY <1>3 DEF Lookup, FullObject
  <2>2. PICK s \in Reads : s.path = r.path /\ c = <<s.lo, s.hi>>
    BY <1>2, <2>1
  <2>3. s.whole
    BY <1>3, <2>2, WantsAssumption, Zenon
  <2>4. s.lo = 0 /\ s.hi = Size[s.path]
    BY <2>3, WantsAssumption
  <2>5. QED
    BY <1>1, <1>3, <2>2, <2>4
<1>4. CASE ~r.whole
  <2>1. PICK d \in ChunksOf(r.path, f) : Covers(d, r) /\ c = Slice(d, r)
    BY <1>4 DEF Lookup
  <2>2. PICK s \in Reads : s.path = r.path /\ d = <<s.lo, s.hi>>
    BY <1>2, <2>1
  <2>3. d[2] = s.hi /\ s.hi \in Nat
    BY <2>2, WantsAssumption
  <2>4. d[2] >= r.hi
    BY <2>1 DEF Covers
  <2>5. QED
    BY <1>1, <2>1, <2>3, <2>4 DEF Slice
<1>5. QED
  BY <1>3, <1>4

\* One read of one query moves on.
LEMMA SetReadFacts ==
  ASSUME DOMAIN reads = Tokens, NEW t, NEW r, NEW st, NEW leg, NEW got,
         SetRead(t, r, st, leg, got)
  PROVE  /\ DOMAIN reads' = Tokens
         /\ \A u \in Tokens : DOMAIN reads'[u] = DOMAIN reads[u]
         /\ \A u \in Tokens : \A s \in DOMAIN reads[u] :
               \/ reads'[u][s] = reads[u][s]
               \/ s = r /\ reads'[u][s] = [st |-> st, leg |-> leg, got |-> got]
BY DEF SetRead

\* A read that is done with the bytes it asked for, or is not done.
LEMMA SetReadBytes ==
  ASSUME ReadsInv, NEW t, NEW r, NEW st, NEW leg, NEW got, SetRead(t, r, st, leg, got),
         st = "done" => got = <<r.lo, r.hi>>
  PROVE  BytesAsAsked' /\ DOMAIN reads' = Tokens
         /\ \A u \in Tokens : DOMAIN reads'[u] = DOMAIN reads[u]
<1> DEFINE v == [st |-> st, leg |-> leg, got |-> got]
<1>1. v.st = st /\ v.got = got
  OBVIOUS
<1>2. /\ DOMAIN reads' = Tokens
      /\ \A u \in Tokens : DOMAIN reads'[u] = DOMAIN reads[u]
      /\ \A u \in Tokens : \A s \in DOMAIN reads[u] :
            reads'[u][s] = reads[u][s] \/ (s = r /\ reads'[u][s] = v)
  BY SetReadFacts DEF ReadsInv
<1> HIDE DEF v
<1>3. QED
  BY <1>1, <1>2 DEF ReadsInv, BytesAsAsked

\* What every step but the start and the good end of a query does to reads.
ReadsMove ==
    /\ DOMAIN reads' = Tokens
    /\ \A u \in Tokens : DOMAIN reads'[u] \subseteq DOMAIN reads[u]
    /\ BytesAsAsked'
    /\ CacheOK(cache')
    /\ \A u \in Tokens : state'[u] \in {"none", "ok"} => state'[u] = state[u]

\* What fails takes reads with it and changes none.
LEMMA FailMoves ==
  ASSUME PageInv, ReadsInv, NEW t \in Tokens, NEW gone, NEW how \in {"failed", "cancelled"},
         Fails(t, gone, how)
  PROVE  ReadsMove
<1>1. \E D \in SUBSET DOMAIN reads[t] : reads' = [reads EXCEPT ![t] = [s \in D |-> @[s]]]
  <2>1. CASE Running(t)
    <3> DEFINE D == {s \in DOMAIN reads[t] \ gone : GoOn(t, s)}
    <3>1. reads' = [reads EXCEPT ![t] = [s \in D |-> @[s]]]
      BY <2>1 DEF Fails, FailQuery, DropReads
    <3>2. D \in SUBSET DOMAIN reads[t]
      OBVIOUS
    <3>3. QED
      BY <3>1, <3>2
  <2>2. CASE ~Running(t)
    <3>1. reads' = [reads EXCEPT ![t] = [s \in DOMAIN reads[t] \ gone |-> @[s]]]
      BY <2>2 DEF Fails, FailQuery
    <3>2. DOMAIN reads[t] \ gone \in SUBSET DOMAIN reads[t]
      OBVIOUS
    <3>3. QED
      BY <3>1, <3>2
  <2>3. QED
    BY <2>1, <2>2
<1>2. PICK D \in SUBSET DOMAIN reads[t] : reads' = [reads EXCEPT ![t] = [s \in D |-> @[s]]]
  BY <1>1
<1>3. /\ DOMAIN reads' = Tokens
      /\ \A u \in Tokens : DOMAIN reads'[u] \subseteq DOMAIN reads[u]
                           /\ \A s \in DOMAIN reads'[u] : reads'[u][s] = reads[u][s]
  BY <1>2 DEF ReadsInv
<1>4. BytesAsAsked'
  BY <1>3 DEF ReadsInv, BytesAsAsked
<1>5. cache' = cache
  BY DEF Fails, store
<1>6. \A u \in Tokens : state'[u] \in {"none", "ok"} => state'[u] = state[u]
  <2>1. state' = state \/ state' = [state EXCEPT ![t] = how]
    BY DEF Fails, FailQuery
  <2>2. QED
    BY <2>1 DEF PageInv
<1>7. QED
  BY <1>3, <1>4, <1>5, <1>6 DEF ReadsMove, ReadsInv

\* A read that is answered from a cache.
LEMMA HitMoves ==
  ASSUME ReadsInv, NEW t, NEW r \in Reads, HitOuter(t, r) \/ HitInner(t, r)
  PROVE  ReadsMove
<1>1. CASE HitOuter(t, r)
  <2>1. PICK c \in Lookup(r, 1) : SetRead(t, r, "done", "get", c)
    BY <1>1 DEF HitOuter
  <2>2. c = <<r.lo, r.hi>>
    BY <2>1, LookupFinds DEF ReadsInv
  <2>3. UNCHANGED <<cache, state>>
    BY <1>1 DEF HitOuter, store
  <2>4. QED
    BY <2>1, <2>2, <2>3, SetReadBytes DEF ReadsMove, ReadsInv
<1>2. CASE HitInner(t, r)
  <2>1. PICK c \in Lookup(r, fingerprint) : SetRead(t, r, "done", "get", c)
           /\ \E ch \in Put(cache, <<r.path, 1>>, <<r.lo, r.hi>>) : Cached(ch)
    BY <1>2 DEF HitInner
  <2>2. c = <<r.lo, r.hi>>
    BY <2>1, LookupFinds DEF ReadsInv
  <2>3. CacheOK(cache')
    BY <2>1, PutKeeps DEF Cached, ReadsInv
  <2>4. state' = state
    BY <1>2 DEF HitInner
  <2>5. QED
    BY <2>1, <2>2, <2>3, <2>4, SetReadBytes DEF ReadsMove
<1>3. QED
  BY <1>1, <1>2

\* A read that joins the queue of the semaphore.
LEMMA EnqueueMoves ==
  ASSUME ReadsInv, NEW t, NEW r, NEW leg, Enqueue(t, r, leg)
  PROVE  ReadsMove
<1>1. SetRead(t, r, "wait", leg, <<0, 0>>) /\ UNCHANGED <<cache, state>>
  BY DEF Enqueue, store
<1>2. QED
  BY <1>1, SetReadBytes DEF ReadsMove, ReadsInv

\* Every step of a read.
LEMMA ReadMoves ==
  ASSUME PageInv, ReadsInv, NEW t \in Tokens, NEW r \in DOMAIN reads[t], ReadStep(t, r)
  PROVE  ReadsMove
<1>1. r \in Reads
  BY DEF ReadsInv
<1>2. CASE HitOuter(t, r) \/ HitInner(t, r)
  BY <1>1, <1>2, HitMoves
<1>3. CASE FailRead(t, r, "failed") \/ FailRead(t, r, "cancelled")
  BY <1>3, WhatFails, FailMoves
<1>4. CASE \E leg : Enqueue(t, r, leg)
  BY <1>4, EnqueueMoves
<1>5. CASE GetAnswer(t, r)
  <2>1. SetRead(t, r, "done", "get", <<r.lo, r.hi>>) /\ state' = state
    BY <1>5 DEF GetAnswer
  <2>2. PICK inner \in Put(cache, <<r.path, fingerprint>>, <<r.lo, r.hi>>) :
          \E outer \in Put(inner, <<r.path, 1>>, <<r.lo, r.hi>>) : Cached(outer)
    BY <1>5 DEF GetAnswer
  <2>3. CacheOK(inner)
    BY <1>1, <2>2, PutKeeps DEF ReadsInv
  <2>4. CacheOK(cache')
    BY <1>1, <2>2, <2>3, PutKeeps DEF Cached
  <2>5. QED
    BY <2>1, <2>4, SetReadBytes DEF ReadsMove
<1>6. CASE EndTask(t, r)
  <2>1. reads' = [reads EXCEPT ![t] = [s \in DOMAIN @ \ {r} |-> @[s]]] /\ UNCHANGED <<cache, state>>
    BY <1>6 DEF EndTask, store
  <2>2. /\ DOMAIN reads' = Tokens
        /\ \A u \in Tokens : DOMAIN reads'[u] \subseteq DOMAIN reads[u]
                             /\ \A s \in DOMAIN reads'[u] : reads'[u][s] = reads[u][s]
    BY <2>1 DEF ReadsInv
  <2>3. BytesAsAsked'
    BY <2>2 DEF ReadsInv, BytesAsAsked
  <2>4. QED
    BY <2>1, <2>2, <2>3 DEF ReadsMove, ReadsInv
<1>7. QED
  <2>1. BeginRead(t, r) => \/ HitOuter(t, r) \/ HitInner(t, r) \/ FailRead(t, r, "cancelled")
                           \/ \E leg : Enqueue(t, r, leg)
    BY DEF BeginRead
  <2>2. HeadAnswer(t, r) => \/ HitOuter(t, r) \/ HitInner(t, r) \/ FailRead(t, r, "cancelled")
                            \/ \E leg : Enqueue(t, r, leg)
    BY DEF HeadAnswer
  <2>3. QED
    BY <1>2, <1>3, <1>4, <1>5, <1>6, <2>1, <2>2 DEF ReadStep, RequestFails

\* The invariant of the reads is kept.
LEMMA ReadsStep ==
  ASSUME PageInv, ReadsInv, [Next]_vars
  PROVE  ReadsInv'
<1>1. CASE ReadsMove
  BY <1>1 DEF ReadsInv, ReadsMove
<1>2. ASSUME NEW want \in Wants, RunQuery(want)
      PROVE  ReadsInv'
  <2> DEFINE rd == [r \in want |->
                [st |-> "todo", leg |-> IF r.whole THEN "head" ELSE "get", got |-> <<0, 0>>]]
             t == token + 1
  <2>1. /\ t \in Tokens /\ reads' = [reads EXCEPT ![t] = rd]
        /\ state' = [state EXCEPT ![t] = "running"] /\ cache' = cache
    BY <1>2 DEF RunQuery, store
  <2>2. DOMAIN rd = want /\ \A r \in want : rd[r].st = "todo"
    OBVIOUS
  <2>3. want \subseteq Reads
    BY DEF Reads
  <2> HIDE DEF rd, t
  <2>4. /\ DOMAIN reads' = Tokens /\ reads'[t] = rd
        /\ \A u \in Tokens : u # t => reads'[u] = reads[u]
    BY <2>1 DEF ReadsInv
  <2>5. BytesAsAsked'
    BY <2>2, <2>4 DEF ReadsInv, BytesAsAsked
  <2>6. \A u \in Tokens : state'[u] \in {"none", "ok"} => u # t /\ state'[u] = state[u]
    BY <2>1 DEF PageInv
  <2>7. QED
    BY <2>1, <2>2, <2>3, <2>4, <2>5, <2>6 DEF ReadsInv
<1>3. ASSUME NEW t \in Tokens, EndQuery(t)
      PROVE  ReadsInv'
  <2>1. /\ reads' = [reads EXCEPT ![t] = NoReads] /\ cache' = cache
        /\ \E how : state' = [state EXCEPT ![t] = how]
    BY <1>3 DEF EndQuery, store
  <2>2. DOMAIN NoReads = {}
    BY DEF NoReads
  <2>3. /\ DOMAIN reads' = Tokens /\ DOMAIN reads'[t] = {}
        /\ \A u \in Tokens : u # t => reads'[u] = reads[u] /\ state'[u] = state[u]
    BY <2>1, <2>2 DEF ReadsInv, PageInv
  <2>4. QED
    BY <2>1, <2>3 DEF ReadsInv, BytesAsAsked
<1>4. CASE Acquire
  <2> DEFINE t == Head(waiting)[1]
             r == Head(waiting)[2]
  <2>1. SetRead(t, r, "fetch", reads[t][r].leg, <<0, 0>>) /\ UNCHANGED <<cache, state>>
    BY <1>4 DEF Acquire, store
  <2>2. ReadsMove
    BY <2>1, SetReadBytes DEF ReadsMove, ReadsInv
  <2>3. QED
    BY <1>1, <2>2
<1>5. CASE UNCHANGED <<reads, cache, state>>
  BY <1>5 DEF ReadsInv, BytesAsAsked
<1>6. CASE \E t \in Tokens : \E r \in DOMAIN reads[t] : ReadStep(t, r)
  BY <1>1, <1>6, ReadMoves
<1>7. CASE CancelQuery \/ UiTimeout \/ Reconnect \/ (\E o \in orphans : OrphanAnswer(o))
           \/ ConnectAnswer \/ ConnectFails \/ (\E t \in Tokens : LoadAnswer(t))
           \/ UNCHANGED vars
  <2>1. UNCHANGED <<reads, cache, state>>
    BY <1>7 DEF CancelQuery, UiTimeout, Reconnect, OrphanAnswer, ConnectAnswer, ConnectFails,
                LoadAnswer, vars, store
  <2>2. QED
    BY <1>5, <2>1
<1>8. CASE \E t \in Tokens : LoadFails(t)
  BY <1>1, <1>8, WhatFails, FailMoves
<1>9. QED
  BY <1>2, <1>3, <1>4, <1>6, <1>7, <1>8 DEF Next, EngineStep

\* There are no reads before the first query.
LEMMA ReadsInit == Init => ReadsInv
<1>1. SUFFICES ASSUME Init PROVE ReadsInv
  OBVIOUS
<1>2. DOMAIN NoReads = {}
  BY DEF NoReads
<1>3. reads = [t \in Tokens |-> NoReads] /\ cache = [k \in {} |-> {}]
  BY <1>1 DEF Init
<1>4. QED
  BY <1>2, <1>3 DEF ReadsInv, BytesAsAsked, CacheOK

(* A read returns the bytes it asked for, from the request, the inner or    *)
(* the outer cache, whatever was evicted and under whichever fingerprint    *)
(* (CachingStorage, MemoryByteCache): by the assumption that a path is read *)
(* by range or as a whole, never both.                                      *)
THEOREM ReadsGetTheirBytes == Spec => []BytesAsAsked
<1>1. Init => PageInv /\ ReadsInv
  BY PageInit, ReadsInit
<1>2. PageInv /\ ReadsInv /\ [Next]_vars => PageInv' /\ ReadsInv'
  BY PageStep, ReadsStep
<1>3. ReadsInv => BytesAsAsked
  BY DEF ReadsInv
<1>4. QED
  BY <1>1, <1>2, <1>3, PTL DEF Spec

-----------------------------------------------------------------------------
(* The counters are those of the query t, and nothing else can add to them. *)
Alone(t) ==
    /\ seen = own[t].files /\ bytes = own[t].bytes /\ orphans = {}
    /\ \A u \in Tokens \ {t} : ~Running(u) /\ DOMAIN reads[u] = {}

(* A query that has met no other's requests has the counters for itself.   *)
OwnInv ==
    /\ own \in [Tokens -> [files : SUBSET Paths, bytes : Nat]]
    /\ \A t \in Tokens : state[t] = "none" => own[t] = [files |-> {}, bytes |-> 0]
    /\ \A t \in Tokens : Running(t) /\ t \notin mixed => Alone(t)
    /\ StatsOwn

\* A step of the query t: what is counted for all is counted for t.
Counted(t) ==
    /\ own' \in [Tokens -> [files : SUBSET Paths, bytes : Nat]]
    /\ \A u \in Tokens \ {t} : own'[u] = own[u] /\ state'[u] = state[u]
    /\ seen = own[t].files => seen' = own'[t].files
    /\ bytes = own[t].bytes => bytes' = own'[t].bytes
    /\ (state'[t] = state[t] /\ orphans' = orphans) \/ state'[t] \in {"failed", "cancelled"}
    /\ \A u \in Tokens : DOMAIN reads'[u] \subseteq DOMAIN reads[u]
    /\ shown' = shown \/ shown'.what # "ok"
    /\ mixed' = mixed

\* What fails counts nothing.
LEMMA FailCounted ==
  ASSUME PageInv, ReadsInv, OwnInv, NEW t \in Tokens, NEW gone,
         NEW how \in {"failed", "cancelled"}, Fails(t, gone, how)
  PROVE  Counted(t)
<1>1. UNCHANGED <<own, seen, bytes, mixed>>
  BY DEF Fails, globals
<1>2. \A u \in Tokens : DOMAIN reads'[u] \subseteq DOMAIN reads[u]
  BY FailMoves DEF ReadsMove
<1>3. /\ state' = [state EXCEPT ![t] = how] \/ (state' = state /\ orphans' = orphans)
      /\ Finish(t, how, Nothing) \/ shown' = shown
  BY DEF Fails, FailQuery
<1>4. shown' = shown \/ shown'.what # "ok"
  <2>1. CASE shown' = [what |-> how, of |-> t, stats |-> Nothing]
    <3>1. shown'.what = how
      BY <2>1
    <3>2. QED
      BY <3>1
  <2>2. QED
    BY <1>3, <2>1 DEF Finish
<1>5. /\ \A u \in Tokens \ {t} : state'[u] = state[u]
      /\ (state'[t] = state[t] /\ orphans' = orphans) \/ state'[t] \in {"failed", "cancelled"}
  BY <1>3 DEF PageInv
<1>6. QED
  BY <1>1, <1>2, <1>4, <1>5 DEF Counted, OwnInv

\* A read that joins the queue is counted as a file, of t and of all.
LEMMA EnqueueCounted ==
  ASSUME ReadsInv, OwnInv, NEW t \in Tokens, NEW r \in Reads, NEW leg, Enqueue(t, r, leg)
  PROVE  Counted(t)
<1>1. UNCHANGED <<bytes, state, orphans, mixed, shown>>
  BY DEF Enqueue, page
<1>2. \A u \in Tokens : DOMAIN reads'[u] \subseteq DOMAIN reads[u]
  BY EnqueueMoves DEF ReadsMove
<1>3. r.path \in Paths
  BY WantsAssumption
<1>4. CASE UNCHANGED <<seen, own>>
  BY <1>1, <1>2, <1>4 DEF Counted, OwnInv
<1>5. CASE seen' = seen \cup {r.path} /\ own' = [own EXCEPT ![t].files = @ \cup {r.path}]
  <2>1. /\ own' \in [Tokens -> [files : SUBSET Paths, bytes : Nat]]
        /\ \A u \in Tokens \ {t} : own'[u] = own[u]
        /\ own'[t].files = own[t].files \cup {r.path} /\ own'[t].bytes = own[t].bytes
    BY <1>3, <1>5 DEF OwnInv
  <2>2. QED
    BY <1>1, <1>2, <1>5, <2>1 DEF Counted
<1>6. QED
  BY <1>4, <1>5 DEF Enqueue

\* Every step of a read.
LEMMA ReadCounted ==
  ASSUME PageInv, ReadsInv, OwnInv, NEW t \in Tokens, NEW r \in DOMAIN reads[t], ReadStep(t, r)
  PROVE  Counted(t)
<1>1. r \in Reads /\ \A u \in Tokens : DOMAIN reads'[u] \subseteq DOMAIN reads[u]
  BY ReadMoves DEF ReadsInv, ReadsMove
<1>2. CASE HitOuter(t, r) \/ HitInner(t, r) \/ EndTask(t, r)
  <2>1. UNCHANGED <<own, seen, bytes, state, orphans, mixed, shown>>
    BY <1>2 DEF HitOuter, HitInner, EndTask, globals, page
  <2>2. QED
    BY <1>1, <2>1 DEF Counted, OwnInv
<1>3. CASE FailRead(t, r, "failed") \/ FailRead(t, r, "cancelled")
  BY <1>3, WhatFails, FailCounted
<1>4. CASE \E leg : Enqueue(t, r, leg)
  BY <1>1, <1>4, EnqueueCounted
<1>5. CASE GetAnswer(t, r)
  <2>1. Length(r) \in Nat
    BY <1>1, WantsAssumption DEF Length
  <2>2. /\ bytes' = bytes + Length(r) /\ own' = [own EXCEPT ![t].bytes = @ + Length(r)]
        /\ UNCHANGED <<seen, state, orphans, mixed, shown>>
    BY <1>5 DEF GetAnswer, page
  <2>3. /\ own' \in [Tokens -> [files : SUBSET Paths, bytes : Nat]]
        /\ \A u \in Tokens \ {t} : own'[u] = own[u]
        /\ own'[t].files = own[t].files /\ own'[t].bytes = own[t].bytes + Length(r)
    BY <2>1, <2>2 DEF OwnInv
  <2>4. QED
    BY <1>1, <2>2, <2>3 DEF Counted
<1>6. QED
  <2>1. BeginRead(t, r) => \/ HitOuter(t, r) \/ HitInner(t, r) \/ FailRead(t, r, "cancelled")
                           \/ \E leg : Enqueue(t, r, leg)
    BY DEF BeginRead
  <2>2. HeadAnswer(t, r) => \/ HitOuter(t, r) \/ HitInner(t, r) \/ FailRead(t, r, "cancelled")
                            \/ \E leg : Enqueue(t, r, leg)
    BY DEF HeadAnswer
  <2>3. QED
    BY <1>2, <1>3, <1>4, <1>5, <2>1, <2>2 DEF ReadStep, RequestFails

\* A query that is alone with the counters stays so, or ends.
LEMMA CountedKeeps ==
  ASSUME PageInv, ReadsInv, OwnInv, NEW t \in Tokens, Counted(t),
         Running(t) \/ \E r \in DOMAIN reads[t] : TRUE
  PROVE  OwnInv'
<1>1. state[t] \notin {"none", "ok"}
  BY DEF ReadsInv, Running
<1>2. \A u \in Tokens : state'[u] = "none" => own'[u] = [files |-> {}, bytes |-> 0]
  BY <1>1 DEF Counted, OwnInv
<1>3. ASSUME NEW v \in Tokens, Running(v)', v \notin mixed'
      PROVE  Alone(v)'
  <2>1. Running(v) /\ v \notin mixed
    BY <1>3 DEF Counted, Running
  <2>2. Alone(v)
    BY <2>1 DEF OwnInv
  <2>3. v = t
    BY <2>2 DEF Alone, Running
  <2>4. orphans' = orphans /\ \A u \in Tokens \ {t} : state'[u] = state[u]
    BY <1>3, <2>3 DEF Counted, Running
  <2>5. QED
    BY <2>2, <2>3, <2>4 DEF Alone, Counted, Running
<1>4. StatsOwn'
  <2>1. SUFFICES ASSUME shown'.what = "ok", shown'.of \notin mixed'
                 PROVE  shown'.stats = [files |-> Cardinality(own'[shown'.of].files),
                                        bytes |-> own'[shown'.of].bytes]
    BY DEF StatsOwn
  <2>2. shown' = shown /\ mixed' = mixed
    BY <2>1 DEF Counted
  <2>3. shown.of \in Tokens \ {t}
    BY <1>1, <2>1, <2>2, WantsAssumption DEF PageInv, Tokens
  <2>4. own'[shown.of] = own[shown.of]
    BY <2>3 DEF Counted
  <2>5. QED
    BY <2>1, <2>2, <2>4 DEF OwnInv, StatsOwn
<1>5. QED
  BY <1>2, <1>3, <1>4 DEF OwnInv, Counted

\* Steps that count nothing and start no query.
LEMMA NothingCounted ==
  ASSUME PageInv, ReadsInv, OwnInv, DOMAIN reads' = Tokens,
         \A u \in Tokens : DOMAIN reads'[u] \subseteq DOMAIN reads[u],
         UNCHANGED <<own, seen, bytes, state, orphans, mixed>>,
         shown' = shown \/ shown'.what # "ok"
  PROVE  OwnInv'
<1>1. \A t \in Tokens : Running(t)' /\ t \notin mixed' => Alone(t)'
  BY DEF OwnInv, Alone, Running
<1>2. StatsOwn'
  BY DEF OwnInv, StatsOwn
<1>3. QED
  BY <1>1, <1>2 DEF OwnInv

\* run_query: reset_query_state gives the new query empty counters, and it is
\* alone with them or is known not to be.
LEMMA RunQueryOwn ==
  ASSUME PageInv, ReadsInv, OwnInv, NEW want \in Wants, RunQuery(want)
  PROVE  OwnInv'
<1> DEFINE t == token + 1
<1>1. /\ t \in Tokens /\ seen' = {} /\ bytes' = 0 /\ UNCHANGED <<own, orphans>>
      /\ state' = [state EXCEPT ![t] = "running"]
      /\ shown' = [what |-> "running", of |-> t, stats |-> Nothing]
      /\ mixed' = IF Others(t) # {} \/ orphans # {} THEN mixed \cup {t} \cup Others(t) ELSE mixed
  BY DEF RunQuery, Reset
<1>2. /\ \E rd : reads' = [reads EXCEPT ![t] = rd]
  BY DEF RunQuery
<1>3. state[t] = "none" /\ \A u \in Tokens : u # t => state'[u] = state[u] /\ reads'[u] = reads[u]
  <2>1. t > token
    BY WantsAssumption DEF PageInv
  <2>2. QED
    BY <1>1, <1>2, <2>1 DEF PageInv, ReadsInv
<1> HIDE DEF t
<1>4. shown'.what # "ok"
  BY <1>1
<1>5. \A u \in Tokens : state'[u] = "none" => own'[u] = [files |-> {}, bytes |-> 0]
  BY <1>1, <1>3 DEF OwnInv, PageInv
<1>6. ASSUME NEW v \in Tokens, Running(v)', v \notin mixed'
      PROVE  Alone(v)'
  <2>1. CASE Others(t) # {} \/ orphans # {}
    <3>1. v # t
      BY <1>1, <1>6, <2>1
    <3>2. Running(v)
      BY <1>3, <1>6, <3>1 DEF Running
    <3>3. v \in Others(t)
      BY <3>1, <3>2 DEF Others
    <3>4. QED
      BY <1>1, <1>6, <2>1, <3>3
  <2>2. CASE Others(t) = {} /\ orphans = {}
    <3>1. \A u \in Tokens \ {t} : ~Running(u) /\ reads[u] = NoReads
      BY <2>2 DEF Others
    <3>2. v = t
      BY <1>3, <1>6, <3>1 DEF Running
    <3>3. own'[t] = [files |-> {}, bytes |-> 0]
      BY <1>1, <1>3 DEF OwnInv
    <3>4. own'[t].files = {} /\ own'[t].bytes = 0
      BY <3>3
    <3>5. \A u \in Tokens \ {t} : ~Running(u)' /\ DOMAIN reads'[u] = {}
      BY <1>3, <3>1 DEF Running, NoReads
    <3>6. QED
      BY <1>1, <2>2, <3>2, <3>4, <3>5 DEF Alone
  <2>3. QED
    BY <2>1, <2>2
<1>7. QED
  BY <1>1, <1>4, <1>5, <1>6 DEF OwnInv, StatsOwn

\* The end of a query: the statistics are read off the counters.
LEMMA EndQueryOwn ==
  ASSUME PageInv, ReadsInv, OwnInv, NEW t \in Tokens, EndQuery(t)
  PROVE  OwnInv'
<1>1. PICK how \in {"ok", "cancelled"} :
         /\ how = (IF cancel THEN "cancelled" ELSE "ok")
         /\ state' = [state EXCEPT ![t] = how]
         /\ Finish(t, how, IF cancel THEN Nothing
                           ELSE [files |-> Cardinality(seen), bytes |-> bytes])
  BY DEF EndQuery
<1>2. /\ Running(t) /\ reads' = [reads EXCEPT ![t] = NoReads]
      /\ UNCHANGED <<own, seen, bytes, orphans, mixed>>
  BY DEF EndQuery, globals
<1>3. /\ state'[t] = how /\ \A u \in Tokens \ {t} : state'[u] = state[u] /\ reads'[u] = reads[u]
      /\ DOMAIN reads'[t] = {}
  BY <1>1, <1>2 DEF PageInv, ReadsInv, NoReads
<1>4. \A u \in Tokens : state'[u] = "none" => own'[u] = [files |-> {}, bytes |-> 0]
  BY <1>2, <1>3 DEF OwnInv
<1>5. ASSUME NEW v \in Tokens, Running(v)', v \notin mixed'
      PROVE  Alone(v)'
  <2>1. v # t /\ Running(v) /\ v \notin mixed
    BY <1>2, <1>3, <1>5 DEF Running
  <2>2. Alone(v)
    BY <2>1 DEF OwnInv
  <2>3. QED
    BY <1>2, <2>1, <2>2 DEF Alone
<1>6. StatsOwn'
  <2>1. SUFFICES ASSUME shown'.what = "ok", shown'.of \notin mixed'
                 PROVE  shown'.stats = [files |-> Cardinality(own'[shown'.of].files),
                                        bytes |-> own'[shown'.of].bytes]
    BY DEF StatsOwn
  <2>2. CASE shown' = shown
    BY <1>2, <2>1, <2>2 DEF OwnInv, StatsOwn
  <2>3. CASE t = token /\ cancel
    <3>1. shown' = [what |-> "cancelled", of |-> t, stats |-> Nothing]
      BY <1>1, <2>3 DEF Finish
    <3>2. shown'.what = "cancelled"
      BY <3>1
    <3>3. QED
      BY <2>1, <3>2
  <2>4. CASE t = token /\ ~cancel
    <3>1. shown' = [what |-> how, of |-> t,
                    stats |-> [files |-> Cardinality(seen), bytes |-> bytes]]
      BY <1>1, <2>4 DEF Finish
    <3>2. shown'.of = t /\ shown'.stats = [files |-> Cardinality(seen), bytes |-> bytes]
      BY <3>1
    <3>3. Alone(t)
      BY <1>2, <2>1, <3>2 DEF OwnInv
    <3>4. QED
      BY <1>2, <3>2, <3>3 DEF Alone
  <2>5. QED
    BY <1>1, <2>2, <2>3, <2>4 DEF Finish
<1>7. QED
  BY <1>2, <1>4, <1>5, <1>6 DEF OwnInv

\* The answer to an orphan: whoever runs beside one is not alone.
LEMMA OrphanOwn ==
  ASSUME OwnInv, NEW o \in orphans, OrphanAnswer(o)
  PROVE  OwnInv'
<1>1. UNCHANGED <<own, state, mixed, shown>>
  BY DEF OrphanAnswer, page
<1>2. \A t \in Tokens : ~(Running(t) /\ t \notin mixed)
  BY DEF OwnInv, Alone
<1>3. QED
  BY <1>1, <1>2 DEF OwnInv, StatsOwn, Running

\* The catalog's answer to a query is counted for it and for all, and the
\* answer to a connect for all: whoever runs then is not alone any more.
LEMMA CatalogOwn ==
  ASSUME PageInv, ReadsInv, OwnInv
  PROVE  /\ \A t \in Tokens : LoadAnswer(t) \/ LoadFails(t) => OwnInv'
         /\ ConnectAnswer => OwnInv'
<1>1. ASSUME NEW t \in Tokens, LoadAnswer(t)
      PROVE  OwnInv'
  <2>1. /\ bytes' = bytes + CatalogBytes /\ own' = [own EXCEPT ![t].bytes = @ + CatalogBytes]
        /\ UNCHANGED <<seen, state, reads, orphans, mixed, shown>> /\ Running(t)
    BY <1>1 DEF LoadAnswer, page
  <2>2. /\ own' \in [Tokens -> [files : SUBSET Paths, bytes : Nat]]
        /\ \A u \in Tokens \ {t} : own'[u] = own[u]
        /\ own'[t].files = own[t].files /\ own'[t].bytes = own[t].bytes + CatalogBytes
    BY <2>1, WantsAssumption DEF OwnInv
  <2>3. Counted(t)
    BY <2>1, <2>2 DEF Counted
  <2>4. QED
    BY <2>1, <2>3, CountedKeeps
<1>2. ASSUME NEW t \in Tokens, LoadFails(t)
      PROVE  OwnInv'
  <2>1. Running(t) /\ Fails(t, {}, "failed")
    BY <1>2, WhatFails
  <2>2. Counted(t)
    BY <2>1, FailCounted
  <2>3. QED
    BY <2>1, <2>2, CountedKeeps
<1>3. ASSUME ConnectAnswer
      PROVE  OwnInv'
  <2>1. /\ UNCHANGED <<own, state, shown>>
        /\ mixed' = mixed \cup {t \in Tokens : Running(t)}
    BY <1>3 DEF ConnectAnswer, page
  <2>2. \A t \in Tokens : ~(Running(t)' /\ t \notin mixed')
    BY <2>1 DEF Running
  <2>3. QED
    BY <2>1, <2>2 DEF OwnInv, StatsOwn
<1>4. QED
  BY <1>1, <1>2, <1>3

\* The invariant of the counters is kept.
LEMMA OwnStep ==
  ASSUME PageInv, ReadsInv, OwnInv, [Next]_vars
  PROVE  OwnInv'
<1>1. CASE \E want \in Wants : RunQuery(want)
  BY <1>1, RunQueryOwn
<1>2. CASE \E t \in Tokens : \E r \in DOMAIN reads[t] : ReadStep(t, r)
  <2>1. PICK t \in Tokens : \E r \in DOMAIN reads[t] : ReadStep(t, r)
    BY <1>2
  <2>2. QED
    BY <2>1, ReadCounted, CountedKeeps
<1>3. CASE (\E t \in Tokens : EndQuery(t)) \/ \E o \in orphans : OrphanAnswer(o)
  BY <1>3, EndQueryOwn, OrphanOwn
<1>4. CASE Acquire
  <2>1. UNCHANGED <<own, seen, bytes, state, orphans, mixed, shown>>
    BY <1>4 DEF Acquire, globals, page
  <2>2. /\ DOMAIN reads' = Tokens
        /\ \A u \in Tokens : DOMAIN reads'[u] \subseteq DOMAIN reads[u]
    BY <1>4 DEF Acquire, SetRead, ReadsInv
  <2>3. QED
    BY <2>1, <2>2, NothingCounted
<1>5. CASE CancelQuery \/ UiTimeout \/ Reconnect \/ ConnectFails \/ UNCHANGED vars
  <2>1. UNCHANGED <<own, seen, bytes, state, orphans, mixed, reads>>
    BY <1>5 DEF CancelQuery, UiTimeout, Reconnect, ConnectFails, vars, globals
  <2>2. shown' = shown \/ shown'.what # "ok"
    <3>1. CASE CancelQuery
      BY <3>1 DEF CancelQuery
    <3>2. CASE UiTimeout
      <4>1. PICK w, o, s : shown = [what |-> w, of |-> o, stats |-> s]
        BY DEF PageInv
      <4>2. shown' = [what |-> "still running", of |-> o, stats |-> s]
        BY <3>2, <4>1 DEF UiTimeout
      <4>3. QED
        BY <4>2
    <3>3. QED
      BY <1>5, <3>1, <3>2 DEF Reconnect, ConnectFails, vars, page
  <2>3. DOMAIN reads' = Tokens
    BY <2>1 DEF ReadsInv
  <2>4. QED
    BY <2>1, <2>2, <2>3, NothingCounted
<1>6. CASE ConnectAnswer \/ \E t \in Tokens : LoadAnswer(t) \/ LoadFails(t)
  BY <1>6, CatalogOwn
<1>7. QED
  BY <1>1, <1>2, <1>3, <1>4, <1>5, <1>6 DEF Next, EngineStep

(* The files and bytes shown with a result are those of the query's own    *)
(* requests, to S3 and to the catalog, unless it ran beside requests of    *)
(* another query or of a connect: the counters are global, reset by every  *)
(* run_query (wasm_query_io.rs) and fed by every HTTP body (wasm_local.rs).*)
THEOREM StatsAreOwn == Spec => []StatsOwn
<1>1. Init => OwnInv
  <2>1. SUFFICES ASSUME Init PROVE OwnInv
    OBVIOUS
  <2>2. shown.what = "ready" /\ state = [t \in Tokens |-> "none"]
        /\ own = [t \in Tokens |-> [files |-> {}, bytes |-> 0]]
    BY <2>1 DEF Init
  <2>3. QED
    BY <2>2 DEF OwnInv, StatsOwn, Running
<1>2. Init => PageInv /\ ReadsInv /\ OwnInv
  BY <1>1, PageInit, ReadsInit
<1>3. PageInv /\ ReadsInv /\ OwnInv /\ [Next]_vars => PageInv' /\ ReadsInv' /\ OwnInv'
  BY PageStep, ReadsStep, OwnStep
<1>4. OwnInv => StatsOwn
  BY DEF OwnInv
<1>5. QED
  BY <1>2, <1>3, <1>4, PTL DEF Spec

-----------------------------------------------------------------------------
\* A read that moves on gives its permit back, unless it goes to "fetch".
LEMMA SetReadHolds ==
  ASSUME ReadsInv, NEW t, NEW r, NEW st, NEW leg, NEW got, SetRead(t, r, st, leg, got),
         st # "fetch"
  PROVE  Holding' \subseteq Holding
<1> DEFINE v == [st |-> st, leg |-> leg, got |-> got]
<1>1. v.st = st
  OBVIOUS
<1>2. \A u \in Tokens : /\ DOMAIN reads'[u] = DOMAIN reads[u]
                        /\ \A s \in DOMAIN reads[u] : reads'[u][s] = reads[u][s] \/ reads'[u][s] = v
  BY SetReadFacts DEF ReadsInv
<1> HIDE DEF v
<1>3. QED
  BY <1>1, <1>2 DEF Holding, Sent

\* Reads that are dropped or end give their permits back.
LEMMA DropHolds ==
  ASSUME ReadsInv, NEW t, NEW D \in SUBSET DOMAIN reads[t],
         reads' = [reads EXCEPT ![t] = [s \in D |-> @[s]]]
  PROVE  Holding' \subseteq Holding
<1>1. \A u \in Tokens : /\ DOMAIN reads'[u] \subseteq DOMAIN reads[u]
                        /\ \A s \in DOMAIN reads'[u] : reads'[u][s] = reads[u][s]
  BY DEF ReadsInv
<1>2. QED
  BY <1>1 DEF Holding, Sent

\* So do the reads that go with a query that fails.
LEMMA FailHolds ==
  ASSUME ReadsInv, NEW t, NEW gone, NEW how, Fails(t, gone, how)
  PROVE  Holding' \subseteq Holding
<1>1. CASE Running(t)
  <2> DEFINE D == {s \in DOMAIN reads[t] \ gone : GoOn(t, s)}
  <2>1. reads' = [reads EXCEPT ![t] = [s \in D |-> @[s]]] /\ D \in SUBSET DOMAIN reads[t]
    BY <1>1 DEF Fails, FailQuery, DropReads
  <2>2. QED
    BY <2>1, DropHolds
<1>2. CASE ~Running(t)
  <2> DEFINE D == DOMAIN reads[t] \ gone
  <2>1. reads' = [reads EXCEPT ![t] = [s \in D |-> @[s]]] /\ D \in SUBSET DOMAIN reads[t]
    BY <1>2 DEF Fails
  <2>2. QED
    BY <2>1, DropHolds
<1>3. QED
  BY <1>1, <1>2

\* Only acquire takes a permit.
LEMMA HoldingSteps ==
  ASSUME ReadsInv, [Next]_vars, ~Acquire
  PROVE  Holding' \subseteq Holding
<1>1. ASSUME NEW want \in Wants, RunQuery(want)
      PROVE  Holding' \subseteq Holding
  <2> DEFINE rd == [r \in want |->
                [st |-> "todo", leg |-> IF r.whole THEN "head" ELSE "get", got |-> <<0, 0>>]]
  <2>1. reads' = [reads EXCEPT ![token + 1] = rd] /\ \A r \in DOMAIN rd : rd[r].st = "todo"
    BY <1>1 DEF RunQuery
  <2> HIDE DEF rd
  <2>2. \A u \in Tokens : reads'[u] = reads[u] \/ reads'[u] = rd
    BY <2>1 DEF ReadsInv
  <2>3. QED
    BY <2>1, <2>2 DEF Holding, Sent
<1>2. ASSUME NEW t \in Tokens, NEW r \in DOMAIN reads[t], ReadStep(t, r)
      PROVE  Holding' \subseteq Holding
  <2>1. ASSUME NEW how, FailRead(t, r, how)
        PROVE  Holding' \subseteq Holding
    BY <2>1, WhatFails, FailHolds
  <2>2. CASE EndTask(t, r)
    <3> DEFINE D == DOMAIN reads[t] \ {r}
    <3>1. reads' = [reads EXCEPT ![t] = [s \in D |-> @[s]]] /\ D \in SUBSET DOMAIN reads[t]
      BY <2>2 DEF EndTask
    <3>2. QED
      BY <3>1, DropHolds
  <2>3. CASE \E leg, got : SetRead(t, r, "done", leg, got)
    BY <2>3, SetReadHolds
  <2>4. CASE \E leg, got : SetRead(t, r, "wait", leg, got)
    BY <2>4, SetReadHolds
  <2>5. BeginRead(t, r) \/ HeadAnswer(t, r) \/ GetAnswer(t, r) =>
           \/ \E how : FailRead(t, r, how)
           \/ \E leg, got : SetRead(t, r, "done", leg, got)
           \/ \E leg, got : SetRead(t, r, "wait", leg, got)
    BY DEF BeginRead, HeadAnswer, GetAnswer, HitOuter, HitInner, Enqueue
  <2>6. QED
    BY <1>2, <2>1, <2>2, <2>3, <2>4, <2>5 DEF ReadStep, RequestFails
<1>3. ASSUME NEW t \in Tokens, EndQuery(t)
      PROVE  Holding' \subseteq Holding
  <2>1. reads' = [reads EXCEPT ![t] = NoReads] /\ DOMAIN NoReads = {}
    BY <1>3 DEF EndQuery, NoReads
  <2>2. \A u \in Tokens : reads'[u] = reads[u] \/ DOMAIN reads'[u] = {}
    BY <2>1 DEF ReadsInv
  <2>3. QED
    BY <2>2 DEF Holding, Sent
<1>4. CASE CancelQuery \/ UiTimeout \/ Reconnect \/ (\E o \in orphans : OrphanAnswer(o))
           \/ ConnectAnswer \/ ConnectFails \/ (\E t \in Tokens : LoadAnswer(t))
           \/ UNCHANGED vars
  <2>1. reads' = reads
    BY <1>4 DEF CancelQuery, UiTimeout, Reconnect, OrphanAnswer, ConnectAnswer, ConnectFails,
                LoadAnswer, vars
  <2>2. QED
    BY <2>1 DEF Holding, Sent
<1>5. CASE \E t \in Tokens : LoadFails(t)
  BY <1>5, WhatFails, FailHolds
<1>6. QED
  BY <1>1, <1>2, <1>3, <1>4, <1>5 DEF Next, EngineStep

\* acquire hands out one permit of those that are left.
LEMMA HoldingAcquire ==
  ASSUME ReadsInv, Acquire, IsFiniteSet(Holding), PermitsKept
  PROVE  IsFiniteSet(Holding') /\ PermitsKept'
<1> DEFINE t == Head(waiting)[1]
           r == Head(waiting)[2]
<1>1. SetRead(t, r, "fetch", reads[t][r].leg, <<0, 0>>) /\ Cardinality(Holding) < FetchConcurrency
  BY DEF Acquire
<1>2. /\ \A u \in Tokens : DOMAIN reads'[u] = DOMAIN reads[u]
      /\ \A u \in Tokens : \A s \in DOMAIN reads[u] :
            reads'[u][s] = reads[u][s] \/ (u = t /\ s = r)
  BY <1>1 DEF ReadsInv, SetRead
<1> HIDE DEF t, r
<1>3. Holding' \subseteq Holding \cup {<<t, r>>}
  BY <1>2 DEF Holding, Sent
<1>4. /\ IsFiniteSet(Holding \cup {<<t, r>>})
      /\ Cardinality(Holding \cup {<<t, r>>}) <= Cardinality(Holding) + 1
      /\ Cardinality(Holding) \in Nat
  <2>1. Cardinality(Holding) \in Nat
    BY FS_CardinalityType
  <2>2. /\ IsFiniteSet(Holding \cup {<<t, r>>})
        /\ Cardinality(Holding \cup {<<t, r>>}) =
              IF <<t, r>> \in Holding THEN Cardinality(Holding) ELSE Cardinality(Holding) + 1
    BY FS_AddElement
  <2>3. QED
    BY <2>1, <2>2
<1>5. IsFiniteSet(Holding') /\ Cardinality(Holding') <= Cardinality(Holding \cup {<<t, r>>})
  BY <1>3, <1>4, FS_Subset
<1>6. Cardinality(Holding') \in Nat /\ Cardinality(Holding \cup {<<t, r>>}) \in Nat
  BY <1>4, <1>5, FS_CardinalityType
<1>7. Cardinality(Holding') <= FetchConcurrency
  BY <1>1, <1>4, <1>5, <1>6, WantsAssumption
<1>8. QED
  BY <1>5, <1>7 DEF PermitsKept

\* The permits in use are finitely many, as a count of them presupposes.
HoldInv == IsFiniteSet(Holding) /\ PermitsKept

(* No more requests are under way than there are permits, although reads   *)
(* are dropped while they wait or are being answered, and a whole object   *)
(* takes a permit twice (wasm_s3_storage.rs signed_request).               *)
THEOREM PermitsAlwaysKept == Spec => []PermitsKept
<1>1. Init => HoldInv
  <2>1. SUFFICES ASSUME Init PROVE HoldInv
    OBVIOUS
  <2>2. reads = [t \in Tokens |-> NoReads] /\ DOMAIN NoReads = {}
    BY <2>1 DEF Init, NoReads
  <2>3. Holding = {}
    BY <2>2 DEF Holding, Sent
  <2>4. QED
    BY <2>3, FS_EmptySet, WantsAssumption DEF HoldInv, PermitsKept
<1>2. ASSUME ReadsInv, HoldInv, [Next]_vars
      PROVE  HoldInv'
  <2>1. CASE ~Acquire
    <3>1. Holding' \subseteq Holding
      BY <1>2, <2>1, HoldingSteps
    <3>2. IsFiniteSet(Holding') /\ Cardinality(Holding') <= Cardinality(Holding)
      BY <1>2, <3>1, FS_Subset DEF HoldInv
    <3>3. Cardinality(Holding') \in Nat /\ Cardinality(Holding) \in Nat
      BY <1>2, <3>2, FS_CardinalityType DEF HoldInv
    <3>4. QED
      BY <1>2, <3>2, <3>3, WantsAssumption DEF HoldInv, PermitsKept
  <2>2. QED
    BY <1>2, <2>1, HoldingAcquire DEF HoldInv
<1>3. Init => PageInv /\ ReadsInv
  BY PageInit, ReadsInit
<1>4. PageInv /\ ReadsInv /\ [Next]_vars => PageInv' /\ ReadsInv'
  BY PageStep, ReadsStep
<1>5. HoldInv => PermitsKept
  BY DEF HoldInv
<1>6. QED
  BY <1>1, <1>2, <1>3, <1>4, <1>5, PTL DEF Spec

-----------------------------------------------------------------------------
(* The bytes of a set of chunks. *)
Weight(C) == MapThenSumSet(LAMBDA c : c[2] - c[1], C)
Lengths(C) == [c \in C |-> c[2] - c[1]]
Sized(c) == c[2] - c[1] \in Nat

\* Which are the sum of their lengths.
LEMMA WeightIs ==
  ASSUME NEW C
  PROVE  Weight(C) = SumOf(Lengths(C), C)
<1>1. Weight(C) = (CHOOSE g : g = [s \in SUBSET C |->
          IF s = {} THEN 0
          ELSE (CHOOSE x \in s : TRUE)[2] - (CHOOSE x \in s : TRUE)[1] + g[s \ {CHOOSE x \in s : TRUE}]])[C]
  BY DEF Weight, MapThenSumSet, MapThenFoldSet
<1>2. QED
  BY <1>1 DEF SumOf, SumsTo, Pick, Lengths

\* A chunk adds its length, or nothing if it is there.
LEMMA WeightGrows ==
  ASSUME NEW C, IsFiniteSet(C), \A d \in C : Sized(d), NEW c, Sized(c)
  PROVE  /\ Weight(C) \in Nat /\ Weight(C \cup {c}) \in Nat
         /\ Weight(C \cup {c}) <= Weight(C) + (c[2] - c[1])
         /\ Weight({c}) = c[2] - c[1]
<1> DEFINE n == c[2] - c[1]
<1>1. n \in Nat
  BY DEF Sized
<1>2. ASSUME NEW D, IsFiniteSet(D), \A d \in D : Sized(d), c \notin D
      PROVE  Weight(D) \in Nat /\ Weight(D \cup {c}) = n + Weight(D) /\ (D = {} => Weight(D) = 0)
  <2> DEFINE T == D \cup {c}
             F == Lengths(T)
  <2>1. IsFiniteSet(T) /\ \A x \in T : F[x] \in Nat /\ F[x] = x[2] - x[1]
    BY <1>2, FS_AddElement DEF Lengths, Sized
  <2>2. T \ {c} = D /\ c \in T /\ F[c] = n
    BY <1>2, <2>1
  <2>3. \A x \in D : Lengths(D)[x] = F[x] /\ Lengths(D)[x] \in Nat
    BY <1>2 DEF Lengths, Sized
  <2> HIDE DEF F, T, n
  <2>4. SumOf(F, T) = n + SumOf(F, D)
    BY <2>1, <2>2, SumFacts
  <2>5. SumOf(Lengths(D), D) = SumOf(F, D)
    BY <1>2, <2>3, SumAgrees
  <2>6. SumOf(Lengths(D), D) \in Nat /\ (D = {} => SumOf(Lengths(D), D) = 0)
    BY <1>2, <2>3, SumFacts
  <2>7. QED
    BY <2>4, <2>5, <2>6, WeightIs DEF F, T
<1> HIDE DEF n
<1>3. Weight({c}) = n
  <2>1. IsFiniteSet({}) /\ {} \cup {c} = {c}
    BY FS_EmptySet
  <2>2. QED
    BY <1>1, <1>2, <2>1
<1>4. CASE c \notin C
  BY <1>1, <1>2, <1>3, <1>4 DEF n
<1>5. CASE c \in C
  <2> DEFINE D == C \ {c}
  <2>1. IsFiniteSet(D) /\ c \notin D /\ D \cup {c} = C /\ C \cup {c} = C /\ \A d \in D : Sized(d)
    BY <1>5, FS_RemoveElement
  <2> HIDE DEF D
  <2>2. Weight(D) \in Nat /\ Weight(C) = n + Weight(D)
    BY <1>2, <2>1
  <2>3. Weight(C) \in Nat
    BY <1>1, <2>2
  <2>4. C \cup {c} = C
    BY <2>1
  <2>5. Weight(C \cup {c}) = Weight(C)
    BY <2>4, Zenon
  <2>6. QED
    BY <1>1, <1>3, <2>3, <2>5 DEF n
<1>6. QED
  BY <1>4, <1>5

(* The cache holds finitely many paths and chunks of them. *)
CacheFinite(ch) ==
    /\ IsFiniteSet(DOMAIN ch)
    /\ \A k \in DOMAIN ch : IsFiniteSet(ch[k]) /\ \A c \in ch[k] : Sized(c)

Weights(ch) == [k \in DOMAIN ch |-> Weight(ch[k])]

\* bytes_used is the sum over the paths.
LEMMA TotalIs ==
  ASSUME NEW ch
  PROVE  Total(ch) = SumOf(Weights(ch), DOMAIN ch)
<1>1. Total(ch) = (CHOOSE g : g = [s \in SUBSET DOMAIN ch |->
          IF s = {} THEN 0
          ELSE Weight(ch[CHOOSE x \in s : TRUE]) + g[s \ {CHOOSE x \in s : TRUE}]])[DOMAIN ch]
  BY DEF Total, Weight, MapThenSumSet, MapThenFoldSet
<1>2. QED
  BY <1>1 DEF SumOf, SumsTo, Pick, Weights

\* A chunk put in the cache adds at most its length to it.
LEMMA InsertedIs ==
  ASSUME NEW ch, CacheFinite(ch), NEW k, NEW c, Sized(c)
  PROVE  LET res == Inserted(ch, k, c)
         IN  /\ CacheFinite(res) /\ DOMAIN res = DOMAIN ch \cup {k}
             /\ DOMAIN ch = {} => res[k] = {c}
             /\ Total(ch) \in Nat /\ Total(res) \in Nat
             /\ Total(res) <= Total(ch) + (c[2] - c[1])
<1> DEFINE res == Inserted(ch, k, c)
           D == DOMAIN ch
           T == D \cup {k}
           R == T \ {k}
           W == Weights(ch)
           V == Weights(res)
           n == c[2] - c[1]
           old == IF k \in D THEN Weight(ch[k]) ELSE 0
<1>1. /\ DOMAIN res = T /\ (\A i \in R : res[i] = ch[i] /\ i \in D)
      /\ res[k] = IF k \in D THEN ch[k] \cup {c} ELSE {c}
  BY DEF Inserted
<1>2. /\ IsFiniteSet(D) /\ n \in Nat
      /\ \A i \in D : IsFiniteSet(ch[i]) /\ \A d \in ch[i] : Sized(d)
  BY DEF CacheFinite, Sized
<1>3. IsFiniteSet(T) /\ IsFiniteSet(R) /\ k \in T
  BY <1>2, FS_AddElement, FS_RemoveElement
<1>4. \A i \in D : Weight(ch[i]) \in Nat /\ W[i] = Weight(ch[i])
  BY <1>2, WeightGrows DEF Weights
<1>5. IsFiniteSet(res[k]) /\ (\A d \in res[k] : Sized(d))
  <2>1. CASE k \in D
    BY <1>1, <1>2, <2>1, FS_AddElement
  <2>2. CASE k \notin D
    BY <1>1, <2>2, FS_Singleton
  <2>3. QED
    BY <2>1, <2>2
<1>6. Weight(res[k]) \in Nat /\ Weight(res[k]) <= old + n /\ old \in Nat
  <2>1. CASE k \in D
    <3>1. Weight(ch[k] \cup {c}) \in Nat /\ Weight(ch[k] \cup {c}) <= Weight(ch[k]) + n
      BY <1>2, <2>1, WeightGrows
    <3>2. QED
      BY <1>1, <1>4, <2>1, <3>1
  <2>2. CASE k \notin D
    <3>1. Weight({c}) = n
      BY FS_EmptySet, WeightGrows
    <3>2. QED
      BY <1>1, <1>2, <2>2, <3>1
  <2>3. QED
    BY <2>1, <2>2
<1> HIDE DEF res
<1>7. CacheFinite(res)
  BY <1>1, <1>2, <1>3, <1>5 DEF CacheFinite
<1>8. \A i \in T : V[i] = Weight(res[i])
  BY <1>1 DEF Weights
<1>9. V[k] = Weight(res[k]) /\ \A i \in R : V[i] = W[i] /\ W[i] \in Nat
  BY <1>1, <1>3, <1>4, <1>8
<1>10. \A i \in T : V[i] \in Nat
  BY <1>6, <1>9
<1> HIDE DEF V, W, n, old
<1>11. SumOf(V, T) = V[k] + SumOf(V, R) /\ SumOf(V, T) \in Nat
  BY <1>3, <1>10, SumFacts
<1>12. SumOf(V, R) = SumOf(W, R)
  BY <1>3, <1>9, SumAgrees
<1>13. SumOf(W, R) \in Nat /\ SumOf(W, D) \in Nat
  <2>1. SumOf(W, R) \in Nat
    BY <1>3, <1>9, SumFacts
  <2>2. SumOf(W, D) \in Nat
    BY <1>2, <1>4, SumFacts
  <2>3. QED
    BY <2>1, <2>2
<1>14. SumOf(W, D) = old + SumOf(W, R)
  <2>1. CASE k \in D
    <3>1. R = D \ {k}
      BY <2>1
    <3>2. SumOf(W, D) = W[k] + SumOf(W, D \ {k})
      BY <1>2, <1>4, <2>1, SumFacts
    <3>3. SumOf(W, R) = SumOf(W, D \ {k})
      BY <3>1, Zenon
    <3> HIDE DEF R
    <3>4. QED
      BY <1>4, <2>1, <3>2, <3>3 DEF old
  <2>2. CASE k \notin D
    <3>1. R = D
      BY <2>2
    <3>2. SumOf(W, R) = SumOf(W, D)
      BY <3>1, Zenon
    <3> HIDE DEF R
    <3>3. QED
      BY <1>13, <2>2, <3>2 DEF old
  <2>3. QED
    BY <2>1, <2>2
<1>15. Total(res) = SumOf(V, T) /\ Total(ch) = SumOf(W, D)
  BY <1>1, TotalIs DEF V, W
<1> HIDE DEF R, T, D
<1>16. Total(res) \in Nat /\ Total(ch) \in Nat /\ Total(res) <= Total(ch) + n
  BY <1>2, <1>6, <1>9, <1>11, <1>12, <1>13, <1>14, <1>15
<1>17. QED
  BY <1>1, <1>7, <1>16 DEF res, D, T, n

(* Within max_bytes, or one chunk alone. *)
OneChunk(ch) == \E k \in DOMAIN ch : DOMAIN ch = {k} /\ Cardinality(ch[k]) = 1

\* evict_if_needed and put.
LEMMA PutBounded ==
  ASSUME NEW ch, CacheFinite(ch), NEW k, NEW c, Sized(c), NEW res \in Put(ch, k, c)
  PROVE  CacheFinite(res) /\ (Total(res) > MaxBytes => OneChunk(res))
<1> DEFINE n == c[2] - c[1]
<1>1. PICK e \in Evicted(ch, n) : res = Inserted(e, k, c)
  BY DEF Put
<1>2. PICK E \in SUBSET DOMAIN ch : /\ e = Without(ch, E)
                                    /\ (Total(Without(ch, E)) + n <= MaxBytes) \/ E = DOMAIN ch
  BY <1>1 DEF Evicted
<1>3. DOMAIN e = DOMAIN ch \ E /\ \A i \in DOMAIN e : e[i] = ch[i]
  BY <1>2 DEF Without
<1>4. CacheFinite(e)
  BY <1>3, FS_Subset DEF CacheFinite
<1>5. /\ CacheFinite(res) /\ DOMAIN res = DOMAIN e \cup {k}
      /\ DOMAIN e = {} => res[k] = {c}
      /\ Total(e) \in Nat /\ Total(res) \in Nat /\ Total(res) <= Total(e) + n
  <2> DEFINE x == Inserted(e, k, c)
  <2>1. /\ CacheFinite(x) /\ DOMAIN x = DOMAIN e \cup {k}
        /\ DOMAIN e = {} => x[k] = {c}
        /\ Total(e) \in Nat /\ Total(x) \in Nat /\ Total(x) <= Total(e) + (c[2] - c[1])
    BY <1>4, InsertedIs
  <2> HIDE DEF x
  <2>2. res = x
    BY <1>1 DEF x
  <2>3. QED
    BY <2>1, <2>2
<1>6. CASE Total(e) + n <= MaxBytes
  <2>1. Total(res) <= MaxBytes
    BY <1>5, <1>6, WantsAssumption DEF Sized
  <2>2. QED
    BY <1>5, <2>1, WantsAssumption
<1>7. CASE E = DOMAIN ch
  <2>1. DOMAIN e = {} /\ DOMAIN res = {k} /\ res[k] = {c}
    BY <1>3, <1>5, <1>7
  <2>2. Cardinality(res[k]) = 1
    BY <2>1, FS_Singleton
  <2>3. QED
    BY <1>5, <2>1, <2>2 DEF OneChunk
<1>8. QED
  BY <1>2, <1>6, <1>7

BoundInv == CacheFinite(cache) /\ CacheBounded

\* A step that puts something in the cache, or nothing.
LEMMA PutStep ==
  ASSUME BoundInv, NEW r \in Reads, NEW f, NEW ch \in Put(cache, <<r.path, f>>, <<r.lo, r.hi>>)
  PROVE  /\ CacheFinite(ch) /\ Sized(<<r.lo, r.hi>>)
         /\ Cached(ch) => BoundInv'
<1> DEFINE c == <<r.lo, r.hi>>
<1>1. c[1] = r.lo /\ c[2] = r.hi /\ r.lo \in Nat /\ r.hi \in Nat /\ r.lo < r.hi
  BY WantsAssumption
<1>2. Sized(c)
  BY <1>1 DEF Sized
<1> HIDE DEF c
<1>3. CacheFinite(ch) /\ (Total(ch) > MaxBytes => OneChunk(ch))
  BY <1>2, PutBounded DEF BoundInv, c
<1>4. ASSUME Cached(ch) PROVE BoundInv'
  <2>1. cache' = ch /\ used' = Total(ch)
    BY <1>4 DEF Cached
  <2>2. QED
    BY <1>3, <2>1 DEF BoundInv, CacheBounded, OneChunk
<1>5. QED
  BY <1>2, <1>3, <1>4 DEF c

\* Every step keeps the cache within its bound.
LEMMA BoundStep ==
  ASSUME ReadsInv, BoundInv, [Next]_vars
  PROVE  BoundInv'
<1>1. CASE UNCHANGED <<cache, used>>
  BY <1>1 DEF BoundInv, CacheBounded
<1>2. ASSUME NEW t \in Tokens, NEW r \in DOMAIN reads[t], ReadStep(t, r)
      PROVE  BoundInv'
  <2>1. r \in Reads
    BY DEF ReadsInv
  <2>2. CASE HitInner(t, r)
    <3>1. PICK ch \in Put(cache, <<r.path, 1>>, <<r.lo, r.hi>>) : Cached(ch)
      BY <2>2 DEF HitInner
    <3>2. QED
      BY <2>1, <3>1, PutStep
  <2>3. CASE GetAnswer(t, r)
    <3>1. PICK inner \in Put(cache, <<r.path, fingerprint>>, <<r.lo, r.hi>>) :
             \E outer \in Put(inner, <<r.path, 1>>, <<r.lo, r.hi>>) : Cached(outer)
      BY <2>3 DEF GetAnswer
    <3>2. PICK outer \in Put(inner, <<r.path, 1>>, <<r.lo, r.hi>>) : Cached(outer)
      BY <3>1
    <3>3. CacheFinite(inner) /\ Sized(<<r.lo, r.hi>>)
      BY <2>1, <3>1, PutStep
    <3>4. CacheFinite(outer) /\ (Total(outer) > MaxBytes => OneChunk(outer))
      BY <3>2, <3>3, PutBounded
    <3>5. cache' = outer /\ used' = Total(outer)
      BY <3>2 DEF Cached
    <3>6. QED
      BY <3>4, <3>5 DEF BoundInv, CacheBounded, OneChunk
  <2>4. ASSUME NEW leg, Enqueue(t, r, leg) PROVE UNCHANGED <<cache, used>>
    BY <2>4 DEF Enqueue, store
  <2>5. HitOuter(t, r) => UNCHANGED <<cache, used>>
    BY DEF HitOuter, store
  <2>6. ASSUME NEW how, FailRead(t, r, how) PROVE UNCHANGED <<cache, used>>
    BY <2>6, WhatFails DEF Fails, store
  <2>7. BeginRead(t, r) \/ HeadAnswer(t, r) \/ RequestFails(t, r) \/ EndTask(t, r)
           => HitInner(t, r) \/ UNCHANGED <<cache, used>>
    BY <2>4, <2>5, <2>6 DEF BeginRead, HeadAnswer, RequestFails, EndTask, store
  <2>8. QED
    BY <1>1, <1>2, <2>2, <2>3, <2>7 DEF ReadStep
<1>3. CASE \/ \E want \in Wants : RunQuery(want)
           \/ CancelQuery \/ UiTimeout \/ Reconnect \/ Acquire
           \/ \E o \in orphans : OrphanAnswer(o)
           \/ \E t \in Tokens : EndQuery(t) \/ LoadAnswer(t)
           \/ ConnectAnswer \/ ConnectFails
           \/ UNCHANGED vars
  <2>1. UNCHANGED <<cache, used>>
    BY <1>3 DEF RunQuery, CancelQuery, UiTimeout, Reconnect, Acquire, OrphanAnswer, EndQuery,
                LoadAnswer, ConnectAnswer, ConnectFails, vars, store
  <2>2. QED
    BY <1>1, <2>1
<1>4. CASE \E t \in Tokens : LoadFails(t)
  BY <1>1, <1>4, WhatFails DEF Fails, store
<1>5. QED
  BY <1>2, <1>3, <1>4 DEF Next, EngineStep

(* The cache counts what it holds and stays within max_bytes, but for one  *)
(* chunk that is larger and then alone, whichever paths are evicted and    *)
(* although every answer is put in it twice (evict_if_needed, put).        *)
THEOREM CacheStaysBounded == Spec => []CacheBounded
<1>1. Init => BoundInv
  <2>1. SUFFICES ASSUME Init PROVE BoundInv
    OBVIOUS
  <2>2. cache = [k \in {} |-> {}] /\ used = 0
    BY <2>1 DEF Init
  <2>3. DOMAIN cache = {}
    BY <2>2
  <2>4. CacheFinite(cache)
    BY <2>3, FS_EmptySet DEF CacheFinite
  <2>5. Total(cache) = 0
    <3>1. SumOf(Weights(cache), {}) = 0
      BY FS_EmptySet, SumFacts
    <3>2. QED
      BY <2>3, <3>1, TotalIs
  <2>6. QED
    BY <2>2, <2>4, <2>5, WantsAssumption DEF BoundInv, CacheBounded
<1>2. Init => PageInv /\ ReadsInv
  BY PageInit, ReadsInit
<1>3. PageInv /\ ReadsInv /\ BoundInv /\ [Next]_vars => PageInv' /\ ReadsInv' /\ BoundInv'
  BY PageStep, ReadsStep, BoundStep
<1>4. BoundInv => CacheBounded
  BY DEF BoundInv
<1>5. QED
  BY <1>1, <1>2, <1>3, <1>4, PTL DEF Spec

-----------------------------------------------------------------------------
(* The members of a queue, and that none is in it twice. *)
Members(q) == {q[i] : i \in 1..Len(q)}
Distinct(q) == \A i, j \in 1..Len(q) : q[i] = q[j] => i = j

LeavesTo(q, W, m, g) ==
    g = [n \in 0..m |-> IF n = 0 THEN <<>>
                        ELSE IF q[n] \in W THEN g[n - 1] ELSE Append(g[n - 1], q[n])]

\* The function of Leave exists.
LEMMA LeaveExists ==
  ASSUME NEW q, NEW W
  PROVE  \A m \in Nat : \E g : LeavesTo(q, W, m, g)
<1> DEFINE V(g, n) == IF n = 0 THEN <<>>
                      ELSE IF q[n] \in W THEN g[n - 1] ELSE Append(g[n - 1], q[n])
           Bad == {m \in Nat : ~\E g : LeavesTo(q, W, m, g)}
<1> SUFFICES ASSUME Bad # {} PROVE FALSE
  OBVIOUS
<1>1. PICK m \in Bad : \A k \in Bad : m <= k
  BY LeastNat
<1>2. CASE m = 0
  <2> DEFINE g == [n \in 0..0 |-> <<>>]
  <2>1. g = [n \in 0..0 |-> V(g, n)]
    OBVIOUS
  <2>2. LeavesTo(q, W, 0, g)
    BY <2>1 DEF LeavesTo
  <2>3. QED
    BY <1>1, <1>2, <2>2
<1>3. CASE m # 0
  <2>1. m \in Nat /\ m - 1 \in Nat /\ m - 1 \notin Bad
    BY <1>1, <1>3
  <2>2. PICK g : LeavesTo(q, W, m - 1, g)
    BY <2>1
  <2> DEFINE h == [n \in 0..m |-> IF n = m THEN V(g, n) ELSE g[n]]
  <2>3. ASSUME NEW n \in 0..m PROVE h[n] = V(h, n)
    <3>1. CASE n = m
      <4>1. n # 0 /\ n - 1 \in 0..m /\ n - 1 # m
        BY <1>3, <2>1, <3>1
      <4>2. h[n] = V(g, n) /\ h[n - 1] = g[n - 1]
        BY <3>1, <4>1
      <4>3. QED
        BY <4>1, <4>2
    <3>2. CASE n # m
      <4>1. n \in 0..(m - 1) /\ (n = 0 \/ (n - 1 \in 0..m /\ n - 1 # m))
        BY <2>1, <3>2
      <4>2. h[n] = g[n] /\ g[n] = V(g, n)
        BY <2>2, <3>2, <4>1 DEF LeavesTo
      <4>3. n = 0 \/ h[n - 1] = g[n - 1]
        BY <4>1
      <4>4. QED
        BY <4>2, <4>3
    <3>3. QED
      BY <3>1, <3>2
  <2>4. h = [n \in 0..m |-> h[n]]
    OBVIOUS
  <2> HIDE DEF h
  <2>5. h = [n \in 0..m |-> V(h, n)]
    BY <2>3, <2>4
  <2>6. LeavesTo(q, W, m, h)
    BY <2>5 DEF LeavesTo
  <2>7. QED
    BY <1>1, <2>6
<1>4. QED
  BY <1>2, <1>3

\* One at the end of a queue.
LEMMA AppendIs ==
  ASSUME NEW S, NEW q \in Seq(S), NEW x \in S
  PROVE  /\ Append(q, x) \in Seq(S) /\ Members(Append(q, x)) = Members(q) \cup {x}
         /\ Distinct(q) /\ x \notin Members(q) => Distinct(Append(q, x))
<1> DEFINE a == Append(q, x)
<1>1. /\ a \in Seq(S) /\ Len(a) = Len(q) + 1 /\ Len(q) \in Nat /\ a[Len(q) + 1] = x
      /\ \A i \in 1..Len(q) : a[i] = q[i]
  OBVIOUS
<1> HIDE DEF a
<1>2. \A i \in 1..Len(a) : i \in 1..Len(q) \/ i = Len(q) + 1
  BY <1>1
<1>3. Len(q) + 1 \in 1..Len(a) /\ \A i \in 1..Len(q) : i \in 1..Len(a)
  BY <1>1
<1>4. Members(a) = Members(q) \cup {x}
  BY <1>1, <1>2, <1>3 DEF Members
<1>5. ASSUME Distinct(q), x \notin Members(q) PROVE Distinct(a)
  <2>1. \A i \in 1..Len(q) : q[i] # x
    BY <1>5 DEF Members
  <2>2. QED
    BY <1>1, <1>2, <1>5, <2>1 DEF Distinct
<1>6. QED
  BY <1>1, <1>4, <1>5 DEF a

\* The first of a queue.
LEMMA TailIs ==
  ASSUME NEW S, NEW q \in Seq(S), q # <<>>, Distinct(q)
  PROVE  /\ Head(q) \in S /\ Head(q) \in Members(q)
         /\ Tail(q) \in Seq(S) /\ Distinct(Tail(q)) /\ Members(Tail(q)) = Members(q) \ {Head(q)}
<1> DEFINE a == Tail(q)
           n == Len(q)
<1>1. /\ a \in Seq(S) /\ Len(a) = n - 1 /\ n \in Nat /\ n >= 1 /\ Head(q) = q[1] /\ Head(q) \in S
      /\ \A i \in 1..Len(a) : a[i] = q[i + 1]
  OBVIOUS
<1> HIDE DEF a, n
<1>2. \A i \in 1..Len(a) : i + 1 \in 1..n
  BY <1>1
<1>3. Distinct(a)
  <2>1. SUFFICES ASSUME NEW i \in 1..Len(a), NEW j \in 1..Len(a), a[i] = a[j] PROVE i = j
    BY DEF Distinct
  <2>2. q[i + 1] = q[j + 1] /\ i + 1 \in 1..n /\ j + 1 \in 1..n
    BY <1>1, <1>2, <2>1
  <2>3. i + 1 = j + 1
    BY <2>2 DEF Distinct, n
  <2>4. QED
    BY <1>1, <2>3
<1>4. 1 \in 1..n
  BY <1>1
<1>5. Members(a) = Members(q) \ {q[1]}
  <2>1. ASSUME NEW x \in Members(a) PROVE x \in Members(q) /\ x # q[1]
    <3>1. PICK i \in 1..Len(a) : x = a[i]
      BY DEF Members
    <3>2. x = q[i + 1] /\ i + 1 \in 1..n /\ i + 1 # 1
      BY <1>1, <1>2, <3>1
    <3>3. QED
      BY <1>4, <3>2 DEF Distinct, Members, n
  <2>2. ASSUME NEW x \in Members(q), x # q[1] PROVE x \in Members(a)
    <3>1. PICK i \in 1..n : x = q[i]
      BY DEF Members, n
    <3>2. i - 1 \in 1..Len(a) /\ (i - 1) + 1 = i
      BY <1>1, <2>2, <3>1
    <3>3. a[i - 1] = x
      BY <1>1, <3>1, <3>2
    <3>4. QED
      BY <3>2, <3>3 DEF Members
  <2>3. QED
    BY <2>1, <2>2
<1>6. Head(q) \in Members(q)
  BY <1>1, <1>4 DEF Members, n
<1>7. QED
  BY <1>1, <1>3, <1>5, <1>6 DEF a

\* What Leave leaves.
LEMMA LeaveIs ==
  ASSUME NEW S, NEW q \in Seq(S), Distinct(q), NEW W
  PROVE  /\ Leave(q, W) \in Seq(S) /\ Distinct(Leave(q, W))
         /\ Members(Leave(q, W)) = Members(q) \ W
<1> DEFINE m == Len(q)
           g == CHOOSE g : LeavesTo(q, W, m, g)
           Upto(n) == {q[i] : i \in 1..n} \ W
           OK(n) == g[n] \in Seq(S) /\ Distinct(g[n]) /\ Members(g[n]) = Upto(n)
           Bad == {n \in 0..m : ~OK(n)}
<1>1. m \in Nat /\ Leave(q, W) = g[m] /\ \A i \in 1..m : q[i] \in S
  <2>1. Leave(q, W) = g[m]
    BY DEF Leave, LeavesTo
  <2>2. m \in Nat /\ \A i \in 1..m : q[i] \in S
    OBVIOUS
  <2>3. QED
    BY <2>1, <2>2
<1>2. LeavesTo(q, W, m, g)
  <2>1. m \in Nat
    BY <1>1
  <2> HIDE DEF m
  <2>2. \E f : LeavesTo(q, W, m, f)
    BY <2>1, LeaveExists
  <2>3. QED
    BY <2>2
<1> HIDE DEF g
<1>3. \A n \in 0..m : g[n] = IF n = 0 THEN <<>>
                        ELSE IF q[n] \in W THEN g[n - 1] ELSE Append(g[n - 1], q[n])
  BY <1>2 DEF LeavesTo
<1>4. Bad = {}
  <2> SUFFICES ASSUME Bad # {} PROVE FALSE
    OBVIOUS
  <2>1. PICK n \in Bad : \A k \in Bad : n <= k
    <3>1. Bad \subseteq Nat
      OBVIOUS
    <3> HIDE DEF Bad
    <3>2. QED
      BY <3>1, LeastNat
  <2>2. n \in 0..m /\ ~OK(n)
    BY <2>1
  <2>3. CASE n = 0
    <3>1. g[0] = <<>> /\ Len(<<>>) = 0 /\ <<>> \in Seq(S)
      BY <1>1, <1>3
    <3>2. Members(<<>>) = {} /\ Distinct(<<>>) /\ Upto(0) = {}
      BY <3>1 DEF Members, Distinct
    <3>3. QED
      BY <2>2, <2>3, <3>1, <3>2
  <2>4. CASE n # 0
    <3> DEFINE p == n - 1
               x == q[n]
    <3>1. p \in 0..m /\ n \in 1..m /\ x \in S
      BY <1>1, <2>2, <2>4
    <3>2. OK(p)
      <4>1. ~(n <= p)
        BY <1>1, <2>2
      <4>2. p \notin Bad
        BY <2>1, <4>1
      <4>3. QED
        BY <3>1, <4>2
    <3>3. {q[i] : i \in 1..n} = {q[i] : i \in 1..p} \cup {x}
      <4>1. \A i \in 1..n : i = n \/ i \in 1..p
        BY <3>1
      <4>2. n \in 1..n /\ \A i \in 1..p : i \in 1..n
        BY <3>1
      <4>3. QED
        BY <4>1, <4>2
    <3>4. x \notin {q[i] : i \in 1..p}
      <4>1. \A i \in 1..p : i \in 1..m /\ i # n
        BY <3>1
      <4>2. QED
        BY <3>1, <4>1 DEF Distinct
    <3>5. g[n] = IF x \in W THEN g[p] ELSE Append(g[p], x)
      BY <1>3, <2>2, <2>4
    <3> HIDE DEF p, x
    <3>6. CASE x \in W
      <4>1. Upto(n) = Upto(p)
        BY <3>3, <3>6
      <4>2. QED
        BY <2>2, <3>2, <3>5, <3>6, <4>1
    <3>7. CASE x \notin W
      <4>1. Upto(n) = Upto(p) \cup {x} /\ x \notin Upto(p)
        BY <3>3, <3>4, <3>7
      <4>2. g[n] = Append(g[p], x)
        BY <3>5, <3>7
      <4>3. g[p] \in Seq(S) /\ Distinct(g[p]) /\ Members(g[p]) = Upto(p)
        BY <3>2
      <4> HIDE DEF Upto
      <4>4. g[n] \in Seq(S) /\ Members(g[n]) = Upto(p) \cup {x} /\ Distinct(g[n])
        BY <3>1, <4>1, <4>2, <4>3, AppendIs
      <4>5. QED
        BY <2>2, <4>1, <4>4
    <3>8. QED
      BY <3>6, <3>7
  <2>5. QED
    BY <2>3, <2>4
<1>5. OK(m)
  <2>1. m \in 0..m
    BY <1>1
  <2> HIDE DEF OK, m
  <2>2. QED
    BY <1>4, <2>1
<1>6. QED
  BY <1>1, <1>5 DEF Members

-----------------------------------------------------------------------------
Items == Tokens \X Reads

(* The reads that wait for a permit, by their own state. *)
WaitSet == {w \in Items : w[2] \in DOMAIN reads[w[1]] /\ reads[w[1]][w[2]].st = "wait"}

(* The queue holds each of them once. *)
QueueInv ==
    /\ waiting \in Seq(Items) /\ Distinct(waiting)
    /\ Members(waiting) = WaitSet
    /\ \A t \in Tokens : \A r \in DOMAIN reads[t] : reads[t][r] \in ReadStates

\* Who waits is a matter of the reads.
LEMMA WaitsIs ==
  ASSUME ReadsInv, NEW t \in Tokens, NEW r \in Reads
  PROVE  <<t, r>> \in WaitSet <=> r \in DOMAIN reads[t] /\ reads[t][r].st = "wait"
<1> DEFINE w == <<t, r>>
<1>1. w \in Items /\ w[1] = t /\ w[2] = r
  BY DEF Items
<1> HIDE DEF w
<1>2. QED
  BY <1>1 DEF WaitSet, w

\* One read moves on: who waits then.
LEMMA SetReadWaits ==
  ASSUME ReadsInv, QueueInv, NEW t \in Tokens, NEW r \in DOMAIN reads[t],
         NEW st \in {"todo", "wait", "fetch", "done"}, NEW leg \in {"head", "get"},
         NEW got \in Nat \X Nat, SetRead(t, r, st, leg, got)
  PROVE  /\ st = "wait" => WaitSet' = WaitSet \cup {<<t, r>>}
         /\ st # "wait" => WaitSet' = WaitSet \ {<<t, r>>}
         /\ \A u \in Tokens : \A s \in DOMAIN reads'[u] : reads'[u][s] \in ReadStates
<1> DEFINE v == [st |-> st, leg |-> leg, got |-> got]
           d == <<t, r>>
<1>1. v \in ReadStates /\ v.st = st
  BY DEF ReadStates
<1>2. /\ \A u \in Tokens : DOMAIN reads'[u] = DOMAIN reads[u]
      /\ \A u \in Tokens : \A s \in DOMAIN reads[u] :
            reads'[u][s] = IF u = t /\ s = r THEN v ELSE reads[u][s]
  BY DEF SetRead, ReadsInv
<1> HIDE DEF v
<1>3. \A u \in Tokens : \A s \in DOMAIN reads'[u] : reads'[u][s] \in ReadStates
  BY <1>1, <1>2 DEF QueueInv
<1>4. r \in Reads
  BY DEF ReadsInv
<1>5. d \in Items /\ d[1] = t /\ d[2] = r
      /\ \A w \in Items : w[1] \in Tokens /\ w[2] \in Reads /\ (w = d <=> w[1] = t /\ w[2] = r)
  BY <1>4 DEF Items
<1> HIDE DEF d
<1>6. \A w \in Items : w \in WaitSet' <=>
         w[2] \in DOMAIN reads'[w[1]] /\ reads'[w[1]][w[2]].st = "wait"
  BY DEF WaitSet, Items
<1>7. \A w \in Items : w \in WaitSet <=>
         w[2] \in DOMAIN reads[w[1]] /\ reads[w[1]][w[2]].st = "wait"
  BY DEF WaitSet
<1>8. \A w \in Items : w # d => (w \in WaitSet' <=> w \in WaitSet)
  BY <1>2, <1>5, <1>6, <1>7
<1>9. d \in WaitSet' <=> st = "wait"
  BY <1>1, <1>2, <1>5, <1>6
<1>10. WaitSet \subseteq Items /\ WaitSet' \subseteq Items
  BY DEF WaitSet, Items
<1>11. ASSUME st = "wait" PROVE WaitSet' = WaitSet \cup {d}
  BY <1>5, <1>8, <1>9, <1>10, <1>11
<1>12. ASSUME st # "wait" PROVE WaitSet' = WaitSet \ {d}
  BY <1>5, <1>8, <1>9, <1>10, <1>12
<1>13. QED
  BY <1>3, <1>11, <1>12 DEF d

\* Some reads of one query are dropped: who waits then.
LEMMA DropWaits ==
  ASSUME ReadsInv, QueueInv, NEW t \in Tokens, NEW D \in SUBSET DOMAIN reads[t],
         reads' = [reads EXCEPT ![t] = [s \in D |-> @[s]]]
  PROVE  /\ WaitSet' = WaitSet \ {<<t, s>> : s \in DOMAIN reads[t] \ D}
         /\ \A u \in Tokens : \A s \in DOMAIN reads'[u] : reads'[u][s] \in ReadStates
<1> DEFINE G == {<<t, s>> : s \in DOMAIN reads[t] \ D}
<1>1. /\ DOMAIN reads'[t] = D /\ \A s \in D : reads'[t][s] = reads[t][s]
      /\ \A u \in Tokens : u # t => reads'[u] = reads[u]
  BY DEF ReadsInv
<1>2. \A u \in Tokens : \A s \in DOMAIN reads'[u] : reads'[u][s] \in ReadStates
  BY <1>1 DEF QueueInv
<1>3. \A w \in Items : w[1] \in Tokens /\ w[2] \in Reads
         /\ (w \in G <=> w[1] = t /\ w[2] \in DOMAIN reads[t] \ D)
  BY DEF Items
<1> HIDE DEF G
<1>4. \A w \in Items : w \in WaitSet' <=>
         w[2] \in DOMAIN reads'[w[1]] /\ reads'[w[1]][w[2]].st = "wait"
  BY DEF WaitSet, Items
<1>5. \A w \in Items : w \in WaitSet <=>
         w[2] \in DOMAIN reads[w[1]] /\ reads[w[1]][w[2]].st = "wait"
  BY DEF WaitSet
<1>6. ASSUME NEW w \in Items PROVE w \in WaitSet' <=> w \in WaitSet /\ w \notin G
  <2>1. CASE w[1] = t
    <3>1. w \in WaitSet' <=> w[2] \in D /\ reads'[t][w[2]].st = "wait"
      BY <1>1, <1>4, <2>1
    <3>2. w \in WaitSet <=> w[2] \in DOMAIN reads[t] /\ reads[t][w[2]].st = "wait"
      BY <1>5, <2>1
    <3>3. w \in G <=> w[2] \in DOMAIN reads[t] /\ w[2] \notin D
      BY <1>3, <2>1
    <3>4. w[2] \in D => reads'[t][w[2]] = reads[t][w[2]] /\ w[2] \in DOMAIN reads[t]
      BY <1>1
    <3>5. CASE w[2] \in D
      BY <3>1, <3>2, <3>3, <3>4, <3>5
    <3>6. CASE w[2] \notin D
      BY <3>1, <3>2, <3>3, <3>6
    <3>7. QED
      BY <3>5, <3>6
  <2>2. CASE w[1] # t
    <3>1. reads'[w[1]] = reads[w[1]] /\ w \notin G
      BY <1>1, <1>3, <2>2
    <3>2. QED
      BY <1>4, <1>5, <3>1
  <2>3. QED
    BY <2>1, <2>2
<1>7. WaitSet \subseteq Items /\ WaitSet' \subseteq Items
  BY DEF WaitSet, Items
<1>8. WaitSet' = WaitSet \ G
  BY <1>6, <1>7
<1>9. QED
  BY <1>2, <1>8 DEF G

\* A read that does not wait moves on without the queue.
LEMMA QueueBy ==
  ASSUME ReadsInv, QueueInv, NEW t \in Tokens, NEW r \in DOMAIN reads[t],
         reads[t][r].st # "wait", UNCHANGED waiting,
         NEW st \in {"todo", "fetch", "done"}, NEW leg \in {"head", "get"},
         NEW got \in Nat \X Nat, SetRead(t, r, st, leg, got)
  PROVE  QueueInv'
<1>1. r \in Reads
  BY DEF ReadsInv
<1>2. <<t, r>> \notin WaitSet
  BY <1>1, WaitsIs
<1>3. WaitSet' = WaitSet \ {<<t, r>>}
      /\ \A u \in Tokens : \A s \in DOMAIN reads'[u] : reads'[u][s] \in ReadStates
  BY SetReadWaits
<1>4. WaitSet' = WaitSet
  BY <1>2, <1>3
<1>5. waiting' \in Seq(Items) /\ Distinct(waiting') /\ Members(waiting') = WaitSet
  BY DEF QueueInv
<1>6. QED
  BY <1>3, <1>4, <1>5 DEF QueueInv, Items, Members, Distinct, Tokens, Reads

\* A read joins the queue at its end.
LEMMA QueueEnqueue ==
  ASSUME ReadsInv, QueueInv, NEW t \in Tokens, NEW r \in DOMAIN reads[t],
         reads[t][r].st # "wait", NEW leg \in {"head", "get"}, Enqueue(t, r, leg)
  PROVE  QueueInv'
<1> DEFINE d == <<t, r>>
<1>1. r \in Reads /\ d \in Items
  BY DEF ReadsInv, Items
<1>2. d \notin WaitSet
  BY <1>1, WaitsIs
<1>3. SetRead(t, r, "wait", leg, <<0, 0>>) /\ waiting' = Append(waiting, d)
  BY DEF Enqueue
<1>4. <<0, 0>> \in Nat \X Nat
  OBVIOUS
<1>5. WaitSet' = WaitSet \cup {d}
      /\ \A u \in Tokens : \A s \in DOMAIN reads'[u] : reads'[u][s] \in ReadStates
  BY <1>3, <1>4, SetReadWaits
<1> HIDE DEF d
<1>6. /\ waiting' \in Seq(Items) /\ Members(waiting') = Members(waiting) \cup {d}
      /\ Distinct(waiting')
  BY <1>1, <1>2, <1>3, AppendIs DEF QueueInv
<1>7. Members(waiting') = WaitSet'
  BY <1>5, <1>6 DEF QueueInv
<1>8. QED
  BY <1>5, <1>6, <1>7 DEF QueueInv, Items, Members, Distinct, Tokens, Reads

\* The first of the queue gets its permit.
LEMMA QueueAcquire ==
  ASSUME ReadsInv, QueueInv, Acquire
  PROVE  QueueInv'
<1> DEFINE d == Head(waiting)
           t == d[1]
           r == d[2]
<1>1. waiting # <<>> /\ waiting' = Tail(waiting)
      /\ SetRead(t, r, "fetch", reads[t][r].leg, <<0, 0>>)
  BY DEF Acquire
<1>2. /\ d \in Members(waiting) /\ waiting' \in Seq(Items) /\ Distinct(waiting')
      /\ Members(waiting') = Members(waiting) \ {d}
  BY <1>1, TailIs DEF QueueInv
<1> HIDE DEF d
<1>3. d \in WaitSet
  BY <1>2 DEF QueueInv
<1>4. t \in Tokens /\ r \in DOMAIN reads[t] /\ d = <<t, r>>
  BY <1>3 DEF WaitSet, Items
<1> HIDE DEF t, r
<1>5. reads[t][r].leg \in {"head", "get"} /\ <<0, 0>> \in Nat \X Nat
  BY <1>4 DEF QueueInv, ReadStates
<1>6. WaitSet' = WaitSet \ {d}
      /\ \A u \in Tokens : \A s \in DOMAIN reads'[u] : reads'[u][s] \in ReadStates
  BY <1>1, <1>4, <1>5, SetReadWaits
<1>7. Members(waiting') = WaitSet'
  BY <1>2, <1>6 DEF QueueInv
<1>8. QED
  BY <1>2, <1>6, <1>7 DEF QueueInv, Items, Members, Distinct, Tokens, Reads

\* A read that does not wait is dropped, its query's with it.
LEMMA QueueFail ==
  ASSUME ReadsInv, QueueInv, NEW t \in Tokens, NEW gone, NEW how, Fails(t, gone, how),
         \A r \in gone : r \in DOMAIN reads[t] /\ reads[t][r].st # "wait"
  PROVE  QueueInv'
<1> DEFINE N == {<<t, r>> : r \in gone}
<1>1. gone \subseteq Reads
  BY DEF ReadsInv
<1>2. \A r \in gone : <<t, r>> \notin WaitSet
  BY <1>1, WaitsIs
<1>3. N \cap WaitSet = {}
  BY <1>2
<1>4. CASE Running(t)
  <2> DEFINE D == {s \in DOMAIN reads[t] \ gone : GoOn(t, s)}
             W == {<<t, s>> : s \in {u \in DOMAIN reads[t] : ~GoOn(t, u)}}
             G == {<<t, s>> : s \in DOMAIN reads[t] \ D}
  <2>1. reads' = [reads EXCEPT ![t] = [s \in D |-> @[s]]] /\ waiting' = Leave(waiting, W)
    BY <1>4 DEF Fails, FailQuery, DropReads
  <2>2. D \in SUBSET DOMAIN reads[t]
    OBVIOUS
  <2>3. W \subseteq G /\ G \subseteq W \cup N
    OBVIOUS
  <2> HIDE DEF D, W, N
  <2>4. WaitSet' = WaitSet \ G
        /\ \A u \in Tokens : \A s \in DOMAIN reads'[u] : reads'[u][s] \in ReadStates
    BY <2>1, <2>2, DropWaits
  <2> HIDE DEF G
  <2>5. /\ waiting' \in Seq(Items) /\ Distinct(waiting')
        /\ Members(waiting') = Members(waiting) \ W
    BY <2>1, LeaveIs DEF QueueInv
  <2>6. Members(waiting') = WaitSet'
    BY <1>3, <2>3, <2>4, <2>5 DEF QueueInv
  <2>7. QED
    BY <2>4, <2>5, <2>6 DEF QueueInv, Items, Members, Distinct, Tokens, Reads
<1>5. CASE ~Running(t)
  <2> DEFINE D == DOMAIN reads[t] \ gone
             G == {<<t, s>> : s \in DOMAIN reads[t] \ D}
  <2>1. reads' = [reads EXCEPT ![t] = [s \in D |-> @[s]]] /\ waiting' = waiting
    BY <1>5 DEF Fails
  <2>2. D \in SUBSET DOMAIN reads[t] /\ G \subseteq N
    OBVIOUS
  <2> HIDE DEF D, N
  <2>3. WaitSet' = WaitSet \ G
        /\ \A u \in Tokens : \A s \in DOMAIN reads'[u] : reads'[u][s] \in ReadStates
    BY <2>1, <2>2, DropWaits
  <2> HIDE DEF G
  <2>4. WaitSet' = WaitSet
    BY <1>3, <2>2, <2>3
  <2>5. waiting' \in Seq(Items) /\ Distinct(waiting') /\ Members(waiting') = WaitSet'
    BY <2>1, <2>4 DEF QueueInv
  <2>6. QED
    BY <2>3, <2>5 DEF QueueInv, Items, Members, Distinct, Tokens, Reads
<1>6. QED
  BY <1>4, <1>5

\* A step of a read.
LEMMA QueueRead ==
  ASSUME ReadsInv, QueueInv, NEW t \in Tokens, NEW r \in DOMAIN reads[t], ReadStep(t, r)
  PROVE  QueueInv'
<1>1. r \in Reads /\ <<r.lo, r.hi>> \in Nat \X Nat
  BY WantsAssumption DEF ReadsInv
<1>2. reads[t][r].st \in {"todo", "fetch", "done"}
  BY DEF ReadStep, BeginRead, HeadAnswer, GetAnswer, RequestFails, EndTask, Sent
<1>3. reads[t][r].st # "wait" /\ reads[t][r].leg \in {"head", "get"}
  BY <1>2 DEF QueueInv, ReadStates
<1>4. CASE HitOuter(t, r)
  <2>1. PICK c \in Lookup(r, 1) : SetRead(t, r, "done", "get", c)
    BY <1>4 DEF HitOuter
  <2>2. c = <<r.lo, r.hi>>
    BY <1>1, <2>1, LookupFinds DEF ReadsInv
  <2>3. UNCHANGED waiting
    BY <1>4 DEF HitOuter
  <2>4. QED
    BY <1>1, <1>3, <2>1, <2>2, <2>3, QueueBy
<1>5. CASE HitInner(t, r)
  <2>1. PICK c \in Lookup(r, fingerprint) : SetRead(t, r, "done", "get", c)
    BY <1>5 DEF HitInner
  <2>2. c = <<r.lo, r.hi>>
    BY <1>1, <2>1, LookupFinds DEF ReadsInv
  <2>3. UNCHANGED waiting
    BY <1>5 DEF HitInner
  <2>4. QED
    BY <1>1, <1>3, <2>1, <2>2, <2>3, QueueBy
<1>6. ASSUME NEW how, FailRead(t, r, how) PROVE QueueInv'
  <2>1. Fails(t, {r}, how)
    BY <1>6, WhatFails
  <2>2. \A s \in {r} : s \in DOMAIN reads[t] /\ reads[t][s].st # "wait"
    BY <1>3
  <2>3. QED
    BY <2>1, <2>2, QueueFail
<1>7. ASSUME NEW leg \in {"head", "get"}, Enqueue(t, r, leg) PROVE QueueInv'
  BY <1>3, <1>7, QueueEnqueue
<1>8. CASE GetAnswer(t, r)
  <2>1. SetRead(t, r, "done", "get", <<r.lo, r.hi>>) /\ UNCHANGED waiting
    BY <1>8 DEF GetAnswer
  <2>2. QED
    BY <1>1, <1>3, <2>1, QueueBy
<1>9. CASE EndTask(t, r)
  <2> DEFINE D == DOMAIN reads[t] \ {r}
             G == {<<t, s>> : s \in DOMAIN reads[t] \ D}
  <2>1. reads' = [reads EXCEPT ![t] = [s \in D |-> @[s]]] /\ waiting' = waiting
    BY <1>9 DEF EndTask
  <2>2. D \in SUBSET DOMAIN reads[t] /\ G = {<<t, r>>}
    OBVIOUS
  <2>3. <<t, r>> \notin WaitSet
    BY <1>1, <1>3, WaitsIs
  <2> HIDE DEF D
  <2>4. WaitSet' = WaitSet \ G
        /\ \A u \in Tokens : \A s \in DOMAIN reads'[u] : reads'[u][s] \in ReadStates
    BY <2>1, <2>2, DropWaits
  <2> HIDE DEF G
  <2>5. WaitSet' = WaitSet
    BY <2>2, <2>3, <2>4
  <2>6. waiting' \in Seq(Items) /\ Distinct(waiting') /\ Members(waiting') = WaitSet'
    BY <2>1, <2>5 DEF QueueInv
  <2>7. QED
    BY <2>4, <2>6 DEF QueueInv, Items, Members, Distinct, Tokens, Reads
<1>10. CASE BeginRead(t, r)
  BY <1>3, <1>4, <1>5, <1>6, <1>7, <1>10 DEF BeginRead
<1>11. CASE HeadAnswer(t, r)
  BY <1>4, <1>5, <1>6, <1>7, <1>11 DEF HeadAnswer
<1>12. CASE RequestFails(t, r)
  BY <1>6, <1>12 DEF RequestFails
<1>13. QED
  BY <1>8, <1>9, <1>10, <1>11, <1>12 DEF ReadStep

\* A step that leaves the queue and who waits in it.
LEMMA QueueSame ==
  ASSUME ReadsInv, QueueInv, UNCHANGED waiting, NEW t \in Tokens,
         \A u \in Tokens : u # t => reads'[u] = reads[u],
         \A r \in DOMAIN reads[t] : reads[t][r].st # "wait",
         \A r \in DOMAIN reads'[t] : reads'[t][r] \in ReadStates /\ reads'[t][r].st # "wait"
  PROVE  QueueInv'
<1>1. \A w \in Items : w[1] \in Tokens
  BY DEF Items
<1>2. \A w \in Items : w \in WaitSet' <=>
         w[2] \in DOMAIN reads'[w[1]] /\ reads'[w[1]][w[2]].st = "wait"
  BY DEF WaitSet, Items
<1>3. \A w \in Items : w \in WaitSet <=>
         w[2] \in DOMAIN reads[w[1]] /\ reads[w[1]][w[2]].st = "wait"
  BY DEF WaitSet
<1>4. ASSUME NEW w \in Items PROVE w \in WaitSet' <=> w \in WaitSet
  <2>1. CASE w[1] = t
    BY <1>2, <1>3, <2>1
  <2>2. CASE w[1] # t
    BY <1>1, <1>2, <1>3, <2>2
  <2>3. QED
    BY <2>1, <2>2
<1>5. WaitSet \subseteq Items /\ WaitSet' \subseteq Items
  BY DEF WaitSet, Items
<1>6. WaitSet' = WaitSet
  BY <1>4, <1>5
<1>7. waiting' \in Seq(Items) /\ Distinct(waiting') /\ Members(waiting') = WaitSet'
  BY <1>6 DEF QueueInv
<1>8. \A u \in Tokens : \A r \in DOMAIN reads'[u] : reads'[u][r] \in ReadStates
  BY DEF QueueInv
<1>9. QED
  BY <1>7, <1>8 DEF QueueInv, Items, Members, Distinct, Tokens, Reads

\* Every step keeps the queue.
LEMMA QueueStep ==
  ASSUME PageInv, ReadsInv, QueueInv, [Next]_vars
  PROVE  QueueInv'
<1>1. CASE \E t \in Tokens : \E r \in DOMAIN reads[t] : ReadStep(t, r)
  BY <1>1, QueueRead
<1>2. CASE Acquire
  BY <1>2, QueueAcquire
<1>3. ASSUME NEW want \in Wants, RunQuery(want) PROVE QueueInv'
  <2> DEFINE t == token + 1
             Fresh(r) == [st |-> "todo", leg |-> IF r.whole THEN "head" ELSE "get", got |-> <<0, 0>>]
  <2>1. t \in Tokens /\ waiting' = waiting
        /\ reads' = [reads EXCEPT ![t] = [r \in want |-> Fresh(r)]]
    BY <1>3 DEF RunQuery
  <2>2. t > token
    BY DEF PageInv
  <2>3. state[t] = "none"
    BY <2>1, <2>2 DEF PageInv
  <2>4. DOMAIN reads[t] = {}
    BY <2>1, <2>3 DEF ReadsInv
  <2>5. \A r : Fresh(r) \in ReadStates /\ Fresh(r).st = "todo"
    BY DEF ReadStates
  <2> HIDE DEF Fresh
  <2>6. /\ \A u \in Tokens : u # t => reads'[u] = reads[u]
        /\ DOMAIN reads'[t] = want /\ \A r \in want : reads'[t][r] = Fresh(r)
    BY <2>1 DEF ReadsInv
  <2> HIDE DEF t
  <2>7. \A r \in DOMAIN reads'[t] : reads'[t][r] \in ReadStates /\ reads'[t][r].st # "wait"
    BY <2>5, <2>6
  <2>8. QED
    BY <2>1, <2>4, <2>6, <2>7, QueueSame
<1>4. ASSUME NEW t \in Tokens, EndQuery(t) PROVE QueueInv'
  <2>1. /\ \A r \in DOMAIN reads[t] : reads[t][r].st = "done"
        /\ reads' = [reads EXCEPT ![t] = NoReads] /\ waiting' = waiting
    BY <1>4 DEF EndQuery
  <2>2. reads'[t] = NoReads /\ DOMAIN NoReads = {} /\ \A u \in Tokens : u # t => reads'[u] = reads[u]
    BY <2>1 DEF ReadsInv, NoReads
  <2>3. QED
    BY <2>1, <2>2, QueueSame
<1>5. CASE UNCHANGED <<reads, waiting>>
  BY <1>5 DEF QueueInv, WaitSet, Members, Distinct, Items
<1>6. CASE CancelQuery \/ UiTimeout \/ Reconnect \/ (\E o \in orphans : OrphanAnswer(o))
           \/ ConnectAnswer \/ ConnectFails \/ (\E t \in Tokens : LoadAnswer(t))
           \/ UNCHANGED vars
  BY <1>5, <1>6 DEF CancelQuery, UiTimeout, Reconnect, OrphanAnswer, ConnectAnswer, ConnectFails,
                    LoadAnswer, vars
<1>7. CASE \E t \in Tokens : LoadFails(t)
  BY <1>7, WhatFails, QueueFail
<1>8. QED
  BY <1>1, <1>2, <1>3, <1>4, <1>6, <1>7 DEF Next, EngineStep

-----------------------------------------------------------------------------
(* The rest of the state has its shape. *)
ShapeInv ==
    /\ ready \in BOOLEAN /\ running \in BOOLEAN /\ cancel \in BOOLEAN
    /\ mixed \subseteq Tokens /\ seen \subseteq Paths /\ bytes \in Nat
    /\ fingerprint \in 1..Fingerprints /\ orphans \subseteq Items
    /\ loading \subseteq Tokens /\ connecting \in Nat

\* What fails may leave requests behind.
LEMMA FailShape ==
  ASSUME ReadsInv, ShapeInv, NEW t \in Tokens, NEW gone, NEW how, Fails(t, gone, how),
         loading' \subseteq loading, UNCHANGED connecting
  PROVE  ShapeInv'
<1>1. UNCHANGED <<ready, cancel, seen, bytes, fingerprint, mixed>>
  BY DEF Fails, globals, store
<1>2. running' \in BOOLEAN
  BY DEF Fails, FailQuery, Finish, ShapeInv
<1>3. orphans' \subseteq Items
  <2>1. \A s \in DOMAIN reads[t] : <<t, s>> \in Items
    BY DEF ReadsInv, Items
  <2>2. orphans' = orphans \/ DropReads(t, gone)
    BY DEF Fails, FailQuery
  <2>3. QED
    BY <2>1, <2>2 DEF ShapeInv, DropReads
<1>4. QED
  BY <1>1, <1>2, <1>3 DEF ShapeInv, Items, Tokens, Reads, Paths

\* Every step keeps the shape.
LEMMA ShapeStep ==
  ASSUME ReadsInv, ShapeInv, [Next]_vars
  PROVE  ShapeInv'
<1> USE DEF Items, Tokens, Reads, Paths
<1>1. ASSUME NEW t \in Tokens, NEW r \in DOMAIN reads[t], ReadStep(t, r)
      PROVE  ShapeInv'
  <2>1. r \in Reads /\ r.path \in Paths /\ Length(r) \in Nat
    <3>1. r \in Reads
      BY DEF ReadsInv
    <3>2. r.path \in Paths /\ r.lo \in Nat /\ r.hi \in Nat /\ r.lo < r.hi
      BY <3>1, WantsAssumption
    <3>3. QED
      BY <3>1, <3>2 DEF Length
  <2>2. ASSUME NEW how, FailRead(t, r, how) PROVE ShapeInv'
    BY <2>2, WhatFails, FailShape DEF catalog
  <2>3. CASE HitOuter(t, r)
    BY <2>3 DEF HitOuter, ShapeInv, page, globals, store, catalog
  <2>4. CASE HitInner(t, r)
    BY <2>4 DEF HitInner, ShapeInv, page, globals, catalog
  <2>5. ASSUME NEW leg, Enqueue(t, r, leg) PROVE ShapeInv'
    <3>1. UNCHANGED <<ready, running, cancel, bytes, orphans, fingerprint, mixed, loading, connecting>>
      BY <2>5 DEF Enqueue, page, store, catalog
    <3>2. seen' = seen \/ seen' = seen \cup {r.path}
      BY <2>5 DEF Enqueue
    <3>3. QED
      BY <2>1, <3>1, <3>2 DEF ShapeInv
  <2>6. CASE GetAnswer(t, r)
    <3>1. UNCHANGED <<ready, running, cancel, seen, orphans, fingerprint, mixed, loading, connecting>>
      BY <2>6 DEF GetAnswer, page, catalog
    <3>2. bytes' = bytes + Length(r)
      BY <2>6 DEF GetAnswer
    <3>3. QED
      BY <2>1, <3>1, <3>2 DEF ShapeInv
  <2>7. CASE EndTask(t, r)
    BY <2>7 DEF EndTask, ShapeInv, page, globals, store, catalog
  <2>8. QED
    BY <1>1, <2>2, <2>3, <2>4, <2>5, <2>6, <2>7 DEF ReadStep, BeginRead, HeadAnswer, RequestFails
<1>2. ASSUME NEW want \in Wants, RunQuery(want) PROVE ShapeInv'
  <2>1. /\ running' = TRUE /\ cancel' = FALSE /\ seen' = {} /\ bytes' = 0
        /\ UNCHANGED <<ready, orphans, fingerprint, connecting>>
        /\ loading' = loading \cup {token + 1}
        /\ token + 1 \in Tokens
        /\ mixed' = mixed \/ mixed' = mixed \cup {token + 1} \cup Others(token + 1)
    BY <1>2 DEF RunQuery, Reset, store
  <2>2. mixed' \subseteq Tokens
    BY <2>1 DEF ShapeInv, Others
  <2>3. QED
    BY <2>1, <2>2 DEF ShapeInv
<1>3. CASE CancelQuery
  BY <1>3 DEF CancelQuery, ShapeInv, store, catalog
<1>4. CASE UiTimeout
  BY <1>4 DEF UiTimeout, ShapeInv, globals, store, catalog
<1>5. CASE Reconnect
  <2>1. /\ ready' = FALSE /\ UNCHANGED <<running, cancel, seen, bytes, orphans, mixed, loading>>
        /\ \/ UNCHANGED <<fingerprint, connecting>>
           \/ /\ fingerprint' = fingerprint + 1 /\ fingerprint < Fingerprints
              /\ connecting' = connecting + ConnectRequests
    BY <1>5 DEF Reconnect, globals
  <2>2. fingerprint' \in 1..Fingerprints /\ connecting' \in Nat
    BY <2>1, WantsAssumption DEF ShapeInv
  <2>3. QED
    BY <2>1, <2>2 DEF ShapeInv
<1>6. CASE Acquire
  BY <1>6 DEF Acquire, ShapeInv, page, globals, store, catalog
<1>7. ASSUME NEW o \in orphans, OrphanAnswer(o) PROVE ShapeInv'
  <2>1. /\ bytes' = bytes + Length(o[2]) /\ orphans' = orphans \ {o}
        /\ UNCHANGED <<ready, running, cancel, seen, fingerprint, mixed, loading, connecting>>
    BY <1>7 DEF OrphanAnswer, page, store, catalog
  <2>2. o[2] \in Reads
    BY DEF ShapeInv
  <2>3. Length(o[2]) \in Nat
    <3>1. o[2].lo \in Nat /\ o[2].hi \in Nat /\ o[2].lo < o[2].hi
      BY <2>2, WantsAssumption
    <3>2. QED
      BY <3>1 DEF Length
  <2>4. QED
    BY <2>1, <2>3 DEF ShapeInv
<1>8. ASSUME NEW t \in Tokens, EndQuery(t) PROVE ShapeInv'
  BY <1>8 DEF EndQuery, Finish, ShapeInv, globals, store, catalog
<1>9. CASE UNCHANGED vars
  BY <1>9 DEF ShapeInv, vars, page, globals, store, catalog
<1>10. ASSUME NEW t \in Tokens, LoadAnswer(t) PROVE ShapeInv'
  <2>1. /\ bytes' = bytes + CatalogBytes /\ loading' = loading \ {t}
        /\ UNCHANGED <<ready, running, cancel, seen, orphans, fingerprint, mixed, connecting>>
    BY <1>10 DEF LoadAnswer, page, store
  <2>2. QED
    BY <2>1, WantsAssumption DEF ShapeInv
<1>11. CASE \E t \in Tokens : LoadFails(t)
  <2>1. PICK t \in Tokens : LoadFails(t)
    BY <1>11
  <2>2. loading' \subseteq loading /\ UNCHANGED connecting /\ Fails(t, {}, "failed")
    BY <2>1, WhatFails
  <2>3. QED
    BY <2>2, FailShape
<1>12. CASE ConnectAnswer
  <2>1. /\ bytes' = bytes + CatalogBytes /\ connecting > 0 /\ connecting' = connecting - 1
        /\ mixed' = mixed \cup {t \in Tokens : Running(t)}
        /\ UNCHANGED <<ready, running, cancel, seen, orphans, fingerprint, loading>>
    BY <1>12 DEF ConnectAnswer, page, store
  <2>2. bytes' \in Nat /\ connecting' \in Nat
    BY <2>1, WantsAssumption DEF ShapeInv
  <2>3. mixed' \subseteq Tokens
    BY <2>1 DEF ShapeInv
  <2>4. QED
    BY <2>1, <2>2, <2>3 DEF ShapeInv
<1>13. CASE ConnectFails
  <2>1. /\ connecting' \in 0..connecting - 1
        /\ UNCHANGED <<ready, running, cancel, seen, bytes, orphans, fingerprint, mixed, loading>>
    BY <1>13 DEF ConnectFails, page, globals, store
  <2>2. connecting' \in Nat
    BY <2>1 DEF ShapeInv
  <2>3. QED
    BY <2>1, <2>2 DEF ShapeInv
<1>14. QED
  BY <1>1, <1>2, <1>3, <1>4, <1>5, <1>6, <1>7, <1>8, <1>9, <1>10, <1>11, <1>12, <1>13
     DEF Next, EngineStep

\* The parts of the invariant are what the state must be like.
LEMMA ShapeIs == PageInv /\ ReadsInv /\ QueueInv /\ ShapeInv /\ PermitsKept => TypeOK
<1>1. SUFFICES ASSUME PageInv, ReadsInv, QueueInv, ShapeInv, PermitsKept PROVE TypeOK
  OBVIOUS
<1>2. ASSUME NEW t \in Tokens, NEW r \in Reads
      PROVE  (r \in DOMAIN reads[t] /\ reads[t][r].st = "wait")
                <=> \E i \in DOMAIN waiting : waiting[i] = <<t, r>>
  <2>1. DOMAIN waiting = 1..Len(waiting)
    BY <1>1 DEF QueueInv
  <2>2. <<t, r>> \in Members(waiting) <=> \E i \in DOMAIN waiting : waiting[i] = <<t, r>>
    BY <2>1 DEF Members
  <2>3. QED
    BY <1>1, <2>2, WaitsIs DEF QueueInv
<1>3. quit \subseteq Tokens /\ token \in 0..MaxTokens
  BY <1>1 DEF PageInv
<1>4. \A t \in Tokens : /\ DOMAIN reads[t] \subseteq Reads
                        /\ \A r \in DOMAIN reads[t] : reads[t][r] \in ReadStates
  BY <1>1 DEF ReadsInv, QueueInv
<1>5. QED
  BY <1>1, <1>2, <1>3, <1>4 DEF TypeOK, ShapeInv

(* The state of the engine has its shape, and the queue of the semaphore   *)
(* holds exactly the reads that wait, whatever is dropped from it when a   *)
(* query fails (wasm_s3_storage.rs signed_request, wasm_query_io.rs).      *)
THEOREM QueueMatchesReads == Spec => []TypeOK
<1>1. Init => QueueInv /\ ShapeInv
  <2>1. SUFFICES ASSUME Init PROVE QueueInv /\ ShapeInv
    OBVIOUS
  <2>2. reads = [t \in Tokens |-> NoReads] /\ DOMAIN NoReads = {}
    BY <2>1 DEF Init, NoReads
  <2>3. WaitSet = {}
    BY <2>2 DEF WaitSet, Items
  <2>4. waiting = <<>> /\ Len(<<>>) = 0 /\ <<>> \in Seq(Items)
    BY <2>1 DEF Init
  <2>5. Members(<<>>) = {} /\ Distinct(<<>>)
    BY <2>4 DEF Members, Distinct
  <2>6. ShapeInv
    <3>1. 1 \in 1..Fingerprints
      BY WantsAssumption
    <3>2. /\ ready = TRUE /\ running = FALSE /\ cancel = FALSE /\ mixed = {} /\ seen = {}
          /\ bytes = 0 /\ fingerprint = 1 /\ orphans = {} /\ loading = {} /\ connecting = 0
      BY <2>1 DEF Init
    <3>3. QED
      BY <3>1, <3>2 DEF ShapeInv
  <2>7. QED
    BY <2>2, <2>3, <2>4, <2>5, <2>6 DEF QueueInv
<1>2. Init => PageInv /\ ReadsInv
  BY PageInit, ReadsInit
<1>3. PageInv /\ ReadsInv /\ QueueInv /\ ShapeInv /\ [Next]_vars
        => PageInv' /\ ReadsInv' /\ QueueInv' /\ ShapeInv'
  BY PageStep, ReadsStep, QueueStep, ShapeStep
<1>4. QED
  BY <1>1, <1>2, <1>3, ShapeIs, PermitsAlwaysKept, PTL DEF Spec

=============================================================================
