-------------------------- MODULE SearchCacheProofs --------------------------
(***************************************************************************)
(* Proofs about SearchCache, for any number of workers and keys and any    *)
(* bounds.  The invariant behind StaleOnlyByOverlap is FillsCurrent: a     *)
(* search about to fill the cache has every acknowledged write, unless the *)
(* cache was emptied since it read the engine.                             *)
(***************************************************************************)
EXTENDS SearchCache, TLAPS

FillsCurrent ==
  \A w \in Handlers : pc[w] = "fill" /\ ~overlapped[w] => got[w] >= floor

\* An insertion under way has a document left.
TodoLeft == \A w \in Handlers : pc[w] \in {"engine", "merge"} => todo[w] >= 1

CInv == CacheTypeOK /\ TodoLeft /\ FillsCurrent /\ StaleOnlyByOverlap

\* At the start nothing is cached.
LEMMA InitCInv == CacheInit => CInv
<1> SUFFICES ASSUME CacheInit PROVE CInv
  OBVIOUS
<1>1. cache \in [Keys -> CachedAnswers \cup {NoAnswer}] /\ \A k \in Keys : cache[k] = NoAnswer
  BY DEF CacheInit, Empty
<1>2. overlapped \in [Handlers -> BOOLEAN]
  BY DEF CacheInit
<1>3. /\ 0 \in 0 .. version /\ 0 \in 0 .. MaxItems /\ 0 \in 0 .. MaxWrites
      /\ "search" \in RequestKinds
  BY CacheConstants DEF CacheInit, RequestKinds
<1>4. CacheTypeOK
  BY <1>1, <1>2, <1>3 DEF CacheInit, CacheTypeOK
<1> QED
  BY <1>1, <1>4 DEF CacheInit, CInv, TodoLeft, FillsCurrent, StaleOnlyByOverlap, Stale

-----------------------------------------------------------------------------
(* Every step keeps the types.                                             *)

\* Raising the version keeps what was below it below it.
LEMMA NewVersionTypes ==
  ASSUME CacheTypeOK, NEW w \in Handlers, NewVersion(w)
  PROVE  /\ version' \in Nat
         /\ version < version'
         /\ \A n \in 0 .. version : n \in 0 .. version'
         /\ made' \in [Handlers -> 0 .. version']
         /\ got \in [Handlers -> 0 .. version']
         /\ floor \in 0 .. version'
<1>1. version \in Nat /\ version' = version + 1
  BY DEF CacheTypeOK, NewVersion
<1>2. \A n \in 0 .. version : n \in 0 .. version'
  BY <1>1
<1>3. version' \in 0 .. version'
  BY <1>1
<1> QED
  BY <1>1, <1>2, <1>3 DEF CacheTypeOK, NewVersion

LEMMA SearchTypes ==
  ASSUME CacheTypeOK, NEW w \in Handlers,
         \/ \E k \in Keys : ReceiveSearch(w, k)
         \/ CacheHit(w) \/ CacheMiss(w) \/ EngineSearch(w) \/ Fill(w)
  PROVE  CacheTypeOK'
<1>1. CASE \E k \in Keys : ReceiveSearch(w, k)
  BY <1>1 DEF CacheTypeOK, ReceiveSearch, Goto, RequestKinds, engine
<1>2. CASE CacheHit(w)
  BY <1>2 DEF CacheTypeOK, CacheHit, Goto, engine, request
<1>3. CASE CacheMiss(w)
  BY <1>3 DEF CacheTypeOK, CacheMiss, Goto, engine, request
<1>4. CASE EngineSearch(w)
  BY <1>4 DEF CacheTypeOK, EngineSearch, Goto, engine, request
<1>5. CASE Fill(w)
  <2>1. [version |-> got[w], overlapped |-> overlapped[w]] \in CachedAnswers
    BY DEF CacheTypeOK, CachedAnswers
  <2> QED
    BY <1>5, <2>1 DEF CacheTypeOK, Fill, Goto, engine, request
<1> QED
  BY <1>1, <1>2, <1>3, <1>4, <1>5

LEMMA InsertTypes ==
  ASSUME CacheTypeOK, TodoLeft, NEW w \in Handlers,
         \/ \E r \in Writes, n \in 1 .. MaxItems : ReceiveWrite(w, r, n)
         \/ InsertDocument(w) \/ InsertFlushes(w) \/ Merge(w)
  PROVE  CacheTypeOK'
<1> USE CacheConstants
<1>1. CASE \E r \in Writes, n \in 1 .. MaxItems : ReceiveWrite(w, r, n)
  <2>1. PICK r \in Writes, n \in 1 .. MaxItems : ReceiveWrite(w, r, n)
    BY <1>1
  <2>2. 0 \in 0 .. version /\ r \in RequestKinds /\ n \in 0 .. MaxItems
    BY DEF CacheTypeOK, RequestKinds
  <2>3. writes' \in 0 .. MaxWrites
    BY <2>1 DEF CacheTypeOK, ReceiveWrite
  <2> QED
    BY <2>1, <2>2, <2>3 DEF CacheTypeOK, ReceiveWrite, Goto, engine
<1>2. AfterDocument(w) \in {"save", "engine", "invalidate"}
  BY DEF AfterDocument
<1>3. ASSUME pc[w] \in {"engine", "merge"}
      PROVE  todo[w] - 1 \in 0 .. MaxItems
  BY <1>3 DEF CacheTypeOK, TodoLeft
<1>4. CASE InsertDocument(w)
  <2>1. todo' \in [Handlers -> 0 .. MaxItems]
    BY <1>3, <1>4 DEF CacheTypeOK, InsertDocument
  <2> QED
    BY <1>2, <1>4, <2>1 DEF CacheTypeOK, InsertDocument, Goto, engine
<1>5. CASE InsertFlushes(w)
  BY <1>5, NewVersionTypes DEF CacheTypeOK, InsertFlushes, Goto, request
<1>6. CASE Merge(w)
  <2>1. todo' \in [Handlers -> 0 .. MaxItems]
    BY <1>3, <1>6 DEF CacheTypeOK, Merge
  <2>2. CASE NewVersion(w)
    BY <1>2, <1>6, <2>1, <2>2, NewVersionTypes DEF CacheTypeOK, Merge, Goto
  <2>3. CASE UNCHANGED <<version, made>>
    BY <1>2, <1>6, <2>1, <2>3 DEF CacheTypeOK, Merge, Goto
  <2> QED
    BY <1>6, <2>2, <2>3 DEF Merge
<1> QED
  BY <1>1, <1>4, <1>5, <1>6

LEMMA ReplyTypes ==
  ASSUME CacheTypeOK, NEW w \in Handlers, Reply(w)
  PROVE  /\ pc' \in [Handlers -> {"idle", "lookup", "search", "fill", "engine",
                                  "merge", "save", "invalidate"}]
         /\ kind' \in [Handlers -> RequestKinds]
         /\ todo' \in [Handlers -> 0 .. MaxItems]
         /\ made' \in [Handlers -> 0 .. version]
         /\ \A v \in Handlers : pc'[v] = "merge" => pc[v] = "merge"
<1> USE CacheConstants
<1>1. "search" \in RequestKinds /\ 0 \in 0 .. MaxItems /\ 0 \in 0 .. version
  BY DEF CacheTypeOK, RequestKinds
<1> QED
  BY <1>1 DEF CacheTypeOK, Reply, Goto

LEMMA WriteTypes ==
  ASSUME CacheTypeOK, NEW w \in Handlers,
         \/ DeleteFromBuffer(w) \/ OpenCollection(w) \/ DropCollection(w)
         \/ SaveSucceeds(w) \/ SaveFails(w) \/ Invalidate(w)
  PROVE  CacheTypeOK'
<1>1. CASE DeleteFromBuffer(w)
  BY <1>1 DEF CacheTypeOK, DeleteFromBuffer, Goto, engine, request
<1>2. CASE OpenCollection(w)
  BY <1>2, NewVersionTypes DEF CacheTypeOK, OpenCollection, Goto, request
<1>3. CASE DropCollection(w)
  BY <1>3, NewVersionTypes
     DEF CacheTypeOK, DropCollection, RegistryFree, Goto, request
<1>4. CASE SaveSucceeds(w)
  <2>1. CASE kind[w] = "create"
    BY <1>4, <2>1, ReplyTypes DEF CacheTypeOK, SaveSucceeds, engine
  <2>2. CASE kind[w] # "create"
    BY <1>4, <2>2 DEF CacheTypeOK, SaveSucceeds, Goto, engine
  <2> QED
    BY <2>1, <2>2
<1>5. CASE SaveFails(w)
  <2>1. CASE kind[w] # "bulkDelete"
    BY <1>5, <2>1, ReplyTypes DEF CacheTypeOK, SaveFails, engine
  <2>2. CASE kind[w] = "bulkDelete"
    BY <1>5, <2>2 DEF CacheTypeOK, SaveFails, Goto, engine
  <2> QED
    BY <2>1, <2>2
<1>6. CASE Invalidate(w)
  <2>1. cache' \in [Keys -> CachedAnswers \cup {NoAnswer}]
    BY <1>6 DEF Invalidate, Empty
  <2>2. overlapped' \in [Handlers -> BOOLEAN]
    BY <1>6 DEF CacheTypeOK, Invalidate
  <2>3. floor' \in 0 .. version'
    BY <1>6 DEF CacheTypeOK, Invalidate, engine
  <2> QED
    BY <1>6, <2>1, <2>2, <2>3, ReplyTypes DEF CacheTypeOK, Invalidate, engine
<1> QED
  BY <1>1, <1>2, <1>3, <1>4, <1>5, <1>6

LEMMA ExpireTypes ==
  ASSUME CacheTypeOK, NEW k \in Keys, Expire(k)
  PROVE  CacheTypeOK'
BY DEF CacheTypeOK, Expire, engine, request

LEMMA TypesStep == CInv /\ [CacheNext]_cacheVars => CacheTypeOK'
<1> SUFFICES ASSUME CInv, [CacheNext]_cacheVars PROVE CacheTypeOK'
  OBVIOUS
<1> USE DEF CInv
<1>1. CASE \E w \in Handlers : ReceiveRequest(w) \/ Step(w)
  BY <1>1, SearchTypes, InsertTypes, WriteTypes DEF ReceiveRequest, Step
<1>2. CASE \E k \in Keys : Expire(k)
  BY <1>2, ExpireTypes
<1>3. CASE UNCHANGED cacheVars
  BY <1>3 DEF CacheTypeOK, cacheVars
<1> QED
  BY <1>1, <1>2, <1>3 DEF CacheNext

-----------------------------------------------------------------------------
(* Every step keeps the rest of the invariant.                             *)

LEMMA TodoStep == CInv /\ [CacheNext]_cacheVars => TodoLeft'
<1> SUFFICES ASSUME CInv, [CacheNext]_cacheVars, NEW v \in Handlers,
                    pc'[v] \in {"engine", "merge"}
             PROVE  todo'[v] >= 1
  BY DEF TodoLeft
<1> USE DEF CInv, CacheTypeOK, TodoLeft, Goto, engine, request
<1>1. ASSUME NEW w \in Handlers, ReceiveRequest(w) PROVE todo'[v] >= 1
  <2>1. CASE \E k \in Keys : ReceiveSearch(w, k)
    BY <2>1 DEF ReceiveSearch
  <2>2. CASE \E r \in Writes, n \in 1 .. MaxItems : ReceiveWrite(w, r, n)
    BY <2>2 DEF ReceiveWrite
  <2> QED
    BY <1>1, <2>1, <2>2 DEF ReceiveRequest
<1>2. ASSUME NEW w \in Handlers, Step(w) PROVE todo'[v] >= 1
  <2>1. CASE CacheHit(w) \/ CacheMiss(w) \/ EngineSearch(w) \/ Fill(w)
    BY <2>1 DEF CacheHit, CacheMiss, EngineSearch, Fill
  <2>2. CASE InsertDocument(w) \/ Merge(w)
    BY <2>2 DEF InsertDocument, Merge, AfterDocument
  <2>3. CASE InsertFlushes(w)
    BY <2>3 DEF InsertFlushes
  <2>4. CASE DeleteFromBuffer(w) \/ OpenCollection(w) \/ DropCollection(w)
    BY <2>4 DEF DeleteFromBuffer, OpenCollection, DropCollection
  <2>5. CASE SaveSucceeds(w) \/ SaveFails(w) \/ Invalidate(w)
    BY <2>5 DEF SaveSucceeds, SaveFails, Invalidate, Reply
  <2> QED
    BY <1>2, <2>1, <2>2, <2>3, <2>4, <2>5 DEF Step
<1>3. CASE \E k \in Keys : Expire(k)
  BY <1>3 DEF Expire
<1>4. CASE UNCHANGED cacheVars
  BY <1>4 DEF cacheVars
<1> QED
  BY <1>1, <1>2, <1>3, <1>4 DEF CacheNext

\* Only an invalidation raises the floor, and it marks every search that has
\* read the engine and not filled the cache.
LEMMA FillsStep == CInv /\ [CacheNext]_cacheVars => FillsCurrent'
<1> SUFFICES ASSUME CInv, [CacheNext]_cacheVars, NEW v \in Handlers,
                    pc'[v] = "fill", ~overlapped'[v]
             PROVE  got'[v] >= floor'
  BY DEF FillsCurrent
<1> USE DEF CInv, CacheTypeOK, FillsCurrent, Goto, engine, request
<1>1. ASSUME NEW w \in Handlers, ReceiveRequest(w) PROVE got'[v] >= floor'
  BY <1>1 DEF ReceiveRequest, ReceiveSearch, ReceiveWrite
<1>2. ASSUME NEW w \in Handlers, Step(w) PROVE got'[v] >= floor'
  <2>1. CASE CacheHit(w) \/ CacheMiss(w) \/ Fill(w)
    BY <2>1 DEF CacheHit, CacheMiss, Fill
  <2>2. CASE EngineSearch(w)
    BY <2>2 DEF EngineSearch
  <2>3. CASE InsertDocument(w) \/ InsertFlushes(w) \/ Merge(w)
    BY <2>3 DEF InsertDocument, InsertFlushes, Merge, AfterDocument
  <2>4. CASE DeleteFromBuffer(w) \/ OpenCollection(w) \/ DropCollection(w)
    BY <2>4 DEF DeleteFromBuffer, OpenCollection, DropCollection
  <2>5. CASE SaveSucceeds(w) \/ SaveFails(w)
    BY <2>5 DEF SaveSucceeds, SaveFails, Reply
  <2>6. CASE Invalidate(w)
    BY <2>6 DEF Invalidate, Reply
  <2> QED
    BY <1>2, <2>1, <2>2, <2>3, <2>4, <2>5, <2>6 DEF Step
<1>3. CASE \E k \in Keys : Expire(k)
  BY <1>3 DEF Expire
<1>4. CASE UNCHANGED cacheVars
  BY <1>4 DEF cacheVars
<1> QED
  BY <1>1, <1>2, <1>3, <1>4 DEF CacheNext

\* An answer enters the cache with every acknowledged write or marked, and an
\* invalidation, which alone can make it stale, removes it.
LEMMA StaleStep == CInv /\ [CacheNext]_cacheVars => StaleOnlyByOverlap'
<1> SUFFICES ASSUME CInv, [CacheNext]_cacheVars, NEW j \in Keys,
                    cache'[j] # NoAnswer, cache'[j].version < floor'
             PROVE  cache'[j].overlapped
  BY DEF StaleOnlyByOverlap, Stale
<1> USE DEF CInv, CacheTypeOK, StaleOnlyByOverlap, Stale, engine, request
<1>1. ASSUME NEW w \in Handlers, ReceiveRequest(w) PROVE cache'[j].overlapped
  BY <1>1 DEF ReceiveRequest, ReceiveSearch, ReceiveWrite
<1>2. ASSUME NEW w \in Handlers, Step(w) PROVE cache'[j].overlapped
  <2>1. CASE CacheHit(w) \/ CacheMiss(w) \/ EngineSearch(w)
    BY <2>1 DEF CacheHit, CacheMiss, EngineSearch
  <2>2. CASE Fill(w)
    BY <2>2 DEF Fill, FillsCurrent
  <2>3. CASE InsertDocument(w) \/ InsertFlushes(w) \/ Merge(w)
    BY <2>3 DEF InsertDocument, InsertFlushes, Merge
  <2>4. CASE DeleteFromBuffer(w) \/ OpenCollection(w) \/ DropCollection(w)
    BY <2>4 DEF DeleteFromBuffer, OpenCollection, DropCollection
  <2>5. CASE SaveSucceeds(w) \/ SaveFails(w)
    BY <2>5 DEF SaveSucceeds, SaveFails, Reply
  <2>6. CASE Invalidate(w)
    BY <2>6 DEF Invalidate, Empty
  <2> QED
    BY <1>2, <2>1, <2>2, <2>3, <2>4, <2>5, <2>6 DEF Step
<1>3. CASE \E k \in Keys : Expire(k)
  BY <1>3 DEF Expire
<1>4. CASE UNCHANGED cacheVars
  BY <1>4 DEF cacheVars
<1> QED
  BY <1>1, <1>2, <1>3, <1>4 DEF CacheNext

LEMMA CInvHolds == CacheSpec => []CInv
<1>1. CInv /\ [CacheNext]_cacheVars => CInv'
  BY TypesStep, TodoStep, FillsStep, StaleStep DEF CInv
<1> QED
  BY <1>1, InitCInv, PTL DEF CacheSpec

\* The types, and that no flush works on a dropped collection: a flush holds
\* the registry until its merge is done.
THEOREM CacheTypesHold == CacheSpec => []CacheTypeOK
<1>1. CInv => CacheTypeOK
  BY DEF CInv
<1> QED
  BY <1>1, CInvHolds, PTL

\* A stale answer is in the cache only where a search overlapped the write
\* that it lacks.
THEOREM StaleOnlyByOverlapHolds == CacheSpec => []StaleOnlyByOverlap
<1>1. CInv => StaleOnlyByOverlap
  BY DEF CInv
<1> QED
  BY <1>1, CInvHolds, PTL
=============================================================================
