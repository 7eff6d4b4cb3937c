---------------------------- MODULE SearchCache ----------------------------
(***************************************************************************)
(* The response cache of the server: search_api of main.rs against the     *)
(* handlers that change what a search finds.                               *)
(*                                                                         *)
(* What searches of a collection find is a version here, which a flush, a  *)
(* merge, a creation and a drop raise; the buffer is not searched, so that *)
(* an insertion below the threshold and a deletion raise nothing.  A       *)
(* cached answer is the version that it was read from.  A key is one       *)
(* combination of query, limit, offset and sort.                           *)
(*                                                                         *)
(* Not modelled: the cursor, which the key lacks (see README); a restart,  *)
(* which starts with an empty cache; requests for a collection that does   *)
(* not exist, which change nothing.                                        *)
(***************************************************************************)
EXTENDS Naturals, FiniteSets

CONSTANTS
  Handlers,   \* threads that handle requests
  Keys,       \* keys of the cache
  NoAnswer,   \* no cached answer
  MaxItems,   \* bound: documents of a bulk insertion
  MaxVersion, \* bound: versions
  MaxWrites   \* bound: requests that are not searches

ASSUME CacheConstants == {MaxItems, MaxVersion, MaxWrites} \subseteq Nat

VARIABLES
  open,       \* the engine has the collection
  version,    \* what a search finds
  cache,      \* for each key an answer or NoAnswer
  pc,         \* where the handler of each worker is
  kind,       \* its request
  key,        \* of a search: the key
  got,        \* of a search: the version it read
  todo,       \* of an insertion: the documents left
  made,       \* of a write: the last version it made
  overlapped, \* of a search: the cache was emptied since it read the engine
  floor,      \* the highest version of a write that was acknowledged
  writes      \* how many writes there were

engine == <<open, version>>
request == <<kind, key, todo>>
cacheVars == <<open, version, cache, pc, kind, key, got, todo, made,
               overlapped, floor, writes>>

Writes == {"insert", "bulk", "delete", "bulkDelete", "create", "drop"}
RequestKinds == Writes \cup {"search"}

CachedAnswers == [version : Nat, overlapped : BOOLEAN]
Empty == [k \in Keys |-> NoAnswer]

Goto(w, l) == pc' = [pc EXCEPT ![w] = l]

\* The end of a write: nothing is left of the request.
Reply(w) ==
  /\ Goto(w, "idle")
  /\ kind' = [kind EXCEPT ![w] = "search"]
  /\ todo' = [todo EXCEPT ![w] = 0]
  /\ made' = [made EXCEPT ![w] = 0]

CacheInit ==
  /\ open = FALSE
  /\ version = 0
  /\ cache = Empty
  /\ pc = [w \in Handlers |-> "idle"]
  /\ kind = [w \in Handlers |-> "search"]
  /\ key \in [Handlers -> Keys]
  /\ got = [w \in Handlers |-> 0]
  /\ todo = [w \in Handlers |-> 0]
  /\ made = [w \in Handlers |-> 0]
  /\ overlapped = [w \in Handlers |-> FALSE]
  /\ floor = 0
  /\ writes = 0

-----------------------------------------------------------------------------
(* Searches                                                                *)

ReceiveSearch(w, k) ==
  /\ pc[w] = "idle"
  /\ open
  /\ kind' = [kind EXCEPT ![w] = "search"]
  /\ key' = [key EXCEPT ![w] = k]
  /\ Goto(w, "lookup")
  /\ UNCHANGED <<engine, cache, got, todo, made, overlapped, floor, writes>>

CacheHit(w) ==
  /\ pc[w] = "lookup"
  /\ cache[key[w]] # NoAnswer
  /\ Goto(w, "idle")
  /\ UNCHANGED <<engine, cache, request, got, made, overlapped, floor, writes>>

CacheMiss(w) ==
  /\ pc[w] = "lookup"
  /\ cache[key[w]] = NoAnswer
  /\ Goto(w, "search")
  /\ UNCHANGED <<engine, cache, request, got, made, overlapped, floor, writes>>

\* engine.search: also of a collection that was dropped meanwhile, as empty.
EngineSearch(w) ==
  /\ pc[w] = "search"
  /\ got' = [got EXCEPT ![w] = version]
  /\ overlapped' = [overlapped EXCEPT ![w] = FALSE]
  /\ Goto(w, "fill")
  /\ UNCHANGED <<engine, cache, request, made, floor, writes>>

Fill(w) ==
  /\ pc[w] = "fill"
  /\ cache' = [cache EXCEPT ![key[w]] =
                 [version |-> got[w], overlapped |-> overlapped[w]]]
  /\ got' = [got EXCEPT ![w] = 0]
  /\ overlapped' = [overlapped EXCEPT ![w] = FALSE]
  /\ Goto(w, "idle")
  /\ UNCHANGED <<engine, request, made, floor, writes>>

\* Mutated Expire: only writes empty the cache.
ExpireNever(k) == FALSE /\ UNCHANGED cacheVars

\* The time to live or the capacity of the cache.
Expire(k) ==
  /\ cache[k] # NoAnswer
  /\ cache' = [cache EXCEPT ![k] = NoAnswer]
  /\ UNCHANGED <<engine, pc, request, got, made, overlapped, floor, writes>>

-----------------------------------------------------------------------------
(* Writes                                                                  *)

ReceiveWrite(w, r, n) ==
  /\ pc[w] = "idle"
  /\ writes < MaxWrites
  /\ r = "create" \/ open
  /\ n = 1 \/ r = "bulk"
  /\ writes' = writes + 1
  /\ kind' = [kind EXCEPT ![w] = r]
  /\ todo' = [todo EXCEPT ![w] = n]
  /\ made' = [made EXCEPT ![w] = 0]
  /\ Goto(w, "engine")
  /\ UNCHANGED <<engine, cache, key, got, overlapped, floor>>

\* What comes after the engine: of a bulk insertion the next document or the
\* end, of the others the files.
AfterDocument(w) ==
  IF kind[w] = "insert" THEN "save"
  ELSE IF todo[w] > 1 THEN "engine" ELSE "invalidate"

NewVersion(w) ==
  /\ version < MaxVersion
  /\ version' = version + 1
  /\ made' = [made EXCEPT ![w] = version + 1]

\* A document goes to the buffer, or nowhere if the collection was dropped.
InsertDocument(w) ==
  /\ pc[w] = "engine"
  /\ kind[w] \in {"insert", "bulk"}
  /\ Goto(w, AfterDocument(w))
  /\ todo' = [todo EXCEPT ![w] = @ - 1]
  /\ UNCHANGED <<engine, cache, kind, key, got, made, overlapped, floor, writes>>

\* A document fills the buffer: a new segment is served.
InsertFlushes(w) ==
  /\ pc[w] = "engine"
  /\ kind[w] \in {"insert", "bulk"}
  /\ open
  /\ NewVersion(w)
  /\ Goto(w, "merge")
  /\ UNCHANGED <<open, cache, request, got, overlapped, floor, writes>>

\* The merge after a flush: the swap changes what numbers stand for.
Merge(w) ==
  /\ pc[w] = "merge"
  /\ \/ NewVersion(w)
     \/ UNCHANGED <<version, made>>
  /\ Goto(w, AfterDocument(w))
  /\ todo' = [todo EXCEPT ![w] = @ - 1]
  /\ UNCHANGED <<open, cache, kind, key, got, overlapped, floor, writes>>

\* A deletion leaves the segments alone.
DeleteFromBuffer(w) ==
  /\ pc[w] = "engine"
  /\ kind[w] \in {"delete", "bulkDelete"}
  /\ Goto(w, "save")
  /\ UNCHANGED <<engine, cache, request, got, made, overlapped, floor, writes>>

\* A flush holds the registry for reading until its merge is done.
RegistryFree == \A v \in Handlers : pc[v] # "merge"

OpenCollection(w) ==
  /\ pc[w] = "engine"
  /\ kind[w] = "create"
  /\ RegistryFree
  /\ NewVersion(w)
  /\ open' = TRUE
  /\ Goto(w, "save")
  /\ UNCHANGED <<cache, request, got, overlapped, floor, writes>>

\* Mutated DropCollection: without waiting for the registry.
DropCollectionAnyway(w) ==
  /\ pc[w] = "engine"
  /\ kind[w] = "drop"
  /\ NewVersion(w)
  /\ open' = FALSE
  /\ Goto(w, "save")
  /\ UNCHANGED <<cache, request, got, overlapped, floor, writes>>

DropCollection(w) ==
  /\ pc[w] = "engine"
  /\ kind[w] = "drop"
  /\ RegistryFree
  /\ NewVersion(w)
  /\ open' = FALSE
  /\ Goto(w, "save")
  /\ UNCHANGED <<cache, request, got, overlapped, floor, writes>>

\* Mutated SaveSucceeds: a deletion of the collection empties no cache.
SaveSucceedsDropKeepsCache(w) ==
  /\ pc[w] = "save"
  /\ IF kind[w] \in {"create", "drop"}
       THEN /\ Reply(w)
            /\ floor' = IF kind[w] = "drop" /\ made[w] > floor
                          THEN made[w] ELSE floor
       ELSE /\ Goto(w, "invalidate")
            /\ UNCHANGED <<kind, todo, made, floor>>
  /\ UNCHANGED <<engine, cache, key, got, overlapped, writes>>

\* The files are written.  A creation replies and leaves the cache alone.
SaveSucceeds(w) ==
  /\ pc[w] = "save"
  /\ IF kind[w] = "create"
       THEN Reply(w)
       ELSE Goto(w, "invalidate") /\ UNCHANGED <<kind, todo, made>>
  /\ UNCHANGED <<engine, cache, key, got, overlapped, floor, writes>>

\* An i/o error ends the request with an error and leaves the cache alone;
\* a bulk deletion counts it and goes on.
SaveFails(w) ==
  /\ pc[w] = "save"
  /\ IF kind[w] = "bulkDelete"
       THEN Goto(w, "invalidate") /\ UNCHANGED <<kind, todo, made>>
       ELSE Reply(w)
  /\ UNCHANGED <<engine, cache, key, got, overlapped, floor, writes>>

\* cache.invalidate_all and the reply.
Invalidate(w) ==
  /\ pc[w] = "invalidate"
  /\ cache' = Empty
  /\ overlapped' = [v \in Handlers |-> overlapped[v] \/ pc[v] = "fill"]
  /\ floor' = IF made[w] > floor THEN made[w] ELSE floor
  /\ Reply(w)
  /\ UNCHANGED <<engine, key, got, writes>>

-----------------------------------------------------------------------------
ReceiveRequest(w) ==
  \/ \E k \in Keys : ReceiveSearch(w, k)
  \/ \E r \in Writes, n \in 1 .. MaxItems : ReceiveWrite(w, r, n)

Step(w) ==
  \/ CacheHit(w) \/ CacheMiss(w) \/ EngineSearch(w) \/ Fill(w)
  \/ InsertDocument(w) \/ InsertFlushes(w) \/ Merge(w) \/ DeleteFromBuffer(w)
  \/ OpenCollection(w) \/ DropCollection(w)
  \/ SaveSucceeds(w) \/ SaveFails(w) \/ Invalidate(w)

CacheNext ==
  \/ \E w \in Handlers : ReceiveRequest(w) \/ Step(w)
  \/ \E k \in Keys : Expire(k)

CacheSpec == CacheInit /\ [][CacheNext]_cacheVars

\* Handlers run and end, and an entry has a time to live.  Nobody has to send
\* a request.
CacheFairness ==
  /\ \A w \in Handlers : WF_cacheVars(Step(w))
  /\ \A k \in Keys : WF_cacheVars(Expire(k))

CacheFairSpec == CacheSpec /\ CacheFairness

-----------------------------------------------------------------------------
(* Properties                                                              *)

\* Types; nothing is newer than the engine, and no flush or merge works on a
\* collection that was dropped under it.
CacheTypeOK ==
  /\ open \in BOOLEAN
  /\ version \in Nat
  /\ cache \in [Keys -> CachedAnswers \cup {NoAnswer}]
  /\ pc \in [Handlers -> {"idle", "lookup", "search", "fill", "engine", "merge",
                         "save", "invalidate"}]
  /\ kind \in [Handlers -> RequestKinds]
  /\ key \in [Handlers -> Keys]
  /\ got \in [Handlers -> 0 .. version]
  /\ todo \in [Handlers -> 0 .. MaxItems]
  /\ made \in [Handlers -> 0 .. version]
  /\ overlapped \in [Handlers -> BOOLEAN]
  /\ floor \in 0 .. version
  /\ writes \in 0 .. MaxWrites
  /\ \A w \in Handlers : pc[w] = "merge" => open

Stale(k) == cache[k] # NoAnswer /\ cache[k].version < floor

\* A cached answer lacks an acknowledged insertion or drop only if the search
\* that cached it overlapped a write: it read the engine before the write
\* emptied the cache and put its answer there afterwards.  (A creation, which
\* empties no cache, and a write that failed promise nothing here.)
StaleOnlyByOverlap == \A k \in Keys : Stale(k) => cache[k].overlapped

\* What such a search left behind goes away: once the writes are over, the
\* cache has only answers with every acknowledged write from some time on.
StaleEnds == <>[](\A k \in Keys : ~Stale(k))
=============================================================================
