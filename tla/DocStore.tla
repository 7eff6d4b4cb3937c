------------------------------ MODULE DocStore ------------------------------
(***************************************************************************)
(* What the storage of one collection promises, with no segment, directory *)
(* or thread in sight.  A document version is accepted into memory, and    *)
(* from there it is committed to disk or lost; what is on disk stays on    *)
(* disk, and only what is on disk is ever searchable.  SegmentStore        *)
(* implements this specification.                                          *)
(***************************************************************************)
CONSTANTS Docs,   \* document versions, each submitted at most once
          Keys,   \* the document ids clients use
          KeyOf   \* the document id of each version: a function in [Docs -> Keys]

VARIABLES up,       \* the process is running
          fresh,    \* versions no client has submitted yet
          volatile, \* accepted versions that only memory holds
          durable,  \* versions a restart would find on disk
          served    \* versions a search can return

dvars == <<up, fresh, volatile, durable, served>>

DocStoreTypeOK ==
  /\ up \in BOOLEAN
  /\ fresh \subseteq Docs
  /\ volatile \subseteq Docs
  /\ durable \subseteq Docs
  /\ served \subseteq Docs

KeysOf(D) == {KeyOf[d] : d \in D}

\* What a crash or a failed write may leave readable on disk: only versions
\* some client once submitted.
MayAppear(D) == D \subseteq Docs \ fresh

DInit ==
  /\ up = TRUE
  /\ fresh = Docs
  /\ volatile = {}
  /\ durable = {}
  /\ served = {}

\* Accepted versions replace the ones of the same id that are still in memory.
Accept(D) ==
  /\ up
  /\ D \subseteq fresh
  /\ fresh' = fresh \ D
  /\ volatile' = {v \in volatile : KeyOf[v] \notin KeysOf(D)} \cup D
  /\ UNCHANGED <<up, durable, served>>

\* A delete reaches only what is still in memory.
Forget(k) ==
  /\ up
  /\ volatile' = {v \in volatile : KeyOf[v] # k}
  /\ UNCHANGED <<up, fresh, durable, served>>

\* Memory is written to disk as a whole ...
Commit ==
  /\ up
  /\ volatile # {}
  /\ durable' = durable \cup volatile
  /\ volatile' = {}
  /\ UNCHANGED <<up, fresh, served>>

\* ... or the write fails and takes the whole batch with it.
Lose(D) ==
  /\ up
  /\ MayAppear(D)
  /\ durable' = durable \cup D
  /\ volatile' = {}
  /\ UNCHANGED <<up, fresh, served>>

\* An interrupted write of something else leaves readable versions behind,
\* but none that is still in memory: a version is never in both.
Resurface(D) ==
  /\ MayAppear(D)
  /\ D \cap volatile = {}
  /\ durable' = durable \cup D
  /\ UNCHANGED <<up, fresh, volatile, served>>

\* Durable versions become searchable; none stops being searchable.
Publish(D) ==
  /\ up
  /\ D \subseteq durable
  /\ served' = served \cup D
  /\ UNCHANGED <<up, fresh, volatile, durable>>

Stop ==
  /\ up
  /\ up' = FALSE
  /\ volatile' = {}
  /\ served' = {}
  /\ UNCHANGED <<fresh, durable>>

\* A restart, and re-creating a collection that is already open, serve
\* exactly what is on disk; re-creating drops what was in memory.
Start ==
  /\ up' = TRUE
  /\ volatile' = {}
  /\ served' = durable
  /\ UNCHANGED <<fresh, durable>>

DNext ==
  \/ \E D \in SUBSET fresh : Accept(D)
  \/ \E k \in Keys : Forget(k)
  \/ Commit
  \/ \E D \in SUBSET (Docs \ fresh) : Lose(D) \/ Resurface(D)
  \/ \E D \in SUBSET durable : Publish(D)
  \/ Stop
  \/ Start

DSpec == DInit /\ [][DNext]_dvars
=============================================================================
