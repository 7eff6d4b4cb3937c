------------------------------- MODULE Locks -------------------------------
(***************************************************************************)
(* The order in which the engine's operations take the locks of the        *)
(* registry (engine.rs) and of a segment manager (segment_manager.rs): std *)
(* RwLocks, none of which a thread may take twice, and which let no reader *)
(* in while a writer waits.                                                *)
(*                                                                         *)
(* An operation is the sequence of what it takes and releases; what it     *)
(* holds at its end is released with it.                                   *)
(***************************************************************************)
EXTENDS Naturals, Sequences, FiniteSets

CONSTANTS
  Threads,       \* threads that run operations
  MaxOperations  \* bound: operations begun

ASSUME OperationsAssumption == MaxOperations \in Nat

VARIABLES
  running,  \* the operation of each thread, or none
  at,       \* how many of its steps it has taken
  begun     \* operations begun so far

locksVars == <<running, at, begun>>

LockNames == {"collections", "segment_managers", "tokenizers", "shard_routers",
              "field_weights", "buffer", "next_segment_id", "segments"}

R(l) == [do |-> "read", lock |-> l]
W(l) == [do |-> "write", lock |-> l]
U(l) == [do |-> "release", lock |-> l]

CreateCollection ==
  <<W("collections"), W("segment_managers"), W("tokenizers"), W("shard_routers")>>

DeleteCollection ==
  <<W("collections"), W("segment_managers"), W("tokenizers"), W("field_weights")>>

\* Mutated Search: the tokenizers are taken first, as an insertion does.
SearchTokenizersFirst ==
  <<R("tokenizers"), R("segment_managers"), R("field_weights"), R("segments"),
    U("segments")>>

Search ==
  <<R("segment_managers"), R("tokenizers"), R("field_weights"), R("segments"),
    U("segments")>>

\* The tokens, the buffer, and in the call that finds the threshold reached the
\* flush, with the merge check, a merge and its swap.
BufferDocument ==
  <<R("tokenizers"), U("tokenizers"),
    R("segment_managers"), W("buffer"), U("buffer"), U("segment_managers")>>

FlushBuffer ==
  <<R("segment_managers"), W("buffer"), W("next_segment_id"), U("next_segment_id"),
    U("buffer"), W("segments"), U("segments"), R("segments"), U("segments"),
    R("segments"), U("segments"), W("next_segment_id"), U("next_segment_id"),
    W("segments"), U("segments")>>

DeleteDocument == <<R("segment_managers"), W("buffer")>>

GetDocuments == <<R("segment_managers"), R("buffer"), R("segments")>>

GetCollection == <<R("collections")>>

Programs ==
  [create  |-> CreateCollection,
   drop    |-> DeleteCollection,
   search  |-> Search,
   insert  |-> BufferDocument,
   flush   |-> FlushBuffer,
   delete  |-> DeleteDocument,
   list    |-> GetDocuments,
   find    |-> GetCollection]

Operations == DOMAIN Programs
None == "none"

Program(t) == Programs[running[t]]
Busy(t) == running[t] # None
AtEnd(t) == at[t] = Len(Program(t))
NextStep(t) == Program(t)[at[t] + 1]

\* What an operation that has taken n steps holds.
HeldAfter(program, n, mode) ==
  {l \in LockNames :
     \E i \in 1 .. n : /\ program[i] = [do |-> mode, lock |-> l]
                       /\ \A j \in i + 1 .. n : program[j] # U(l)}

Held ==
  [op \in Operations |->
     [n \in 0 .. Len(Programs[op]) |->
        [mode \in {"read", "write"} |-> HeldAfter(Programs[op], n, mode)]]]

Holds(t, l, mode) == Busy(t) /\ l \in Held[running[t]][at[t]][mode]

WantsToWrite(t, l) == Busy(t) /\ ~AtEnd(t) /\ NextStep(t) = W(l)

\* The next step of a thread can be taken.
MayStep(t) ==
  LET l == NextStep(t).lock
  IN  CASE NextStep(t).do = "write" ->
             \A u \in Threads : ~Holds(u, l, "read") /\ ~Holds(u, l, "write")
        [] NextStep(t).do = "read" ->
             \A u \in Threads : ~Holds(u, l, "write") /\ ~WantsToWrite(u, l)
        [] NextStep(t).do = "release" -> TRUE

-----------------------------------------------------------------------------
LocksInit ==
  /\ running = [t \in Threads |-> None]
  /\ at = [t \in Threads |-> 0]
  /\ begun = 0

BeginOperation(t, op) ==
  /\ ~Busy(t)
  /\ begun < MaxOperations
  /\ begun' = begun + 1
  /\ running' = [running EXCEPT ![t] = op]
  /\ UNCHANGED at

StepOperation(t) ==
  /\ Busy(t)
  /\ ~AtEnd(t)
  /\ MayStep(t)
  /\ at' = [at EXCEPT ![t] = @ + 1]
  /\ UNCHANGED <<running, begun>>

EndOperation(t) ==
  /\ Busy(t)
  /\ AtEnd(t)
  /\ running' = [running EXCEPT ![t] = None]
  /\ at' = [at EXCEPT ![t] = 0]
  /\ UNCHANGED begun

LocksNext ==
  \E t \in Threads :
    \/ \E op \in Operations : BeginOperation(t, op)
    \/ StepOperation(t)
    \/ EndOperation(t)

LocksSpec == LocksInit /\ [][LocksNext]_locksVars

-----------------------------------------------------------------------------
LocksTypeOK ==
  /\ running \in [Threads -> Operations \cup {None}]
  /\ at \in [Threads -> Nat]
  /\ begun \in 0 .. MaxOperations
  /\ \A t \in Threads : at[t] <= IF Busy(t) THEN Len(Program(t)) ELSE 0

\* Whichever operations overlap, one of them can go on: no circle of threads
\* each of which waits for a lock, or behind a waiting writer.
NoDeadlock ==
  (\E t \in Threads : Busy(t)) =>
    \E t \in Threads : Busy(t) /\ (AtEnd(t) \/ MayStep(t))
=============================================================================
