------------------------------ MODULE Workers ------------------------------
(***************************************************************************)
(* The background workers of a segment manager: two task handles and the   *)
(* broadcast channel that ends the tasks (segment_manager.rs).  The tasks  *)
(* only wait for the channel and log now and then.                         *)
(*                                                                         *)
(* Callers run start and stop at the same time; a step is what happens     *)
(* under one lock or one send.                                             *)
(***************************************************************************)
EXTENDS Naturals, FiniteSets

CONSTANTS
  Callers,  \* threads that start and stop workers
  Tasks,    \* tasks there can ever be (a bound)
  NoTask    \* an empty handle

ASSUME NoTaskAssumption == NoTask \notin Tasks

Kinds == {"merge", "flush"}

VARIABLES
  handle,    \* merge_handle and flush_handle
  alive,     \* tasks that have been spawned and have not ended
  signalled, \* alive tasks with a message, or the end of the channel, to receive
  aborted,   \* alive tasks that are to end at their next wait
  spawned,   \* tasks ever spawned
  callPc,    \* what a caller does next
  dropped    \* the manager is gone

workersVars == <<handle, alive, signalled, aborted, spawned, callPc, dropped>>

CallLabels == {"idle", "take_merge", "take_merge_first", "send", "take_flush"}

WorkersInit ==
  /\ handle = [k \in Kinds |-> NoTask]
  /\ alive = {}
  /\ signalled = {}
  /\ aborted = {}
  /\ spawned = {}
  /\ callPc = [c \in Callers |-> "idle"]
  /\ dropped = FALSE

CallGoto(c, label) == callPc' = [callPc EXCEPT ![c] = label]

\* Mutated Start: the handle is looked at before the lock is taken, so that
\* it may be overwritten.
StartAnyway(c, k) ==
  /\ ~dropped
  /\ callPc[c] = "idle"
  /\ \E t \in Tasks \ spawned :
       /\ handle' = [handle EXCEPT ![k] = t]
       /\ alive' = alive \cup {t}
       /\ spawned' = spawned \cup {t}
  /\ UNCHANGED <<signalled, aborted, callPc, dropped>>

\* start_merge_worker and start_flush_worker, under the handle's lock: if the
\* handle is taken the worker is said to be running.  A task hears what is sent
\* after it has subscribed.
Start(c, k) ==
  /\ ~dropped
  /\ callPc[c] = "idle"
  /\ handle[k] = NoTask
  /\ \E t \in Tasks \ spawned :
       /\ handle' = [handle EXCEPT ![k] = t]
       /\ alive' = alive \cup {t}
       /\ spawned' = spawned \cup {t}
  /\ UNCHANGED <<signalled, aborted, callPc, dropped>>

\* stop_merge_worker, alone or as the beginning of stop_workers: everybody who
\* listens gets the message.
StopSend(c) ==
  /\ ~dropped
  /\ callPc[c] = "idle"
  /\ signalled' = alive
  /\ \E label \in {"take_merge", "take_merge_first"} : CallGoto(c, label)
  /\ UNCHANGED <<handle, alive, aborted, spawned, dropped>>

\* Mutated TakeHandle: the handle is taken without abort.
TakeHandleOnly(c, k) ==
  /\ handle' = [handle EXCEPT ![k] = NoTask]
  /\ UNCHANGED aborted

TakeHandle(c, k) ==
  /\ handle' = [handle EXCEPT ![k] = NoTask]
  /\ aborted' = aborted \cup ({handle[k]} \cap alive)

TakeMerge(c) ==
  /\ callPc[c] \in {"take_merge", "take_merge_first"}
  /\ TakeHandle(c, "merge")
  /\ CallGoto(c, IF callPc[c] = "take_merge" THEN "idle" ELSE "send")
  /\ UNCHANGED <<alive, signalled, spawned, dropped>>

\* stop_workers sends once more, for the flush worker ...
StopSendAgain(c) ==
  /\ callPc[c] = "send"
  /\ signalled' = alive
  /\ CallGoto(c, "take_flush")
  /\ UNCHANGED <<handle, alive, aborted, spawned, dropped>>

TakeFlush(c) ==
  /\ callPc[c] = "take_flush"
  /\ TakeHandle(c, "flush")
  /\ CallGoto(c, "idle")
  /\ UNCHANGED <<alive, signalled, spawned, dropped>>

\* The last reference to the manager goes, with nobody in a call: stop_workers,
\* and the channel is closed.
DropManager ==
  /\ ~dropped
  /\ \A c \in Callers : callPc[c] = "idle"
  /\ dropped' = TRUE
  /\ handle' = [k \in Kinds |-> NoTask]
  /\ signalled' = alive
  /\ aborted' = aborted \cup (alive \cap {handle[k] : k \in Kinds})
  /\ UNCHANGED <<alive, spawned, callPc>>

\* A task that is aborted or has something to receive leaves its loop.
TaskEnds(t) ==
  /\ t \in signalled \cup aborted
  /\ alive' = alive \ {t}
  /\ signalled' = signalled \ {t}
  /\ aborted' = aborted \ {t}
  /\ UNCHANGED <<handle, spawned, callPc, dropped>>

CallStep(c) == TakeMerge(c) \/ StopSendAgain(c) \/ TakeFlush(c)

WorkersNext ==
  \/ \E c \in Callers : \/ \E k \in Kinds : Start(c, k)
                        \/ StopSend(c)
                        \/ CallStep(c)
  \/ DropManager
  \/ \E t \in Tasks : TaskEnds(t)

WorkersSpec == WorkersInit /\ [][WorkersNext]_workersVars

\* Calls go on and the runtime polls tasks that can leave their loops.
WorkersFairness ==
  /\ \A c \in Callers : WF_workersVars(CallStep(c))
  /\ \A t \in Tasks : WF_workersVars(TaskEnds(t))

-----------------------------------------------------------------------------
WorkersTypeOK ==
  /\ handle \in [Kinds -> Tasks \cup {NoTask}]
  /\ spawned \subseteq Tasks
  /\ alive \subseteq spawned
  /\ signalled \subseteq alive
  /\ aborted \subseteq alive
  /\ callPc \in [Callers -> CallLabels]
  /\ dropped \in BOOLEAN

\* However starts and stops overlap, a task that nobody has told to end is in
\* a handle: none is left running that no later stop would reach.
NoOrphans ==
  \A t \in alive : t \in signalled \cup aborted \/ \E k \in Kinds : handle[k] = t

\* A task that is in no handle, as it was stopped or its manager is gone, ends,
\* also one that was started between the message and the look at the handle.
StopsEnd ==
  /\ \A t \in Tasks :
       t \in alive /\ (\A k \in Kinds : handle[k] # t) ~> t \notin alive
  /\ dropped ~> alive = {}
=============================================================================
