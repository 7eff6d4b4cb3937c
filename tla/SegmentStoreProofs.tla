------------------------- MODULE SegmentStoreProofs -------------------------
(***************************************************************************)
(* Theorems about SegmentStore, for any number of workers, documents,      *)
(* kills and i/o errors: its types, that neither overlapping merges nor a  *)
(* kill in the middle of anything takes away what is on disk or out of the *)
(* searches' reach, that the store implements DocStore, and, of one        *)
(* request at a time without kills and i/o errors, that every document is  *)
(* in one segment, no directory is left behind, and the merge policy       *)
(* bounds the number of segments.                                          *)
(***************************************************************************)
EXTENDS SegmentStore, FiniteSetTheorems, TLAPS

USE KeyAssumption, IndexableAssumption, MaxSegmentIdAssumption, FaultAssumption

-----------------------------------------------------------------------------
(* Types of what directories are made of.                                   *)

\* What a build writes, what an interrupted one leaves, and what a removal
\* leaves are directories; opening one gives a segment.
LEMMA BuiltType ==
  ASSUME NEW D \in SUBSET Docs, NEW b \in BOOLEAN
  PROVE  Built(D, b) \in Dir
<1>1. [postings |-> IF b THEN "full" ELSE "empty",
       stored   |-> IF D # {} THEN "full" ELSE "empty",
       terms    |-> IF b THEN "full" ELSE "blank",
       meta     |-> IF D # {} THEN "full" ELSE "blank"] \in [Files -> Contents]
  BY DEF Files, Contents
<1> QED  BY <1>1 DEF Built, Dir

LEMMA InterruptedType ==
  ASSUME NEW old \in Dir, NEW new \in Dir, NEW n \in 0..4, NEW cut \in BOOLEAN
  PROVE  Interrupted(old, new, n, cut) \in Dir
  BY DEF Interrupted, Dir, Contents

LEMMA RemainsType ==
  ASSUME NEW old \in Dir, NEW left \in SUBSET Files
  PROVE  /\ Remains(old, left) \in Dir
         /\ Remains(old, left).docs \subseteq old.docs
  BY DEF Remains, Dir, Contents

LEMMA AbsentDirType == AbsentDir \in Dir /\ AbsentDir.docs = {}
  BY DEF AbsentDir, Dir, Contents

LEMMA OpenedType ==
  ASSUME NEW i \in Ids, NEW d \in Dir
  PROVE  Opened(i, d) \in Segment
  BY DEF Opened, Segment, Dir, IndexOf, Indexes

LEMMA NoSegmentType == NoSegment \in Segment
  BY DEF NoSegment, Segment, Indexes, Ids

LEMMA OutputType ==
  ASSUME TypeOK, NEW w \in Workers
  PROVE  Output(w) \in Dir
<1>1. DocsOf(cand[w]) \in SUBSET Docs
  BY DEF TypeOK, DocsOf, Segment
<1>2. MergeInput(w) \in Dir
  BY <1>1, BuiltType DEF MergeInput
<1>3. FlushInput(w) \in Dir
  BY BuiltType DEF FlushInput, TypeOK
<1> QED  BY <1>2, <1>3 DEF Output

LEMMA LoadedType ==
  ASSUME TypeOK
  PROVE  Loaded \subseteq Segment
  BY OpenedType DEF Loaded, OpenableIds, TypeOK

-----------------------------------------------------------------------------
(* Type correctness.                                                        *)

\* The end of a request resets the worker's locals to values of their types.
LEMMA FinishType ==
  ASSUME TypeOK, NEW w \in Workers, Finish(w)
  PROVE  /\ pc' \in [Workers -> Labels]
         /\ batch' \in [Workers -> SUBSET Docs]
         /\ cand' \in [Workers -> SUBSET Segment]
         /\ dirId' \in [Workers -> Ids]
         /\ built' \in [Workers -> Segment]
  BY NoSegmentType DEF Finish, Goto, TypeOK, Labels, Ids

LEMMA BuildDoneType ==
  ASSUME TypeOK, NEW w \in Workers, NEW from \in Labels, NEW to \in Labels,
         BuildDone(w, from, to)
  PROVE  TypeOK'
<1>1. Output(w) \in Dir /\ dirId[w] \in Ids
  BY OutputType DEF TypeOK
<1>2. disk' \in [Ids -> Dir]
  BY <1>1 DEF BuildDone, TypeOK
<1>3. CASE Openable(Output(w))
  <2>1. Opened(dirId[w], Output(w)) \in Segment
    BY <1>1, OpenedType
  <2> QED  BY <1>2, <1>3, <2>1 DEF BuildDone, TypeOK, Goto, faultVars
<1>4. CASE ~Openable(Output(w))
  <2>1. Finish(w)
    BY <1>4 DEF BuildDone
  <2> QED  BY <1>2, <2>1, FinishType DEF BuildDone, TypeOK, faultVars
<1> QED  BY <1>3, <1>4

LEMMA StopsEarlyType ==
  ASSUME TypeOK, NEW w \in Workers, StopsEarly(w)
  PROVE  disk' \in [Ids -> Dir]
<1>1. Output(w) \in Dir /\ dirId[w] \in Ids /\ disk[dirId[w]] \in Dir
  BY OutputType DEF TypeOK
<1>2. \E d \in Dir : disk' = [disk EXCEPT ![dirId[w]] = d]
  BY <1>1, InterruptedType, RemainsType DEF StopsEarly
<1> QED  BY <1>2 DEF TypeOK

LEMMA LoadSegmentsType ==
  ASSUME TypeOK, LoadSegments, UNCHANGED workerVars
  PROVE  TypeOK'
  BY LoadedType DEF LoadSegments, TypeOK, workerVars, faultVars, OpenableIds, Ids

LEMMA TypeInit == Init => TypeOK
  BY AbsentDirType, NoSegmentType
  DEF Init, IdleWorkers, TypeOK, Ids, Labels

LEMMA TypeStep == TypeOK /\ [Next]_vars => TypeOK'
<1> SUFFICES ASSUME TypeOK, [Next]_vars PROVE TypeOK'
  OBVIOUS
<1>1. ASSUME NEW w \in Workers, NEW D \in Batches, Insert(w, D)
      PROVE  TypeOK'
  BY <1>1 DEF Insert, Batches, TypeOK, Goto, Labels, faultVars
<1>2. ASSUME NEW w \in Workers, FlushBegin(w)
      PROVE  TypeOK'
  BY <1>2 DEF FlushBegin, TypeOK, Goto, Labels, Ids, faultVars
<1>3. ASSUME NEW w \in Workers, FlushDone(w) \/ MergeDone(w)
      PROVE  TypeOK'
  BY <1>3, BuildDoneType DEF FlushDone, MergeDone, Labels
<1>4. ASSUME NEW w \in Workers, AddSegment(w)
      PROVE  TypeOK'
  BY <1>4, NoSegmentType DEF AddSegment, TypeOK, Goto, Labels, faultVars
<1>5. ASSUME NEW w \in Workers, CheckMerge(w)
      PROVE  TypeOK'
  BY <1>5, FinishType DEF CheckMerge, TypeOK, Goto, Labels, faultVars
<1>6. ASSUME NEW w \in Workers, SelectMerge(w)
      PROVE  TypeOK'
  BY <1>6 DEF SelectMerge, Selections, Mergeable, TypeOK, Goto, Labels, Ids, faultVars
<1>7. ASSUME NEW w \in Workers, SwapSegments(w)
      PROVE  TypeOK'
  BY <1>7, NoSegmentType DEF SwapSegments, TypeOK, Goto, Labels, faultVars
<1>8. ASSUME NEW w \in Workers, CleanupNext(w)
      PROVE  TypeOK'
  <2>1. PICK s \in cand[w] :
          /\ cand' = [cand EXCEPT ![w] = @ \ {s}]
          /\ \/ Goto(w, "remove") /\ dirId' = [dirId EXCEPT ![w] = s.id]
             \/ UNCHANGED <<pc, dirId>>
    BY <1>8 DEF CleanupNext
  <2>2. s.id \in Ids
    BY DEF TypeOK, Segment
  <2>3. /\ cand' \in [Workers -> SUBSET Segment]
        /\ pc' \in [Workers -> Labels]
        /\ dirId' \in [Workers -> Ids]
    BY <2>1, <2>2 DEF TypeOK, Goto, Labels
  <2> QED  BY <1>8, <2>3 DEF CleanupNext, TypeOK, faultVars
<1>9. ASSUME NEW w \in Workers, RemoveDone(w)
      PROVE  TypeOK'
  BY <1>9, AbsentDirType DEF RemoveDone, TypeOK, Goto, Labels, faultVars
<1>10. ASSUME NEW w \in Workers,
              FlushNothing(w) \/ MergeNothing(w) \/ MergeUnreadable(w)
                \/ CleanupDone(w) \/ RemoveRaced(w)
       PROVE  TypeOK'
  BY <1>10, FinishType DEF FlushNothing, MergeNothing, MergeUnreadable,
     CleanupDone, RemoveRaced, TypeOK, faultVars
<1>11. ASSUME NEW w \in Workers, IoError(w)
       PROVE  TypeOK'
  BY <1>11, FinishType, StopsEarlyType DEF IoError, TypeOK
<1>12. ASSUME NEW w \in Workers, Halt(w)
       PROVE  TypeOK'
  BY <1>12, FinishType, StopsEarlyType DEF Halt, TypeOK, faultVars
<1>13. ASSUME NEW k \in Keys, DeleteDocument(k)
       PROVE  TypeOK'
  BY <1>13 DEF DeleteDocument, TypeOK, workerVars, faultVars
<1>14. CASE Crash
  <2>1. /\ pc' \in [Workers -> Labels]
        /\ batch' \in [Workers -> SUBSET Docs]
    BY <1>14 DEF Crash, TypeOK, Labels
  <2>2. /\ cand' \in [Workers -> SUBSET Segment]
        /\ dirId' \in [Workers -> Ids]
    BY <1>14 DEF Crash, TypeOK, Ids
  <2>3. built' \in [Workers -> Segment]
    BY <1>14, NoSegmentType DEF Crash
  <2>4. crashes' \in 0..MaxCrashes
    <3>1. crashes \in Nat /\ crashes < MaxCrashes /\ crashes' = crashes + 1
      BY <1>14 DEF Crash, TypeOK
    <3> QED  BY <3>1
  <2>5. up' = FALSE /\ buffer' = {} /\ segments' = {}
    BY <1>14 DEF Crash
  <2>6. UNCHANGED <<fresh, nextId, disk, ioErrors>>
    BY <1>14 DEF Crash
  <2> QED  BY <2>1, <2>2, <2>3, <2>4, <2>5, <2>6 DEF TypeOK
<1>15. CASE Restart
  BY <1>15, LoadSegmentsType DEF Restart
<1>16. CASE ReopenManager
  BY <1>16, LoadSegmentsType DEF ReopenManager
<1>17. CASE UNCHANGED vars
  BY <1>17 DEF vars, TypeOK, workerVars, faultVars
<1> QED
  BY <1>1, <1>2, <1>3, <1>4, <1>5, <1>6, <1>7, <1>8, <1>9, <1>10, <1>11,
     <1>12, <1>13, <1>14, <1>15, <1>16, <1>17 DEF Next, WorkerStep

\* Every variable keeps its type.
THEOREM TypeCorrect == Spec => []TypeOK
  BY TypeInit, TypeStep, PTL DEF Spec

-----------------------------------------------------------------------------
(* The inductive invariant.                                                 *)

LEMMA DocsOfMember ==
  ASSUME NEW S, NEW d
  PROVE  d \in DocsOf(S) <=> \E s \in S : d \in s.docs
  BY DEF DocsOf

\* A segment that is held has its own documents on disk, and its directory is
\* not one that is being built.
LEMMA HeldFacts ==
  ASSUME IInv, up, NEW s \in segments
  PROVE  /\ s.id \in Ids
         /\ Openable(disk[s.id])
         /\ s = Opened(s.id, disk[s.id])
         /\ s.docs = disk[s.id].docs
         /\ \A w \in Workers : Owner(w) => dirId[w] # s.id
         /\ \A w \in Workers : Removing(w) => dirId[w] # s.id
<1>1. s.id \in Ids /\ Openable(disk[s.id]) /\ s = Opened(s.id, disk[s.id])
  BY DEF IInv, HeldIntact, Held, OpenableIds
<1>2. s.docs = disk[s.id].docs
  BY <1>1 DEF Opened
<1>3. \A w \in Workers : Owner(w) => dirId[w] # s.id
  BY DEF IInv, OwnersApart
<1>4. \A w \in Workers : Removing(w) => dirId[w] # s.id
  BY DEF IInv, CleanupApart
<1> QED  BY <1>1, <1>2, <1>3, <1>4

LEMMA BuiltFacts ==
  ASSUME IInv, up, NEW w \in Workers, pc[w] \in {"add", "swap"}
  PROVE  /\ built[w].id = dirId[w]
         /\ Openable(disk[dirId[w]])
         /\ built[w] = Opened(dirId[w], disk[dirId[w]])
  BY DEF IInv, HeldIntact, Held, Unpublished, OpenableIds, BuiltMatches

\* Steps that leave the directories and the segment list alone, and at most
\* send workers where they own nothing.
LEMMA QuietStep ==
  ASSUME IInv, TypeOK',
         UNCHANGED <<up, segments, nextId, disk>>,
         \A w \in Workers :
           \/ pc'[w] = pc[w] /\ cand'[w] = cand[w] /\ dirId'[w] = dirId[w]
              /\ built'[w] = built[w]
           \/ pc'[w] \in {"idle", "flush", "check", "select"}
              /\ (up \/ pc'[w] = "idle")
  PROVE  IInv'
<1>1. HeldIntact'
  <2>1. Held' \subseteq Held
    BY DEF Held, Unpublished
  <2> QED  BY <2>1 DEF IInv, HeldIntact, OpenableIds
<1>2. OwnersApart'
  BY DEF IInv, OwnersApart, Owner, HasCand, Removing
<1>3. BuildsUnopenable'
  BY DEF IInv, BuildsUnopenable, Building
<1>4. BuiltMatches'
  BY DEF IInv, BuiltMatches
<1>5. IdsBelowNext'
  BY DEF IInv, IdsBelowNext, Owner, HasCand, Removing
<1>6. CandidatesCovered'
  BY DEF IInv, CandidatesCovered, HasCand, Served
<1>7. CleanupApart'
  BY DEF IInv, CleanupApart, Removing, Served
<1>8. KilledRemovalCovered'
  <2> SUFFICES ASSUME ~up PROVE KilledRemovalCovered'
    BY DEF KilledRemovalCovered
  <2>1. \A w \in Workers : Removing(w)' => Removing(w) /\ dirId'[w] = dirId[w]
    BY DEF Removing
  <2>2. \A w \in Workers : Removing(w) => Removing(w)' \/ pc'[w] = "idle"
    BY DEF Removing
  <2>3. segments' = {} /\ \A w \in Workers : OnDisk(w)' \/ pc'[w] = "idle"
    BY DEF IInv, KilledRemovalCovered, OnDisk, Building
  <2> QED  BY <2>1, <2>3 DEF IInv, KilledRemovalCovered
<1> QED  BY <1>1, <1>2, <1>3, <1>4, <1>5, <1>6, <1>7, <1>8 DEF IInv

LEMMA InitIInv == Init => IInv
<1> SUFFICES ASSUME Init PROVE IInv
  OBVIOUS
<1>1. TypeOK
  BY TypeInit
<1>2. \A w \in Workers : pc[w] = "idle"
  BY DEF Init, IdleWorkers
<1>3. \A i \in Ids : ~Openable(disk[i])
  BY DEF Init, Openable, AbsentDir, Files
<1>4. HeldIntact
  BY <1>2 DEF Init, HeldIntact, Held, Unpublished
<1>5. OwnersApart /\ BuildsUnopenable /\ BuiltMatches
  BY <1>2 DEF OwnersApart, BuildsUnopenable, BuiltMatches, Owner, Building
<1>6. IdsBelowNext /\ CandidatesCovered /\ CleanupApart
  BY <1>2, <1>3 DEF IdsBelowNext, CandidatesCovered, CleanupApart, Owner,
     HasCand, Removing
<1>7. KilledRemovalCovered
  BY DEF Init, KilledRemovalCovered
<1> QED  BY <1>1, <1>4, <1>5, <1>6, <1>7 DEF IInv

\* A worker that takes the next id starts a directory nobody has to do with.
LEMMA TakesId ==
  ASSUME IInv, TypeOK', up, up', NEW w \in Workers,
         pc[w] \in {"flush", "select"}, nextId \in Ids,
         dirId' = [dirId EXCEPT ![w] = nextId], nextId' = nextId + 1,
         \/ pc' = [pc EXCEPT ![w] = "writing"] /\ cand' = cand
         \/ pc' = [pc EXCEPT ![w] = "merging"]
            /\ \E C \in SUBSET segments : cand' = [cand EXCEPT ![w] = C],
         UNCHANGED <<segments, disk, built>>
  PROVE  IInv'
<1> USE DEF TypeOK
<1>1. \A v \in Workers : v # w => /\ pc'[v] = pc[v] /\ cand'[v] = cand[v]
                                  /\ dirId'[v] = dirId[v] /\ built'[v] = built[v]
  BY DEF IInv
<1>2. /\ pc'[w] \in {"writing", "merging"}
      /\ dirId'[w] = nextId
      /\ pc'[w] = "merging" => cand'[w] \subseteq segments
  BY DEF IInv
<1>3. nextId \in Nat /\ nextId' > nextId
  BY DEF IInv
<1>4. \A s \in segments : s.id \in Ids /\ s.id < nextId /\ s.docs = disk[s.id].docs
  BY HeldFacts DEF IInv, IdsBelowNext
<1>5. HeldIntact'
  <2>1. Held' \subseteq Held
    BY <1>1, <1>2 DEF Held, Unpublished
  <2> QED  BY <2>1 DEF IInv, HeldIntact, OpenableIds
<1>6. \A v \in Workers : /\ v # w /\ (Owner(v) \/ Removing(v)) => dirId'[v] < nextId
                         /\ HasCand(v)' => \A c \in cand'[v] : c.id < nextId
  BY <1>1, <1>2, <1>4 DEF IInv, IdsBelowNext, HasCand
<1>7. OwnersApart'
  <2>1. \A v \in Workers : HasCand(v)' => \A c \in cand'[v] : c.id # dirId'[w]
    BY <1>2, <1>3, <1>6 DEF IInv, Segment, Ids, HasCand
  <2>2. \A s \in segments : s.id # dirId'[w]
    BY <1>2, <1>3, <1>4 DEF Ids
  <2>3. \A v \in Workers : /\ v # w /\ Owner(v)' => dirId'[v] # dirId'[w]
                           /\ Removing(v)' => dirId'[v] # dirId'[w]
    BY <1>1, <1>2, <1>3, <1>6 DEF IInv, Ids, Owner, Removing
  <2>4. \A v \in Workers : v # w /\ Owner(v)' =>
          \A c \in cand'[w] : HasCand(w)' => c.id # dirId'[v]
    BY <1>1, <1>2 DEF IInv, OwnersApart, Owner, HasCand
  <2>5. ASSUME NEW v \in Workers, v # w, Owner(v)'
        PROVE  /\ \A u \in Workers : u # v /\ Owner(u)' => dirId'[u] # dirId'[v]
               /\ \A u \in Workers : HasCand(u)' => \A c \in cand'[u] : c.id # dirId'[v]
               /\ \A u \in Workers : Removing(u)' => dirId'[u] # dirId'[v]
               /\ \A s \in segments' : s.id # dirId'[v]
    BY <1>1, <1>2, <2>3, <2>4, <2>5 DEF IInv, OwnersApart, Owner, HasCand, Removing
  <2> QED  BY <2>1, <2>2, <2>3, <2>5 DEF OwnersApart
<1>8. BuildsUnopenable'
  BY <1>1, <1>2, <1>3 DEF IInv, BuildsUnopenable, Building, IdsBelowNext, Ids
<1>9. BuiltMatches'
  BY <1>1, <1>2 DEF IInv, BuiltMatches
<1>10. IdsBelowNext'
  <2>1. \A i \in Ids : Openable(disk'[i]) => i < nextId'
    BY <1>3 DEF IInv, IdsBelowNext, Ids
  <2>2. \A v \in Workers : Owner(v)' \/ Removing(v)' => dirId'[v] < nextId'
    BY <1>1, <1>2, <1>3, <1>6 DEF IInv, Ids, Owner, Removing
  <2>3. \A v \in Workers : HasCand(v)' => \A c \in cand'[v] : c.id < nextId'
    BY <1>3, <1>6 DEF IInv, Segment, Ids, HasCand
  <2> QED  BY <2>1, <2>2, <2>3 DEF IdsBelowNext
<1>11. CandidatesCovered'
  <2>1. \A s \in segments : s.docs \subseteq Served
    BY DocsOfMember DEF Served
  <2> QED  BY <1>1, <1>2, <1>4, <2>1 DEF IInv, CandidatesCovered, HasCand, Served
<1>12. CleanupApart'
  BY <1>1, <1>2 DEF IInv, CleanupApart, Removing, Served
<1>13. KilledRemovalCovered'
  BY DEF KilledRemovalCovered
<1> QED  BY <1>5, <1>7, <1>8, <1>9, <1>10, <1>11, <1>12, <1>13 DEF IInv

\* A build that ends, well or not.
LEMMA BuildDoneStep ==
  ASSUME IInv, TypeOK', NEW w \in Workers, NEW from, NEW to,
         \/ from = "writing" /\ to = "add"
         \/ from = "merging" /\ to = "swap",
         BuildDone(w, from, to)
  PROVE  IInv'
<1> DEFINE D == Output(w)
<1>1. /\ up /\ up' /\ pc[w] = from /\ Owner(w) /\ Building(w)
      /\ UNCHANGED <<segments, nextId>>
      /\ dirId[w] \in Ids /\ ~Openable(disk[dirId[w]])
  BY DEF BuildDone, Owner, Building, IInv, TypeOK, BuildsUnopenable
<1>2. /\ disk'[dirId[w]] = D
      /\ \A i \in Ids : i # dirId[w] => disk'[i] = disk[i]
  BY <1>1 DEF BuildDone, IInv, TypeOK
<1>3. \A v \in Workers : v # w => /\ pc'[v] = pc[v] /\ cand'[v] = cand[v]
                                  /\ dirId'[v] = dirId[v] /\ built'[v] = built[v]
  BY DEF BuildDone, Finish, Goto, IInv, TypeOK
<1>4. \/ /\ Openable(D) /\ pc'[w] = to /\ cand'[w] = cand[w] /\ dirId'[w] = dirId[w]
         /\ built'[w] = Opened(dirId[w], D)
      \/ pc'[w] = "idle"
  BY DEF BuildDone, Finish, Goto, IInv, TypeOK
<1> HIDE DEF D
<1>5. HeldIntact'
  <2>1. Held' \subseteq Held \cup (IF Openable(D) THEN {Opened(dirId[w], D)} ELSE {})
    BY <1>1, <1>3, <1>4 DEF Held, Unpublished
  <2>2. \A s \in Held : s.id # dirId[w] /\ s.id \in OpenableIds
                        /\ s = Opened(s.id, disk[s.id])
    BY <1>1 DEF IInv, HeldIntact, OpenableIds
  <2>3. Opened(dirId[w], D).id = dirId[w]
    BY DEF Opened
  <2>4. SUFFICES ASSUME NEW s \in Held'
                 PROVE  s.id \in OpenableIds' /\ s = Opened(s.id, disk'[s.id])
    BY DEF HeldIntact
  <2> QED  BY <1>1, <1>2, <2>1, <2>2, <2>3, <2>4 DEF OpenableIds
<1>6. OwnersApart'
  BY <1>1, <1>3, <1>4 DEF IInv, OwnersApart, Owner, HasCand, Removing
<1>7. BuildsUnopenable'
  <2>1. \A v \in Workers : v # w /\ Building(v) => dirId[v] # dirId[w] /\ dirId[v] \in Ids
    BY <1>1 DEF IInv, OwnersApart, Owner, Building, TypeOK
  <2> QED  BY <1>2, <1>3, <1>4, <2>1 DEF IInv, BuildsUnopenable, Building
<1>8. BuiltMatches'
  <2>1. Opened(dirId[w], D).id = dirId[w] /\ Opened(dirId[w], D).docs = D.docs
    BY DEF Opened
  <2>2. pc[w] = "merging" => D.docs = DocsOf(cand[w])
    BY DEF D, Output, MergeInput, Built
  <2> QED  BY <1>1, <1>3, <1>4, <2>1, <2>2 DEF IInv, BuiltMatches
<1>9. IdsBelowNext'
  <2>1. dirId[w] < nextId
    BY <1>1 DEF IInv, IdsBelowNext
  <2> QED  BY <1>1, <1>2, <1>3, <1>4, <2>1 DEF IInv, IdsBelowNext, Owner, HasCand, Removing
<1>10. CandidatesCovered'
  <2>1. \A v \in Workers : HasCand(v) => \A c \in cand[v] : c.id # dirId[w] /\ c.id \in Ids
    BY <1>1 DEF IInv, OwnersApart, TypeOK, Segment
  <2> QED  BY <1>1, <1>2, <1>3, <1>4, <2>1 DEF IInv, CandidatesCovered, HasCand, Served
<1>11. CleanupApart'
  <2>1. \A v \in Workers : Removing(v) => dirId[v] # dirId[w] /\ dirId[v] \in Ids
    BY <1>1 DEF IInv, OwnersApart, TypeOK
  <2> QED  BY <1>1, <1>2, <1>3, <1>4, <2>1 DEF IInv, CleanupApart, Removing, Served
<1>12. KilledRemovalCovered'
  BY <1>1 DEF KilledRemovalCovered
<1> QED  BY <1>5, <1>6, <1>7, <1>8, <1>9, <1>10, <1>11, <1>12 DEF IInv

\* A flushed segment is published.
LEMMA AddSegmentStep ==
  ASSUME IInv, TypeOK', NEW w \in Workers, AddSegment(w)
  PROVE  IInv'
<1>1. /\ up /\ up' /\ pc[w] = "add" /\ pc'[w] = "check"
      /\ UNCHANGED <<nextId, disk, cand, dirId>>
      /\ segments' = segments \cup {built[w]}
  BY DEF AddSegment, Goto, IInv, TypeOK
<1>2. \A v \in Workers : v # w => pc'[v] = pc[v] /\ built'[v] = built[v]
  BY DEF AddSegment, Goto, IInv, TypeOK
<1>3. Owner(w) /\ built[w].id = dirId[w]
  BY <1>1 DEF IInv, BuiltMatches, Owner
<1>4. HeldIntact'
  <2>1. Held' \subseteq Held
    BY <1>1, <1>2 DEF Held, Unpublished
  <2> QED  BY <1>1, <2>1 DEF IInv, HeldIntact, OpenableIds
<1>5. OwnersApart'
  BY <1>1, <1>2, <1>3 DEF IInv, OwnersApart, Owner, HasCand, Removing
<1>6. BuildsUnopenable'
  BY <1>1, <1>2 DEF IInv, BuildsUnopenable, Building
<1>7. BuiltMatches'
  BY <1>1, <1>2 DEF IInv, BuiltMatches
<1>8. IdsBelowNext'
  BY <1>1, <1>2 DEF IInv, IdsBelowNext, Owner, HasCand, Removing
<1>9. Served \subseteq Served'
  BY <1>1, DocsOfMember DEF Served
<1>10. CandidatesCovered'
  BY <1>1, <1>2, <1>9 DEF IInv, CandidatesCovered, HasCand
<1>11. CleanupApart'
  BY <1>1, <1>2, <1>3, <1>9 DEF IInv, CleanupApart, OwnersApart, HasCand, Removing
<1>12. KilledRemovalCovered'
  BY <1>1 DEF KilledRemovalCovered
<1> QED  BY <1>4, <1>5, <1>6, <1>7, <1>8, <1>10, <1>11, <1>12 DEF IInv

\* The swap serves what it takes out of the list: a segment that goes has the
\* id of a candidate, so its documents are the candidate's.
LEMMA SwapServes ==
  ASSUME IInv, NEW w \in Workers, SwapSegments(w)
  PROVE  Served \subseteq Served'
<1>1. /\ up /\ pc[w] = "swap" /\ HasCand(w)
      /\ segments' = {s \in segments : s.id \notin IdsOf(cand[w])} \cup {built[w]}
  BY DEF SwapSegments, HasCand
<1>2. built[w].docs = DocsOf(cand[w])
  BY <1>1 DEF IInv, BuiltMatches
<1> SUFFICES ASSUME NEW s \in segments, NEW d \in s.docs
             PROVE  \E t \in segments' : d \in t.docs
  BY DocsOfMember DEF Served
<1>3. CASE s.id \notin IdsOf(cand[w])
  BY <1>1, <1>3
<1>4. CASE s.id \in IdsOf(cand[w])
  <2>1. PICK c \in cand[w] : c.id = s.id
    BY <1>4 DEF IdsOf
  <2>2. s.docs = disk[c.id].docs
    BY <1>1, <2>1, HeldFacts
  <2>3. d \in c.docs
    BY <1>1, <2>1, <2>2 DEF IInv, CandidatesCovered
  <2>4. d \in built[w].docs
    BY <1>2, <2>3, DocsOfMember
  <2> QED  BY <1>1, <2>4
<1> QED  BY <1>3, <1>4

LEMMA SwapStep ==
  ASSUME IInv, TypeOK', NEW w \in Workers, SwapSegments(w)
  PROVE  IInv'
<1>1. /\ up /\ up' /\ pc[w] = "swap" /\ pc'[w] = "cleanup"
      /\ UNCHANGED <<nextId, disk, cand, dirId>>
      /\ segments' = {s \in segments : s.id \notin IdsOf(cand[w])} \cup {built[w]}
  BY DEF SwapSegments, Goto, IInv, TypeOK
<1>2. \A v \in Workers : v # w => pc'[v] = pc[v] /\ built'[v] = built[v]
  BY DEF SwapSegments, Goto, IInv, TypeOK
<1>3. /\ Owner(w) /\ HasCand(w) /\ built[w].id = dirId[w]
      /\ \A v \in Workers : HasCand(v) => \A c \in cand[v] : c.id # dirId[w]
  BY <1>1 DEF IInv, BuiltMatches, Owner, HasCand, OwnersApart
<1>4. HeldIntact'
  <2>1. Held' \subseteq Held
    BY <1>1, <1>2 DEF Held, Unpublished
  <2> QED  BY <1>1, <2>1 DEF IInv, HeldIntact, OpenableIds
<1>5. OwnersApart'
  BY <1>1, <1>2, <1>3 DEF IInv, OwnersApart, Owner, HasCand, Removing
<1>6. BuildsUnopenable'
  BY <1>1, <1>2 DEF IInv, BuildsUnopenable, Building
<1>7. BuiltMatches'
  BY <1>1, <1>2 DEF IInv, BuiltMatches
<1>8. IdsBelowNext'
  BY <1>1, <1>2, <1>3 DEF IInv, IdsBelowNext, Owner, HasCand, Removing
<1>9. Served \subseteq Served'
  BY SwapServes
<1>10. CandidatesCovered'
  BY <1>1, <1>2, <1>3, <1>9 DEF IInv, CandidatesCovered, HasCand
<1>11. CleanupApart'
  <2>1. \A c \in cand[w] : \A s \in segments' : s.id # c.id
    BY <1>1, <1>3 DEF IdsOf
  <2>2. \A v \in Workers : Removing(v) => dirId[v] # dirId[w]
    BY <1>3 DEF IInv, OwnersApart
  <2> QED  BY <1>1, <1>2, <1>3, <1>9, <2>1, <2>2
           DEF IInv, CleanupApart, HasCand, Removing
<1>12. KilledRemovalCovered'
  BY <1>1 DEF KilledRemovalCovered
<1> QED  BY <1>4, <1>5, <1>6, <1>7, <1>8, <1>10, <1>11, <1>12 DEF IInv

\* The next directory of a cleanup.
LEMMA CleanupNextStep ==
  ASSUME IInv, TypeOK', NEW w \in Workers, CleanupNext(w)
  PROVE  IInv'
<1>1. PICK c \in cand[w] :
        /\ cand' = [cand EXCEPT ![w] = @ \ {c}]
        /\ \/ pc' = [pc EXCEPT ![w] = "remove"] /\ dirId' = [dirId EXCEPT ![w] = c.id]
           \/ UNCHANGED <<pc, dirId>>
  BY DEF CleanupNext, Goto
<1>2. /\ up /\ up' /\ pc[w] = "cleanup" /\ HasCand(w)
      /\ UNCHANGED <<segments, nextId, disk, built>>
  BY DEF CleanupNext, HasCand
<1>3. /\ cand'[w] \subseteq cand[w]
      /\ \/ pc'[w] = "remove" /\ dirId'[w] = c.id
         \/ pc'[w] = "cleanup" /\ dirId'[w] = dirId[w]
      /\ \A v \in Workers : v # w => pc'[v] = pc[v] /\ cand'[v] = cand[v]
                                     /\ dirId'[v] = dirId[v]
  BY <1>1, <1>2 DEF IInv, TypeOK
<1>4. HeldIntact'
  <2>1. Held' \subseteq Held
    BY <1>2, <1>3 DEF Held, Unpublished
  <2> QED  BY <1>2, <2>1 DEF IInv, HeldIntact, OpenableIds
<1>5. OwnersApart'
  BY <1>2, <1>3 DEF IInv, OwnersApart, Owner, HasCand, Removing
<1>6. BuildsUnopenable'
  BY <1>2, <1>3 DEF IInv, BuildsUnopenable, Building
<1>7. BuiltMatches'
  BY <1>2, <1>3 DEF IInv, BuiltMatches
<1>8. IdsBelowNext'
  BY <1>2, <1>3 DEF IInv, IdsBelowNext, Owner, HasCand, Removing
<1>9. CandidatesCovered'
  BY <1>2, <1>3 DEF IInv, CandidatesCovered, HasCand, Served
<1>10. CleanupApart'
  <2>1. disk[c.id].docs \subseteq Served /\ \A s \in segments : s.id # c.id
    BY <1>2 DEF IInv, CandidatesCovered, CleanupApart
  <2> QED  BY <1>2, <1>3, <2>1 DEF IInv, CleanupApart, Removing, Served
<1>11. KilledRemovalCovered'
  BY <1>2 DEF KilledRemovalCovered
<1> QED  BY <1>4, <1>5, <1>6, <1>7, <1>8, <1>9, <1>10, <1>11 DEF IInv

\* A worker lets go of the directory it was building or removing, leaving d
\* in it: RemoveDone, and a build or removal that stops early.
LEMMA LetsGoStep ==
  ASSUME IInv, TypeOK', NEW w \in Workers, OnDisk(w), NEW d,
         disk' = [disk EXCEPT ![dirId[w]] = d],
         Removing(w) => d.docs \subseteq disk[dirId[w]].docs,
         UNCHANGED <<up, segments, nextId>>,
         \A v \in Workers : v # w => /\ pc'[v] = pc[v] /\ cand'[v] = cand[v]
                                     /\ dirId'[v] = dirId[v] /\ built'[v] = built[v],
         \/ pc'[w] = "idle"
         \/ up /\ Removing(w) /\ pc'[w] = "cleanup" /\ cand'[w] = cand[w]
  PROVE  IInv'
<1>1. /\ dirId[w] \in Ids /\ disk'[dirId[w]] = d
      /\ \A i \in Ids : i # dirId[w] => disk'[i] = disk[i]
  BY DEF IInv, TypeOK
<1>2. /\ Building(w) \/ Removing(w)
      /\ Building(w) => Owner(w) /\ ~Removing(w) /\ ~Openable(disk[dirId[w]])
  BY DEF OnDisk, Building, Removing, Owner, IInv, BuildsUnopenable
<1>3. /\ ~Owner(w)' /\ ~Building(w)' /\ ~Removing(w)'
      /\ HasCand(w)' => HasCand(w) /\ cand'[w] = cand[w] /\ Removing(w)
  BY DEF Owner, Building, Removing, HasCand
<1>4. \A v \in Workers : v # w => /\ Owner(v)' = Owner(v)
                                  /\ Building(v)' = Building(v)
                                  /\ HasCand(v)' = HasCand(v)
                                  /\ Removing(v)' = Removing(v)
  BY DEF Owner, Building, HasCand, Removing
<1>5. HeldIntact'
  <2> SUFFICES ASSUME up, NEW s \in Held'
               PROVE  /\ s.id \in Ids /\ Openable(disk'[s.id])
                      /\ s = Opened(s.id, disk'[s.id])
    BY DEF HeldIntact, OpenableIds
  <2>1. s \in Held
    BY DEF Held, Unpublished
  <2>2. s.id \in Ids /\ Openable(disk[s.id]) /\ s = Opened(s.id, disk[s.id])
    BY <2>1 DEF IInv, HeldIntact, OpenableIds
  <2>3. s.id # dirId[w]
    <3>1. CASE Building(w)
      BY <1>2, <2>2, <3>1
    <3>2. CASE Removing(w) /\ s \in segments
      BY <3>2, HeldFacts
    <3>3. CASE Removing(w) /\ s \notin segments
      <4>1. PICK v \in Workers : pc[v] \in {"add", "swap"} /\ s = built[v]
        BY <2>1, <3>3 DEF Held, Unpublished
      <4> QED  BY <3>3, <4>1 DEF IInv, BuiltMatches, OwnersApart, Owner
    <3> QED  BY <1>2, <3>1, <3>2, <3>3
  <2> QED  BY <1>1, <2>2, <2>3
<1>6. OwnersApart'
  BY <1>3, <1>4 DEF IInv, OwnersApart
<1>7. BuildsUnopenable'
  <2>1. \A v \in Workers : v # w /\ Building(v) => dirId[v] # dirId[w] /\ dirId[v] \in Ids
    BY <1>2 DEF IInv, OwnersApart, Owner, Building, TypeOK
  <2> QED  BY <1>1, <1>3, <1>4, <2>1 DEF IInv, BuildsUnopenable
<1>8. BuiltMatches'
  BY DEF IInv, BuiltMatches
<1>9. IdsBelowNext'
  <2>1. up => dirId[w] < nextId
    BY <1>2 DEF IInv, IdsBelowNext
  <2> QED  BY <1>1, <1>3, <1>4, <2>1 DEF IInv, IdsBelowNext
<1>10. \A i \in Ids : disk'[i].docs \subseteq disk[i].docs \/ (Building(w) /\ i = dirId[w])
  BY <1>1, <1>2
<1>11. CandidatesCovered'
  <2>1. ASSUME up, NEW v \in Workers, HasCand(v)', NEW c \in cand'[v]
        PROVE  c.docs \subseteq Served /\ disk'[c.id].docs \subseteq c.docs
    <3>1. HasCand(v) /\ c \in cand[v] /\ c.id \in Ids
      BY <1>3, <1>4, <2>1 DEF IInv, TypeOK, Segment
    <3>2. Building(w) => c.id # dirId[w]
      BY <1>2, <3>1 DEF IInv, OwnersApart
    <3> QED  BY <1>10, <2>1, <3>1, <3>2 DEF IInv, CandidatesCovered
  <2> QED  BY <2>1 DEF CandidatesCovered, Served
<1>12. CleanupApart'
  <2>1. ASSUME up, NEW v \in Workers, Removing(v)'
        PROVE  /\ \A s \in segments : s.id # dirId'[v]
               /\ disk'[dirId'[v]].docs \subseteq Served
    <3>1. Removing(v) /\ dirId'[v] = dirId[v] /\ dirId[v] \in Ids
      BY <1>3, <1>4, <2>1 DEF IInv, TypeOK
    <3>2. Building(w) => dirId[v] # dirId[w]
      BY <1>2, <3>1 DEF IInv, OwnersApart
    <3> QED  BY <1>10, <2>1, <3>1, <3>2 DEF IInv, CleanupApart
  <2>2. ASSUME up, NEW v \in Workers, pc'[v] \in {"cleanup", "remove"}
        PROVE  \A c \in cand'[v] : \A s \in segments : s.id # c.id
    BY <2>2 DEF IInv, CleanupApart, Removing
  <2> QED  BY <2>1, <2>2 DEF CleanupApart, Served
<1>13. KilledRemovalCovered'
  <2> SUFFICES ASSUME ~up PROVE KilledRemovalCovered'
    BY DEF KilledRemovalCovered
  <2>1. ASSUME NEW v \in Workers, Removing(v)', NEW x \in disk'[dirId'[v]].docs
        PROVE  \E i \in Ids : /\ Openable(disk'[i]) /\ x \in disk'[i].docs
                              /\ \A u \in Workers : Removing(u)' => dirId'[u] # i
    <3>1. v # w /\ Removing(v) /\ dirId'[v] = dirId[v] /\ dirId[v] \in Ids
      BY <1>3, <1>4, <2>1 DEF IInv, TypeOK
    <3>2. Building(w) => dirId[v] # dirId[w]
      BY <1>2, <3>1 DEF IInv, OwnersApart
    <3>3. x \in disk[dirId[v]].docs
      BY <1>10, <2>1, <3>1, <3>2
    <3>4. PICK i \in Ids : /\ Openable(disk[i]) /\ x \in disk[i].docs
                           /\ \A u \in Workers : Removing(u) => dirId[u] # i
      BY <3>1, <3>3 DEF IInv, KilledRemovalCovered
    <3>5. i # dirId[w]
      BY <1>2, <3>4
    <3>6. \A u \in Workers : Removing(u)' => dirId'[u] # i
      BY <1>3, <1>4, <3>4
    <3> QED  BY <1>1, <3>4, <3>5, <3>6
  <2>2. segments' = {} /\ \A v \in Workers : OnDisk(v)' \/ pc'[v] = "idle"
    BY DEF IInv, KilledRemovalCovered, OnDisk, Building
  <2> QED  BY <2>1, <2>2 DEF KilledRemovalCovered
<1> QED  BY <1>5, <1>6, <1>7, <1>8, <1>9, <1>11, <1>12, <1>13 DEF IInv

LEMMA StopsEarlyEffect ==
  ASSUME IInv, NEW w \in Workers, StopsEarly(w)
  PROVE  /\ OnDisk(w)
         /\ \E d : /\ disk' = [disk EXCEPT ![dirId[w]] = d]
                   /\ Removing(w) => d.docs \subseteq disk[dirId[w]].docs
<1>1. CASE Building(w)
  <2>1. \E d : disk' = [disk EXCEPT ![dirId[w]] = d]
    BY <1>1 DEF StopsEarly, Building
  <2> QED  BY <1>1, <2>1 DEF OnDisk, Building, Removing
<1>2. CASE pc[w] = "remove"
  <2>1. disk[dirId[w]] \in Dir
    BY DEF IInv, TypeOK
  <2>2. PICK left \in SUBSET Files :
          disk' = [disk EXCEPT ![dirId[w]] = Remains(disk[dirId[w]], left)]
    BY <1>2 DEF StopsEarly, Building
  <2> QED  BY <1>2, <2>1, <2>2, RemainsType DEF OnDisk
<1> QED  BY <1>1, <1>2 DEF StopsEarly

LEMMA StopsEarlyStep ==
  ASSUME IInv, TypeOK', NEW w \in Workers, StopsEarly(w), Finish(w),
         UNCHANGED <<up, segments, nextId>>
  PROVE  IInv'
<1>1. PICK d : /\ disk' = [disk EXCEPT ![dirId[w]] = d]
               /\ Removing(w) => d.docs \subseteq disk[dirId[w]].docs
  BY StopsEarlyEffect
<1>2. OnDisk(w)
  BY StopsEarlyEffect
<1>3. /\ pc'[w] = "idle"
      /\ \A v \in Workers : v # w => /\ pc'[v] = pc[v] /\ cand'[v] = cand[v]
                                     /\ dirId'[v] = dirId[v] /\ built'[v] = built[v]
  BY DEF Finish, Goto, IInv, TypeOK
<1> QED  BY <1>1, <1>2, <1>3, LetsGoStep

LEMMA RemoveDoneStep ==
  ASSUME IInv, TypeOK', NEW w \in Workers, RemoveDone(w)
  PROVE  IInv'
<1>1. /\ up /\ Removing(w) /\ OnDisk(w) /\ UNCHANGED <<up, segments, nextId>>
      /\ disk' = [disk EXCEPT ![dirId[w]] = AbsentDir]
  BY DEF RemoveDone, Removing, OnDisk
<1>2. /\ pc'[w] = "cleanup" /\ cand'[w] = cand[w]
      /\ \A v \in Workers : v # w => /\ pc'[v] = pc[v] /\ cand'[v] = cand[v]
                                     /\ dirId'[v] = dirId[v] /\ built'[v] = built[v]
  BY DEF RemoveDone, Goto, IInv, TypeOK
<1>3. AbsentDir.docs \subseteq disk[dirId[w]].docs
  BY AbsentDirType
<1> QED  BY <1>1, <1>2, <1>3, LetsGoStep

\* A kill: what was being removed is in a served directory nobody removes.
LEMMA CrashStep ==
  ASSUME IInv, TypeOK', Crash
  PROVE  IInv'
<1>1. up /\ ~up' /\ disk' = disk /\ segments' = {}
  BY DEF Crash
<1>2. \A w \in Workers :
        \/ /\ OnDisk(w) /\ pc'[w] = pc[w] /\ cand'[w] = cand[w] /\ dirId'[w] = dirId[w]
        \/ pc'[w] = "idle"
  BY DEF Crash
<1>3. HeldIntact' /\ IdsBelowNext' /\ CandidatesCovered' /\ CleanupApart'
  BY <1>1 DEF HeldIntact, IdsBelowNext, CandidatesCovered, CleanupApart
<1>4. OwnersApart'
  BY <1>1, <1>2 DEF IInv, OwnersApart, Owner, HasCand, Removing
<1>5. BuildsUnopenable'
  BY <1>1, <1>2 DEF IInv, BuildsUnopenable, Building
<1>6. BuiltMatches'
  BY <1>2 DEF BuiltMatches, OnDisk, Building
<1>7. KilledRemovalCovered'
  <2>1. \A w \in Workers : OnDisk(w)' \/ pc'[w] = "idle"
    BY <1>2 DEF OnDisk, Building
  <2>2. ASSUME NEW w \in Workers, Removing(w)', NEW d \in disk'[dirId'[w]].docs
        PROVE  \E i \in Ids : /\ Openable(disk'[i]) /\ d \in disk'[i].docs
                              /\ \A v \in Workers : Removing(v)' => dirId'[v] # i
    <3>1. Removing(w) /\ d \in disk[dirId[w]].docs
      BY <1>1, <1>2, <2>2 DEF Removing
    <3>2. PICK s \in segments : d \in s.docs
      BY <1>1, <3>1, DocsOfMember DEF IInv, CleanupApart, Served
    <3>3. /\ s.id \in Ids /\ Openable(disk[s.id]) /\ d \in disk[s.id].docs
          /\ \A v \in Workers : Removing(v) => dirId[v] # s.id
      BY <1>1, <3>2, HeldFacts
    <3> QED  BY <1>1, <1>2, <3>3 DEF Removing
  <2> QED  BY <1>1, <2>1, <2>2 DEF KilledRemovalCovered
<1> QED  BY <1>3, <1>4, <1>5, <1>6, <1>7 DEF IInv

\* Loading makes the segment list from the directories.
LEMMA LoadStep ==
  ASSUME IInv, TypeOK', LoadSegments, UNCHANGED workerVars,
         \A w \in Workers : pc[w] \in {"idle", "flush"}
  PROVE  IInv'
<1>1. up' /\ disk' = disk /\ segments' = Loaded /\ pc' = pc
  BY DEF LoadSegments, workerVars
<1>2. PICK m \in OpenableIds \cup {0} : (\A i \in OpenableIds : i <= m) /\ nextId' = m + 1
  BY DEF LoadSegments
<1>3. HeldIntact'
  <2>1. Held' = Loaded
    BY <1>1 DEF Held, Unpublished
  <2>2. ASSUME NEW s \in Loaded
        PROVE  s.id \in OpenableIds /\ s = Opened(s.id, disk[s.id])
    BY DEF Loaded, Opened
  <2> QED  BY <1>1, <2>1, <2>2 DEF HeldIntact, OpenableIds
<1>4. OwnersApart' /\ BuildsUnopenable' /\ BuiltMatches'
  BY <1>1 DEF OwnersApart, BuildsUnopenable, BuiltMatches, Owner, Building
<1>5. IdsBelowNext'
  BY <1>1, <1>2 DEF IdsBelowNext, Owner, Removing, HasCand, OpenableIds, Ids
<1>6. CandidatesCovered' /\ CleanupApart' /\ KilledRemovalCovered'
  BY <1>1 DEF CandidatesCovered, CleanupApart, KilledRemovalCovered, HasCand, Removing
<1> QED  BY <1>3, <1>4, <1>5, <1>6 DEF IInv

LEMMA StepIInv == IInv /\ [Next]_vars => IInv'
<1> SUFFICES ASSUME IInv, [Next]_vars PROVE IInv'
  OBVIOUS
<1>0. TypeOK'
  BY TypeStep DEF IInv
<1>1. ASSUME NEW w \in Workers, NEW D \in Batches, Insert(w, D)
      PROVE  IInv'
  BY <1>0, <1>1, QuietStep DEF Insert, Goto, IInv, TypeOK
<1>2. ASSUME NEW w \in Workers, FlushBegin(w)
      PROVE  IInv'
  BY <1>0, <1>2, TakesId DEF FlushBegin, Goto
<1>3. ASSUME NEW w \in Workers, FlushDone(w) \/ MergeDone(w)
      PROVE  IInv'
  BY <1>0, <1>3, BuildDoneStep DEF FlushDone, MergeDone
<1>4. ASSUME NEW w \in Workers, AddSegment(w)
      PROVE  IInv'
  BY <1>0, <1>4, AddSegmentStep
<1>5. ASSUME NEW w \in Workers, SelectMerge(w)
      PROVE  IInv'
  <2>1. \E C \in SUBSET segments : cand' = [cand EXCEPT ![w] = C]
    BY <1>5 DEF SelectMerge, Selections, Mergeable
  <2> QED  BY <1>0, <1>5, <2>1, TakesId DEF SelectMerge, Goto
<1>6. ASSUME NEW w \in Workers, SwapSegments(w)
      PROVE  IInv'
  BY <1>0, <1>6, SwapStep
<1>7. ASSUME NEW w \in Workers, CleanupNext(w)
      PROVE  IInv'
  BY <1>0, <1>7, CleanupNextStep
<1>8. ASSUME NEW w \in Workers, RemoveDone(w)
      PROVE  IInv'
  BY <1>0, <1>8, RemoveDoneStep
<1>9. ASSUME NEW w \in Workers,
             FlushNothing(w) \/ MergeNothing(w) \/ MergeUnreadable(w)
               \/ CleanupDone(w) \/ RemoveRaced(w) \/ CheckMerge(w)
      PROVE  IInv'
  <2>1. UNCHANGED <<up, segments, nextId, disk>>
    BY <1>9 DEF FlushNothing, MergeNothing, MergeUnreadable, CleanupDone,
       RemoveRaced, CheckMerge
  <2>2. Finish(w) \/ (Goto(w, "select") /\ UNCHANGED <<batch, cand, dirId, built>> /\ up)
    BY <1>9 DEF FlushNothing, MergeNothing, MergeUnreadable, CleanupDone,
       RemoveRaced, CheckMerge
  <2>3. \A v \in Workers :
          \/ pc'[v] = pc[v] /\ cand'[v] = cand[v] /\ dirId'[v] = dirId[v]
             /\ built'[v] = built[v]
          \/ pc'[v] = "idle"
          \/ pc'[v] = "select" /\ up
    BY <2>2 DEF Finish, Goto, IInv, TypeOK
  <2> QED  BY <1>0, <2>1, <2>3, QuietStep
<1>10. ASSUME NEW w \in Workers, IoError(w)
       PROVE  IInv'
  BY <1>0, <1>10, StopsEarlyStep DEF IoError
<1>11. ASSUME NEW w \in Workers, Halt(w)
       PROVE  IInv'
  <2>1. CASE StopsEarly(w)
    BY <1>0, <1>11, <2>1, StopsEarlyStep DEF Halt
  <2>2. CASE UNCHANGED disk
    <3>1. \A v \in Workers :
            \/ pc'[v] = pc[v] /\ cand'[v] = cand[v] /\ dirId'[v] = dirId[v]
               /\ built'[v] = built[v]
            \/ pc'[v] = "idle"
      BY <1>11 DEF Halt, Finish, Goto, IInv, TypeOK
    <3> QED  BY <1>0, <1>11, <2>2, <3>1, QuietStep DEF Halt
  <2> QED  BY <1>11, <2>1, <2>2 DEF Halt
<1>12. ASSUME NEW k \in Keys, DeleteDocument(k)
       PROVE  IInv'
  BY <1>0, <1>12, QuietStep DEF DeleteDocument, workerVars
<1>13. CASE Crash
  BY <1>0, <1>13, CrashStep
<1>14. CASE Restart
  BY <1>0, <1>14, LoadStep DEF Restart
<1>15. CASE ReopenManager
  BY <1>0, <1>15, LoadStep DEF ReopenManager
<1>16. CASE UNCHANGED vars
  BY <1>0, <1>16, QuietStep DEF vars, workerVars
<1> QED
  BY <1>1, <1>2, <1>3, <1>4, <1>5, <1>6, <1>7, <1>8, <1>9, <1>10, <1>11,
     <1>12, <1>13, <1>14, <1>15, <1>16 DEF Next, WorkerStep

\* The inductive invariant holds throughout.
THEOREM InvariantHolds == Spec => []IInv
  BY InitIInv, StepIInv, PTL DEF Spec

\* The directory of every segment that is served or about to be is on disk,
\* complete and unchanged, whatever the other workers merge and remove.
THEOREM HeldDirectoriesIntact == Spec => []HeldIntact
<1>1. IInv => HeldIntact
  BY DEF IInv
<1> QED  BY <1>1, InvariantHolds, PTL

-----------------------------------------------------------------------------
(* Action properties.                                                       *)

\* What a restart would find, for a given content of the disk.
LEMMA LoadableMember ==
  ASSUME NEW dk, NEW d
  PROVE  d \in DocsOf({Opened(i, dk[i]) : i \in {j \in Ids : Openable(dk[j])}})
           <=> \E i \in Ids : Openable(dk[i]) /\ d \in dk[i].docs
<1>1. \A i : Opened(i, dk[i]).docs = dk[i].docs
  BY DEF Opened
<1> QED  BY <1>1, DocsOfMember

LEMMA DurableGrows ==
  ASSUME \A i \in Ids : Openable(disk[i]) =>
           \A x \in disk[i].docs :
             \E j \in Ids : Openable(disk'[j]) /\ x \in disk'[j].docs
  PROVE  Durable \subseteq Durable'
  BY LoadableMember DEF Durable, Loaded, OpenableIds

LEMMA ServedIsDurable ==
  ASSUME IInv, up
  PROVE  Served \subseteq Durable
<1> SUFFICES ASSUME NEW s \in segments, NEW d \in s.docs
             PROVE  \E i \in Ids : Openable(disk[i]) /\ d \in disk[i].docs
  BY DocsOfMember, LoadableMember DEF Served, Durable, Loaded, OpenableIds
<1> QED  BY HeldFacts

\* Letting go of a directory, complete or not, loses nothing: nothing could be
\* loaded from one under construction, and one under removal is covered.
LEMMA LetsGoKeeps ==
  ASSUME IInv, NEW w \in Workers, OnDisk(w), NEW d,
         disk' = [disk EXCEPT ![dirId[w]] = d]
  PROVE  Durable \subseteq Durable'
<1>1. \A i \in Ids : i # dirId[w] => disk'[i] = disk[i]
  BY DEF IInv, TypeOK
<1> SUFFICES ASSUME NEW i \in Ids, Openable(disk[i]), NEW x \in disk[i].docs
             PROVE  \E j \in Ids : Openable(disk'[j]) /\ x \in disk'[j].docs
  BY DurableGrows
<1>2. CASE i # dirId[w]
  BY <1>1, <1>2
<1>3. CASE i = dirId[w]
  <2>1. Removing(w)
    BY <1>3 DEF IInv, BuildsUnopenable, OnDisk, Building, Removing
  <2>2. \E j \in Ids : /\ Openable(disk[j]) /\ x \in disk[j].docs
                       /\ j # dirId[w]
    <3>1. CASE up
      <4>1. PICK s \in segments : x \in s.docs
        BY <1>3, <2>1, <3>1, DocsOfMember DEF IInv, CleanupApart, Served
      <4> QED  BY <2>1, <3>1, <4>1, HeldFacts
    <3>2. CASE ~up
      <4>1. \A y \in disk[dirId[w]].docs :
              \E j \in Ids : /\ Openable(disk[j]) /\ y \in disk[j].docs
                             /\ \A v \in Workers : Removing(v) => dirId[v] # j
        BY <2>1, <3>2 DEF IInv, KilledRemovalCovered
      <4> QED  BY <1>3, <2>1, <4>1
    <3> QED  BY <3>1, <3>2
  <2> QED  BY <1>1, <2>2
<1> QED  BY <1>2, <1>3

LEMMA StepKeepsDurable == IInv /\ [Next]_vars => Durable \subseteq Durable'
<1> SUFFICES ASSUME IInv, [Next]_vars PROVE Durable \subseteq Durable'
  OBVIOUS
<1>1. ASSUME NEW w \in Workers, FlushDone(w) \/ MergeDone(w) \/ RemoveDone(w)
      PROVE  Durable \subseteq Durable'
  <2>1. OnDisk(w)
    BY <1>1 DEF FlushDone, MergeDone, RemoveDone, BuildDone, OnDisk, Building
  <2>2. \E d : disk' = [disk EXCEPT ![dirId[w]] = d]
    BY <1>1 DEF FlushDone, MergeDone, RemoveDone, BuildDone
  <2> QED  BY <2>1, <2>2, LetsGoKeeps
<1>2. ASSUME NEW w \in Workers, StopsEarly(w)
      PROVE  Durable \subseteq Durable'
  BY <1>2, StopsEarlyEffect, LetsGoKeeps
<1>3. ASSUME UNCHANGED disk
      PROVE  Durable \subseteq Durable'
  BY <1>3, LoadableMember DEF Durable, Loaded, OpenableIds
<1>4. ASSUME NEW w \in Workers, WorkerStep(w) \/ IoError(w)
      PROVE  \/ UNCHANGED disk
             \/ FlushDone(w) \/ MergeDone(w) \/ RemoveDone(w) \/ StopsEarly(w)
  BY <1>4 DEF WorkerStep, FlushNothing, FlushBegin, AddSegment, CheckMerge,
     MergeNothing, SelectMerge, MergeUnreadable, SwapSegments, CleanupNext,
     CleanupDone, RemoveRaced, Halt, IoError
<1>5. ASSUME \/ \E w \in Workers, D \in Batches : Insert(w, D)
             \/ \E k \in Keys : DeleteDocument(k)
             \/ Crash \/ Restart \/ ReopenManager \/ UNCHANGED vars
      PROVE  UNCHANGED disk
  BY <1>5 DEF Insert, DeleteDocument, Crash, Restart, ReopenManager,
     LoadSegments, vars
<1> QED  BY <1>1, <1>2, <1>3, <1>4, <1>5 DEF Next

\* No step loses what a restart would have found.
THEOREM DurabilityHolds == Spec => DurableNeverShrinks
  BY InvariantHolds, StepKeepsDurable, PTL DEF Spec, DurableNeverShrinks

LEMMA StepKeepsServed == IInv /\ [Next]_vars => (up /\ up' => Served \subseteq Served')
<1> SUFFICES ASSUME IInv, [Next]_vars, up, up' PROVE Served \subseteq Served'
  OBVIOUS
<1>1. ASSUME NEW w \in Workers, AddSegment(w)
      PROVE  Served \subseteq Served'
  BY <1>1, DocsOfMember DEF AddSegment, Served
<1>2. ASSUME NEW w \in Workers, SwapSegments(w)
      PROVE  Served \subseteq Served'
  BY <1>2, SwapServes
<1>3. ASSUME ReopenManager
      PROVE  Served \subseteq Served'
  <2>1. Served' = Durable
    BY <1>3 DEF ReopenManager, LoadSegments, Served, Durable
  <2> QED  BY <2>1, ServedIsDurable
<1>4. ASSUME UNCHANGED segments
      PROVE  Served \subseteq Served'
  BY <1>4 DEF Served
<1>5. ASSUME NEW w \in Workers, WorkerStep(w) \/ IoError(w)
      PROVE  UNCHANGED segments \/ AddSegment(w) \/ SwapSegments(w)
  BY <1>5 DEF WorkerStep, FlushNothing, FlushBegin, FlushDone, MergeDone,
     BuildDone, CheckMerge, MergeNothing, SelectMerge, MergeUnreadable,
     CleanupNext, CleanupDone, RemoveDone, RemoveRaced, Halt, IoError
<1>6. ASSUME \/ \E w \in Workers, D \in Batches : Insert(w, D)
             \/ \E k \in Keys : DeleteDocument(k)
             \/ UNCHANGED vars
      PROVE  UNCHANGED segments
  BY <1>6 DEF Insert, DeleteDocument, vars
<1>7. ~Crash /\ ~Restart
  BY DEF Crash, Restart
<1> QED  BY <1>1, <1>2, <1>3, <1>4, <1>5, <1>6, <1>7 DEF Next

\* While the process runs, no step takes a served document out of reach.
THEOREM SearchHolds == Spec => SearchNeverLoses
  BY InvariantHolds, StepKeepsServed, PTL DEF Spec, SearchNeverLoses
-----------------------------------------------------------------------------
(* Nothing durable that nobody serves.                                      *)

LEMMA HeldIsDurable ==
  ASSUME IInv, up
  PROVE  DocsOf(Held) \subseteq Durable
<1> SUFFICES ASSUME NEW s \in Held, NEW d \in s.docs
             PROVE  \E i \in Ids : Openable(disk[i]) /\ d \in disk[i].docs
  BY DocsOfMember, LoadableMember DEF Durable, Loaded, OpenableIds
<1>1. s.id \in Ids /\ Openable(disk[s.id]) /\ s = Opened(s.id, disk[s.id])
  BY DEF IInv, HeldIntact, OpenableIds
<1>2. s.docs = disk[s.id].docs
  BY <1>1 DEF Opened
<1> QED  BY <1>1, <1>2

\* A segment stays held until the swap that puts its documents into another.
LEMMA StepKeepsHeld ==
  ASSUME IInv, IInv', up, up', [Next]_vars, ~ReopenManager
  PROVE  DocsOf(Held) \subseteq DocsOf(Held)'
<1> SUFFICES ASSUME NEW d, d \in DocsOf(Held)
             PROVE  d \in DocsOf(Held)'
  OBVIOUS
<1>1. PICK s \in Held : d \in s.docs
  BY DocsOfMember
<1>2. CASE s \in segments
  <2>1. d \in Served
    BY <1>1, <1>2, DocsOfMember DEF Served
  <2>2. d \in Served'
    BY <2>1, StepKeepsServed
  <2> QED  BY <2>2 DEF Served, Held, DocsOf
<1>3. CASE s \notin segments
  <2>1. PICK w \in Workers : s = built[w] /\ pc[w] \in {"add", "swap"}
    BY <1>3 DEF Held, Unpublished
  <2>2. ASSUME NEW t \in Held', t.docs = s.docs
        PROVE  d \in DocsOf(Held)'
    BY <1>1, <2>2 DEF DocsOf
  <2>3. \/ pc'[w] = pc[w] /\ built'[w] = built[w]
        \/ segments' = segments \cup {built[w]}
        \/ built[w] \in segments'
    <3>1. ASSUME NEW v \in Workers, WorkerStep(v) \/ IoError(v)
          PROVE  \/ v = w /\ (AddSegment(w) \/ SwapSegments(w))
                 \/ pc'[w] = pc[w] /\ built'[w] = built[w]
      BY <2>1, <3>1 DEF IInv, TypeOK, WorkerStep, FlushNothing, FlushBegin, FlushDone,
         MergeDone, BuildDone, AddSegment, SwapSegments, CheckMerge, MergeNothing, SelectMerge,
         MergeUnreadable, CleanupNext, CleanupDone, RemoveDone, RemoveRaced,
         Halt, IoError, StopsEarly, Building, Goto, Finish
    <3>2. ASSUME \/ \E v \in Workers, D \in Batches : Insert(v, D)
                 \/ \E k \in Keys : DeleteDocument(k)
                 \/ UNCHANGED vars
          PROVE  pc'[w] = pc[w] /\ built'[w] = built[w]
      BY <2>1, <3>2 DEF IInv, TypeOK, Insert, DeleteDocument, Goto, workerVars, vars
    <3>3. ~Crash /\ ~Restart
      BY DEF Crash, Restart
    <3>4. AddSegment(w) \/ SwapSegments(w) => built[w] \in segments'
      BY DEF AddSegment, SwapSegments
    <3> QED  BY <3>1, <3>2, <3>3, <3>4 DEF Next
  <2> QED  BY <2>1, <2>2, <2>3 DEF Held, Unpublished
<1> QED  BY <1>2, <1>3

\* Only a build that succeeds makes something loadable that was not, and what
\* it makes loadable it is about to publish.
LEMMA StepDurableIsServed == IInv /\ DurableIsServed /\ [Next]_vars => DurableIsServed'
<1> SUFFICES ASSUME IInv, DurableIsServed, [Next]_vars, up', ioErrors' = 0
             PROVE  Durable' = DocsOf(Held)'
  BY DEF DurableIsServed
<1>0. ASSUME NEW w \in Workers, IoError(w)
      PROVE  FALSE
  <2>1. ioErrors \in Nat
    BY FaultAssumption DEF IInv, TypeOK
  <2>2. ioErrors' = ioErrors + 1
    BY <1>0 DEF IoError
  <2> QED  BY <2>1, <2>2
<1>1. IInv'
  BY StepIInv
<1>2. DocsOf(Held)' \subseteq Durable'
  <2> HIDE DEF IInv, Durable, Held, DocsOf
  <2>1. (IInv /\ up => DocsOf(Held) \subseteq Durable)'
    BY HeldIsDurable, PTL
  <2> QED  BY <1>1, <2>1
<1>3. CASE Restart \/ ReopenManager
  <2>1. segments' = Loaded' /\ UNCHANGED disk
    BY <1>3 DEF Restart, ReopenManager, LoadSegments, Loaded, OpenableIds
  <2> QED  BY <1>2, <2>1, DocsOfMember DEF Durable, Held, DocsOf
<1>4. CASE ~(Restart \/ ReopenManager)
  <2>1. up /\ ioErrors = 0
    <3>1. ASSUME NEW w \in Workers, WorkerStep(w) \/ (\E D \in Batches : Insert(w, D))
          PROVE  (up' => up) /\ ioErrors' = ioErrors
      BY <3>1 DEF WorkerStep, Insert, FlushNothing, FlushBegin, FlushDone,
         MergeDone, BuildDone, AddSegment, SwapSegments, CheckMerge, MergeNothing,
         SelectMerge, MergeUnreadable, CleanupNext, CleanupDone, RemoveDone,
         RemoveRaced, Halt, faultVars
    <3>2. ASSUME \/ \E k \in Keys : DeleteDocument(k)
                 \/ Crash \/ UNCHANGED vars
          PROVE  (up' => up) /\ ioErrors' = ioErrors
      BY <3>2 DEF DeleteDocument, Crash, vars, faultVars
    <3>3. \A w \in Workers : ~IoError(w)
      BY <1>0
    <3> QED  BY <1>4, <3>1, <3>2, <3>3 DEF Next
  <2>2. DocsOf(Held) \subseteq DocsOf(Held)'
    BY <1>1, <1>4, <2>1, StepKeepsHeld
  <2>3. Durable = DocsOf(Held)
    BY <2>1 DEF DurableIsServed
  <2>4. CASE Durable' \subseteq Durable
    BY <1>2, <2>2, <2>3, <2>4
  <2>5. ASSUME NEW w \in Workers, FlushDone(w) \/ MergeDone(w)
        PROVE  Durable' = DocsOf(Held)'
    <3> SUFFICES ASSUME NEW i \in Ids, Openable(disk'[i]), NEW d \in disk'[i].docs
                 PROVE  d \in DocsOf(Held)'
      BY <1>2, LoadableMember DEF Durable, Loaded, OpenableIds
    <3>1. /\ disk' = [disk EXCEPT ![dirId[w]] = Output(w)]
          /\ Openable(Output(w)) =>
               /\ built'[w] = Opened(dirId[w], Output(w))
               /\ pc'[w] \in {"add", "swap"}
      <4>1. built \in [Workers -> Segment] /\ pc \in [Workers -> Labels]
        BY DEF IInv, TypeOK
      <4>2. CASE FlushDone(w)
        BY <4>1, <4>2 DEF FlushDone, BuildDone, Goto
      <4>3. CASE MergeDone(w)
        BY <4>1, <4>3 DEF MergeDone, BuildDone, Goto
      <4> QED  BY <2>5, <4>2, <4>3
    <3>2. CASE i = dirId[w]
      <4>1. built'[w].docs = disk'[i].docs /\ built'[w] \in Held'
        BY <3>1, <3>2 DEF Opened, Held, Unpublished, IInv, TypeOK
      <4> QED  BY <4>1 DEF DocsOf
    <3>3. CASE i # dirId[w]
      <4>1. disk'[i] = disk[i]
        BY <3>1, <3>3 DEF IInv, TypeOK
      <4>2. d \in Durable
        BY <4>1, LoadableMember DEF Durable, Loaded, OpenableIds
      <4> QED  BY <4>2, <2>2, <2>3
    <3> QED  BY <3>2, <3>3
  <2>6. ASSUME NEW w \in Workers, RemoveDone(w)
        PROVE  Durable' \subseteq Durable
    <3>1. \A i \in Ids : disk'[i] = disk[i] \/ disk'[i] = AbsentDir
      BY <2>6 DEF RemoveDone, IInv, TypeOK
    <3>2. ~Openable(AbsentDir)
      BY DEF Openable, AbsentDir, Files
    <3> QED  BY <3>1, <3>2, LoadableMember DEF Durable, Loaded, OpenableIds
  <2>7. ASSUME UNCHANGED disk
        PROVE  Durable' = Durable
    BY <2>7 DEF Durable, Loaded, OpenableIds
  <2>8. ASSUME NEW w \in Workers, WorkerStep(w)
        PROVE  UNCHANGED disk \/ FlushDone(w) \/ MergeDone(w) \/ RemoveDone(w)
    BY <2>1, <2>8 DEF WorkerStep, FlushNothing, FlushBegin, AddSegment, CheckMerge,
       MergeNothing, SelectMerge, MergeUnreadable, SwapSegments, CleanupNext,
       CleanupDone, RemoveRaced, Halt
  <2>9. ASSUME \/ \E w \in Workers, D \in Batches : Insert(w, D)
               \/ \E k \in Keys : DeleteDocument(k)
               \/ Crash \/ UNCHANGED vars
        PROVE  UNCHANGED disk
    BY <2>9 DEF Insert, DeleteDocument, Crash, vars
  <2>10. \A w \in Workers : ~IoError(w)
    BY <1>0
  <2> QED  BY <1>4, <2>4, <2>5, <2>6, <2>7, <2>8, <2>9, <2>10 DEF Next
<1> QED  BY <1>3, <1>4

LEMMA InitDurableIsServed == Init => DurableIsServed
<1> SUFFICES ASSUME Init PROVE Durable = DocsOf(Held)
  BY DEF DurableIsServed
<1>1. \A i \in Ids : ~Openable(disk[i])
  BY DEF Init, Openable, AbsentDir, Files
<1>2. Loaded = {}
  BY <1>1 DEF Loaded, OpenableIds
<1>3. Held = {}
  BY DEF Init, IdleWorkers, Held, Unpublished
<1> QED  BY <1>2, <1>3 DEF Durable

\* Without i/o errors, what a restart would find is what is served or about to
\* be, at every moment the process runs.
THEOREM DurableIsServedHolds == Spec => []DurableIsServed
  BY InvariantHolds, InitDurableIsServed, StepDurableIsServed, PTL DEF Spec

-----------------------------------------------------------------------------
(* The segment store implements the document store: every step of its      *)
(* flushes, merges, cleanups, failures and restarts is a step of DocStore  *)
(* or changes nothing DocStore speaks of.                                  *)
(*                                                                         *)
(* Batches and the buffer.                                                  *)

LEMMA BatchesInit == Init => BatchesApart
  BY DEF Init, IdleWorkers, BatchesApart

\* Steps that touch neither the buffer nor a batch, and send nobody to or
\* from "writing".
LEMMA BatchesQuiet ==
  ASSUME BatchesApart, buffer' = buffer, up' = up,
         \A w \in Workers : /\ batch'[w] = batch[w]
                            /\ pc'[w] = "writing" <=> pc[w] = "writing"
  PROVE  BatchesApart'
  BY DEF BatchesApart

\* A worker that is not writing leaves, or one that was writing lets go.
LEMMA BatchesFinish ==
  ASSUME IInv, BatchesApart, NEW w \in Workers, Finish(w), buffer' = buffer, up' = up
  PROVE  BatchesApart'
<1>1. /\ pc'[w] = "idle" /\ batch'[w] = {}
      /\ \A v \in Workers : v # w => pc'[v] = pc[v] /\ batch'[v] = batch[v]
  BY DEF Finish, Goto, IInv, TypeOK
<1> QED  BY <1>1 DEF BatchesApart

LEMMA BatchesStep == IInv /\ BatchesApart /\ [Next]_vars => BatchesApart'
<1> SUFFICES ASSUME IInv, BatchesApart, [Next]_vars PROVE BatchesApart'
  OBVIOUS
<1>1. ASSUME NEW w \in Workers, NEW D \in Batches, Insert(w, D)
      PROVE  BatchesApart'
  BY <1>1 DEF Insert, BufferLocked, BatchesApart, Goto, IInv, TypeOK
<1>2. ASSUME NEW w \in Workers, FlushBegin(w)
      PROVE  BatchesApart'
  <2>1. /\ pc'[w] = "writing" /\ batch'[w] = buffer /\ buffer # {} /\ buffer' = {}
        /\ up' /\ \A v \in Workers : pc[v] # "writing"
        /\ \A v \in Workers : v # w => pc'[v] = pc[v] /\ batch'[v] = batch[v]
    BY <1>2 DEF FlushBegin, BufferLocked, Goto, IInv, TypeOK
  <2> QED  BY <2>1 DEF BatchesApart
<1>3. ASSUME NEW w \in Workers, FlushDone(w) \/ MergeDone(w)
      PROVE  BatchesApart'
  <2>1. /\ buffer' = buffer /\ up' = up
        /\ pc'[w] # "writing" /\ batch'[w] = {}
        /\ \A v \in Workers : v # w => pc'[v] = pc[v] /\ batch'[v] = batch[v]
    BY <1>3 DEF FlushDone, MergeDone, BuildDone, Finish, Goto, IInv, TypeOK
  <2> QED  BY <2>1 DEF BatchesApart
<1>4. ASSUME NEW w \in Workers,
             AddSegment(w) \/ SelectMerge(w) \/ SwapSegments(w)
               \/ CleanupNext(w) \/ RemoveDone(w)
      PROVE  BatchesApart'
  <2>1. buffer' = buffer /\ up' = up /\ batch' = batch
    BY <1>4 DEF AddSegment, SelectMerge, SwapSegments, CleanupNext, RemoveDone
  <2>2. \A v \in Workers : pc'[v] = "writing" <=> pc[v] = "writing"
    BY <1>4 DEF AddSegment, SelectMerge, SwapSegments, CleanupNext, RemoveDone,
       Goto, IInv, TypeOK
  <2> QED  BY <2>1, <2>2, BatchesQuiet
<1>5. ASSUME NEW w \in Workers, CheckMerge(w)
      PROVE  BatchesApart'
  <2>1. CASE Finish(w)
    BY <1>5, <2>1, BatchesFinish DEF CheckMerge
  <2>2. CASE Goto(w, "select") /\ batch' = batch
    BY <1>5, <2>2, BatchesQuiet DEF CheckMerge, Goto, IInv, TypeOK
  <2> QED  BY <1>5, <2>1, <2>2 DEF CheckMerge
<1>6. ASSUME NEW w \in Workers,
             FlushNothing(w) \/ MergeNothing(w) \/ MergeUnreadable(w)
               \/ CleanupDone(w) \/ RemoveRaced(w) \/ IoError(w) \/ Halt(w)
      PROVE  BatchesApart'
  BY <1>6, BatchesFinish DEF FlushNothing, MergeNothing, MergeUnreadable,
     CleanupDone, RemoveRaced, IoError, Halt
<1>7. ASSUME NEW k \in Keys, DeleteDocument(k)
      PROVE  BatchesApart'
  BY <1>7 DEF DeleteDocument, BufferLocked, BatchesApart, workerVars
<1>8. CASE Crash
  <2>1. \A w \in Workers : /\ pc'[w] = "writing" <=> pc[w] = "writing"
                           /\ pc[w] = "writing" => batch'[w] = batch[w]
                           /\ batch'[w] = batch[w] \/ batch'[w] = {}
    BY <1>8 DEF Crash, OnDisk, Building
  <2> QED  BY <1>8, <2>1 DEF Crash, BatchesApart
<1>9. CASE Restart
  BY <1>9 DEF Restart, LoadSegments, BatchesApart, workerVars
<1>10. CASE ReopenManager
  BY <1>10 DEF ReopenManager, LoadSegments, BatchesApart, workerVars
<1>11. CASE UNCHANGED vars
  BY <1>11 DEF vars, workerVars, BatchesApart
<1> QED
  BY <1>1, <1>2, <1>3, <1>4, <1>5, <1>6, <1>7, <1>8, <1>9, <1>10, <1>11
  DEF Next, WorkerStep

-----------------------------------------------------------------------------
(* Whatever is anywhere was submitted once.                                 *)

LEMMA SubmittedInit == Init => SubmittedOnce
  BY DEF Init, IdleWorkers, SubmittedOnce, AbsentDir, NoSegment, DocsOf

LEMMA OutputSubmitted ==
  ASSUME SubmittedOnce, NEW w \in Workers
  PROVE  Output(w).docs \cap fresh = {}
  BY DEF SubmittedOnce, Output, FlushInput, MergeInput, Built

LEMMA StopsEarlySubmitted ==
  ASSUME IInv, SubmittedOnce, NEW w \in Workers, StopsEarly(w)
  PROVE  \A i \in Ids : disk'[i].docs \cap fresh = {}
<1>1. \E d : disk' = [disk EXCEPT ![dirId[w]] = d] /\ d.docs \cap fresh = {}
  <2>0. dirId[w] \in Ids /\ disk[dirId[w]].docs \cap fresh = {}
    BY DEF IInv, TypeOK, SubmittedOnce
  <2>1. CASE Building(w)
    <3>1. PICK n \in 0..4, cut \in BOOLEAN :
            disk' = [disk EXCEPT ![dirId[w]] = Interrupted(disk[dirId[w]], Output(w), n, cut)]
      BY <2>1 DEF StopsEarly, Building
    <3>2. Interrupted(disk[dirId[w]], Output(w), n, cut).docs
            \in {Output(w).docs, {}, disk[dirId[w]].docs}
      BY DEF Interrupted
    <3> QED  BY <2>0, <3>1, <3>2, OutputSubmitted
  <2>2. CASE pc[w] = "remove"
    <3>1. PICK left \in SUBSET Files :
            disk' = [disk EXCEPT ![dirId[w]] = Remains(disk[dirId[w]], left)]
      BY <2>2 DEF StopsEarly, Building
    <3>2. Remains(disk[dirId[w]], left).docs \in {{}, disk[dirId[w]].docs}
      BY DEF Remains
    <3> QED  BY <2>0, <3>1, <3>2
  <2> QED  BY <2>1, <2>2 DEF StopsEarly
<1> QED  BY <1>1 DEF IInv, TypeOK, SubmittedOnce

LEMMA FinishSubmitted ==
  ASSUME IInv, SubmittedOnce, NEW w \in Workers, Finish(w)
  PROVE  /\ \A v \in Workers : /\ batch'[v] \cap fresh = {}
                               /\ DocsOf(cand'[v]) \cap fresh = {}
         /\ \A v \in Workers : built'[v].docs \cap fresh = {}
<1>1. /\ batch'[w] = {} /\ cand'[w] = {} /\ built'[w] = NoSegment
      /\ \A v \in Workers : v # w => /\ batch'[v] = batch[v] /\ cand'[v] = cand[v]
                                     /\ built'[v] = built[v]
  BY DEF Finish, IInv, TypeOK
<1>2. NoSegment.docs = {} /\ DocsOf({}) = {}
  BY DEF NoSegment, DocsOf
<1> QED  BY <1>1, <1>2 DEF SubmittedOnce

LEMMA LoadedSubmitted ==
  ASSUME SubmittedOnce
  PROVE  DocsOf(Loaded) \cap fresh = {}
  BY LoadableMember DEF SubmittedOnce, Loaded, OpenableIds

LEMMA SubmittedStep == IInv /\ SubmittedOnce /\ [Next]_vars => SubmittedOnce'
<1> SUFFICES ASSUME IInv, SubmittedOnce, [Next]_vars PROVE SubmittedOnce'
  OBVIOUS
<1>0. NoSegment.docs = {} /\ DocsOf({}) = {} /\ AbsentDir.docs = {}
  BY AbsentDirType DEF NoSegment, DocsOf
<1>1. ASSUME NEW w \in Workers, NEW D \in Batches, Insert(w, D)
      PROVE  SubmittedOnce'
  BY <1>1 DEF Insert, SubmittedOnce, Batches
<1>2. ASSUME NEW w \in Workers, FlushBegin(w)
      PROVE  SubmittedOnce'
  <2>1. \A v \in Workers : batch'[v] = batch[v] \/ batch'[v] = buffer
    BY <1>2 DEF FlushBegin, IInv, TypeOK
  <2> QED  BY <1>2, <2>1 DEF FlushBegin, SubmittedOnce
<1>3. ASSUME NEW w \in Workers, FlushDone(w) \/ MergeDone(w)
      PROVE  SubmittedOnce'
  <2>1. UNCHANGED <<fresh, buffer, segments>>
    BY <1>3 DEF FlushDone, MergeDone, BuildDone
  <2>2. \A i \in Ids : disk'[i].docs \cap fresh = {}
    <3>1. disk' = [disk EXCEPT ![dirId[w]] = Output(w)]
      BY <1>3 DEF FlushDone, MergeDone, BuildDone
    <3>2. \A i \in Ids : disk'[i] = disk[i] \/ disk'[i] = Output(w)
      BY <3>1 DEF IInv, TypeOK
    <3> QED  BY <3>2, OutputSubmitted DEF SubmittedOnce
  <2>3. CASE Finish(w)
    BY <2>1, <2>2, <2>3, FinishSubmitted DEF SubmittedOnce
  <2>4. CASE ~Finish(w)
    <3>1. /\ built' = [built EXCEPT ![w] = Opened(dirId[w], Output(w))]
          /\ batch' = [batch EXCEPT ![w] = {}]
          /\ cand' = cand
      BY <1>3, <2>4 DEF FlushDone, MergeDone, BuildDone
    <3>2. Opened(dirId[w], Output(w)).docs = Output(w).docs
      BY DEF Opened
    <3>3. \A v \in Workers : /\ built'[v] = built[v] \/ built'[v].docs = Output(w).docs
                             /\ batch'[v] = batch[v] \/ batch'[v] = {}
      BY <3>1, <3>2 DEF IInv, TypeOK
    <3> QED  BY <2>1, <2>2, <3>1, <3>3, OutputSubmitted DEF SubmittedOnce
  <2> QED  BY <2>3, <2>4
<1>4. ASSUME NEW w \in Workers, AddSegment(w) \/ SwapSegments(w)
      PROVE  SubmittedOnce'
  <2>1. /\ UNCHANGED <<fresh, buffer, disk, batch, cand>>
        /\ segments' \subseteq segments \cup {built[w]}
        /\ built' = [built EXCEPT ![w] = NoSegment]
    BY <1>4 DEF AddSegment, SwapSegments
  <2>2. DocsOf(segments') \cap fresh = {}
    BY <2>1, DocsOfMember DEF SubmittedOnce
  <2>3. \A v \in Workers : built'[v] = built[v] \/ built'[v] = NoSegment
    BY <2>1 DEF IInv, TypeOK
  <2> QED  BY <1>0, <2>1, <2>2, <2>3 DEF SubmittedOnce
<1>5. ASSUME NEW w \in Workers, SelectMerge(w) \/ CleanupNext(w)
      PROVE  SubmittedOnce'
  <2>1. UNCHANGED <<fresh, buffer, disk, batch, segments, built>>
    BY <1>5 DEF SelectMerge, CleanupNext
  <2>2. \A v \in Workers : cand'[v] \subseteq cand[v] \/ cand'[v] \subseteq segments
    BY <1>5 DEF SelectMerge, CleanupNext, Selections, Mergeable, IInv, TypeOK
  <2>3. \A v \in Workers : DocsOf(cand'[v]) \cap fresh = {}
    BY <2>2, DocsOfMember DEF SubmittedOnce
  <2> QED  BY <2>1, <2>3 DEF SubmittedOnce
<1>6. ASSUME NEW w \in Workers, RemoveDone(w)
      PROVE  SubmittedOnce'
  <2>1. \A i \in Ids : disk'[i] = disk[i] \/ disk'[i] = AbsentDir
    BY <1>6 DEF RemoveDone, IInv, TypeOK
  <2> QED  BY <1>0, <1>6, <2>1 DEF RemoveDone, SubmittedOnce
<1>7. ASSUME NEW w \in Workers, CheckMerge(w)
      PROVE  SubmittedOnce'
  <2>1. CASE Finish(w)
    BY <1>7, <2>1, FinishSubmitted DEF CheckMerge, SubmittedOnce
  <2>2. CASE UNCHANGED <<batch, cand, built>>
    BY <1>7, <2>2 DEF CheckMerge, SubmittedOnce
  <2> QED  BY <1>7, <2>1, <2>2 DEF CheckMerge
<1>8. ASSUME NEW w \in Workers,
             FlushNothing(w) \/ MergeNothing(w) \/ MergeUnreadable(w)
               \/ CleanupDone(w) \/ RemoveRaced(w)
      PROVE  SubmittedOnce'
  BY <1>8, FinishSubmitted DEF FlushNothing, MergeNothing, MergeUnreadable,
     CleanupDone, RemoveRaced, SubmittedOnce
<1>9. ASSUME NEW w \in Workers, IoError(w) \/ Halt(w)
      PROVE  SubmittedOnce'
  <2>1. Finish(w) /\ UNCHANGED <<fresh, buffer, segments>>
        /\ (StopsEarly(w) \/ UNCHANGED disk)
    BY <1>9 DEF IoError, Halt
  <2>2. \A i \in Ids : disk'[i].docs \cap fresh = {}
    BY <2>1, StopsEarlySubmitted DEF SubmittedOnce
  <2> QED  BY <2>1, <2>2, FinishSubmitted DEF SubmittedOnce
<1>10. ASSUME NEW k \in Keys, DeleteDocument(k)
       PROVE  SubmittedOnce'
  BY <1>10 DEF DeleteDocument, SubmittedOnce, workerVars
<1>11. CASE Crash
  <2>1. \A w \in Workers : /\ batch'[w] = batch[w] \/ batch'[w] = {}
                           /\ cand'[w] = cand[w] \/ cand'[w] = {}
                           /\ built'[w] = NoSegment
    BY <1>11 DEF Crash
  <2> QED  BY <1>0, <1>11, <2>1 DEF Crash, SubmittedOnce
<1>12. CASE Restart \/ ReopenManager
  <2>1. /\ UNCHANGED <<fresh, disk, batch, cand, built>>
        /\ buffer' = {} /\ segments' = Loaded
    BY <1>12 DEF Restart, ReopenManager, LoadSegments, workerVars
  <2> QED  BY <2>1, LoadedSubmitted DEF SubmittedOnce
<1>13. CASE UNCHANGED vars
  BY <1>13 DEF vars, workerVars, SubmittedOnce
<1> QED
  BY <1>1, <1>2, <1>3, <1>4, <1>5, <1>6, <1>7, <1>8, <1>9, <1>10, <1>11,
     <1>12, <1>13 DEF Next, WorkerStep

-----------------------------------------------------------------------------
(* What is in memory is not on disk.                                        *)

LEMMA VolatileMember ==
  ASSUME NEW d
  PROVE  d \in Volatile <=> up /\ (d \in buffer \/ \E w \in Workers : d \in batch[w])
  BY DEF Volatile

\* While nobody writes, memory is the buffer; while a worker does, its batch.
LEMMA VolatileIs ==
  ASSUME BatchesApart, up
  PROVE  /\ ~BufferLocked => Volatile = buffer
         /\ \A w \in Workers : pc[w] = "writing" => Volatile = batch[w]
  BY VolatileMember DEF BatchesApart, BufferLocked

LEMMA VolatileWas ==
  ASSUME BatchesApart', up'
  PROVE  /\ ~BufferLocked' => Volatile' = buffer'
         /\ \A w \in Workers : pc'[w] = "writing" => Volatile' = batch'[w]
<1> DEFINE members == {batch'[w] : w \in Workers}
<1>1. Volatile' = buffer' \cup UNION members
  BY DEF Volatile
<1> QED  BY <1>1 DEF BatchesApart, BufferLocked

LEMMA VolatileSame ==
  ASSUME UNCHANGED <<up, buffer>>, \A w \in Workers : batch'[w] = batch[w]
  PROVE  Volatile' = Volatile
  BY DEF Volatile

\* A worker that is not writing has no batch to let go of.
LEMMA FinishKeepsBatches ==
  ASSUME IInv, BatchesApart, NEW w \in Workers, Finish(w), pc[w] # "writing"
  PROVE  \A v \in Workers : batch'[v] = batch[v]
<1>1. batch[w] = {}
  BY DEF BatchesApart
<1> QED  BY <1>1 DEF Finish, IInv, TypeOK

\* Only what it held before, or what it is given, gets into a directory, and
\* memory does not grow.
LEMMA MemoryWrites ==
  ASSUME IInv, MemoryApart, Volatile' \subseteq Volatile, NEW w \in Workers, NEW d,
         disk' = [disk EXCEPT ![dirId[w]] = d],
         d.docs \cap Volatile' = {}
  PROVE  MemoryApart'
<1>1. \A i \in Ids : disk'[i] = disk[i] \/ disk'[i] = d
  BY DEF IInv, TypeOK
<1> QED  BY <1>1 DEF MemoryApart

\* A merge reads what is served, and that is on disk.
LEMMA MergeReadsDisk ==
  ASSUME IInv, MemoryApart, NEW w \in Workers, pc[w] = "merging"
  PROVE  Output(w).docs \cap Volatile = {}
<1>1. Output(w).docs = DocsOf(cand[w])
  BY DEF Output, MergeInput, Built
<1>2. CASE up
  <2>1. DocsOf(cand[w]) \subseteq Served
    <3>1. \A c \in cand[w] : c.docs \subseteq Served
      BY <1>2 DEF IInv, CandidatesCovered, HasCand
    <3> QED  BY <3>1, DocsOfMember
  <2>2. \A s \in segments : s.docs \cap Volatile = {}
    BY <1>2, HeldFacts DEF MemoryApart
  <2> QED  BY <1>1, <2>1, <2>2, DocsOfMember DEF Served
<1>3. CASE ~up
  BY <1>3 DEF Volatile
<1> QED  BY <1>2, <1>3

\* A write that ends early leaves what it was writing or what was there.
LEMMA StopsEarlyLeaves ==
  ASSUME IInv, NEW w \in Workers, StopsEarly(w)
  PROVE  \E d : /\ disk' = [disk EXCEPT ![dirId[w]] = d]
                /\ \/ d.docs \subseteq disk[dirId[w]].docs
                   \/ Building(w) /\ d.docs \subseteq Output(w).docs
<1>1. CASE Building(w)
  <2>1. PICK n \in 0..4, cut \in BOOLEAN :
          disk' = [disk EXCEPT ![dirId[w]] = Interrupted(disk[dirId[w]], Output(w), n, cut)]
    BY <1>1 DEF StopsEarly, Building
  <2>2. Interrupted(disk[dirId[w]], Output(w), n, cut).docs
          \in {Output(w).docs, {}, disk[dirId[w]].docs}
    BY DEF Interrupted
  <2> QED  BY <1>1, <2>1, <2>2
<1>2. CASE pc[w] = "remove"
  <2>1. PICK left \in SUBSET Files :
          disk' = [disk EXCEPT ![dirId[w]] = Remains(disk[dirId[w]], left)]
    BY <1>2 DEF StopsEarly, Building
  <2>2. Remains(disk[dirId[w]], left).docs \in {{}, disk[dirId[w]].docs}
    BY DEF Remains
  <2> QED  BY <2>1, <2>2
<1> QED  BY <1>1, <1>2 DEF StopsEarly

LEMMA MemoryInit == Init => MemoryApart
  BY DEF Init, MemoryApart, AbsentDir

LEMMA MemoryStep ==
  ASSUME IInv, BatchesApart, BatchesApart', SubmittedOnce, MemoryApart, [Next]_vars
  PROVE  MemoryApart'
<1>1. ASSUME UNCHANGED disk, Volatile' \subseteq Volatile PROVE MemoryApart'
  BY <1>1 DEF MemoryApart
<1>2. ASSUME NEW w \in Workers, NEW D \in Batches, Insert(w, D)
      PROVE  MemoryApart'
  <2>1. up /\ up' /\ ~BufferLocked /\ ~BufferLocked'
    BY <1>2 DEF Insert, BufferLocked, Goto, IInv, TypeOK
  <2>2. Volatile' \subseteq Volatile \cup D
    BY <1>2, <2>1, VolatileIs, VolatileWas DEF Insert
  <2>3. \A i \in Ids : disk[i].docs \cap D = {}
    BY DEF SubmittedOnce, Batches
  <2>4. UNCHANGED disk
    BY <1>2 DEF Insert
  <2> QED  BY <2>2, <2>3, <2>4 DEF MemoryApart
<1>3. ASSUME NEW k \in Keys, DeleteDocument(k)
      PROVE  MemoryApart'
  <2>1. up /\ up' /\ ~BufferLocked /\ ~BufferLocked' /\ UNCHANGED disk
    BY <1>3 DEF DeleteDocument, BufferLocked, workerVars
  <2> QED  BY <1>1, <1>3, <2>1, VolatileIs, VolatileWas DEF DeleteDocument
<1>4. ASSUME NEW w \in Workers, FlushBegin(w)
      PROVE  MemoryApart'
  <2>1. /\ up /\ up' /\ ~BufferLocked /\ UNCHANGED disk
        /\ pc'[w] = "writing" /\ batch'[w] = buffer
    BY <1>4 DEF FlushBegin, BufferLocked, Goto, IInv, TypeOK
  <2> QED  BY <1>1, <2>1, VolatileIs, VolatileWas
<1>5. ASSUME NEW w \in Workers, FlushDone(w)
      PROVE  MemoryApart'
  <2>1. /\ up /\ up' /\ pc[w] = "writing" /\ UNCHANGED buffer
        /\ disk' = [disk EXCEPT ![dirId[w]] = Output(w)]
    BY <1>5 DEF FlushDone, BuildDone
  <2>2. \A v \in Workers : pc'[v] # "writing"
    BY <1>5, <2>1 DEF FlushDone, BuildDone, Finish, Goto, BatchesApart, IInv, TypeOK
  <2>3. Volatile' = {}
    BY <2>1, <2>2, VolatileWas DEF BatchesApart, BufferLocked
  <2> QED  BY <2>1, <2>3, MemoryWrites
<1>6. ASSUME NEW w \in Workers, MergeDone(w)
      PROVE  MemoryApart'
  <2>1. /\ pc[w] = "merging" /\ UNCHANGED <<up, buffer>>
        /\ disk' = [disk EXCEPT ![dirId[w]] = Output(w)]
        /\ Finish(w) \/ batch' = [batch EXCEPT ![w] = {}]
    BY <1>6 DEF MergeDone, BuildDone
  <2>2. \A v \in Workers : batch'[v] = batch[v]
    <3>1. batch[w] = {}
      BY <2>1 DEF BatchesApart
    <3> QED  BY <2>1, <3>1, FinishKeepsBatches DEF IInv, TypeOK
  <2>3. Volatile' = Volatile
    BY <2>1, <2>2, VolatileSame
  <2> QED  BY <2>1, <2>3, MergeReadsDisk, MemoryWrites
<1>7. ASSUME NEW w \in Workers, RemoveDone(w)
      PROVE  MemoryApart'
  <2>1. /\ UNCHANGED <<up, buffer, batch>>
        /\ disk' = [disk EXCEPT ![dirId[w]] = AbsentDir]
    BY <1>7 DEF RemoveDone
  <2> QED  BY <2>1, VolatileSame, MemoryWrites, AbsentDirType
<1>8. ASSUME NEW w \in Workers, AddSegment(w) \/ SelectMerge(w) \/ SwapSegments(w)
                                 \/ CleanupNext(w)
      PROVE  MemoryApart'
  <2>1. UNCHANGED <<up, buffer, batch, disk>>
    BY <1>8 DEF AddSegment, SelectMerge, SwapSegments, CleanupNext
  <2> QED  BY <1>1, <2>1, VolatileSame
<1>9. ASSUME NEW w \in Workers,
             FlushNothing(w) \/ CheckMerge(w) \/ MergeNothing(w)
               \/ MergeUnreadable(w) \/ CleanupDone(w) \/ RemoveRaced(w)
      PROVE  MemoryApart'
  <2>1. /\ pc[w] # "writing" /\ UNCHANGED <<up, buffer, disk>>
        /\ Finish(w) \/ UNCHANGED batch
    BY <1>9 DEF FlushNothing, CheckMerge, MergeNothing, MergeUnreadable, CleanupDone,
       RemoveRaced
  <2>2. \A v \in Workers : batch'[v] = batch[v]
    BY <2>1, FinishKeepsBatches
  <2> QED  BY <1>1, <2>1, <2>2, VolatileSame
<1>10. ASSUME NEW w \in Workers, IoError(w) \/ Halt(w)
       PROVE  MemoryApart'
  <2>1. Finish(w) /\ UNCHANGED <<up, buffer>> /\ (StopsEarly(w) \/ UNCHANGED disk)
    BY <1>10 DEF IoError, Halt
  <2>2. \A v \in Workers : batch'[v] \subseteq batch[v]
    BY <2>1 DEF Finish, IInv, TypeOK
  <2>3. Volatile' \subseteq Volatile
    <3>1. Volatile' = IF up' THEN buffer' \cup UNION {batch'[v] : v \in Workers} ELSE {}
      BY DEF Volatile
    <3> QED  BY <2>1, <2>2, <3>1 DEF Volatile
  <2>4. ASSUME StopsEarly(w) PROVE MemoryApart'
    <3>1. PICK d : /\ disk' = [disk EXCEPT ![dirId[w]] = d]
                   /\ \/ d.docs \subseteq disk[dirId[w]].docs
                      \/ Building(w) /\ d.docs \subseteq Output(w).docs
      BY <2>4, StopsEarlyLeaves
    <3>2. CASE d.docs \subseteq disk[dirId[w]].docs
      BY <2>3, <3>1, <3>2, MemoryWrites DEF MemoryApart, IInv, TypeOK
    <3>3. CASE pc[w] = "merging" /\ d.docs \subseteq Output(w).docs
      BY <2>3, <3>1, <3>3, MergeReadsDisk, MemoryWrites
    <3>4. CASE pc[w] = "writing" /\ ~up
      BY <2>1, <2>3, <3>1, <3>4, MemoryWrites DEF Volatile
    <3>5. CASE pc[w] = "writing" /\ up
      <4>1. \A v \in Workers : pc'[v] # "writing"
        BY <2>1, <3>5 DEF Finish, Goto, BatchesApart, IInv, TypeOK
      <4>2. Volatile' = {}
        BY <2>1, <3>5, <4>1, VolatileWas DEF BatchesApart, BufferLocked
      <4> QED  BY <3>1, <4>2, MemoryWrites
    <3> QED  BY <3>1, <3>2, <3>3, <3>4, <3>5 DEF Building
  <2> QED  BY <1>1, <2>1, <2>3, <2>4
<1>11. CASE Crash
  BY <1>1, <1>11 DEF Crash, Volatile
<1>12. CASE Restart \/ ReopenManager
  <2>1. /\ up' /\ buffer' = {} /\ UNCHANGED disk
        /\ \A w \in Workers : pc'[w] # "writing"
    BY <1>12 DEF Restart, ReopenManager, LoadSegments, workerVars
  <2>2. Volatile' = {}
    BY <2>1, VolatileWas DEF BufferLocked
  <2> QED  BY <1>1, <2>1, <2>2
<1>13. CASE UNCHANGED vars
  BY <1>1, <1>13, VolatileSame DEF vars, workerVars
<1> QED
  BY <1>2, <1>3, <1>4, <1>5, <1>6, <1>7, <1>8, <1>9, <1>10, <1>11, <1>12, <1>13
  DEF Next, WorkerStep

\* The invariant the refinement rests on.
THEOREM RefinementInvariant == Spec => []RInv
<1>1. Init => RInv
  BY InitIInv, BatchesInit, SubmittedInit, MemoryInit DEF RInv
<1>2. RInv /\ [Next]_vars => RInv'
  BY StepIInv, BatchesStep, SubmittedStep, MemoryStep DEF RInv
<1> QED  BY <1>1, <1>2, PTL DEF Spec

-----------------------------------------------------------------------------
(* The refinement mapping.                                                  *)

LEMMA DurableSame == UNCHANGED disk => Durable' = Durable
  BY LoadableMember DEF Durable, Loaded, OpenableIds

LEMMA DurableMember ==
  /\ \A x : x \in Durable <=> \E i \in Ids : Openable(disk[i]) /\ x \in disk[i].docs
  /\ \A x : x \in Durable' <=> \E i \in Ids : Openable(disk'[i]) /\ x \in disk'[i].docs
  BY LoadableMember DEF Durable, Loaded, OpenableIds

\* What a completed build adds is what it wrote, if that opens.
LEMMA DurableAfterBuild ==
  ASSUME IInv, NEW w \in Workers, Building(w), NEW d,
         disk' = [disk EXCEPT ![dirId[w]] = d]
  PROVE  Durable' = Durable \cup (IF Openable(d) THEN d.docs ELSE {})
<1>1. ~Openable(disk[dirId[w]]) /\ dirId[w] \in Ids
  BY DEF IInv, BuildsUnopenable, TypeOK
<1>2. disk'[dirId[w]] = d /\ \A i \in Ids : i # dirId[w] => disk'[i] = disk[i]
  BY <1>1 DEF IInv, TypeOK
<1>3. \A x : x \in Durable <=> \E i \in Ids : Openable(disk[i]) /\ x \in disk[i].docs
  BY DurableMember
<1>4. \A x : x \in Durable' <=> \E i \in Ids : Openable(disk'[i]) /\ x \in disk'[i].docs
  BY DurableMember
<1>5. ASSUME NEW x
      PROVE  x \in Durable' <=> x \in Durable \/ (Openable(d) /\ x \in d.docs)
  BY <1>1, <1>2, <1>3, <1>4
<1> QED  BY <1>5

LEMMA DurableSubmitted ==
  ASSUME TypeOK, SubmittedOnce
  PROVE  Durable \subseteq Docs \ fresh
<1>1. \A i \in Ids : disk[i].docs \subseteq Docs \ fresh
  BY DEF TypeOK, Dir, SubmittedOnce
<1> QED  BY <1>1, LoadableMember DEF Durable, Loaded, OpenableIds

LEMMA RefinesInit == Init => Store!DInit
<1> SUFFICES ASSUME Init PROVE Store!DInit
  OBVIOUS
<1>1. Volatile = {}
  BY DEF Init, IdleWorkers, Volatile
<1>2. \A i \in Ids : ~Openable(disk[i])
  BY DEF Init, Openable, AbsentDir, Files
<1>3. Durable = {}
  BY <1>2, LoadableMember DEF Durable, Loaded, OpenableIds
<1>4. Served = {}
  BY DEF Init, Served, DocsOf
<1> QED  BY <1>1, <1>3, <1>4 DEF Init, Store!DInit

\* Steps of one worker that DocStore does not see.
LEMMA Stutters ==
  ASSUME UNCHANGED <<up, fresh, segments>>, Volatile' = Volatile, Durable' = Durable
  PROVE  UNCHANGED Store!dvars
  BY DEF Store!dvars, Served

LEMMA InsertRefines ==
  ASSUME RInv, RInv', NEW w \in Workers, NEW D \in Batches, Insert(w, D)
  PROVE  Store!DNext
<1>1. up /\ up' /\ ~BufferLocked /\ ~BufferLocked'
  BY DEF Insert, BufferLocked, Goto, RInv, IInv, TypeOK
<1>2. Volatile = buffer /\ Volatile' = buffer'
  BY <1>1, VolatileIs, VolatileWas DEF RInv
<1>3. \A v : KeyOf[v] \notin Store!KeysOf(D) <=> \A d \in D : KeyOf[v] # KeyOf[d]
  BY DEF Store!KeysOf
<1>4. Volatile' = {v \in Volatile : KeyOf[v] \notin Store!KeysOf(D)} \cup D
  BY <1>2, <1>3 DEF Insert
<1>5. Durable' = Durable /\ Served' = Served
  BY DurableSame DEF Insert, Served
<1>6. D \in SUBSET fresh
  BY DEF Batches
<1>7. Store!Accept(D)
  BY <1>1, <1>4, <1>5, <1>6 DEF Insert, Store!Accept
<1> QED  BY <1>6, <1>7 DEF Store!DNext

LEMMA DeleteRefines ==
  ASSUME RInv, RInv', NEW k \in Keys, DeleteDocument(k)
  PROVE  Store!DNext
<1>1. up /\ up' /\ ~BufferLocked /\ ~BufferLocked'
  BY DEF DeleteDocument, BufferLocked, workerVars
<1>2. Volatile = buffer /\ Volatile' = buffer'
  BY <1>1, VolatileIs, VolatileWas DEF RInv
<1>3. Durable' = Durable /\ Served' = Served
  BY DurableSame DEF DeleteDocument, Served
<1>4. Store!Forget(k)
  BY <1>1, <1>2, <1>3 DEF DeleteDocument, Store!Forget
<1> QED  BY <1>4 DEF Store!DNext

\* Draining the buffer moves memory from the buffer to a batch.
LEMMA FlushBeginRefines ==
  ASSUME RInv, RInv', NEW w \in Workers, FlushBegin(w)
  PROVE  UNCHANGED Store!dvars
<1>1. up /\ up' /\ ~BufferLocked
  BY DEF FlushBegin, BufferLocked
<1>2. pc'[w] = "writing" /\ batch'[w] = buffer
  BY DEF FlushBegin, Goto, RInv, IInv, TypeOK
<1>3. Volatile = buffer /\ Volatile' = batch'[w]
  BY <1>1, <1>2, VolatileIs, VolatileWas DEF RInv
<1>4. UNCHANGED <<up, fresh, segments, disk>>
  BY DEF FlushBegin
<1> QED  BY <1>2, <1>3, <1>4, DurableSame, Stutters

\* A flush commits its batch, or cannot open what it wrote and loses it.
LEMMA FlushDoneRefines ==
  ASSUME RInv, RInv', NEW w \in Workers, FlushDone(w)
  PROVE  Store!DNext
<1>1. /\ up /\ up' /\ pc[w] = "writing" /\ Building(w)
      /\ UNCHANGED <<up, fresh, buffer, segments>>
      /\ disk' = [disk EXCEPT ![dirId[w]] = Output(w)]
  BY DEF FlushDone, BuildDone, Building
<1>2. Output(w).docs = batch[w]
  BY <1>1 DEF Output, FlushInput, Built
<1>3. Volatile = batch[w] /\ batch[w] # {} /\ buffer = {}
  BY <1>1, VolatileIs DEF RInv, BatchesApart
<1>4. \A v \in Workers : pc'[v] # "writing"
  BY <1>1 DEF FlushDone, BuildDone, Finish, Goto, RInv, BatchesApart, IInv, TypeOK
<1>5. Volatile' = {}
  BY <1>1, <1>3, <1>4, VolatileWas DEF RInv, BufferLocked
<1>6. Durable' = Durable \cup (IF Openable(Output(w)) THEN batch[w] ELSE {})
  BY <1>1, <1>2, DurableAfterBuild DEF RInv
<1>7. Served' = Served
  BY <1>1 DEF Served
<1>8. CASE Openable(Output(w))
  <2>1. Store!Commit
    BY <1>1, <1>3, <1>5, <1>6, <1>7, <1>8 DEF Store!Commit
  <2> QED  BY <2>1 DEF Store!DNext
<1>9. CASE ~Openable(Output(w))
  <2>1. Store!Lose({})
    BY <1>1, <1>5, <1>6, <1>7, <1>9 DEF Store!Lose, Store!MayAppear
  <2> QED  BY <2>1 DEF Store!DNext
<1> QED  BY <1>8, <1>9

\* A merged segment holds nothing that was not on disk.
LEMMA MergeDoneRefines ==
  ASSUME RInv, RInv', NEW w \in Workers, MergeDone(w)
  PROVE  UNCHANGED Store!dvars
<1>1. /\ up /\ pc[w] = "merging" /\ Building(w) /\ HasCand(w)
      /\ UNCHANGED <<up, fresh, buffer, segments>>
      /\ disk' = [disk EXCEPT ![dirId[w]] = Output(w)]
  BY DEF MergeDone, BuildDone, Building, HasCand
<1>2. Output(w).docs = DocsOf(cand[w])
  BY <1>1 DEF Output, MergeInput, Built
<1>3. DocsOf(cand[w]) \subseteq Durable
  <2>1. \A c \in cand[w] : c.docs \subseteq Served
    BY <1>1 DEF RInv, IInv, CandidatesCovered
  <2>2. DocsOf(cand[w]) \subseteq Served
    BY <2>1, DocsOfMember
  <2> QED  BY <1>1, <2>2, ServedIsDurable DEF RInv
<1>4. Durable' = Durable
  BY <1>1, <1>2, <1>3, DurableAfterBuild DEF RInv
<1>5. batch[w] = {}
  BY <1>1 DEF RInv, BatchesApart
<1>6. \A v \in Workers : batch'[v] = batch[v]
  BY <1>5 DEF MergeDone, BuildDone, Finish, RInv, IInv, TypeOK
<1> QED  BY <1>1, <1>4, <1>6, VolatileSame, Stutters

\* Adding a segment to the list, or putting a merged one in the place of its
\* candidates, makes the documents of the new segment searchable.
LEMMA PublishRefines ==
  ASSUME RInv, RInv', NEW w \in Workers, AddSegment(w) \/ SwapSegments(w)
  PROVE  Store!DNext
<1>1. /\ up /\ pc[w] \in {"add", "swap"}
      /\ UNCHANGED <<up, fresh, buffer, disk, batch>>
  BY DEF AddSegment, SwapSegments
<1>2. built[w].docs \subseteq Durable
  <2>1. /\ dirId[w] \in Ids
        /\ Openable(disk[dirId[w]]) /\ built[w] = Opened(dirId[w], disk[dirId[w]])
    BY <1>1, BuiltFacts DEF RInv, IInv, TypeOK
  <2>2. built[w].docs = disk[dirId[w]].docs
    BY <2>1 DEF Opened
  <2> QED  BY <2>1, <2>2, LoadableMember DEF Durable, Loaded, OpenableIds
<1>3. Served' \subseteq Served \cup built[w].docs /\ built[w].docs \subseteq Served'
  <2>1. built[w] \in segments' /\ segments' \subseteq segments \cup {built[w]}
    BY DEF AddSegment, SwapSegments
  <2> QED  BY <2>1, DocsOfMember DEF Served
<1>4. Served \subseteq Served'
  <2>1. CASE AddSegment(w)
    BY <2>1, DocsOfMember DEF AddSegment, Served
  <2>2. CASE SwapSegments(w)
    BY <2>2, SwapServes DEF RInv
  <2> QED  BY <2>1, <2>2
<1>5. Volatile' = Volatile /\ Durable' = Durable
  BY <1>1, VolatileSame, DurableSame
<1>6. Store!Publish(built[w].docs)
  BY <1>1, <1>2, <1>3, <1>4, <1>5 DEF Store!Publish
<1> QED  BY <1>2, <1>6 DEF Store!DNext

\* Removing a directory takes away only what is also elsewhere.
LEMMA RemoveDoneRefines ==
  ASSUME RInv, RInv', NEW w \in Workers, RemoveDone(w)
  PROVE  UNCHANGED Store!dvars
<1>1. UNCHANGED <<up, fresh, buffer, segments, batch>>
  BY DEF RemoveDone
<1>2. \A i \in Ids : Openable(disk'[i]) => disk'[i] = disk[i]
  <2>1. ~Openable(AbsentDir)
    BY DEF Openable, AbsentDir, Files
  <2> QED  BY <2>1 DEF RemoveDone, RInv, IInv, TypeOK
<1>3. Durable' \subseteq Durable
  <2>1. \A x : x \in Durable <=> \E i \in Ids : Openable(disk[i]) /\ x \in disk[i].docs
    BY LoadableMember DEF Durable, Loaded, OpenableIds
  <2>2. \A x : x \in Durable' <=> \E i \in Ids : Openable(disk'[i]) /\ x \in disk'[i].docs
    BY LoadableMember DEF Durable, Loaded, OpenableIds
  <2> QED  BY <1>2, <2>1, <2>2
<1>4. Durable \subseteq Durable'
  BY StepKeepsDurable DEF RInv, Next, WorkerStep
<1> QED  BY <1>1, <1>3, <1>4, VolatileSame, Stutters

\* An i/o error loses the batch being written; it and a kill may leave
\* readable whatever the directory held before.
LEMMA StopsEarlyRefines ==
  ASSUME RInv, RInv', NEW w \in Workers, IoError(w) \/ Halt(w)
  PROVE  Store!DNext \/ UNCHANGED Store!dvars
<1>1. /\ Finish(w) /\ UNCHANGED <<up, fresh, buffer, segments>>
      /\ WorkerStep(w) \/ IoError(w)
  BY DEF IoError, Halt, WorkerStep
<1> DEFINE new == Durable' \ Durable
<1>2. Durable' = Durable \cup new
  <2>1. Durable \subseteq Durable'
    BY <1>1, StepKeepsDurable DEF RInv, Next
  <2> QED  BY <2>1
<1>3. new \in SUBSET (Docs \ fresh) /\ Store!MayAppear(new)
  <2>1. Durable' \subseteq Docs \ fresh'
    <3>1. \A i \in Ids : disk'[i].docs \subseteq Docs \ fresh'
      BY DEF RInv, IInv, TypeOK, Dir, SubmittedOnce
    <3>2. \A x : x \in Durable' <=> \E i \in Ids : Openable(disk'[i]) /\ x \in disk'[i].docs
      BY LoadableMember DEF Durable, Loaded, OpenableIds
    <3> QED  BY <3>1, <3>2
  <2> QED  BY <1>1, <2>1 DEF Store!MayAppear
<1>4. Served' = Served
  BY <1>1 DEF Served
<1> HIDE DEF new
<1>5. CASE Volatile' = Volatile
  <2>1. new \cap Volatile = {}
    <3>1. \A x : x \in Durable' <=> \E i \in Ids : Openable(disk'[i]) /\ x \in disk'[i].docs
      BY LoadableMember DEF Durable, Loaded, OpenableIds
    <3> QED  BY <1>2, <1>5, <3>1 DEF RInv, MemoryApart
  <2>2. Store!Resurface(new)
    BY <1>1, <1>2, <1>3, <1>4, <1>5, <2>1 DEF Store!Resurface
  <2> QED  BY <1>3, <2>2 DEF Store!DNext
<1>6. CASE up /\ Volatile' = {}
  <2>1. Store!Lose(new)
    BY <1>1, <1>2, <1>3, <1>4, <1>6 DEF Store!Lose
  <2> QED  BY <1>3, <2>1 DEF Store!DNext
<1>7. CASE ~up
  BY <1>1, <1>5, <1>7 DEF Volatile
<1>8. CASE up /\ pc[w] = "writing"
  <2>1. \A v \in Workers : pc'[v] # "writing"
    BY <1>1, <1>8 DEF Finish, Goto, RInv, BatchesApart, IInv, TypeOK
  <2>2. Volatile' = {}
    BY <1>1, <1>8, <2>1, VolatileWas DEF RInv, BatchesApart, BufferLocked
  <2> QED  BY <1>6, <1>8, <2>2
<1>9. CASE pc[w] # "writing"
  BY <1>1, <1>5, <1>9, FinishKeepsBatches, VolatileSame DEF RInv
<1> QED  BY <1>7, <1>8, <1>9

LEMMA CrashRefines ==
  ASSUME Crash
  PROVE  Store!DNext
<1>1. up /\ up' = FALSE /\ UNCHANGED <<fresh, disk>> /\ segments' = {}
  BY DEF Crash
<1>2. Volatile' = {} /\ Served' = {} /\ Durable' = Durable
  BY <1>1, DurableSame DEF Volatile, Served, DocsOf
<1>3. Store!Stop
  BY <1>1, <1>2 DEF Store!Stop
<1> QED  BY <1>3 DEF Store!DNext

LEMMA StartRefines ==
  ASSUME RInv, RInv', Restart \/ ReopenManager
  PROVE  Store!DNext
<1>1. /\ LoadSegments /\ up' /\ buffer' = {} /\ UNCHANGED <<fresh, disk>>
      /\ \A w \in Workers : pc'[w] # "writing"
  BY DEF Restart, ReopenManager, LoadSegments, workerVars
<1>2. Volatile' = {}
  BY <1>1, VolatileWas DEF RInv, BufferLocked
<1>3. Durable' = Durable
  BY <1>1, DurableSame
<1>4. Served' = Durable
  BY <1>1 DEF LoadSegments, Served, Durable
<1>5. up' = TRUE
  BY <1>1 DEF LoadSegments
<1>6. Store!Start
  BY <1>1, <1>2, <1>3, <1>4, <1>5 DEF Store!Start
<1> QED  BY <1>6 DEF Store!DNext

\* Steps that touch neither memory, disk nor the segment list.
LEMMA QuietRefines ==
  ASSUME RInv, NEW w \in Workers,
         FlushNothing(w) \/ CheckMerge(w) \/ MergeNothing(w) \/ SelectMerge(w)
           \/ MergeUnreadable(w) \/ CleanupNext(w) \/ CleanupDone(w) \/ RemoveRaced(w)
  PROVE  UNCHANGED Store!dvars
<1>1. /\ pc[w] # "writing" /\ UNCHANGED <<up, fresh, buffer, segments, disk>>
      /\ Finish(w) \/ UNCHANGED batch
  BY DEF FlushNothing, CheckMerge, MergeNothing, SelectMerge, MergeUnreadable,
     CleanupNext, CleanupDone, RemoveRaced
<1>2. \A v \in Workers : batch'[v] = batch[v]
  BY <1>1, FinishKeepsBatches DEF RInv
<1> QED  BY <1>1, <1>2, VolatileSame, DurableSame, Stutters

LEMMA RefinesStep ==
  RInv /\ RInv' /\ [Next]_vars => [Store!DNext]_(Store!dvars)
<1> SUFFICES ASSUME RInv, RInv', [Next]_vars
             PROVE  Store!DNext \/ UNCHANGED Store!dvars
  OBVIOUS
<1>1. ASSUME NEW w \in Workers, WorkerStep(w) \/ IoError(w)
      PROVE  Store!DNext \/ UNCHANGED Store!dvars
  BY <1>1, FlushBeginRefines, FlushDoneRefines, MergeDoneRefines, PublishRefines,
     RemoveDoneRefines, StopsEarlyRefines, QuietRefines DEF WorkerStep
<1>2. CASE UNCHANGED vars
  BY <1>2, VolatileSame, DurableSame, Stutters DEF vars, workerVars
<1> QED
  BY <1>1, <1>2, InsertRefines, DeleteRefines, CrashRefines, StartRefines DEF Next

\* Every behaviour of the segment store is one of the document store: memory
\* is committed as a whole or lost, what is durable stays so, and only durable
\* documents are served.
THEOREM Refines == Spec => ImplementsDocStore
  BY RefinementInvariant, RefinesInit, RefinesStep, PTL
  DEF Spec, ImplementsDocStore, Store!DSpec

-----------------------------------------------------------------------------
(* One request at a time, without kills and i/o errors.  None of this      *)
(* holds of overlapping requests.                                          *)

LEMMA SerialInit == Init => SerialInv
<1> SUFFICES ASSUME Init PROVE SerialInv
  OBVIOUS
<1>1. \A w \in Workers : pc[w] = "idle"
  BY DEF Init, IdleWorkers
<1>2. Held = {}
  BY <1>1 DEF Init, Held, Unpublished
<1>3. OpenableIds = {}
  BY DEF Init, OpenableIds, Openable, AbsentDir, Files
<1>4. CountKept
  BY <1>1, FS_EmptySet, MergePolicyAssumption DEF Init, CountKept
<1> QED  BY <1>1, <1>2, <1>3, <1>4 DEF Init, SerialInv, HeldComplete,
         SegmentsApart, CandidatesServed, LeftoversKnown, Removing

\* Steps that leave the directories and the segment list alone, and move a
\* worker between the places where it holds nothing.
LEMMA SerialQuiet ==
  ASSUME SerialInv, NoFaults, UNCHANGED <<up, segments, disk>>,
         \A w \in Workers :
           \/ pc'[w] = pc[w] /\ cand'[w] = cand[w] /\ dirId'[w] = dirId[w]
              /\ built'[w] = built[w]
           \/ /\ pc[w] \in {"idle", "flush", "check"}
              /\ pc'[w] \in {"idle", "flush", "writing"}
              /\ pc[w] = "check" => Cardinality(segments) # MinMergeSegments
           \/ pc[w] = "check" /\ pc'[w] = "select"
              /\ Cardinality(segments) = MinMergeSegments
           \/ pc[w] = "cleanup" /\ cand[w] = {} /\ pc'[w] = "idle"
  PROVE  SerialInv'
<1>1. Held' = Held
  BY DEF Held, Unpublished
<1>2. HeldComplete'
  BY <1>1 DEF SerialInv, HeldComplete
<1>3. SegmentsApart'
  BY DEF SerialInv, SegmentsApart, Served
<1>4. CandidatesServed'
  BY DEF SerialInv, CandidatesServed
<1>5. LeftoversKnown'
  <2>1. OpenableIds' = OpenableIds
    BY DEF OpenableIds
  <2>2. ASSUME NEW w \in Workers, NEW i,
               pc[w] \in {"cleanup", "remove"}, i \in IdsOf(cand[w])
        PROVE  pc'[w] = pc[w] /\ cand'[w] = cand[w]
    BY <2>2 DEF IdsOf
  <2>3. \A w \in Workers : /\ Removing(w) => Removing(w)' /\ dirId'[w] = dirId[w]
                           /\ Removing(w)' => Removing(w) /\ dirId'[w] = dirId[w]
    BY DEF Removing
  <2> QED  BY <1>1, <2>1, <2>2, <2>3 DEF SerialInv, LeftoversKnown
<1>6. CountKept'
  BY DEF SerialInv, CountKept
<1> QED  BY <1>2, <1>3, <1>4, <1>5, <1>6 DEF SerialInv

\* The worker publishes its segment.
LEMMA SerialAdd ==
  ASSUME RInv, TypeOK', SerialInv, OneAtATime, NoFaults,
         NEW w \in Workers, AddSegment(w)
  PROVE  SerialInv'
<1>1. /\ up /\ up' /\ pc[w] = "add" /\ pc'[w] = "check"
      /\ segments' = segments \cup {built[w]}
      /\ UNCHANGED <<disk, cand, dirId>>
  BY DEF AddSegment, Goto, RInv, IInv, TypeOK
<1>2. \A v \in Workers : v = w
  BY DEF OneAtATime
<1>3. Held = segments'
  BY <1>1, <1>2 DEF Held, Unpublished
<1>4. Held' = segments'
  BY <1>1, <1>2 DEF Held, Unpublished
<1>5. HeldComplete'
  BY <1>3, <1>4 DEF SerialInv, HeldComplete
<1>6. SegmentsApart'
  <2>1. \A s \in segments : built[w].docs \cap s.docs = {}
    BY <1>1, DocsOfMember DEF SerialInv, SegmentsApart, Served
  <2> QED  BY <1>1, <1>2, <2>1 DEF SerialInv, SegmentsApart
<1>7. CandidatesServed'
  BY <1>1, <1>2 DEF CandidatesServed
<1>8. LeftoversKnown'
  BY <1>1, <1>2, <1>3, <1>4 DEF SerialInv, LeftoversKnown, Removing, OpenableIds
<1>9. CountKept'
  <2>1. IsFiniteSet(segments) /\ Cardinality(segments) < MinMergeSegments
    BY <1>1, <1>2, FS_CardinalityType, MergePolicyAssumption DEF SerialInv, CountKept
  <2>2. /\ IsFiniteSet(segments')
        /\ Cardinality(segments') \in {Cardinality(segments), Cardinality(segments) + 1}
    BY <1>1, <2>1, FS_AddElement
  <2>3. Cardinality(segments') <= MinMergeSegments
    BY <2>1, <2>2, FS_CardinalityType, MergePolicyAssumption
  <2> QED  BY <1>1, <1>2, <2>2, <2>3 DEF CountKept
<1> QED  BY <1>1, <1>5, <1>6, <1>7, <1>8, <1>9 DEF SerialInv

\* What is built from documents with terms opens with all of them.
LEMMA OpenedBuilt ==
  ASSUME NEW i, NEW D, D # {}
  PROVE  /\ Openable(Built(D, TRUE))
         /\ Opened(i, Built(D, TRUE)) =
              [id |-> i, docs |-> D, index |-> "full", counted |-> TRUE]
<1> DEFINE b == Built(D, TRUE)
<1>1. /\ b.files["postings"] = "full" /\ b.files["stored"] = "full"
      /\ b.files["terms"] = "full" /\ b.files["meta"] = "full"
      /\ b.docs = D
  BY DEF Built
<1> HIDE DEF b
<1>2. Openable(b)
  BY <1>1 DEF Openable
<1>3. IndexOf(b) = "full"
  BY <1>1 DEF IndexOf
<1>4. Opened(i, b) = [id |-> i, docs |-> D, index |-> "full", counted |-> TRUE]
  BY <1>1, <1>3 DEF Opened
<1> QED  BY <1>2, <1>4 DEF b

\* A build that succeeds adds its segment to those held, and its directory to
\* those that open; one that fails leaves a directory that does not open.
LEMMA SerialBuilt ==
  ASSUME RInv, TypeOK', SerialInv, OneAtATime, NoFaults,
         NEW w \in Workers, NEW to \in {"add", "swap"}, pc[w] # "remove",
         UNCHANGED <<up, segments>>,
         disk' = [disk EXCEPT ![dirId[w]] = Output(w)],
         Openable(Output(w)),
         pc'[w] = to, dirId'[w] = dirId[w],
         built'[w] = Opened(dirId[w], Output(w)),
         Building(w)
  PROVE  /\ Held' = segments \cup {built'[w]}
         /\ LeftoversKnown'
<1>1. \A v \in Workers : v = w
  BY DEF OneAtATime
<1>2. Held' = segments \cup {built'[w]}
  BY <1>1 DEF Held, Unpublished
<1>3. Held = segments
  BY <1>1 DEF Held, Unpublished, Building
<1>4. \A i \in OpenableIds' : i = dirId[w] \/ i \in OpenableIds
  BY DEF OpenableIds, RInv, IInv, TypeOK
<1>5. \A i \in OpenableIds : i \in IdsOf(segments)
  BY <1>1, <1>3 DEF SerialInv, LeftoversKnown, Building, Removing
<1>6. built'[w].id = dirId[w]
  BY DEF Opened
<1>7. \A i \in OpenableIds' : i \in IdsOf(Held')
  BY <1>2, <1>4, <1>5, <1>6 DEF IdsOf
<1>8. \A v \in Workers : ~Removing(v)'
  BY <1>1 DEF Removing
<1> QED  BY <1>2, <1>7, <1>8 DEF LeftoversKnown, IdsOf

LEMMA SerialFlushDone ==
  ASSUME RInv, TypeOK', SerialInv, OneAtATime, NoFaults,
         NEW w \in Workers, FlushDone(w)
  PROVE  SerialInv'
<1>1. /\ up /\ up' /\ pc[w] = "writing" /\ Building(w)
      /\ UNCHANGED segments
      /\ disk' = [disk EXCEPT ![dirId[w]] = Output(w)]
      /\ Output(w) = Built(batch[w], batch[w] \cap Indexable # {})
  BY DEF FlushDone, BuildDone, Output, FlushInput, Building
<1>2. \A v \in Workers : v = w
  BY DEF OneAtATime
<1>3. IsFiniteSet(segments) /\ Cardinality(segments) <= MinMergeSegments
      /\ Cardinality(segments) # MinMergeSegments
  BY <1>1, <1>2 DEF SerialInv, CountKept
<1>4. CASE Openable(Output(w))
  <2>1. /\ pc'[w] = "add" /\ dirId'[w] = dirId[w]
        /\ built'[w] = Opened(dirId[w], Output(w))
    BY <1>4 DEF FlushDone, BuildDone, Goto, RInv, IInv, TypeOK
  <2>2. Held' = segments \cup {built'[w]} /\ LeftoversKnown'
    BY <1>1, <1>4, <2>1, SerialBuilt
  <2>3. batch[w] # {} /\ batch[w] \cap Indexable # {}
    BY <1>1, <1>4 DEF RInv, BatchesApart, Built, Openable, Files
  <2>4. /\ built'[w].docs = batch[w] /\ built'[w].index = "full"
        /\ built'[w].counted
    <3>1. Output(w) = Built(batch[w], TRUE)
      BY <1>1, <2>3 DEF Built
    <3>2. built'[w] = [id |-> dirId[w], docs |-> batch[w], index |-> "full",
                       counted |-> TRUE]
      BY <2>1, <2>3, <3>1, OpenedBuilt
    <3> QED  BY <3>2
  <2>5. HeldComplete'
    BY <2>2, <2>3, <2>4 DEF SerialInv, HeldComplete, Held
  <2>6. batch[w] \cap Served = {}
    <3>1. batch[w] \subseteq Volatile
      BY <1>1, VolatileMember DEF Volatile
    <3>2. ASSUME NEW s \in segments
          PROVE  s.docs \cap batch[w] = {}
      <4>1. s.id \in Ids /\ s.docs = disk[s.id].docs
        BY <1>1, HeldFacts DEF RInv
      <4> QED  BY <3>1, <4>1 DEF RInv, MemoryApart
    <3> QED  BY <3>2, DocsOfMember DEF Served
  <2>7. SegmentsApart'
    BY <1>1, <1>2, <2>1, <2>4, <2>6 DEF SerialInv, SegmentsApart, Served
  <2>8. CandidatesServed'
    BY <1>2, <2>1 DEF CandidatesServed
  <2>9. CountKept'
    BY <1>1, <1>2, <1>3, <2>1 DEF CountKept
  <2> QED  BY <1>1, <2>2, <2>5, <2>7, <2>8, <2>9 DEF SerialInv
<1>5. CASE ~Openable(Output(w))
  <2>1. pc'[w] = "idle"
    BY <1>5 DEF FlushDone, BuildDone, Goto, Finish, RInv, IInv, TypeOK
  <2>2. Held = segments /\ Held' = segments
    BY <1>1, <1>2, <2>1 DEF Held, Unpublished
  <2>3. OpenableIds' \subseteq OpenableIds
    BY <1>1, <1>5 DEF OpenableIds, RInv, IInv, TypeOK
  <2>4. LeftoversKnown'
    BY <1>1, <1>2, <2>1, <2>2, <2>3 DEF SerialInv, LeftoversKnown, Removing, IdsOf
  <2>5. HeldComplete' /\ SegmentsApart' /\ CandidatesServed'
    BY <1>1, <1>2, <2>1, <2>2
    DEF SerialInv, HeldComplete, SegmentsApart, CandidatesServed
  <2>6. CountKept'
    BY <1>1, <1>2, <1>3, <2>1 DEF CountKept
  <2> QED  BY <1>1, <2>4, <2>5, <2>6 DEF SerialInv
<1> QED  BY <1>4, <1>5

\* When it merges, the worker finds the threshold's number of segments, all of
\* them fit to merge, so that it takes at least two.
LEMMA SerialSelections ==
  ASSUME SerialInv, NoFaults, NEW w \in Workers, pc[w] = "select",
         NEW C \in Selections
  PROVE  C \subseteq segments /\ IsFiniteSet(C) /\ Cardinality(C) >= 2
<1>1. IsFiniteSet(segments) /\ Cardinality(segments) = MinMergeSegments
  BY DEF SerialInv, CountKept
<1>2. Mergeable = segments
  BY DEF Mergeable, SerialInv, HeldComplete, Held
<1>3. C \subseteq segments
  BY <1>2 DEF Selections
<1>4. \/ Cardinality(C) = MinMergeSegments
      \/ Cardinality(C) = MergeFactor
  BY <1>1, <1>2 DEF Selections
<1> QED  BY <1>1, <1>3, <1>4, FS_Subset, MergePolicyAssumption

LEMMA SerialSelect ==
  ASSUME RInv, TypeOK', SerialInv, OneAtATime, NoFaults,
         NEW w \in Workers, SelectMerge(w)
  PROVE  SerialInv'
<1>1. /\ up /\ up' /\ pc[w] = "select" /\ pc'[w] = "merging"
      /\ UNCHANGED <<segments, disk>>
      /\ cand'[w] \in Selections /\ Cardinality(cand'[w]) >= 2
  BY DEF SelectMerge, Goto, RInv, IInv, TypeOK
<1>2. \A v \in Workers : v = w
  BY DEF OneAtATime
<1>3. Held = segments /\ Held' = segments
  BY <1>1, <1>2 DEF Held, Unpublished
<1>4. CandidatesServed'
  BY <1>1, <1>2, SerialSelections DEF CandidatesServed
<1>5. LeftoversKnown'
  BY <1>1, <1>2, <1>3 DEF SerialInv, LeftoversKnown, Removing, OpenableIds
<1>6. HeldComplete' /\ SegmentsApart'
  BY <1>1, <1>2, <1>3 DEF SerialInv, HeldComplete, SegmentsApart
<1>7. CountKept'
  BY <1>1, <1>2 DEF SerialInv, CountKept
<1> QED  BY <1>1, <1>4, <1>5, <1>6, <1>7 DEF SerialInv

\* The merged directory always opens: its candidates have documents and terms.
LEMMA SerialMergeDone ==
  ASSUME RInv, TypeOK', SerialInv, OneAtATime, NoFaults,
         NEW w \in Workers, MergeDone(w)
  PROVE  SerialInv'
<1>1. /\ up /\ up' /\ pc[w] = "merging" /\ Building(w)
      /\ UNCHANGED segments
      /\ disk' = [disk EXCEPT ![dirId[w]] = Output(w)]
      /\ Output(w) = Built(DocsOf(cand[w]), \E s \in cand[w] : s.index = "full")
  BY DEF MergeDone, BuildDone, Output, MergeInput, Building
<1>2. \A v \in Workers : v = w
  BY DEF OneAtATime
<1>3. cand[w] \subseteq segments /\ Cardinality(cand[w]) >= 2
  BY <1>1 DEF SerialInv, CandidatesServed
<1>4. PICK c \in cand[w] : c \in segments
  <2>1. Cardinality({}) = 0
    BY FS_EmptySet
  <2>2. cand[w] # {}
    BY <1>3, <2>1
  <2> QED  BY <1>3, <2>2
<1>5. c.docs # {} /\ c.index = "full"
  BY <1>4 DEF SerialInv, HeldComplete, Held
<1>6. DocsOf(cand[w]) # {} /\ \E s \in cand[w] : s.index = "full"
  BY <1>5, <1>4, DocsOfMember
<1>7. Output(w) = Built(DocsOf(cand[w]), TRUE) /\ Openable(Output(w))
  <2>1. Output(w) = Built(DocsOf(cand[w]), TRUE)
    BY <1>1, <1>6 DEF Built
  <2> QED  BY <1>6, <2>1, OpenedBuilt
<1>8. /\ pc'[w] = "swap" /\ dirId'[w] = dirId[w] /\ cand'[w] = cand[w]
      /\ built'[w] = Opened(dirId[w], Output(w))
  BY <1>7 DEF MergeDone, BuildDone, Goto, RInv, IInv, TypeOK
<1>9. Held' = segments \cup {built'[w]} /\ LeftoversKnown'
  BY <1>1, <1>7, <1>8, SerialBuilt
<1>10. /\ built'[w].docs = DocsOf(cand[w]) /\ built'[w].index = "full"
       /\ built'[w].counted
  <2>1. built'[w] = [id |-> dirId[w], docs |-> DocsOf(cand[w]), index |-> "full",
                     counted |-> TRUE]
    BY <1>6, <1>7, <1>8, OpenedBuilt
  <2> QED  BY <2>1
<1>11. HeldComplete'
  BY <1>6, <1>9, <1>10 DEF SerialInv, HeldComplete, Held
<1>12. SegmentsApart' /\ CandidatesServed'
  BY <1>1, <1>2, <1>3, <1>8 DEF SerialInv, SegmentsApart, CandidatesServed
<1>13. CountKept'
  BY <1>1, <1>2, <1>8 DEF SerialInv, CountKept
<1> QED  BY <1>1, <1>9, <1>11, <1>12, <1>13 DEF SerialInv

\* The swap takes the candidates out, and nothing else: at least two segments
\* go and one comes.
LEMMA SerialSwap ==
  ASSUME RInv, TypeOK', SerialInv, OneAtATime, NoFaults,
         NEW w \in Workers, SwapSegments(w)
  PROVE  SerialInv'
<1>1. /\ up /\ up' /\ pc[w] = "swap" /\ pc'[w] = "cleanup"
      /\ UNCHANGED <<disk, cand, dirId>>
      /\ segments' = {s \in segments : s.id \notin IdsOf(cand[w])} \cup {built[w]}
  BY DEF SwapSegments, Goto, RInv, IInv, TypeOK
<1>2. \A v \in Workers : v = w
  BY DEF OneAtATime
<1>3. cand[w] \subseteq segments /\ Cardinality(cand[w]) >= 2
  BY <1>1 DEF SerialInv, CandidatesServed
<1>4. \A s, t \in segments : s.id = t.id => s = t
  BY <1>1, HeldFacts DEF RInv
<1>5. segments' = (segments \ cand[w]) \cup {built[w]}
  BY <1>1, <1>3, <1>4 DEF IdsOf
<1>6. Held = segments \cup {built[w]} /\ Held' = segments'
  BY <1>1, <1>2 DEF Held, Unpublished
<1>7. HeldComplete'
  BY <1>5, <1>6 DEF SerialInv, HeldComplete
<1>8. SegmentsApart'
  <2>1. built[w].docs = DocsOf(cand[w])
    BY <1>1 DEF RInv, IInv, BuiltMatches
  <2>2. \A s \in segments \ cand[w] : s.docs \cap built[w].docs = {}
    BY <1>3, <2>1, DocsOfMember DEF SerialInv, SegmentsApart
  <2> QED  BY <1>1, <1>2, <1>5, <2>2 DEF SerialInv, SegmentsApart
<1>9. CandidatesServed'
  BY <1>1, <1>2 DEF CandidatesServed
<1>10. LeftoversKnown'
  <2>1. IdsOf(Held) \subseteq IdsOf(Held') \cup IdsOf(cand'[w])
    BY <1>1, <1>5, <1>6 DEF IdsOf
  <2>2. OpenableIds' = OpenableIds /\ OpenableIds \subseteq IdsOf(Held)
    BY <1>1, <1>2 DEF OpenableIds, SerialInv, LeftoversKnown, Removing
  <2> QED  BY <1>1, <1>2, <2>1, <2>2 DEF LeftoversKnown, Removing
<1>11. CountKept'
  <2> DEFINE rest == segments \ cand[w]
  <2>1. IsFiniteSet(segments) /\ Cardinality(segments) <= MinMergeSegments
    BY DEF SerialInv, CountKept
  <2>2. segments \cap cand[w] = cand[w]
    BY <1>3
  <2>3. IsFiniteSet(rest) /\ Cardinality(rest) = Cardinality(segments) - Cardinality(cand[w])
    BY <2>1, <2>2, FS_Difference
  <2>4. /\ IsFiniteSet(segments')
        /\ Cardinality(segments') \in {Cardinality(rest), Cardinality(rest) + 1}
    BY <1>5, <2>3, FS_AddElement
  <2>5. Cardinality(segments) \in Nat /\ Cardinality(cand[w]) \in Nat
    BY <1>3, <2>1, FS_CardinalityType, FS_Subset
  <2>6. Cardinality(segments') < MinMergeSegments
    BY <1>3, <2>1, <2>3, <2>4, <2>5, MergePolicyAssumption
  <2>7. /\ Cardinality(segments') <= MinMergeSegments
        /\ Cardinality(segments') # MinMergeSegments
    BY <2>4, <2>6, FS_CardinalityType, MergePolicyAssumption
  <2> QED  BY <1>1, <1>2, <2>4, <2>7 DEF CountKept
<1> QED  BY <1>1, <1>7, <1>8, <1>9, <1>10, <1>11 DEF SerialInv

LEMMA SerialCleanupNext ==
  ASSUME RInv, TypeOK', SerialInv, OneAtATime, NoFaults,
         NEW w \in Workers, CleanupNext(w)
  PROVE  SerialInv'
<1>1. /\ up /\ up' /\ pc[w] = "cleanup" /\ UNCHANGED <<segments, disk>>
  BY DEF CleanupNext
<1>2. PICK s \in cand[w] :
        /\ cand' = [cand EXCEPT ![w] = @ \ {s}]
        /\ IF Exists(disk[s.id])
             THEN Goto(w, "remove") /\ dirId' = [dirId EXCEPT ![w] = s.id]
             ELSE UNCHANGED <<pc, dirId>>
  BY DEF CleanupNext
<1>3. \A v \in Workers : v = w
  BY DEF OneAtATime
<1>4. cand'[w] = cand[w] \ {s} /\ pc'[w] \in {"cleanup", "remove"}
  BY <1>1, <1>2 DEF Goto, RInv, IInv, TypeOK
<1>5. Held = segments /\ Held' = segments
  BY <1>1, <1>3, <1>4 DEF Held, Unpublished
<1>6. HeldComplete' /\ SegmentsApart' /\ CandidatesServed'
  BY <1>1, <1>3, <1>4, <1>5
  DEF SerialInv, HeldComplete, SegmentsApart, CandidatesServed
<1>7. LeftoversKnown'
  <2>1. OpenableIds' = OpenableIds
    BY <1>1 DEF OpenableIds
  <2>2. \A i \in OpenableIds : i \in IdsOf(segments) \/ i \in IdsOf(cand'[w]) \/ i = s.id
    BY <1>1, <1>3, <1>4, <1>5 DEF SerialInv, LeftoversKnown, Removing, IdsOf
  <2>3. CASE Exists(disk[s.id])
    <3>1. pc'[w] = "remove" /\ dirId'[w] = s.id
      BY <1>2, <2>3 DEF Goto, RInv, IInv, TypeOK
    <3> QED  BY <1>1, <1>3, <1>5, <2>1, <2>2, <2>3, <3>1 DEF LeftoversKnown, Removing
  <2>4. CASE ~Exists(disk[s.id])
    <3>1. s.id \notin OpenableIds
      BY <2>4 DEF OpenableIds, Openable, Exists, Files
    <3>2. pc'[w] = "cleanup"
      BY <1>1, <1>2, <2>4
    <3> QED  BY <1>3, <1>5, <2>1, <2>2, <3>1, <3>2 DEF LeftoversKnown, Removing
  <2> QED  BY <2>3, <2>4
<1>8. CountKept'
  BY <1>1, <1>3, <1>4 DEF SerialInv, CountKept
<1> QED  BY <1>1, <1>6, <1>7, <1>8 DEF SerialInv

LEMMA SerialRemoveDone ==
  ASSUME RInv, TypeOK', SerialInv, OneAtATime, NoFaults,
         NEW w \in Workers, RemoveDone(w)
  PROVE  SerialInv'
<1>1. /\ up /\ up' /\ pc[w] = "remove" /\ pc'[w] = "cleanup"
      /\ UNCHANGED <<segments, cand>>
      /\ disk' = [disk EXCEPT ![dirId[w]] = AbsentDir]
  BY DEF RemoveDone, Goto, RInv, IInv, TypeOK
<1>2. \A v \in Workers : v = w
  BY DEF OneAtATime
<1>3. Held = segments /\ Held' = segments
  BY <1>1, <1>2 DEF Held, Unpublished
<1>4. HeldComplete' /\ SegmentsApart' /\ CandidatesServed'
  BY <1>1, <1>2, <1>3 DEF SerialInv, HeldComplete, SegmentsApart, CandidatesServed
<1>5. LeftoversKnown'
  <2>1. ~Openable(AbsentDir)
    BY DEF Openable, AbsentDir, Files
  <2>2. \A i \in OpenableIds' : i \in OpenableIds /\ i # dirId[w]
    BY <1>1, <2>1 DEF OpenableIds, RInv, IInv, TypeOK
  <2> QED  BY <1>1, <1>2, <1>3, <2>2 DEF SerialInv, LeftoversKnown, Removing
<1>6. CountKept'
  BY <1>1, <1>2 DEF SerialInv, CountKept
<1> QED  BY <1>1, <1>4, <1>5, <1>6 DEF SerialInv

\* A manager that is opened again finds the segments the old one served.
LEMMA SerialReopen ==
  ASSUME RInv, SerialInv, NoFaults, ReopenManager
  PROVE  UNCHANGED <<up, segments, disk, workerVars>>
<1>1. /\ up /\ up' /\ \A w \in Workers : pc[w] \in {"idle", "flush"}
      /\ segments' = Loaded /\ UNCHANGED <<disk, workerVars>>
  BY DEF ReopenManager, LoadSegments
<1>2. Held = segments
  BY <1>1 DEF Held, Unpublished
<1>3. \A i \in OpenableIds : \E s \in segments : s.id = i
  BY <1>1, <1>2 DEF SerialInv, LeftoversKnown, Removing, IdsOf
<1>4. \A s \in segments : s.id \in OpenableIds /\ s = Opened(s.id, disk[s.id])
  BY <1>1, <1>2 DEF RInv, IInv, HeldIntact
<1>5. Loaded = segments
  BY <1>3, <1>4 DEF Loaded
<1> QED  BY <1>1, <1>5 DEF RInv, IInv, TypeOK

LEMMA SerialStep == RInv /\ OneAtATime /\ SerialInv /\ [Next]_vars => SerialInv'
<1> SUFFICES ASSUME RInv, OneAtATime, SerialInv, [Next]_vars, NoFaults' PROVE SerialInv'
  BY DEF SerialInv
<1>1. IInv' /\ TypeOK'
  BY StepIInv DEF RInv, IInv
<1>2. crashes \in Nat /\ ioErrors \in Nat
  BY FaultAssumption DEF RInv, IInv, TypeOK
<1>3. ~Crash /\ \A w \in Workers : ~IoError(w)
  <2>1. ASSUME Crash PROVE FALSE
    BY <1>2, <2>1 DEF Crash, NoFaults
  <2>2. ASSUME NEW w \in Workers, IoError(w) PROVE FALSE
    BY <1>2, <2>2 DEF IoError, NoFaults
  <2> QED  BY <2>1, <2>2
<1>4. NoFaults
  <2>1. ASSUME NEW w \in Workers, WorkerStep(w) \/ \E D \in Batches : Insert(w, D)
        PROVE  UNCHANGED faultVars
    BY <2>1 DEF WorkerStep, Insert, FlushNothing, FlushBegin, FlushDone,
       MergeDone, BuildDone, AddSegment, SwapSegments, CheckMerge, MergeNothing,
       SelectMerge, MergeUnreadable, CleanupNext, CleanupDone, RemoveDone,
       RemoveRaced, Halt
  <2>2. ASSUME \/ \E k \in Keys : DeleteDocument(k)
               \/ Restart \/ ReopenManager \/ UNCHANGED vars
        PROVE  UNCHANGED faultVars
    BY <2>2 DEF DeleteDocument, Restart, ReopenManager, LoadSegments, vars
  <2> QED  BY <1>3, <2>1, <2>2 DEF Next, NoFaults, faultVars
<1>5. up /\ ~Restart /\ \A w \in Workers : ~Halt(w)
  BY <1>4 DEF SerialInv, Restart, Halt
<1>6. ASSUME UNCHANGED vars \/ ReopenManager
      PROVE  UNCHANGED <<up, segments, disk, workerVars>>
  BY <1>4, <1>6, SerialReopen DEF vars
<1>7. ASSUME UNCHANGED <<up, segments, disk, workerVars>>
      PROVE  SerialInv'
  BY <1>4, <1>7, SerialQuiet DEF workerVars
<1>8. ASSUME NEW k \in Keys, DeleteDocument(k)
      PROVE  SerialInv'
  BY <1>7, <1>8 DEF DeleteDocument
<1>9. ASSUME NEW w \in Workers,
             \/ \E D \in Batches : Insert(w, D)
             \/ FlushNothing(w) \/ FlushBegin(w) \/ CheckMerge(w) \/ CleanupDone(w)
      PROVE  SerialInv'
  <2> DEFINE Same(v) == /\ pc'[v] = pc[v] /\ cand'[v] = cand[v]
                        /\ dirId'[v] = dirId[v] /\ built'[v] = built[v]
             Empty(v) == /\ pc[v] \in {"idle", "flush", "check"}
                         /\ pc'[v] \in {"idle", "flush", "writing"}
                         /\ pc[v] = "check" => Cardinality(segments) # MinMergeSegments
             Full(v) == /\ pc[v] = "check" /\ pc'[v] = "select"
                        /\ Cardinality(segments) = MinMergeSegments
             Clean(v) == pc[v] = "cleanup" /\ cand[v] = {} /\ pc'[v] = "idle"
  <2>1. UNCHANGED <<up, segments, disk>>
    BY <1>9 DEF Insert, FlushNothing, FlushBegin, CheckMerge, CleanupDone
  <2>2. /\ pc \in [Workers -> Labels] /\ cand \in [Workers -> SUBSET Segment]
        /\ dirId \in [Workers -> Ids] /\ built \in [Workers -> Segment]
    BY DEF RInv, IInv, TypeOK
  <2>3. \A v \in Workers : v = w
    BY DEF OneAtATime
  <2>4. CASE \E D \in Batches : Insert(w, D)
    <3>1. Same(w) \/ Empty(w)
      BY <2>2, <2>4 DEF Insert, Goto
    <3> QED  BY <1>4, <2>1, <2>3, <3>1, SerialQuiet
  <2>5. CASE FlushNothing(w) \/ FlushBegin(w)
    <3>1. Empty(w)
      BY <2>2, <2>5 DEF FlushNothing, FlushBegin, Goto, Finish
    <3> QED  BY <1>4, <2>1, <2>3, <3>1, SerialQuiet
  <2>6. CASE CheckMerge(w)
    <3>1. Cardinality(segments) \in Nat /\ Cardinality(segments) <= MinMergeSegments
      BY <1>4, FS_CardinalityType DEF SerialInv, CountKept
    <3>2. Cardinality(segments) >= MinMergeSegments <=> Cardinality(segments) = MinMergeSegments
      BY <3>1, MergePolicyAssumption
    <3>3. Empty(w) \/ Full(w)
      BY <2>2, <2>6, <3>2 DEF CheckMerge, Goto, Finish
    <3> QED  BY <1>4, <2>1, <2>3, <3>3, SerialQuiet
  <2>7. CASE CleanupDone(w)
    <3>1. Clean(w)
      BY <2>2, <2>7 DEF CleanupDone, Goto, Finish
    <3> QED  BY <1>4, <2>1, <2>3, <3>1, SerialQuiet
  <2> QED  BY <1>9, <2>4, <2>5, <2>6, <2>7
<1>10. ASSUME NEW w \in Workers,
              MergeNothing(w) \/ MergeUnreadable(w) \/ RemoveRaced(w)
       PROVE  FALSE
  <2>1. CASE MergeNothing(w)
    <3>1. PICK C \in Selections : Cardinality(C) < 2
      BY <2>1 DEF MergeNothing
    <3>2. pc[w] = "select"
      BY <2>1 DEF MergeNothing
    <3>3. IsFiniteSet(C) /\ Cardinality(C) >= 2
      BY <1>4, <3>2, SerialSelections
    <3> QED  BY <3>1, <3>3, FS_CardinalityType
  <2>2. CASE MergeUnreadable(w)
    BY <1>4, <2>2 DEF MergeUnreadable, Unreadable, SerialInv, CandidatesServed,
       HeldComplete, Held
  <2>3. CASE RemoveRaced(w)
    BY <1>4, <2>3 DEF RemoveRaced, SerialInv, LeftoversKnown, Removing
  <2> QED  BY <1>10, <2>1, <2>2, <2>3
<1>11. ASSUME NEW w \in Workers,
              \/ FlushDone(w) \/ AddSegment(w) \/ SelectMerge(w) \/ MergeDone(w)
              \/ SwapSegments(w) \/ CleanupNext(w) \/ RemoveDone(w)
       PROVE  SerialInv'
  BY <1>1, <1>4, <1>11, SerialFlushDone, SerialAdd, SerialSelect, SerialMergeDone,
     SerialSwap, SerialCleanupNext, SerialRemoveDone
<1> QED  BY <1>3, <1>5, <1>6, <1>7, <1>8, <1>9, <1>10, <1>11 DEF Next, WorkerStep

\* The invariant of one request at a time.
THEOREM SerialInvariant == OneAtATime /\ Spec => []SerialInv
<1>1. OneAtATime => OneAtATime'
  BY DEF OneAtATime
<1>2. Spec => []RInv
  BY RefinementInvariant
<1>3. Init => SerialInv
  BY SerialInit
<1>4. RInv /\ OneAtATime /\ SerialInv /\ [Next]_vars => SerialInv'
  BY SerialStep
<1> QED  BY <1>1, <1>2, <1>3, <1>4, PTL DEF Spec

\* With one request at a time and no faults, no document is in two segments.
THEOREM OneSegmentPerDocumentHolds == OneAtATime /\ Spec => []OneSegmentPerDocument
<1>1. SerialInv => OneSegmentPerDocument
  BY DEF SerialInv, SegmentsApart, OneSegmentPerDocument
<1> QED  BY <1>1, SerialInvariant, PTL

\* Between such requests the directories that open are the segments served:
\* every merge has removed all it replaced.
THEOREM NoLeftoversHolds == OneAtATime /\ Spec => []NoLeftovers
<1>1. RInv /\ SerialInv => NoLeftovers
  <2> SUFFICES ASSUME RInv, SerialInv, NoFaults, \A w \in Workers : pc[w] = "idle"
               PROVE  OpenableIds = IdsOf(segments)
    BY DEF NoLeftovers
  <2>1. Held = segments
    BY DEF Held, Unpublished
  <2>2. OpenableIds \subseteq IdsOf(segments)
    BY <2>1 DEF SerialInv, LeftoversKnown, Removing
  <2>3. IdsOf(segments) \subseteq OpenableIds
    BY <2>1 DEF SerialInv, RInv, IInv, HeldIntact, IdsOf
  <2> QED  BY <2>2, <2>3
<1> QED  BY <1>1, SerialInvariant, RefinementInvariant, PTL

\* Between such requests there are fewer segments than trigger a merge, for any
\* merge policy with thresholds of at least two.
THEOREM SegmentCountBoundedHolds == OneAtATime /\ Spec => []SegmentCountBounded
<1>1. SerialInv => SegmentCountBounded
  <2> SUFFICES ASSUME SerialInv, NoFaults, \A w \in Workers : pc[w] = "idle"
               PROVE  Cardinality(segments) < MinMergeSegments
    BY DEF SegmentCountBounded
  <2>1. /\ Cardinality(segments) \in Nat
        /\ Cardinality(segments) <= MinMergeSegments
        /\ Cardinality(segments) # MinMergeSegments
    BY FS_CardinalityType DEF SerialInv, CountKept
  <2> QED  BY <2>1, MergePolicyAssumption
<1> QED  BY <1>1, SerialInvariant, PTL
=============================================================================
