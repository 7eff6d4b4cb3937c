----------------------------- MODULE NodeProofs -----------------------------
(***************************************************************************)
(* Proofs about Node, for any number of collections, documents, workers,   *)
(* requests and kills.                                                     *)
(*                                                                         *)
(* The invariant says what each handler under way still relies on.  Its    *)
(* heart is Overlap: what a request is sure of (sure), no request beside   *)
(* it touches; so whatever another handler does to the collection leaves   *)
(* what this one will promise alone.                                       *)
(***************************************************************************)
EXTENDS Node, TLAPS

-----------------------------------------------------------------------------
(* The inductive invariant.                                                 *)

Fields == {"exists", "meta", "docs", "segments", "wal"}

\* Arrays and records have their domains.
Shape ==
  /\ DOMAIN disk = Collections
  /\ \A c \in Collections : DOMAIN disk[c] = Fields
  /\ DOMAIN pc = Workers
  /\ DOMAIN req = Workers
  /\ DOMAIN todo = Workers
  /\ DOMAIN sure = Workers
  /\ DOMAIN linked = Workers
  /\ DOMAIN buffer = Collections
  /\ DOMAIN fate = Collections
  /\ DOMAIN promise = Collections
  /\ fresh \subseteq Docs
  /\ crashes \in Nat
  /\ ~up => crashes > 0

Active(w) == pc[w] # "idle"

\* What clients send.
ValidRequest(r) ==
  /\ r.op \in {"insert", "bulk", "delete", "create", "drop"}
  /\ r.coll \in Collections
  /\ r.docs \subseteq Docs
  /\ r.keys \subseteq Keys
  /\ r.op = "create" => r.keys = {}
  /\ r.op = "drop" => r.keys = Keys
  /\ r.op \in {"insert", "bulk"} =>
       /\ r.keys = {KeyOf[d] : d \in r.docs}
       /\ \A d, e \in r.docs : KeyOf[d] = KeyOf[e] => d = e
  /\ r.op = "insert" => \E d \in Docs : r.docs = {d}

\* A handler is at a place of the operation of its request.
PlaceOK(w) ==
  /\ pc[w] = "idle" => req[w].op = "none" /\ sure[w] = {}
  /\ pc[w] # "idle" => up /\ ValidRequest(req[w])
  /\ pc[w] \in {"wal", "load", "save", "meta"} => req[w].op = "create"
  /\ pc[w] \in {"list", "remove"} => req[w].op = "drop"
  /\ pc[w] \in {"read", "truncate", "write"} =>
       \/ req[w].op = "delete"
       \/ req[w].op = "insert" /\ todo[w] = {}
  /\ req[w].op \in {"insert", "bulk"} => todo[w] \subseteq req[w].docs
  /\ req[w].op = "delete" => todo[w] \subseteq req[w].keys
  /\ pc[w] = "remove" => todo[w] \subseteq Entries

Places == \A w \in Workers : PlaceOK(w)

\* What a handler is sure of, no handler beside it touches.
Overlap ==
  \A w \in Workers :
    /\ sure[w] \subseteq Touches(req[w])
    /\ \A v \in Workers \ {w} :
         Active(v) /\ Active(w) /\ Coll(v) = Coll(w)
           => sure[w] \cap Touches(req[v]) = {}

\* What the replies about collections rest on.
Promises ==
  /\ \A c \in Collections : ~disk[c].exists => disk[c].meta = "absent"
  /\ \A w \in Workers :
       /\ pc[w] = "meta" /\ linked[w] => disk[Coll(w)].exists /\ disk[Coll(w)].meta # "absent"
       /\ req[w].op \in {"create", "drop"} => promise[Coll(w)] = "none"
       /\ "collection" \in sure[w] =>
            /\ pc[w] \in {"list", "remove"} => Coll(w) \notin open
            /\ pc[w] = "meta" => linked[w]
            /\ pc[w] \in {"wal", "load"} => disk[Coll(w)].exists
            /\ pc[w] \in {"save", "meta"} /\ crashes = 0 => Coll(w) \in open \cap managed

PromiseInv == Shape /\ Places /\ Overlap /\ Promises /\ DroppedStaysDropped /\ CreatedStays

-----------------------------------------------------------------------------
\* At most one handler creates a collection, and only one that is not open.
OneCreation ==
  \A w \in Workers : req[w].op = "create" =>
    /\ pc[w] \in {"apply", "wal", "load"} => Coll(w) \notin open
    /\ \A v \in Workers : req[v].op = "create" /\ Coll(v) = Coll(w) => v = w

\* The replies about documents follow the requests under way.
Fates ==
  /\ \A w \in Workers : Active(w) =>
       \A k \in req[w].keys : fate[Coll(w)][k] = "unknown"
  /\ \A c \in Collections, k \in Keys : fate[c][k] \in Docs => KeyOf[fate[c][k]] = k

Clear(c, k) == \A b \in buffer[c] : KeyOf[b] # k

\* What a handler has done to the engine so far.
ProgressOf(w) ==
  LET c == req[w].coll
  IN /\ req[w].op \in {"insert", "bulk", "delete"} /\ sure[w] # {} => c \in open
     /\ req[w].op \in {"insert", "bulk"} =>
          \A d \in req[w].docs \ todo[w] :
            KeyOf[d] \in sure[w] /\ c \in managed => d \in Stored(c)
     /\ req[w].op = "delete" =>
          \A k \in req[w].keys \ todo[w] : k \in sure[w] => Clear(c, k)
     /\ pc[w] \in {"list", "remove"} =>
          \A k \in Keys \cap sure[w] : Clear(c, k)

Progress == \A w \in Workers : ProgressOf(w)

MemoryInv ==
  /\ ~Recreate
  /\ PromiseInv /\ OneCreation /\ Fates
  /\ crashes = 0 => Progress /\ MemoryMatchesReplies

-----------------------------------------------------------------------------
(* What the steps of a handler have in common.                              *)

\* The others stay where they are.
Frame(w) ==
  /\ Shape'
  /\ UNCHANGED <<up, crashes>>
  /\ \A v \in Workers \ {w} :
       pc'[v] = pc[v] /\ req'[v] = req[v] /\ todo'[v] = todo[v] /\ sure'[v] = sure[v]

\* w goes on with its request.
Stays(w) ==
  /\ Frame(w)
  /\ Active(w) /\ Active(w)'
  /\ req'[w] = req[w] /\ sure'[w] = sure[w]
  /\ UNCHANGED <<fate, promise>>

\* w returns, with or without success.
Ends(w) ==
  /\ Frame(w)
  /\ Active(w) /\ ~Active(w)'
  /\ req'[w] = NoRequest /\ sure'[w] = {} /\ todo'[w] = {}

Failed == UNCHANGED <<fate, promise>>

Succeeded(w) ==
  /\ \A c \in Collections, k \in Keys :
       fate'[c][k] = IF c = Coll(w) /\ k \in req[w].keys \cap sure[w]
                       THEN OutcomeOf(req[w], k) ELSE fate[c][k]
  /\ \A c \in Collections :
       promise'[c] = IF c = Coll(w) /\ "collection" \in sure[w] THEN req[w].op ELSE promise[c]

\* A step of an insertion or a deletion: meta.json stays, and so does what is
\* open.
DataStep(w) ==
  /\ req[w].op \in {"insert", "bulk", "delete"}
  /\ \/ Stays(w) /\ pc'[w] \in {"apply", "read", "truncate", "write"}
     \/ Ends(w) /\ (Failed \/ Succeeded(w))
  /\ PlaceOK(w)'
  /\ UNCHANGED <<open, managed>>
  /\ \A c \in Collections : /\ disk'[c].meta = disk[c].meta
                            /\ disk[c].exists => disk'[c].exists
                            /\ ~disk'[c].exists => ~disk[c].exists
  /\ \A v \in Workers : pc[v] = "meta" => linked'[v] = linked[v]

\* Return leaves the arrays in shape.
LEMMA ReturnEnds ==
  ASSUME Shape, NEW w \in Workers, Active(w), Return(w),
         UNCHANGED <<up, crashes, fresh>>,
         DOMAIN disk' = Collections, \A c \in Collections : DOMAIN disk'[c] = Fields,
         DOMAIN buffer' = Collections,
         DOMAIN fate' = Collections, DOMAIN promise' = Collections
  PROVE  Ends(w)
  BY DEF Shape, Return, Ends, Frame, Active, Goto

LEMMA SucceedEnds ==
  ASSUME Shape, Places, NEW w \in Workers, Active(w), Succeed(w), UNCHANGED <<up, crashes>>,
         DOMAIN disk' = Collections, \A c \in Collections : DOMAIN disk'[c] = Fields,
         DOMAIN buffer' = Collections
  PROVE  Ends(w) /\ Succeeded(w)
<1>1. Coll(w) \in Collections
  BY DEF Places, PlaceOK, Active, ValidRequest, Coll
<1>2. DOMAIN fate' = Collections /\ DOMAIN promise' = Collections /\ Succeeded(w)
  BY <1>1 DEF Succeed, Succeeded, Shape, Coll
<1>3. Ends(w)
  BY <1>2, ReturnEnds DEF Succeed
<1> QED
  BY <1>2, <1>3

LEMMA FailEnds ==
  ASSUME Shape, NEW w \in Workers, Active(w), Fail(w), UNCHANGED <<up, crashes>>,
         DOMAIN disk' = Collections, \A c \in Collections : DOMAIN disk'[c] = Fields,
         DOMAIN buffer' = Collections
  PROVE  Ends(w) /\ Failed
<1>1. DOMAIN fate' = Collections /\ DOMAIN promise' = Collections /\ Failed
  BY DEF Fail, Failed, Shape
<1> QED
  BY <1>1, ReturnEnds DEF Fail

\* NextId goes on with a deletion, or replies.
LEMMA NextIdStep ==
  ASSUME Shape, Places, NEW w \in Workers, pc[w] \in {"read", "truncate", "write"},
         NextId(w), UNCHANGED <<up, crashes>>,
         DOMAIN disk' = Collections, \A c \in Collections : DOMAIN disk'[c] = Fields,
         DOMAIN buffer' = Collections
  PROVE  /\ PlaceOK(w)'
         /\ UNCHANGED linked
         /\ \/ Stays(w) /\ pc'[w] = "apply" /\ todo'[w] = todo[w]
            \/ Ends(w) /\ Succeeded(w) /\ todo[w] = {}
<1>1. CASE todo[w] = {}
  <2>1. Succeed(w)
    BY <1>1 DEF NextId
  <2>2. Ends(w) /\ Succeeded(w)
    BY <2>1, SucceedEnds DEF Active
  <2> QED
    BY <1>1, <2>1, <2>2 DEF Ends, Active, PlaceOK, NoRequest, Succeed, Return
<1>2. CASE todo[w] # {}
  <2>1. Goto(w, "apply") /\ UNCHANGED <<req, todo, linked, clientVars>>
    BY <1>2 DEF NextId
  <2>2. Stays(w) /\ pc'[w] = "apply" /\ todo'[w] = todo[w]
    BY <2>1 DEF Stays, Frame, Shape, Active, Goto, clientVars
  <2> QED
    BY <2>1, <2>2, <1>2 DEF Places, PlaceOK, Stays, clientVars
<1> QED
  BY <1>1, <1>2

\* What the steps on documents.jsonl leave alone.
FileStep(w) ==
  /\ DataStep(w)
  /\ pc[w] \in {"read", "truncate", "write"}
  /\ UNCHANGED buffer
  /\ \A c \in Collections : disk'[c].segments = disk[c].segments
  /\ \/ Stays(w) /\ todo'[w] = todo[w]
     \/ Ends(w) /\ Failed
     \/ Ends(w) /\ Succeeded(w) /\ todo[w] = {}

LEMMA FileStepMove ==
  ASSUME Shape, Places, NEW w \in Workers,
         pc[w] \in {"read", "truncate", "write"},
         DOMAIN pc' = Workers, pc'[w] \in {"read", "truncate", "write"},
         \A v \in Workers \ {w} : pc'[v] = pc[v],
         UNCHANGED <<up, open, managed, buffer, crashes, req, todo, clientVars>>,
         DOMAIN linked' = Workers, \A v \in Workers \ {w} : linked'[v] = linked[v],
         DOMAIN disk' = Collections,
         \A c \in Collections : /\ DOMAIN disk'[c] = Fields
                                /\ disk'[c].meta = disk[c].meta
                                /\ disk'[c].segments = disk[c].segments
                                /\ disk[c].exists => disk'[c].exists
                                /\ ~disk'[c].exists => ~disk[c].exists
  PROVE  FileStep(w)
<1>1. Stays(w) /\ todo'[w] = todo[w]
  BY DEF Stays, Frame, Shape, Active, clientVars
<1>2. PlaceOK(w)'
  BY <1>1 DEF Places, PlaceOK, Stays
<1>3. req[w].op \in {"insert", "delete"}
  BY DEF Places, PlaceOK
<1> QED
  BY <1>1, <1>2, <1>3 DEF FileStep, DataStep

LEMMA FileStepNext ==
  ASSUME Shape, Places, NEW w \in Workers, pc[w] \in {"read", "truncate", "write"},
         NextId(w), UNCHANGED <<up, open, managed, buffer, disk, crashes>>
  PROVE  FileStep(w)
<1>1. DOMAIN disk' = Collections /\ (\A c \in Collections : DOMAIN disk'[c] = Fields)
        /\ DOMAIN buffer' = Collections
  BY DEF Shape
<1>2. /\ PlaceOK(w)'
      /\ UNCHANGED linked
      /\ \/ Stays(w) /\ pc'[w] = "apply" /\ todo'[w] = todo[w]
         \/ Ends(w) /\ Succeeded(w) /\ todo[w] = {}
  BY <1>1, NextIdStep
<1>3. req[w].op \in {"insert", "delete"}
  BY DEF Places, PlaceOK
<1> QED
  BY <1>2, <1>3 DEF FileStep, DataStep

LEMMA SaveDocumentStep ==
  ASSUME Shape, Places, NEW w \in Workers, SaveDocument(w)
  PROVE  FileStep(w)
<1>1. Coll(w) \in Collections
  BY DEF SaveDocument, Places, PlaceOK, ValidRequest, Coll
<1>2. DOMAIN disk' = Collections
        /\ \A c \in Collections : /\ DOMAIN disk'[c] = Fields
                                  /\ disk'[c].meta = disk[c].meta
                                  /\ disk'[c].segments = disk[c].segments
                                  /\ disk[c].exists => disk'[c].exists
                                  /\ ~disk'[c].exists => ~disk[c].exists
  BY <1>1 DEF SaveDocument, Shape, Fields
<1> QED
  BY <1>2, FileStepMove DEF SaveDocument, Goto, Shape

LEMMA RemoveDocumentStep ==
  ASSUME Shape, Places, NEW w \in Workers, RemoveDocument(w)
  PROVE  FileStep(w)
<1>1. CASE disk[Coll(w)].docs = NoFile
  BY <1>1, FileStepNext DEF RemoveDocument
<1>2. CASE disk[Coll(w)].docs # NoFile
  <2>1. /\ pc[w] = "read" /\ pc' = [pc EXCEPT ![w] = "truncate"]
        /\ UNCHANGED <<up, open, managed, buffer, disk, crashes, req, todo, linked, clientVars>>
    BY <1>2 DEF RemoveDocument, Goto
  <2> QED
    BY <2>1, FileStepMove DEF Shape
<1> QED
  BY <1>1, <1>2

LEMMA TruncateFileStep ==
  ASSUME Shape, Places, NEW w \in Workers, TruncateFile(w)
  PROVE  FileStep(w)
<1>1. pc[w] = "truncate" /\ Coll(w) \in Collections
  BY DEF TruncateFile, Places, PlaceOK, ValidRequest, Coll
<1>2. CASE disk[Coll(w)].exists
  <2>1. DOMAIN disk' = Collections
          /\ \A c \in Collections : /\ DOMAIN disk'[c] = Fields
                                    /\ disk'[c].meta = disk[c].meta
                                    /\ disk'[c].segments = disk[c].segments
                                    /\ disk[c].exists => disk'[c].exists
                                    /\ ~disk'[c].exists => ~disk[c].exists
    BY <1>1, <1>2 DEF TruncateFile, Shape, Fields
  <2> QED
    BY <1>1, <1>2, <2>1, FileStepMove DEF TruncateFile, Goto, Shape
<1>3. CASE ~disk[Coll(w)].exists /\ todo[w] = {}
  <2>1. Fail(w) /\ UNCHANGED <<up, open, managed, buffer, disk, crashes>>
    BY <1>3 DEF TruncateFile
  <2>2. Ends(w) /\ Failed
    BY <1>1, <2>1, FailEnds DEF Shape, Active
  <2>3. UNCHANGED linked
    BY <2>1 DEF Fail, Return
  <2>4. PlaceOK(w)'
    BY <2>2 DEF Ends, PlaceOK, Active, NoRequest
  <2>5. req[w].op \in {"insert", "delete"}
    BY <1>1 DEF Places, PlaceOK
  <2> QED
    BY <1>1, <2>1, <2>2, <2>3, <2>4, <2>5 DEF FileStep, DataStep
<1>4. CASE ~disk[Coll(w)].exists /\ todo[w] # {}
  BY <1>1, <1>4, FileStepNext DEF TruncateFile
<1> QED
  BY <1>2, <1>3, <1>4

LEMMA WriteLineStep ==
  ASSUME Shape, Places, NEW w \in Workers, WriteLine(w)
  PROVE  FileStep(w)
<1>1. Coll(w) \in Collections
  BY DEF WriteLine, Places, PlaceOK, ValidRequest, Coll
<1>2. DOMAIN disk' = Collections
        /\ \A c \in Collections : /\ DOMAIN disk'[c] = Fields
                                  /\ disk'[c].meta = disk[c].meta
                                  /\ disk'[c].segments = disk[c].segments
                                  /\ disk[c].exists => disk'[c].exists
                                  /\ ~disk'[c].exists => ~disk[c].exists
  BY <1>1 DEF WriteLine, Shape, Fields
<1>3. pc[w] = "write" /\ UNCHANGED pc
  BY DEF WriteLine
<1> QED
  BY <1>2, <1>3, FileStepMove DEF WriteLine, Shape

LEMMA FileWrittenStep ==
  ASSUME Shape, Places, NEW w \in Workers, FileWritten(w)
  PROVE  FileStep(w)
  BY FileStepNext DEF FileWritten

\* What an insertion of d does to the engine of an open collection.
Ingested(c, d) ==
  /\ d \in buffer'[c] \cup disk'[c].segments
  /\ \A e \in Stored(c) : KeyOf[e] # KeyOf[d] => e \in buffer'[c] \cup disk'[c].segments
  /\ buffer'[c] \subseteq buffer[c] \cup {d}

LEMMA IngestEffect ==
  ASSUME NEW s, NEW d
  PROVE  LET t == Ingest(s, d)
         IN  /\ d \in t.buffer \cup t.segments
             /\ s.segments \subseteq t.segments
             /\ t.buffer \subseteq s.buffer \cup {d}
             /\ \A e \in s.buffer : KeyOf[e] # KeyOf[d] => e \in t.buffer \cup t.segments
  BY DEF Ingest

LEMMA InsertDocumentStep ==
  ASSUME Shape, Places, NEW w \in Workers, InsertDocument(w)
  PROVE  /\ DataStep(w)
         /\ req[w].op \in {"insert", "bulk"}
         /\ \E d \in todo[w] :
              /\ \/ Stays(w) /\ todo'[w] = todo[w] \ {d}
                 \/ Ends(w) /\ Succeeded(w) /\ todo[w] = {d}
              /\ Coll(w) \in managed => Ingested(Coll(w), d)
              /\ Coll(w) \notin managed => UNCHANGED <<buffer, disk>>
              /\ \A c \in Collections \ {Coll(w)} :
                   buffer'[c] = buffer[c] /\ disk'[c].segments = disk[c].segments
<1>1. /\ pc[w] = "apply" /\ req[w].op \in {"insert", "bulk"} /\ ValidRequest(req[w])
      /\ Coll(w) \in Collections
      /\ UNCHANGED <<up, open, managed, crashes>>
  BY DEF InsertDocument, Places, PlaceOK, ValidRequest, Coll
<1>2. PICK d \in todo[w] :
        /\ LET s == Ingest(Storage(Coll(w)), d)
           IN IF Coll(w) \in managed
                THEN /\ buffer' = [buffer EXCEPT ![Coll(w)] = s.buffer]
                     /\ disk' = [disk EXCEPT ![Coll(w)].segments = s.segments,
                                             ![Coll(w)].exists = @ \/ s.buffer = {}]
                ELSE UNCHANGED <<buffer, disk>>
        /\ IF req[w].op = "insert"
             THEN /\ Goto(w, "read")
                  /\ item' = [item EXCEPT ![w] = d]
                  /\ todo' = [todo EXCEPT ![w] = {}]
                  /\ UNCHANGED <<req, lines, pos, linked, clientVars>>
             ELSE IF todo[w] = {d}
                    THEN Succeed(w)
                    ELSE /\ todo' = [todo EXCEPT ![w] = @ \ {d}]
                         /\ UNCHANGED <<pc, req, item, lines, pos, linked, clientVars>>
  BY DEF InsertDocument
<1>3. /\ DOMAIN disk' = Collections /\ DOMAIN buffer' = Collections
      /\ \A c \in Collections : /\ DOMAIN disk'[c] = Fields
                                /\ disk'[c].meta = disk[c].meta
                                /\ disk[c].exists => disk'[c].exists
                                /\ ~disk'[c].exists => ~disk[c].exists
      /\ \A c \in Collections \ {Coll(w)} :
           buffer'[c] = buffer[c] /\ disk'[c].segments = disk[c].segments
  <2>1. CASE Coll(w) \in managed
    <3> DEFINE s == Ingest(Storage(Coll(w)), d)
    <3>1. /\ buffer' = [buffer EXCEPT ![Coll(w)] = s.buffer]
          /\ disk' = [disk EXCEPT ![Coll(w)].segments = s.segments,
                                  ![Coll(w)].exists = @ \/ s.buffer = {}]
      BY <1>2, <2>1
    <3> HIDE DEF s
    <3> QED
      BY <1>1, <3>1 DEF Shape, Fields
  <2>2. CASE Coll(w) \notin managed
    BY <1>2, <2>2 DEF Shape
  <2> QED
    BY <2>1, <2>2
<1>4. Coll(w) \in managed => Ingested(Coll(w), d)
  <2> SUFFICES ASSUME Coll(w) \in managed PROVE Ingested(Coll(w), d)
    OBVIOUS
  <2> DEFINE s == Ingest(Storage(Coll(w)), d)
  <2>1. /\ buffer' = [buffer EXCEPT ![Coll(w)] = s.buffer]
        /\ disk' = [disk EXCEPT ![Coll(w)].segments = s.segments,
                                ![Coll(w)].exists = @ \/ s.buffer = {}]
    BY <1>2
  <2>2. /\ d \in s.buffer \cup s.segments
        /\ Storage(Coll(w)).segments \subseteq s.segments
        /\ s.buffer \subseteq Storage(Coll(w)).buffer \cup {d}
        /\ \A e \in Storage(Coll(w)).buffer : KeyOf[e] # KeyOf[d] => e \in s.buffer \cup s.segments
    BY IngestEffect
  <2> HIDE DEF s
  <2>3. buffer'[Coll(w)] = s.buffer /\ disk'[Coll(w)].segments = s.segments
    BY <1>1, <2>1 DEF Shape, Fields
  <2> QED
    BY <2>2, <2>3 DEF Ingested, Storage, Stored
<1>5. CASE req[w].op = "insert"
  <2>1. /\ Goto(w, "read")
        /\ todo' = [todo EXCEPT ![w] = {}]
        /\ UNCHANGED <<req, linked, clientVars>>
    BY <1>2, <1>5
  <2>2. todo[w] = {d}
    BY <1>1, <1>5 DEF ValidRequest, Places, PlaceOK
  <2>3. Stays(w) /\ pc'[w] = "read" /\ todo'[w] = {}
    BY <1>1, <1>3, <2>1 DEF Stays, Frame, Shape, Active, Goto, clientVars
  <2>4. PlaceOK(w)'
    BY <1>1, <1>5, <2>3 DEF PlaceOK, Stays, Frame, Places
  <2>5. DataStep(w)
    BY <1>1, <1>3, <2>1, <2>3, <2>4 DEF DataStep
  <2> QED
    BY <1>1, <1>2, <1>3, <1>4, <2>2, <2>3, <2>5
<1>6. CASE req[w].op = "bulk" /\ todo[w] = {d}
  <2>1. Succeed(w)
    BY <1>2, <1>6
  <2>2. Ends(w) /\ Succeeded(w)
    BY <1>1, <1>3, <2>1, SucceedEnds DEF Active
  <2>3. PlaceOK(w)'
    BY <2>2 DEF Ends, PlaceOK, Active, NoRequest
  <2>4. DataStep(w)
    BY <1>1, <1>3, <2>1, <2>2, <2>3 DEF DataStep, Succeed, Return
  <2> QED
    BY <1>1, <1>2, <1>3, <1>4, <1>6, <2>2, <2>4
<1>7. CASE req[w].op = "bulk" /\ todo[w] # {d}
  <2>1. /\ todo' = [todo EXCEPT ![w] = @ \ {d}]
        /\ UNCHANGED <<pc, req, linked, clientVars>>
    BY <1>2, <1>7
  <2>2. Stays(w) /\ pc'[w] = "apply" /\ todo'[w] = todo[w] \ {d}
    BY <1>1, <1>3, <2>1 DEF Stays, Frame, Shape, Active, clientVars
  <2>3. PlaceOK(w)'
    BY <1>1, <1>7, <2>2 DEF PlaceOK, Stays, Frame, Places
  <2>4. DataStep(w)
    BY <1>1, <1>3, <2>1, <2>2, <2>3 DEF DataStep
  <2> QED
    BY <1>1, <1>2, <1>3, <1>4, <2>2, <2>4
<1> QED
  BY <1>1, <1>5, <1>6, <1>7

LEMMA DeleteDocumentStep ==
  ASSUME Shape, Places, NEW w \in Workers, DeleteDocument(w)
  PROVE  /\ DataStep(w)
         /\ req[w].op = "delete"
         /\ Stays(w)
         /\ UNCHANGED disk
         /\ \E k \in todo[w] :
              /\ todo'[w] = todo[w] \ {k}
              /\ buffer'[Coll(w)] = {b \in buffer[Coll(w)] : KeyOf[b] # k}
         /\ \A c \in Collections \ {Coll(w)} : buffer'[c] = buffer[c]
<1>1. /\ pc[w] = "apply" /\ req[w].op = "delete" /\ ValidRequest(req[w])
      /\ Coll(w) \in Collections
      /\ todo[w] \subseteq req[w].keys /\ up
      /\ UNCHANGED <<up, open, managed, disk, req, linked, clientVars, crashes>>
      /\ Goto(w, "read")
  BY DEF DeleteDocument, Places, PlaceOK, ValidRequest, Coll
<1>2. PICK k \in todo[w] :
        /\ buffer' = [buffer EXCEPT ![Coll(w)] = {b \in @ : KeyOf[b] # k}]
        /\ todo' = [todo EXCEPT ![w] = @ \ {k}]
  BY DEF DeleteDocument
<1>3. /\ buffer'[Coll(w)] = {b \in buffer[Coll(w)] : KeyOf[b] # k}
      /\ DOMAIN buffer' = Collections
      /\ \A c \in Collections \ {Coll(w)} : buffer'[c] = buffer[c]
  BY <1>1, <1>2 DEF Shape
<1>4. Stays(w) /\ pc'[w] = "read" /\ todo'[w] = todo[w] \ {k}
  BY <1>1, <1>2, <1>3 DEF Stays, Frame, Shape, Active, Goto, clientVars
<1>5. PlaceOK(w)'
  BY <1>1, <1>4 DEF PlaceOK, Stays, Frame
<1>6. DataStep(w)
  BY <1>1, <1>4, <1>5 DEF DataStep
<1> QED
  BY <1>1, <1>2, <1>3, <1>4, <1>6

-----------------------------------------------------------------------------
(* Steps of one handler and what the handlers are sure of.                  *)

LEMMA FramePlaces ==
  ASSUME Places, NEW w \in Workers, Frame(w), PlaceOK(w)'
  PROVE  Places'
<1> SUFFICES ASSUME NEW v \in Workers, v # w PROVE PlaceOK(v)'
  BY DEF Places
<1>1. PlaceOK(v) /\ up' = up /\ pc'[v] = pc[v] /\ req'[v] = req[v]
        /\ todo'[v] = todo[v] /\ sure'[v] = sure[v]
  BY DEF Places, Frame
<1> QED
  BY <1>1 DEF PlaceOK

LEMMA OverlapKept ==
  ASSUME Overlap, NEW w \in Workers, Stays(w) \/ Ends(w)
  PROVE  Overlap'
<1>1. CASE Stays(w)
  <2>1. \A v \in Workers : /\ req'[v] = req[v] /\ sure'[v] = sure[v]
                           /\ Active(v)' => Active(v)
                           /\ Coll(v)' = Coll(v)
    BY <1>1 DEF Stays, Frame, Active, Coll
  <2> QED
    BY <2>1 DEF Overlap
<1>2. CASE Ends(w)
  <2>1. \A v \in Workers \ {w} : /\ req'[v] = req[v] /\ sure'[v] = sure[v]
                                 /\ Active(v)' => Active(v)
                                 /\ Coll(v)' = Coll(v)
    BY <1>2 DEF Ends, Frame, Active, Coll
  <2>2. ~Active(w)' /\ sure'[w] = {}
    BY <1>2 DEF Ends
  <2> QED
    BY <2>1, <2>2 DEF Overlap
<1> QED
  BY <1>1, <1>2

\* A handler that touches data alone is not sure of the collection.
LEMMA DataNotSure ==
  ASSUME Places, Overlap, NEW w \in Workers, req[w].op \in {"insert", "bulk", "delete"}
  PROVE  Active(w) /\ "collection" \notin sure[w] /\ sure[w] \subseteq Keys
<1>1. Active(w) /\ req[w].keys \subseteq Keys
  BY DEF Places, PlaceOK, Active, ValidRequest
<1>2. sure[w] \subseteq Touches(req[w]) /\ Touches(req[w]) = req[w].keys
  BY DEF Overlap, Touches
<1> QED
  BY <1>1, <1>2, NamesAssumption

LEMMA DataKeepsPromises ==
  ASSUME PromiseInv, NEW w \in Workers, DataStep(w)
  PROVE  PromiseInv'
<1> USE DEF PromiseInv
<1>1. /\ Frame(w) /\ Shape' /\ Places' /\ Overlap'
      /\ UNCHANGED <<up, open, managed, crashes>>
  BY FramePlaces, OverlapKept DEF DataStep, Stays, Ends, Frame
<1>2. "collection" \notin sure[w] /\ Active(w)
  BY DataNotSure DEF DataStep
<1>3. \A c \in Collections : promise'[c] = promise[c]
  BY <1>2 DEF DataStep, Stays, Failed, Succeeded
<1>4. \A v \in Workers : req'[v].op \in {"create", "drop"} =>
        /\ v # w /\ req'[v] = req[v] /\ sure'[v] = sure[v] /\ pc'[v] = pc[v]
        /\ pc[v] = "meta" => linked'[v] = linked[v]
        /\ Coll(v) \in Collections
  BY DEF DataStep, Stays, Ends, Frame, NoRequest, Coll, Places, PlaceOK, ValidRequest
<1>5. \A v \in Workers : pc'[v] \in {"wal", "load", "save", "meta", "list", "remove"} =>
        req'[v].op \in {"create", "drop"}
  BY <1>1 DEF Places, PlaceOK
<1>6. \A c \in Collections : /\ disk'[c].meta = disk[c].meta
                             /\ disk[c].exists => disk'[c].exists
                             /\ ~disk'[c].exists => ~disk[c].exists
  BY DEF DataStep
<1>7. Promises'
  BY <1>1, <1>3, <1>4, <1>5, <1>6 DEF Promises, Coll
<1>8. DroppedStaysDropped' /\ CreatedStays'
  BY <1>1, <1>3, <1>6 DEF DroppedStaysDropped, CreatedStays
<1> QED
  BY <1>1, <1>7, <1>8

-----------------------------------------------------------------------------
(* Creations and drops.                                                     *)

\* What a step of a creation or a drop must see to.
CollectionStep(w) ==
  LET c == req[w].coll
      sureOf == "collection" \in sure[w]
  IN /\ req[w].op \in {"create", "drop"}
     /\ Stays(w) \/ (Ends(w) /\ (Failed \/ Succeeded(w)))
     /\ PlaceOK(w)'
     /\ \A e \in Collections \ {c} : /\ disk'[e] = disk[e]
                                     /\ e \in open' <=> e \in open
                                     /\ e \in managed' <=> e \in managed
     /\ \A v \in Workers : pc[v] = "meta" /\ Coll(v) # c => (linked'[v] <=> linked[v])
     /\ ~disk'[c].exists => disk'[c].meta = "absent"
     /\ \A v \in Workers : pc'[v] = "meta" /\ req[v].coll = c /\ linked'[v]
          => disk'[c].exists /\ disk'[c].meta # "absent"
     /\ sureOf =>
          /\ pc'[w] \in {"list", "remove"} => c \notin open'
          /\ pc'[w] = "meta" => linked'[w]
          /\ pc'[w] \in {"wal", "load"} => disk'[c].exists
          /\ pc'[w] \in {"save", "meta"} /\ crashes = 0 => c \in open' \cap managed'
     /\ sureOf /\ Ends(w) /\ ~Failed =>
          /\ req[w].op = "drop" => c \notin open' /\ disk'[c].meta = "absent"
          /\ req[w].op = "create" =>
               disk'[c].meta = "full" /\ (crashes = 0 => c \in open' \cap managed')

LEMMA CollectionKeepsPromises ==
  ASSUME PromiseInv, NEW w \in Workers, CollectionStep(w)
  PROVE  PromiseInv'
<1> USE DEF PromiseInv
<1> DEFINE c == req[w].coll
<1>1. /\ Frame(w) /\ Shape' /\ Places' /\ Overlap'
      /\ UNCHANGED <<up, crashes>>
      /\ Active(w)
  BY FramePlaces, OverlapKept DEF CollectionStep, Stays, Ends, Frame
<1>2. c \in Collections /\ promise[c] = "none" /\ "collection" \in Touches(req[w])
  BY <1>1 DEF Places, PlaceOK, Active, ValidRequest, Promises, Coll, CollectionStep, Touches
<1>3. /\ \A e \in Collections \ {c} : promise'[e] = promise[e]
      /\ \/ promise'[c] = "none"
         \/ Ends(w) /\ ~Failed /\ "collection" \in sure[w] /\ promise'[c] = req[w].op
  BY <1>2 DEF CollectionStep, Stays, Failed, Succeeded, Coll
<1>4. \A v \in Workers \ {w} : Active(v) =>
        /\ pc'[v] = pc[v] /\ req'[v] = req[v] /\ sure'[v] = sure[v]
        /\ req[v].coll \in Collections
        /\ req[v].coll = c => "collection" \notin sure[v]
  <2> SUFFICES ASSUME NEW v \in Workers \ {w}, Active(v)
               PROVE  /\ pc'[v] = pc[v] /\ req'[v] = req[v] /\ sure'[v] = sure[v]
                      /\ req[v].coll \in Collections
                      /\ req[v].coll = c => "collection" \notin sure[v]
    OBVIOUS
  <2>1. pc'[v] = pc[v] /\ req'[v] = req[v] /\ sure'[v] = sure[v]
    BY <1>1 DEF Frame
  <2>2. req[v].coll \in Collections
    BY DEF Places, PlaceOK, Active, ValidRequest
  <2>3. req[v].coll = c => sure[v] \cap Touches(req[w]) = {}
    BY <1>1 DEF Overlap, Coll
  <2> QED
    BY <1>2, <2>1, <2>2, <2>3
<1>5. \A v \in Workers \ {w} : ~Active(v) => req'[v].op = "none" /\ ~Active(v)' /\ sure'[v] = {}
  BY <1>1 DEF Frame, Places, PlaceOK, Active
<1>6. Promises'
  <2>1. \A e \in Collections : ~disk'[e].exists => disk'[e].meta = "absent"
    BY <1>2 DEF Promises, CollectionStep
  <2>2. ASSUME NEW v \in Workers
        PROVE  pc'[v] = "meta" /\ linked'[v]
                 => disk'[req'[v].coll].exists /\ disk'[req'[v].coll].meta # "absent"
    <3> SUFFICES ASSUME pc'[v] = "meta", linked'[v]
                 PROVE  disk'[req'[v].coll].exists /\ disk'[req'[v].coll].meta # "absent"
      OBVIOUS
    <3>1. CASE v = w
      BY <3>1 DEF CollectionStep, Stays, Ends, Active, Coll
    <3>2. CASE v # w /\ req[v].coll = c
      BY <1>4, <1>5, <3>2 DEF CollectionStep, Coll, Active
    <3>3. CASE v # w /\ req[v].coll # c
      <4>1. Active(v) /\ pc[v] = "meta" /\ req'[v] = req[v] /\ linked[v] /\ disk'[req[v].coll] = disk[req[v].coll]
        BY <1>4, <1>5, <3>3 DEF CollectionStep, Coll, Active
      <4> QED
        BY <4>1 DEF Promises, Coll
    <3> QED
      BY <3>1, <3>2, <3>3
  <2>3. ASSUME NEW v \in Workers, req'[v].op \in {"create", "drop"}
        PROVE  promise'[req'[v].coll] = "none"
    <3>1. CASE v = w
      BY <1>2, <1>3, <2>3, <3>1 DEF CollectionStep, Stays, Ends, NoRequest
    <3>2. CASE v # w
      <4>1. Active(v) /\ req'[v] = req[v] /\ promise[req[v].coll] = "none"
        BY <1>4, <1>5, <2>3, <3>2 DEF Promises, Coll
      <4>2. CASE req[v].coll # c
        BY <1>3, <1>4, <4>1, <4>2
      <4>3. CASE req[v].coll = c
        <5>1. "collection" \in Touches(req[v]) /\ sure[w] \cap Touches(req[v]) = {}
          BY <1>1, <2>3, <3>2, <4>1, <4>3 DEF Overlap, Coll, Touches
        <5> QED
          BY <1>3, <4>1, <4>3, <5>1
      <4> QED
        BY <4>2, <4>3
    <3> QED
      BY <3>1, <3>2
  <2>4. ASSUME NEW v \in Workers, "collection" \in sure'[v]
        PROVE  /\ pc'[v] \in {"list", "remove"} => req'[v].coll \notin open'
               /\ pc'[v] = "meta" => linked'[v]
               /\ pc'[v] \in {"wal", "load"} => disk'[req'[v].coll].exists
               /\ pc'[v] \in {"save", "meta"} /\ crashes' = 0
                    => req'[v].coll \in open' \cap managed'
    <3>1. CASE v = w
      BY <1>1, <2>4, <3>1 DEF CollectionStep, Stays, Ends, Coll
    <3>2. CASE v # w
      <4>1. /\ Active(v) /\ pc'[v] = pc[v] /\ req'[v] = req[v] /\ sure'[v] = sure[v]
            /\ req[v].coll # c /\ req[v].coll \in Collections
        BY <1>4, <1>5, <2>4, <3>2
      <4>2. pc[v] = "meta" => (linked'[v] <=> linked[v])
        BY <4>1 DEF CollectionStep, Coll
      <4>3. /\ req[v].coll \in open' <=> req[v].coll \in open
            /\ req[v].coll \in managed' <=> req[v].coll \in managed
            /\ disk'[req[v].coll] = disk[req[v].coll]
        BY <4>1 DEF CollectionStep, Coll
      <4> QED
        BY <1>1, <2>4, <4>1, <4>2, <4>3 DEF Promises, Coll
    <3> QED
      BY <3>1, <3>2
  <2> QED
    BY <2>1, <2>2, <2>3, <2>4 DEF Promises, Coll
<1>7. DroppedStaysDropped'
  BY <1>2, <1>3 DEF DroppedStaysDropped, CollectionStep
<1>8. CreatedStays'
  BY <1>1, <1>2, <1>3 DEF CreatedStays, CollectionStep
<1> QED
  BY <1>1, <1>6, <1>7, <1>8

LEMMA CreateCollectionStep ==
  ASSUME PromiseInv, NEW w \in Workers, CreateCollection(w)
  PROVE  /\ CollectionStep(w) /\ Stays(w) /\ pc[w] = "apply" /\ pc'[w] = "wal"
         /\ UNCHANGED <<buffer, open, managed>>
         /\ \A c \in Collections : disk'[c].segments = disk[c].segments
<1> USE DEF PromiseInv
<1> DEFINE c == req[w].coll
<1>1. /\ up /\ pc[w] = "apply" /\ req[w].op = "create"
      /\ c \in Collections
      /\ UNCHANGED <<up, open, managed, buffer, req, todo, linked, sure, fresh, fate, promise,
                     crashes>>
      /\ Goto(w, "wal")
  BY DEF CreateCollection, Places, PlaceOK, ValidRequest, Coll, clientVars
<1>2. /\ DOMAIN disk' = Collections
      /\ \A e \in Collections : /\ DOMAIN disk'[e] = Fields
                                /\ disk'[e].meta = disk[e].meta
                                /\ disk'[e].segments = disk[e].segments
                                /\ disk'[e].exists = IF e = c THEN TRUE ELSE disk[e].exists
      /\ \A e \in Collections \ {c} : disk'[e] = disk[e]
  <2>1. disk' = [disk EXCEPT ![c].exists = TRUE]
    BY DEF CreateCollection, Coll
  <2> QED
    BY <1>1, <2>1 DEF Shape, Fields
<1>3. Stays(w) /\ pc'[w] = "wal"
  BY <1>1, <1>2 DEF Stays, Frame, Shape, Active, Goto
<1>4. PlaceOK(w)'
  BY <1>1, <1>3 DEF PlaceOK, Places, Stays
<1>5. \A v \in Workers : pc'[v] = "meta" => pc[v] = "meta"
  BY <1>3 DEF Stays, Frame
<1>6. \A v \in Workers : pc'[v] = "meta" /\ req[v].coll = c /\ linked'[v]
          => disk'[c].exists /\ disk'[c].meta # "absent"
  <2> SUFFICES ASSUME NEW v \in Workers, pc'[v] = "meta", req[v].coll = c, linked'[v]
               PROVE  disk'[c].exists /\ disk'[c].meta # "absent"
    OBVIOUS
  <2>1. disk[c].exists /\ disk[c].meta # "absent"
    BY <1>1, <1>5 DEF Promises, Coll
  <2> QED
    BY <1>1, <1>2, <2>1
<1>7. CollectionStep(w)
  BY <1>1, <1>2, <1>3, <1>4, <1>5, <1>6 DEF CollectionStep, Coll, Stays, Ends
<1> QED
  BY <1>1, <1>2, <1>3, <1>7 DEF Coll

\* Opening wal.log and reading the directory end the creation's part in the
\* engine; with no drop beside it, the directory is there.
LEMMA OpenWalStep ==
  ASSUME PromiseInv, NEW w \in Workers, OpenWal(w)
  PROVE  /\ CollectionStep(w) /\ Stays(w) /\ req[w].op = "create"
         /\ pc[w] = "wal" /\ pc'[w] \in {"load", "save"}
         /\ UNCHANGED <<buffer, managed>>
         /\ open \subseteq open' /\ \A e \in open' : e \in open \/ e = Coll(w)
         /\ pc'[w] = "load" => UNCHANGED open
         /\ \A c \in Collections : disk'[c].segments = disk[c].segments
<1> USE DEF PromiseInv
<1> DEFINE c == req[w].coll
<1>1. /\ up /\ pc[w] = "wal" /\ req[w].op = "create"
      /\ c \in Collections
      /\ UNCHANGED <<up, managed, buffer, req, todo, linked, sure, fresh, fate, promise, crashes>>
  BY DEF OpenWal, Places, PlaceOK, ValidRequest, Coll, clientVars
<1>2. \/ Goto(w, "load") /\ UNCHANGED open
      \/ Goto(w, "save") /\ open' = open \cup {c} /\ ~disk[c].exists
  BY DEF OpenWal, Coll
<1>3. /\ DOMAIN disk' = Collections
      /\ \A e \in Collections : /\ DOMAIN disk'[e] = Fields
                                /\ disk'[e].meta = disk[e].meta
                                /\ disk'[e].segments = disk[e].segments
                                /\ disk'[e].exists = disk[e].exists
      /\ \A e \in Collections \ {c} : disk'[e] = disk[e]
  <2>1. disk' = disk \/ disk' = [disk EXCEPT ![c].wal = TRUE]
    BY DEF OpenWal, Coll
  <2> QED
    BY <1>1, <2>1 DEF Shape, Fields
<1>4. Stays(w) /\ pc'[w] \in {"load", "save"} /\ (pc'[w] = "load" => UNCHANGED open)
  BY <1>1, <1>2, <1>3 DEF Stays, Frame, Shape, Active, Goto
<1>5. PlaceOK(w)'
  BY <1>1, <1>4 DEF PlaceOK, Places, Stays
<1>6. \A v \in Workers : pc'[v] = "meta" => pc[v] = "meta"
  BY <1>4 DEF Stays, Frame
<1>7. "collection" \in sure[w] => disk[c].exists /\ pc'[w] = "load"
  BY <1>1, <1>2 DEF Promises, Coll, Shape, Goto
<1>8. CollectionStep(w)
  BY <1>1, <1>2, <1>3, <1>4, <1>5, <1>6, <1>7 DEF CollectionStep, Promises, Coll, Stays, Ends
<1> QED
  BY <1>1, <1>2, <1>3, <1>4, <1>8 DEF Coll

LEMMA LoadSegmentsStep ==
  ASSUME PromiseInv, NEW w \in Workers, LoadSegments(w)
  PROVE  /\ CollectionStep(w) /\ Stays(w) /\ req[w].op = "create"
         /\ pc[w] = "load" /\ pc'[w] = "save"
         /\ open' = open \cup {Coll(w)}
         /\ \A e \in Collections \ {Coll(w)} : /\ buffer'[e] = buffer[e]
                                               /\ e \in managed' => e \in managed
         /\ buffer'[Coll(w)] \subseteq buffer[Coll(w)]
         /\ UNCHANGED disk
<1> USE DEF PromiseInv
<1> DEFINE c == req[w].coll
<1>1. /\ up /\ pc[w] = "load" /\ req[w].op = "create"
      /\ c \in Collections
      /\ open' = open \cup {c}
      /\ Goto(w, "save")
      /\ UNCHANGED <<up, disk, req, todo, linked, sure, fresh, fate, promise, crashes>>
  BY DEF LoadSegments, Places, PlaceOK, ValidRequest, Coll, clientVars
<1>2. \/ disk[c].exists /\ managed' = managed \cup {c} /\ buffer' = [buffer EXCEPT ![c] = {}]
      \/ ~disk[c].exists /\ UNCHANGED <<managed, buffer>>
  BY DEF LoadSegments, Coll
<1>3. /\ DOMAIN buffer' = Collections
      /\ buffer'[c] \subseteq buffer[c]
      /\ \A e \in Collections \ {c} : buffer'[e] = buffer[e] /\ (e \in managed' <=> e \in managed)
  BY <1>1, <1>2 DEF Shape
<1>4. Stays(w) /\ pc'[w] = "save"
  BY <1>1, <1>3 DEF Stays, Frame, Shape, Active, Goto
<1>5. PlaceOK(w)'
  BY <1>1, <1>4 DEF PlaceOK, Places, Stays
<1>6. \A v \in Workers : pc'[v] = "meta" => pc[v] = "meta"
  BY <1>4 DEF Stays, Frame
<1>7. "collection" \in sure[w] => c \in open' \cap managed'
  BY <1>1, <1>2 DEF Promises, Coll
<1>8. CollectionStep(w)
  BY <1>1, <1>3, <1>4, <1>5, <1>6, <1>7 DEF CollectionStep, Promises, Coll, Stays, Ends
<1> QED
  BY <1>1, <1>3, <1>4, <1>8 DEF Coll

LEMMA SaveCollectionStep ==
  ASSUME PromiseInv, NEW w \in Workers, SaveCollection(w)
  PROVE  /\ CollectionStep(w) /\ Stays(w) /\ pc'[w] = "meta"
         /\ UNCHANGED <<buffer, open, managed>>
         /\ \A c \in Collections : disk'[c].segments = disk[c].segments
<1> USE DEF PromiseInv
<1> DEFINE c == req[w].coll
<1>1. /\ up /\ pc[w] = "save" /\ req[w].op = "create"
      /\ c \in Collections
      /\ UNCHANGED <<up, open, managed, buffer, req, todo, sure, fresh, fate, promise, crashes>>
      /\ Goto(w, "meta") /\ linked' = [linked EXCEPT ![w] = TRUE]
  BY DEF SaveCollection, Places, PlaceOK, ValidRequest, Coll, clientVars
<1>2. /\ DOMAIN disk' = Collections
      /\ \A e \in Collections : /\ DOMAIN disk'[e] = Fields
                                /\ disk'[e].meta = IF e = c THEN "empty" ELSE disk[e].meta
                                /\ disk'[e].segments = disk[e].segments
                                /\ disk'[e].exists = IF e = c THEN TRUE ELSE disk[e].exists
      /\ \A e \in Collections \ {c} : disk'[e] = disk[e]
  BY <1>1 DEF SaveCollection, Shape, Fields, Coll
<1>3. Stays(w) /\ pc'[w] = "meta"
  BY <1>1, <1>2 DEF Stays, Frame, Shape, Active, Goto
<1>4. PlaceOK(w)'
  BY <1>1, <1>3 DEF PlaceOK, Places, Stays
<1>5. linked'[w] /\ \A v \in Workers \ {w} : linked'[v] = linked[v]
  BY <1>1 DEF Shape
<1>6. disk'[c].exists /\ disk'[c].meta = "empty"
  BY <1>1, <1>2
<1>7. "collection" \in sure[w] /\ crashes = 0 => c \in open \cap managed
  BY <1>1 DEF Promises, Coll
<1>8. CollectionStep(w)
  BY <1>1, <1>2, <1>3, <1>4, <1>5, <1>6, <1>7 DEF CollectionStep, Coll, Stays, Ends
<1> QED
  BY <1>1, <1>2, <1>3, <1>8 DEF Coll

LEMMA WriteMetaStep ==
  ASSUME PromiseInv, NEW w \in Workers, WriteMeta(w)
  PROVE  /\ CollectionStep(w) /\ Ends(w) /\ Succeeded(w)
         /\ UNCHANGED <<buffer, open, managed>>
         /\ \A c \in Collections : disk'[c].segments = disk[c].segments
<1> USE DEF PromiseInv
<1> DEFINE c == req[w].coll
<1>1. /\ up /\ pc[w] = "meta" /\ req[w].op = "create"
      /\ c \in Collections
      /\ UNCHANGED <<up, open, managed, buffer, crashes>>
      /\ Succeed(w)
  BY DEF WriteMeta, Places, PlaceOK, ValidRequest, Coll
<1>2. /\ DOMAIN disk' = Collections
      /\ \A e \in Collections : /\ DOMAIN disk'[e] = Fields
                                /\ disk'[e].meta = IF e = c /\ linked[w] THEN "full" ELSE disk[e].meta
                                /\ disk'[e].segments = disk[e].segments
                                /\ disk'[e].exists = disk[e].exists
      /\ \A e \in Collections \ {c} : disk'[e] = disk[e]
  BY <1>1 DEF WriteMeta, Shape, Fields, Coll
<1>3. Ends(w) /\ Succeeded(w)
  BY <1>1, <1>2, SucceedEnds DEF Active, Shape
<1>4. PlaceOK(w)'
  BY <1>3 DEF PlaceOK, Ends, Active, NoRequest
<1>5. UNCHANGED linked
  BY <1>1 DEF Succeed, Return
<1>6. \A v \in Workers : pc'[v] = "meta" => v # w /\ pc[v] = "meta"
  BY <1>3 DEF Ends, Frame, Active
<1>7. linked[w] => disk[c].exists
  BY <1>1 DEF Promises, Coll
<1>8. "collection" \in sure[w] => linked[w] /\ (crashes = 0 => c \in open \cap managed)
  BY <1>1 DEF Promises, Coll
<1>9. ~disk[c].exists => disk[c].meta = "absent"
  BY <1>1 DEF Promises
<1>10. \A v \in Workers : pc'[v] = "meta" /\ req[v].coll = c /\ linked'[v]
          => disk'[c].exists /\ disk'[c].meta # "absent"
  BY <1>1, <1>2, <1>5, <1>6 DEF Promises, Coll
<1>11. CollectionStep(w)
  BY <1>1, <1>2, <1>3, <1>4, <1>5, <1>7, <1>8, <1>9, <1>10 DEF CollectionStep, Coll, Ends, Active
<1> QED
  BY <1>1, <1>2, <1>3, <1>11

LEMMA DeleteCollectionStep ==
  ASSUME PromiseInv, NEW w \in Workers, DeleteCollection(w)
  PROVE  /\ CollectionStep(w) /\ Stays(w) /\ pc'[w] = "list" /\ req[w].op = "drop"
         /\ buffer' = [buffer EXCEPT ![Coll(w)] = {}]
         /\ open' = open \ {Coll(w)} /\ managed' = managed \ {Coll(w)}
         /\ UNCHANGED disk
<1> USE DEF PromiseInv
<1> DEFINE c == req[w].coll
<1>1. /\ up /\ pc[w] = "apply" /\ req[w].op = "drop"
      /\ c \in Collections
      /\ UNCHANGED <<up, disk, req, todo, linked, sure, fresh, fate, promise, crashes>>
      /\ Goto(w, "list")
      /\ open' = open \ {c} /\ managed' = managed \ {c} /\ buffer' = [buffer EXCEPT ![c] = {}]
  BY DEF DeleteCollection, Places, PlaceOK, ValidRequest, Coll, clientVars
<1>2. Stays(w) /\ pc'[w] = "list"
  BY <1>1 DEF Stays, Frame, Shape, Active, Goto
<1>3. PlaceOK(w)'
  BY <1>1, <1>2 DEF PlaceOK, Places, Stays
<1>4. \A v \in Workers : pc'[v] = "meta" => pc[v] = "meta"
  BY <1>2 DEF Stays, Frame
<1>5. CollectionStep(w)
  BY <1>1, <1>2, <1>3, <1>4 DEF CollectionStep, Promises, Coll, Stays, Ends
<1> QED
  BY <1>1, <1>2, <1>5 DEF Coll

LEMMA ListDirectoryStep ==
  ASSUME PromiseInv, NEW w \in Workers, ListDirectory(w)
  PROVE  /\ CollectionStep(w) /\ req[w].op = "drop" /\ pc[w] = "list"
         /\ \/ Stays(w) /\ pc'[w] = "remove"
            \/ Ends(w) /\ Succeeded(w)
         /\ UNCHANGED <<buffer, open, managed, disk>>
<1> USE DEF PromiseInv
<1> DEFINE c == req[w].coll
<1>1. /\ up /\ pc[w] = "list" /\ req[w].op = "drop"
      /\ c \in Collections
      /\ UNCHANGED <<up, open, managed, buffer, disk, crashes>>
  BY DEF ListDirectory, Places, PlaceOK, ValidRequest, Coll
<1>2. "collection" \in sure[w] => c \notin open
  BY <1>1 DEF Promises, Coll
<1>3. CASE disk[c].exists
  <2>1. /\ Goto(w, "remove") /\ DOMAIN todo' = Workers
        /\ \A v \in Workers \ {w} : todo'[v] = todo[v]
        /\ todo'[w] \subseteq Entries
        /\ UNCHANGED <<req, linked, sure, fresh, fate, promise>>
    BY <1>3 DEF ListDirectory, Coll, clientVars, Shape
  <2>2. Stays(w) /\ pc'[w] = "remove"
    BY <1>1, <2>1 DEF Stays, Frame, Shape, Active, Goto
  <2>3. PlaceOK(w)'
    BY <1>1, <2>1, <2>2 DEF PlaceOK, Places, Stays
  <2>4. \A v \in Workers : pc'[v] = "meta" => pc[v] = "meta"
    BY <2>2 DEF Stays, Frame
  <2>5. CollectionStep(w)
    BY <1>1, <1>2, <2>1, <2>2, <2>3, <2>4 DEF CollectionStep, Promises, Coll, Stays, Ends
  <2> QED
    BY <1>1, <2>2, <2>5
<1>4. CASE ~disk[c].exists
  <2>1. Succeed(w)
    BY <1>4 DEF ListDirectory, Coll
  <2>2. Ends(w) /\ Succeeded(w)
    BY <1>1, <2>1, SucceedEnds DEF Active, Shape
  <2>3. PlaceOK(w)'
    BY <2>2 DEF PlaceOK, Ends, Active, NoRequest
  <2>4. UNCHANGED linked
    BY <2>1 DEF Succeed, Return
  <2>5. \A v \in Workers : pc'[v] = "meta" => v # w /\ pc[v] = "meta"
    BY <2>2 DEF Ends, Frame, Active
  <2>6. CollectionStep(w)
    BY <1>1, <1>2, <1>4, <2>2, <2>3, <2>4, <2>5 DEF CollectionStep, Promises, Coll, Ends, Active
  <2> QED
    BY <1>1, <2>2, <2>6
<1> QED
  BY <1>3, <1>4

LEMMA RemoveEntryStep ==
  ASSUME PromiseInv, NEW w \in Workers, RemoveEntry(w)
  PROVE  /\ CollectionStep(w) /\ Stays(w) /\ req[w].op = "drop"
         /\ pc[w] = "remove" /\ pc'[w] = "remove"
         /\ UNCHANGED <<buffer, open, managed>>
         /\ \A c \in Collections \ {Coll(w)} : disk'[c] = disk[c]
<1> USE DEF PromiseInv
<1> DEFINE c == req[w].coll
<1>1. /\ up /\ pc[w] = "remove" /\ req[w].op = "drop"
      /\ c \in Collections
      /\ UNCHANGED <<up, open, managed, buffer, pc, req, sure, fresh, fate, promise, crashes>>
  BY DEF RemoveEntry, Places, PlaceOK, ValidRequest, Coll, clientVars
<1>2. PICK e \in todo[w] :
       /\ disk' = [disk EXCEPT ![c] = Without(@, e)]
       /\ todo' = [todo EXCEPT ![w] = @ \ {e}]
       /\ linked' = [v \in Workers |->
                       linked[v] /\ ~(/\ req[v].coll = c
                                      /\ \/ e = "docs" /\ pc[v] = "write"
                                         \/ e = "meta" /\ pc[v] = "meta")]
  BY DEF RemoveEntry, Coll
<1>3. e \in Entries
  BY <1>1 DEF Places, PlaceOK
<1> DEFINE f == Without(disk[c], e)
<1>4. /\ DOMAIN f = Fields
      /\ f.exists = disk[c].exists
      /\ f.meta = IF e = "meta" THEN "absent" ELSE disk[c].meta
  BY <1>1, <1>3 DEF Without, Shape, Fields, Entries
<1>5. disk' = [disk EXCEPT ![c] = f]
  BY <1>2
<1> HIDE DEF f
<1>6. /\ DOMAIN disk' = Collections
      /\ \A d \in Collections : DOMAIN disk'[d] = Fields
      /\ \A d \in Collections \ {c} : disk'[d] = disk[d]
      /\ disk'[c].exists = disk[c].exists
      /\ disk'[c].meta = IF e = "meta" THEN "absent" ELSE disk[c].meta
  BY <1>1, <1>4, <1>5 DEF Shape
<1>7. /\ DOMAIN todo' = Workers /\ todo'[w] = todo[w] \ {e}
      /\ \A v \in Workers \ {w} : todo'[v] = todo[v]
  BY <1>2 DEF Shape
<1>8. /\ DOMAIN linked' = Workers
      /\ \A v \in Workers : /\ linked'[v] => linked[v]
                            /\ pc[v] = "meta" /\ req[v].coll # c => (linked'[v] <=> linked[v])
                            /\ pc[v] = "meta" /\ req[v].coll = c /\ e = "meta" => ~linked'[v]
  <2>1. \A v \in Workers : linked'[v] =
                       (linked[v] /\ ~(/\ req[v].coll = c
                                      /\ \/ e = "docs" /\ pc[v] = "write"
                                         \/ e = "meta" /\ pc[v] = "meta"))
    BY <1>2
  <2> QED
    BY <2>1, <1>2
<1>9. Stays(w) /\ pc'[w] = "remove"
  BY <1>1, <1>6, <1>7, <1>8 DEF Stays, Frame, Shape, Active
<1>10. PlaceOK(w)'
  BY <1>1, <1>7, <1>9 DEF PlaceOK, Places, Stays
<1>11. CollectionStep(w)
  BY <1>1, <1>6, <1>8, <1>9, <1>10 DEF CollectionStep, Promises, Coll, Stays, Ends
<1> QED
  BY <1>1, <1>6, <1>9, <1>11 DEF Coll

LEMMA RemoveDirectoryStep ==
  ASSUME PromiseInv, NEW w \in Workers, RemoveDirectory(w)
  PROVE  /\ CollectionStep(w) /\ Ends(w) /\ req[w].op = "drop" /\ pc[w] = "remove"
         /\ Failed \/ Succeeded(w)
         /\ UNCHANGED <<buffer, open, managed>>
         /\ \A c \in Collections \ {Coll(w)} : disk'[c] = disk[c]
<1> USE DEF PromiseInv
<1> DEFINE c == req[w].coll
<1>1. /\ up /\ pc[w] = "remove" /\ req[w].op = "drop"
      /\ c \in Collections
      /\ UNCHANGED <<up, open, managed, buffer, crashes>>
  BY DEF RemoveDirectory, Places, PlaceOK, ValidRequest, Coll
<1>2. "collection" \in sure[w] => c \notin open
  BY <1>1 DEF Promises, Coll
<1>3. CASE \E e \in Entries : Has(disk[c], e)
  <2>1. Fail(w) /\ UNCHANGED disk
    BY <1>3 DEF RemoveDirectory, Coll
  <2>2. Ends(w) /\ Failed
    BY <1>1, <2>1, FailEnds DEF Active, Shape
  <2>3. PlaceOK(w)'
    BY <2>2 DEF PlaceOK, Ends, Active, NoRequest
  <2>4. UNCHANGED linked
    BY <2>1 DEF Fail, Return
  <2>5. \A v \in Workers : pc'[v] = "meta" => v # w /\ pc[v] = "meta"
    BY <2>2 DEF Ends, Frame, Active
  <2>6. CollectionStep(w)
    BY <1>1, <1>2, <2>1, <2>2, <2>3, <2>4, <2>5 DEF CollectionStep, Promises, Coll, Ends, Active
  <2> QED
    BY <1>1, <2>1, <2>2, <2>6
<1>4. CASE ~\E e \in Entries : Has(disk[c], e)
  <2>1. Succeed(w) /\ disk' = [disk EXCEPT ![c] = NoDirectory]
    BY <1>4 DEF RemoveDirectory, Coll
  <2>2. /\ DOMAIN disk' = Collections
        /\ \A d \in Collections : DOMAIN disk'[d] = Fields
        /\ \A d \in Collections \ {c} : disk'[d] = disk[d]
        /\ disk'[c].meta = "absent"
    BY <1>1, <2>1 DEF Shape, Fields, NoDirectory
  <2>3. Ends(w) /\ Succeeded(w)
    BY <1>1, <2>1, <2>2, SucceedEnds DEF Active, Shape
  <2>4. PlaceOK(w)'
    BY <2>3 DEF PlaceOK, Ends, Active, NoRequest
  <2>5. UNCHANGED linked
    BY <2>1 DEF Succeed, Return
  <2>6. \A v \in Workers : pc'[v] = "meta" => v # w /\ pc[v] = "meta"
    BY <2>3 DEF Ends, Frame, Active
  <2>7. disk[c].meta = "absent"
    BY <1>4 DEF Has, Entries
  <2>8. \A v \in Workers : ~(pc'[v] = "meta" /\ req[v].coll = c /\ linked'[v])
    BY <2>5, <2>6, <2>7 DEF Promises, Coll
  <2>9. CollectionStep(w)
    BY <1>1, <1>2, <2>2, <2>3, <2>4, <2>5, <2>6, <2>8 DEF CollectionStep, Promises, Coll, Ends, Active
  <2> QED
    BY <1>1, <2>2, <2>3, <2>9 DEF Coll
<1> QED
  BY <1>3, <1>4

-----------------------------------------------------------------------------
(* Requests, kills and restarts.                                            *)

LEMMA RequestsValid ==
  ASSUME fresh \subseteq Docs, NEW r \in Requests
  PROVE  ValidRequest(r)
<1> USE NodeKeyAssumption
<1>1. CASE r \in InsertRequests
  <2>1. PICK c \in Collections, d \in fresh \ BulkDocs :
          r = [op |-> "insert", coll |-> c, docs |-> {d}, keys |-> {KeyOf[d]}]
    BY <1>1 DEF InsertRequests
  <2> QED
    BY <2>1 DEF ValidRequest
<1>2. CASE r \in BulkRequests
  <2>1. PICK c \in Collections, D \in SUBSET (fresh \cap BulkDocs) :
          /\ \A d, e \in D : KeyOf[d] = KeyOf[e] => d = e
          /\ r = [op |-> "bulk", coll |-> c, docs |-> D, keys |-> {KeyOf[d] : d \in D}]
    BY <1>2 DEF BulkRequests
  <2> QED
    BY <2>1 DEF ValidRequest
<1>3. CASE r \in DeleteRequests
  BY <1>3 DEF DeleteRequests, ValidRequest
<1>4. CASE r \in CreateRequests
  BY <1>4 DEF CreateRequests, ValidRequest
<1>5. CASE r \in DropRequests
  BY <1>5 DEF DropRequests, ValidRequest
<1> QED
  BY <1>1, <1>2, <1>3, <1>4, <1>5 DEF Requests

\* A request takes what it touches from what the others are sure of.
LEMMA ReceiveStep ==
  ASSUME PromiseInv, NEW w \in Workers, NEW r \in Requests, Receive(w, r)
  PROVE  /\ ValidRequest(r) /\ up /\ pc[w] = "idle"
         /\ Shape' /\ Places' /\ Overlap'
         /\ pc'[w] = "apply" /\ req'[w] = r
         /\ todo'[w] = IF r.op = "delete" THEN r.keys ELSE r.docs
         /\ \A v \in Workers \ {w} :
              /\ pc'[v] = pc[v] /\ req'[v] = req[v] /\ todo'[v] = todo[v]
              /\ sure'[v] \subseteq sure[v]
              /\ Active(v) /\ req[v].coll = r.coll =>
                   sure'[v] \cap Touches(r) = {} /\ sure'[w] \cap Touches(req[v]) = {}
         /\ sure'[w] \subseteq Touches(r)
<1> USE DEF PromiseInv
<1>1. ValidRequest(r)
  BY RequestsValid DEF Shape
<1> DEFINE others == {v \in Workers : pc[v] # "idle" /\ Coll(v) = r.coll}
<1>2. /\ up /\ pc[w] = "idle"
      /\ sure' = [v \in Workers |->
                   IF v = w THEN Touches(r) \ UNION {Touches(req[o]) : o \in others}
                   ELSE IF v \in others THEN sure[v] \ Touches(r) ELSE sure[v]]
      /\ UNCHANGED <<up, open, managed, buffer, disk, item, lines, pos, linked, crashes>>
  BY DEF Receive
<1>3. /\ pc'[w] = "apply" /\ req'[w] = r
      /\ todo'[w] = IF r.op = "delete" THEN r.keys ELSE r.docs
      /\ \A v \in Workers \ {w} : pc'[v] = pc[v] /\ req'[v] = req[v] /\ todo'[v] = todo[v]
  BY DEF Receive, Shape, Goto
<1>4. w \notin others
  BY <1>2
<1>5. sure'[w] \subseteq Touches(r)
  BY <1>2
<1>6. ASSUME NEW v \in Workers \ {w}
      PROVE  /\ sure'[v] \subseteq sure[v]
             /\ Active(v) /\ req[v].coll = r.coll =>
                  sure'[v] \cap Touches(r) = {} /\ sure'[w] \cap Touches(req[v]) = {}
  <2>1. sure'[v] = IF v \in others THEN sure[v] \ Touches(r) ELSE sure[v]
    BY <1>2
  <2>2. sure'[w] = Touches(r) \ UNION {Touches(req[o]) : o \in others}
    BY <1>2
  <2>3. Active(v) /\ req[v].coll = r.coll => v \in others
    BY DEF Active, Coll
  <2> HIDE DEF others
  <2> QED
    BY <2>1, <2>2, <2>3
<1> HIDE DEF others
<1>7. Shape'
  <2>1. DOMAIN pc' = Workers /\ DOMAIN req' = Workers /\ DOMAIN todo' = Workers
    BY DEF Receive, Shape, Goto
  <2>2. DOMAIN sure' = Workers
    BY <1>2
  <2>3. DOMAIN fate' = Collections /\ DOMAIN promise' = Collections /\ fresh' \subseteq Docs
    BY DEF Receive, Shape
  <2> QED
    BY <1>2, <2>1, <2>2, <2>3 DEF Shape
<1>8. Places'
  <2> SUFFICES ASSUME NEW v \in Workers PROVE PlaceOK(v)'
    BY DEF Places
  <2>1. CASE v = w
    BY <1>1, <1>2, <1>3, <2>1 DEF PlaceOK, ValidRequest
  <2>2. CASE v # w
    <3>1. PlaceOK(v) /\ pc'[v] = pc[v] /\ req'[v] = req[v] /\ todo'[v] = todo[v]
            /\ sure'[v] \subseteq sure[v] /\ up' = up
      BY <1>2, <1>3, <1>6, <2>2 DEF Places
    <3> QED
      BY <3>1 DEF PlaceOK
  <2> QED
    BY <2>1, <2>2
<1>9. Overlap'
  <2>1. ASSUME NEW v \in Workers, NEW u \in Workers \ {v},
               pc'[u] # "idle", pc'[v] # "idle", req'[u].coll = req'[v].coll
        PROVE  sure'[v] \cap Touches(req'[u]) = {}
    <3>1. CASE v = w
      BY <1>3, <1>6, <2>1, <3>1 DEF Active
    <3>2. CASE u = w
      BY <1>3, <1>6, <2>1, <3>2 DEF Active
    <3>3. CASE v # w /\ u # w
      <4>1. sure[v] \cap Touches(req[u]) = {}
        BY <1>3, <2>1, <3>3 DEF Overlap, Active, Coll
      <4> QED
        BY <1>3, <1>6, <3>3, <4>1
    <3> QED
      BY <3>1, <3>2, <3>3
  <2>2. \A v \in Workers : sure'[v] \subseteq Touches(req'[v])
    BY <1>3, <1>5, <1>6 DEF Overlap
  <2> QED
    BY <2>1, <2>2 DEF Overlap, Active, Coll, Touches
<1> QED
  BY <1>1, <1>2, <1>3, <1>5, <1>6, <1>7, <1>8, <1>9

LEMMA ReceiveKeepsPromises ==
  ASSUME PromiseInv, NEW w \in Workers, NEW r \in Requests, Receive(w, r)
  PROVE  PromiseInv'
<1> USE DEF PromiseInv
<1>1. /\ ValidRequest(r) /\ up /\ pc[w] = "idle"
      /\ Shape' /\ Places' /\ Overlap'
      /\ pc'[w] = "apply" /\ req'[w] = r
      /\ \A v \in Workers \ {w} : /\ pc'[v] = pc[v] /\ req'[v] = req[v]
                                  /\ sure'[v] \subseteq sure[v]
  BY ReceiveStep
<1>2. UNCHANGED <<up, open, managed, disk, linked, crashes>>
  BY DEF Receive
<1>3. \A c \in Collections : \/ promise'[c] = promise[c]
                             \/ promise'[c] = "none"
  BY <1>1 DEF Receive, Shape
<1>4. r.op \in {"create", "drop"} => promise'[r.coll] = "none"
  BY <1>1 DEF Receive, Shape, ValidRequest
<1>5. \A v \in Workers \ {w} : req[v].op \in {"create", "drop"} => promise'[req[v].coll] = "none"
  <2> SUFFICES ASSUME NEW v \in Workers \ {w}, req[v].op \in {"create", "drop"}
               PROVE  promise'[req[v].coll] = "none"
    OBVIOUS
  <2>1. req[v].coll \in Collections /\ promise[req[v].coll] = "none"
    BY DEF Places, PlaceOK, ValidRequest, Promises, Coll
  <2> QED
    BY <1>3, <2>1
<1>6. Promises'
  BY <1>1, <1>2, <1>4, <1>5 DEF Promises, Coll
<1>7. DroppedStaysDropped' /\ CreatedStays'
  BY <1>2, <1>3 DEF DroppedStaysDropped, CreatedStays
<1> QED
  BY <1>1, <1>6, <1>7

LEMMA CrashKeepsPromises ==
  ASSUME PromiseInv, Crash
  PROVE  PromiseInv' /\ crashes' > 0
<1> USE DEF PromiseInv
<1>1. /\ crashes' = crashes + 1 /\ up' = FALSE /\ open' = {}
      /\ buffer' = [c \in Collections |-> {}]
      /\ pc' = [w \in Workers |-> "idle"]
      /\ req' = [w \in Workers |-> NoRequest]
      /\ todo' = [w \in Workers |-> {}]
      /\ linked' = [w \in Workers |-> FALSE]
      /\ sure' = [w \in Workers |-> {}]
      /\ UNCHANGED <<disk, fresh, fate, promise, requests>>
  BY DEF Crash
<1>2. Shape' /\ crashes' > 0
  BY <1>1 DEF Shape
<1>3. \A w \in Workers : pc'[w] = "idle" /\ req'[w].op = "none" /\ sure'[w] = {} /\ todo'[w] = {}
  BY <1>1 DEF NoRequest
<1>4. Places'
  BY <1>3 DEF Places, PlaceOK
<1>5. Overlap'
  BY <1>3 DEF Overlap, Active
<1>6. Promises'
  BY <1>1, <1>3 DEF Promises
<1>7. DroppedStaysDropped' /\ CreatedStays'
  BY <1>1 DEF DroppedStaysDropped, CreatedStays
<1> QED
  BY <1>2, <1>4, <1>5, <1>6, <1>7

LEMMA RestartKeepsPromises ==
  ASSUME PromiseInv, Restart
  PROVE  PromiseInv' /\ crashes' > 0 /\ \A w \in Workers : ~Active(w) /\ ~Active(w)'
<1> USE DEF PromiseInv
<1>1. ~up /\ up' = TRUE
      /\ UNCHANGED <<pc, req, todo, linked, fresh, sure, fate, promise, crashes>>
  BY DEF Restart, handlerVars, clientVars
<1>2. PICK L \in LoadSets :
       /\ open' = {c \in L : disk[c].meta = "full"}
       /\ buffer' = [c \in Collections |-> IF c \in open' THEN Loaded(c).buffer ELSE {}]
       /\ disk' = [c \in Collections |->
                     IF c \in open'
                       THEN [disk[c] EXCEPT !.segments = Loaded(c).segments, !.wal = TRUE]
                       ELSE disk[c]]
  BY DEF Restart
<1>3. \A c \in open' : disk[c].meta = "full"
  BY <1>2
<1>4. /\ DOMAIN disk' = Collections /\ DOMAIN buffer' = Collections
      /\ \A c \in Collections : /\ DOMAIN disk'[c] = Fields
                                /\ disk'[c].meta = disk[c].meta
                                /\ disk'[c].exists = disk[c].exists
  <2> DEFINE loaded(c) == Loaded(c).segments
  <2>1. disk' = [c \in Collections |->
                  IF c \in open' THEN [disk[c] EXCEPT !.segments = loaded(c), !.wal = TRUE]
                                 ELSE disk[c]]
    BY <1>2
  <2> HIDE DEF loaded
  <2> QED
    BY <1>2, <2>1 DEF Shape, Fields
<1>5. crashes > 0 /\ crashes \in Nat
  BY <1>1 DEF Shape
<1>6. Shape'
  BY <1>1, <1>4, <1>5 DEF Shape
<1>7. \A w \in Workers : pc[w] = "idle" /\ req[w].op = "none" /\ sure[w] = {}
  BY <1>1 DEF Places, PlaceOK
<1>8. Places'
  BY <1>1, <1>7 DEF Places, PlaceOK
<1>9. Overlap'
  BY <1>1, <1>7 DEF Overlap, Active
<1>10. Promises'
  BY <1>1, <1>4, <1>7 DEF Promises
<1>11. DroppedStaysDropped' /\ CreatedStays'
  BY <1>1, <1>3, <1>4, <1>5 DEF DroppedStaysDropped, CreatedStays
<1> QED
  BY <1>1, <1>5, <1>6, <1>7, <1>8, <1>9, <1>10, <1>11 DEF Active

-----------------------------------------------------------------------------
(* The replies about collections.                                           *)

LEMMA FileStepsOf ==
  ASSUME Shape, Places, NEW w \in Workers,
         \/ SaveDocument(w) \/ RemoveDocument(w) \/ TruncateFile(w)
         \/ WriteLine(w) \/ FileWritten(w)
  PROVE  FileStep(w)
  BY SaveDocumentStep, RemoveDocumentStep, TruncateFileStep, WriteLineStep, FileWrittenStep

LEMMA PromiseInit ==
  ASSUME Init
  PROVE  PromiseInv
<1>1. Shape
  BY DEF Init, Shape, NoDirectory, Fields
<1>2. \A w \in Workers : pc[w] = "idle" /\ req[w].op = "none" /\ sure[w] = {}
  BY DEF Init, NoRequest
<1>3. Places
  BY <1>2 DEF Places, PlaceOK
<1>4. Overlap
  BY <1>2 DEF Overlap, Active
<1>5. Promises
  BY <1>2 DEF Promises, Init, NoDirectory
<1>6. DroppedStaysDropped /\ CreatedStays
  BY DEF Init, DroppedStaysDropped, CreatedStays
<1> QED
  BY <1>1, <1>3, <1>4, <1>5, <1>6 DEF PromiseInv

LEMMA PromiseStep ==
  ASSUME PromiseInv, [Next]_vars
  PROVE  PromiseInv'
<1>1. ASSUME NEW w \in Workers, NEW r \in Requests, Receive(w, r) PROVE PromiseInv'
  BY <1>1, ReceiveKeepsPromises
<1>2. ASSUME NEW w \in Workers,
             CreateCollection(w) \/ OpenWal(w) \/ LoadSegments(w) \/ SaveCollection(w) \/ WriteMeta(w)
               \/ DeleteCollection(w) \/ ListDirectory(w) \/ RemoveEntry(w) \/ RemoveDirectory(w)
      PROVE  PromiseInv'
  <2>1. CollectionStep(w)
    BY <1>2, CreateCollectionStep, OpenWalStep, LoadSegmentsStep, SaveCollectionStep, WriteMetaStep, DeleteCollectionStep,
       ListDirectoryStep, RemoveEntryStep, RemoveDirectoryStep
  <2> QED
    BY <2>1, CollectionKeepsPromises
<1>3. ASSUME NEW w \in Workers,
             InsertDocument(w) \/ DeleteDocument(w) \/ SaveDocument(w) \/ RemoveDocument(w)
               \/ TruncateFile(w) \/ WriteLine(w) \/ FileWritten(w)
      PROVE  PromiseInv'
  <2>1. DataStep(w)
    BY <1>3, InsertDocumentStep, DeleteDocumentStep, FileStepsOf DEF FileStep, PromiseInv
  <2> QED
    BY <2>1, DataKeepsPromises
<1>4. CASE Crash
  BY <1>4, CrashKeepsPromises
<1>5. CASE Restart
  BY <1>5, RestartKeepsPromises
<1>6. CASE UNCHANGED vars
  <2>1. UNCHANGED <<up, open, managed, buffer, disk, pc, req, todo, linked, fresh, sure, fate, promise, crashes>>
    BY <1>6 DEF vars, handlerVars, clientVars
  <2>2. Shape'
    BY <2>1 DEF PromiseInv, Shape
  <2>3. Places'
    BY <2>1 DEF PromiseInv, Places, PlaceOK
  <2>4. Overlap' /\ Promises'
    BY <2>1 DEF PromiseInv, Overlap, Promises, Active, Coll, Touches
  <2> QED
    BY <2>1, <2>2, <2>3, <2>4 DEF PromiseInv, DroppedStaysDropped, CreatedStays
<1> QED
  BY <1>1, <1>2, <1>3, <1>4, <1>5, <1>6 DEF Next, HandlerStep

\* The replies of every handler under way rest on what the invariant says of
\* the directory and the registry, whatever the other handlers and kills do.
THEOREM PromisesInvariant == Spec => []PromiseInv
  BY PromiseInit, PromiseStep, PTL DEF Spec

\* No interleaving of handlers, kills and restarts opens a dropped collection
\* again, or leaves a meta.json that would (persistence.rs, delete_collection).
THEOREM DroppedStaysDroppedHolds == Spec => []DroppedStaysDropped
  BY PromisesInvariant, PTL DEF PromiseInv

\* A created collection keeps a complete meta.json, and stays open, with a segment
\* manager, until a kill (persistence.rs, save_collection; engine.rs,
\* create_collection).
THEOREM CreatedStaysHolds == Spec => []CreatedStays
  BY PromisesInvariant, PTL DEF PromiseInv

-----------------------------------------------------------------------------
(* The replies about documents.                                             *)

LEMMA FatesKept ==
  ASSUME Places, Overlap, Fates, NEW w \in Workers,
         Stays(w) \/ (Ends(w) /\ (Failed \/ Succeeded(w)))
  PROVE  Fates'
<1>1. CASE Stays(w) \/ (Ends(w) /\ Failed)
  <2>1. \A v \in Workers : Active(v)' => Active(v) /\ req'[v] = req[v]
    BY <1>1 DEF Stays, Ends, Frame, Active
  <2>2. UNCHANGED fate
    BY <1>1 DEF Stays, Failed
  <2> QED
    BY <2>1, <2>2 DEF Fates, Coll
<1>2. CASE Ends(w) /\ Succeeded(w)
  <2>1. Active(w) /\ ValidRequest(req[w])
    BY <1>2 DEF Ends, Places, PlaceOK, Active
  <2>2. ASSUME NEW v \in Workers, Active(v)', NEW k \in req'[v].keys
        PROVE  fate'[req'[v].coll][k] = "unknown"
    <3>1. v # w /\ Active(v) /\ req'[v] = req[v] /\ ValidRequest(req[v])
      BY <1>2, <2>2 DEF Ends, Frame, Active, Places, PlaceOK
    <3>2. fate[req[v].coll][k] = "unknown" /\ k \in Touches(req[v])
      BY <2>2, <3>1 DEF Fates, Coll, Touches, ValidRequest
    <3>3. req[v].coll = req[w].coll => k \notin sure[w]
      BY <2>1, <3>1, <3>2 DEF Overlap, Coll
    <3>4. k \in Keys /\ req[v].coll \in Collections
      BY <2>2, <3>1 DEF ValidRequest
    <3> QED
      BY <1>2, <3>1, <3>2, <3>3, <3>4 DEF Succeeded, Coll
  <2>3. ASSUME NEW c \in Collections, NEW k \in Keys, fate'[c][k] \in Docs
        PROVE  KeyOf[fate'[c][k]] = k
    <3>1. CASE c = Coll(w) /\ k \in req[w].keys \cap sure[w]
      <4>1. fate'[c][k] = OutcomeOf(req[w], k)
        BY <1>2, <3>1 DEF Succeeded
      <4>2. req[w].op \in {"insert", "bulk"}
        BY <2>3, <4>1, NamesAssumption DEF OutcomeOf
      <4>3. \E d \in req[w].docs : KeyOf[d] = k
        BY <2>1, <3>1, <4>2 DEF ValidRequest
      <4> QED
        BY <4>1, <4>2, <4>3 DEF OutcomeOf
    <3>2. CASE ~(c = Coll(w) /\ k \in req[w].keys \cap sure[w])
      BY <1>2, <2>3, <3>2 DEF Succeeded, Fates
    <3> QED
      BY <3>1, <3>2
  <2> QED
    BY <2>2, <2>3 DEF Fates, Coll
<1> QED
  BY <1>1, <1>2

LEMMA FatesReceive ==
  ASSUME PromiseInv, Fates, NEW w \in Workers, NEW r \in Requests, Receive(w, r)
  PROVE  Fates'
<1>1. /\ ValidRequest(r)
      /\ pc'[w] = "apply" /\ req'[w] = r
      /\ \A v \in Workers \ {w} : pc'[v] = pc[v] /\ req'[v] = req[v]
  BY ReceiveStep
<1>2. \A c \in Collections, k \in Keys :
        fate'[c][k] = IF c = r.coll /\ k \in r.keys THEN "unknown" ELSE fate[c][k]
  BY <1>1 DEF Receive, PromiseInv, Shape, ValidRequest
<1>3. ASSUME NEW v \in Workers, pc'[v] # "idle", NEW k \in req'[v].keys
      PROVE  fate'[req'[v].coll][k] = "unknown"
  <2>1. CASE v = w
    BY <1>1, <1>2, <1>3, <2>1 DEF ValidRequest
  <2>2. CASE v # w
    <3>1. req'[v] = req[v] /\ ValidRequest(req[v]) /\ Active(v)
      BY <1>1, <1>3, <2>2 DEF PromiseInv, Places, PlaceOK, Active
    <3>2. fate[req[v].coll][k] = "unknown"
      BY <1>3, <3>1 DEF Fates, Coll
    <3> QED
      BY <1>2, <1>3, <3>1, <3>2 DEF ValidRequest
  <2> QED
    BY <2>1, <2>2
<1> QED
  BY <1>2, <1>3, NamesAssumption DEF Fates, Active, Coll

LEMMA OneCreationKept ==
  ASSUME Places, OneCreation, NEW w \in Workers, Stays(w) \/ Ends(w),
         pc'[w] \notin {"apply", "wal", "load"} \/ req[w].op # "create" \/ Coll(w) \notin open',
         \A c \in open' : c \in open \/ (req[w].op = "create" /\ c = Coll(w))
  PROVE  OneCreation'
<1>1. \A v \in Workers : req'[v].op = "create" =>
        /\ req'[v] = req[v] /\ (v # w => pc'[v] = pc[v])
  BY DEF Stays, Ends, Frame, NoRequest
<1>2. ASSUME NEW v \in Workers, req'[v].op = "create", pc'[v] \in {"apply", "wal", "load"},
             req'[v].coll \in open'
      PROVE  FALSE
  <2>1. v # w /\ pc[v] \in {"apply", "wal", "load"} /\ req'[v] = req[v]
    BY <1>1, <1>2 DEF Coll
  <2>2. req[v].coll \notin open
    BY <1>2, <2>1 DEF OneCreation, Coll
  <2>3. req[w].op = "create" /\ req[w].coll = req[v].coll
    BY <1>2, <2>1, <2>2 DEF Coll
  <2> QED
    BY <1>2, <2>1, <2>3 DEF OneCreation, Coll
<1>3. \A v, u \in Workers :
        req'[v].op = "create" /\ req'[u].op = "create" /\ req'[u].coll = req'[v].coll => u = v
  BY <1>1 DEF OneCreation, Coll
<1> QED
  BY <1>2, <1>3 DEF OneCreation, Coll

\* What a step of a handler may do to the engine: to the documents of its
\* request what the request says, and nothing to any other document.
EngineStep(w) ==
  LET c == req[w].coll
      stored == buffer'[c] \cup disk'[c].segments
  IN /\ \A e \in Collections \ {c} : /\ buffer'[e] = buffer[e]
                                     /\ disk'[e].segments = disk[e].segments
                                     /\ e \in open => e \in open'
                                     /\ e \in managed' => e \in managed
     /\ c \in open /\ req[w].op # "drop" => c \in open' /\ (c \in managed' => c \in managed)
     /\ c \in open => \A d \in Docs \cap Stored(c) : KeyOf[d] \notin req[w].keys => d \in stored
     /\ \A b \in buffer'[c] : b \in buffer[c] \/ KeyOf[b] \in req[w].keys
     /\ Stays(w) => ProgressOf(w)'
     /\ Ends(w) /\ ~Failed =>
          /\ req[w].op \in {"insert", "bulk"} =>
               \A d \in req[w].docs :
                 KeyOf[d] \in sure[w] => c \in open' /\ (c \in managed' => d \in stored)
          /\ req[w].op \in {"delete", "drop"} =>
               \A k \in req[w].keys \cap sure[w] : \A b \in buffer'[c] : KeyOf[b] # k

\* What the other handlers have done stays done.
LEMMA ProgressKept ==
  ASSUME PromiseInv, Progress, NEW w \in Workers,
         Stays(w) \/ (Ends(w) /\ (Failed \/ Succeeded(w))), EngineStep(w)
  PROVE  Progress'
<1> USE DEF PromiseInv
<1> SUFFICES ASSUME NEW v \in Workers PROVE ProgressOf(v)'
  BY DEF Progress
<1>1. CASE v = w
  <2>1. CASE Stays(w)
    BY <1>1, <2>1 DEF EngineStep
  <2>2. CASE Ends(w)
    BY <1>1, <2>2 DEF Ends, ProgressOf, NoRequest, Active
  <2> QED
    BY <2>1, <2>2
<1>2. CASE v # w /\ ~Active(v)
  <2>1. req'[v].op = "none" /\ pc'[v] = "idle"
    BY <1>2 DEF Stays, Ends, Frame, Places, PlaceOK, Active
  <2> QED
    BY <2>1 DEF ProgressOf
<1>3. CASE v # w /\ Active(v)
  <2>1. /\ Active(w) /\ ValidRequest(req[w]) /\ ValidRequest(req[v])
        /\ pc'[v] = pc[v] /\ req'[v] = req[v] /\ todo'[v] = todo[v] /\ sure'[v] = sure[v]
    BY <1>3 DEF Stays, Ends, Frame, Places, PlaceOK, Active
  <2> DEFINE c == req[v].coll
  <2>2. c = req[w].coll => sure[v] \cap Touches(req[w]) = {} /\ req[w].keys \subseteq Touches(req[w])
    BY <1>3, <2>1 DEF Overlap, Coll, Touches, ValidRequest
  <2>3. c \in Collections /\ ProgressOf(v)
    BY <2>1 DEF ValidRequest, Progress
  <2>4. req[v].op \in {"insert", "bulk", "delete"} /\ sure[v] # {} =>
          c \in open /\ c \in open' /\ (c \in managed' => c \in managed)
    <3> SUFFICES ASSUME req[v].op \in {"insert", "bulk", "delete"}, sure[v] # {}
                 PROVE  c \in open /\ c \in open' /\ (c \in managed' => c \in managed)
      OBVIOUS
    <3>1. c \in open
      BY <2>3 DEF ProgressOf
    <3>2. sure[v] \subseteq Keys
      BY DataNotSure
    <3>3. c = req[w].coll => req[w].op # "drop"
      BY <2>2, <3>2 DEF Touches
    <3> QED
      BY <2>3, <3>1, <3>3 DEF EngineStep
  <2>5. ASSUME req[v].op \in {"insert", "bulk"}, NEW d \in req[v].docs \ todo[v], KeyOf[d] \in sure[v],
               c \in managed'
        PROVE  d \in buffer'[c] \cup disk'[c].segments
    <3>1. d \in Docs /\ d \in Stored(c) /\ c \in open
      BY <2>1, <2>3, <2>4, <2>5 DEF ProgressOf, ValidRequest
    <3>2. c = req[w].coll => KeyOf[d] \notin req[w].keys
      BY <2>2, <2>5
    <3> QED
      BY <2>3, <3>1, <3>2 DEF EngineStep, Stored
  <2>6. ASSUME NEW k \in sure[v], Clear(c, k)
        PROVE  \A b \in buffer'[c] : KeyOf[b] # k
    BY <2>2, <2>3, <2>6 DEF EngineStep, Clear
  <2>7. ProgressOf(v)'
    BY <2>1, <2>3, <2>4, <2>5, <2>6 DEF ProgressOf, Stored, Clear
  <2> QED
    BY <2>7
<1> QED
  BY <1>1, <1>2, <1>3

\* The replies given so far, and the one this step gives, hold of the engine.
LEMMA RepliesKept ==
  ASSUME PromiseInv, Fates, MemoryMatchesReplies, crashes = 0, NEW w \in Workers,
         Stays(w) \/ (Ends(w) /\ (Failed \/ Succeeded(w))), EngineStep(w)
  PROVE  MemoryMatchesReplies'
<1> USE DEF PromiseInv
<1> DEFINE r == req[w]
<1>1. Active(w) /\ up /\ ValidRequest(r) /\ r.coll \in Collections
  BY DEF Stays, Ends, Places, PlaceOK, Active, ValidRequest
<1>2. ASSUME NEW c \in Collections, NEW k \in Keys
      PROVE  /\ fate'[c][k] \in Docs =>
                  /\ c \in open'
                  /\ c \in managed' => fate'[c][k] \in buffer'[c] \cup disk'[c].segments
             /\ fate'[c][k] = "absent" => \A b \in buffer'[c] : KeyOf[b] # k
  <2>1. /\ fate[c][k] \in Docs => /\ c \in open /\ KeyOf[fate[c][k]] = k
                                  /\ c \in managed => fate[c][k] \in Stored(c)
        /\ fate[c][k] = "absent" => \A b \in buffer[c] : KeyOf[b] # k
    BY <1>1 DEF MemoryMatchesReplies, Fates
  <2>2. CASE c # r.coll
    <3>1. fate'[c][k] = fate[c][k]
      BY <2>2 DEF Stays, Failed, Succeeded, Coll
    <3>2. buffer'[c] = buffer[c] /\ disk'[c].segments = disk[c].segments
            /\ (c \in open => c \in open') /\ (c \in managed' => c \in managed)
      BY <2>2 DEF EngineStep
    <3> QED
      BY <2>1, <3>1, <3>2 DEF Stored
  <2>3. CASE c = r.coll /\ fate'[c][k] = fate[c][k] /\ k \in r.keys
    <3>1. fate[c][k] = "unknown"
      BY <1>1, <2>3 DEF Fates, Coll
    <3> QED
      BY <2>3, <3>1, NamesAssumption
  <2>4. CASE c = r.coll /\ fate'[c][k] = fate[c][k] /\ k \notin r.keys
    <3>1. r.op # "drop"
      BY <1>1, <2>4 DEF ValidRequest
    <3>2. /\ c \in open => c \in open' /\ (c \in managed' => c \in managed)
          /\ c \in open => \A d \in Docs \cap Stored(c) : KeyOf[d] \notin r.keys
                             => d \in buffer'[c] \cup disk'[c].segments
          /\ \A b \in buffer'[c] : b \in buffer[c] \/ KeyOf[b] \in r.keys
      BY <2>4, <3>1 DEF EngineStep
    <3> QED
      BY <2>1, <2>4, <3>2
  <2>5. CASE c = r.coll /\ fate'[c][k] # fate[c][k]
    <3>1. /\ Ends(w) /\ ~Failed /\ k \in r.keys \cap sure[w]
          /\ fate'[c][k] = OutcomeOf(r, k)
      BY <2>5 DEF Stays, Failed, Succeeded, Coll
    <3>2. CASE r.op \in {"insert", "bulk"}
      <4>1. PICK d \in r.docs : KeyOf[d] = k
        BY <1>1, <3>1, <3>2 DEF ValidRequest
      <4>2. OutcomeOf(r, k) = d
        BY <1>1, <3>2, <4>1 DEF OutcomeOf, ValidRequest
      <4>3. c \in open' /\ (c \in managed' => d \in buffer'[c] \cup disk'[c].segments)
        BY <2>5, <3>1, <3>2, <4>1 DEF EngineStep
      <4>4. d \in Docs /\ d # "absent"
        BY <1>1, NamesAssumption DEF ValidRequest
      <4> QED
        BY <3>1, <4>2, <4>3, <4>4
    <3>3. CASE r.op \in {"delete", "drop"}
      <4>1. \A b \in buffer'[c] : KeyOf[b] # k
        BY <2>5, <3>1, <3>3 DEF EngineStep
      <4>2. OutcomeOf(r, k) = "absent"
        BY <3>3 DEF OutcomeOf
      <4> QED
        BY <3>1, <4>1, <4>2, NamesAssumption
    <3>4. r.op # "create"
      BY <1>1, <3>1 DEF ValidRequest
    <3> QED
      BY <1>1, <3>2, <3>3, <3>4 DEF ValidRequest
  <2> QED
    BY <2>2, <2>3, <2>4, <2>5
<1> QED
  BY <1>2 DEF MemoryMatchesReplies, Stored

LEMMA FileStepEngine ==
  ASSUME PromiseInv, Progress, NEW w \in Workers, FileStep(w)
  PROVE  EngineStep(w)
<1> USE DEF PromiseInv
<1> DEFINE c == req[w].coll
<1>1. /\ UNCHANGED <<open, managed, buffer>>
      /\ \A e \in Collections : disk'[e].segments = disk[e].segments
      /\ req[w].op \in {"insert", "bulk", "delete"}
      /\ pc[w] \in {"read", "truncate", "write"}
      /\ Active(w) /\ ValidRequest(req[w]) /\ c \in Collections
      /\ ProgressOf(w)
  BY DEF FileStep, DataStep, Places, PlaceOK, Active, ValidRequest, Progress
<1>2. ASSUME Stays(w) PROVE ProgressOf(w)'
  <2>1. req'[w] = req[w] /\ sure'[w] = sure[w] /\ todo'[w] = todo[w]
          /\ pc'[w] \notin {"list", "remove"}
    BY <1>2 DEF FileStep, DataStep, Stays, Ends
  <2> QED
    BY <1>1, <2>1 DEF ProgressOf, Stored, Clear
<1>3. ASSUME Ends(w), ~Failed PROVE todo[w] = {}
  BY <1>3 DEF FileStep, Stays, Ends
<1> QED
  BY <1>1, <1>2, <1>3 DEF EngineStep, ProgressOf, Stored, Clear

LEMMA InsertDocumentEngine ==
  ASSUME PromiseInv, Progress, NEW w \in Workers, InsertDocument(w)
  PROVE  EngineStep(w)
<1> USE DEF PromiseInv
<1> DEFINE c == req[w].coll
<1>1. /\ DataStep(w)
      /\ req[w].op \in {"insert", "bulk"}
      /\ ValidRequest(req[w]) /\ c \in Collections
      /\ todo[w] \subseteq req[w].docs
      /\ ProgressOf(w)
      /\ UNCHANGED <<open, managed>>
  BY InsertDocumentStep DEF DataStep, Places, PlaceOK, ValidRequest, Progress
<1>2. PICK d \in todo[w] :
        /\ \/ Stays(w) /\ todo'[w] = todo[w] \ {d}
           \/ Ends(w) /\ Succeeded(w) /\ todo[w] = {d}
        /\ c \in managed => Ingested(c, d)
        /\ c \notin managed => UNCHANGED <<buffer, disk>>
        /\ \A e \in Collections \ {c} :
             buffer'[e] = buffer[e] /\ disk'[e].segments = disk[e].segments
  BY InsertDocumentStep DEF Coll
<1>3. KeyOf[d] \in req[w].keys /\ d \in req[w].docs
  BY <1>1 DEF ValidRequest
<1>4. sure[w] # {} => c \in open
  BY <1>1 DEF ProgressOf
<1>5. ASSUME NEW e \in req[w].docs, e \notin todo[w] \ {d}, KeyOf[e] \in sure[w]
      PROVE  c \in open /\ (c \in managed => e \in buffer'[c] \cup disk'[c].segments)
  <2> SUFFICES ASSUME c \in managed PROVE e \in buffer'[c] \cup disk'[c].segments
    BY <1>4, <1>5
  <2>1. c \in managed
    OBVIOUS
  <2>2. CASE e = d
    BY <1>2, <2>1, <2>2 DEF Ingested
  <2>3. CASE e # d
    <3>1. KeyOf[e] # KeyOf[d] /\ e \in Stored(c)
      BY <1>1, <1>3, <1>5, <2>3 DEF ValidRequest, ProgressOf
    <3> QED
      BY <1>2, <2>1, <3>1 DEF Ingested
  <2> QED
    BY <2>2, <2>3
<1>6. ASSUME Stays(w) PROVE ProgressOf(w)'
  <2>1. req'[w] = req[w] /\ sure'[w] = sure[w] /\ todo'[w] = todo[w] \ {d}
          /\ pc'[w] \notin {"list", "remove"}
    BY <1>1, <1>2, <1>6 DEF DataStep, Stays, Ends
  <2> QED
    BY <1>1, <1>4, <1>5, <2>1 DEF ProgressOf, Stored
<1>7. ASSUME Ends(w) PROVE todo[w] = {d}
  BY <1>2, <1>7 DEF Stays, Ends
<1>8. c \in open => \A e \in Docs \cap Stored(c) : KeyOf[e] \notin req[w].keys
                      => e \in buffer'[c] \cup disk'[c].segments
  BY <1>2, <1>3 DEF Ingested, Stored
<1>9. \A b \in buffer'[c] : b \in buffer[c] \/ KeyOf[b] \in req[w].keys
  BY <1>2, <1>3 DEF Ingested
<1> QED
  BY <1>1, <1>2, <1>5, <1>6, <1>7, <1>8, <1>9 DEF EngineStep

LEMMA DeleteDocumentEngine ==
  ASSUME PromiseInv, Progress, NEW w \in Workers, DeleteDocument(w)
  PROVE  EngineStep(w)
<1> USE DEF PromiseInv
<1> DEFINE c == req[w].coll
<1>1. /\ DataStep(w) /\ Stays(w)
      /\ req[w].op = "delete"
      /\ ValidRequest(req[w]) /\ c \in Collections
      /\ todo[w] \subseteq req[w].keys
      /\ ProgressOf(w)
      /\ UNCHANGED <<open, managed, disk>>
      /\ \A e \in Collections \ {c} : buffer'[e] = buffer[e]
  BY DeleteDocumentStep DEF DataStep, Places, PlaceOK, ValidRequest, Progress, Coll
<1>2. PICK k \in todo[w] :
        /\ todo'[w] = todo[w] \ {k}
        /\ buffer'[c] = {b \in buffer[c] : KeyOf[b] # k}
  BY DeleteDocumentStep DEF Coll
<1>3. ProgressOf(w)'
  <2>1. req'[w] = req[w] /\ sure'[w] = sure[w] /\ pc'[w] \notin {"list", "remove"}
    BY <1>1 DEF DataStep, Stays, Ends
  <2> QED
    BY <1>1, <1>2, <2>1 DEF ProgressOf, Clear
<1>4. ~Ends(w)
  BY <1>1 DEF Stays, Ends
<1> QED
  BY <1>1, <1>2, <1>3, <1>4 DEF EngineStep, Stored

\* A new segment manager loses nothing: no request re-creates a collection that
\* is open.
LEMMA CreationEngine ==
  ASSUME PromiseInv, OneCreation, NEW w \in Workers,
         CreateCollection(w) \/ OpenWal(w) \/ LoadSegments(w) \/ SaveCollection(w) \/ WriteMeta(w)
  PROVE  /\ EngineStep(w) /\ req[w].op = "create"
         /\ pc'[w] \notin {"apply", "wal", "load"} \/ Coll(w) \notin open'
         /\ \A e \in open' : e \in open \/ e = Coll(w)
<1> USE DEF PromiseInv
<1> DEFINE c == req[w].coll
<1>1. /\ req[w].op = "create" /\ ValidRequest(req[w]) /\ c \in Collections
  BY DEF CreateCollection, OpenWal, LoadSegments, SaveCollection, WriteMeta,
         Places, PlaceOK, ValidRequest
<1>2. \A e \in Collections : disk'[e].segments = disk[e].segments
  BY CreateCollectionStep, OpenWalStep, LoadSegmentsStep, SaveCollectionStep, WriteMetaStep
<1>3. /\ \A e \in Collections \ {c} : buffer'[e] = buffer[e] /\ (e \in managed' => e \in managed)
      /\ open \subseteq open' /\ \A e \in open' : e \in open \/ e = c
      /\ c \in open => buffer'[c] = buffer[c] /\ (c \in managed' => c \in managed)
      /\ buffer'[c] \subseteq buffer[c]
      /\ pc'[w] \notin {"apply", "wal", "load"} \/ c \notin open'
  <2>1. CASE CreateCollection(w)
    <3>1. pc[w] = "apply" /\ UNCHANGED <<buffer, open, managed>>
      BY <2>1, CreateCollectionStep
    <3> QED
      BY <1>1, <3>1 DEF OneCreation, Coll
  <2>2. CASE OpenWal(w)
    <3>1. /\ pc[w] = "wal" /\ UNCHANGED <<buffer, managed>>
          /\ pc'[w] = "save" \/ (pc'[w] = "load" /\ UNCHANGED open)
          /\ open \subseteq open' /\ \A e \in open' : e \in open \/ e = c
      BY <2>2, OpenWalStep DEF Coll
    <3> QED
      BY <1>1, <3>1 DEF OneCreation, Coll
  <2>3. CASE LoadSegments(w)
    <3>1. /\ pc[w] = "load" /\ pc'[w] = "save" /\ open' = open \cup {c}
          /\ \A e \in Collections \ {c} : buffer'[e] = buffer[e] /\ (e \in managed' => e \in managed)
          /\ buffer'[c] \subseteq buffer[c]
      BY <2>3, LoadSegmentsStep DEF Coll
    <3>2. c \notin open
      BY <1>1, <3>1 DEF OneCreation, Coll
    <3> QED
      BY <3>1, <3>2
  <2>4. CASE SaveCollection(w) \/ WriteMeta(w)
    BY <2>4, SaveCollectionStep, WriteMetaStep DEF Ends, Active
  <2> QED
    BY <2>1, <2>2, <2>3, <2>4
<1>4. pc'[w] \notin {"list", "remove"} /\ (Stays(w) => req'[w] = req[w])
  BY CreateCollectionStep, OpenWalStep, LoadSegmentsStep, SaveCollectionStep, WriteMetaStep
     DEF Ends, Active, Stays
<1>5. Stays(w) => ProgressOf(w)'
  BY <1>1, <1>4 DEF ProgressOf
<1> QED
  BY <1>1, <1>2, <1>3, <1>4, <1>5 DEF EngineStep, Stored, Coll

LEMMA DropEngine ==
  ASSUME PromiseInv, crashes = 0 => Progress, NEW w \in Workers,
         DeleteCollection(w) \/ ListDirectory(w) \/ RemoveEntry(w) \/ RemoveDirectory(w)
  PROVE  /\ req[w].op = "drop" /\ open' \subseteq open
         /\ crashes = 0 => EngineStep(w)
<1> USE DEF PromiseInv
<1> DEFINE c == req[w].coll
<1>1. /\ req[w].op = "drop" /\ ValidRequest(req[w]) /\ c \in Collections /\ req[w].keys = Keys
  BY DEF DeleteCollection, ListDirectory, RemoveEntry, RemoveDirectory, Places, PlaceOK, ValidRequest
<1>2. \A d \in Docs : KeyOf[d] \in Keys
  BY NodeKeyAssumption
<1>3. CASE DeleteCollection(w)
  <2>1. /\ Stays(w) /\ pc'[w] = "list"
        /\ buffer' = [buffer EXCEPT ![c] = {}]
        /\ open' = open \ {c} /\ managed' = managed \ {c}
        /\ UNCHANGED disk
    BY <1>3, DeleteCollectionStep DEF Coll
  <2>2. buffer'[c] = {} /\ \A e \in Collections \ {c} : buffer'[e] = buffer[e]
    BY <1>1, <2>1 DEF Shape
  <2>3. req'[w] = req[w] /\ ~Ends(w)
    BY <2>1 DEF Stays, Ends
  <2>4. ProgressOf(w)'
    BY <1>1, <2>2, <2>3 DEF ProgressOf, Clear
  <2> QED
    BY <1>1, <1>2, <2>1, <2>2, <2>3, <2>4 DEF EngineStep
<1>4. CASE ListDirectory(w) \/ RemoveEntry(w) \/ RemoveDirectory(w)
  <2>1. /\ UNCHANGED <<buffer, open, managed>>
        /\ pc[w] \in {"list", "remove"}
        /\ \A e \in Collections \ {c} : disk'[e] = disk[e]
    BY <1>4, ListDirectoryStep, RemoveEntryStep, RemoveDirectoryStep DEF Coll
  <2>2. SUFFICES ASSUME crashes = 0 PROVE EngineStep(w)
    BY <1>1, <2>1
  <2>3. \A k \in Keys \cap sure[w] : \A b \in buffer[c] : KeyOf[b] # k
    BY <2>1, <2>2 DEF Progress, ProgressOf, Clear
  <2>4. Stays(w) => req'[w] = req[w] /\ sure'[w] = sure[w]
    BY DEF Stays
  <2>5. Stays(w) => ProgressOf(w)'
    BY <1>1, <2>1, <2>3, <2>4 DEF ProgressOf, Clear
  <2> QED
    BY <1>1, <1>2, <2>1, <2>3, <2>5 DEF EngineStep
<1> QED
  BY <1>3, <1>4

\* A step of a handler keeps the invariant.
LEMMA MemoryHandlerStep ==
  ASSUME MemoryInv, NEW w \in Workers, PromiseInv',
         Stays(w) \/ (Ends(w) /\ (Failed \/ Succeeded(w))),
         crashes = 0 => EngineStep(w),
         pc'[w] \notin {"apply", "wal", "load"} \/ req[w].op # "create" \/ Coll(w) \notin open',
         \A c \in open' : c \in open \/ (req[w].op = "create" /\ c = Coll(w))
  PROVE  MemoryInv'
<1>1. crashes' = crashes
  BY DEF Stays, Ends, Frame
<1>2. OneCreation'
  BY OneCreationKept DEF MemoryInv, PromiseInv
<1>3. Fates'
  BY FatesKept DEF MemoryInv, PromiseInv
<1>4. crashes = 0 => Progress' /\ MemoryMatchesReplies'
  BY ProgressKept, RepliesKept DEF MemoryInv
<1> QED
  BY <1>1, <1>2, <1>3, <1>4 DEF MemoryInv

\* A request makes the replies about what it touches void.
LEMMA MemoryReceive ==
  ASSUME MemoryInv, NEW w \in Workers, NEW r \in Requests, Receive(w, r), PromiseInv'
  PROVE  MemoryInv'
<1> USE DEF MemoryInv
<1>1. /\ ValidRequest(r) /\ up /\ pc[w] = "idle"
      /\ pc'[w] = "apply" /\ req'[w] = r
      /\ todo'[w] = IF r.op = "delete" THEN r.keys ELSE r.docs
      /\ \A v \in Workers \ {w} :
           /\ pc'[v] = pc[v] /\ req'[v] = req[v] /\ todo'[v] = todo[v]
           /\ sure'[v] \subseteq sure[v]
  BY ReceiveStep
<1>2. /\ UNCHANGED <<up, open, managed, buffer, disk, crashes>>
      /\ r.op # "create" => r.coll \in open
      /\ r.op = "create" => /\ r.coll \notin open
                            /\ \A v \in Workers : ~(req[v].op = "create" /\ Coll(v) = r.coll)
  BY DEF Receive
<1>3. \A c \in Collections, k \in Keys :
        fate'[c][k] = IF c = r.coll /\ k \in r.keys THEN "unknown" ELSE fate[c][k]
  BY <1>1 DEF Receive, PromiseInv, Shape, ValidRequest
<1>4. OneCreation'
  BY <1>1, <1>2 DEF OneCreation, Coll
<1>5. Fates'
  BY FatesReceive
<1>6. crashes = 0 => Progress'
  <2> SUFFICES ASSUME crashes = 0, NEW v \in Workers PROVE ProgressOf(v)'
    BY DEF Progress
  <2>1. CASE v = w
    BY <1>1, <1>2, <2>1 DEF ProgressOf, ValidRequest
  <2>2. CASE v # w
    <3>1. /\ pc'[v] = pc[v] /\ req'[v] = req[v] /\ todo'[v] = todo[v]
          /\ sure'[v] \subseteq sure[v] /\ ProgressOf(v)
      BY <1>1, <2>2 DEF Progress
    <3> QED
      BY <1>2, <3>1 DEF ProgressOf, Stored, Clear
  <2> QED
    BY <2>1, <2>2
<1>7. crashes = 0 => MemoryMatchesReplies'
  BY <1>2, <1>3, NamesAssumption DEF MemoryMatchesReplies, Stored
<1> QED
  BY <1>2, <1>4, <1>5, <1>6, <1>7

LEMMA MemoryInit ==
  ASSUME Init, ~Recreate
  PROVE  MemoryInv
<1>1. \A w \in Workers : pc[w] = "idle" /\ req[w].op = "none" /\ sure[w] = {}
  BY DEF Init, NoRequest
<1>2. OneCreation /\ Progress
  BY <1>1 DEF OneCreation, Progress, ProgressOf
<1>3. \A c \in Collections, k \in Keys : fate[c][k] = "absent" /\ buffer[c] = {}
  BY DEF Init
<1>4. Fates
  BY <1>1, <1>3, NamesAssumption DEF Fates, Active
<1>5. MemoryMatchesReplies
  BY <1>3, NamesAssumption DEF MemoryMatchesReplies
<1> QED
  BY <1>2, <1>4, <1>5, PromiseInit DEF MemoryInv

LEMMA HandlerStepKind ==
  ASSUME PromiseInv, NEW w \in Workers, HandlerStep(w)
  PROVE  Stays(w) \/ (Ends(w) /\ (Failed \/ Succeeded(w)))
<1>1. CASE \/ InsertDocument(w) \/ DeleteDocument(w) \/ SaveDocument(w) \/ RemoveDocument(w)
           \/ TruncateFile(w) \/ WriteLine(w) \/ FileWritten(w)
  <2>1. DataStep(w)
    BY <1>1, InsertDocumentStep, DeleteDocumentStep, FileStepsOf DEF FileStep, PromiseInv
  <2> QED
    BY <2>1 DEF DataStep
<1>2. CASE \/ CreateCollection(w) \/ OpenWal(w) \/ LoadSegments(w)
           \/ SaveCollection(w) \/ WriteMeta(w)
           \/ DeleteCollection(w) \/ ListDirectory(w) \/ RemoveEntry(w) \/ RemoveDirectory(w)
  <2>1. CollectionStep(w)
    BY <1>2, CreateCollectionStep, OpenWalStep, LoadSegmentsStep, SaveCollectionStep, WriteMetaStep, DeleteCollectionStep,
       ListDirectoryStep, RemoveEntryStep, RemoveDirectoryStep
  <2> QED
    BY <2>1 DEF CollectionStep
<1> QED
  BY <1>1, <1>2 DEF HandlerStep

LEMMA FatesStep ==
  ASSUME PromiseInv, Fates, [Next]_vars
  PROVE  Fates'
<1>1. ASSUME NEW w \in Workers, NEW r \in Requests, Receive(w, r) PROVE Fates'
  BY <1>1, FatesReceive
<1>2. ASSUME NEW w \in Workers, HandlerStep(w) PROVE Fates'
  BY <1>2, HandlerStepKind, FatesKept DEF PromiseInv
<1>3. CASE Crash
  <2>1. UNCHANGED fate /\ \A w \in Workers : ~Active(w)'
    BY <1>3 DEF Crash, Active
  <2> QED
    BY <2>1 DEF Fates
<1>4. CASE Restart
  <2>1. UNCHANGED <<fate, req, pc>>
    BY <1>4 DEF Restart, handlerVars, clientVars
  <2> QED
    BY <2>1 DEF Fates, Active, Coll
<1>5. CASE UNCHANGED vars
  BY <1>5 DEF vars, handlerVars, clientVars, Fates, Active, Coll
<1> QED
  BY <1>1, <1>2, <1>3, <1>4, <1>5 DEF Next

LEMMA FatesInit == ASSUME Init PROVE Fates
<1>1. \A c \in Collections, k \in Keys : fate[c][k] = "absent"
  BY DEF Init
<1>2. \A w \in Workers : ~Active(w)
  BY DEF Init, Active
<1> QED
  BY <1>1, <1>2, NamesAssumption DEF Fates

LEMMA MemoryStep ==
  ASSUME MemoryInv, [Next]_vars
  PROVE  MemoryInv'
<1>1. PromiseInv /\ PromiseInv'
  BY PromiseStep DEF MemoryInv
<1>2. ASSUME NEW w \in Workers, NEW r \in Requests, Receive(w, r) PROVE MemoryInv'
  BY <1>1, <1>2, MemoryReceive
<1>3. ASSUME NEW w \in Workers,
             CreateCollection(w) \/ OpenWal(w) \/ LoadSegments(w) \/ SaveCollection(w) \/ WriteMeta(w)
      PROVE  MemoryInv'
  <2>1. CollectionStep(w)
    BY <1>1, <1>3, CreateCollectionStep, OpenWalStep, LoadSegmentsStep, SaveCollectionStep, WriteMetaStep
  <2>2. /\ EngineStep(w) /\ req[w].op = "create"
        /\ pc'[w] \notin {"apply", "wal", "load"} \/ Coll(w) \notin open'
        /\ \A e \in open' : e \in open \/ e = Coll(w)
    BY <1>1, <1>3, CreationEngine DEF MemoryInv
  <2> QED
    BY <1>1, <2>1, <2>2, MemoryHandlerStep DEF CollectionStep
<1>4. ASSUME NEW w \in Workers,
             DeleteCollection(w) \/ ListDirectory(w) \/ RemoveEntry(w) \/ RemoveDirectory(w)
      PROVE  MemoryInv'
  <2>1. CollectionStep(w)
    BY <1>1, <1>4, DeleteCollectionStep, ListDirectoryStep, RemoveEntryStep, RemoveDirectoryStep
  <2>2. req[w].op = "drop" /\ open' \subseteq open /\ (crashes = 0 => EngineStep(w))
    BY <1>1, <1>4, DropEngine DEF MemoryInv
  <2> QED
    BY <1>1, <2>1, <2>2, MemoryHandlerStep DEF CollectionStep
<1>5. ASSUME NEW w \in Workers,
             InsertDocument(w) \/ DeleteDocument(w) \/ SaveDocument(w) \/ RemoveDocument(w)
               \/ TruncateFile(w) \/ WriteLine(w) \/ FileWritten(w)
      PROVE  MemoryInv'
  <2>1. DataStep(w)
    BY <1>1, <1>5, InsertDocumentStep, DeleteDocumentStep, FileStepsOf DEF FileStep, PromiseInv
  <2>2. crashes = 0 => EngineStep(w)
    BY <1>1, <1>5, InsertDocumentEngine, DeleteDocumentEngine, FileStepsOf, FileStepEngine
       DEF MemoryInv, PromiseInv
  <2> QED
    BY <1>1, <2>1, <2>2, MemoryHandlerStep DEF DataStep
<1>6. CASE Crash
  <2>1. crashes' > 0 /\ UNCHANGED fate /\ \A w \in Workers : ~Active(w)' /\ req'[w].op = "none"
    BY <1>1, <1>6, CrashKeepsPromises DEF Crash, Active, NoRequest
  <2>2. OneCreation' /\ Fates'
    BY <2>1, FatesStep DEF MemoryInv, OneCreation
  <2> QED
    BY <1>1, <2>1, <2>2 DEF MemoryInv
<1>7. CASE Restart
  <2>1. crashes' > 0 /\ UNCHANGED <<fate, req>> /\ \A w \in Workers : ~Active(w) /\ ~Active(w)'
    BY <1>1, <1>7, RestartKeepsPromises DEF Restart, handlerVars, clientVars
  <2>2. \A w \in Workers : req'[w].op = "none"
    BY <1>1, <2>1 DEF PromiseInv, Places, PlaceOK, Active
  <2>3. OneCreation' /\ Fates'
    BY <2>1, <2>2 DEF MemoryInv, OneCreation, Fates
  <2> QED
    BY <1>1, <2>1, <2>3 DEF MemoryInv
<1>8. CASE UNCHANGED vars
  <2>1. UNCHANGED <<up, open, managed, buffer, disk, pc, req, todo, sure, fate, crashes>>
    BY <1>8 DEF vars, handlerVars, clientVars
  <2>2. OneCreation' /\ Fates'
    BY <2>1 DEF MemoryInv, OneCreation, Fates, Active, Coll
  <2>3. crashes = 0 => Progress'
    BY <2>1 DEF MemoryInv, Progress, ProgressOf, Stored, Clear
  <2>4. crashes = 0 => MemoryMatchesReplies'
    BY <2>1 DEF MemoryInv, MemoryMatchesReplies, Stored
  <2> QED
    BY <1>1, <2>1, <2>2, <2>3, <2>4 DEF MemoryInv
<1> QED
  BY <1>2, <1>3, <1>4, <1>5, <1>6, <1>7, <1>8 DEF Next, HandlerStep

\* As long as no client re-creates an open collection, and until a kill, no
\* interleaving of handlers takes an acknowledged document from an engine that has
\* a manager for its collection, or keeps one in the buffer whose deletion was
\* acknowledged, also while creations fail halfway beside drops (engine.rs,
\* create_collection, insert_document, delete_document).
THEOREM MemoryMatchesRepliesHolds == ~Recreate /\ Spec => []MemoryMatchesReplies
<1>1. ~Recreate /\ Init => MemoryInv
  BY MemoryInit
<1>2. MemoryInv /\ [Next]_vars => MemoryInv'
  BY MemoryStep
<1>3. MemoryInv => MemoryMatchesReplies
  BY DEF MemoryInv, MemoryMatchesReplies
<1> QED
  BY <1>1, <1>2, <1>3, PTL DEF Spec
=============================================================================
