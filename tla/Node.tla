-------------------------------- MODULE Node --------------------------------
(***************************************************************************)
(* A NitroSearch server: the API handlers of nitro-api's main.rs, the      *)
(* collections and buffers of its SearchEngine, and the files of its       *)
(* PersistenceManager: meta.json and documents.jsonl, which a restart      *)
(* reads back.                                                             *)
(*                                                                         *)
(* Handlers run in parallel and hold no lock across a file: each action    *)
(* below is what a handler does between two points where another handler   *)
(* may come in.  The segments of a collection are the set of versions they *)
(* store, flushed as a whole when the buffer is full; what may happen on   *)
(* the way is SegmentStore's subject.  The engine and the persistence      *)
(* manager are given the same data directory.                              *)
(*                                                                         *)
(* The process may be killed at any step.  Lines of documents.jsonl are    *)
(* taken to be of equal length, so that the i-th line a handler writes     *)
(* falls on the i-th line of the file.                                     *)
(***************************************************************************)
EXTENDS Integers, FiniteSets, Sequences

CONSTANTS Collections,
          Docs,           \* document versions, each sent at most once
          Keys,           \* document ids
          KeyOf,          \* the id of each version
          BulkDocs,       \* the versions clients send with bulk_insert_api
          Workers,        \* threads that run handlers
          FlushThreshold, \* documents that trigger a flush
          Recreate,       \* clients may create a collection that exists
          MaxRequests,    \* bound: requests
          MaxCrashes      \* bound: kills of the process

ASSUME NodeKeyAssumption == KeyOf \in [Docs -> Keys]
ASSUME BulkAssumption == BulkDocs \subseteq Docs
ASSUME RecreateAssumption == Recreate \in BOOLEAN
ASSUME NamesAssumption == "collection" \notin Keys /\ {"absent", "unknown"} \cap Docs = {}
ASSUME CrashesAssumption == MaxCrashes \in Nat

VARIABLES
  up,       \* the process is running
  open,     \* SearchEngine.collections, and the maps kept in step with it
  managed,  \* the keys of SearchEngine.segment_managers
  buffer,   \* the buffer of each collection's segment manager
  disk,     \* the directory of each collection
  pc, req,  \* where each handler is, and its request
  todo,     \* what its loop has left: versions, ids or directory entries
  item,     \* the version or id it is at
  lines, pos,  \* the lines it has read or built, and the next one to write
  linked,   \* the file it writes is still in the directory
  fresh,    \* versions not sent yet
  sure,     \* what no request that overlapped this one touched as well
  fate,     \* what the last reply promised of each id
  promise,  \* what the last reply promised of each collection
  requests, crashes   \* so far

handlerVars == <<pc, req, todo, item, lines, pos, linked>>
clientVars  == <<fresh, sure, fate, promise, requests>>
vars == <<up, open, managed, buffer, disk, handlerVars, clientVars, crashes>>

-----------------------------------------------------------------------------
(* Directories.                                                             *)

CONSTANTS Hole,   \* a line never written, below one that was
          NoFile, \* documents.jsonl does not exist
          None    \* no version or id

Entries == {"meta", "docs", "segments", "wal"}

NoDirectory == [exists |-> FALSE, meta |-> "absent", docs |-> NoFile,
                segments |-> {}, wal |-> FALSE]

Has(d, e) == CASE e = "meta"     -> d.meta # "absent"
               [] e = "docs"     -> d.docs # NoFile
               [] e = "segments" -> d.segments # {}
               [] e = "wal"      -> d.wal

Without(d, e) == CASE e = "meta"     -> [d EXCEPT !.meta = "absent"]
                   [] e = "docs"     -> [d EXCEPT !.docs = NoFile]
                   [] e = "segments" -> [d EXCEPT !.segments = {}]
                   [] e = "wal"      -> [d EXCEPT !.wal = FALSE]

ASSUME FileAssumption == Hole \notin Docs /\ NoFile \notin Seq(Docs \cup {Hole})

\* The lines of a list that are among the given ones, in their order.
Only(list, Lines) ==
  LET kept[n \in 0..Len(list)] ==
        IF n = 0 THEN <<>>
        ELSE IF list[n] \in Lines THEN Append(kept[n - 1], list[n]) ELSE kept[n - 1]
  IN  kept[Len(list)]

VersionsOf(k)    == {d \in Docs : KeyOf[d] = k}
VersionsNotOf(k) == {d \in Docs : KeyOf[d] # k}

\* The documents that reading the file line by line yields: a hole, and the
\* line that the hole's zero bytes run into, do not parse and are skipped.
Parsed(file) ==
  IF file = NoFile THEN <<>>
  ELSE LET parses(i) == file[i] # Hole /\ (i > 1 => file[i - 1] # Hole)
       IN Only([i \in DOMAIN file |-> IF parses(i) THEN file[i] ELSE Hole], Docs)

\* The file after line i was written at the handle's own offset.
WithLine(file, i, line) ==
  [n \in 1..(IF i > Len(file) THEN i ELSE Len(file)) |->
     IF n = i THEN line ELSE IF n <= Len(file) THEN file[n] ELSE Hole]

-----------------------------------------------------------------------------
(* The engine.                                                              *)

\* Mutated Ingest: the flush drains the buffer and then adds the version.
IngestAfterFlush(s, d) ==
  LET b == {e \in s.buffer : KeyOf[e] # KeyOf[d]} \cup {d}
  IN IF Cardinality(b) >= FlushThreshold
       THEN [buffer |-> {}, segments |-> s.segments \cup s.buffer]
       ELSE [buffer |-> b, segments |-> s.segments]

\* SearchEngine::insert_document on an open collection.
Ingest(s, d) ==
  LET b == {e \in s.buffer : KeyOf[e] # KeyOf[d]} \cup {d}
  IN IF Cardinality(b) >= FlushThreshold
       THEN [buffer |-> {}, segments |-> s.segments \cup b]
       ELSE [buffer |-> b, segments |-> s.segments]

Storage(c) == [buffer |-> buffer[c], segments |-> disk[c].segments]

-----------------------------------------------------------------------------
(* Requests.                                                                *)

InsertRequests ==
  {[op |-> "insert", coll |-> c, docs |-> {d}, keys |-> {KeyOf[d]}] :
     c \in Collections, d \in fresh \ BulkDocs}
BulkRequests ==
  {[op |-> "bulk", coll |-> c, docs |-> D, keys |-> {KeyOf[d] : d \in D}] :
     c \in Collections,
     D \in {B \in SUBSET (fresh \cap BulkDocs) :
              B # {} /\ \A d, e \in B : KeyOf[d] = KeyOf[e] => d = e}}
DeleteRequests ==
  {[op |-> "delete", coll |-> c, docs |-> {}, keys |-> K] :
     c \in Collections, K \in SUBSET Keys \ {{}}}
CreateRequests ==
  {[op |-> "create", coll |-> c, docs |-> {}, keys |-> {}] : c \in Collections}
DropRequests ==
  {[op |-> "drop", coll |-> c, docs |-> {}, keys |-> Keys] : c \in Collections}

Requests == InsertRequests \cup BulkRequests \cup DeleteRequests
              \cup CreateRequests \cup DropRequests

NoRequest == [op |-> "none", coll |-> CHOOSE c \in Collections : TRUE,
              docs |-> {}, keys |-> {}]

\* What a request may change of its collection: documents, and whether there
\* is such a collection.
Touches(r) == IF r.op \in {"create", "drop"} THEN Keys \cup {"collection"} ELSE r.keys

Coll(w) == req[w].coll
Goto(w, label) == pc' = [pc EXCEPT ![w] = label]

\* A handler returns; a reply of success promises what no overlapping request
\* touched.
Return(w) ==
  /\ Goto(w, "idle")
  /\ req'   = [req EXCEPT ![w] = NoRequest]
  /\ todo'  = [todo EXCEPT ![w] = {}]
  /\ item'  = [item EXCEPT ![w] = None]
  /\ lines' = [lines EXCEPT ![w] = <<>>]
  /\ pos'   = [pos EXCEPT ![w] = 1]
  /\ sure'  = [sure EXCEPT ![w] = {}]
  /\ UNCHANGED linked

OutcomeOf(r, k) == IF r.op \in {"insert", "bulk"}
                     THEN CHOOSE d \in r.docs : KeyOf[d] = k ELSE "absent"

Succeed(w) ==
  LET r == req[w]
  IN /\ Return(w)
     /\ fate' = [fate EXCEPT ![r.coll] =
                   [k \in Keys |-> IF k \in r.keys \cap sure[w]
                                     THEN OutcomeOf(r, k) ELSE @[k]]]
     /\ promise' = IF "collection" \in sure[w]
                     THEN [promise EXCEPT ![r.coll] = r.op] ELSE promise
     /\ UNCHANGED <<fresh, requests>>

Fail(w) == Return(w) /\ UNCHANGED <<fresh, fate, promise, requests>>

\* Nobody holds the write locks of the engine's maps: a creation keeps them
\* until the collection's directory has been opened.
RegistryFree == \A w \in Workers : pc[w] \notin {"wal", "load"}

\* A request that finds its collection unknown is answered 404 at once and is
\* left out.  Clients never send a version twice.
Receive(w, r) ==
  /\ up
  /\ pc[w] = "idle"
  /\ requests < MaxRequests
  /\ requests' = requests + 1
  /\ r.op # "create" => RegistryFree /\ r.coll \in open
  /\ r.op = "create" /\ ~Recreate =>
       /\ r.coll \notin open
       /\ \A v \in Workers : ~(req[v].op = "create" /\ Coll(v) = r.coll)
  /\ fresh' = fresh \ r.docs
  /\ req'   = [req EXCEPT ![w] = r]
  /\ todo'  = [todo EXCEPT ![w] = IF r.op = "delete" THEN r.keys ELSE r.docs]
  /\ Goto(w, "apply")
  /\ LET others == {v \in Workers : pc[v] # "idle" /\ Coll(v) = r.coll}
     IN sure' = [v \in Workers |->
                   IF v = w THEN Touches(r) \ UNION {Touches(req[o]) : o \in others}
                   ELSE IF v \in others THEN sure[v] \ Touches(r) ELSE sure[v]]
  /\ fate' = [fate EXCEPT ![r.coll] =
                [k \in Keys |-> IF k \in r.keys THEN "unknown" ELSE @[k]]]
  /\ promise' = IF r.op \in {"create", "drop"}
                  THEN [promise EXCEPT ![r.coll] = "none"] ELSE promise
  /\ UNCHANGED <<up, open, managed, buffer, disk, item, lines, pos, linked, crashes>>
-----------------------------------------------------------------------------
(* create_collection_api.                                                   *)

\* SearchEngine::create_collection under the locks of its maps, which others
\* see when it returns.  SegmentManager::new makes the directory ...
CreateCollection(w) ==
  /\ up
  /\ pc[w] = "apply" /\ req[w].op = "create"
  /\ RegistryFree
  /\ disk' = [disk EXCEPT ![Coll(w)].exists = TRUE]
  /\ Goto(w, "wal")
  /\ UNCHANGED <<up, open, managed, buffer, req, todo, item, lines, pos, linked,
                 clientVars, crashes>>

\* ... opens wal.log in it, which fails if a drop has removed the directory
\* meanwhile: the error is dropped, and the collection is open without a new
\* manager ...
OpenWal(w) ==
  /\ up
  /\ pc[w] = "wal"
  /\ IF disk[Coll(w)].exists
       THEN /\ disk' = [disk EXCEPT ![Coll(w)].wal = TRUE]
            /\ Goto(w, "load")
            /\ UNCHANGED open
       ELSE /\ open' = open \cup {Coll(w)}
            /\ Goto(w, "save")
            /\ UNCHANGED disk
  /\ UNCHANGED <<up, managed, buffer, req, todo, item, lines, pos, linked, clientVars, crashes>>

\* ... and reads the directory, with the same outcome if it has gone: the new
\* manager has an empty buffer, on whatever segments the directory holds.
LoadSegments(w) ==
  /\ up
  /\ pc[w] = "load"
  /\ open' = open \cup {Coll(w)}
  /\ IF disk[Coll(w)].exists
       THEN /\ managed' = managed \cup {Coll(w)}
            /\ buffer' = [buffer EXCEPT ![Coll(w)] = {}]
       ELSE UNCHANGED <<managed, buffer>>
  /\ Goto(w, "save")
  /\ UNCHANGED <<up, disk, req, todo, item, lines, pos, linked, clientVars, crashes>>

\* PersistenceManager::save_collection: fs::write cuts the file ...
SaveCollection(w) ==
  /\ up
  /\ pc[w] = "save"
  /\ disk' = [disk EXCEPT ![Coll(w)].exists = TRUE, ![Coll(w)].meta = "empty"]
  /\ linked' = [linked EXCEPT ![w] = TRUE]
  /\ Goto(w, "meta")
  /\ UNCHANGED <<up, open, managed, buffer, req, todo, item, lines, pos, clientVars, crashes>>

\* Mutated WriteMeta: the reply before the write.
WriteMetaNever(w) ==
  /\ up
  /\ pc[w] = "meta"
  /\ Succeed(w)
  /\ UNCHANGED <<up, open, managed, buffer, disk, crashes>>

\* ... and then fills it.
WriteMeta(w) ==
  /\ up
  /\ pc[w] = "meta"
  /\ disk' = IF linked[w] THEN [disk EXCEPT ![Coll(w)].meta = "full"] ELSE disk
  /\ Succeed(w)
  /\ UNCHANGED <<up, open, managed, buffer, crashes>>

-----------------------------------------------------------------------------
(* insert_document_api, bulk_insert_api, delete_document_api and            *)
(* bulk_delete_api.                                                         *)

\* The engine part of an insertion: nothing if the collection has gone or has
\* no manager, and no error either.  A bulk request goes on with its next version and never
\* writes documents.jsonl.
InsertDocument(w) ==
  /\ up
  /\ pc[w] = "apply" /\ req[w].op \in {"insert", "bulk"}
  /\ RegistryFree
  /\ \E d \in todo[w] :
       /\ LET s == Ingest(Storage(Coll(w)), d)
          IN IF Coll(w) \in managed
               THEN /\ buffer' = [buffer EXCEPT ![Coll(w)] = s.buffer]
                    /\ disk' = [disk EXCEPT ![Coll(w)].segments = s.segments,
                                            ![Coll(w)].exists = @ \/ s.buffer = {}]
               ELSE UNCHANGED <<buffer, disk>>
       /\ IF req[w].op = "insert"
            THEN /\ Goto(w, "read")
                 /\ item' = [item EXCEPT ![w] = d]
                 /\ todo' = [todo EXCEPT ![w] = {}]
                 /\ UNCHANGED <<req, lines, pos, linked, clientVars>>
          ELSE IF todo[w] = {d}
            THEN Succeed(w)
            ELSE /\ todo' = [todo EXCEPT ![w] = @ \ {d}]
                 /\ UNCHANGED <<pc, req, item, lines, pos, linked, clientVars>>
  /\ UNCHANGED <<up, open, managed, crashes>>

\* The engine part of a deletion: the buffer only.
DeleteDocument(w) ==
  /\ up
  /\ pc[w] = "apply" /\ req[w].op = "delete"
  /\ RegistryFree
  /\ \E k \in todo[w] :
       /\ buffer' = [buffer EXCEPT ![Coll(w)] = {b \in @ : KeyOf[b] # k}]
       /\ todo' = [todo EXCEPT ![w] = @ \ {k}]
       /\ item' = [item EXCEPT ![w] = k]
  /\ Goto(w, "read")
  /\ UNCHANGED <<up, open, managed, disk, req, lines, pos, linked, clientVars, crashes>>

\* Mutated SaveDocument: the line of an earlier version stays.
SaveDocumentAppends(w) ==
  /\ up
  /\ pc[w] = "read" /\ req[w].op = "insert"
  /\ disk' = [disk EXCEPT ![Coll(w)].exists = TRUE]
  /\ lines' = [lines EXCEPT ![w] = Append(Parsed(disk[Coll(w)].docs), item[w])]
  /\ Goto(w, "truncate")
  /\ UNCHANGED <<up, open, managed, buffer, req, todo, item, pos, linked, clientVars, crashes>>

\* PersistenceManager::save_document reads the file but for the version's id,
\* and appends the version.
SaveDocument(w) ==
  /\ up
  /\ pc[w] = "read" /\ req[w].op = "insert"
  /\ disk' = [disk EXCEPT ![Coll(w)].exists = TRUE]
  /\ lines' = [lines EXCEPT ![w] =
                 Append(Only(Parsed(disk[Coll(w)].docs), VersionsNotOf(KeyOf[item[w]])),
                        item[w])]
  /\ Goto(w, "truncate")
  /\ UNCHANGED <<up, open, managed, buffer, req, todo, item, pos, linked, clientVars, crashes>>

\* The handler's file is done: the next id of a deletion, or the reply.
NextId(w) ==
  IF todo[w] = {}
    THEN Succeed(w)
    ELSE /\ Goto(w, "apply")
         /\ lines' = [lines EXCEPT ![w] = <<>>]
         /\ pos' = [pos EXCEPT ![w] = 1]
         /\ UNCHANGED <<req, todo, item, linked, clientVars>>

\* Mutated RemoveDocument: it skips the rewrite when one line is left.
RemoveDocumentKeepsLast(w) ==
  /\ up
  /\ pc[w] = "read" /\ req[w].op = "delete"
  /\ LET file == Parsed(disk[Coll(w)].docs)
     IN IF Len(file) <= 1
          THEN NextId(w)
          ELSE /\ lines' = [lines EXCEPT ![w] =
                              Only(file, VersionsNotOf(item[w]))]
               /\ Goto(w, "truncate")
               /\ UNCHANGED <<req, todo, item, pos, linked, clientVars>>
  /\ UNCHANGED <<up, open, managed, buffer, disk, crashes>>

\* PersistenceManager::delete_document reads the file but for the id.
RemoveDocument(w) ==
  /\ up
  /\ pc[w] = "read" /\ req[w].op = "delete"
  /\ IF disk[Coll(w)].docs = NoFile
       THEN NextId(w)
       ELSE /\ lines' = [lines EXCEPT ![w] =
                           Only(Parsed(disk[Coll(w)].docs), VersionsNotOf(item[w]))]
            /\ Goto(w, "truncate")
            /\ UNCHANGED <<req, todo, item, pos, linked, clientVars>>
  /\ UNCHANGED <<up, open, managed, buffer, disk, crashes>>

\* Mutated TruncateFile: the file is created whether its directory is there or
\* not.
TruncateFileAnyway(w) ==
  /\ up
  /\ pc[w] = "truncate"
  /\ disk' = [disk EXCEPT ![Coll(w)].docs = <<>>]
  /\ linked' = [linked EXCEPT ![w] = TRUE]
  /\ pos' = [pos EXCEPT ![w] = 1]
  /\ Goto(w, "write")
  /\ UNCHANGED <<up, open, managed, buffer, req, todo, item, lines, clientVars, crashes>>

\* File::create cuts the file to nothing; it fails if the directory has gone,
\* which ends an insertion or a single deletion with an error, and is counted
\* by a bulk deletion.
TruncateFile(w) ==
  /\ up
  /\ pc[w] = "truncate"
  /\ IF disk[Coll(w)].exists
       THEN /\ disk' = [disk EXCEPT ![Coll(w)].docs = <<>>]
            /\ linked' = [linked EXCEPT ![w] = TRUE]
            /\ pos' = [pos EXCEPT ![w] = 1]
            /\ Goto(w, "write")
            /\ UNCHANGED <<req, todo, item, lines, clientVars>>
       ELSE /\ UNCHANGED disk
            /\ IF todo[w] = {} THEN Fail(w) ELSE NextId(w)
  /\ UNCHANGED <<up, open, managed, buffer, crashes>>

WriteLine(w) ==
  /\ up
  /\ pc[w] = "write"
  /\ pos[w] <= Len(lines[w])
  /\ disk' = IF linked[w]
               THEN [disk EXCEPT ![Coll(w)].docs = WithLine(@, pos[w], lines[w][pos[w]])]
               ELSE disk
  /\ pos' = [pos EXCEPT ![w] = @ + 1]
  /\ UNCHANGED <<up, open, managed, buffer, pc, req, todo, item, lines, linked, clientVars, crashes>>

FileWritten(w) ==
  /\ up
  /\ pc[w] = "write"
  /\ pos[w] > Len(lines[w])
  /\ NextId(w)
  /\ UNCHANGED <<up, open, managed, buffer, disk, crashes>>

-----------------------------------------------------------------------------
(* delete_collection_api.                                                   *)

\* SearchEngine::delete_collection, then fs::remove_dir_all lists the
\* directory ...
DeleteCollection(w) ==
  /\ up
  /\ pc[w] = "apply" /\ req[w].op = "drop"
  /\ RegistryFree
  /\ open' = open \ {Coll(w)}
  /\ managed' = managed \ {Coll(w)}
  /\ buffer' = [buffer EXCEPT ![Coll(w)] = {}]
  /\ Goto(w, "list")
  /\ UNCHANGED <<up, disk, req, todo, item, lines, pos, linked, clientVars, crashes>>

ListDirectory(w) ==
  /\ up
  /\ pc[w] = "list"
  /\ IF disk[Coll(w)].exists
       THEN /\ todo' = [todo EXCEPT ![w] = {e \in Entries : Has(disk[Coll(w)], e)}]
            /\ Goto(w, "remove")
            /\ UNCHANGED <<req, item, lines, pos, linked, clientVars>>
       ELSE Succeed(w)
  /\ UNCHANGED <<up, open, managed, buffer, disk, crashes>>

\* ... and removes what it listed, one entry at a time: handles on a removed
\* file go on writing to nothing ...
RemoveEntry(w) ==
  /\ up
  /\ pc[w] = "remove"
  /\ \E e \in todo[w] :
       /\ disk' = [disk EXCEPT ![Coll(w)] = Without(@, e)]
       /\ todo' = [todo EXCEPT ![w] = @ \ {e}]
       /\ linked' = [v \in Workers |->
                       linked[v] /\ ~(/\ Coll(v) = Coll(w)
                                      /\ \/ e = "docs" /\ pc[v] = "write"
                                         \/ e = "meta" /\ pc[v] = "meta")]
  /\ UNCHANGED <<up, open, managed, buffer, pc, req, item, lines, pos, clientVars, crashes>>

\* ... and the directory, unless something is in it again.
RemoveDirectory(w) ==
  /\ up
  /\ pc[w] = "remove"
  /\ todo[w] = {}
  /\ IF \E e \in Entries : Has(disk[Coll(w)], e)
       THEN UNCHANGED disk /\ Fail(w)
       ELSE disk' = [disk EXCEPT ![Coll(w)] = NoDirectory] /\ Succeed(w)
  /\ UNCHANGED <<up, open, managed, buffer, crashes>>

-----------------------------------------------------------------------------
(* Kills and restarts.                                                      *)

Crash ==
  /\ up
  /\ crashes < MaxCrashes
  /\ crashes' = crashes + 1
  /\ up' = FALSE
  /\ open' = {}
  /\ managed' = {}
  /\ buffer' = [c \in Collections |-> {}]
  /\ pc'     = [w \in Workers |-> "idle"]
  /\ req'    = [w \in Workers |-> NoRequest]
  /\ todo'   = [w \in Workers |-> {}]
  /\ item'   = [w \in Workers |-> None]
  /\ lines'  = [w \in Workers |-> <<>>]
  /\ pos'    = [w \in Workers |-> 1]
  /\ linked' = [w \in Workers |-> FALSE]
  /\ sure'   = [w \in Workers |-> {}]
  /\ UNCHANGED <<disk, fresh, fate, promise, requests>>

\* What load_collection makes of a directory: without meta.json the engine
\* has no such collection and ignores its documents.
Loaded(c) ==
  LET docs == Parsed(disk[c].docs)
      after[n \in 0..Len(docs)] ==
        IF n = 0 THEN [buffer |-> {}, segments |-> disk[c].segments]
        ELSE Ingest(after[n - 1], docs[n])
  IN  after[Len(docs)]

\* Directories load_all reads before it returns: the first meta.json that
\* does not parse ends it, and directories come in any order.
Directories == {c \in Collections : disk[c].exists}
Torn        == {c \in Directories : disk[c].meta = "empty"}
LoadSets    == IF Torn = {} THEN {Directories} ELSE SUBSET (Directories \ Torn)

\* Mutated Restart: documents.jsonl is enough to open a collection.
RestartOpensAll ==
  /\ ~up
  /\ up' = TRUE
  /\ \E L \in LoadSets :
       /\ open' = {c \in L : disk[c].meta = "full" \/ disk[c].docs # NoFile}
       /\ managed' = open'
       /\ buffer' = [c \in Collections |-> IF c \in open' THEN Loaded(c).buffer ELSE {}]
       /\ disk' = [c \in Collections |->
                     IF c \in open'
                       THEN [disk[c] EXCEPT !.segments = Loaded(c).segments, !.wal = TRUE]
                       ELSE disk[c]]
  /\ UNCHANGED <<handlerVars, clientVars, crashes>>

\* AppState::new: an error of load_all is printed, and the server starts.
Restart ==
  /\ ~up
  /\ up' = TRUE
  /\ \E L \in LoadSets :
       /\ open' = {c \in L : disk[c].meta = "full"}
       /\ managed' = open'
       /\ buffer' = [c \in Collections |-> IF c \in open' THEN Loaded(c).buffer ELSE {}]
       /\ disk' = [c \in Collections |->
                     IF c \in open'
                       THEN [disk[c] EXCEPT !.segments = Loaded(c).segments, !.wal = TRUE]
                       ELSE disk[c]]
  /\ UNCHANGED <<handlerVars, clientVars, crashes>>

-----------------------------------------------------------------------------
Init ==
  /\ up = TRUE
  /\ open = {}
  /\ managed = {}
  /\ buffer = [c \in Collections |-> {}]
  /\ disk = [c \in Collections |-> NoDirectory]
  /\ pc     = [w \in Workers |-> "idle"]
  /\ req    = [w \in Workers |-> NoRequest]
  /\ todo   = [w \in Workers |-> {}]
  /\ item   = [w \in Workers |-> None]
  /\ lines  = [w \in Workers |-> <<>>]
  /\ pos    = [w \in Workers |-> 1]
  /\ linked = [w \in Workers |-> FALSE]
  /\ fresh = Docs
  /\ sure = [w \in Workers |-> {}]
  /\ fate = [c \in Collections |-> [k \in Keys |-> "absent"]]
  /\ promise = [c \in Collections |-> "none"]
  /\ requests = 0
  /\ crashes = 0

HandlerStep(w) ==
  \/ CreateCollection(w) \/ OpenWal(w) \/ LoadSegments(w)
  \/ SaveCollection(w) \/ WriteMeta(w)
  \/ InsertDocument(w) \/ DeleteDocument(w)
  \/ SaveDocument(w) \/ RemoveDocument(w)
  \/ TruncateFile(w) \/ WriteLine(w) \/ FileWritten(w)
  \/ DeleteCollection(w) \/ ListDirectory(w) \/ RemoveEntry(w) \/ RemoveDirectory(w)

Next ==
  \/ \E w \in Workers : \/ \E r \in Requests : Receive(w, r)
                        \/ HandlerStep(w)
  \/ Crash
  \/ Restart

Spec == Init /\ [][Next]_vars

-----------------------------------------------------------------------------
(* Properties.                                                              *)

Labels == {"idle", "apply", "wal", "load", "save", "meta", "read", "truncate", "write",
           "list", "remove"}

NodeTypeOK ==
  /\ up \in BOOLEAN
  /\ open \subseteq Collections
  /\ managed \subseteq open
  /\ buffer \in [Collections -> SUBSET Docs]
  /\ \A c \in Collections :
       /\ disk[c].exists \in BOOLEAN /\ disk[c].wal \in BOOLEAN
       /\ disk[c].meta \in {"absent", "empty", "full"}
       /\ disk[c].docs \in Seq(Docs \cup {Hole}) \cup {NoFile}
       /\ disk[c].segments \subseteq Docs
       /\ ~disk[c].exists => disk[c] = NoDirectory
  /\ pc \in [Workers -> Labels]
  /\ \A w \in Workers : /\ todo[w] \subseteq Docs \cup Keys \cup Entries
                        /\ item[w] \in Docs \cup Keys \cup {None}
                        /\ lines[w] \in Seq(Docs)
                        /\ pos[w] \in 1..(Len(lines[w]) + 1)
  /\ linked \in [Workers -> BOOLEAN]
  /\ sure \in [Workers -> SUBSET (Keys \cup {"collection"})]
  /\ fate \in [Collections -> [Keys -> Docs \cup {"absent", "unknown"}]]
  /\ promise \in [Collections -> {"none", "create", "drop"}]

Stored(c) == buffer[c] \cup disk[c].segments

\* README, "Write-Ahead Log (WAL) for crash recovery": a running server has
\* every document whose insertion it acknowledged, and that nobody has touched
\* since, also after a kill.
AcknowledgedSurvive ==
  up => \A c \in Collections, k \in Keys :
          fate[c][k] \in Docs => c \in open /\ fate[c][k] \in Stored(c)

\* Until a kill, no interleaving of insertions, deletions, creations and drops
\* loses an acknowledged document from an engine that has a manager for its
\* collection, or keeps one in the buffer whose deletion was acknowledged.
\* Which collections have a manager is CreatedStays' subject.
MemoryMatchesReplies ==
  crashes = 0 =>
    \A c \in Collections, k \in Keys :
      /\ fate[c][k] \in Docs =>
           c \in open /\ (c \in managed => fate[c][k] \in Stored(c))
      /\ fate[c][k] = "absent" => (\A b \in buffer[c] : KeyOf[b] # k)

LinesOf(c, k) == Only(Parsed(disk[c].docs), VersionsOf(k))

\* With one request at a time and until a kill, documents.jsonl has the
\* acknowledged version of a document inserted on its own, in one line.
FileMatchesReplies ==
  crashes = 0 =>
    \A c \in Collections, k \in Keys :
      fate[c][k] \in Docs \ BulkDocs /\ (\A w \in Workers : pc[w] = "idle")
        => LinesOf(c, k) = <<fate[c][k]>>

\* With one request at a time, no kill in the middle of a rewrite or of a drop
\* brings back a line of a document whose deletion was acknowledged.
NoResurrection ==
  \A c \in Collections, k \in Keys : fate[c][k] = "absent" => LinesOf(c, k) = <<>>

\* Handlers that were under way when a collection was dropped may leave a
\* directory behind, but no restart opens it as a collection again.
DroppedStaysDropped ==
  \A c \in Collections :
    promise[c] = "drop" => c \notin open /\ disk[c].meta = "absent"

\* A collection whose creation no other creation or drop overlapped is open and
\* has a segment manager, so that insertions are not ignored, and no kill makes
\* the server forget it for good.
CreatedStays ==
  \A c \in Collections :
    promise[c] = "create" =>
      /\ disk[c].meta = "full"
      /\ up /\ crashes = 0 => c \in open \cap managed
=============================================================================
