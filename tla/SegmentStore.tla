---------------------------- MODULE SegmentStore ----------------------------
(***************************************************************************)
(* The storage of one collection: nitro-storage's SegmentManager with the  *)
(* segment directories it builds, serves, merges and removes.              *)
(*                                                                         *)
(* Workers are the request threads.  Each may insert, find the buffer at   *)
(* its threshold, flush it to a new segment, and then be the one that      *)
(* merges segments and removes the merged directories: the background      *)
(* workers of the code do none of this.  The steps of a worker are the     *)
(* stretches between two acquisitions of the manager's locks or between    *)
(* two file-system operations.                                             *)
(*                                                                         *)
(* A segment is the set of documents it stores and whether its terms can   *)
(* be looked up; which of its documents a query finds is not modelled      *)
(* here.                                                                   *)
(*                                                                         *)
(* The process may be killed at any step and restarted, and an i/o call    *)
(* may fail.  Files survive a kill; loss of the page cache is left out     *)
(* (the code never syncs a segment file).                                  *)
(***************************************************************************)
EXTENDS Integers, FiniteSets

CONSTANTS Docs,             \* document versions, each submitted at most once (one that
                            \* load_all inserts again at a restart is a new version)
          Keys,             \* the document ids clients use
          KeyOf,            \* the document id of each version
          Indexable,        \* the versions whose text has at least one token
          Workers,          \* request threads
          MaxBatch,         \* bound: documents of one batch_insert
          FlushThreshold,   \* documents that trigger a flush
          MinMergeSegments, \* segments that trigger a merge
          MergeFactor,      \* segments one merge takes
          MaxSegmentId,     \* bound: segment ids (a u64 in the code)
          MaxCrashes,       \* bound: kills of the process
          MaxIoErrors       \* bound: failing file-system calls

ASSUME KeyAssumption == KeyOf \in [Docs -> Keys]
ASSUME IndexableAssumption == Indexable \subseteq Docs
ASSUME MaxSegmentIdAssumption == MaxSegmentId \in Nat \ {0}
ASSUME MergePolicyAssumption ==   \* MergePolicy::default: 5 and 10
         MinMergeSegments \in Nat \ {0, 1} /\ MergeFactor \in Nat \ {0, 1}
ASSUME FaultAssumption == MaxCrashes \in Nat /\ MaxIoErrors \in Nat

VARIABLES
  up,        \* the process is running
  fresh,     \* versions no client has submitted yet
  buffer,    \* SegmentManager.buffer
  segments,  \* SegmentManager.segments: what searches read
  nextId,    \* SegmentManager.next_segment_id
  disk,      \* the segment_<id> directories
  pc,        \* where each worker is
  batch,     \* flush_buffer: the documents drained from the buffer
  cand,      \* trigger_merge: the candidates, then those not yet cleaned up
  dirId,     \* the directory the worker builds, or is removing
  built,     \* the segment the worker built and has not published yet
  crashes, ioErrors   \* kills and i/o errors so far

workerVars == <<pc, batch, cand, dirId, built>>
faultVars  == <<crashes, ioErrors>>
vars == <<up, fresh, buffer, segments, nextId, disk, workerVars, faultVars>>

-----------------------------------------------------------------------------
(* Segment directories.  A file is absent, cut to zero bytes, a header that *)
(* counts zero entries, or full.                                            *)

Ids      == 1..MaxSegmentId
Files    == {"postings", "stored", "terms", "meta"}
Contents == {"absent", "empty", "blank", "full"}
Dir      == [files : [Files -> Contents], docs : SUBSET Docs]

AbsentDir == [files |-> [f \in Files |-> "absent"], docs |-> {}]
Exists(d) == \E f \in Files : d.files[f] # "absent"

\* Segment::open: meta.json must parse, and a file that exists must not be
\* empty, for an empty file cannot be mapped.
Openable(d) ==
  /\ d.files["meta"] \in {"blank", "full"}
  /\ \A f \in {"postings", "stored", "terms"} : d.files[f] # "empty"

\* The term index of an opened segment: without terms nothing is found, and
\* terms whose postings file is gone cannot be read by a merge.
IndexOf(d) ==
  IF d.files["terms"] # "full" THEN "empty"
  ELSE IF d.files["postings"] = "absent" THEN "dangling" ELSE "full"

Indexes == {"full", "empty", "dangling"}
Segment == [id : Ids, docs : SUBSET Docs, index : Indexes, counted : BOOLEAN]

Opened(i, d) == [id      |-> i,
                 docs    |-> d.docs,
                 index   |-> IndexOf(d),
                 counted |-> d.files["meta"] = "full"]   \* doc_count > 0

\* SegmentBuilder::write_segment: what it writes for these documents ...
Built(D, hasTerms) ==
  [files |-> [postings |-> IF hasTerms THEN "full" ELSE "empty",
              stored   |-> IF D # {} THEN "full" ELSE "empty",
              terms    |-> IF hasTerms THEN "full" ELSE "blank",
              meta     |-> IF D # {} THEN "full" ELSE "blank"],
   docs  |-> D]

\* ... in this order, each file truncated first ...
WriteRank == [postings |-> 1, stored |-> 2, terms |-> 3, meta |-> 4]

\* ... so that a write that ends early leaves n files written, the next one
\* perhaps cut to nothing, and whatever the directory held before in the others.
\* (Bound: a file fits the buffer of its writer, which is written out at once; a
\* longer one may also be left with its beginning.)
Interrupted(old, new, n, cut) ==
  LET done(f) == WriteRank[f] <= n
      torn(f) == cut /\ WriteRank[f] = n + 1
  IN [files |-> [f \in Files |-> IF done(f) THEN new.files[f]
                                 ELSE IF torn(f) THEN "empty" ELSE old.files[f]],
      docs  |-> IF done("stored") THEN new.docs
                ELSE IF torn("stored") THEN {} ELSE old.docs]

\* fs::remove_dir_all that ends early: some of the files are still there.
Remains(old, left) ==
  [files |-> [f \in Files |-> IF f \in left THEN old.files[f] ELSE "absent"],
   docs  |-> IF "stored" \in left THEN old.docs ELSE {}]

OpenableIds == {i \in Ids : Openable(disk[i])}
Loaded      == {Opened(i, disk[i]) : i \in OpenableIds}
IdsOf(S)    == {s.id : s \in S}
DocsOf(S)   == UNION {s.docs : s \in S}
-----------------------------------------------------------------------------
(* Worker states.  While a worker is in "writing" it holds the buffer's     *)
(* write lock, so nobody inserts, deletes or flushes.                       *)

NoSegment == [id |-> 1, docs |-> {}, index |-> "empty", counted |-> FALSE]

Labels == {"idle", "flush", "writing", "add", "check", "select", "merging",
           "swap", "cleanup", "remove"}

BufferLocked == \E w \in Workers : pc[w] = "writing"

\* Mutated MergeInput: the documents of the candidates are renumbered so that
\* those of one candidate overwrite the others'.
MergeInputOverwrites(w) ==
  LET s == CHOOSE c \in cand[w] : TRUE
  IN Built(s.docs, s.index = "full")

\* What a merge builds from its candidates: every stored document, and an
\* index if any candidate has one.
MergeInput(w) ==
  Built(DocsOf(cand[w]), \E s \in cand[w] : s.index = "full")
FlushInput(w) == Built(batch[w], batch[w] \cap Indexable # {})

\* What the worker is writing into its directory.
Output(w) == IF pc[w] = "writing" THEN FlushInput(w) ELSE MergeInput(w)

Goto(w, label) == pc' = [pc EXCEPT ![w] = label]

\* The worker's request ends and its locals with it.
Finish(w) ==
  /\ Goto(w, "idle")
  /\ batch' = [batch EXCEPT ![w] = {}]
  /\ cand'  = [cand EXCEPT ![w] = {}]
  /\ dirId' = [dirId EXCEPT ![w] = 1]
  /\ built' = [built EXCEPT ![w] = NoSegment]

IdleWorkers ==
  /\ pc    = [w \in Workers |-> "idle"]
  /\ batch = [w \in Workers |-> {}]
  /\ cand  = [w \in Workers |-> {}]
  /\ dirId = [w \in Workers |-> 1]
  /\ built = [w \in Workers |-> NoSegment]

Init ==
  /\ up = TRUE
  /\ fresh = Docs
  /\ buffer = {}
  /\ segments = {}
  /\ nextId = 1
  /\ disk = [i \in Ids |-> AbsentDir]
  /\ IdleWorkers
  /\ crashes = 0
  /\ ioErrors = 0

-----------------------------------------------------------------------------
(* The buffer.                                                              *)

\* Mutated Insert: a push, where the code replaces the entry of the same id.
InsertAppends(w, D) ==
  /\ up
  /\ pc[w] = "idle"
  /\ ~BufferLocked
  /\ fresh' = fresh \ D
  /\ buffer' = buffer \cup D
  /\ IF Cardinality(buffer') >= FlushThreshold
       THEN Goto(w, "flush") ELSE UNCHANGED pc
  /\ UNCHANGED <<up, segments, nextId, disk, batch, cand, dirId, built, faultVars>>

\* SearchEngine::insert_document (one document) and batch_insert: later
\* versions replace the buffered ones of the same id, and whoever finds the
\* threshold reached flushes, after letting go of the lock.
Insert(w, D) ==
  /\ up
  /\ pc[w] = "idle"
  /\ ~BufferLocked
  /\ fresh' = fresh \ D
  /\ buffer' = {b \in buffer : \A d \in D : KeyOf[b] # KeyOf[d]} \cup D
  /\ IF Cardinality(buffer') >= FlushThreshold
       THEN Goto(w, "flush") ELSE UNCHANGED pc
  /\ UNCHANGED <<up, segments, nextId, disk, batch, cand, dirId, built, faultVars>>

\* The versions one call may insert: the ids of a batch are distinct.
Batches ==
  {D \in SUBSET fresh : /\ Cardinality(D) \in 1..MaxBatch
                        /\ \A d, e \in D : KeyOf[d] = KeyOf[e] => d = e}

\* SearchEngine::delete_document: only the buffer is searched for the id.
DeleteDocument(k) ==
  /\ up
  /\ ~BufferLocked
  /\ buffer' = {b \in buffer : KeyOf[b] # k}
  /\ UNCHANGED <<up, fresh, segments, nextId, disk, workerVars, faultVars>>

-----------------------------------------------------------------------------
(* flush_buffer.                                                            *)

\* Mutated FlushNothing: wait for documents instead of returning.
FlushWaits(w) ==
  /\ up
  /\ pc[w] = "flush"
  /\ ~BufferLocked
  /\ buffer = {}
  /\ UNCHANGED vars

\* Another worker has flushed in between.
FlushNothing(w) ==
  /\ up
  /\ pc[w] = "flush"
  /\ ~BufferLocked
  /\ buffer = {}
  /\ Finish(w)
  /\ UNCHANGED <<up, fresh, buffer, segments, nextId, disk, faultVars>>

\* Mutated FlushBegin: the buffer is read, not drained.
FlushBeginKeepsBuffer(w) ==
  /\ up
  /\ pc[w] = "flush"
  /\ ~BufferLocked
  /\ buffer # {}
  /\ nextId \in Ids
  /\ dirId' = [dirId EXCEPT ![w] = nextId]
  /\ nextId' = nextId + 1
  /\ batch' = [batch EXCEPT ![w] = buffer]
  /\ Goto(w, "writing")
  /\ UNCHANGED <<up, fresh, buffer, segments, disk, cand, built, faultVars>>

\* The buffer is drained before a byte is written.
FlushBegin(w) ==
  /\ up
  /\ pc[w] = "flush"
  /\ ~BufferLocked
  /\ buffer # {}
  /\ nextId \in Ids
  /\ dirId' = [dirId EXCEPT ![w] = nextId]
  /\ nextId' = nextId + 1
  /\ batch' = [batch EXCEPT ![w] = buffer]
  /\ buffer' = {}
  /\ Goto(w, "writing")
  /\ UNCHANGED <<up, fresh, segments, disk, cand, built, faultVars>>

\* Mutated BuildDone: the segment is used without being opened.
BuildDoneUnopened(w, from, to) ==
  /\ up
  /\ pc[w] = from
  /\ disk' = [disk EXCEPT ![dirId[w]] = Output(w)]
  /\ built' = [built EXCEPT ![w] = Opened(dirId[w], Output(w))]
  /\ batch' = [batch EXCEPT ![w] = {}]
  /\ Goto(w, to)
  /\ UNCHANGED <<up, fresh, buffer, segments, nextId, cand, dirId, faultVars>>

\* SegmentBuilder::build writes the files, then opens what it wrote.  If that
\* fails, the error goes up: the directory stays and the batch is gone.
BuildDone(w, from, to) ==
  /\ up
  /\ pc[w] = from
  /\ disk' = [disk EXCEPT ![dirId[w]] = Output(w)]
  /\ IF Openable(Output(w))
       THEN /\ built' = [built EXCEPT ![w] = Opened(dirId[w], Output(w))]
            /\ batch' = [batch EXCEPT ![w] = {}]
            /\ Goto(w, to)
            /\ UNCHANGED <<cand, dirId>>
       ELSE Finish(w)
  /\ UNCHANGED <<up, fresh, buffer, segments, nextId, faultVars>>

FlushDone(w) == BuildDone(w, "writing", "add")

\* Mutated AddSegment: the merge check without the push.
AddSegmentForgets(w) ==
  /\ up
  /\ pc[w] = "add"
  /\ built' = [built EXCEPT ![w] = NoSegment]
  /\ Goto(w, "check")
  /\ UNCHANGED <<up, fresh, buffer, segments, nextId, disk, batch, cand, dirId,
                 faultVars>>

\* add_segment, first half: the segment becomes searchable.
AddSegment(w) ==
  /\ up
  /\ pc[w] = "add"
  /\ segments' = segments \cup {built[w]}
  /\ built' = [built EXCEPT ![w] = NoSegment]
  /\ Goto(w, "check")
  /\ UNCHANGED <<up, fresh, buffer, nextId, disk, batch, cand, dirId, faultVars>>

-----------------------------------------------------------------------------
(* maybe_trigger_merge, trigger_merge, merge_segments.                      *)

\* Mutated CheckMerge: > for >=.
CheckMergeAbove(w) ==
  /\ up
  /\ pc[w] = "check"
  /\ IF Cardinality(segments) > MinMergeSegments
       THEN Goto(w, "select") /\ UNCHANGED <<batch, cand, dirId, built>>
       ELSE Finish(w)
  /\ UNCHANGED <<up, fresh, buffer, segments, nextId, disk, faultVars>>

\* maybe_trigger_merge: max_merge_segments, not below the minimum, changes
\* only the log line.
CheckMerge(w) ==
  /\ up
  /\ pc[w] = "check"
  /\ IF Cardinality(segments) >= MinMergeSegments
       THEN Goto(w, "select") /\ UNCHANGED <<batch, cand, dirId, built>>
       ELSE Finish(w)
  /\ UNCHANGED <<up, fresh, buffer, segments, nextId, disk, faultVars>>

Mergeable == {s \in segments : s.counted}

\* What truncating the sorted candidates may leave.  The order by size is
\* abstracted: any choice of that many segments.
Selections ==
  LET n == Cardinality(Mergeable)
  IN {C \in SUBSET Mergeable :
        Cardinality(C) = IF n < MergeFactor THEN n ELSE MergeFactor}

\* Fewer than two candidates.
MergeNothing(w) ==
  /\ up
  /\ pc[w] = "select"
  /\ \E C \in Selections : Cardinality(C) < 2
  /\ Finish(w)
  /\ UNCHANGED <<up, fresh, buffer, segments, nextId, disk, faultVars>>

\* Mutated SelectMerge: the candidates leave the list when they are chosen.
SelectMergeTakes(w) ==
  /\ up
  /\ pc[w] = "select"
  /\ nextId \in Ids
  /\ \E C \in Selections :
       /\ Cardinality(C) >= 2
       /\ cand' = [cand EXCEPT ![w] = C]
       /\ segments' = segments \ C
  /\ dirId' = [dirId EXCEPT ![w] = nextId]
  /\ nextId' = nextId + 1
  /\ Goto(w, "merging")
  /\ UNCHANGED <<up, fresh, buffer, disk, batch, built, faultVars>>

\* The candidates are a snapshot: no lock is held from here to the swap.
SelectMerge(w) ==
  /\ up
  /\ pc[w] = "select"
  /\ nextId \in Ids
  /\ \E C \in Selections :
       /\ Cardinality(C) >= 2
       /\ cand' = [cand EXCEPT ![w] = C]
  /\ dirId' = [dirId EXCEPT ![w] = nextId]
  /\ nextId' = nextId + 1
  /\ Goto(w, "merging")
  /\ UNCHANGED <<up, fresh, buffer, segments, disk, batch, built, faultVars>>

\* A candidate lists a term whose postings it cannot read: NotFound, before
\* anything is written.
Unreadable(w) == \E s \in cand[w] : s.index = "dangling"

MergeUnreadable(w) ==
  /\ up
  /\ pc[w] = "merging"
  /\ Unreadable(w)
  /\ Finish(w)
  /\ UNCHANGED <<up, fresh, buffer, segments, nextId, disk, faultVars>>

MergeDone(w) == ~Unreadable(w) /\ BuildDone(w, "merging", "swap")

\* Mutated SwapSegments: without the retain ...
SwapSegmentsKeepsOld(w) ==
  /\ up
  /\ pc[w] = "swap"
  /\ segments' = segments \cup {built[w]}
  /\ built' = [built EXCEPT ![w] = NoSegment]
  /\ Goto(w, "cleanup")
  /\ UNCHANGED <<up, fresh, buffer, nextId, disk, batch, cand, dirId, faultVars>>

\* ... and without the push.
SwapSegmentsForgets(w) ==
  /\ up
  /\ pc[w] = "swap"
  /\ segments' = {s \in segments : s.id \notin IdsOf(cand[w])}
  /\ built' = [built EXCEPT ![w] = NoSegment]
  /\ Goto(w, "cleanup")
  /\ UNCHANGED <<up, fresh, buffer, nextId, disk, batch, cand, dirId, faultVars>>

\* Under the write lock: drop whichever candidates are still there, add the
\* merged segment.
SwapSegments(w) ==
  /\ up
  /\ pc[w] = "swap"
  /\ segments' = {s \in segments : s.id \notin IdsOf(cand[w])} \cup {built[w]}
  /\ built' = [built EXCEPT ![w] = NoSegment]
  /\ Goto(w, "cleanup")
  /\ UNCHANGED <<up, fresh, buffer, nextId, disk, batch, cand, dirId, faultVars>>

\* The cleanup loop: a directory that is already gone is skipped ...
CleanupNext(w) ==
  /\ up
  /\ pc[w] = "cleanup"
  /\ \E s \in cand[w] :
       /\ cand' = [cand EXCEPT ![w] = @ \ {s}]
       /\ IF Exists(disk[s.id])
            THEN Goto(w, "remove") /\ dirId' = [dirId EXCEPT ![w] = s.id]
            ELSE UNCHANGED <<pc, dirId>>
  /\ UNCHANGED <<up, fresh, buffer, segments, nextId, disk, batch, built, faultVars>>

CleanupDone(w) ==
  /\ up
  /\ pc[w] = "cleanup"
  /\ cand[w] = {}
  /\ Finish(w)
  /\ UNCHANGED <<up, fresh, buffer, segments, nextId, disk, faultVars>>

\* Mutated RemoveDone: the loop ends with the first removal.
RemoveDoneReturns(w) ==
  /\ up
  /\ pc[w] = "remove"
  /\ disk' = [disk EXCEPT ![dirId[w]] = AbsentDir]
  /\ Finish(w)
  /\ UNCHANGED <<up, fresh, buffer, segments, nextId, faultVars>>

\* ... and one that exists is removed.
RemoveDone(w) ==
  /\ up
  /\ pc[w] = "remove"
  /\ disk' = [disk EXCEPT ![dirId[w]] = AbsentDir]
  /\ Goto(w, "cleanup")
  /\ UNCHANGED <<up, fresh, buffer, segments, nextId, batch, cand, dirId, built, faultVars>>

\* Another worker has removed it since the exists() check: remove_dir_all may
\* fail, and the rest of the cleanup is abandoned.
RemoveRaced(w) ==
  /\ up
  /\ pc[w] = "remove"
  /\ ~Exists(disk[dirId[w]])
  /\ Finish(w)
  /\ UNCHANGED <<up, fresh, buffer, segments, nextId, disk, faultVars>>

-----------------------------------------------------------------------------
(* Failures.                                                                *)

Building(w) == pc[w] \in {"writing", "merging"}
OnDisk(w)   == Building(w) \/ pc[w] = "remove"

\* The directory of a worker whose build or removal ends early.
StopsEarly(w) ==
  \/ /\ Building(w)
     /\ \E n \in 0..4, cut \in BOOLEAN :
          disk' = [disk EXCEPT ![dirId[w]] = Interrupted(@, Output(w), n, cut)]
  \/ /\ pc[w] = "remove"
     /\ \E left \in SUBSET Files :
          disk' = [disk EXCEPT ![dirId[w]] = Remains(@, left)]

\* An i/o call fails: the error ends the request (a drained batch is lost,
\* or the rest of the cleanup is abandoned).
IoError(w) ==
  /\ up
  /\ ioErrors < MaxIoErrors
  /\ ioErrors' = ioErrors + 1
  /\ ~(pc[w] = "merging" /\ Unreadable(w))
  /\ StopsEarly(w)
  /\ Finish(w)
  /\ UNCHANGED <<up, fresh, buffer, segments, nextId, crashes>>

\* The process is killed.  A worker that was writing or removing files may
\* have got a little further than the files show (Halt).
Crash ==
  /\ up
  /\ crashes < MaxCrashes
  /\ crashes' = crashes + 1
  /\ up' = FALSE
  /\ buffer' = {}
  /\ segments' = {}
  /\ pc'    = [w \in Workers |-> IF OnDisk(w) THEN pc[w] ELSE "idle"]
  /\ batch' = [w \in Workers |-> IF OnDisk(w) THEN batch[w] ELSE {}]
  /\ cand'  = [w \in Workers |-> IF OnDisk(w) THEN cand[w] ELSE {}]
  /\ dirId' = [w \in Workers |-> IF OnDisk(w) THEN dirId[w] ELSE 1]
  /\ built' = [w \in Workers |-> NoSegment]
  /\ UNCHANGED <<fresh, nextId, disk, ioErrors>>

Halt(w) ==
  /\ ~up
  /\ \/ StopsEarly(w)
     \/ pc[w] = "merging" /\ Unreadable(w) /\ UNCHANGED disk
  /\ Finish(w)
  /\ UNCHANGED <<up, fresh, buffer, segments, nextId, faultVars>>

\* Mutated LoadSegments: the next id counts the segments ...
LoadSegmentsCounts ==
  /\ up' = TRUE
  /\ buffer' = {}
  /\ segments' = Loaded
  /\ nextId' = Cardinality(OpenableIds) + 1
  /\ UNCHANGED <<fresh, disk, faultVars>>

\* ... or is the largest id in use.
LoadSegmentsOffByOne ==
  /\ up' = TRUE
  /\ buffer' = {}
  /\ segments' = Loaded
  /\ \E m \in OpenableIds \cup {0} :
       /\ \A i \in OpenableIds : i <= m
       /\ nextId' = m
  /\ UNCHANGED <<fresh, disk, faultVars>>

\* SegmentManager::new with load_segments: what opens is served, what does
\* not is skipped, and ids go on from the largest that opened.
LoadSegments ==
  /\ up' = TRUE
  /\ buffer' = {}
  /\ segments' = Loaded
  /\ \E m \in OpenableIds \cup {0} :
       /\ \A i \in OpenableIds : i <= m
       /\ nextId' = m + 1
  /\ UNCHANGED <<fresh, disk, faultVars>>

Restart ==
  /\ ~up
  /\ \A w \in Workers : pc[w] = "idle"
  /\ LoadSegments
  /\ UNCHANGED workerVars

\* create_collection on a collection that is open replaces its manager.  It
\* needs the segment_managers write lock, which a flushing worker blocks; one
\* that is about to flush goes on with the new manager.
ReopenManager ==
  /\ up
  /\ \A w \in Workers : pc[w] \in {"idle", "flush"}
  /\ LoadSegments
  /\ UNCHANGED workerVars
-----------------------------------------------------------------------------
WorkerStep(w) ==
  \/ FlushNothing(w) \/ FlushBegin(w) \/ FlushDone(w)
  \/ AddSegment(w) \/ CheckMerge(w)
  \/ MergeNothing(w) \/ SelectMerge(w) \/ MergeUnreadable(w) \/ MergeDone(w)
  \/ SwapSegments(w) \/ CleanupNext(w) \/ CleanupDone(w)
  \/ RemoveDone(w) \/ RemoveRaced(w)
  \/ Halt(w)

Next ==
  \/ \E w \in Workers : \/ \E D \in Batches : Insert(w, D)
                        \/ WorkerStep(w)
                        \/ IoError(w)
  \/ \E k \in Keys : DeleteDocument(k)
  \/ Crash
  \/ Restart
  \/ ReopenManager

Spec == Init /\ [][Next]_vars

\* The threads of the runtime run: a request that can take a step takes one.
\* Nothing forces a client to insert, or anybody to restart the process.
FairSpec == Spec /\ \A w \in Workers : WF_vars(WorkerStep(w))

-----------------------------------------------------------------------------
(* Properties.                                                              *)

TypeOK ==
  /\ up \in BOOLEAN
  /\ fresh \subseteq Docs
  /\ buffer \subseteq Docs
  /\ segments \subseteq Segment
  /\ nextId \in 1..(MaxSegmentId + 1)
  /\ disk \in [Ids -> Dir]
  /\ pc \in [Workers -> Labels]
  /\ batch \in [Workers -> SUBSET Docs]
  /\ cand \in [Workers -> SUBSET Segment]
  /\ dirId \in [Workers -> Ids]
  /\ built \in [Workers -> Segment]
  /\ crashes \in 0..MaxCrashes
  /\ ioErrors \in 0..MaxIoErrors

\* Segments the manager serves or is about to publish.
Unpublished == {built[w] : w \in {v \in Workers : pc[v] \in {"add", "swap"}}}
Held        == segments \cup Unpublished

Durable == DocsOf(Loaded)   \* what load_segments would find now
Served  == DocsOf(segments) \* what is in the segments that searches read

\* Whatever other workers build, merge or remove meanwhile, the directory of
\* every segment that is served, or built and about to be, is on disk
\* unchanged: no cleanup loop takes away, and no reused id overwrites, a
\* directory in use.
HeldIntact ==
  up => \A s \in Held : s.id \in OpenableIds /\ s = Opened(s.id, disk[s.id])

\* No step loses what a restart would have found: not a cleanup after
\* overlapping merges, not a build into the directory an earlier process left
\* behind, not a kill in the middle of either.
DurableNeverShrinks == [][Durable \subseteq Durable']_vars

\* While the process runs, no merge or cleanup takes a document out of the
\* segments that searches read, not even for the time of the swap.
SearchNeverLoses == [][up /\ up' => Served \subseteq Served']_vars

\* While the process runs, what a restart would find is what searches reach,
\* plus what is on its way into the segment list: flushes and merges leave no
\* directory behind that holds a document nobody serves.  (I/o errors do.)
DurableIsServed ==
  up /\ ioErrors = 0 => Durable = DocsOf(Held)

NoFaults == crashes = 0 /\ ioErrors = 0

\* With one request at a time and no faults, every document is in one
\* segment ...
OneSegmentPerDocument ==
  NoFaults => \A s, t \in segments : s # t => s.docs \cap t.docs = {}

\* ... between requests the directories that open are the segments served ...
NoLeftovers ==
  NoFaults /\ (\A w \in Workers : pc[w] = "idle") => OpenableIds = IdsOf(segments)

\* ... and merges keep their number below the threshold.
SegmentCountBounded ==
  NoFaults /\ (\A w \in Workers : pc[w] = "idle")
    => Cardinality(segments) < MinMergeSegments

\* trigger_merge, "Replace old segments with merged one": the swap puts the
\* merged segment in the place of segments that are there.
ReplacesOldSegments ==
  \A w \in Workers : pc[w] = "swap" => cand[w] \subseteq segments

\* A request that has started to flush, merge or clean up comes to its end.
RequestsEnd == \A w \in Workers : pc[w] # "idle" ~> pc[w] = "idle"

\* Documents on disk do not stay out of the searches' reach.
DurableGetsServed ==
  \A d \in Docs : up /\ d \in Durable ~> d \in Served \/ ~up

-----------------------------------------------------------------------------
(* The inductive invariant behind HeldIntact and DurableNeverShrinks.       *)

\* Workers whose dirId is a directory of their own, whose cand is a list of
\* segments, and who are removing a directory.
Owner(w)    == pc[w] \in {"writing", "merging", "add", "swap"}
HasCand(w)  == pc[w] \in {"merging", "swap", "cleanup", "remove"}
Removing(w) == pc[w] = "remove"

\* A directory under construction belongs to one worker: nobody else builds,
\* serves, merges or removes it.
OwnersApart ==
  \A w \in Workers : Owner(w) =>
    /\ \A v \in Workers : v # w /\ Owner(v) => dirId[v] # dirId[w]
    /\ \A v \in Workers : HasCand(v) => \A c \in cand[v] : c.id # dirId[w]
    /\ \A v \in Workers : Removing(v) => dirId[v] # dirId[w]
    /\ \A s \in segments : s.id # dirId[w]

\* Until it is complete, no restart would load it.
BuildsUnopenable ==
  \A w \in Workers : Building(w) => ~Openable(disk[dirId[w]])

\* The built segment is the one in that directory; a merged one has the
\* documents of its candidates.
BuiltMatches ==
  \A w \in Workers :
    /\ pc[w] \in {"add", "swap"} => built[w].id = dirId[w]
    /\ pc[w] = "swap" => built[w].docs = DocsOf(cand[w])

\* Ids not yet given out are not in use.
IdsBelowNext ==
  up => /\ \A i \in Ids : Openable(disk[i]) => i < nextId
        /\ \A w \in Workers : Owner(w) \/ Removing(w) => dirId[w] < nextId
        /\ \A w \in Workers : HasCand(w) => \A c \in cand[w] : c.id < nextId

\* Whatever became of the candidates, their documents are served, and their
\* directories hold nothing else.
CandidatesCovered ==
  up => \A w \in Workers : HasCand(w) =>
          \A c \in cand[w] : c.docs \subseteq Served /\ disk[c.id].docs \subseteq c.docs

\* What a cleanup is about to remove, or is removing, is served no longer.
CleanupApart ==
  up => \A w \in Workers :
          /\ pc[w] \in {"cleanup", "remove"} =>
               \A c \in cand[w] : \A s \in segments : s.id # c.id
          /\ Removing(w) => /\ \A s \in segments : s.id # dirId[w]
                            /\ disk[dirId[w]].docs \subseteq Served

\* After a kill in the middle of a removal, the documents are in a directory
\* that nobody was removing.
KilledRemovalCovered ==
  ~up => /\ segments = {}
         /\ \A w \in Workers : OnDisk(w) \/ pc[w] = "idle"
         /\ \A w \in Workers : Removing(w) =>
              \A d \in disk[dirId[w]].docs :
                \E i \in Ids : /\ Openable(disk[i])
                               /\ d \in disk[i].docs
                               /\ \A v \in Workers : Removing(v) => dirId[v] # i

IInv ==
  /\ TypeOK
  /\ HeldIntact
  /\ OwnersApart
  /\ BuildsUnopenable
  /\ BuiltMatches
  /\ IdsBelowNext
  /\ CandidatesCovered
  /\ CleanupApart
  /\ KilledRemovalCovered

\* What the refinement needs besides: the lock keeps all of memory in one
\* batch, and whatever is anywhere was submitted once.
BatchesApart ==
  /\ \A w \in Workers : batch[w] # {} <=> pc[w] = "writing"
  /\ \A w \in Workers : up /\ pc[w] = "writing" =>
       buffer = {} /\ \A v \in Workers : pc[v] = "writing" => v = w

SubmittedOnce ==
  /\ buffer \cap fresh = {}
  /\ \A w \in Workers : batch[w] \cap fresh = {} /\ DocsOf(cand[w]) \cap fresh = {}
  /\ \A i \in Ids : disk[i].docs \cap fresh = {}
  /\ DocsOf(segments) \cap fresh = {}
  /\ \A w \in Workers : built[w].docs \cap fresh = {}

\* Memory is the buffer and what flushes have drained.
Volatile == IF up THEN buffer \cup UNION {batch[w] : w \in Workers} ELSE {}

\* What is in memory is in no directory, complete or not, so that nothing an
\* interrupted write leaves behind is in memory as well.
MemoryApart == \A i \in Ids : disk[i].docs \cap Volatile = {}

RInv == IInv /\ BatchesApart /\ SubmittedOnce /\ MemoryApart

-----------------------------------------------------------------------------
(* The inductive invariant, beside RInv, of one request at a time without   *)
(* faults.                                                                  *)

OneAtATime == \A v, w \in Workers : v = w

\* A segment that is served or about to be can be merged.
HeldComplete == \A s \in Held : s.docs # {} /\ s.index = "full" /\ s.counted

\* No document is in two segments, and one just flushed is in none.
SegmentsApart ==
  /\ \A s, t \in segments : s # t => s.docs \cap t.docs = {}
  /\ \A w \in Workers : pc[w] = "add" => built[w].docs \cap Served = {}

\* Until the swap nobody else removes a candidate.
CandidatesServed ==
  \A w \in Workers : pc[w] \in {"merging", "swap"} =>
    cand[w] \subseteq segments /\ Cardinality(cand[w]) >= 2

\* A directory that opens and is in nobody's hands is one the cleanup has
\* still to remove, or is removing.
LeftoversKnown ==
  /\ \A i \in OpenableIds :
       \/ i \in IdsOf(Held)
       \/ \E w \in Workers : pc[w] \in {"cleanup", "remove"} /\ i \in IdsOf(cand[w])
       \/ \E w \in Workers : Removing(w) /\ i = dirId[w]
  /\ \A w \in Workers : Removing(w) => Exists(disk[dirId[w]])

\* The flush that reaches the threshold merges before the next one.
CountKept ==
  /\ IsFiniteSet(segments)
  /\ Cardinality(segments) <= MinMergeSegments
  /\ Cardinality(segments) = MinMergeSegments =>
       \E w \in Workers : pc[w] \in {"check", "select", "merging", "swap"}
  /\ \A w \in Workers : pc[w] = "select" => Cardinality(segments) = MinMergeSegments

SerialInv ==
  NoFaults => /\ up
              /\ HeldComplete
              /\ SegmentsApart
              /\ CandidatesServed
              /\ LeftoversKnown
              /\ CountKept

-----------------------------------------------------------------------------
(* The abstract store.                                                      *)

Store == INSTANCE DocStore WITH volatile <- Volatile, durable <- Durable,
                                served <- Served
ImplementsDocStore == Store!DSpec
=============================================================================
