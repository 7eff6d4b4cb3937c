------------------------------- MODULE Index -------------------------------
(***************************************************************************)
(* What the segments of one collection say of their documents: the numbers *)
(* under which a segment stores them and the numbers it lists for each     *)
(* term, after flushes (segment_manager.rs, flush_buffer) and merges       *)
(* (merge_segments).                                                       *)
(*                                                                         *)
(* One request runs at a time and nothing fails: SegmentStore is about     *)
(* that.  A document is a version as the client sent it; the same one may  *)
(* be flushed again, since a start reads documents.jsonl into the buffer.  *)
(* Terms are what the tokenizer makes of the text.                         *)
(***************************************************************************)
EXTENDS Naturals, Sequences, FiniteSets, FiniteSetsExt, SequencesExt

CONSTANTS
  Docs,             \* documents
  Terms,            \* terms of the tokenizer
  TermsOf,          \* the terms of each document
  MaxBatch,         \* bound: documents in the buffer at a flush
  MaxFlushes,       \* bound: flushes
  MinMergeSegments, \* MergePolicy::min_merge_segments
  MergeFactor       \* MergePolicy::merge_factor

\* A batch without any term makes a segment that does not open: SegmentStore.
ASSUME IndexConstants ==
  /\ TermsOf \in [Docs -> SUBSET Terms \ {{}}]
  /\ {MaxBatch, MaxFlushes} \subseteq Nat
  /\ {MinMergeSegments, MergeFactor} \subseteq Nat \ {0, 1}

VARIABLES
  segments, \* the segment list, oldest first
  flushes   \* how many flushes there were

indexVars == <<segments, flushes>>

Numbers == 0 .. MaxBatch * MaxFlushes

DocCount(seg) == Cardinality(DOMAIN seg.docs)

\* The numbers under which a segment stores documents that have a term.
Holding(seg, t) == {n \in DOMAIN seg.docs : t \in TermsOf[seg.docs[n]]}

IndexInit ==
  /\ segments = <<>>
  /\ flushes = 0

-----------------------------------------------------------------------------
(* Flush                                                                   *)

\* The documents of a batch, numbered from 0 in the order they were drained.
Flushed(batch) ==
  LET docs == [n \in 0 .. Len(batch) - 1 |-> batch[n + 1]]
  IN  [docs     |-> docs,
       postings |-> [t \in Terms |->
                       {n \in DOMAIN docs : t \in TermsOf[docs[n]]}]]

MergeDue == Len(segments) >= MinMergeSegments

\* A hash map is drained in any order.  The merge that the last flush made due
\* runs in the same request, so it comes before the next flush.
Flush ==
  /\ flushes < MaxFlushes
  /\ ~MergeDue
  /\ \E D \in SUBSET Docs : \E batch \in SetToSeqs(D) :
       /\ Cardinality(D) \in 1 .. MaxBatch
       /\ segments' = Append(segments, Flushed(batch))
  /\ flushes' = flushes + 1

-----------------------------------------------------------------------------
(* Merge                                                                   *)

\* The order of the candidates: smaller segments first, and the sort is stable.
Before(i, j) ==
  \/ DocCount(segments[i]) < DocCount(segments[j])
  \/ DocCount(segments[i]) = DocCount(segments[j]) /\ i < j

Place(i) == Cardinality({j \in DOMAIN segments : Before(j, i)}) + 1

\* Positions in the list of the smallest segments.
Candidates ==
  [k \in 1 .. Min({MergeFactor, Len(segments)}) |->
     CHOOSE i \in DOMAIN segments : Place(i) = k]

\* The documents of a segment in an order its file may have them in.
FileOrders(seg) ==
  {[i \in DOMAIN s |-> seg.docs[s[i]]] : s \in SetToSeqs(DOMAIN seg.docs)}

\* For each candidate the order of its file.
Readings(cand) ==
  {r \in [DOMAIN cand -> UNION {FileOrders(segments[c]) : c \in Range(cand)}] :
     \A i \in DOMAIN cand : r[i] \in FileOrders(segments[cand[i]])}

\* What the loop over the candidates collects: their documents, and how long
\* the list of each term has become.
Collected(cand, reading) ==
  LET after[k \in 0 .. Len(cand)] ==
        IF k = 0 THEN [docs |-> <<>>, lengths |-> [t \in Terms |-> 0]]
        ELSE [docs    |-> after[k - 1].docs \o reading[k],
              lengths |-> [t \in Terms |->
                             after[k - 1].lengths[t]
                               + Cardinality(segments[cand[k]].postings[t])]]
  IN  after[Len(cand)]

\* Mutated MergedSegment: the numbers in postings are kept as they are.
MergedUnmapped(cand, reading) ==
  [docs     |-> Collected(cand, reading).docs,
   postings |-> [t \in Terms |->
                   UNION {segments[c].postings[t] : c \in Range(cand)}]]

\* Mutated MergedSegment: postings are numbered from 0, as in a flush.
MergedFromZero(cand, reading) ==
  [docs     |-> Collected(cand, reading).docs,
   postings |-> [t \in Terms |->
                   0 .. Collected(cand, reading).lengths[t] - 1]]

\* Mutated MergedSegment: the longest of the candidates' lists is taken.
MergedLongest(cand, reading) ==
  [docs     |-> Collected(cand, reading).docs,
   postings |-> [t \in Terms |->
                   1 .. Max({Cardinality(segments[c].postings[t])
                               : c \in Range(cand)})]]

\* Documents get new numbers from 1 in the order they are read.  A posting
\* list keeps its length: its entries become the numbers from 1.
MergedSegment(cand, reading) ==
  [docs     |-> Collected(cand, reading).docs,
   postings |-> [t \in Terms |-> 1 .. Collected(cand, reading).lengths[t]]]

\* The segments that are no candidates, in their order.
Retained(cand) ==
  LET kept[i \in 0 .. Len(segments)] ==
        IF i = 0 THEN <<>>
        ELSE IF i \in Range(cand) THEN kept[i - 1]
        ELSE Append(kept[i - 1], segments[i])
  IN  kept[Len(segments)]

\* Mutated MergeSegments: the merged segment is added and the candidates stay.
MergeKeepsCandidates ==
  /\ MergeDue
  /\ Len(Candidates) >= 2
  /\ \E reading \in Readings(Candidates) :
       segments' = Append(segments, MergedSegment(Candidates, reading))
  /\ UNCHANGED flushes

MergeSegments ==
  /\ MergeDue
  /\ Len(Candidates) >= 2
  /\ \E reading \in Readings(Candidates) :
       segments' = Append(Retained(Candidates), MergedSegment(Candidates, reading))
  /\ UNCHANGED flushes

IndexNext == Flush \/ MergeSegments

IndexSpec == IndexInit /\ [][IndexNext]_indexVars

-----------------------------------------------------------------------------
(* Properties                                                              *)

\* What is stored in the segments at the given positions.
Stored(I) == UNION {{i} \X DOMAIN segments[i].docs : i \in I}

\* Every segment is of the kind that flushes and merges make, and no more
\* copies are stored than were flushed: a merge multiplies nothing.
IndexTypeOK ==
  /\ flushes \in 0 .. MaxFlushes
  /\ \A i \in DOMAIN segments :
       /\ DOMAIN segments[i].docs \subseteq Numbers
       /\ Range(segments[i].docs) \subseteq Docs
       /\ segments[i].postings \in [Terms -> SUBSET Numbers]
  /\ Cardinality(Stored(DOMAIN segments)) <= MaxBatch * flushes

\* However often segments were merged, a term has as many postings as there
\* are stored documents that contain it: the document frequency survives, so
\* that a term that is stored is found and one that is not stored is not.
FrequencyKept ==
  \A i \in DOMAIN segments : \A t \in Terms :
    Cardinality(segments[i].postings[t]) = Cardinality(Holding(segments[i], t))
=============================================================================
