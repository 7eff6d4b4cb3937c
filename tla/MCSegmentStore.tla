--------------------------- MODULE MCSegmentStore ---------------------------
(* Instances of SegmentStore for TLC.                                        *)
EXTENDS SegmentStore, TLC

CONSTANTS d1, d2, d3, d4, \* document versions
          kA, kB,         \* document ids
          w1, w2          \* workers

\* d1 and d2 are versions of one document, d3 and d4 of another.
TwoKeys == [d \in Docs |-> IF d \in {d1, d2} THEN kA ELSE kB]

\* Used where all of d1, d2 are indexable and no liveness is checked.
Symmetry == Permutations(Workers) \cup Permutations({d1, d2})
=============================================================================
