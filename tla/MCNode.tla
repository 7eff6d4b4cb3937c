------------------------------- MODULE MCNode -------------------------------
(* Instances of Node for TLC.                                                *)
EXTENDS Node

CONSTANTS c1, c2,         \* collections
          d1, d2, d3, d4, \* document versions
          kA, kB,         \* document ids
          w1, w2          \* workers

\* d1 and d2 are versions of one document, d3 and d4 of another.
TwoKeys == [d \in Docs |-> IF d \in {d1, d2} THEN kA ELSE kB]
=============================================================================
