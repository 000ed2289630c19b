---------------------------- MODULE MCThreadHeap ----------------------------
(* ThreadHeap with few threads, heaps, segments, pages and blocks for TLC. *)
EXTENDS ThreadHeap, TLC

Symmetry == Permutations(Thread) \cup Permutations(Segment) \cup Permutations(HeapAddr)

OneBlock == <<1>>

\* The first class has pages of two blocks, carved at once; the second of one.
TwoClasses == <<2, 1>>

=============================================================================
