------------------------------- MODULE MCPage -------------------------------
(* Page with small sets of threads and blocks for TLC. *)
EXTENDS Page, TLC

Symmetry == Permutations(Thread)

=============================================================================
