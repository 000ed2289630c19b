------------------------------- MODULE MCApi --------------------------------
(* Api with a small address space for TLC. *)
EXTENDS Api, TLC

Symmetry == Permutations(Thread)

=============================================================================
