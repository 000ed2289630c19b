-------------------------- MODULE MCRegionRegistry --------------------------
(* RegionRegistry with few regions and small tables for TLC. *)
EXTENDS RegionRegistry, TLC

Symmetry == Permutations(Region)

\* Every slot of a table of 4, collisions, and wrap-around in tables of 4 and 8.
SomeHashes == {0, 1, 2, 7}

=============================================================================
