------------------------------- MODULE Links --------------------------------
(***************************************************************************)
(* Lists that are threaded through the fields of their elements, as all    *)
(* lists of the allocator are.  The links are a function f from elements   *)
(* to elements or an end marker outside its domain.                        *)
(***************************************************************************)
EXTENDS Naturals

\* The words met on the way from x, n links far; past the end it stays there.
Trail(x, f, n) ==
  LET at[i \in 0 .. n] ==
        IF i = 0 THEN x ELSE IF at[i - 1] \in DOMAIN f THEN f[at[i - 1]] ELSE at[i - 1]
  IN at

Follow(x, f, n) ==
  LET at == Trail(x, f, n) IN {at[i] : i \in 0 .. n}

=============================================================================
