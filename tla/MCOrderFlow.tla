----------------------------- MODULE MCOrderFlow -----------------------------
(* The items of a cart behave alike. *)
EXTENDS OrderFlow

Symmetry == Permutations(Items)
=============================================================================
