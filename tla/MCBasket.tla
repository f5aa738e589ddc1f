------------------------------- MODULE MCBasket -------------------------------
(* Redis keys and messages of different items behave alike. *)
EXTENDS Basket, TLC

Symmetry == Permutations(Items)
=============================================================================
