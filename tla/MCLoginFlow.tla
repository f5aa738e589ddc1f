----------------------------- MODULE MCLoginFlow -----------------------------
EXTENDS LoginFlow

CONSTANTS ann, oneil, p1, p2

(* ann's password may also be p2, or there be two of them, when the INSERT   *)
(* that oneil makes adds that row.                                           *)
MCSent ==
    {[type |-> "create", user |-> ann, password |-> p1],
     [type |-> "create", user |-> oneil, password |-> p1],
     [type |-> "login", user |-> ann, password |-> p1]}

(* No two names are equal for the collation; MCAccount has such a pair. *)
MCFold == [u \in Users |-> u]
=============================================================================
