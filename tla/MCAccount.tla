------------------------------ MODULE MCAccount ------------------------------
EXTENDS Account

CONSTANTS ann, Ann, oneil, p1, p2

(* The default collation: ann and Ann are one name. *)
MCFold == (ann :> ann) @@ (Ann :> ann) @@ (oneil :> oneil)

(* Each spelling of ann asks for an account, and one of them logs in.        *)
MCSent ==
    {[type |-> "create", user |-> ann, password |-> p1],
     [type |-> "create", user |-> Ann, password |-> p2],
     [type |-> "create", user |-> oneil, password |-> p1],
     [type |-> "create", user |-> Ann, password |-> NoPassword],
     [type |-> "login", user |-> Ann, password |-> p1],
     [type |-> "login", user |-> oneil, password |-> p2]}
=============================================================================
