---------------------------- MODULE LoginService ----------------------------
(***************************************************************************)
(* What the log-in screen promises: accounts are made of what was asked    *)
(* for, one for each name, and the menu is shown only for a request that   *)
(* was granted, because it had the name and the password of an account,    *)
(* and once for each time it was.  It is made for requests that are        *)
(* literals in a statement (see Account): of others it only says that no   *)
(* account is lost by them, and that granting them is up to the database.  *)
(***************************************************************************)
EXTENDS Sequences, Naturals

CONSTANTS Requests,  \* [type : {"login", "create"}, user, password]
          Fold, Plain  \* see Account

VARIABLES asked,     \* what users asked for, in order
          accounts,  \* [user, password], in the order they were made
          granted,   \* request whose success is on its way to the app, or 0
          shown      \* the menu is shown

vars == <<asked, accounts, granted, shown>>

Init == asked = <<>> /\ accounts = <<>> /\ granted = 0 /\ shown = FALSE

Asked == {asked[i] : i \in DOMAIN asked}
Accounts == {accounts[i] : i \in DOMAIN accounts}
Credentials(m) == [user |-> m.user, password |-> m.password]

Literal(m) == m.user \in Plain /\ (m.type = "create" => m.password \in Plain)

Ask(m) == asked' = Append(asked, m) /\ UNCHANGED <<accounts, granted, shown>>

Enroll(m) ==
    /\ m.type = "create" /\ Literal(m)
    /\ \A a \in Accounts : Fold[a.user] # Fold[m.user]
    /\ accounts' = Append(accounts, Credentials(m))
    /\ UNCHANGED <<asked, granted, shown>>

(* Accounts that nobody meant to make; those that there are stay.            *)
EnrollOthers(m) ==
    /\ m.type = "create" /\ ~Literal(m)
    /\ Len(accounts) <= Len(accounts')
    /\ \A i \in DOMAIN accounts : accounts'[i] = accounts[i]
    /\ UNCHANGED <<asked, granted, shown>>

Owns(m, a) == Fold[a.user] = Fold[m.user] /\ a.password = m.password

(* Again and again, if need be: the request may be delivered twice. *)
Grant(i) ==
    /\ granted = 0
    /\ Literal(asked[i]) => \E a \in Accounts : Owns(asked[i], a)
    /\ granted' = i
    /\ UNCHANGED <<asked, accounts, shown>>

Show ==
    /\ granted # 0
    /\ granted' = 0 /\ shown' = TRUE
    /\ UNCHANGED <<asked, accounts>>

(* The service ends, with what it was sending. *)
Lose == granted' = 0 /\ UNCHANGED <<asked, accounts, shown>>

(* The app ends, with whatever was on its way. *)
Hide == granted' = 0 /\ shown' = FALSE /\ UNCHANGED <<asked, accounts>>

Next ==
    \/ \E m \in Requests : Ask(m)
    \/ \E m \in Asked : Enroll(m) \/ EnrollOthers(m)
    \/ \E i \in DOMAIN asked : Grant(i)
    \/ Show
    \/ Lose
    \/ Hide

Spec == Init /\ [][Next]_vars
=============================================================================
