------------------------------ MODULE LoginFlow ------------------------------
(***************************************************************************)
(* From the log-in form through the topic, the account service and its     *)
(* post back to the app, which shows the menu: the account service         *)
(* composed with the app.  The database does not fail here (MCAccount has  *)
(* it fail), but for statements that a name or password made into others;  *)
(* services and apps end at any time.                                      *)
(*                                                                         *)
(* A send that is stored twice is two presses of the button, and one that  *)
(* is lost is no press, so LogIn has no faults of its own.                 *)
(***************************************************************************)
EXTENDS Account

CONSTANTS MaxLives, MaxLost  \* see DoorLeap

ASSUME LoginFlowAssumption == MaxLives \in Nat /\ MaxLost \in Nat

VARIABLES gui, lives, menu, conn, collects, lost,  \* the app, see DoorLeap
          asker  \* history: the request the connection answers, 0 if none

Gui == INSTANCE DoorLeap WITH Clients <- {"account"}

Requests == {m \in Sent : m.password # NoPassword}

appVars == <<gui, lives, menu, conn, collects, lost>>
flowVars == <<vars, appVars, asker>>

FlowTypeOK ==
    /\ TypeOK /\ Gui!AppTypeOK
    /\ \A i \in DOMAIN log : log[i] \in Requests
    /\ asker \in 0..Len(log) /\ (asker = 0 <=> conn["account"] = Gui!Idle)
    /\ up => (asker # 0 => stage = "post" /\ asker = inHand)

FlowInit == Init /\ Gui!AppInit /\ asker = 0

-----------------------------------------------------------------------------
(* LogIn and CreateAccount: the form is there, and keeps what was typed. *)
LogIn ==
    /\ gui # "down" /\ ~menu
    /\ \E m \in Requests : Loop!Publish(m)
    /\ UNCHANGED <<stage, outcome, database, replies, faults, appVars, asker>>

(* What the handler does before and after its post. *)
Work ==
    /\ \/ Receive \/ Connect \/ Select \/ Insert \/ Close \/ Finish
       \/ SelectFails /\ Task.user \notin Plain
       \/ InsertFails /\ ~Literal(Task)
    /\ UNCHANGED <<appVars, asker>>

Response == [path |-> "/logins", success |-> outcome]

PostAnswer ==
    /\ At("post", {"login", "create"})
    /\ Gui!Post("account", Response) /\ asker' = inHand
    /\ UNCHANGED vars

(* Account's Post, with the outcome the connection had. *)
PostReturns ==
    /\ conn["account"].stage \in {"ok", "failed"}
    /\ Post
    /\ (faults' = faults) <=> (conn["account"].stage = "ok")
    /\ (replies' # replies) <=> conn["account"].handled
    /\ Gui!Close("account") /\ asker' = 0

(* The thread of the service that posts. *)
Client == up /\ Gui!Client("account") /\ UNCHANGED <<vars, asker>>

Process == Work \/ PostAnswer \/ PostReturns \/ Client

EventLoop == Gui!ReadyRead("account") /\ UNCHANGED <<vars, asker>>

User == LogIn \/ (Gui!User /\ UNCHANGED <<vars, asker>>)

(* What a dead service wrote is still read. *)
ServiceDies == Crash /\ UNCHANGED <<appVars, asker>>

Forget ==
    /\ ~up /\ conn["account"] # Gui!Idle
    /\ ~Gui!Readable("account", "/logins")
    /\ Gui!Close("account") /\ asker' = 0
    /\ UNCHANGED vars

(* An operator takes longer to start the service than the app to read.       *)
Group ==
    /\ Loop!AutoCommit \/ Loop!Rebalance
       \/ (conn["account"] = Gui!Idle /\ Loop!Restart)
    /\ UNCHANGED <<stage, outcome, database, replies, faults, appVars, asker>>

FlowNext == Process \/ EventLoop \/ User \/ ServiceDies \/ Forget \/ Group

FlowSpec == FlowInit /\ [][FlowNext]_flowVars

(* The service runs as long as it lives, and the app's event loop turns.     *)
FairFlowSpec ==
    FlowSpec /\ WF_flowVars(Process) /\ WF_flowVars(EventLoop)

-----------------------------------------------------------------------------
(* A login answer that the app answered is one it acted on (see DoorLeap).   *)
LoginsTaken == Gui!LoginsTaken

(* A success that is on its way, and that the app has not acted on.          *)
OnItsWay ==
    /\ Gui!Sending("account") /\ ~conn["account"].handled
    /\ conn["account"].request.success

(* The log-in promise survives redelivery, restarts of the service and of    *)
(* the app, late answers, and requests that make other statements than the   *)
(* code means: Account.c++ and main.cpp implement it.                        *)
Promise == INSTANCE LoginService
               WITH asked <- log, accounts <- users, shown <- menu,
                    granted <- IF OnItsWay THEN asker ELSE 0
Implements == Promise!Spec

(* Whoever is let in sees the menu, unless the app or the service dies while *)
(* the answer is on its way; whatever becomes of the list asked for then.    *)
MenuShown == OnItsWay ~> (menu \/ gui # "up" \/ ~up)
=============================================================================
