--------------------------- MODULE LoginFlow_proofs ---------------------------
(***************************************************************************)
(* Proofs about the log-in flow.  Each of its steps is one of the account  *)
(* service or leaves it alone (ImplementsAccount), so what was proved of   *)
(* the service holds in the flow; the app adds the state of the one        *)
(* connection, and with it the promise of the log-in screen is kept by     *)
(* every step (KeepsPromise).                                              *)
(***************************************************************************)
EXTENDS LoginFlow, Account_proofs

(* What a user asks for is a message of the topic.                           *)
LEMMA RequestTypes == Requests \subseteq Messages
BY DEF Requests, Messages

(* Each step of the flow is a step of the account service.                   *)
LEMMA AccountStep == [FlowNext]_flowVars => [Next]_vars
<1> SUFFICES ASSUME [FlowNext]_flowVars PROVE Next \/ UNCHANGED vars
  OBVIOUS
<1>1. CASE LogIn \/ Group
  BY <1>1, RequestTypes DEF LogIn, Group, Next, Environment
<1>2. CASE Work \/ PostReturns \/ ServiceDies
  BY <1>2 DEF Work, PostReturns, ServiceDies, Next, Service
<1>3. CASE PostAnswer \/ Client \/ EventLoop \/ (Gui!User /\ UNCHANGED <<vars, asker>>)
           \/ Forget \/ UNCHANGED flowVars
  BY <1>3 DEF PostAnswer, Client, EventLoop, Forget, flowVars
<1> QED  BY <1>1, <1>2, <1>3 DEF FlowNext, Process, User

(* The flow is the account service, posting to a real app.                   *)
THEOREM ImplementsAccount == FlowSpec => Spec
<1>1. FlowInit => Init
  BY DEF FlowInit
<1> QED  BY <1>1, AccountStep, PTL DEF FlowSpec, Spec

-----------------------------------------------------------------------------
Link == conn["account"]

(* A connection with an answer on it.                                        *)
Answering == [stage : {"sending", "ok", "failed"}, request : Gui!Answers,
              written : 0..2, read : 0..2, answered : BOOLEAN,
              handled : BOOLEAN]

(* The app answers what it acted on, and nothing else; a post succeeds when  *)
(* it was answered.                                                          *)
Honest(l) ==
    /\ l \in Answering /\ l.read <= l.written
    /\ l.answered <=> l.handled
    /\ l.stage = "ok" => l.answered

AppInv ==
    /\ gui \in {"down", "deaf", "up"} /\ lives \in 0..MaxLives
    /\ menu \in BOOLEAN /\ (menu => gui = "up")
    /\ collects \in Nat /\ lost \in 0..MaxLost
    /\ conn = [c \in {"account"} |-> Link]
    /\ Link = Gui!Idle \/ Honest(Link)

(* An idle connection is not one with an answer.                             *)
LEMMA IdleIsNone == \A l : Honest(l) => l # Gui!Idle /\ l.stage # Gui!Idle.stage
BY DEF Honest, Answering, Gui!Idle

(* An answer is written in two parts.                                        *)
LEMMA TwoParts ==
  ASSUME Honest(Link)
  PROVE  /\ Link.request \in Gui!Answers /\ Link.request.path = "/logins"
         /\ Gui!Parts(Link.request) = 2
BY DEF Honest, Answering, Gui!Answers, Gui!Parts

(* The service's new post.                                                   *)
LEMMA PostStep ==
  ASSUME AppInv, NEW r \in Gui!Answers, Gui!Post("account", r)
  PROVE  /\ AppInv' /\ Link = Gui!Idle /\ Link' # Gui!Idle
         /\ menu' = menu /\ (OnItsWay' => r.success)
<1> DEFINE new == [stage |-> IF gui = "up" THEN "sending" ELSE "failed",
                   request |-> r, written |-> 0, read |-> 0,
                   answered |-> FALSE, handled |-> FALSE]
<1>1. /\ UNCHANGED <<gui, lives, menu, collects, lost>> /\ Link = Gui!Idle
      /\ conn' = [c \in {"account"} |-> new]
  BY DEF Gui!Post, Gui!app, Gui!topic, AppInv, Link
<1>2. Link' = new /\ conn' = [c \in {"account"} |-> Link']
  BY <1>1 DEF Link
<1>3. Honest(new) /\ new.request = r
  BY DEF Honest, Answering
<1> HIDE DEF new
<1> QED  BY <1>1, <1>2, <1>3, IdleIsNone DEF AppInv, OnItsWay, Link

(* The end of a post.                                                        *)
LEMMA CloseStep ==
  ASSUME AppInv, Gui!Close("account")
  PROVE  /\ AppInv' /\ Link' = Gui!Idle /\ menu' = menu /\ ~OnItsWay'
<1>1. /\ UNCHANGED <<gui, lives, menu, collects, lost>>
      /\ conn' = [c \in {"account"} |-> Gui!Idle]
  BY DEF Gui!Close, Gui!app, Gui!topic, AppInv
<1>2. Link' = Gui!Idle /\ conn' = [c \in {"account"} |-> Link']
  BY <1>1 DEF Link
<1>3. ~OnItsWay'
  BY <1>2 DEF OnItsWay, Gui!Sending, Gui!Idle, Link
<1> QED  BY <1>1, <1>2, <1>3 DEF AppInv

(* What the service's thread does with a post.                               *)
LEMMA ClientStep ==
  ASSUME AppInv, Gui!Client("account")
  PROVE  /\ AppInv' /\ Link # Gui!Idle /\ Link' # Gui!Idle
         /\ menu' = menu /\ (OnItsWay' => OnItsWay)
<1>1. /\ UNCHANGED <<gui, lives, menu, collects, lost>> /\ Link.stage = "sending"
  BY DEF Gui!Client, Gui!Write, Gui!ReadResponse, Gui!Timeout, Gui!Sending,
         Gui!app, Gui!topic, Link
<1>2. Honest(Link)
  BY <1>1 DEF AppInv, Gui!Idle
<1>3. CASE Gui!Write("account")
  <2> DEFINE new == [Link EXCEPT !.written = @ + 1]
  <2>1. conn' = [c \in {"account"} |-> new] /\ Link.written < 2
    BY <1>2, <1>3, TwoParts DEF Gui!Write, AppInv, Link
  <2>2. Link' = new /\ conn' = [c \in {"account"} |-> Link']
    BY <2>1 DEF Link
  <2>3. Honest(new) /\ new.request = Link.request /\ new.handled = Link.handled
    BY <1>2, <2>1 DEF Honest, Answering
  <2> HIDE DEF new
  <2>4. OnItsWay' => OnItsWay
    BY <1>1, <2>2, <2>3 DEF OnItsWay, Gui!Sending, Link
  <2> QED  BY <1>1, <1>2, <2>2, <2>3, <2>4, IdleIsNone DEF AppInv
<1>4. CASE Gui!ReadResponse("account") \/ Gui!Timeout("account")
  <2>1. PICK s \in {"ok", "failed"} :
           /\ conn' = [conn EXCEPT !["account"].stage = s]
           /\ s = "ok" => Link.answered
    BY <1>4 DEF Gui!ReadResponse, Gui!Timeout, Link
  <2> DEFINE new == [Link EXCEPT !.stage = s]
  <2>2. Link' = new /\ conn' = [c \in {"account"} |-> Link']
    BY <2>1 DEF Link, AppInv
  <2>3. Honest(new) /\ new.stage # "sending"
    BY <1>2, <2>1 DEF Honest, Answering
  <2> HIDE DEF new
  <2>4. ~OnItsWay'
    BY <2>2, <2>3 DEF OnItsWay, Gui!Sending, Link
  <2> QED  BY <1>1, <1>2, <2>2, <2>3, <2>4, IdleIsNone DEF AppInv
<1> QED  BY <1>3, <1>4 DEF Gui!Client

(* The app ends, and with it what it had not answered.                       *)
LEMMA DieStep ==
  ASSUME AppInv, Gui!Die
  PROVE  /\ AppInv' /\ (Link' = Gui!Idle <=> Link = Gui!Idle)
         /\ menu' = FALSE /\ ~OnItsWay'
<1> DEFINE new == IF Gui!Sending("account") /\ ~Link.answered
                  THEN [Link EXCEPT !.stage = "failed"] ELSE Link
<1>1. /\ UNCHANGED <<lives, collects, lost>> /\ gui' = "down" /\ menu' = FALSE
      /\ conn' = [c \in {"account"} |-> new]
  BY DEF Gui!Die, Gui!topic, Link
<1>2. Link' = new /\ conn' = [c \in {"account"} |-> Link']
  BY <1>1 DEF Link
<1>3. CASE Link = Gui!Idle
  <2>1. new = Gui!Idle
    BY <1>3 DEF Gui!Sending, Gui!Idle, Link
  <2> HIDE DEF new
  <2>2. ~OnItsWay'
    BY <1>2, <2>1 DEF OnItsWay, Gui!Sending, Gui!Idle, Link
  <2> QED  BY <1>1, <1>2, <1>3, <2>1, <2>2 DEF AppInv
<1>4. CASE Honest(Link)
  <2>1. Honest(new) /\ (new.stage = "sending" => new.handled)
    BY <1>4 DEF Honest, Answering, Gui!Sending, Link
  <2> HIDE DEF new
  <2>2. ~OnItsWay'
    BY <1>2, <2>1 DEF OnItsWay, Gui!Sending, Link
  <2> QED  BY <1>1, <1>2, <1>4, <2>1, <2>2, IdleIsNone DEF AppInv
<1> QED  BY <1>3, <1>4 DEF AppInv

(* The event loop gets to a whole answer, which it acts on, or to a cut one. *)
LEMMA ReadStep ==
  ASSUME AppInv, Gui!ReadyRead("account")
  PROVE  /\ AppInv' /\ Link # Gui!Idle /\ Link' # Gui!Idle /\ ~OnItsWay'
         /\ \/ OnItsWay /\ menu' = TRUE
            \/ menu' = FALSE
            \/ menu' = menu
<1>1. gui = "up" /\ Link.stage = "sending" /\ ~Link.answered
  BY DEF Gui!ReadyRead, Gui!TakeAnswer, Gui!CutAnswer, Gui!CutList,
         Gui!WholeList, Gui!Remainder, Gui!Readable, Gui!Sending, Link
<1>2. Honest(Link) /\ Link # Gui!Idle
  BY <1>1, IdleIsNone DEF AppInv, Gui!Idle
<1>3. ~Gui!Readable("account", "/resterants")
  BY <1>2, TwoParts DEF Gui!Readable, Link
<1>4. CASE Gui!TakeAnswer("account")
  <2> DEFINE new == [Link EXCEPT !.read = Link.written, !.answered = TRUE,
                                 !.handled = TRUE]
  <2>1. UNCHANGED <<gui, lives>> /\ conn' = [c \in {"account"} |-> new]
    BY <1>2, <1>4 DEF Gui!TakeAnswer, Gui!Read, AppInv, Link, Honest, Answering
  <2>2. Link' = new /\ conn' = [c \in {"account"} |-> Link']
    BY <2>1 DEF Link
  <2>3. Honest(new) /\ new.handled
    <3>1. Link \in Answering
      BY <1>2 DEF Honest
    <3>2. /\ new \in Answering /\ new.read = Link.written
          /\ new.written = Link.written /\ new.answered /\ new.handled
      BY <3>1 DEF Answering
    <3>3. Link.written \in 0..2
      BY <3>1 DEF Answering
    <3> QED  BY <3>2, <3>3 DEF Honest
  <2> HIDE DEF new
  <2>4. ~OnItsWay'
    BY <2>2, <2>3 DEF OnItsWay, Link
  <2>5. CASE Link.request.success
    <3>1. menu' = TRUE /\ Gui!AskForList
      BY <1>4, <2>5 DEF Gui!TakeAnswer, Link
    <3>2. OnItsWay
      BY <1>1, <1>2, <2>5 DEF OnItsWay, Gui!Sending, Link, Honest
    <3>3. collects' \in Nat /\ lost' \in 0..MaxLost
      BY <3>1, LoginFlowAssumption DEF Gui!AskForList, AppInv
    <3> QED
      BY <1>1, <1>2, <2>1, <2>2, <2>3, <2>4, <3>1, <3>2, <3>3, IdleIsNone
      DEF AppInv
  <2>6. CASE ~Link.request.success
    <3>1. UNCHANGED <<menu, collects, lost>>
      BY <1>4, <2>6 DEF Gui!TakeAnswer, Gui!topic, Link
    <3> QED
      BY <1>2, <2>1, <2>2, <2>3, <2>4, <3>1, IdleIsNone DEF AppInv
  <2> QED  BY <2>5, <2>6
<1>5. CASE Gui!CutAnswer("account")
  BY <1>2, <1>5, DieStep DEF Gui!CutAnswer
<1> QED
  BY <1>3, <1>4, <1>5
  DEF Gui!ReadyRead, Gui!CutList, Gui!WholeList, Gui!Remainder

(* The user closes the app, and starts it again, with the form.              *)
LEMMA UserStep ==
  ASSUME AppInv, Gui!User
  PROVE  /\ AppInv' /\ (Link' = Gui!Idle <=> Link = Gui!Idle)
         /\ \/ menu' = FALSE /\ ~OnItsWay'
            \/ UNCHANGED <<menu, conn>>
<1>1. CASE Gui!CloseApp
  BY <1>1, DieStep DEF Gui!CloseApp
<1>2. CASE Gui!StartApp
  <2>1. /\ UNCHANGED <<menu, conn, collects, lost>> /\ gui = "down"
        /\ gui' \in {"deaf", "up"} /\ lives' \in 0..MaxLives
    BY <1>2, LoginFlowAssumption DEF Gui!StartApp, Gui!topic, AppInv
  <2> QED  BY <2>1 DEF AppInv, Link
<1> QED  BY <1>1, <1>2 DEF Gui!User

-----------------------------------------------------------------------------
(* The row a create was told is missing is still missing when it inserts.    *)
FreeName ==
    stage = "insert" /\ Task.user \in Plain => RowsOf(Task.user) = {}

(* The connection is for the request in hand, while the service lives.       *)
Asking ==
    /\ \A i \in DOMAIN log : log[i] \in Requests
    /\ asker \in 0..Len(log) /\ (asker = 0 <=> Link = Gui!Idle)
    /\ up => (asker # 0 => stage = "post" /\ asker = inHand)

FlowInv == AppInv /\ FreeName /\ Asking

(* Account's part of what is known in every state of the flow.               *)
Known == LoopFacts /\ TypeInv /\ TruthInv

(* The types of the app's module.                                            *)
LEMMA AppTypes == AppInv => Gui!AppTypeOK
<1> SUFFICES ASSUME AppInv PROVE Gui!AppTypeOK
  OBVIOUS
<1>1. CASE Link = Gui!Idle
  BY <1>1 DEF AppInv, Gui!AppTypeOK, Link
<1>2. CASE Honest(Link)
  <2>1. Link \in Gui!Posts /\ Link.read <= Link.written
        /\ Link.written <= Gui!Parts(Link.request)
    BY <1>2, TwoParts DEF Honest, Answering, Gui!Posts
  <2> QED  BY <2>1 DEF AppInv, Gui!AppTypeOK, Link
<1> QED  BY <1>1, <1>2 DEF AppInv

(* Every step keeps the app's state, and the request its connection is for.  *)
LEMMA FlowStep ==
  Known /\ Known' /\ FlowInv /\ [FlowNext]_flowVars => FlowInv'
<1> SUFFICES ASSUME Known, Known', FlowInv, [FlowNext]_flowVars
             PROVE  AppInv' /\ FreeName' /\ Asking'
  BY DEF FlowInv
<1>0. /\ AppInv /\ FreeName /\ Asking /\ LoopFacts /\ TypeInv
      /\ Len(log) \in Nat /\ Len(log') \in Nat
  BY DEF Known, FlowInv, LoopFacts, TypeInv
<1>1. CASE LogIn
  <2>1. PICK m \in Requests : Loop!Publish(m)
    BY <1>1 DEF LogIn
  <2>2. /\ UNCHANGED <<stage, users, appVars, asker, inHand, up>>
        /\ log' = Append(log, m) /\ log \in Seq(Messages) /\ m \in Messages
    BY <1>0, <1>1, <2>1, RequestTypes
    DEF LogIn, Loop!Publish, database, LoopFacts
  <2>3. /\ Len(log') = Len(log) + 1 /\ DOMAIN log' = 1..(Len(log) + 1)
        /\ \A i \in 1..Len(log) : log'[i] = log[i]
        /\ log'[Len(log) + 1] = m
    BY <2>2, AppendTypes
  <2>4. AppInv'
    BY <1>0, <2>2 DEF appVars, AppInv, Link
  <2>5. FreeName'
    BY <1>0, <2>2, <2>3, TaskTypes DEF FreeName, Task, RowsOf, SameName
  <2>6. \A i \in DOMAIN log' : log'[i] \in Requests
    BY <1>0, <2>1, <2>2, <2>3 DEF Asking
  <2>7. asker' \in 0..Len(log')
    BY <1>0, <2>2, <2>3 DEF Asking
  <2> QED
    BY <1>0, <2>2, <2>4, <2>5, <2>6, <2>7 DEF Asking, Link, appVars
<1>2. CASE Work
  <2>1. /\ UNCHANGED <<log, appVars, asker>> /\ up /\ up'
        /\ stage # "post"
    BY <1>2
    DEF Work, Receive, Connect, Select, SelectFails, Insert, InsertFails,
        Close, Finish, At, Loop!Poll, Loop!Finish, Loop!broker, consumer
  <2>2. AppInv'
    BY <1>0, <2>1 DEF appVars, AppInv, Link
  <2>3. asker = 0
    BY <1>0, <2>1 DEF Asking
  <2>4. FreeName'
    <3>1. CASE Select
      <4>1. UNCHANGED <<log, inHand, users>>
        BY <3>1 DEF Select, consumer, database
      <4>2. PICK row \in Found(Task.user) : stage' = "insert" => row = NoRow
        BY <3>1 DEF Select
      <4>3. stage' = "insert" /\ Task.user \in Plain => RowsOf(Task.user) = {}
        BY <1>0, <4>2, FoundIs DEF TypeInv
      <4> QED  BY <4>1, <4>3 DEF FreeName, RowsOf, SameName, Task
    <3>2. CASE ~Select
      <4>1. stage' # "insert"
        BY <1>2, <3>2
        DEF Work, Receive, Connect, SelectFails, Insert, InsertFails, Close,
            Finish
      <4> QED  BY <4>1 DEF FreeName
    <3> QED  BY <3>1, <3>2
  <2> QED
    BY <1>0, <2>1, <2>2, <2>3, <2>4 DEF Asking, Link, appVars
<1>3. CASE PostAnswer
  <2>1. /\ UNCHANGED vars /\ stage = "post" /\ asker' = inHand
        /\ Gui!Post("account", Response) /\ Response \in Gui!Answers
    BY <1>0, <1>3
    DEF PostAnswer, At, Response, Gui!Answers, TypeInv, TypeOK
  <2>2. AppInv' /\ Link' # Gui!Idle
    BY <1>0, <2>1, PostStep
  <2>3. inHand \in 1..Len(log)
    BY <1>0, <2>1, TaskTypes
  <2> QED
    BY <1>0, <2>1, <2>2, <2>3
    DEF Asking, FreeName, Task, RowsOf, SameName, vars, consumer, Link
<1>4. CASE PostReturns
  <2>1. /\ UNCHANGED <<log, up>> /\ stage' = "close"
        /\ asker' = 0 /\ Gui!Close("account")
    BY <1>4 DEF PostReturns, Post, consumer
  <2>2. AppInv' /\ Link' = Gui!Idle
    BY <1>0, <2>1, CloseStep
  <2> QED
    BY <1>0, <2>1, <2>2 DEF Asking, FreeName, Link
<1>5. CASE Client \/ EventLoop \/ (Gui!User /\ UNCHANGED <<vars, asker>>)
  <2>1. /\ UNCHANGED <<vars, asker>>
        /\ Gui!Client("account") \/ Gui!ReadyRead("account") \/ Gui!User
    BY <1>5 DEF Client, EventLoop
  <2>2. AppInv' /\ (Link' = Gui!Idle <=> Link = Gui!Idle)
    BY <1>0, <2>1, ClientStep, ReadStep, UserStep
  <2> QED
    BY <1>0, <2>1, <2>2
    DEF Asking, FreeName, Task, RowsOf, SameName, vars, consumer, Link
<1>6. CASE ServiceDies
  <2>1. UNCHANGED <<log, appVars, asker>> /\ ~up' /\ stage' = "idle"
    BY <1>6 DEF ServiceDies, Crash, Stop, Loop!Crash, Loop!Die, Loop!broker
  <2>2. AppInv'
    BY <1>0, <2>1 DEF appVars, AppInv, Link
  <2> QED
    BY <1>0, <2>1, <2>2 DEF Asking, FreeName, Link, appVars
<1>7. CASE Forget
  <2>1. UNCHANGED vars /\ asker' = 0 /\ Gui!Close("account")
    BY <1>7 DEF Forget
  <2>2. AppInv' /\ Link' = Gui!Idle
    BY <1>0, <2>1, CloseStep
  <2> QED
    BY <1>0, <2>1, <2>2
    DEF Asking, FreeName, Task, RowsOf, SameName, vars, consumer, Link
<1>8. CASE Group
  <2>1. /\ UNCHANGED <<stage, users, log, inHand, appVars, asker>>
        /\ (up' => up) \/ conn["account"] = Gui!Idle
    BY <1>8
    DEF Group, Loop!AutoCommit, Loop!Rebalance, Loop!Restart, Loop!broker, database
  <2>2. AppInv'
    BY <1>0, <2>1 DEF appVars, AppInv, Link
  <2> QED
    BY <1>0, <2>1, <2>2
    DEF Asking, FreeName, Task, RowsOf, SameName, Link, appVars
<1>9. CASE UNCHANGED flowVars
  <2>1. AppInv'
    BY <1>0, <1>9 DEF flowVars, appVars, AppInv, Link
  <2> QED
    BY <1>0, <1>9, <2>1
    DEF Asking, FreeName, Task, RowsOf, SameName, Link, flowVars, appVars, vars,
        consumer
<1> QED
  BY <1>1, <1>2, <1>3, <1>4, <1>5, <1>6, <1>7, <1>8, <1>9
  DEF FlowNext, Process, User

(* The account service keeps in the flow what it keeps alone.                *)
LEMMA KnownHolds == FlowSpec => []Known
<1>1. Spec => []Known
  BY LoopFactsHold, TypeInvHolds, TruthHolds, PTL DEF Known
<1> QED  BY <1>1, ImplementsAccount, PTL

(* What the flow adds to the service holds in every state.                   *)
LEMMA FlowInvHolds == FlowSpec => []FlowInv
<1>1. FlowInit => FlowInv
  <2> SUFFICES ASSUME FlowInit PROVE FlowInv
    OBVIOUS
  <2>1. /\ log = <<>> /\ inHand = 0 /\ stage = "idle" /\ asker = 0
        /\ Gui!AppInit
    BY DEF FlowInit, Init, Loop!Init
  <2>2. Link = Gui!Idle /\ conn = [c \in {"account"} |-> Link]
    BY <2>1 DEF Gui!AppInit, Link
  <2>3. AppInv
    <3>1. /\ gui \in {"deaf", "up"} /\ menu = FALSE /\ collects = 0
          /\ lives = 0 /\ lost = 0
      BY <2>1 DEF Gui!AppInit
    <3>2. lives \in 0..MaxLives /\ lost \in 0..MaxLost /\ collects \in Nat
      BY <3>1, LoginFlowAssumption
    <3> QED  BY <2>2, <3>1, <3>2 DEF AppInv
  <2>4. Asking /\ FreeName
    BY <2>1, <2>2 DEF Asking, FreeName
  <2> QED  BY <2>3, <2>4 DEF FlowInv
<1> QED  BY <1>1, FlowStep, KnownHolds, PTL DEF FlowSpec

(* The types of the service and of the app, and which request the app's      *)
(* connection is for, with any number of deaths on both sides.               *)
THEOREM FlowTypesCorrect == FlowSpec => []FlowTypeOK
<1>1. Known /\ FlowInv => FlowTypeOK
  BY AppTypes DEF Known, FlowInv, TypeInv, Asking, Link, FlowTypeOK
<1> QED  BY <1>1, KnownHolds, FlowInvHolds, PTL

(* A post to the app that succeeded is one the app acted on: no answer is    *)
(* acknowledged and dropped, in whatever pieces it arrives.                  *)
THEOREM LoginsAreTaken == FlowSpec => []LoginsTaken
<1>1. FlowInv => LoginsTaken
  <2> SUFFICES ASSUME AppInv, Link.stage = "ok" PROVE Link.handled
    BY DEF FlowInv, LoginsTaken, Gui!LoginsTaken, Link
  <2>1. Honest(Link)
    BY DEF AppInv, Gui!Idle
  <2> QED  BY <2>1 DEF Honest
<1> QED  BY <1>1, FlowInvHolds, PTL

-----------------------------------------------------------------------------
Granted == IF OnItsWay THEN asker ELSE 0

(* The promise is about the topic, the table, the answer on its way and the  *)
(* screen: each step of the flow is one of the promise's, or hidden.         *)
LEMMA PromiseStep ==
  Known /\ FlowInv /\ FlowInv' /\ [FlowNext]_flowVars
    => [Promise!Next]_(Promise!vars)
<1> SUFFICES ASSUME Known, FlowInv, FlowInv', [FlowNext]_flowVars
             PROVE  Promise!Next \/ UNCHANGED Promise!vars
  OBVIOUS
<1>0. /\ AppInv /\ FreeName /\ Asking /\ LoopFacts /\ TypeInv /\ TruthInv
      /\ Asking'
  BY DEF Known, FlowInv
<1> DEFINE Hidden == UNCHANGED <<log, users, Granted, menu>>
<1>1. Hidden => UNCHANGED Promise!vars
  BY DEF Promise!vars, Granted
<1>2. (Granted' = 0 /\ UNCHANGED <<log, users, menu>>) => Promise!Next
  BY DEF Promise!Next, Promise!Lose, Granted
<1>3. (Granted' = 0 /\ menu' = FALSE /\ UNCHANGED <<log, users>>) => Promise!Next
  BY DEF Promise!Next, Promise!Hide, Granted
<1>4. CASE LogIn
  <2>1. PICK m \in Requests : log' = Append(log, m)
    BY <1>4 DEF LogIn, Loop!Publish
  <2>2. UNCHANGED <<users, Granted, menu>>
    BY <1>4 DEF LogIn, database, appVars, Granted, OnItsWay, Gui!Sending
  <2>3. Promise!Ask(m)
    BY <2>1, <2>2 DEF Promise!Ask, Granted
  <2> QED  BY <2>3 DEF Promise!Next
<1>5. CASE (Insert \/ InsertFails) /\ Work
  <2>1. /\ UNCHANGED <<log, Granted, menu>> /\ stage = "insert"
        /\ Task.type = "create" /\ Task.password # NoPassword
        /\ users' = users \/ \E s \in Added(Task) : users' = users \o s
        /\ Literal(Task) => \E s \in Added(Task) : users' = users \o s
    BY <1>5
    DEF Work, Receive, Connect, Select, SelectFails, Close, Finish, Insert,
        InsertFails, At, consumer, appVars, Granted, OnItsWay, Gui!Sending
  <2>2. Task \in Promise!Asked
    BY <1>0, <2>1, TaskTypes DEF Promise!Asked, Task, LoopFacts
  <2>3. CASE Literal(Task)
    <3>1. users' = Append(users, Promise!Credentials(Task))
      BY <1>0, <2>1, <2>3, AddedIs DEF Credentials, Promise!Credentials
    <3>2. Task.user \in Plain /\ Promise!Literal(Task)
      BY <2>1, <2>3 DEF Literal, Promise!Literal
    <3>3. \A a \in Promise!Accounts : Fold[a.user] # Fold[Task.user]
      BY <1>0, <2>1, <3>2 DEF Promise!Accounts, FreeName, RowsOf, SameName
    <3>4. Promise!Enroll(Task)
      BY <2>1, <3>1, <3>2, <3>3 DEF Promise!Enroll, Granted
    <3> QED  BY <2>2, <3>4 DEF Promise!Next
  <2>4. CASE ~Literal(Task)
    <3>1. ~Promise!Literal(Task)
      BY <2>1, <2>4 DEF Literal, Promise!Literal
    <3>2. /\ Len(users) <= Len(users')
          /\ \A k \in DOMAIN users : users'[k] = users[k]
      <4>1. CASE users' = users
        BY <1>0, <4>1 DEF TypeInv, TypeOK
      <4>2. CASE \E s \in Added(Task) : users' = users \o s
        BY <1>0, <2>1, <4>2, AddedIs
      <4> QED  BY <2>1, <4>1, <4>2
    <3>3. Promise!EnrollOthers(Task)
      BY <2>1, <3>1, <3>2 DEF Promise!EnrollOthers, Granted
    <3> QED  BY <2>2, <3>3 DEF Promise!Next
  <2> QED  BY <2>3, <2>4
<1>6. CASE Work /\ ~(Insert \/ InsertFails)
  <2>1. Hidden
    BY <1>6
    DEF Work, Receive, Connect, Select, SelectFails, Close, Finish, consumer,
        database, appVars, Granted, OnItsWay, Gui!Sending, Loop!Poll,
        Loop!Finish, Loop!broker
  <2> QED  BY <1>1, <2>1
<1>7. CASE PostAnswer
  <2>1. /\ UNCHANGED vars /\ stage = "post" /\ asker' = inHand
        /\ Gui!Post("account", Response) /\ Response \in Gui!Answers
        /\ Response.success = outcome
    BY <1>0, <1>7
    DEF PostAnswer, At, Response, Gui!Answers, TypeInv, TypeOK
  <2>2. Link = Gui!Idle /\ menu' = menu /\ (OnItsWay' => outcome)
    BY <1>0, <2>1, PostStep
  <2>3. inHand \in 1..Len(log) /\ inHand \in DOMAIN log
    BY <1>0, <2>1, TaskTypes DEF LoopFacts
  <2>4. ~OnItsWay /\ Granted = 0
    BY <1>0, <2>2 DEF Asking, OnItsWay, Gui!Sending, Gui!Idle, Link, Granted
  <2>5. UNCHANGED <<log, users>>
    BY <2>1 DEF vars, consumer
  <2>6. CASE OnItsWay'
    <3>1. Granted' = inHand
      BY <2>1, <2>6 DEF Granted
    <3>2. ASSUME Promise!Literal(log[inHand])
          PROVE  \E a \in Promise!Accounts : Promise!Owns(log[inHand], a)
      <4>1. Literal(Task)
        BY <3>2 DEF Literal, Promise!Literal, Task
      <4>2. Backed(Task)
        BY <1>0, <2>1, <2>2, <2>6, <4>1 DEF TruthInv, AnswerTrue
      <4> QED
        BY <4>2 DEF Backed, SameName, Range, Task, Promise!Accounts, Promise!Owns
    <3>3. Promise!Grant(inHand)
      BY <2>2, <2>4, <2>5, <3>1, <3>2 DEF Promise!Grant, Granted
    <3> QED  BY <2>3, <3>3 DEF Promise!Next
  <2>7. CASE ~OnItsWay'
    BY <1>2, <2>2, <2>5, <2>7 DEF Granted
  <2> QED  BY <2>6, <2>7
<1>8. CASE PostReturns \/ Forget
  <2>1. Gui!Close("account") /\ UNCHANGED <<log, users>>
    BY <1>8 DEF PostReturns, Post, Forget, vars, consumer, database
  <2>2. menu' = menu /\ Granted' = 0
    BY <1>0, <2>1, CloseStep DEF Granted
  <2> QED  BY <1>2, <2>1, <2>2
<1>9. CASE Client
  <2>1. Gui!Client("account") /\ UNCHANGED <<log, users, asker>>
    BY <1>9 DEF Client, vars, consumer
  <2>2. menu' = menu /\ Granted' \in {0, Granted}
    BY <1>0, <2>1, ClientStep DEF Granted
  <2> QED  BY <1>1, <1>2, <2>1, <2>2
<1>10. CASE EventLoop
  <2>1. Gui!ReadyRead("account") /\ UNCHANGED <<log, users, asker>>
    BY <1>10 DEF EventLoop, vars, consumer
  <2>2. /\ Link # Gui!Idle /\ Granted' = 0
        /\ \/ OnItsWay /\ menu' = TRUE
           \/ menu' = FALSE
           \/ menu' = menu
    BY <1>0, <2>1, ReadStep DEF Granted
  <2>3. CASE OnItsWay /\ menu' = TRUE
    <3>1. Granted # 0
      BY <1>0, <2>2, <2>3 DEF Asking, Granted
    <3>2. Promise!Show
      BY <2>1, <2>2, <2>3, <3>1 DEF Promise!Show, Granted
    <3> QED  BY <3>2 DEF Promise!Next
  <2> QED  BY <1>2, <1>3, <2>1, <2>2, <2>3
<1>11. CASE Gui!User /\ UNCHANGED <<vars, asker>>
  <2>1. UNCHANGED <<log, users, asker>>
    BY <1>11 DEF vars, consumer
  <2>2. \/ menu' = FALSE /\ Granted' = 0
        \/ UNCHANGED <<menu, Granted>>
    BY <1>0, <1>11, <2>1, UserStep DEF Granted, OnItsWay, Gui!Sending
  <2> QED  BY <1>1, <1>3, <2>1, <2>2
<1>12. CASE ServiceDies \/ Group \/ UNCHANGED flowVars
  <2>1. Hidden
    BY <1>12
    DEF ServiceDies, Crash, Stop, Group, Loop!Crash, Loop!Die, Loop!AutoCommit,
        Loop!Rebalance, Loop!Restart, Loop!broker, database, flowVars, vars,
        consumer, appVars, Granted, OnItsWay, Gui!Sending
  <2> QED  BY <1>1, <2>1
<1> QED
  BY <1>4, <1>5, <1>6, <1>7, <1>8, <1>9, <1>10, <1>11, <1>12
  DEF FlowNext, Process, User

(* The app and the account service keep the promise of the log-in screen:    *)
(* accounts are made of what was asked for, one for a name, and the menu is  *)
(* shown only for a request that was granted because of one, and once for    *)
(* each time it was; for any users and collation, with messages delivered    *)
(* again, and with any number of deaths of the service and of the app.  The  *)
(* promise is for requests that are literals in a statement, in whatever     *)
(* company: of others it says that no account is lost by them.               *)
THEOREM KeepsPromise == FlowSpec => Implements
<1>1. FlowInit => Promise!Init
  BY DEF FlowInit, Init, Loop!Init, Gui!AppInit, Promise!Init, OnItsWay,
         Gui!Sending, Gui!Idle
<1> QED
  BY <1>1, PromiseStep, KnownHolds, FlowInvHolds, PTL
  DEF FlowSpec, Implements, Promise!Spec

(* The flow keeps what the service alone does: its answers to literals are   *)
(* true, a name has one row but for failed selects and the first create of a *)
(* name wins while every INSERT is the one meant, and what was completed was *)
(* answered but for failed calls; a death of the service drops one request   *)
(* at most.                                                                  *)
THEOREM AccountPromises ==
  FlowSpec => [](TrueAnswersHold /\ NamesUnique /\ FirstCreateWins
                 /\ CompletedAnswered /\ LeakBound /\ Loop!LossBound)
BY ImplementsAccount, AnswersAreTrue, NamesAreUnique, FirstCreatesWin,
   AnswersAreGiven, LeaksAreBounded, ConsumerPromises, PTL
=============================================================================
