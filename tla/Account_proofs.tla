---------------------------- MODULE Account_proofs ----------------------------
(***************************************************************************)
(* Proofs about the account service.  It is a consumer loop, so what is    *)
(* proved of one holds of it (ImplementsLoop, ConsumerInv); the rest       *)
(* follows the one handler through its stages: what it has open, what the  *)
(* table says of its message, what it has not answered, and which creates  *)
(* came before the one it is about to insert.                              *)
(***************************************************************************)
EXTENDS Account, FiniteSetTheorems, WellFoundedInduction, TLAPS

Proved == INSTANCE KafkaConsumer_proofs

(* The bounds of the service are what the consumer loop asks of its own.     *)
LEMMA ConsumerBounds == Proved!ConsumerAssumption
BY AccountAssumption DEF Proved!ConsumerAssumption, Messages

(* Loop and Proved are the same instance, read with and without proofs.    *)
LEMMA SameConsumer ==
  /\ Loop!TypeOK <=> Proved!TypeOK
  /\ Loop!TypeOK' <=> Proved!TypeOK'
  /\ Loop!Init <=> Proved!Init
  /\ [Loop!Next]_(Loop!vars) <=> [Proved!Next]_(Proved!vars)
<1>1. /\ Loop!TypeOK <=> Proved!TypeOK
      /\ Loop!TypeOK' <=> Proved!TypeOK'
      /\ Loop!Init <=> Proved!Init
  BY DEF Loop!TypeOK, Proved!TypeOK, Loop!Init, Proved!Init
<1>2. Loop!Next <=> Proved!Next
  BY DEF Loop!Next, Loop!Publish, Loop!Loop, Loop!Poll, Loop!Finish,
         Loop!Throw, Loop!Crash, Loop!Die, Loop!AutoCommit, Loop!Rebalance,
         Loop!Restart, Loop!broker, Loop!history,
         Proved!Next, Proved!Publish, Proved!Loop, Proved!Poll,
         Proved!Finish, Proved!Throw, Proved!Crash, Proved!Die,
         Proved!AutoCommit, Proved!Rebalance, Proved!Restart,
         Proved!broker, Proved!history
<1>3. UNCHANGED Loop!vars <=> UNCHANGED Proved!vars
  BY DEF Loop!vars, Loop!broker, Loop!history,
         Proved!vars, Proved!broker, Proved!history
<1> QED  BY <1>1, <1>2, <1>3

(* Each step of the service is a step of the loop or leaves it alone: the    *)
(* handler runs between Poll and Finish, and its exceptions are crashes.     *)
LEMMA LoopStep == [Next]_vars => [Loop!Next]_(Loop!vars)
<1> SUFFICES ASSUME [Next]_vars PROVE Loop!Next \/ UNCHANGED Loop!vars
  OBVIOUS
<1>1. CASE Receive \/ Finish \/ Throw \/ Crash \/ Environment
  BY <1>1 DEF Receive, Finish, Throw, Crash, Environment, Loop!Next, Loop!Loop
<1>2. CASE ConnectFails \/ PasswordThrows
  BY <1>2 DEF ConnectFails, PasswordThrows, At, Loop!Next, Loop!Crash
<1>3. UNCHANGED consumer => UNCHANGED Loop!vars
  BY DEF consumer, Loop!vars, Loop!broker, Loop!history
<1>4. CASE Ignore \/ Connect \/ Select \/ SelectFails \/ NoResult \/ Insert
             \/ InsertFails \/ Post \/ Close \/ UNCHANGED vars
  BY <1>3, <1>4 DEF Ignore, Connect, Select, SelectFails, NoResult, Insert,
                    InsertFails, Post, Close, vars
<1> QED  BY <1>1, <1>2, <1>4 DEF Next, Service

(* The service is a consumer loop.                                           *)
THEOREM ImplementsLoop == Spec => Loop!Spec
<1>1. Init => Loop!Init
  BY DEF Init
<1> QED  BY <1>1, LoopStep, PTL DEF Spec, Loop!Spec

(* so it keeps what was proved of one.                                       *)
LEMMA ConsumerInv == Spec => []Proved!IInv
<1>1. Loop!Spec => Proved!Spec
  BY SameConsumer, PTL DEF Loop!Spec, Proved!Spec
<1>2. Proved!Spec => []Proved!IInv
  BY ConsumerBounds, Proved!Inductive, PTL
<1> QED  BY <1>1, <1>2, ImplementsLoop, PTL

(* No log-in is handled before an earlier one or skipped by a commit; a death *)
(* of the service drops one at most, and none that a commit has passed comes *)
(* back; what cannot be parsed is passed by a commit alone.                  *)
THEOREM ConsumerPromises ==
  Spec => /\ [](/\ Loop!HandedInOrder /\ Loop!NothingSkipped
                /\ Loop!LossBound /\ Loop!OnlyCommitPassesPoison)
          /\ Loop!LostForGood
<1>1. Loop!Spec => Proved!Spec
  BY SameConsumer, PTL DEF Loop!Spec, Proved!Spec
<1>2. Proved!Spec => []Proved!Promises /\ Proved!LostForGood
  BY ConsumerBounds, Proved!PromisesHold, Proved!LossIsForGood, PTL
<1>3. Proved!Promises => /\ Loop!HandedInOrder /\ Loop!NothingSkipped
                         /\ Loop!LossBound /\ Loop!OnlyCommitPassesPoison
  <2>1. Proved!LossBound => Loop!LossBound
    <3>1. \A S : Proved!Cardinality(S) = Loop!Cardinality(S)
      BY DEF Proved!Cardinality, Loop!Cardinality
    <3> QED  BY <3>1 DEF Proved!LossBound, Proved!Dropped, Loop!LossBound,
                         Loop!Dropped
  <2> QED  BY <2>1 DEF Proved!Promises, Proved!HandedInOrder,
                       Proved!NothingSkipped, Proved!OnlyCommitPassesPoison,
                       Loop!HandedInOrder, Loop!NothingSkipped,
                       Loop!OnlyCommitPassesPoison
<1>4. [Proved!Lost \subseteq Proved!Lost']_(Proved!vars) =>
         [Loop!Lost \subseteq Loop!Lost']_(Loop!vars)
  BY DEF Proved!Lost, Proved!Dropped, Proved!vars, Proved!broker, Proved!history,
         Loop!Lost, Loop!Dropped, Loop!vars, Loop!broker, Loop!history
<1> QED  BY <1>1, <1>2, <1>3, <1>4, ImplementsLoop, PTL
         DEF Proved!LostForGood, Loop!LostForGood

-----------------------------------------------------------------------------
(* What these proofs use of the consumer.                                    *)
LoopFacts ==
    /\ Loop!TypeOK
    /\ log \in Seq(Messages) /\ Len(log) \in Nat
    /\ inHand \in 0..Len(log)
    /\ handed \subseteq 1..Len(log) /\ completed \subseteq handed
    /\ inHand # 0 => inHand \in handed /\ up

(* The service keeps them, as any consumer loop does.                        *)
LEMMA LoopFactsHold == Spec => []LoopFacts
<1>1. Proved!IInv => LoopFacts
  BY SameConsumer DEF Proved!IInv, Proved!TypeOK, Proved!Offsets, LoopFacts
<1> QED  BY <1>1, ConsumerInv, PTL

(* What happens around the service touches neither its handler nor the       *)
(* database, and only appends to the topic.                                  *)
LEMMA EnvironmentStep ==
  ASSUME LoopFacts, Environment
  PROVE  /\ UNCHANGED <<stage, outcome, open, working, users, replies,
                        faults, inHand, handed, completed>>
         /\ Len(log) <= Len(log')
         /\ \A i \in 1..Len(log) : log'[i] = log[i]
         /\ up => up'
<1>1. UNCHANGED <<stage, outcome, open, working, users, replies, faults>>
  BY DEF Environment, database
<1>2. ASSUME NEW m \in Messages, Loop!Publish(m)
      PROVE  /\ UNCHANGED <<inHand, handed, completed, up>>
             /\ Len(log) <= Len(log')
             /\ \A i \in 1..Len(log) : log'[i] = log[i]
  BY <1>2 DEF Loop!Publish, Loop!history, LoopFacts
<1>3. ASSUME Loop!AutoCommit \/ Loop!Rebalance \/ Loop!Restart
      PROVE  UNCHANGED <<log, inHand, handed, completed>> /\ (up => up')
  BY <1>3 DEF Loop!AutoCommit, Loop!Rebalance, Loop!Restart, Loop!broker,
              Loop!history, LoopFacts
<1> QED  BY <1>1, <1>2, <1>3 DEF Environment, LoopFacts

(* A message with a user is a login or a create, and carries what its type   *)
(* says.                                                                     *)
LEMMA MessageTypes ==
  ASSUME NEW m \in Messages, m.type \in {"login", "create"}
  PROVE  /\ m.user \in Users
         /\ m.type = "login" => m.password \in Passwords
         /\ m.password # NoPassword => m.password \in Passwords
BY AccountAssumption DEF Messages, Logins, Creates, Poison

(* NoRow is not mistaken for a row of the table.                             *)
LEMMA NoRowIsNone == NoRow \notin Rows
BY DEF NoRow, Rows

(* The stages at which the handler has a connection.                         *)
Working == {"select", "insert", "post", "close"}

(* The handler's stage against the message in hand.                          *)
AtWork ==
    /\ stage = "idle" <=> inHand = 0
    /\ inHand # 0 => inHand \notin completed
    /\ stage \in Working => Task.type \in {"login", "create"}
    /\ stage = "insert" => Task.type = "create"

(* Besides the connection at work, one is open at most for each query that   *)
(* failed.                                                                   *)
OpenPaid == IF stage \in Working THEN open \in 1..(faults + 1) ELSE open \in 0..faults

TypeInv == TypeOK /\ AtWork /\ OpenPaid

-----------------------------------------------------------------------------
(* A sequence over a set is one over any larger set.                         *)
LEMMA SeqWiden ==
  ASSUME NEW S, NEW T, S \subseteq T, NEW s \in Seq(S)
  PROVE  s \in Seq(T)
OBVIOUS

(* The empty sequence is of any type.                                        *)
LEMMA EmptyTypes == ASSUME NEW T PROVE <<>> \in Seq(T)
OBVIOUS

(* An element of a sequence is of its type.                                  *)
LEMMA ElementTypes ==
  ASSUME NEW T, NEW s \in Seq(T), NEW k \in DOMAIN s
  PROVE  s[k] \in T
OBVIOUS

(* One more element at the end leaves the others where they are.             *)
LEMMA AppendTypes ==
  ASSUME NEW T, NEW s \in Seq(T), NEW x \in T
  PROVE  /\ Append(s, x) \in Seq(T) /\ Len(Append(s, x)) = Len(s) + 1
         /\ Append(s, x)[Len(s) + 1] = x
         /\ \A k \in 1..Len(s) : Append(s, x)[k] = s[k]
OBVIOUS

(* A reply is to a message of the topic.                                     *)
LEMMA ReplyTypes ==
  ASSUME TypeOK, NEW k \in DOMAIN replies
  PROVE  replies[k] \in [to : 1..Len(log), success : BOOLEAN]
BY ElementTypes DEF TypeOK

(* What is in hand while the handler is at work.                             *)
LEMMA TaskTypes ==
  ASSUME LoopFacts, TypeInv, stage # "idle"
  PROVE  /\ up /\ inHand \in 1..Len(log) /\ Task \in Messages
         /\ Task.type \in {"login", "create"} =>
               /\ Task.user \in Users
               /\ Task.type = "login" => Task.password \in Passwords
               /\ Task.password # NoPassword => Task.password \in Passwords
<1>1. up /\ inHand \in 1..Len(log)
  BY DEF LoopFacts, TypeInv, AtWork
<1>2. Task \in Messages
  BY <1>1 DEF LoopFacts, Task
<1> QED  BY <1>1, <1>2, MessageTypes

(* Any set of naturals that is not empty has its least element: Min picks    *)
(* one of the rows.                                                          *)
LEMMA LeastBy ==
  ASSUME NEW R, IsWellFoundedOn(R, Nat), \A x, y \in Nat : y < x => <<y, x>> \in R,
         NEW S, S \subseteq Nat, S # {}
  PROVE  Min(S) \in S
<1>1. PICK x \in S : \A y \in S : ~(<<y, x>> \in R)
  BY WFMin
<1>2. \A y \in S : x <= y
  <2> SUFFICES ASSUME NEW y \in S, ~(x <= y) PROVE FALSE
    OBVIOUS
  <2>1. x \in Nat /\ y \in Nat
    OBVIOUS
  <2>2. y < x
    BY <2>1
  <2>3. <<y, x>> \in R
    BY <2>1, <2>2
  <2> QED  BY <1>1, <2>3
<1> QED  BY <1>2 DEF Min

(* Min of a set of offsets is one of them.                                   *)
LEMMA LeastIn ==
  ASSUME NEW S, S \subseteq Nat, S # {}
  PROVE  Min(S) \in S
<1>1. \A x, y \in Nat : y < x => <<y, x>> \in OpToRel(<, Nat)
  BY DEF OpToRel
<1> QED  BY <1>1, NatLessThanWellFounded, LeastBy

(* What a SELECT finds: no row, or a row of the table with the name asked    *)
(* for.                                                                      *)
LEMMA FirstRowIs ==
  ASSUME TypeOK, NEW u
  PROVE  \/ FirstRow(u) = NoRow /\ RowsOf(u) = {}
         \/ /\ FirstRow(u) \in Rows /\ FirstRow(u) # NoRow /\ RowsOf(u) # {}
            /\ FirstRow(u) \in Range(users) /\ SameName(FirstRow(u).user, u)
<1>1. CASE RowsOf(u) = {}
  BY <1>1 DEF FirstRow
<1>2. CASE RowsOf(u) # {}
  <2>1. users \in Seq(Rows) /\ DOMAIN users = 1..Len(users) /\ RowsOf(u) \subseteq Nat
    BY DEF TypeOK, RowsOf
  <2>2. Min(RowsOf(u)) \in RowsOf(u)
    BY <1>2, <2>1, LeastIn
  <2>3. FirstRow(u) = users[Min(RowsOf(u))]
    BY <1>2 DEF FirstRow
  <2>4. \A i \in RowsOf(u) : i \in DOMAIN users /\ SameName(users[i].user, u)
                             /\ users[i] \in Rows
    BY <2>1 DEF RowsOf
  <2>5. /\ FirstRow(u) \in Rows /\ SameName(FirstRow(u).user, u)
        /\ FirstRow(u) \in Range(users)
    BY <2>2, <2>3, <2>4 DEF Range
  <2> QED  BY <1>2, <2>5, NoRowIsNone
<1> QED  BY <1>1, <1>2

(* What the handler fetches is that, for a name that is a literal.           *)
LEMMA FoundIs ==
  ASSUME TypeOK, NEW u, NEW row \in Found(u), u \in Plain
  PROVE  /\ row = NoRow <=> RowsOf(u) = {}
         /\ row # NoRow => /\ row \in Range(users) /\ row \in Rows
                           /\ SameName(row.user, u)
BY FirstRowIs DEF Found

(* What an INSERT does: the rows stay, and it adds the one it was meant to,  *)
(* when its values are literals.                                             *)
LEMMA AddedIs ==
  ASSUME LoopFacts, TypeInv, stage = "insert", Task.password # NoPassword,
         NEW s \in Added(Task)
  PROVE  /\ users \in Seq(Rows) /\ users \o s \in Seq(Rows)
         /\ Len(users) <= Len(users \o s)
         /\ \A k \in DOMAIN users : k \in DOMAIN (users \o s)
                                  /\ (users \o s)[k] = users[k]
         /\ Range(users) \subseteq Range(users \o s)
         /\ Credentials(Task) \in Rows
         /\ Literal(Task) => users \o s = Append(users, Credentials(Task))
<1>1. users \in Seq(Rows)
  BY DEF TypeInv, TypeOK
<1>2. Credentials(Task) \in Rows
  BY TaskTypes DEF TypeInv, AtWork, Credentials, Rows
<1>3. s \in Seq(Rows)
  <2>1. CASE Literal(Task)
    <3>1. s = <<Credentials(Task)>>
      BY <2>1 DEF Added
    <3> QED  BY <1>2, <3>1
  <2>2. CASE ~Literal(Task)
    <3>1. PICK n \in 0..MaxRows : s \in [1..n -> Rows]
      BY <2>2 DEF Added, BoundedSeq, SeqOf
    <3> QED  BY <3>1, AccountAssumption
  <2> QED  BY <2>1, <2>2
<1>4. ASSUME NEW T, NEW a \in Seq(T), NEW b \in Seq(T)
      PROVE  /\ a \o b \in Seq(T) /\ Len(a) <= Len(a \o b)
             /\ \A k \in DOMAIN a : k \in DOMAIN (a \o b) /\ (a \o b)[k] = a[k]
  OBVIOUS
<1>5. ASSUME NEW T, NEW a \in Seq(T), NEW x \in T
      PROVE  a \o <<x>> = Append(a, x)
  OBVIOUS
<1>6. /\ users \o s \in Seq(Rows) /\ Len(users) <= Len(users \o s)
      /\ \A k \in DOMAIN users : k \in DOMAIN (users \o s)
                               /\ (users \o s)[k] = users[k]
  BY <1>1, <1>3, <1>4
<1>7. Range(users) \subseteq Range(users \o s)
  BY <1>6 DEF Range
<1>8. Literal(Task) => users \o s = Append(users, Credentials(Task))
  BY <1>1, <1>2, <1>5 DEF Added
<1> QED  BY <1>1, <1>2, <1>6, <1>7, <1>8

(* Every step keeps the types, the handler's message and its connections.    *)
LEMMA TypeStep == LoopFacts /\ LoopFacts' /\ TypeInv /\ [Next]_vars => TypeInv'
<1> SUFFICES ASSUME LoopFacts, LoopFacts', TypeInv, [Next]_vars
             PROVE  TypeInv'
  OBVIOUS
<1> DEFINE replySet == [to : 1..Len(log), success : BOOLEAN]
<1> USE DEF TypeInv, TypeOK, AtWork, OpenPaid, Working
<1>0. /\ Len(replies) \in Nat /\ Len(users) \in Nat
      /\ faults \in Nat /\ faults <= MaxFaults
      /\ replies \in Seq(replySet)
  BY AccountAssumption
<1>1. CASE Receive
  <2>1. /\ UNCHANGED <<log, open, users, replies, faults>>
        /\ stage = "idle" /\ stage' = "begin" /\ inHand' # 0
        /\ outcome' = FALSE /\ working' = TRUE
        /\ inHand' \notin completed'
    BY <1>1 DEF Receive, Loop!Poll, Loop!broker, LoopFacts
  <2> QED  BY <2>1 DEF LoopFacts
<1>2. CASE Ignore
  BY <1>2, TaskTypes DEF Ignore, At, Task, database, consumer, LoopFacts
<1>3. CASE Connect
  BY <1>0, <1>3, AccountAssumption DEF Connect, At, Task, consumer, LoopFacts
<1>4. CASE Select
  <2>1. /\ UNCHANGED <<consumer, open, working, users, replies, faults>>
        /\ stage = "select" /\ up /\ Task.type \in {"login", "create"}
        /\ stage' \in {"insert", "post"} /\ (stage' = "insert" => Task.type = "create")
        /\ outcome' \in BOOLEAN
    BY <1>4 DEF Select, At, database
  <2> QED  BY <2>1 DEF consumer, Task, LoopFacts
<1>5. CASE SelectFails
  BY <1>0, <1>5, AccountAssumption
  DEF SelectFails, At, Fault, Task, database, consumer, LoopFacts
<1>6. CASE NoResult
  BY <1>0, <1>6, AccountAssumption
  DEF NoResult, At, Fault, Task, consumer, LoopFacts
<1>7. CASE Insert \/ InsertFails
  <2>1. /\ UNCHANGED <<consumer, open, working, replies>>
        /\ stage = "insert" /\ stage' = "post" /\ outcome' \in BOOLEAN
        /\ Task.password # NoPassword /\ Task.type = "create"
    BY <1>7 DEF Insert, InsertFails, At
  <2>2. faults' \in {faults, faults + 1} /\ faults' \in 0..MaxFaults
    BY <1>0, <1>7, AccountAssumption DEF Insert, InsertFails, Fault
  <2>3. users' = users \/ \E s \in Added(Task) : users' = users \o s
    BY <1>7 DEF Insert, InsertFails
  <2>4. \A s \in Added(Task) : users \o s \in Seq(Rows)
    BY <2>1, AddedIs
  <2>5. users' \in Seq(Rows)
    BY <2>3, <2>4
  <2> QED  BY <1>0, <2>1, <2>2, <2>5 DEF consumer, Task, LoopFacts
<1>8. CASE Post
  <2> DEFINE reply == [to |-> inHand, success |-> outcome]
  <2>1. /\ UNCHANGED <<consumer, outcome, open, working, users>>
        /\ stage = "post" /\ stage' = "close" /\ Task.type \in {"login", "create"}
    BY <1>8 DEF Post, At, database
  <2>2. faults' \in {faults, faults + 1} /\ faults' \in 0..MaxFaults
    BY <1>0, <1>8, AccountAssumption DEF Post, Fault
  <2>3. replies' = replies \/ replies' = Append(replies, reply)
    BY <1>8 DEF Post
  <2>4. reply \in replySet
    BY <2>1, TaskTypes
  <2> HIDE DEF reply, replySet
  <2>5. replies' \in Seq(replySet)
    <3>1. Append(replies, reply) \in Seq(replySet)
      BY <1>0, <2>4, AppendTypes
    <3> QED  BY <1>0, <2>3, <3>1
  <2>6. replies' \in Seq([to : 1..Len(log'), success : BOOLEAN])
    BY <2>1, <2>5 DEF replySet, consumer
  <2>7. open \in 1..(faults' + 1) /\ open \in 0..(MaxFaults + 1)
    <3>1. open \in Nat /\ 1 <= open /\ open <= faults + 1
      BY <1>0, <2>1
    <3>2. PICK f \in 0..MaxFaults : faults' = f /\ faults <= f
      BY <1>0, <2>2
    <3>3. open \in 1..(f + 1) /\ open \in 0..(MaxFaults + 1)
      BY <1>0, <3>1, <3>2, AccountAssumption
    <3> QED  BY <3>2, <3>3
  <2>8. UNCHANGED <<log, inHand, completed>> /\ Task' = Task
    BY <2>1 DEF consumer, Task
  <2> QED  BY <2>1, <2>2, <2>6, <2>7, <2>8 DEF LoopFacts
<1>9. CASE Close
  <2>1. /\ UNCHANGED <<log, inHand, completed, outcome, working, users,
                       replies, faults>>
        /\ stage = "close" /\ stage' = "end" /\ open' = open - 1
    BY <1>9 DEF Close, At, consumer
  <2>2. open' \in 0..faults' /\ open' \in 0..(MaxFaults + 1)
    BY <1>0, <2>1, AccountAssumption
  <2> QED  BY <2>1, <2>2 DEF LoopFacts
<1>10. CASE Finish
  BY <1>10 DEF Finish, Loop!Finish, Loop!broker, database, LoopFacts
<1>11. CASE Throw \/ ConnectFails \/ PasswordThrows \/ Crash
  <2>1. /\ UNCHANGED <<log, users, replies, completed>>
        /\ stage' = "idle" /\ open' = 0 /\ inHand' = 0
        /\ outcome' = FALSE /\ working' = TRUE
    BY <1>11 DEF Throw, ConnectFails, PasswordThrows, Crash, Stop,
                 Loop!Throw, Loop!Crash, Loop!Die, Loop!broker, Loop!history
  <2>2. faults' \in {faults, faults + 1} /\ faults' \in 0..MaxFaults
    BY <1>0, <1>11, AccountAssumption
    DEF Throw, ConnectFails, PasswordThrows, Crash, Fault
  <2>3. open' \in 0..faults' /\ open' \in 0..(MaxFaults + 1)
    BY <1>0, <2>1, <2>2, AccountAssumption
  <2> QED  BY <2>1, <2>2, <2>3 DEF LoopFacts
<1>12. CASE Environment
  <2>1. /\ UNCHANGED <<stage, outcome, open, working, users, replies,
                       faults, inHand, completed>>
        /\ Len(log) <= Len(log')
        /\ \A i \in 1..Len(log) : log'[i] = log[i]
    BY <1>12, EnvironmentStep
  <2>2. replies' \in Seq([to : 1..Len(log'), success : BOOLEAN])
    <3> DEFINE wider == [to : 1..Len(log'), success : BOOLEAN]
    <3>1. replySet \subseteq wider
      BY <2>1 DEF LoopFacts
    <3> HIDE DEF replySet, wider
    <3>2. replies' \in Seq(wider)
      BY <1>0, <2>1, <3>1, SeqWiden
    <3> QED  BY <3>2 DEF wider
  <2>3. stage # "idle" => Task' = Task
    BY <2>1, TaskTypes DEF Task
  <2> QED  BY <1>0, <2>1, <2>2, <2>3 DEF LoopFacts
<1>13. CASE UNCHANGED vars
  BY <1>13 DEF vars, consumer, Task, LoopFacts
<1> QED
  BY <1>1, <1>2, <1>3, <1>4, <1>5, <1>6, <1>7, <1>8, <1>9, <1>10, <1>11, <1>12,
     <1>13
  DEF Next, Service

(* The types, and the stage against the message and the connection, hold in  *)
(* every state.                                                              *)
LEMMA TypeInvHolds == Spec => []TypeInv
<1>1. Init /\ LoopFacts => TypeInv
  <2> SUFFICES ASSUME Init, LoopFacts PROVE TypeInv
    OBVIOUS
  <2>1. /\ Loop!TypeOK /\ stage = "idle" /\ outcome = FALSE
        /\ open = 0 /\ working = TRUE /\ users = <<>> /\ replies = <<>>
        /\ faults = 0 /\ inHand = 0 /\ completed = {}
    BY DEF Init, Loop!Init, LoopFacts
  <2>2. 0 \in 0..MaxFaults /\ 0 \in 0..(MaxFaults + 1)
    BY AccountAssumption
  <2>3. users \in Seq(Rows) /\ replies \in Seq([to : 1..Len(log), success : BOOLEAN])
    BY <2>1, EmptyTypes
  <2>4. TypeOK
    BY <2>1, <2>2, <2>3 DEF TypeOK
  <2> QED  BY <2>1, <2>4 DEF TypeInv, AtWork, OpenPaid, Working
<1> QED  BY <1>1, TypeStep, LoopFactsHold, PTL DEF Spec

(* The types hold for any users, passwords and bounds.                       *)
THEOREM TypeCorrect == Spec => []TypeOK
<1>1. TypeInv => TypeOK
  BY DEF TypeInv
<1> QED  BY <1>1, TypeInvHolds, PTL

(* Besides the handler's own, a connection is open for each failed query at  *)
(* most: the early returns without mysql_close are paid by a fault each.     *)
THEOREM LeaksAreBounded == Spec => []LeakBound
<1>1. TypeInv => LeakBound
  <2> SUFFICES ASSUME TypeInv PROVE LeakBound
    OBVIOUS
  <2>1. /\ faults \in Nat
        /\ stage \in Working => open \in 1..(faults + 1)
        /\ stage \notin Working => open \in 0..faults
    BY AccountAssumption DEF TypeInv, TypeOK, OpenPaid
  <2>2. stage \in {"idle", "begin"} => stage \notin Working
    BY DEF Working
  <2> QED  BY <2>1, <2>2 DEF LeakBound
<1> QED  BY <1>1, TypeInvHolds, PTL

-----------------------------------------------------------------------------
(* What is about to be posted is true already; the table only grows.         *)
AnswerTrue == stage = "post" /\ outcome /\ Literal(Task) => Backed(Task)

TruthInv == AnswerTrue /\ TrueAnswersHold

(* No step takes a row away, and an INSERT of literals adds its row.         *)
LEMMA TableGrows ==
  ASSUME LoopFacts, TypeInv, [Next]_vars
  PROVE  /\ Range(users) \subseteq Range(users')
         /\ ~(Insert \/ InsertFails) => users' = users
         /\ Insert /\ Literal(Task) => Credentials(Task) \in Range(users')
<1>1. CASE Insert \/ InsertFails
  <2>1. /\ stage = "insert" /\ Task.password # NoPassword
        /\ users' = users \/ \E s \in Added(Task) : users' = users \o s
        /\ Insert => \E s \in Added(Task) : users' = users \o s
    BY <1>1 DEF Insert, InsertFails, At
  <2>2. CASE users' = users /\ ~Insert
    BY <1>1, <2>2
  <2>3. ASSUME NEW s \in Added(Task), users' = users \o s
        PROVE  /\ Range(users) \subseteq Range(users')
               /\ Literal(Task) => Credentials(Task) \in Range(users')
    <3>1. /\ users \in Seq(Rows) /\ Range(users) \subseteq Range(users')
          /\ Credentials(Task) \in Rows
          /\ Literal(Task) => users' = Append(users, Credentials(Task))
      BY <2>1, <2>3, AddedIs
    <3>2. ASSUME NEW T, NEW a \in Seq(T), NEW x \in T
          PROVE  x \in Range(Append(a, x))
      BY DEF Range
    <3> QED  BY <3>1, <3>2
  <2> QED  BY <1>1, <2>1, <2>2, <2>3
<1>2. CASE ~(Insert \/ InsertFails)
  BY <1>2, EnvironmentStep
  DEF Next, Service, Receive, Ignore, Connect, Select, SelectFails, NoResult,
      Post, Close, Finish, Throw, ConnectFails, PasswordThrows, Crash, Stop,
      database, vars
<1> QED  BY <1>1, <1>2

(* A row that backs an answer still does when the table has grown.           *)
LEMMA BackedStays ==
  ASSUME Range(users) \subseteq Range(users'), NEW m, Backed(m)
  PROVE  \E r \in Range(users') :
             /\ SameName(r.user, m.user) /\ r.password = m.password
             /\ m.type = "create" => r = Credentials(m)
BY DEF Backed

(* What was answered stays true as the topic and the table grow.             *)
LEMMA TruthStep == LoopFacts /\ TypeInv /\ TruthInv /\ [Next]_vars => TruthInv'
<1> SUFFICES ASSUME LoopFacts, TypeInv, TruthInv, [Next]_vars PROVE TruthInv'
  OBVIOUS
<1>1. Range(users) \subseteq Range(users')
  BY TableGrows
<1>2. CASE Select
  <2>1. /\ UNCHANGED <<log, inHand, replies, users>> /\ stage = "select"
        /\ Task.type \in {"login", "create"}
    BY <1>2 DEF Select, At, consumer, database
  <2>2. PICK row \in Found(Task.user) :
           outcome' => /\ Task.type = "login" /\ row # NoRow
                       /\ row.password = Task.password
    BY <1>2 DEF Select
  <2>3. outcome' /\ Literal(Task) => Backed(Task)
    BY <2>2, FoundIs DEF TypeInv, Literal, Backed
  <2> QED
    BY <2>1, <2>3 DEF TruthInv, AnswerTrue, TrueAnswersHold, Backed, Task
<1>3. CASE Insert
  <2>1. UNCHANGED <<log, inHand, replies>>
    BY <1>3 DEF Insert, consumer
  <2>2. Literal(Task) => Backed(Task)'
    BY <1>3, <2>1, TableGrows DEF Backed, Credentials, SameName, Task
  <2>3. TrueAnswersHold'
    BY <1>1, <2>1, BackedStays DEF TruthInv, TrueAnswersHold, Backed
  <2> QED  BY <2>1, <2>2, <2>3 DEF TruthInv, AnswerTrue, Task
<1>4. CASE InsertFails
  <2>1. UNCHANGED <<log, inHand, replies>> /\ ~outcome'
    BY <1>4 DEF InsertFails, consumer
  <2>2. TrueAnswersHold'
    BY <1>1, <2>1, BackedStays DEF TruthInv, TrueAnswersHold, Backed
  <2> QED  BY <2>1, <2>2 DEF TruthInv, AnswerTrue
<1>5. CASE Post
  <2> DEFINE reply == [to |-> inHand, success |-> outcome]
  <2>1. /\ UNCHANGED <<log, users>> /\ stage = "post" /\ stage' = "close"
        /\ replies' = replies \/ replies' = Append(replies, reply)
    BY <1>5 DEF Post, At, consumer, database
  <2>2. replies \in Seq([to : 1..Len(log), success : BOOLEAN])
        /\ reply \in [to : 1..Len(log), success : BOOLEAN]
    BY <2>1, TaskTypes DEF TypeInv, TypeOK
  <2>3. \A k \in DOMAIN replies' :
           \/ k \in DOMAIN replies /\ replies'[k] = replies[k]
           \/ replies'[k] = reply
    <3> DEFINE T == [to : 1..Len(log), success : BOOLEAN]
    <3> DEFINE more == Append(replies, reply)
    <3>1. replies \in Seq(T) /\ reply \in T
      BY <2>2
    <3> HIDE DEF T, reply
    <3>2. /\ more \in Seq(T) /\ Len(more) = Len(replies) + 1
          /\ more[Len(replies) + 1] = reply
          /\ \A k \in 1..Len(replies) : more[k] = replies[k]
      BY <3>1, AppendTypes
    <3> HIDE DEF more
    <3>3. /\ DOMAIN replies = 1..Len(replies) /\ DOMAIN more = 1..Len(more)
          /\ Len(replies) \in Nat
      BY <3>1, <3>2
    <3>4. \A k \in DOMAIN more : k \in DOMAIN replies \/ k = Len(replies) + 1
      BY <3>2, <3>3
    <3>5. \A k \in DOMAIN more :
             \/ k \in DOMAIN replies /\ more[k] = replies[k]
             \/ more[k] = reply
      BY <3>2, <3>3, <3>4
    <3>6. replies' = replies \/ replies' = more
      BY <2>1 DEF more
    <3> QED  BY <3>5, <3>6
  <2>4. reply.success /\ Literal(log[reply.to]) => Backed(log[reply.to])
    BY <2>1 DEF TruthInv, AnswerTrue, Task
  <2> QED
    BY <2>1, <2>3, <2>4 DEF TruthInv, AnswerTrue, TrueAnswersHold, Backed
<1>6. CASE Environment
  <2>1. /\ UNCHANGED <<stage, outcome, users, replies, inHand>>
        /\ \A i \in 1..Len(log) : log'[i] = log[i]
    BY <1>6, EnvironmentStep
  <2>2. stage # "idle" => Task' = Task
    BY <2>1, TaskTypes DEF Task
  <2>3. \A k \in DOMAIN replies : log'[replies[k].to] = log[replies[k].to]
    <3>1. \A k \in DOMAIN replies : replies[k].to \in 1..Len(log)
      BY ReplyTypes DEF TypeInv
    <3> QED  BY <2>1, <3>1
  <2> QED
    BY <2>1, <2>2, <2>3 DEF TruthInv, AnswerTrue, TrueAnswersHold, Backed
<1>7. CASE Receive \/ Ignore \/ Connect \/ SelectFails \/ NoResult \/ Close
           \/ Finish \/ Throw \/ ConnectFails \/ PasswordThrows \/ Crash
  <2>1. UNCHANGED <<log, users, replies>> /\ stage' # "post"
    BY <1>7
    DEF Receive, Ignore, Connect, SelectFails, NoResult, Close, Finish, Throw,
        ConnectFails, PasswordThrows, Crash, Stop, Loop!Poll, Loop!Finish,
        Loop!Throw, Loop!Crash, Loop!Die, Loop!broker, Loop!history, consumer,
        database
  <2> QED  BY <2>1 DEF TruthInv, AnswerTrue, TrueAnswersHold, Backed
<1>8. CASE UNCHANGED vars
  BY <1>8 DEF vars, consumer, TruthInv, AnswerTrue, TrueAnswersHold, Backed, Task
<1> QED
  BY <1>2, <1>3, <1>4, <1>5, <1>6, <1>7, <1>8 DEF Next, Service

(* So it is at every time: nothing was posted before the first message.      *)
LEMMA TruthHolds == Spec => []TruthInv
<1>1. Init => TruthInv
  BY DEF Init, TruthInv, AnswerTrue, TrueAnswersHold
<1> QED  BY <1>1, TruthStep, LoopFactsHold, TypeInvHolds, PTL DEF Spec

(* A positive answer is true, for any users, passwords and collation,        *)
(* whatever fails, however often the message is delivered, and whatever      *)
(* statements other messages made; if its own message was understood as it   *)
(* was meant.                                                                *)
THEOREM AnswersAreTrue == Spec => []TrueAnswersHold
<1>1. TruthInv => TrueAnswersHold
  BY DEF TruthInv
<1> QED  BY <1>1, TruthHolds, PTL

-----------------------------------------------------------------------------
(* Literals stay what they are: what is handed out is only added to.         *)
LEMMA LiteralStays ==
  ASSUME LoopFacts, TypeInv, [Next]_vars, CreatesLiteral'
  PROVE  /\ CreatesLiteral
         /\ inHand # 0 /\ Task.type = "create" => Literal(Task)
<1>1. handed \subseteq handed' /\ \A i \in handed : log'[i] = log[i]
  <2>1. CASE Environment
    BY <2>1, EnvironmentStep DEF LoopFacts
  <2>2. CASE ~Environment
    BY <2>2
    DEF Next, Service, Receive, Ignore, Connect, Select, SelectFails, NoResult,
        Insert, InsertFails, Post, Close, Finish, Throw, ConnectFails,
        PasswordThrows, Crash, Stop, Loop!Poll, Loop!Finish, Loop!Throw,
        Loop!Crash, Loop!Die, Loop!broker, Loop!history, consumer, vars
  <2> QED  BY <2>1, <2>2
<1>2. CreatesLiteral
  BY <1>1 DEF CreatesLiteral, Literal
<1> QED  BY <1>2 DEF CreatesLiteral, LoopFacts, Task

(* The names that have a row, as the database compares them.                 *)
Named == {Fold[r.user] : r \in Range(users)}

(* The insert about to be made is of a name that has a row.                  *)
Twice == IF stage = "insert" /\ RowsOf(Task.user) # {} THEN 1 ELSE 0

NamesPaid ==
    CreatesLiteral =>
        /\ IsFiniteSet(Named)
        /\ Len(users) + Twice <= Cardinality(Named) + faults

(* A name has a row when it is one of those.                                 *)
LEMMA HasRow ==
  ASSUME NEW u
  PROVE  RowsOf(u) # {} <=> Fold[u] \in Named
BY DEF RowsOf, Named, SameName, Range

(* A row more names its user, and nobody else.                               *)
LEMMA NamedStep ==
  ASSUME TypeInv, NEW r \in Rows, users' = Append(users, r)
  PROVE  Len(users') = Len(users) + 1 /\ Named' = Named \cup {Fold[r.user]}
<1>1. users \in Seq(Rows)
  BY DEF TypeInv, TypeOK
<1>2. /\ Len(users') = Len(users) + 1 /\ users'[Len(users) + 1] = r
      /\ \A k \in 1..Len(users) : users'[k] = users[k]
      /\ DOMAIN users = 1..Len(users) /\ DOMAIN users' = 1..(Len(users) + 1)
      /\ Len(users) \in Nat
  <2>1. users' \in Seq(Rows)
    BY <1>1, AppendTypes
  <2> QED  BY <1>1, <2>1, AppendTypes
<1>3. \A x : x \in Range(users') <=> x \in Range(users) \/ x = r
  BY <1>2 DEF Range
<1> QED  BY <1>2, <1>3 DEF Named

(* An insert is made of a free name, but after a query without a result.     *)
LEMMA NamesStep ==
  LoopFacts /\ TypeInv /\ NamesPaid /\ [Next]_vars => NamesPaid'
<1> SUFFICES ASSUME LoopFacts, TypeInv, NamesPaid, [Next]_vars, CreatesLiteral'
             PROVE  /\ IsFiniteSet(Named')
                    /\ Len(users') + Twice' <= Cardinality(Named') + faults'
  BY DEF NamesPaid
<1> DEFINE n == Cardinality(Named)
<1>0. /\ n \in Nat /\ Len(users) \in Nat /\ faults \in Nat /\ Twice \in {0, 1}
      /\ IsFiniteSet(Named) /\ Len(users) + Twice <= n + faults
      /\ inHand # 0 /\ Task.type = "create" => Literal(Task)
  BY LiteralStays, FS_CardinalityType, AccountAssumption
  DEF NamesPaid, TypeInv, TypeOK, Twice
<1> DEFINE new == Credentials(Task)
<1>a. ASSUME stage = "insert", Task.password # NoPassword
      PROVE  /\ new \in Rows /\ new.user = Task.user
             /\ \A s \in Added(Task) : users \o s = Append(users, new)
  <2>1. Literal(Task) /\ inHand # 0 /\ Task.type = "create"
    BY <1>0, <1>a DEF TypeInv, AtWork
  <2>2. new \in Rows
    BY <1>a, <2>1, TaskTypes DEF Credentials, Rows
  <2> QED  BY <1>a, <2>1, <2>2, AddedIs DEF Credentials
<1>1. CASE Insert
  <2>1. /\ stage = "insert" /\ stage' = "post" /\ UNCHANGED faults
        /\ new \in Rows /\ new.user = Task.user /\ users' = Append(users, new)
    BY <1>1, <1>a DEF Insert, At
  <2> HIDE DEF new
  <2>2. Len(users') = Len(users) + 1 /\ Named' = Named \cup {Fold[Task.user]}
    BY <2>1, NamedStep
  <2>3. Twice' = 0
    BY <2>1 DEF Twice
  <2>4. CASE RowsOf(Task.user) # {}
    <3>1. Named' = Named /\ Twice = 1
      BY <2>1, <2>2, <2>4, HasRow DEF Twice
    <3>2. Cardinality(Named') = n /\ IsFiniteSet(Named')
      BY <1>0, <3>1
    <3>3. Len(users') + Twice' = Len(users) + Twice /\ faults' = faults
      BY <1>0, <2>1, <2>2, <2>3, <3>1
    <3> QED  BY <1>0, <3>2, <3>3
  <2>5. CASE RowsOf(Task.user) = {}
    <3>1. Fold[Task.user] \notin Named /\ Twice = 0
      BY <2>5, HasRow DEF Twice
    <3>2. /\ IsFiniteSet(Named \cup {Fold[Task.user]})
          /\ Cardinality(Named \cup {Fold[Task.user]}) = n + 1
      BY <1>0, <3>1, FS_AddElement
    <3> QED  BY <1>0, <2>1, <2>2, <2>3, <3>1, <3>2
  <2> QED  BY <2>4, <2>5
<1>2. CASE InsertFails
  <2>1. /\ stage = "insert" /\ stage' = "post"
        /\ new \in Rows /\ new.user = Task.user
        /\ \/ UNCHANGED <<users, faults>>
           \/ faults' = faults + 1 /\ users' = users
           \/ faults' = faults + 1 /\ users' = Append(users, new)
    BY <1>2, <1>a DEF InsertFails, At, Fault
  <2> HIDE DEF new
  <2>2. Twice' = 0
    BY <2>1 DEF Twice
  <2>3. CASE users' = users
    <3>1. Named' = Named
      BY <2>3 DEF Named
    <3> QED  BY <1>0, <2>1, <2>2, <2>3, <3>1
  <2>4. CASE faults' = faults + 1 /\ users' = Append(users, new)
    <3>1. Len(users') = Len(users) + 1 /\ Named' = Named \cup {Fold[Task.user]}
      BY <2>1, <2>4, NamedStep
    <3>2. /\ IsFiniteSet(Named')
          /\ Cardinality(Named') \in {n, n + 1}
      BY <1>0, <3>1, FS_AddElement
    <3> QED  BY <1>0, <2>2, <2>4, <3>1, <3>2
  <2> QED  BY <2>1, <2>3, <2>4
<1>3. CASE ~(Insert \/ InsertFails)
  <2>1. UNCHANGED users /\ Named' = Named
    BY <1>3, TableGrows DEF Named
  <2>2. CASE Select
    <3>1. UNCHANGED <<log, inHand, faults>> /\ stage = "select"
      BY <2>2 DEF Select, At, consumer
    <3>2. ASSUME stage' = "insert" PROVE RowsOf(Task.user) = {}
      <4>1. Task.type = "create" /\ NoRow \in Found(Task.user)
        BY <2>2, <3>2 DEF Select
      <4>2. Task.user \in Plain
        BY <1>0, <3>1, <4>1 DEF TypeInv, AtWork, Literal
      <4> QED  BY <4>1, <4>2, FoundIs DEF TypeInv
    <3>3. Twice' = 0
      BY <2>1, <3>1, <3>2 DEF Twice, RowsOf, SameName, Task
    <3> QED  BY <1>0, <2>1, <3>1, <3>3
  <2>3. CASE NoResult
    <3>1. faults' = faults + 1 /\ Twice' \in {0, 1}
      BY <2>3 DEF NoResult, Fault, Twice
    <3> QED  BY <1>0, <2>1, <3>1
  <2>4. CASE Environment
    <3>1. UNCHANGED <<stage, faults>> /\ (stage # "idle" => Task' = Task)
      BY <2>4, EnvironmentStep, TaskTypes DEF Task
    <3>2. Twice' = Twice
      BY <2>1, <3>1 DEF Twice, RowsOf, SameName
    <3> QED  BY <1>0, <2>1, <3>1, <3>2
  <2>5. CASE UNCHANGED vars
    <3>1. Twice' = Twice /\ UNCHANGED faults
      BY <2>5 DEF Twice, RowsOf, SameName, Task, vars, consumer
    <3> QED  BY <1>0, <2>1, <3>1
  <2>6. CASE Receive \/ Ignore \/ Connect \/ SelectFails \/ Post \/ Close
             \/ Finish \/ Throw \/ ConnectFails \/ PasswordThrows \/ Crash
    <3>1. stage' # "insert" /\ faults' \in {faults, faults + 1}
      BY <2>6
      DEF Receive, Ignore, Connect, SelectFails, Post, Close, Finish, Throw,
          ConnectFails, PasswordThrows, Crash, Stop, Fault
    <3>2. Twice' = 0
      BY <3>1 DEF Twice
    <3> QED  BY <1>0, <2>1, <3>1, <3>2
  <2> QED
    BY <1>3, <2>2, <2>3, <2>4, <2>5, <2>6 DEF Next, Service
<1> QED  BY <1>1, <1>2, <1>3

(* A name, as any collation compares them, has one row, and one more at most *)
(* for each time that the database gave no result, although no uniqueness    *)
(* rule of the table is assumed and messages are delivered again; while each *)
(* INSERT is the one that was meant.                                         *)
THEOREM NamesAreUnique == Spec => []NamesUnique
<1>1. Init => NamesPaid
  <2> SUFFICES ASSUME Init PROVE NamesPaid
    OBVIOUS
  <2>1. Named = {} /\ Twice = 0 /\ Len(users) = 0 /\ faults = 0
    BY DEF Init, Named, Range, Twice
  <2> QED  BY <2>1, FS_EmptySet DEF NamesPaid
<1>2. NamesPaid /\ TypeInv => NamesUnique
  <2> SUFFICES ASSUME NamesPaid, TypeInv, CreatesLiteral PROVE NamesUnique
    BY DEF NamesUnique
  <2>1. /\ Cardinality(Named) \in Nat /\ Len(users) \in Nat /\ faults \in Nat
        /\ Twice \in {0, 1}
    BY FS_CardinalityType, AccountAssumption DEF NamesPaid, TypeInv, TypeOK, Twice
  <2> QED  BY <2>1 DEF NamesPaid, NamesUnique, Named
<1> QED
  BY <1>1, <1>2, NamesStep, LoopFactsHold, TypeInvHolds, PTL DEF Spec

-----------------------------------------------------------------------------
(* Logins and creates done with, and the one in hand once it was posted for, *)
(* that no reply is to.                                                      *)
Answerable(i) == log[i].type \in {"login", "create"}
Through == IF stage \in {"close", "end"} THEN {inHand} ELSE {}

Unanswered ==
    {i \in completed \cup Through :
        Answerable(i) /\ \A k \in DOMAIN replies : replies[k].to # i}

AnswersPaid == IsFiniteSet(Unanswered) /\ Cardinality(Unanswered) <= faults

(* A message is done with unanswered only by a call that failed.             *)
LEMMA UnansweredStep ==
  ASSUME LoopFacts, TypeInv, [Next]_vars
  PROVE  \/ Unanswered' \subseteq Unanswered /\ faults' \in {faults, faults + 1}
         \/ Unanswered' \subseteq Unanswered \cup {inHand} /\ faults' = faults + 1
<1>1. CASE Post
  <2> DEFINE reply == [to |-> inHand, success |-> outcome]
  <2>1. /\ UNCHANGED <<log, inHand, completed>> /\ stage = "post" /\ stage' = "close"
        /\ \/ replies' = Append(replies, reply) /\ UNCHANGED faults
           \/ faults' = faults + 1 /\ replies' \in {replies, Append(replies, reply)}
    BY <1>1 DEF Post, At, Fault, consumer
  <2>2. /\ replies \in Seq([to : 1..Len(log), success : BOOLEAN])
        /\ reply \in [to : 1..Len(log), success : BOOLEAN] /\ reply.to = inHand
    BY <2>1, TaskTypes DEF TypeInv, TypeOK
  <2> HIDE DEF reply
  <2>3. replies' = Append(replies, reply) =>
           /\ \A k \in DOMAIN replies : k \in DOMAIN replies' /\ replies'[k] = replies[k]
           /\ \E k \in DOMAIN replies' : replies'[k].to = inHand
    BY <2>2, AppendTypes
  <2>4. Unanswered' \subseteq Unanswered \cup {inHand}
    BY <2>1, <2>3 DEF Unanswered, Through, Answerable
  <2>5. replies' = Append(replies, reply) => inHand \notin Unanswered'
    BY <2>3 DEF Unanswered
  <2> QED  BY <2>1, <2>4, <2>5
<1>2. CASE SelectFails
  <2>1. UNCHANGED <<log, inHand, completed, replies>> /\ faults' = faults + 1
    BY <1>2 DEF SelectFails, Fault, consumer
  <2> QED  BY <2>1 DEF Unanswered, Through, Answerable
<1>3. CASE Ignore
  <2>1. /\ UNCHANGED <<log, inHand, completed, replies, faults>>
        /\ Task.type = "other"
    BY <1>3 DEF Ignore, At, consumer
  <2> QED  BY <2>1 DEF Unanswered, Through, Answerable, Task
<1>4. CASE Finish
  <2>1. /\ UNCHANGED <<log, replies, faults>> /\ completed' = completed \cup {inHand}
        /\ stage = "end" /\ stage' = "idle"
    BY <1>4 DEF Finish, Loop!Finish, Loop!broker
  <2> QED  BY <2>1 DEF Unanswered, Through, Answerable
<1>5. CASE Close
  <2>1. /\ UNCHANGED <<log, inHand, completed, replies, faults>>
        /\ stage = "close" /\ stage' = "end"
    BY <1>5 DEF Close, At, consumer
  <2> QED  BY <2>1 DEF Unanswered, Through, Answerable
<1>6. CASE Environment
  <2>1. /\ UNCHANGED <<stage, replies, faults, inHand, completed>>
        /\ \A i \in 1..Len(log) : log'[i] = log[i]
    BY <1>6, EnvironmentStep
  <2>2. completed \cup Through \subseteq 1..Len(log)
    BY TaskTypes DEF LoopFacts, Through
  <2> QED  BY <2>1, <2>2 DEF Unanswered, Through, Answerable
<1>7. CASE UNCHANGED vars
  BY <1>7 DEF Unanswered, Through, Answerable, vars, consumer
<1>8. CASE Receive \/ Connect \/ Select \/ NoResult \/ Insert \/ InsertFails
           \/ Throw \/ ConnectFails \/ PasswordThrows \/ Crash
  <2>1. /\ UNCHANGED <<log, replies>> /\ completed' \subseteq completed
        /\ stage' \notin {"close", "end"} /\ faults' \in {faults, faults + 1}
    BY <1>8
    DEF Receive, Connect, Select, NoResult, Insert, InsertFails, Throw,
        ConnectFails, PasswordThrows, Crash, Stop, Fault, Loop!Poll, Loop!Throw,
        Loop!Crash, Loop!Die, Loop!broker, Loop!history, consumer, database
  <2> QED  BY <2>1 DEF Unanswered, Through, Answerable
<1> QED
  BY <1>1, <1>2, <1>3, <1>4, <1>5, <1>6, <1>7, <1>8 DEF Next, Service

(* Every step keeps what is unanswered within the faults.                    *)
LEMMA AnswersStep ==
  LoopFacts /\ TypeInv /\ AnswersPaid /\ [Next]_vars => AnswersPaid'
<1> SUFFICES ASSUME LoopFacts, TypeInv, AnswersPaid, [Next]_vars
             PROVE  AnswersPaid'
  OBVIOUS
<1>1. /\ faults \in Nat /\ IsFiniteSet(Unanswered)
      /\ Cardinality(Unanswered) \in Nat /\ Cardinality(Unanswered) <= faults
  BY FS_CardinalityType, AccountAssumption DEF AnswersPaid, TypeInv, TypeOK
<1>2. CASE Unanswered' \subseteq Unanswered /\ faults' \in {faults, faults + 1}
  <2>1. /\ IsFiniteSet(Unanswered') /\ Cardinality(Unanswered') \in Nat
        /\ Cardinality(Unanswered') <= Cardinality(Unanswered)
    BY <1>1, <1>2, FS_Subset, FS_CardinalityType
  <2> QED  BY <1>1, <1>2, <2>1 DEF AnswersPaid
<1>3. CASE Unanswered' \subseteq Unanswered \cup {inHand} /\ faults' = faults + 1
  <2>1. /\ IsFiniteSet(Unanswered \cup {inHand})
        /\ Cardinality(Unanswered \cup {inHand})
              \in {Cardinality(Unanswered), Cardinality(Unanswered) + 1}
    BY <1>1, FS_AddElement
  <2>2. /\ IsFiniteSet(Unanswered') /\ Cardinality(Unanswered') \in Nat
        /\ Cardinality(Unanswered') <= Cardinality(Unanswered \cup {inHand})
    BY <1>3, <2>1, FS_Subset, FS_CardinalityType
  <2> QED  BY <1>1, <1>3, <2>1, <2>2 DEF AnswersPaid
<1> QED  BY <1>2, <1>3, UnansweredStep

(* Every login or create that was completed was answered, but for one for    *)
(* each call to the database or post that failed.                            *)
THEOREM AnswersAreGiven == Spec => []CompletedAnswered
<1>1. Init => AnswersPaid
  <2> SUFFICES ASSUME Init PROVE AnswersPaid
    OBVIOUS
  <2>1. Unanswered = {} /\ faults = 0
    BY DEF Init, Loop!Init, Unanswered, Through
  <2> QED  BY <2>1, FS_EmptySet DEF AnswersPaid
<1>2. AnswersPaid /\ TypeInv => CompletedAnswered
  <2> SUFFICES ASSUME AnswersPaid, TypeInv PROVE CompletedAnswered
    OBVIOUS
  <2> DEFINE silent == {i \in completed :
                          /\ log[i].type \in {"login", "create"}
                          /\ \A k \in DOMAIN replies : replies[k].to # i}
  <2>1. silent \in SUBSET Unanswered
    BY DEF Unanswered, Answerable
  <2>2. /\ faults \in Nat /\ IsFiniteSet(Unanswered)
        /\ Cardinality(Unanswered) \in Nat /\ Cardinality(Unanswered) <= faults
    BY FS_CardinalityType, AccountAssumption DEF AnswersPaid, TypeInv, TypeOK
  <2>3. Cardinality(silent) \in Nat /\ Cardinality(silent) <= Cardinality(Unanswered)
    BY <2>1, <2>2, FS_Subset, FS_CardinalityType
  <2> HIDE DEF silent
  <2>4. Cardinality(silent) <= faults
    BY <2>2, <2>3
  <2> QED  BY <2>4 DEF CompletedAnswered, silent
<1> QED
  BY <1>1, <1>2, AnswersStep, LoopFactsHold, TypeInvHolds, PTL DEF Spec

-----------------------------------------------------------------------------
(* What the consumer adds: offsets in order, and what it dropped still to    *)
(* come or gone.                                                             *)
OffsetFacts == Proved!IInv /\ Proved!DroppedOut

(* The service keeps them.                                                   *)
LEMMA OffsetFactsHold == Spec => []OffsetFacts
<1>1. Loop!Spec => Proved!Spec
  BY SameConsumer, PTL DEF Loop!Spec, Proved!Spec
<1>2. Proved!Spec => []Proved!DroppedOut
  BY ConsumerBounds, Proved!DroppedOutHolds, PTL
<1> QED  BY <1>1, <1>2, ConsumerInv, ImplementsLoop, PTL DEF OffsetFacts

(* A create its handler has not yet looked for or inserted.                  *)
Pending(i) == i = inHand /\ stage \in {"begin", "select", "insert"}

RowFor(i) == Credentials(log[i])

(* Each row is what the first create of its name asked for.                  *)
RowsOfFirst ==
    \A k \in DOMAIN users :
        \E i \in FirstCreates : i \in handed /\ users[k] = RowFor(i)

(* A create that was handed out has its name in the table, unless it was     *)
(* dropped or is at work.                                                    *)
CreatesIn ==
    \A i \in handed : Creating(log[i]) =>
        i \in Proved!Dropped \/ Pending(i) \/ RowsOf(log[i].user) # {}

OneRowEach ==
    \A k, l \in DOMAIN users : SameName(users[k].user, users[l].user) => k = l

(* As long as the database did not fail, nothing dropped is gone, and every  *)
(* INSERT was the one meant.                                                 *)
WinInv ==
    (faults = 0 /\ ~Proved!Gone /\ CreatesLiteral) =>
        /\ RowsOfFirst /\ CreatesIn /\ OneRowEach
        /\ stage = "insert" => RowsOf(Task.user) = {}
        /\ inHand # 0 => working

(* Faults are never taken back, and neither is what is gone.                 *)
LEMMA FaultsStay ==
  ASSUME LoopFacts, TypeInv, OffsetFacts, [Next]_vars
  PROVE  /\ faults' \in {faults, faults + 1}
         /\ faults' = 0 => faults = 0
         /\ Proved!Gone => Proved!Gone'
<1>1. faults \in Nat
  BY AccountAssumption DEF TypeInv, TypeOK
<1>2. faults' \in {faults, faults + 1}
  BY EnvironmentStep
  DEF Next, Service, Receive, Ignore, Connect, Select, SelectFails, NoResult,
      Insert, InsertFails, Post, Close, Finish, Throw, ConnectFails,
      PasswordThrows, Crash, Fault, vars
<1>3. [Proved!Next]_(Proved!vars)
  BY LoopStep, SameConsumer
<1>4. Proved!Gone => Proved!Gone'
  BY <1>3, ConsumerBounds, Proved!GoneStays DEF OffsetFacts
<1> QED  BY <1>1, <1>2, <1>4

(* The rows stay those of first creates when the table stays as it is and    *)
(* the topic only grows.                                                     *)
LEMMA RowsStay ==
  ASSUME LoopFacts, TypeInv, RowsOfFirst, UNCHANGED users, handed \subseteq handed',
         Len(log) <= Len(log'), Len(log') \in Nat, log' \in Seq(Messages),
         \A i \in 1..Len(log) : log'[i] = log[i]
  PROVE  RowsOfFirst'
<1> SUFFICES ASSUME NEW k \in DOMAIN users
             PROVE  \E i \in FirstCreates' : i \in handed' /\ users[k] = RowFor(i)'
  BY DEF RowsOfFirst
<1>1. PICK i \in FirstCreates : i \in handed /\ users[k] = RowFor(i)
  BY DEF RowsOfFirst
<1>2. i \in 1..Len(log) /\ i \in DOMAIN log' /\ \A j \in 1..(i - 1) : j \in 1..Len(log)
  BY DEF FirstCreates, LoopFacts
<1>3. i \in FirstCreates'
  BY <1>1, <1>2 DEF FirstCreates, Creating
<1>4. RowFor(i)' = RowFor(i)
  BY <1>2 DEF RowFor
<1> QED  BY <1>1, <1>3, <1>4

(* A create about to be inserted, whose name is free, is the first of it:    *)
(* one before it would be in the table, or gone.                             *)
LEMMA InsertsFirst ==
  ASSUME LoopFacts, TypeInv, OffsetFacts, CreatesIn, ~Proved!Gone,
         stage = "insert", Task.password # NoPassword, RowsOf(Task.user) = {}
  PROVE  inHand \in FirstCreates /\ inHand \in handed
<1>1. up /\ inHand \in 1..Len(log) /\ inHand \in handed /\ Creating(Task)
  BY TaskTypes DEF LoopFacts, TypeInv, AtWork, Creating
<1>2. \A j \in 1..inHand : j \in handed
  BY <1>1 DEF OffsetFacts, Proved!IInv, Proved!HandedInOrder
<1>3. ASSUME NEW j \in 1..(inHand - 1), Creating(log[j])
      PROVE  ~SameName(log[j].user, Task.user)
  <2>1. j \in handed /\ j < inHand
    BY <1>1, <1>2
  <2>2. ~Pending(j)
    BY <2>1, <1>1 DEF Pending
  <2>3. j \notin Proved!Dropped
    <3> SUFFICES ASSUME j \in Proved!Dropped PROVE FALSE
      OBVIOUS
    <3>1. ~(j <= committed)
      BY DEF Proved!Gone
    <3>2. inHand < j
      BY <1>1, <3>1 DEF OffsetFacts, Proved!DroppedOut
    <3> QED  BY <1>1, <2>1, <3>2
  <2> QED  BY <1>3, <2>1, <2>2, <2>3 DEF CreatesIn, RowsOf, SameName
<1> QED  BY <1>1, <1>3 DEF FirstCreates, Task

(* No step gives a name a second row, or one that is not of its first create.*)
LEMMA WinStep ==
  LoopFacts /\ LoopFacts' /\ TypeInv /\ OffsetFacts /\ WinInv /\ [Next]_vars
      => WinInv'
<1> SUFFICES ASSUME LoopFacts, LoopFacts', TypeInv, OffsetFacts, WinInv, [Next]_vars,
                    faults' = 0, ~Proved!Gone', CreatesLiteral'
             PROVE  /\ RowsOfFirst' /\ CreatesIn' /\ OneRowEach'
                    /\ stage' = "insert" => RowsOf(Task.user)' = {}
                    /\ inHand' # 0 => working'
  BY DEF WinInv
<1>0. /\ faults = 0 /\ ~Proved!Gone /\ faults' # faults + 1
      /\ RowsOfFirst /\ CreatesIn /\ OneRowEach
      /\ stage = "insert" => RowsOf(Task.user) = {}
      /\ inHand # 0 => working
      /\ inHand # 0 /\ Task.type = "create" => Literal(Task)
  BY FaultsStay, LiteralStays DEF WinInv
<1>a. ASSUME UNCHANGED <<users, log>>, handed \subseteq handed'
      PROVE  /\ RowsOfFirst' /\ OneRowEach'
             /\ \A u : RowsOf(u)' = RowsOf(u)
  <2>1. RowsOfFirst'
    BY <1>0, <1>a, RowsStay DEF LoopFacts
  <2> QED  BY <1>0, <1>a, <2>1 DEF OneRowEach, RowsOf, SameName
<1>1. CASE Receive
  <2>1. /\ UNCHANGED <<users, log>> /\ stage = "idle" /\ stage' = "begin"
        /\ working' = TRUE /\ inHand = 0
        /\ handed' = handed \cup {inHand'} /\ completed' = completed \ {inHand'}
    BY <1>1 DEF Receive, Loop!Poll, Loop!broker
  <2>2. CreatesIn'
    BY <1>0, <1>a, <2>1 DEF CreatesIn, Pending, Proved!Dropped
  <2> QED  BY <1>a, <2>1, <2>2
<1>2. CASE Ignore \/ Connect \/ Post \/ Close
  <2>1. /\ UNCHANGED <<users, log, inHand, handed, completed, working>>
        /\ stage' # "insert"
        /\ stage \in {"begin", "select", "insert"} =>
               stage' = "select" \/ Task.type = "other"
    BY <1>2 DEF Ignore, Connect, Post, Close, At, consumer, database
  <2>2. CreatesIn'
    BY <1>0, <1>a, <2>1
    DEF CreatesIn, Pending, Proved!Dropped, Creating, Task
  <2> QED  BY <1>0, <1>a, <2>1, <2>2
<1>3. CASE Select
  <2>1. /\ UNCHANGED <<users, log, inHand, handed, completed, working>>
        /\ stage = "select" /\ Task' = Task
    BY <1>3 DEF Select, At, consumer, database, Task
  <2>2. Task.type = "create" =>
           /\ stage' = "insert" => RowsOf(Task.user) = {}
           /\ stage' # "insert" => RowsOf(Task.user) # {}
    <3> SUFFICES ASSUME Task.type = "create"
                 PROVE  /\ stage' = "insert" => RowsOf(Task.user) = {}
                        /\ stage' # "insert" => RowsOf(Task.user) # {}
      OBVIOUS
    <3>1. Task.user \in Plain
      BY <1>0, <2>1 DEF TypeInv, AtWork, Literal
    <3>2. PICK row \in Found(Task.user) :
             stage' = IF Task.type = "create" /\ row = NoRow THEN "insert" ELSE "post"
      BY <1>3 DEF Select
    <3> QED  BY <3>1, <3>2, FoundIs DEF TypeInv
  <2>a. stage' = "insert" => Task.type = "create"
    BY <1>3 DEF Select
  <2>3. stage' = "insert" => RowsOf(Task.user)' = {}
    BY <1>a, <2>1, <2>2, <2>a
  <2>4. CreatesIn'
    <3> SUFFICES ASSUME NEW i \in handed, Creating(log[i])
                 PROVE  \/ i \in Proved!Dropped' \/ Pending(i)'
                        \/ RowsOf(log[i].user)' # {}
      BY <2>1 DEF CreatesIn
    <3>1. CASE i = inHand
      BY <1>a, <2>1, <2>2, <3>1 DEF Creating, Task, Pending
    <3>2. CASE i # inHand
      BY <1>0, <1>a, <2>1, <3>2 DEF CreatesIn, Pending, Proved!Dropped
    <3> QED  BY <3>1, <3>2
  <2> QED  BY <1>0, <1>a, <2>1, <2>3, <2>4
<1>4. CASE SelectFails \/ NoResult \/ ConnectFails
  BY <1>0, <1>4 DEF SelectFails, NoResult, ConnectFails, Fault
<1>5. CASE Insert
  <2>1. /\ UNCHANGED <<log, inHand, handed, completed, working>>
        /\ stage = "insert" /\ stage' = "post"
        /\ Task.password # NoPassword
        /\ \E s \in Added(Task) : users' = users \o s
        /\ Task.type = "create" /\ inHand # 0
    BY <1>5 DEF Insert, At, consumer, TypeInv, AtWork
  <2>2. /\ RowFor(inHand) \in Rows /\ RowFor(inHand).user = Task.user
        /\ users' = Append(users, RowFor(inHand))
    BY <1>0, <2>1, AddedIs DEF RowFor, Credentials, Task
  <2>3. /\ Len(users) \in Nat /\ DOMAIN users = 1..Len(users)
        /\ DOMAIN users' = 1..(Len(users) + 1)
        /\ users'[Len(users) + 1] = RowFor(inHand)
        /\ \A k \in 1..Len(users) : users'[k] = users[k]
    <3>1. users \in Seq(Rows)
      BY DEF TypeInv, TypeOK
    <3>2. users' \in Seq(Rows)
      BY <2>2, <3>1, AppendTypes
    <3> QED  BY <2>2, <3>1, <3>2, AppendTypes
  <2>4. inHand \in FirstCreates /\ inHand \in handed
    BY <1>0, <2>1, InsertsFirst
  <2>5. FirstCreates' = FirstCreates /\ \A i : RowFor(i)' = RowFor(i)
    BY <2>1 DEF FirstCreates, RowFor
  <2>6. RowsOfFirst'
    BY <1>0, <2>1, <2>3, <2>4, <2>5 DEF RowsOfFirst
  <2>7. \A k \in 1..Len(users) : ~SameName(users[k].user, Task.user)
    BY <1>0, <2>1, <2>3 DEF RowsOf
  <2>8. OneRowEach'
    BY <1>0, <2>2, <2>3, <2>7 DEF OneRowEach, SameName
  <2>9. CreatesIn'
    <3> SUFFICES ASSUME NEW i \in handed, Creating(log[i])
                 PROVE  i \in Proved!Dropped' \/ RowsOf(log[i].user)' # {}
      BY <2>1 DEF CreatesIn
    <3>1. CASE i = inHand
      <4>1. Len(users) + 1 \in RowsOf(log[i].user)'
        BY <2>1, <2>2, <2>3, <3>1 DEF RowsOf, SameName, Task
      <4> QED  BY <4>1
    <3>2. CASE i # inHand
      <4>1. i \in Proved!Dropped \/ RowsOf(log[i].user) # {}
        BY <1>0, <3>2 DEF CreatesIn, Pending
      <4>2. RowsOf(log[i].user) \subseteq RowsOf(log[i].user)'
        BY <2>1, <2>3 DEF RowsOf, SameName
      <4> QED  BY <2>1, <4>1, <4>2 DEF Proved!Dropped
    <3> QED  BY <3>1, <3>2
  <2> QED  BY <1>0, <2>1, <2>6, <2>8, <2>9
<1>6. CASE InsertFails
  <2>1. stage = "insert" /\ ~working
    BY <1>0, <1>6 DEF InsertFails, At, Fault
  <2> QED  BY <1>0, <2>1 DEF TypeInv, AtWork
<1>7. CASE Finish
  <2>1. /\ UNCHANGED <<users, log, handed>>
        /\ stage = "end" /\ stage' = "idle" /\ inHand' = 0
        /\ completed' = completed \cup {inHand}
    BY <1>7 DEF Finish, Loop!Finish, Loop!broker, database
  <2>2. Proved!Dropped' = Proved!Dropped
    BY <2>1 DEF Proved!Dropped, LoopFacts
  <2>3. CreatesIn'
    BY <1>0, <1>a, <2>1, <2>2 DEF CreatesIn, Pending
  <2> QED  BY <1>a, <2>1, <2>3
<1>8. CASE Throw \/ PasswordThrows \/ Crash
  <2>1. /\ UNCHANGED <<users, log, handed, completed>>
        /\ stage' = "idle" /\ inHand' = 0
    BY <1>8 DEF Throw, PasswordThrows, Crash, Stop, Loop!Throw, Loop!Crash,
                Loop!Die, Loop!broker, Loop!history
  <2>2. Proved!Dropped' = Proved!Dropped \cup ({inHand} \cap handed)
    BY <2>1 DEF Proved!Dropped, LoopFacts, TypeInv, AtWork
  <2>3. CreatesIn'
    BY <1>0, <1>a, <2>1, <2>2 DEF CreatesIn, Pending
  <2> QED  BY <1>a, <2>1, <2>3
<1>9. CASE Environment
  <2>1. /\ UNCHANGED <<stage, users, working, inHand, handed, completed>>
        /\ Len(log) <= Len(log')
        /\ \A i \in 1..Len(log) : log'[i] = log[i]
    BY <1>9, EnvironmentStep
  <2>2. RowsOfFirst'
    BY <1>0, <2>1, RowsStay DEF LoopFacts
  <2>3. OneRowEach' /\ \A u : RowsOf(u)' = RowsOf(u)
    BY <1>0, <2>1 DEF OneRowEach, RowsOf, SameName
  <2>4. CreatesIn'
    BY <1>0, <2>1, <2>3 DEF CreatesIn, Pending, Proved!Dropped, LoopFacts
  <2>5. stage # "idle" => Task' = Task
    BY <2>1, TaskTypes DEF Task
  <2> QED  BY <1>0, <2>1, <2>2, <2>3, <2>4, <2>5
<1>10. CASE UNCHANGED vars
  <2>1. UNCHANGED <<stage, users, working, inHand, handed, completed, log>>
    BY <1>10 DEF vars, consumer
  <2>2. CreatesIn' /\ Task' = Task
    BY <1>0, <1>a, <2>1 DEF CreatesIn, Pending, Proved!Dropped, Task
  <2> QED  BY <1>0, <1>a, <2>1, <2>2
<1> QED
  BY <1>1, <1>2, <1>3, <1>4, <1>5, <1>6, <1>7, <1>8, <1>9, <1>10
  DEF Next, Service

(* The first create of a name wins, for any topic, users and restarts: once  *)
(* the service caught up, without a fault of the database, an INSERT of      *)
(* another meaning or a message dropped by a death, the table has a row for  *)
(* each name that was created, however it was spelled later: the one its     *)
(* first create asked for.                                                   *)
THEOREM FirstCreatesWin == Spec => []FirstCreateWins
<1>1. Init => WinInv
  BY DEF Init, Loop!Init, WinInv, RowsOfFirst, CreatesIn, OneRowEach
<1>2. WinInv /\ LoopFacts /\ OffsetFacts => FirstCreateWins
  <2> SUFFICES ASSUME WinInv, LoopFacts, OffsetFacts,
                      pos = Len(log), inHand = 0, Loop!Dropped = {}, faults = 0,
                      CreatesLiteral
               PROVE  /\ Range(users) = {RowFor(i) : i \in FirstCreates}
                      /\ OneRowEach
    BY DEF FirstCreateWins, RowFor, OneRowEach
  <2>1. Proved!Dropped = {} /\ ~Proved!Gone
    BY DEF Loop!Dropped, Proved!Dropped, Proved!Gone
  <2>2. RowsOfFirst /\ CreatesIn /\ OneRowEach
    BY <2>1 DEF WinInv
  <2>3. \A i \in 1..Len(log) : i \in handed /\ ~Pending(i)
    BY DEF OffsetFacts, Proved!IInv, Proved!Offsets, Pending
  <2>4. \A r \in Range(users) : \E i \in FirstCreates : r = RowFor(i)
    BY <2>2 DEF RowsOfFirst, Range
  <2>5. ASSUME NEW i \in FirstCreates PROVE RowFor(i) \in Range(users)
    <3>1. i \in 1..Len(log) /\ Creating(log[i])
      BY DEF FirstCreates, LoopFacts
    <3>2. PICK k \in DOMAIN users : SameName(users[k].user, log[i].user)
      BY <2>1, <2>2, <2>3, <3>1 DEF CreatesIn, RowsOf
    <3>3. PICK j \in FirstCreates : users[k] = RowFor(j)
      BY <2>2 DEF RowsOfFirst
    <3>4. j \in 1..Len(log) /\ Creating(log[j])
          /\ SameName(log[j].user, log[i].user)
      BY <3>2, <3>3 DEF FirstCreates, LoopFacts, RowFor, Credentials
    <3>5. i = j
      BY <3>1, <3>4 DEF FirstCreates, LoopFacts, SameName
    <3> QED  BY <3>3, <3>5 DEF Range
  <2> QED  BY <2>2, <2>4, <2>5
<1> QED
  BY <1>1, <1>2, WinStep, LoopFactsHold, OffsetFactsHold, TypeInvHolds, PTL
  DEF Spec
=============================================================================
