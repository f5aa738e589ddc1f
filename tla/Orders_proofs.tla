---------------------------- MODULE Orders_proofs ----------------------------
(***************************************************************************)
(* Proofs about the orders service.  It is a consumer loop, so what is     *)
(* proved of one holds of it (ImplementsLoop, ConsumerInv).  The rest is   *)
(* about the one order in hand, its run and its delivery thread (TypeInv): *)
(* what the topics have seen of the runs, in order (OrderInv), how often   *)
(* an order was played and is still going to be (RunsPaid), and what the   *)
(* runs that are over lack (PaidInv).                                      *)
(***************************************************************************)
EXTENDS Orders, FiniteSetTheorems, TLAPS

Proved == INSTANCE KafkaConsumer_proofs

(* The bounds of the service are what the consumer loop asks of its own.     *)
LEMMA ConsumerBounds == Proved!ConsumerAssumption
BY OrdersAssumption DEF Proved!ConsumerAssumption, Poison

(* Loop and Proved are the same instance, read with and without proofs.    *)
LEMMA SameConsumer ==
  /\ Loop!TypeOK <=> Proved!TypeOK
  /\ Loop!TypeOK' <=> Proved!TypeOK'
  /\ Loop!Init <=> Proved!Init
  /\ [Loop!Next]_(Loop!vars) <=> [Proved!Next]_(Proved!vars)
<1>1. /\ Loop!TypeOK <=> Proved!TypeOK
      /\ Loop!TypeOK' <=> Proved!TypeOK'
      /\ Loop!Init <=> Proved!Init
  BY DEF Loop!TypeOK, Proved!TypeOK, Loop!Init, Proved!Init
<1>2. Loop!Next <=> Proved!Next
  BY DEF Loop!Next, Loop!Publish, Loop!Loop, Loop!Poll, Loop!Finish,
         Loop!Throw, Loop!Crash, Loop!Die, Loop!AutoCommit, Loop!Rebalance,
         Loop!Restart, Loop!broker, Loop!history,
         Proved!Next, Proved!Publish, Proved!Loop, Proved!Poll,
         Proved!Finish, Proved!Throw, Proved!Crash, Proved!Die,
         Proved!AutoCommit, Proved!Rebalance, Proved!Restart,
         Proved!broker, Proved!history
<1>3. UNCHANGED Loop!vars <=> UNCHANGED Proved!vars
  BY DEF Loop!vars, Loop!broker, Loop!history,
         Proved!vars, Proved!broker, Proved!history
<1> QED  BY <1>1, <1>2, <1>3

(* Each step of the service is a step of the loop or leaves it alone: the    *)
(* handler runs between Poll and Finish and changes nothing of the consumer. *)
LEMMA LoopStep == [Next]_vars => [Loop!Next]_(Loop!vars)
<1> SUFFICES ASSUME [Next]_vars PROVE Loop!Next \/ UNCHANGED Loop!vars
  OBVIOUS
<1>1. CASE Receive \/ Finish \/ Throw \/ Crash \/ Environment
  BY <1>1 DEF Receive, Finish, Throw, Crash, Environment, Loop!Next, Loop!Loop
<1>2. UNCHANGED consumer => UNCHANGED Loop!vars
  BY DEF consumer, Loop!vars, Loop!broker, Loop!history
<1>3. CASE Clear \/ UpdateOrders \/ Join \/ Email \/ Ignore
             \/ (\E d \in deliveries : Deliver(d)) \/ UNCHANGED vars
  BY <1>2, <1>3 DEF Clear, UpdateOrders, Join, Email, Ignore, Deliver, vars
<1> QED  BY <1>1, <1>3 DEF Next, Service

(* The service is a consumer loop.                                           *)
THEOREM ImplementsLoop == Spec => Loop!Spec
<1>1. Init => Loop!Init
  BY DEF Init
<1> QED  BY <1>1, LoopStep, PTL DEF Spec, Loop!Spec

(* so it keeps what was proved of one.                                       *)
LEMMA ConsumerInv == Spec => []Proved!IInv
<1>1. Loop!Spec => Proved!Spec
  BY SameConsumer, PTL DEF Loop!Spec, Proved!Spec
<1>2. Proved!Spec => []Proved!IInv
  BY ConsumerBounds, Proved!Inductive, PTL
<1> QED  BY <1>1, <1>2, ImplementsLoop, PTL

(* No order is handled before an earlier one or skipped by a commit; a death *)
(* of the service drops one order at most, and none that a commit has passed *)
(* comes back; what cannot be parsed is passed by a commit alone.            *)
THEOREM ConsumerPromises ==
  Spec => /\ [](/\ Loop!HandedInOrder /\ Loop!NothingSkipped
                /\ Loop!LossBound /\ Loop!OnlyCommitPassesPoison)
          /\ Loop!LostForGood
<1>1. Loop!Spec => Proved!Spec
  BY SameConsumer, PTL DEF Loop!Spec, Proved!Spec
<1>2. Proved!Spec => []Proved!Promises /\ Proved!LostForGood
  BY ConsumerBounds, Proved!PromisesHold, Proved!LossIsForGood, PTL
<1>3. Proved!Promises => /\ Loop!HandedInOrder /\ Loop!NothingSkipped
                         /\ Loop!LossBound /\ Loop!OnlyCommitPassesPoison
  <2>1. Proved!LossBound => Loop!LossBound
    <3>1. \A S : Proved!Cardinality(S) = Loop!Cardinality(S)
      BY DEF Proved!Cardinality, Loop!Cardinality
    <3> QED  BY <3>1 DEF Proved!LossBound, Proved!Dropped, Loop!LossBound,
                         Loop!Dropped
  <2> QED  BY <2>1 DEF Proved!Promises, Proved!HandedInOrder,
                       Proved!NothingSkipped, Proved!OnlyCommitPassesPoison,
                       Loop!HandedInOrder, Loop!NothingSkipped,
                       Loop!OnlyCommitPassesPoison
<1>4. [Proved!Lost \subseteq Proved!Lost']_(Proved!vars) =>
         [Loop!Lost \subseteq Loop!Lost']_(Loop!vars)
  BY DEF Proved!Lost, Proved!Dropped, Proved!vars, Proved!broker, Proved!history,
         Loop!Lost, Loop!Dropped, Loop!vars, Loop!broker, Loop!history
<1> QED  BY <1>1, <1>2, <1>3, <1>4, ImplementsLoop, PTL
         DEF Proved!LostForGood, Loop!LostForGood

-----------------------------------------------------------------------------
(* The handler's stage against the message in hand: between Poll and Finish  *)
(* the service lives and has not completed it, and from the clear on the     *)
(* latest run is the run of this message.                                    *)
InHand ==
    /\ stage = "idle" <=> inHand = 0
    /\ inHand # 0 => up /\ inHand \notin completed
    /\ stage \in {"cleared", "join"} => log[inHand] = "update"
    /\ (stage \in {"cleared", "join", "end"} /\ log[inHand] = "update") =>
          runs # <<>> /\ runs[Len(runs)] = inHand

(* The deliveries alive are one, of the latest run, that the handler joins.  *)
Playing ==
    /\ \A d \in deliveries : d.run = Len(runs) /\ stage = "join"
    /\ \A d, e \in deliveries : d = e

TypeInv == TypeOK /\ InHand /\ Playing

(* A sequence over a set is one over any larger set.                         *)
LEMMA SeqWiden ==
  ASSUME NEW S, NEW T, S \subseteq T, NEW s \in Seq(S)
  PROVE  s \in Seq(T)
OBVIOUS

(* What a send leaves in the topics: the message is there once, twice or not *)
(* at all, behind everything older.                                          *)
LEMMA ProduceStep ==
  ASSUME NEW run, NEW step, NEW T, sent \in Seq(T), <<run, step>> \in T,
         faults \in 0..MaxFaults, Produce(run, step)
  PROVE  /\ sent' \in Seq(T)
         /\ faults' \in 0..MaxFaults
         /\ Len(sent) <= Len(sent') /\ Len(sent) \in Nat /\ Len(sent') \in Nat
         /\ \A a \in 1..Len(sent) : sent'[a] = sent[a]
         /\ \A a \in 1..Len(sent') : a > Len(sent) => sent'[a] = <<run, step>>
         /\ \/ faults' = faults /\ Len(sent') > Len(sent)
            \/ faults' = faults + 1
<1> DEFINE m == <<run, step>>
<1>0. m \in T /\ <<m, m>> \in Seq(T) /\ Len(<<m, m>>) = 2
      /\ <<m, m>>[1] = m /\ <<m, m>>[2] = m
  OBVIOUS
<1> HIDE DEF m
<1> USE OrdersAssumption
<1>1. CASE sent' = Append(sent, m) /\ UNCHANGED faults
  <2>1. /\ sent' \in Seq(T) /\ Len(sent') = Len(sent) + 1
        /\ sent'[Len(sent) + 1] = m
        /\ \A a \in 1..Len(sent) : sent'[a] = sent[a]
    BY <1>0, <1>1
  <2> QED  BY <2>1, <1>1 DEF m
<1>2. CASE /\ faults < MaxFaults /\ faults' = faults + 1
           /\ sent' = sent
  BY <1>0, <1>2 DEF m
<1>3. CASE /\ faults < MaxFaults /\ faults' = faults + 1
           /\ sent' = sent \o <<m, m>>
  <2>1. /\ sent' \in Seq(T) /\ Len(sent') = Len(sent) + 2
        /\ \A a \in 1..Len(sent) : sent'[a] = sent[a]
        /\ \A a \in 1..Len(sent') : a > Len(sent) => sent'[a] = <<m, m>>[a - Len(sent)]
    BY <1>0, <1>3
  <2> QED  BY <2>1, <1>0, <1>3 DEF m
<1> QED  BY <1>1, <1>2, <1>3 DEF Produce, m

(* What these proofs use of the consumer.                                    *)
LoopFacts ==
    /\ Loop!TypeOK
    /\ log \in Seq(Messages) /\ Len(log) \in Nat
    /\ inHand \in 0..Len(log) /\ pos \in 0..Len(log)
    /\ handed \subseteq 1..Len(log) /\ completed \subseteq handed
    /\ inHand # 0 => inHand \in handed /\ up
    /\ up \in BOOLEAN /\ restarts \in Nat /\ rebalances \in Nat

(* The service keeps them, as any consumer loop does.                        *)
LEMMA LoopFactsHold == Spec => []LoopFacts
<1>1. Proved!IInv => LoopFacts
  BY SameConsumer, OrdersAssumption
  DEF Proved!IInv, Proved!TypeOK, Proved!Offsets, LoopFacts
<1> QED  BY <1>1, ConsumerInv, PTL

(* What happens around the service touches neither its handler nor what it   *)
(* has sent, and only appends to the topic.                                  *)
LEMMA EnvironmentStep ==
  ASSUME LoopFacts, Environment
  PROVE  /\ UNCHANGED <<stage, deliveries, runs, sent, mailed, faults, inHand,
                        handed, completed>>
         /\ Len(log) <= Len(log')
         /\ \A i \in 1..Len(log) : log'[i] = log[i]
         /\ up => up'
<1>1. UNCHANGED <<stage, deliveries, runs, sent, mailed, faults>>
  BY DEF Environment, output
<1>2. ASSUME NEW m \in Messages, Loop!Publish(m)
      PROVE  /\ UNCHANGED <<inHand, handed, completed, up>>
             /\ Len(log) <= Len(log')
             /\ \A i \in 1..Len(log) : log'[i] = log[i]
  BY <1>2 DEF Loop!Publish, Loop!history, LoopFacts
<1>3. ASSUME Loop!AutoCommit \/ Loop!Rebalance \/ Loop!Restart
      PROVE  UNCHANGED <<log, inHand, handed, completed>> /\ (up => up')
  BY <1>3 DEF Loop!AutoCommit, Loop!Rebalance, Loop!Restart, Loop!broker,
              Loop!history, LoopFacts
<1> QED  BY <1>1, <1>2, <1>3 DEF Environment, LoopFacts

(* Every step keeps the types, the message in hand and the one delivery.     *)
LEMMA TypeStep == LoopFacts /\ LoopFacts' /\ TypeInv /\ [Next]_vars => TypeInv'
<1> SUFFICES ASSUME LoopFacts, LoopFacts', TypeInv, [Next]_vars
             PROVE  TypeInv'
  OBVIOUS
<1> USE OrdersAssumption DEF TypeInv, TypeOK, InHand, Playing
<1>0. /\ Len(runs) \in Nat
      /\ LastStep \in Nat /\ LastStep >= 2
  BY DEF LastStep
<1>1. CASE Receive
  BY <1>0, <1>1 DEF Receive, Loop!Poll, Loop!broker, output, LoopFacts
<1>2. CASE Clear
  <2>1. /\ inHand \in 1..Len(log) /\ UNCHANGED <<log, inHand, up, completed,
                                             handed, deliveries, mailed>>
        /\ deliveries = {} /\ stage' = "cleared"
    BY <1>2 DEF Clear, AtBegin, consumer, LoopFacts
  <2>2. /\ runs' \in Seq(1..Len(log')) /\ Len(runs') = Len(runs) + 1
        /\ runs'[Len(runs')] = inHand
    BY <2>1, <1>2, <1>0 DEF Clear
  <2>3. sent' \in Seq((1..Len(runs')) \X (0..LastStep)) /\ faults' \in 0..MaxFaults
    <3> DEFINE T == (1..Len(runs')) \X (0..LastStep)
    <3>0. /\ (1..Len(runs)) \X (0..LastStep) \subseteq T
          /\ sent \in Seq((1..Len(runs)) \X (0..LastStep))
      BY <1>0, <2>2
    <3>1. sent \in Seq(T) /\ <<Len(runs'), 0>> \in T
      BY <1>0, <2>2, <3>0, SeqWiden
    <3>2. Produce(Len(runs'), 0)
      BY <1>2 DEF Clear
    <3> HIDE DEF T
    <3>3. sent' \in Seq(T) /\ faults' \in 0..MaxFaults
      BY <3>1, <3>2, ProduceStep
    <3> QED  BY <3>3 DEF T
  <2>4. log[inHand] = "update" /\ up /\ stage = "begin"
    BY <1>2 DEF Clear, AtBegin
  <2>5. TypeOK'
    BY <2>1, <2>2, <2>3 DEF LoopFacts
  <2>6. InHand' /\ Playing'
    BY <2>1, <2>2, <2>4
  <2> QED  BY <2>5, <2>6
<1>3. CASE UpdateOrders
  BY <1>0, <1>3 DEF UpdateOrders, consumer, output, Thread, LoopFacts
<1>4. CASE Join \/ Ignore
  BY <1>0, <1>4 DEF Join, Ignore, AtBegin, consumer, output, LoopFacts
<1>5. CASE Email
  BY <1>0, <1>5 DEF Email, AtBegin, consumer, LoopFacts
<1>6. CASE Finish
  BY <1>0, <1>6 DEF Finish, Loop!Finish, Loop!broker, output, LoopFacts
<1>7. CASE Throw \/ Crash
  BY <1>0, <1>7 DEF Throw, Crash, Loop!Throw, Loop!Crash, Loop!Die, Stop,
                    Loop!broker, Loop!history, output, LoopFacts
<1>8. ASSUME NEW d \in deliveries, Deliver(d) PROVE TypeInv'
  <2>1. UNCHANGED <<log, inHand, up, completed, handed, stage, runs, mailed>>
    BY <1>8 DEF Deliver, consumer
  <2>2. /\ d \in [run : 1..Len(runs), step : 1..LastStep]
        /\ deliveries = {d} /\ d.run = Len(runs) /\ stage = "join"
    BY <1>8
  <2>3. deliveries' = IF d.step = LastStep THEN {}
                      ELSE {[run |-> d.run, step |-> d.step + 1]}
    BY <1>8, <2>2 DEF Deliver, Thread
  <2>4. sent' \in Seq((1..Len(runs)) \X (0..LastStep)) /\ faults' \in 0..MaxFaults
    <3> DEFINE T == (1..Len(runs)) \X (0..LastStep)
    <3>1. sent \in Seq(T) /\ <<d.run, d.step>> \in T
      BY <1>0, <2>2
    <3>2. Produce(d.run, d.step)
      BY <1>8 DEF Deliver
    <3> HIDE DEF T
    <3>3. sent' \in Seq(T) /\ faults' \in 0..MaxFaults
      BY <3>1, <3>2, ProduceStep
    <3> QED  BY <3>3 DEF T
  <2>5. deliveries' \subseteq [run : 1..Len(runs), step : 1..LastStep]
    BY <1>0, <2>2, <2>3
  <2>6. TypeOK'
    BY <2>1, <2>4, <2>5 DEF LoopFacts
  <2>7. InHand'
    BY <2>1
  <2>8. Playing'
    <3>1. \A e \in deliveries' : e.run = d.run
      BY <2>3
    <3>2. \A e, f \in deliveries' : e = f
      BY <2>3
    <3> HIDE DEF TypeInv, TypeOK, InHand
    <3> QED  BY <2>1, <2>2, <3>1, <3>2
  <2> HIDE DEF TypeOK, InHand, Playing
  <2> QED  BY <2>6, <2>7, <2>8
<1>9. CASE Environment
  <2>1. /\ UNCHANGED <<stage, deliveries, runs, sent, mailed, faults, inHand,
                       handed, completed>>
        /\ Len(log) <= Len(log') /\ (up => up')
        /\ \A i \in 1..Len(log) : log'[i] = log[i]
    BY <1>9, EnvironmentStep
  <2>2. runs' \in Seq(1..Len(log'))
    BY <2>1 DEF LoopFacts
  <2> QED  BY <1>0, <2>1, <2>2 DEF LoopFacts
<1>10. CASE UNCHANGED vars
  BY <1>0, <1>10 DEF vars, consumer, output, LoopFacts
<1> QED
  BY <1>1, <1>2, <1>3, <1>4, <1>5, <1>6, <1>7, <1>8, <1>9, <1>10
  DEF Next, Service

(* The types, and the stage against the message and the thread, hold in      *)
(* every state.                                                              *)
LEMMA TypeInvHolds == Spec => []TypeInv
<1>1. Init /\ LoopFacts => TypeInv
  BY OrdersAssumption
  DEF Init, Loop!Init, LoopFacts, TypeInv, TypeOK, InHand, Playing
<1> QED  BY <1>1, TypeStep, LoopFactsHold, PTL DEF Spec

(* The types hold for any set of messages and any bounds: a delivery belongs *)
(* to a run that was started, and what was sent to a run and a step of it.   *)
THEOREM TypeCorrect == Spec => []TypeOK
<1>1. TypeInv => TypeOK
  BY DEF TypeInv
<1> QED  BY <1>1, TypeInvHolds, PTL

-----------------------------------------------------------------------------
(* What the latest run has sent lies behind the step it is at.               *)
SentBehind ==
    \A a \in DOMAIN sent : sent[a][1] = Len(runs) =>
        /\ stage = "cleared" => sent[a][2] = 0
        /\ \A d \in deliveries : sent[a][2] < d.step

OrderInv == DeliveriesInOrder /\ SentBehind

(* A send that is not before the last keeps the topics in order.             *)
LEMMA ProduceInOrder ==
  ASSUME TypeInv, DeliveriesInOrder, NEW run \in Nat, NEW step \in 0..LastStep,
         Produce(run, step),
         \A a \in DOMAIN sent : \/ sent[a][1] < run
                                \/ sent[a][1] = run /\ sent[a][2] <= step
  PROVE  /\ DeliveriesInOrder'
         /\ \A a \in DOMAIN sent' :
               \/ a \in DOMAIN sent /\ sent'[a] = sent[a]
               \/ sent'[a][1] = run /\ sent'[a][2] = step
<1> DEFINE T == Nat \X (0..LastStep)
<1>1. sent \in Seq(T) /\ <<run, step>> \in T
  <2>1. (1..Len(runs)) \X (0..LastStep) \subseteq T
    OBVIOUS
  <2> QED  BY <2>1, SeqWiden DEF TypeInv, TypeOK
<1>2. faults \in 0..MaxFaults
  BY DEF TypeInv, TypeOK
<1> HIDE DEF T
<1>3. /\ sent' \in Seq(T) /\ Len(sent) \in Nat /\ Len(sent') \in Nat
      /\ Len(sent) <= Len(sent')
      /\ \A a \in 1..Len(sent) : sent'[a] = sent[a]
      /\ \A a \in 1..Len(sent') : a > Len(sent) => sent'[a] = <<run, step>>
  BY <1>1, <1>2, ProduceStep
<1>4. DOMAIN sent = 1..Len(sent) /\ DOMAIN sent' = 1..Len(sent')
  BY <1>1, <1>3
<1>5. \A a \in 1..Len(sent') :
         /\ a \in 1..Len(sent) => sent'[a] = sent[a]
         /\ a \notin 1..Len(sent) =>
               sent'[a][1] = run /\ sent'[a][2] = step
  <2> SUFFICES ASSUME NEW a \in 1..Len(sent'), a \notin 1..Len(sent)
               PROVE  sent'[a][1] = run /\ sent'[a][2] = step
    BY <1>3
  <2>1. a > Len(sent)
    BY <1>3
  <2>2. sent'[a] = <<run, step>>
    BY <1>3, <2>1
  <2> QED  BY <2>2
<1> USE DEF T
<1>6. DeliveriesInOrder'
  <2> SUFFICES ASSUME NEW a \in DOMAIN sent', NEW b \in DOMAIN sent', a < b
               PROVE  \/ sent'[a][1] < sent'[b][1]
                      \/ sent'[a][1] = sent'[b][1] /\ sent'[a][2] <= sent'[b][2]
    BY DEF DeliveriesInOrder
  <2>1. CASE b \in 1..Len(sent)
    <3>1. a \in DOMAIN sent /\ b \in DOMAIN sent
      BY <1>3, <1>4, <2>1
    <3>2. sent'[a] = sent[a] /\ sent'[b] = sent[b]
      BY <1>4, <1>5, <3>1
    <3> QED  BY <3>1, <3>2 DEF DeliveriesInOrder
  <2>2. CASE b \notin 1..Len(sent) /\ a \in 1..Len(sent)
    BY <1>4, <1>5, <2>2
  <2>3. CASE a \notin 1..Len(sent)
    <3>1. b \notin 1..Len(sent)
      BY <1>3, <1>4, <2>3
    <3>2. step \in Nat
      BY OrdersAssumption DEF LastStep
    <3> QED  BY <1>4, <1>5, <2>3, <3>1, <3>2
  <2> QED  BY <2>1, <2>2, <2>3
<1> QED  BY <1>4, <1>5, <1>6

(* A new run starts behind all others, and its steps come one by one.        *)
LEMMA OrderStep ==
  LoopFacts /\ TypeInv /\ OrderInv /\ [Next]_vars => OrderInv'
<1> SUFFICES ASSUME LoopFacts, TypeInv, OrderInv, [Next]_vars
             PROVE  OrderInv'
  OBVIOUS
<1>0. /\ Len(runs) \in Nat /\ LastStep \in Nat /\ LastStep >= 2
      /\ \A a \in DOMAIN sent : sent[a][1] \in 1..Len(runs)
                                /\ sent[a][2] \in 0..LastStep
  <2>1. Len(runs) \in Nat /\ LastStep \in Nat /\ LastStep >= 2
    BY OrdersAssumption DEF TypeInv, TypeOK, LastStep
  <2>2. \A a \in DOMAIN sent : sent[a] \in (1..Len(runs)) \X (0..LastStep)
    BY DEF TypeInv, TypeOK
  <2> QED  BY <2>1, <2>2
<1>1. CASE Clear
  <2>1. /\ Len(runs') = Len(runs) + 1 /\ UNCHANGED deliveries
        /\ deliveries = {} /\ Produce(Len(runs'), 0)
    BY <1>1 DEF Clear, AtBegin, TypeInv, TypeOK, InHand, Playing, LoopFacts
  <2>2. \A a \in DOMAIN sent : sent[a][1] < Len(runs')
    BY <1>0, <2>1
  <2>3. /\ DeliveriesInOrder'
        /\ \A a \in DOMAIN sent' :
               \/ a \in DOMAIN sent /\ sent'[a] = sent[a]
               \/ sent'[a][1] = Len(runs') /\ sent'[a][2] = 0
    <3>1. Len(runs') \in Nat /\ 0 \in 0..LastStep
      BY <1>0, <2>1
    <3>2. \A a \in DOMAIN sent : \/ sent[a][1] < Len(runs')
                                 \/ sent[a][1] = Len(runs') /\ sent[a][2] <= 0
      BY <2>2
    <3> QED  BY <2>1, <3>1, <3>2, ProduceInOrder DEF OrderInv
  <2> QED
    BY <1>0, <2>1, <2>2, <2>3 DEF OrderInv, SentBehind
<1>2. CASE UpdateOrders
  <2>1. /\ UNCHANGED <<sent, runs>> /\ stage = "cleared" /\ stage' = "join"
        /\ deliveries' = {[run |-> Len(runs), step |-> 1]}
    BY <1>2 DEF UpdateOrders, Thread, output, TypeInv, Playing
  <2> QED  BY <1>0, <2>1 DEF OrderInv, SentBehind, DeliveriesInOrder
<1>3. ASSUME NEW d \in deliveries, Deliver(d) PROVE OrderInv'
  <2>1. /\ d.run = Len(runs) /\ d.step \in 1..LastStep /\ stage = "join"
        /\ \A e \in deliveries : e = d
    BY DEF TypeInv, TypeOK, Playing
  <2>2. /\ Produce(d.run, d.step) /\ UNCHANGED <<runs, stage>>
        /\ deliveries' \subseteq {[run |-> d.run, step |-> d.step + 1]}
    BY <1>3, <2>1 DEF Deliver, Thread
  <2>3. \A a \in DOMAIN sent : \/ sent[a][1] < d.run
                               \/ sent[a][1] = d.run /\ sent[a][2] < d.step
    <3> SUFFICES ASSUME NEW a \in DOMAIN sent, sent[a][1] = d.run
                 PROVE  sent[a][2] < d.step
      BY <1>0, <2>1
    <3> QED  BY <1>3, <2>1 DEF OrderInv, SentBehind
  <2>4. /\ DeliveriesInOrder'
        /\ \A a \in DOMAIN sent' :
               \/ a \in DOMAIN sent /\ sent'[a] = sent[a]
               \/ sent'[a][1] = d.run /\ sent'[a][2] = d.step
    <3>1. \A a \in DOMAIN sent : \/ sent[a][1] < d.run
                                 \/ sent[a][1] = d.run /\ sent[a][2] <= d.step
      BY <1>0, <2>1, <2>3
    <3>2. d.run \in Nat /\ d.step \in 0..LastStep
      BY <1>0, <2>1
    <3> QED  BY <2>2, <3>1, <3>2, ProduceInOrder DEF OrderInv
  <2> QED
    BY <1>0, <2>1, <2>2, <2>3, <2>4 DEF OrderInv, SentBehind
<1>4. CASE Throw \/ Crash
  BY <1>4 DEF Throw, Crash, Stop, output, OrderInv, SentBehind, DeliveriesInOrder
<1>5. CASE Receive \/ Join \/ Email \/ Ignore \/ Finish
  BY <1>5 DEF Receive, Join, Email, Ignore, Finish, AtBegin, output, OrderInv,
              SentBehind, DeliveriesInOrder
<1>6. CASE Environment
  BY <1>6, EnvironmentStep DEF OrderInv, SentBehind, DeliveriesInOrder
<1>7. CASE UNCHANGED vars
  BY <1>7 DEF vars, output, OrderInv, SentBehind, DeliveriesInOrder
<1> QED
  BY <1>1, <1>2, <1>3, <1>4, <1>5, <1>6, <1>7 DEF Next, Service

(* The topics see one delivery after the other and its stages in order,      *)
(* for any number of them and whatever is lost, sent twice or redone.        *)
THEOREM OneAfterTheOther == Spec => []DeliveriesInOrder
<1>1. Init => OrderInv
  BY DEF Init, OrderInv, SentBehind, DeliveriesInOrder
<1>2. OrderInv => DeliveriesInOrder
  BY DEF OrderInv
<1> QED
  BY <1>1, <1>2, OrderStep, LoopFactsHold, TypeInvHolds, PTL DEF Spec

-----------------------------------------------------------------------------
(* The times an order was played, and the times it is still going to be      *)
(* before the position goes back again.                                      *)
Turns(i) == {r \in DOMAIN runs : runs[r] = i}
Ahead(i) == IF i > pos THEN 1 ELSE 0
Pending(i) == IF stage = "begin" /\ inHand = i THEN 1 ELSE 0

RunsPaid ==
    \A i \in Nat \ {0} :
        Cardinality(Turns(i)) + Ahead(i) + Pending(i) <= 1 + restarts + rebalances

(* Turns are numbered, so they are finitely many.                            *)
LEMMA TurnsFinite ==
  ASSUME TypeInv, NEW i
  PROVE  IsFiniteSet(Turns(i)) /\ Cardinality(Turns(i)) \in Nat
<1>1. Turns(i) \in SUBSET (1..Len(runs)) /\ Len(runs) \in Int
  BY DEF Turns, TypeInv, TypeOK
<1>2. IsFiniteSet(1..Len(runs))
  BY <1>1, FS_Interval
<1> QED  BY <1>1, <1>2, FS_Subset, FS_CardinalityType

(* Only the clear of an update adds a turn, to the message in hand.          *)
LEMMA TurnsStep ==
  ASSUME LoopFacts, TypeInv, [Next]_vars, NEW i
  PROVE  \/ Clear /\ i = inHand /\ Turns(i)' = Turns(i) \cup {Len(runs) + 1}
         \/ Clear /\ i # inHand /\ Turns(i)' = Turns(i)
         \/ ~Clear /\ Turns(i)' = Turns(i)
<1>1. CASE Clear
  <2>1. /\ Len(runs') = Len(runs) + 1 /\ runs'[Len(runs) + 1] = inHand
        /\ \A r \in 1..Len(runs) : runs'[r] = runs[r]
        /\ DOMAIN runs = 1..Len(runs) /\ DOMAIN runs' = 1..(Len(runs) + 1)
        /\ Len(runs) \in Nat
    <3>1. runs \in Seq(Nat) /\ inHand \in Nat /\ runs' = Append(runs, inHand)
      BY <1>1, SeqWiden DEF Clear, TypeInv, TypeOK, LoopFacts
    <3> QED  BY <3>1
  <2>2. \A r : r \in Turns(i)' <=> r \in Turns(i) \/ (r = Len(runs) + 1 /\ i = inHand)
    BY <2>1 DEF Turns
  <2> QED  BY <1>1, <2>2
<1>2. CASE ~Clear
  <2>1. UNCHANGED runs
    BY <1>2, EnvironmentStep
    DEF Next, Service, Receive, UpdateOrders, Join, Email, Ignore, Finish, Throw,
        Crash, Stop, Deliver, vars, output
  <2> QED  BY <1>2, <2>1 DEF Turns
<1> QED  BY <1>1, <1>2

(* A turn is taken from what is pending, a poll makes pending what was ahead, *)
(* and only a restart or a rebalance puts a message ahead again.             *)
LEMMA RunsStep ==
  LoopFacts /\ LoopFacts' /\ TypeInv /\ RunsPaid /\ [Next]_vars => RunsPaid'
<1> SUFFICES ASSUME LoopFacts, LoopFacts', TypeInv, RunsPaid, [Next]_vars,
                    NEW i \in Nat \ {0}
             PROVE  (Cardinality(Turns(i)) + Ahead(i) + Pending(i)
                        <= 1 + restarts + rebalances)'
  BY DEF RunsPaid
<1> DEFINE c == Cardinality(Turns(i))
<1>0. /\ c \in Nat /\ c + Ahead(i) + Pending(i) <= 1 + restarts + rebalances
      /\ IsFiniteSet(Turns(i))
  BY TurnsFinite DEF RunsPaid
<1>1. CASE Clear
  <2>1. /\ UNCHANGED <<pos, inHand, restarts, rebalances>>
        /\ stage = "begin" /\ stage' = "cleared"
    BY <1>1 DEF Clear, AtBegin, consumer
  <2>2. CASE i = inHand
    <3>1. Turns(i)' = Turns(i) \cup {Len(runs) + 1}
      BY <1>1, <2>2, TurnsStep
    <3>2. /\ IsFiniteSet(Turns(i) \cup {Len(runs) + 1})
          /\ Cardinality(Turns(i) \cup {Len(runs) + 1}) \in {c, c + 1}
      BY <1>0, FS_AddElement
    <3>3. c' \in Nat /\ c' <= c + 1
      BY <1>0, <3>1, <3>2
    <3>4. /\ Ahead(i)' = Ahead(i) /\ Ahead(i) \in {0, 1}
          /\ Pending(i) = 1 /\ Pending(i)' = 0
      BY <2>1, <2>2 DEF Ahead, Pending, LoopFacts
    <3> HIDE DEF c
    <3>5. (c + Ahead(i) + Pending(i) <= 1 + restarts + rebalances)'
      BY <1>0, <2>1, <3>3, <3>4 DEF LoopFacts
    <3> QED  BY <3>5 DEF c
  <2>3. CASE i # inHand
    <3>1. c' = c
      BY <1>1, <2>3, TurnsStep
    <3> HIDE DEF c
    <3>2. (c + Ahead(i) + Pending(i) <= 1 + restarts + rebalances)'
      BY <1>0, <2>1, <2>3, <3>1 DEF Ahead, Pending, LoopFacts
    <3> QED  BY <3>2 DEF c
  <2> QED  BY <2>2, <2>3
<1>2. CASE ~Clear
  <2>1. c' = c
    BY <1>2, TurnsStep
  <2> SUFFICES (c + Ahead(i) + Pending(i) <= 1 + restarts + rebalances)'
    OBVIOUS
  <2> HIDE DEF c
  <2>2. CASE Receive
    BY <1>0, <2>1, <2>2
    DEF Receive, Loop!Poll, Loop!broker, Ahead, Pending, LoopFacts
  <2>3. CASE UpdateOrders \/ Join \/ Email \/ Ignore
    <3>1. UNCHANGED <<pos, restarts, rebalances>> /\ stage' # "begin"
      BY <2>3 DEF UpdateOrders, Join, Email, Ignore, consumer
    <3>2. /\ Ahead(i)' = Ahead(i) /\ Ahead(i) \in {0, 1}
          /\ Pending(i) \in {0, 1} /\ Pending(i)' = 0
      BY <3>1 DEF Ahead, Pending
    <3> QED  BY <1>0, <2>1, <3>1, <3>2 DEF LoopFacts
  <2>4. ASSUME NEW d \in deliveries, Deliver(d)
        PROVE  (c + Ahead(i) + Pending(i) <= 1 + restarts + rebalances)'
    BY <1>0, <2>1, <2>4 DEF Deliver, consumer, Ahead, Pending, LoopFacts
  <2>5. CASE Finish \/ Throw \/ Crash
    <3>1. UNCHANGED <<pos, restarts, rebalances>> /\ stage' # "begin"
      BY <2>5 DEF Finish, Throw, Crash, Stop, Loop!Finish, Loop!Throw, Loop!Crash,
                  Loop!Die, Loop!broker, Loop!history
    <3>2. /\ Ahead(i)' = Ahead(i) /\ Ahead(i) \in {0, 1}
          /\ Pending(i) \in {0, 1} /\ Pending(i)' = 0
      BY <3>1 DEF Ahead, Pending
    <3> QED  BY <1>0, <2>1, <3>1, <3>2 DEF LoopFacts
  <2>6. ASSUME NEW m \in Messages, Loop!Publish(m), UNCHANGED stage
        PROVE  (c + Ahead(i) + Pending(i) <= 1 + restarts + rebalances)'
    BY <1>0, <2>1, <2>6 DEF Loop!Publish, Ahead, Pending, LoopFacts
  <2>7. CASE (Loop!AutoCommit \/ Loop!Rebalance \/ Loop!Restart) /\ UNCHANGED stage
    <3>1. Pending(i)' = Pending(i) /\ Pending(i) \in {0, 1}
          /\ Ahead(i) \in {0, 1} /\ Ahead(i)' \in {0, 1}
      BY <2>7 DEF Loop!AutoCommit, Loop!Rebalance, Loop!Restart, Loop!broker,
                  Ahead, Pending
    <3>2. CASE Loop!AutoCommit
      <4>1. Ahead(i)' = Ahead(i) /\ UNCHANGED <<restarts, rebalances>>
        BY <3>2 DEF Loop!AutoCommit, Ahead
      <4> QED  BY <1>0, <2>1, <3>1, <4>1 DEF LoopFacts
    <3>3. CASE Loop!Rebalance \/ Loop!Restart
      <4>1. \/ restarts' = restarts /\ rebalances' = rebalances + 1
            \/ restarts' = restarts + 1 /\ rebalances' = rebalances
        BY <3>3 DEF Loop!Rebalance, Loop!Restart
      <4>2. restarts \in Nat /\ rebalances \in Nat
        BY DEF LoopFacts
      <4> QED  BY <1>0, <2>1, <3>1, <4>1, <4>2
    <3> QED  BY <2>7, <3>2, <3>3
  <2>8. CASE UNCHANGED vars
    BY <1>0, <2>1, <2>8 DEF vars, consumer, Ahead, Pending, LoopFacts
  <2> QED
    BY <1>2, <2>2, <2>3, <2>4, <2>5, <2>6, <2>7, <2>8
    DEF Next, Service, Environment
<1> QED  BY <1>1, <1>2

(* An order is played once, and once more at most for each time a restart or *)
(* a rebalance went back to an older offset.                                 *)
THEOREM RunsAreBounded == Spec => []RunBound
<1>1. Init => RunsPaid
  <2> SUFFICES ASSUME Init, NEW i \in Nat \ {0}
               PROVE  Cardinality(Turns(i)) + Ahead(i) + Pending(i)
                         <= 1 + restarts + rebalances
    BY DEF RunsPaid
  <2>1. Turns(i) = {}
    BY DEF Init, Turns
  <2> QED  BY <2>1, FS_EmptySet DEF Init, Loop!Init, Ahead, Pending
<1>2. RunsPaid /\ LoopFacts /\ TypeInv => RunBound
  <2> SUFFICES ASSUME RunsPaid, LoopFacts, TypeInv, NEW i \in handed
               PROVE  Cardinality(Turns(i)) <= 1 + restarts + rebalances
    BY DEF RunBound, Turns
  <2>1. i \in Nat \ {0} /\ Cardinality(Turns(i)) \in Nat
    BY TurnsFinite DEF LoopFacts
  <2> QED  BY <2>1 DEF RunsPaid, Ahead, Pending, LoopFacts
<1> QED
  BY <1>1, <1>2, RunsStep, LoopFactsHold, TypeInvHolds, PTL DEF Spec

-----------------------------------------------------------------------------
(* r is the latest run of the order at offset i.                             *)
Latest(i, r) ==
    r \in DOMAIN runs /\ runs[r] = i /\ \A q \in DOMAIN runs : runs[q] = i => q <= r

(* An order that was completed has been played.                              *)
CompletedPlayed ==
    \A i \in completed : log[i] = "update" => \E r \in DOMAIN runs : Latest(i, r)

Done(r) == \E i \in completed : log[i] = "update" /\ Latest(i, r)

(* The step lies behind the one that the order in hand is at.                *)
Over(step) ==
    \/ stage = "cleared" /\ step = 0
    \/ stage = "join" /\ \A d \in deliveries : step < d.step
    \/ stage = "end" /\ log[inHand] = "update"

(* The steps that orders done with, and the one in hand so far, lack.        *)
Owed ==
    {p \in (1..Len(runs)) \X (0..LastStep) :
        /\ p \notin Range(sent)
        /\ Done(p[1]) \/ (p[1] = Len(runs) /\ Over(p[2]))}

PaidInv == CompletedPlayed /\ Cardinality(Owed) <= faults

(* The latest run is one: LatestRun chooses it.                              *)
LEMMA LatestChosen ==
  ASSUME TypeInv, NEW i, NEW r, Latest(i, r)
  PROVE  LatestRun(i) = r
<1> DEFINE P(x) == runs[x] = i /\ \A q \in DOMAIN runs : runs[q] = i => q <= x
<1>1. r \in DOMAIN runs /\ P(r)
  BY DEF Latest
<1>2. ASSUME NEW x \in DOMAIN runs, P(x) PROVE x = r
  BY <1>1, <1>2 DEF TypeInv, TypeOK
<1> HIDE DEF P
<1>3. (CHOOSE x \in DOMAIN runs : P(x)) = r
  BY <1>1, <1>2
<1> QED  BY <1>3 DEF LatestRun, P

(* An append of an order that was not completed leaves the latest runs of    *)
(* the completed ones as they are.                                           *)
LEMMA LatestStep ==
  ASSUME LoopFacts, TypeInv, Clear, NEW i \in completed, NEW r
  PROVE  Latest(i, r)' <=> Latest(i, r)
<1>1. i # inHand
  BY DEF Clear, AtBegin, TypeInv, InHand, LoopFacts
<1>2. /\ Len(runs') = Len(runs) + 1 /\ runs'[Len(runs) + 1] = inHand
      /\ \A q \in 1..Len(runs) : runs'[q] = runs[q]
      /\ DOMAIN runs = 1..Len(runs) /\ DOMAIN runs' = 1..(Len(runs) + 1)
      /\ Len(runs) \in Nat
  <2>1. runs \in Seq(Nat) /\ inHand \in Nat /\ runs' = Append(runs, inHand)
    BY SeqWiden DEF Clear, TypeInv, TypeOK, LoopFacts
  <2> QED  BY <2>1
<1> QED  BY <1>1, <1>2 DEF Latest

(* Every step keeps the runs of what is completed; a completed order was in  *)
(* hand last, and the latest run was its own.                                *)
LEMMA PlayedStep ==
  LoopFacts /\ TypeInv /\ CompletedPlayed /\ [Next]_vars => CompletedPlayed'
<1> SUFFICES ASSUME LoopFacts, TypeInv, CompletedPlayed, [Next]_vars
             PROVE  CompletedPlayed'
  OBVIOUS
<1>1. CASE Clear
  BY <1>1, LatestStep DEF Clear, consumer, CompletedPlayed, Latest
<1>2. CASE Finish
  <2>1. /\ UNCHANGED <<log, runs>> /\ completed' = completed \cup {inHand}
        /\ stage = "end"
    BY <1>2 DEF Finish, Loop!Finish, Loop!broker, output
  <2>2. log[inHand] = "update" => Latest(inHand, Len(runs))
    BY <2>1 DEF TypeInv, TypeOK, InHand, Latest
  <2> QED
    BY <2>1, <2>2 DEF CompletedPlayed, Latest
<1>3. CASE Environment
  BY <1>3, EnvironmentStep DEF CompletedPlayed, Latest, LoopFacts
<1>4. CASE ~(Clear \/ Finish \/ Environment)
  <2>1. UNCHANGED <<log, runs>> /\ completed' \subseteq completed
    BY <1>4
    DEF Next, Service, Receive, UpdateOrders, Join, Email, Ignore, Throw, Crash,
        Stop, Deliver, Loop!Poll, Loop!Throw, Loop!Crash, Loop!Die, Loop!broker,
        Loop!history, consumer, output, vars
  <2> QED  BY <2>1 DEF CompletedPlayed, Latest
<1> QED  BY <1>1, <1>2, <1>3, <1>4

(* A send keeps what the topics have, and adds its message or costs a fault. *)
LEMMA ProduceAdds ==
  ASSUME TypeInv, NEW run \in Nat, NEW step \in 0..LastStep, Produce(run, step)
  PROVE  /\ Range(sent) \subseteq Range(sent')
         /\ \/ faults' = faults /\ <<run, step>> \in Range(sent')
            \/ faults' = faults + 1
<1> DEFINE T == Nat \X (0..LastStep)
<1>1. sent \in Seq(T) /\ <<run, step>> \in T
  <2>1. (1..Len(runs)) \X (0..LastStep) \subseteq T
    OBVIOUS
  <2> QED  BY <2>1, SeqWiden DEF TypeInv, TypeOK
<1>2. faults \in 0..MaxFaults
  BY DEF TypeInv, TypeOK
<1> HIDE DEF T
<1>3. /\ sent' \in Seq(T) /\ Len(sent) \in Nat /\ Len(sent') \in Nat
      /\ Len(sent) <= Len(sent')
      /\ \A a \in 1..Len(sent) : sent'[a] = sent[a]
      /\ \A a \in 1..Len(sent') : a > Len(sent) => sent'[a] = <<run, step>>
      /\ \/ faults' = faults /\ Len(sent') > Len(sent)
         \/ faults' = faults + 1
  BY <1>1, <1>2, ProduceStep
<1>4. DOMAIN sent = 1..Len(sent) /\ DOMAIN sent' = 1..Len(sent')
  BY <1>1, <1>3
<1>5. Range(sent) \subseteq Range(sent')
  BY <1>3, <1>4 DEF Range
<1>6. ASSUME Len(sent') > Len(sent) PROVE <<run, step>> \in Range(sent')
  <2>1. Len(sent') \in DOMAIN sent' /\ sent'[Len(sent')] = <<run, step>>
    BY <1>3, <1>4, <1>6
  <2> QED  BY <2>1 DEF Range
<1> QED  BY <1>3, <1>5, <1>6

(* No step makes the service owe anything but the message it sends, and that *)
(* only when the send fails.                                                 *)
LEMMA OwedStep ==
  ASSUME LoopFacts, TypeInv, CompletedPlayed, [Next]_vars
  PROVE  \/ faults' = faults /\ Owed' \subseteq Owed
         \/ faults' = faults + 1 /\ \E p : Owed' \subseteq Owed \cup {p}
<1>0. /\ Len(runs) \in Nat /\ LastStep \in Nat
      /\ faults \in Nat
  BY OrdersAssumption DEF TypeInv, TypeOK, LastStep
<1>1. CASE Clear
  <2> DEFINE m == <<Len(runs'), 0>>
  <2>1. /\ Len(runs') = Len(runs) + 1 /\ Produce(Len(runs'), 0)
        /\ stage' = "cleared" /\ UNCHANGED <<log, completed>>
    BY <1>1 DEF Clear, TypeInv, TypeOK, LoopFacts, AtBegin, consumer, InHand
  <2>2. /\ Range(sent) \subseteq Range(sent')
        /\ \/ faults' = faults /\ m \in Range(sent')
           \/ faults' = faults + 1
    BY <1>0, <2>1, ProduceAdds
  <2>3. ASSUME NEW p \in Owed', p # m PROVE p \in Owed
    <3>1. /\ p \in (1..(Len(runs) + 1)) \X (0..LastStep) /\ p \notin Range(sent)
          /\ Done(p[1])' \/ (p[1] = Len(runs) + 1 /\ p[2] = 0)
      BY <2>1, <2>2, <2>3 DEF Owed, Over
    <3>2. p[1] = Len(runs) + 1 /\ p[2] = 0 => p = m
      BY <2>1, <3>1
    <3>3. Done(p[1])'
      BY <2>3, <3>1, <3>2
    <3>4. Done(p[1])
      BY <1>1, <2>1, <3>3, LatestStep DEF Done
    <3>5. p[1] \in 1..Len(runs)
      BY <3>4 DEF Done, Latest, TypeInv, TypeOK
    <3> QED  BY <3>1, <3>4, <3>5 DEF Owed
  <2>4. m \in Range(sent') => m \notin Owed'
    BY DEF Owed
  <2> HIDE DEF m
  <2> QED  BY <2>2, <2>3, <2>4
<1>2. ASSUME NEW d \in deliveries, Deliver(d)
      PROVE  \/ faults' = faults /\ Owed' \subseteq Owed
             \/ faults' = faults + 1 /\ \E p : Owed' \subseteq Owed \cup {p}
  <2> DEFINE m == <<d.run, d.step>>
  <2>1. /\ d.run = Len(runs) /\ d.step \in 1..LastStep /\ stage = "join"
        /\ \A e \in deliveries : e = d
    BY DEF TypeInv, TypeOK, Playing
  <2>2. /\ Produce(d.run, d.step) /\ UNCHANGED <<log, inHand, completed, runs, stage>>
        /\ d.step # LastStep =>
              [run |-> d.run, step |-> d.step + 1] \in deliveries'
    BY <1>2 DEF Deliver, Thread, consumer
  <2>3. /\ Range(sent) \subseteq Range(sent')
        /\ \/ faults' = faults /\ m \in Range(sent')
           \/ faults' = faults + 1
    BY <1>0, <2>1, <2>2, ProduceAdds
  <2>4. ASSUME NEW p \in Owed', p # m PROVE p \in Owed
    <3>1. /\ p \in (1..Len(runs)) \X (0..LastStep) /\ p \notin Range(sent)
          /\ Done(p[1])' \/ (p[1] = Len(runs) /\ Over(p[2])')
      BY <2>2, <2>3, <2>4 DEF Owed
    <3>2. Done(p[1])' => Done(p[1])
      BY <2>2 DEF Done, Latest
    <3>3. ASSUME p[1] = Len(runs), Over(p[2])' PROVE Over(p[2])
      <4>1. \A e \in deliveries' : p[2] < e.step
        BY <2>1, <2>2, <3>3 DEF Over
      <4>2. p[2] # d.step /\ p[2] \in 0..LastStep
        BY <2>1, <2>4, <3>1, <3>3
      <4>3. p[2] < d.step
        BY <1>0, <2>1, <2>2, <4>1, <4>2
      <4> QED  BY <2>1, <4>3 DEF Over
    <3> QED  BY <3>1, <3>2, <3>3 DEF Owed
  <2>5. m \in Range(sent') => m \notin Owed'
    BY DEF Owed
  <2> HIDE DEF m
  <2> QED  BY <2>3, <2>4, <2>5
<1>3. CASE UpdateOrders
  <2>1. /\ UNCHANGED <<log, completed, runs, sent, faults>> /\ stage = "cleared"
        /\ stage' = "join" /\ deliveries' = {[run |-> Len(runs), step |-> 1]}
    BY <1>3 DEF UpdateOrders, Thread, output, consumer, TypeInv, Playing
  <2>2. \A step \in 0..LastStep : Over(step)' => Over(step)
    BY <1>0, <2>1 DEF Over
  <2> QED  BY <2>1, <2>2 DEF Owed, Done, Latest
<1>4. CASE Finish
  <2>1. /\ UNCHANGED <<log, runs, sent, faults>> /\ stage = "end"
        /\ stage' = "idle" /\ completed' = completed \cup {inHand}
    BY <1>4 DEF Finish, Loop!Finish, Loop!broker, output
  <2>2. \A r : (log[inHand] = "update" /\ Latest(inHand, r)) => r = Len(runs)
    BY <1>0, <2>1 DEF Latest, TypeInv, TypeOK, InHand
  <2>3. \A r : Done(r)' => Done(r) \/ (r = Len(runs) /\ log[inHand] = "update")
    BY <2>1, <2>2 DEF Done, Latest
  <2> QED  BY <2>1, <2>3 DEF Owed, Over
<1>5. CASE Environment
  <2>1. /\ UNCHANGED <<stage, deliveries, runs, sent, inHand, faults, completed>>
        /\ \A i \in 1..Len(log) : log'[i] = log[i]
    BY <1>5, EnvironmentStep
  <2>2. \A r : Done(r)' => Done(r)
    BY <2>1 DEF Done, Latest, LoopFacts
  <2>3. \A step : Over(step)' => Over(step)
    BY <2>1 DEF Over, LoopFacts, TypeInv, InHand
  <2> QED  BY <2>1, <2>2, <2>3 DEF Owed
<1>6. CASE Receive \/ Throw \/ Crash
  <2>1. /\ UNCHANGED <<log, runs, sent, faults>> /\ completed' \subseteq completed
        /\ stage' \in {"idle", "begin"}
    BY <1>6 DEF Receive, Throw, Crash, Stop, Loop!Poll, Loop!Throw, Loop!Crash,
                Loop!Die, Loop!broker, Loop!history, output
  <2> QED  BY <2>1 DEF Owed, Over, Done, Latest
<1>7. CASE Join \/ Email \/ Ignore \/ UNCHANGED vars
  <2>1. UNCHANGED <<log, inHand, completed, runs, sent, faults>>
    BY <1>7 DEF Join, Email, Ignore, consumer, output, vars
  <2>2. \A step : Over(step)' => Over(step)
    BY <1>7, <2>1
    DEF Over, Join, Email, Ignore, AtBegin, consumer, vars
  <2> QED  BY <2>1, <2>2 DEF Owed, Done, Latest
<1> QED
  BY <1>1, <1>2, <1>3, <1>4, <1>5, <1>6, <1>7 DEF Next, Service

(* What is owed is made of runs and steps, so it is finite.                  *)
LEMMA OwedFinite ==
  ASSUME TypeInv
  PROVE  IsFiniteSet(Owed) /\ Cardinality(Owed) \in Nat
<1>1. Len(runs) \in Int /\ LastStep \in Int
  BY OrdersAssumption DEF TypeInv, TypeOK, LastStep
<1>2. IsFiniteSet((1..Len(runs)) \X (0..LastStep))
  <2>1. IsFiniteSet(1..Len(runs)) /\ IsFiniteSet(0..LastStep)
    BY <1>1, FS_Interval
  <2> QED  BY <2>1, FS_Product
<1>3. Owed \in SUBSET ((1..Len(runs)) \X (0..LastStep))
  BY DEF Owed
<1> QED  BY <1>2, <1>3, FS_Subset, FS_CardinalityType

(* Every step keeps what is owed within the sends that failed.               *)
LEMMA PaidStep ==
  LoopFacts /\ TypeInv /\ TypeInv' /\ PaidInv /\ [Next]_vars => PaidInv'
<1> SUFFICES ASSUME LoopFacts, TypeInv, TypeInv', PaidInv, [Next]_vars
             PROVE  PaidInv'
  OBVIOUS
<1>1. CompletedPlayed'
  BY PlayedStep DEF PaidInv
<1>2. IsFiniteSet(Owed) /\ Cardinality(Owed) \in Nat
  BY OwedFinite
<1>3. faults \in Nat /\ Cardinality(Owed) <= faults
  BY OrdersAssumption DEF PaidInv, TypeInv, TypeOK
<1>4. CASE faults' = faults /\ Owed' \subseteq Owed
  <2>1. Cardinality(Owed') \in Nat /\ Cardinality(Owed') <= Cardinality(Owed)
    BY <1>2, <1>4, FS_Subset, FS_CardinalityType
  <2> QED  BY <1>1, <1>2, <1>3, <1>4, <2>1 DEF PaidInv
<1>5. ASSUME faults' = faults + 1, NEW p, Owed' \subseteq Owed \cup {p}
      PROVE  PaidInv'
  <2>1. /\ IsFiniteSet(Owed \cup {p})
        /\ Cardinality(Owed \cup {p}) \in {Cardinality(Owed), Cardinality(Owed) + 1}
    BY <1>2, FS_AddElement
  <2>2. /\ Cardinality(Owed') \in Nat
        /\ Cardinality(Owed') <= Cardinality(Owed \cup {p})
    BY <1>5, <2>1, FS_Subset, FS_CardinalityType
  <2> QED  BY <1>1, <1>2, <1>3, <1>5, <2>1, <2>2 DEF PaidInv
<1> QED  BY <1>4, <1>5, OwedStep DEF PaidInv

(* All that the completed orders lack together was lost by sends that        *)
(* failed: their carts were cleared and every stage was told to both topics. *)
THEOREM CompletedOrdersArePlayed == Spec => []CompletedMeansDelivered
<1>1. Init => PaidInv
  <2> SUFFICES ASSUME Init PROVE PaidInv
    OBVIOUS
  <2>1. Owed = {}
    BY DEF Init, Owed
  <2> QED
    BY <2>1, FS_EmptySet DEF Init, Loop!Init, PaidInv, CompletedPlayed
<1>2. PaidInv /\ TypeInv => CompletedMeansDelivered
  <2> SUFFICES ASSUME PaidInv, TypeInv PROVE CompletedMeansDelivered
    OBVIOUS
  <2> DEFINE lost == UNION {{LatestRun(i)} \X Missing(LatestRun(i)) :
                               i \in {j \in completed : log[j] = "update"}}
  <2>1. ASSUME NEW i \in completed, log[i] = "update"
        PROVE  {LatestRun(i)} \X Missing(LatestRun(i)) \subseteq Owed
    <3>1. PICK r \in DOMAIN runs : Latest(i, r)
      BY <2>1 DEF PaidInv, CompletedPlayed
    <3>2. LatestRun(i) = r /\ Done(r) /\ r \in 1..Len(runs)
      BY <2>1, <3>1, LatestChosen DEF Done, TypeInv, TypeOK
    <3> QED  BY <3>2 DEF Missing, Owed
  <2>2. lost \in SUBSET Owed
    BY <2>1
  <2>3. IsFiniteSet(Owed) /\ Cardinality(Owed) \in Nat
    BY OwedFinite
  <2>4. Cardinality(lost) \in Nat /\ Cardinality(lost) <= Cardinality(Owed)
    BY <2>2, <2>3, FS_Subset, FS_CardinalityType
  <2>5. faults \in Nat /\ Cardinality(Owed) <= faults
    BY OrdersAssumption DEF PaidInv, TypeInv, TypeOK
  <2> HIDE DEF lost
  <2>6. Cardinality(lost) <= faults
    BY <2>3, <2>4, <2>5
  <2> QED  BY <2>6 DEF CompletedMeansDelivered, lost
<1> QED
  BY <1>1, <1>2, PaidStep, LoopFactsHold, TypeInvHolds, PTL DEF Spec
=============================================================================
