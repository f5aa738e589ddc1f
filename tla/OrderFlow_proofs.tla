--------------------------- MODULE OrderFlow_proofs ---------------------------
(***************************************************************************)
(* Proofs about an order across the two services.  Each step of the flow   *)
(* is one of the orders service or leaves it alone (ImplementsOrders), so  *)
(* what was proved of the service holds in the flow.  That the cart is     *)
(* empty of old items once everything caught up rests on what is true      *)
(* before: whatever is old and in the cart, or on its way there, has a     *)
(* clear behind it, or an order whose clear is still to come.              *)
(***************************************************************************)
EXTENDS OrderFlow, Orders_proofs, SequenceTheorems

(* Each step of the flow is a step of the orders service.                    *)
LEMMA OrdersServiceStep == [FlowNext]_flowVars => [Next]_vars
<1> SUFFICES ASSUME [FlowNext]_flowVars PROVE Next \/ UNCHANGED vars
  OBVIOUS
<1>1. CASE PlaceOrder
  <2>1. Loop!Publish("update") /\ UNCHANGED <<stage, deliveries, output>>
    BY <1>1 DEF PlaceOrder
  <2> QED  BY <2>1, OrderFlowAssumption DEF Next, Environment
<1>2. CASE OrderClears \/ OrdersStep \/ OrdersDisturbed
  BY <1>2
  DEF OrderClears, OrdersStep, OrdersDisturbed, Next, Service, Environment
<1>3. CASE (\E i \in Items, c \in Costs : Shop(i, c)) \/ BasketApplies
           \/ UNCHANGED flowVars
  BY <1>3 DEF Shop, BasketApplies, flowVars
<1> QED  BY <1>1, <1>2, <1>3 DEF FlowNext

(* The flow is the orders service, whose clears reach a basket.              *)
THEOREM ImplementsOrders == FlowSpec => Spec
<1>1. FlowInit => Init
  BY DEF FlowInit
<1> QED  BY <1>1, OrdersServiceStep, PTL DEF FlowSpec, Spec

(* What the orders service keeps.                                            *)
Known == LoopFacts /\ TypeInv /\ committed \in Nat /\ committed <= pos

(* It keeps it in the flow.                                                  *)
LEMMA KnownHolds == FlowSpec => []Known
<1>1. Proved!IInv => committed \in Nat /\ committed <= pos
  BY DEF Proved!IInv, Proved!TypeOK, Proved!Offsets
<1>2. Spec => []Known
  BY <1>1, ConsumerInv, LoopFactsHold, TypeInvHolds, PTL DEF Known
<1> QED  BY <1>2, ImplementsOrders, PTL

-----------------------------------------------------------------------------
BasketTypes ==
    /\ cartLog \in Seq(Carts!TopicMessages) /\ applied \in 0..Len(cartLog)
    /\ since \subseteq Items
    /\ \A o \in 1..Len(log) : log[o] = "update"

(* A clear comes behind the k-th message of the topic "cart".                *)
ClearComes(k) == \E j \in 1..Len(cartLog) : j > k /\ cartLog[j].type = "clear"

(* An order whose clear is to come: not polled yet, in hand but not cleared, *)
(* or dropped by a death (and then perhaps gone for good).                   *)
Coming(o) ==
    \/ o > pos
    \/ o = inHand /\ stage = "begin"
    \/ o \in Loop!Dropped
ClearOwed == \E o \in 1..Len(log) : Coming(o)

(* Whatever is old, in the cart or on its way there, is going to be cleared. *)
OldGoes ==
    /\ DOMAIN cart \subseteq since \/ ClearComes(applied)
    /\ \A k \in 1..Len(cartLog) :
          (k > applied /\ cartLog[k].type = "add" /\ cartLog[k].item \notin since)
             => ClearComes(k)

ClearInv == faults = 0 => OldGoes \/ ClearOwed

FlowInv == BasketTypes /\ ClearInv

(* What a message does to the names in a cart.                               *)
LEMMA EffectNames ==
  ASSUME NEW c, NEW m \in Carts!TopicMessages
  PROVE  /\ m.type = "add" => DOMAIN Carts!Effect(c, m) = DOMAIN c \cup {m.item}
         /\ m.type = "clear" => DOMAIN Carts!Effect(c, m) = {}
         /\ m.type # "add" => DOMAIN Carts!Effect(c, m) \subseteq DOMAIN c
<1>1. CASE m.type = "add"
  <2>1. Carts!Effect(c, m) = Carts!Put(c, m.item, m.cost)
    BY <1>1, Zenon DEF Carts!Effect
  <2> QED  BY <1>1, <2>1 DEF Carts!Put
<1>2. CASE m.type = "delete"
  <2>1. m.type # "add" /\ m.type # "clear"
    BY <1>2
  <2>2. Carts!Effect(c, m) = Carts!Without(c, {m.item})
    BY <1>2, <2>1 DEF Carts!Effect
  <2> QED  BY <2>1, <2>2 DEF Carts!Without, Carts!Restrict
<1>3. CASE m.type = "clear"
  <2>1. m.type # "add" /\ m.type # "delete"
    BY <1>3
  <2>2. Carts!Effect(c, m) = Carts!Empty
    BY <1>3, <2>1 DEF Carts!Effect
  <2> QED  BY <2>1, <2>2 DEF Carts!Empty
<1>4. CASE m.type \notin {"add", "delete", "clear"}
  <2>1. Carts!Effect(c, m) = c
    BY <1>4 DEF Carts!Effect
  <2> QED  BY <1>4, <2>1
<1> QED  BY <1>1, <1>2, <1>3, <1>4

(* A message at the end of the topic "cart" leaves the others where they     *)
(* are.                                                                      *)
LEMMA CartLogGrows ==
  ASSUME BasketTypes, NEW m \in Carts!TopicMessages, cartLog' = Append(cartLog, m)
  PROVE  /\ cartLog' \in Seq(Carts!TopicMessages) /\ Len(cartLog) \in Nat
         /\ Len(cartLog') = Len(cartLog) + 1 /\ cartLog'[Len(cartLog) + 1] = m
         /\ \A k \in 1..Len(cartLog) : cartLog'[k] = cartLog[k]
         /\ \A k : ClearComes(k) => ClearComes(k)'
<1> DEFINE T == Carts!TopicMessages
<1>1. cartLog \in Seq(T)
  BY DEF BasketTypes
<1> HIDE DEF T
<1>2. /\ cartLog' \in Seq(T) /\ Len(cartLog) \in Nat
      /\ Len(cartLog') = Len(cartLog) + 1 /\ cartLog'[Len(cartLog) + 1] = m
      /\ \A k \in 1..Len(cartLog) : cartLog'[k] = cartLog[k]
  <2>1. m \in T
    BY DEF T
  <2> QED  BY <1>1, <2>1
<1>3. \A k : ClearComes(k) => ClearComes(k)'
  BY <1>2 DEF ClearComes
<1> QED  BY <1>2, <1>3 DEF T

(* Some equal messages at the end of a topic.                                *)
LEMMA AtTheEnd ==
  ASSUME NEW T, NEW s \in Seq(T), NEW e \in T, NEW n \in Nat
  PROVE  LET t == s \o [k \in 1..n |-> e]
         IN  /\ t \in Seq(T) /\ Len(t) = Len(s) + n
             /\ \A k \in 1..Len(s) : t[k] = s[k]
             /\ n = 1 => t[Len(s) + 1] = e
<1> DEFINE new == [k \in 1..n |-> e]
<1>1. new \in Seq(T) /\ Len(new) = n /\ (n = 1 => new[1] = e)
  OBVIOUS
<1> HIDE DEF new
<1>2. s \o new \in Seq(T) /\ Len(s \o new) = Len(s) + n
  BY <1>1
<1>3. ASSUME NEW k \in 1..Len(s) PROVE (s \o new)[k] = s[k]
  BY <1>1
<1>4. ASSUME n = 1 PROVE (s \o new)[Len(s) + 1] = e
  <2>1. new \in Seq(T) /\ Len(new) = 1 /\ new[1] = e
    BY <1>1, <1>4
  <2>2. \A i \in 1..(Len(s) + Len(new)) :
           (s \o new)[i] = IF i <= Len(s) THEN s[i] ELSE new[i - Len(s)]
    BY <2>1, ConcatProperties
  <2>3. /\ Len(s) \in Nat /\ (Len(s) + 1) - Len(s) = 1 /\ ~(Len(s) + 1 <= Len(s))
        /\ Len(s) + 1 \in 1..(Len(s) + Len(new))
    BY <2>1
  <2>4. (s \o new)[Len(s) + 1] = new[(Len(s) + 1) - Len(s)]
    BY <2>2, <2>3, Zenon
  <2> QED  BY <2>1, <2>3, <2>4
<1> QED  BY <1>2, <1>3, <1>4 DEF new

(* An order whose clear is owed is cleared, or stays owed.                   *)
LEMMA ComingStep ==
  ASSUME Known, Known', BasketTypes, ClearOwed, [FlowNext]_flowVars, ~OrderClears
  PROVE  ClearOwed'
<1>1. SUFFICES ASSUME NEW o \in 1..Len(log), Coming(o)
               PROVE  Coming(o)' /\ Len(log) <= Len(log')
  BY DEF ClearOwed, Known, LoopFacts
<1>0. /\ Len(log) \in Nat /\ pos \in Nat /\ o \in Nat
      /\ inHand # 0 => inHand \in handed /\ inHand \notin completed
      /\ stage = "idle" <=> inHand = 0
  BY DEF Known, LoopFacts, TypeInv, InHand
<1>3. CASE (\E i \in Items, c \in Costs : Shop(i, c)) \/ BasketApplies
           \/ UNCHANGED flowVars
  <2>1. UNCHANGED <<log, pos, inHand, stage, handed, completed>>
    BY <1>3 DEF Shop, BasketApplies, flowVars, vars, consumer
  <2> QED  BY <1>0, <1>1, <2>1 DEF Coming, Loop!Dropped
<1>4. CASE PlaceOrder
  <2>1. /\ UNCHANGED <<pos, inHand, stage, handed, completed>>
        /\ Len(log') = Len(log) + 1
    BY <1>4 DEF PlaceOrder, Loop!Publish, Loop!history, Known, LoopFacts
  <2> QED  BY <1>0, <1>1, <2>1 DEF Coming, Loop!Dropped
<1>5. CASE Receive /\ OrdersStep
  <2>1. /\ UNCHANGED log /\ pos' = pos + 1 /\ inHand' = pos + 1
        /\ stage = "idle" /\ stage' = "begin" /\ inHand = 0
        /\ handed' = handed \cup {pos + 1} /\ completed' = completed \ {pos + 1}
    BY <1>5 DEF Receive, Loop!Poll, Loop!broker
  <2> QED  BY <1>0, <1>1, <2>1 DEF Coming, Loop!Dropped
<1>6. CASE (UpdateOrders \/ Join \/ (\E d \in deliveries : Deliver(d))) /\ OrdersStep
  <2>1. UNCHANGED <<log, pos, inHand, handed, completed>>
        /\ stage # "begin"
    BY <1>6 DEF UpdateOrders, Join, Deliver, consumer, Known, TypeInv, Playing
  <2> QED  BY <1>0, <1>1, <2>1 DEF Coming, Loop!Dropped
<1>7. CASE Finish /\ OrdersStep
  <2>1. /\ UNCHANGED <<log, pos, handed>> /\ stage = "end" /\ inHand' = 0
        /\ completed' = completed \cup {inHand} /\ inHand # 0
    BY <1>7 DEF Finish, Loop!Finish, Loop!broker
  <2> QED  BY <1>0, <1>1, <2>1 DEF Coming, Loop!Dropped
<1>8. CASE Crash
  <2>1. UNCHANGED <<log, pos, handed, completed>> /\ inHand' = 0
    BY <1>8 DEF Crash, Loop!Crash, Loop!Die, Loop!broker, Loop!history
  <2> QED  BY <1>0, <1>1, <2>1 DEF Coming, Loop!Dropped
<1>9. CASE /\ Loop!AutoCommit \/ Loop!Rebalance \/ Loop!Restart
           /\ UNCHANGED <<stage, deliveries, output>>
  <2>1. /\ UNCHANGED <<log, inHand, stage, handed, completed>>
        /\ pos' \in {pos, committed}
    BY <1>9 DEF Loop!AutoCommit, Loop!Rebalance, Loop!Restart, Loop!broker,
                Loop!history
  <2> QED  BY <1>0, <1>1, <2>1 DEF Coming, Loop!Dropped, Known
<1> QED
  BY <1>3, <1>4, <1>5, <1>6, <1>7, <1>8, <1>9
  DEF FlowNext, OrdersStep, OrdersDisturbed

(* The lengths of a topic that got a message once, or twice.                 *)
LEMMA SendLengths ==
  ASSUME NEW T, NEW s \in Seq(T), NEW m
  PROVE  /\ Len(s) \in Nat /\ Len(Append(s, m)) = Len(s) + 1
         /\ Len(s \o <<m, m>>) = Len(s) + 2
<1> DEFINE U == T \cup {m}
<1>1. s \in Seq(U) /\ m \in U
  OBVIOUS
<1> HIDE DEF U
<1>2. <<m, m>> \in Seq(U) /\ Len(<<m, m>>) = 2
  BY <1>1
<1> QED  BY <1>1, <1>2

(* Every step keeps what the basket has, and that the old goes.              *)
LEMMA FlowStep ==
  ASSUME Known, Known', FlowInv, [FlowNext]_flowVars
  PROVE  FlowInv'
<1>0. /\ BasketTypes /\ ClearInv /\ Len(log) \in Nat /\ Len(cartLog) \in Nat
      /\ faults \in Nat /\ faults' \in Nat /\ LoopFacts /\ TypeInv
  <2>1. /\ BasketTypes /\ ClearInv /\ LoopFacts /\ TypeInv
        /\ TypeOK /\ TypeOK'
    BY DEF FlowInv, Known, TypeInv
  <2>2. faults \in Nat /\ faults' \in Nat
    BY <2>1, OrdersAssumption DEF TypeOK
  <2>3. Len(log) \in Nat /\ Len(cartLog) \in Nat
    BY <2>1 DEF LoopFacts, BasketTypes
  <2> QED  BY <2>1, <2>2, <2>3
<1>1. ASSUME NEW i \in Items, NEW c \in Costs, Shop(i, c) PROVE FlowInv'
  <2> DEFINE m == [type |-> "add", item |-> i, cost |-> c]
  <2>1. /\ UNCHANGED <<log, faults, applied, cart>> /\ since' = since \cup {i}
        /\ cartLog' = Append(cartLog, m) /\ ~OrderClears
    BY <1>1 DEF Shop, Carts!Publish, OrderClears, Clear, vars, consumer, output, AtBegin
  <2>2. m \in Carts!TopicMessages /\ m.type = "add" /\ m.item = i
    BY DEF Carts!TopicMessages, Carts!Adds
  <2> HIDE DEF m
  <2>3. /\ cartLog' \in Seq(Carts!TopicMessages)
        /\ Len(cartLog') = Len(cartLog) + 1 /\ cartLog'[Len(cartLog) + 1] = m
        /\ \A k \in 1..Len(cartLog) : cartLog'[k] = cartLog[k]
        /\ \A k : ClearComes(k) => ClearComes(k)'
    BY <1>0, <2>1, <2>2, CartLogGrows
  <2>4. BasketTypes'
    BY <1>0, <2>1, <2>3 DEF BasketTypes
  <2>5. OldGoes => OldGoes'
    BY <1>0, <2>1, <2>2, <2>3 DEF OldGoes
  <2>6. ClearOwed => ClearOwed'
    BY <1>0, <2>1, <1>1, ComingStep DEF FlowNext
  <2> QED  BY <1>0, <2>1, <2>4, <2>5, <2>6 DEF FlowInv, ClearInv
<1>2. CASE PlaceOrder
  <2>1. /\ UNCHANGED <<cartLog, applied>> /\ since' = {}
        /\ log' = Append(log, "update") /\ log \in Seq(Messages) /\ UNCHANGED pos
    BY <1>0, <1>2 DEF PlaceOrder, Loop!Publish, basket, LoopFacts
  <2>2. /\ Len(log') = Len(log) + 1 /\ log'[Len(log) + 1] = "update"
        /\ \A o \in 1..Len(log) : log'[o] = log[o]
    BY <2>1, OrderFlowAssumption
  <2>3. BasketTypes'
    BY <1>0, <2>1, <2>2 DEF BasketTypes
  <2>4. ClearOwed'
    <3>1. pos <= Len(log) /\ pos \in Nat
      BY <1>0 DEF LoopFacts
    <3>2. Coming(Len(log))'
      BY <1>0, <2>1, <2>2, <3>1 DEF Coming
    <3>3. Len(log') \in 1..Len(log')
      BY <1>0, <2>2
    <3> QED  BY <3>2, <3>3 DEF ClearOwed
  <2> QED  BY <2>3, <2>4 DEF FlowInv, ClearInv
<1>3. CASE BasketApplies
  <2> DEFINE m == cartLog[applied + 1]
  <2>1. /\ UNCHANGED <<log, faults, cartLog, since>> /\ applied < Len(cartLog)
        /\ applied' = applied + 1 /\ cart' = Carts!Effect(cart, m) /\ ~OrderClears
    BY <1>3
    DEF BasketApplies, Carts!Apply, Carts!Do, OrderClears, Clear, vars, consumer,
        output, AtBegin
  <2>2. applied + 1 \in 1..Len(cartLog) /\ m \in Carts!TopicMessages
    BY <1>0, <2>1 DEF BasketTypes
  <2> HIDE DEF m
  <2>3. BasketTypes'
    BY <1>0, <2>1, <2>2 DEF BasketTypes
  <2>4. \A k : ClearComes(k)' <=> ClearComes(k)
    BY <2>1 DEF ClearComes
  <2>5. OldGoes => OldGoes'
    <3> SUFFICES ASSUME OldGoes PROVE OldGoes'
      OBVIOUS
    <3>1. DOMAIN cart' \subseteq since \/ ClearComes(applied + 1)
      <4>1. CASE m.type = "clear"
        <5>1. DOMAIN cart' = {}
          BY <2>1, <2>2, <4>1, EffectNames
        <5> QED  BY <5>1
      <4>2. CASE m.type # "clear"
        <5>1. ClearComes(applied) => ClearComes(applied + 1)
          BY <1>0, <2>1, <2>2, <4>2 DEF ClearComes, BasketTypes, m
        <5>2. CASE m.type = "add"
          <6>1. m.item \in since \/ ClearComes(applied + 1)
            BY <1>0, <2>1, <2>2, <5>2 DEF OldGoes, BasketTypes, m
          <6>2. DOMAIN cart' = DOMAIN cart \cup {m.item}
            BY <2>1, <2>2, <5>2, EffectNames
          <6> QED  BY <5>1, <6>1, <6>2 DEF OldGoes
        <5>3. CASE m.type # "add"
          <6>1. DOMAIN cart' \subseteq DOMAIN cart
            BY <2>1, <2>2, <5>3, EffectNames
          <6> QED  BY <5>1, <6>1 DEF OldGoes
        <5> QED  BY <5>2, <5>3
      <4> QED  BY <4>1, <4>2
    <3>2. \A k \in 1..Len(cartLog) :
             (k > applied + 1 /\ cartLog[k].type = "add" /\ cartLog[k].item \notin since)
                => ClearComes(k)
      BY <1>0 DEF OldGoes, BasketTypes
    <3> QED  BY <2>1, <2>4, <3>1, <3>2 DEF OldGoes
  <2>6. ClearOwed => ClearOwed'
    BY <1>0, <1>3, <2>1, ComingStep DEF FlowNext
  <2> QED  BY <1>0, <2>1, <2>3, <2>5, <2>6 DEF FlowInv, ClearInv
<1>4. CASE OrderClears
  <2>1. /\ UNCHANGED <<log, applied, cart, since>>
        /\ Produce(Len(runs'), 0)
        /\ cartLog' = cartLog \o [k \in 1..(Len(sent') - Len(sent)) |-> ClearMessage]
    BY <1>4 DEF OrderClears, Clear, consumer
  <2>2. ClearMessage \in Carts!TopicMessages /\ ClearMessage.type = "clear"
    BY DEF ClearMessage, Carts!TopicMessages, Carts!PlainMessages
  <2>3. /\ Len(sent) \in Nat /\ Len(sent') \in Nat
        /\ Len(sent') - Len(sent) \in 0..2
        /\ faults' = 0 => Len(sent') = Len(sent) + 1
    <3>1. sent \in Seq((1..Len(runs)) \X (0..LastStep))
      BY <1>0 DEF TypeInv, TypeOK
    <3>2. sent' \in Seq((1..Len(runs)) \X (0..LastStep))'
      BY DEF Known, TypeInv, TypeOK
    <3>3. /\ Len(sent) \in Nat
          /\ \/ Len(sent') = Len(sent) + 1
             \/ faults' # 0 /\ Len(sent') \in {Len(sent), Len(sent) + 2}
      <4> DEFINE m == <<Len(runs'), 0>>
      <4>1. \/ sent' = Append(sent, m)
            \/ faults' = faults + 1 /\ sent' \in {sent, sent \o <<m, m>>}
        BY <2>1 DEF Produce
      <4> HIDE DEF m
      <4>2. /\ Len(sent) \in Nat /\ Len(Append(sent, m)) = Len(sent) + 1
            /\ Len(sent \o <<m, m>>) = Len(sent) + 2
        BY <3>1, SendLengths
      <4>3. faults + 1 # 0
        BY <1>0
      <4> QED  BY <4>1, <4>2, <4>3
    <3> QED  BY <1>0, <3>3
  <2> DEFINE n == Len(sent') - Len(sent)
  <2>4. n \in 0..2 /\ (faults' = 0 => n = 1)
    BY <2>3
  <2>5. cartLog' = cartLog \o [k \in 1..n |-> ClearMessage]
    BY <2>1
  <2> HIDE DEF n
  <2>8. /\ cartLog' \in Seq(Carts!TopicMessages)
        /\ Len(cartLog') = Len(cartLog) + n
        /\ \A k \in 1..Len(cartLog) : cartLog'[k] = cartLog[k]
        /\ n = 1 => cartLog'[Len(cartLog) + 1] = ClearMessage
    <3>1. cartLog \in Seq(Carts!TopicMessages) /\ n \in Nat
      BY <1>0, <2>4 DEF BasketTypes
    <3> QED  BY <2>2, <2>5, <3>1, AtTheEnd
  <2>6. BasketTypes'
    <3>1. applied \in 0..Len(cartLog')
      BY <1>0, <2>4, <2>8 DEF BasketTypes
    <3> QED  BY <1>0, <2>1, <2>8, <3>1 DEF BasketTypes
  <2>7. faults' = 0 => OldGoes'
    <3> SUFFICES ASSUME faults' = 0 PROVE OldGoes'
      OBVIOUS
    <3>1. Len(cartLog') = Len(cartLog) + 1
      BY <2>4, <2>8
    <3>2. cartLog'[Len(cartLog) + 1].type = "clear"
      BY <2>2, <2>4, <2>8
    <3>3. \A k \in 0..Len(cartLog) : ClearComes(k)'
      BY <1>0, <3>1, <3>2 DEF ClearComes
    <3>4. \A k \in 1..Len(cartLog') : cartLog'[k].type = "add" => k \in 0..Len(cartLog)
      BY <1>0, <3>1, <3>2
    <3> QED  BY <1>0, <2>1, <3>3, <3>4 DEF OldGoes, BasketTypes
  <2> QED  BY <2>6, <2>7 DEF FlowInv, ClearInv
<1>5. CASE OrdersStep \/ OrdersDisturbed \/ UNCHANGED flowVars
  <2>1. UNCHANGED <<log, cartLog, applied, cart, since>>
    BY <1>5
    DEF OrdersStep, OrdersDisturbed, Receive, UpdateOrders, Join, Finish, Deliver,
        Crash, Loop!Poll, Loop!Finish, Loop!Crash, Loop!Die, Loop!AutoCommit,
        Loop!Rebalance, Loop!Restart, Loop!broker, basket, flowVars, vars, consumer
  <2>2. faults' = 0 => faults = 0
    <3>1. faults' \in {faults, faults + 1}
      BY <1>5
      DEF OrdersStep, OrdersDisturbed, Receive, UpdateOrders, Join, Finish,
          Deliver, Produce, Crash, Stop, output, flowVars, vars
    <3> QED  BY <1>0, <3>1
  <2>3. BasketTypes' /\ (OldGoes => OldGoes')
    BY <1>0, <2>1 DEF BasketTypes, OldGoes, ClearComes
  <2>4. CASE OrderClears
    BY <1>4, <2>4
  <2>5. CASE ~OrderClears
    <3>1. ClearOwed => ClearOwed'
      BY <1>0, <2>5, ComingStep
    <3> QED  BY <1>0, <2>2, <2>3, <3>1 DEF FlowInv, ClearInv
  <2> QED  BY <2>4, <2>5
<1> QED
  BY <1>1, <1>2, <1>3, <1>4, <1>5 DEF FlowNext

(* They hold in every state.                                                 *)
LEMMA FlowInvHolds == FlowSpec => []FlowInv
<1>1. FlowInit => FlowInv
  BY DEF FlowInit, Init, Loop!Init, Carts!Init, Carts!Empty, FlowInv, BasketTypes,
         ClearInv, OldGoes
<1>2. Known /\ Known' /\ FlowInv /\ [FlowNext]_flowVars => FlowInv'
  BY FlowStep
<1> QED  BY <1>1, <1>2, KnownHolds, PTL DEF FlowSpec

(* The types of both services and of the topic between them.                 *)
THEOREM FlowTypesCorrect == FlowSpec => []FlowTypeOK
<1>1. Known /\ FlowInv => FlowTypeOK
  BY DEF Known, TypeInv, FlowInv, BasketTypes, FlowTypeOK
<1> QED  BY <1>1, KnownHolds, FlowInvHolds, PTL

(* Once both services caught up, the cart holds nothing from before the last *)
(* order, if no send failed and no order was dropped; for any number of      *)
(* orders, items and services started again.                                 *)
THEOREM OldItemsGo == FlowSpec => []OnlyNewItemsStay
<1>1. Known /\ FlowInv => OnlyNewItemsStay
  <2> SUFFICES ASSUME Known, FlowInv, Drained, faults = 0, Loop!Dropped = {}
               PROVE  DOMAIN cart \subseteq since
    BY DEF OnlyNewItemsStay
  <2>1. /\ applied = Len(cartLog) /\ pos = Len(log) /\ inHand = 0
        /\ Len(log) \in Nat /\ Len(cartLog) \in Nat
    BY DEF Drained, Known, LoopFacts, FlowInv, BasketTypes
  <2>2. ~ClearOwed
    BY <2>1 DEF ClearOwed, Coming
  <2>3. ~ClearComes(applied)
    BY <2>1 DEF ClearComes
  <2> QED  BY <2>2, <2>3 DEF FlowInv, ClearInv, OldGoes
<1> QED  BY <1>1, KnownHolds, FlowInvHolds, PTL

(* The flow keeps what the service alone does: deliveries are told in order, *)
(* no more often than restarts and rebalances explain, and in full for every *)
(* completed order but for sends that failed; a death of the service drops   *)
(* one order at most.                                                        *)
THEOREM OrdersPromises ==
  FlowSpec => [](DeliveriesInOrder /\ RunBound /\ CompletedMeansDelivered
                 /\ Loop!LossBound)
BY ImplementsOrders, OneAfterTheOther, RunsAreBounded, CompletedOrdersArePlayed,
   ConsumerPromises, PTL
=============================================================================
