----------------------------- MODULE Basket_proofs -----------------------------
(***************************************************************************)
(* Proofs about the basket service: it is a consumer loop (ImplementsLoop, *)
(* ConsumerInv) and keeps its types; nothing comes into Redis, a snapshot  *)
(* or a listing that no message put there, whatever fails; while nothing   *)
(* fails, the handlers that send several commands look like one step each, *)
(* so that clients see the atomic cart of module Cart; and what fails, or  *)
(* is delivered again, costs no more than it is charged for (PaidInv).     *)
(***************************************************************************)
EXTENDS Basket, FiniteSetTheorems, TLAPS

Proved == INSTANCE KafkaConsumer_proofs

(* The bounds of the service are what the consumer loop asks of its own.     *)
LEMMA ConsumerBounds == Proved!ConsumerAssumption
BY BasketAssumption DEF Proved!ConsumerAssumption, Poison

(* Loop and Proved are the same instance, read with and without proofs.      *)
LEMMA SameConsumer ==
  /\ Loop!TypeOK <=> Proved!TypeOK
  /\ Loop!Init <=> Proved!Init
  /\ [Loop!Next]_(Loop!vars) <=> [Proved!Next]_(Proved!vars)
<1>1. /\ Loop!TypeOK <=> Proved!TypeOK
      /\ Loop!Init <=> Proved!Init
  BY DEF Loop!TypeOK, Proved!TypeOK, Loop!Init, Proved!Init
<1>2. Loop!Next <=> Proved!Next
  BY DEF Loop!Next, Loop!Publish, Loop!Loop, Loop!Poll, Loop!Finish,
         Loop!Throw, Loop!Crash, Loop!Die, Loop!AutoCommit, Loop!Rebalance,
         Loop!Restart, Loop!broker, Loop!history,
         Proved!Next, Proved!Publish, Proved!Loop, Proved!Poll,
         Proved!Finish, Proved!Throw, Proved!Crash, Proved!Die,
         Proved!AutoCommit, Proved!Rebalance, Proved!Restart,
         Proved!broker, Proved!history
<1>3. UNCHANGED Loop!vars <=> UNCHANGED Proved!vars
  BY DEF Loop!vars, Loop!broker, Loop!history,
         Proved!vars, Proved!broker, Proved!history
<1> QED  BY <1>1, <1>2, <1>3

(* What handlers do to Redis and to themselves, and what Redis does, leaves  *)
(* the consumer alone.                                                       *)
LEMMA LeftAlone ==
  ASSUME Accept(request') \/ AddToBasket \/ DeleteItem \/ GetBasketById \/ Ignore
         \/ Keys \/ (\E k \in Items : ClearOne(k) \/ GetOne(k)) \/ ClearDone
         \/ GetDone \/ Respond \/ Snapshot \/ RedisCrash \/ UNCHANGED vars
  PROVE  UNCHANGED consumer
BY DEF Accept, AddToBasket, DeleteItem, GetBasketById, Ignore, Keys, ClearOne,
       GetOne, Visit, ClearDone, GetDone, Respond, Snapshot, RedisCrash, One,
       vars

(* Each step of the service is a step of the loop or leaves it alone; the    *)
(* exception of a listing ends the process as a crash does.                  *)
LEMMA LoopStep == [Next]_vars => [Loop!Next]_(Loop!vars)
<1> SUFFICES ASSUME [Next]_vars PROVE Loop!Next \/ UNCHANGED Loop!vars
  OBVIOUS
<1>1. CASE Receive \/ Finish \/ Throw \/ Crash \/ Environment \/ Restart
  BY <1>1
  DEF Receive, Finish, Throw, Crash, Environment, Restart, Loop!Next, Loop!Loop
<1>2. CASE ListingThrows
  BY <1>2 DEF ListingThrows, AtLoop, Loop!Next, Loop!Crash
<1>3. ASSUME NEW r, Accept(r) PROVE UNCHANGED consumer
  BY <1>3 DEF Accept
<1>4. UNCHANGED consumer => UNCHANGED Loop!vars
  BY DEF consumer, Loop!vars, Loop!broker, Loop!history
<1> QED  BY <1>1, <1>2, <1>3, <1>4, LeftAlone DEF Next, Service, Handler

(* The service is a consumer loop.                                           *)
THEOREM ImplementsLoop == Spec => Loop!Spec
<1>1. Init => Loop!Init
  BY DEF Init
<1> QED  BY <1>1, LoopStep, PTL DEF Spec, Loop!Spec

(* So it keeps what was proved of one.                                       *)
LEMMA ConsumerInv == Spec => []Proved!IInv
<1>1. Loop!Spec => Proved!Spec
  BY SameConsumer, PTL DEF Loop!Spec, Proved!Spec
<1>2. Proved!Spec => []Proved!IInv
  BY ConsumerBounds, Proved!Inductive, PTL
<1> QED  BY <1>1, <1>2, ImplementsLoop, PTL

(* No change of a cart is handled before an earlier one or skipped by a      *)
(* commit; a death of the service, also one in an HTTP request, drops one at *)
(* most, and none that a commit has passed comes back.                       *)
THEOREM ConsumerPromises ==
  Spec => /\ [](/\ Loop!HandedInOrder /\ Loop!NothingSkipped
                /\ Loop!LossBound /\ Loop!OnlyCommitPassesPoison)
          /\ Loop!LostForGood
<1>1. Loop!Spec => Proved!Spec
  BY SameConsumer, PTL DEF Loop!Spec, Proved!Spec
<1>2. Proved!Spec => []Proved!Promises /\ Proved!LostForGood
  BY ConsumerBounds, Proved!PromisesHold, Proved!LossIsForGood, PTL
<1>3. Proved!Promises => /\ Loop!HandedInOrder /\ Loop!NothingSkipped
                         /\ Loop!LossBound /\ Loop!OnlyCommitPassesPoison
  <2>1. Proved!LossBound => Loop!LossBound
    <3>1. \A S : Proved!Cardinality(S) = Loop!Cardinality(S)
      BY DEF Proved!Cardinality, Loop!Cardinality
    <3> QED  BY <3>1 DEF Proved!LossBound, Proved!Dropped, Loop!LossBound,
                         Loop!Dropped
  <2> QED  BY <2>1 DEF Proved!Promises, Proved!HandedInOrder,
                       Proved!NothingSkipped, Proved!OnlyCommitPassesPoison,
                       Loop!HandedInOrder, Loop!NothingSkipped,
                       Loop!OnlyCommitPassesPoison
<1>4. [Proved!Lost \subseteq Proved!Lost']_(Proved!vars) =>
         [Loop!Lost \subseteq Loop!Lost']_(Loop!vars)
  BY DEF Proved!Lost, Proved!Dropped, Proved!vars, Proved!broker, Proved!history,
         Loop!Lost, Loop!Dropped, Loop!vars, Loop!broker, Loop!history
<1> QED  BY <1>1, <1>2, <1>3, <1>4, ImplementsLoop, PTL
         DEF Proved!LostForGood, Loop!LostForGood

-----------------------------------------------------------------------------
(* What these proofs use of the consumer.                                    *)
LoopFacts ==
    /\ Loop!TypeOK
    /\ log \in Seq(Messages) /\ Len(log) \in Nat
    /\ pos \in 0..Len(log) /\ inHand \in 0..Len(log)
    /\ handed \subseteq 1..Len(log)
    /\ inHand # 0 => inHand \in handed /\ up

(* They hold in every state.                                                 *)
LEMMA LoopFactsHold == Spec => []LoopFacts
<1>1. Proved!IInv => LoopFacts
  BY SameConsumer DEF Proved!IInv, Proved!TypeOK, Proved!Offsets, LoopFacts
<1> QED  BY <1>1, ConsumerInv, PTL

(* A cart is a function from some of the items to costs.                     *)
LEMMA CartIs ==
  ASSUME NEW c \in CartType
  PROVE  DOMAIN c \subseteq Items /\ c \in [DOMAIN c -> Costs]
BY DEF CartType

(* The cart without anything in it, the only one.                            *)
LEMMA EmptyIs ==
  /\ Carts!Empty \in CartType /\ DOMAIN Carts!Empty = {}
  /\ \A c \in CartType : DOMAIN c = {} => c = Carts!Empty
BY DEF CartType, Carts!Empty

(* Putting an item into a cart.                                              *)
LEMMA PutIs ==
  ASSUME NEW c \in CartType, NEW i \in Items, NEW x \in Costs
  PROVE  /\ Carts!Put(c, i, x) \in CartType
         /\ \A k \in DOMAIN Carts!Put(c, i, x) :
               \/ k = i /\ Carts!Put(c, i, x)[k] = x
               \/ k \in DOMAIN c /\ Carts!Put(c, i, x)[k] = c[k]
<1>1. DOMAIN c \cup {i} \in SUBSET Items /\ c \in [DOMAIN c -> Costs]
  BY CartIs
<1>2. Carts!Put(c, i, x) \in [DOMAIN c \cup {i} -> Costs]
  BY <1>1 DEF Carts!Put
<1>3. Carts!Put(c, i, x) \in CartType
  BY <1>1, <1>2 DEF CartType
<1> QED  BY <1>1, <1>2, <1>3 DEF Carts!Put

(* Taking items out of a cart.                                               *)
LEMMA WithoutIs ==
  ASSUME NEW c \in CartType, NEW S
  PROVE  /\ Carts!Without(c, S) \in CartType
         /\ Carts!Without(c, S) = [k \in DOMAIN c \ S |-> c[k]]
<1>1. Carts!Without(c, S) = [k \in DOMAIN c \ S |-> c[k]]
  BY DEF Carts!Without, Carts!Restrict
<1>2. DOMAIN c \ S \in SUBSET Items /\ Carts!Without(c, S) \in [DOMAIN c \ S -> Costs]
  BY <1>1, CartIs
<1> QED  BY <1>1, <1>2 DEF CartType

(* What each type of a message or a request carries.                         *)
LEMMA TaskTypes ==
  /\ \A m \in Messages \cup Carts!Requests :
        /\ m.type \in {"add", "delete", "find", "clear", "get", "other", "bad"}
        /\ m.type = "add" => m.item \in Items /\ m.cost \in Costs
                             /\ m = [type |-> "add", item |-> m.item, cost |-> m.cost]
        /\ m.type \in {"delete", "find"} => m.item \in Items
  /\ \A r \in Carts!Requests : r.type \notin {"add", "bad"} /\ r # NoRequest
  /\ \A m \in Messages : m.type # "find"
BY DEF Messages, Carts!TopicMessages, Carts!Adds, Carts!PlainMessages,
       Carts!ItemMessages, Carts!Requests, NoRequest

-----------------------------------------------------------------------------
(* The handler's stage against what it works on: between Poll and Finish, or *)
(* Accept and Respond, the service lives; only two types have a loop.        *)
AtWork ==
    /\ stage # "idle" => up
    /\ serving => /\ inHand = 0
                  /\ stage # "idle" => request \in Carts!Requests
    /\ ~serving => (stage = "idle" <=> inHand = 0)
    /\ stage = "loop" => Task.type \in {"clear", "get"}

TypeInv == TypeOK /\ AtWork

(* What a handler at work has.                                               *)
LEMMA AtWorkHas ==
  ASSUME LoopFacts, TypeInv, stage # "idle"
  PROVE  /\ up /\ Task \in Messages \cup Carts!Requests
         /\ serving => Task \in Carts!Requests
         /\ ~serving => inHand \in 1..Len(log) /\ inHand \in handed
                        /\ Task = log[inHand]
<1>1. CASE serving
  BY <1>1 DEF TypeInv, AtWork, Task
<1>2. CASE ~serving
  <2>1. inHand \in 1..Len(log) /\ inHand \in handed /\ up
    BY <1>2 DEF TypeInv, AtWork, LoopFacts
  <2> QED  BY <1>2, <2>1 DEF Task, LoopFacts
<1> QED  BY <1>1, <1>2

(* A command leaves the store as it was or as it asked for, and says so only *)
(* when that is certain.                                                     *)
LEMMA CommandStep ==
  ASSUME TypeInv, NEW s, NEW a, Command(s, a)
  PROVE  /\ store' \in {store, s}
         /\ a = "ok" => store' = s
         /\ link' \in BOOLEAN /\ faults' \in 0..MaxFaults
         /\ UNCHANGED <<snap, reloaded>>
<1>1. faults \in Nat /\ faults <= MaxFaults /\ link \in BOOLEAN
  BY BasketAssumption DEF TypeInv, TypeOK
<1>2. faults' = faults \/ (faults < MaxFaults /\ faults' = faults + 1)
  BY DEF Command, redis
<1>3. faults' \in 0..MaxFaults
  BY <1>1, <1>2, BasketAssumption
<1>4. /\ store' \in {store, s} /\ (a = "ok" => store' = s)
      /\ link' \in BOOLEAN /\ UNCHANGED <<snap, reloaded>>
  BY <1>1 DEF Command, redis
<1> QED  BY <1>3, <1>4

(* Where what a step leaves in Redis, in its snapshot, in the handler and in *)
(* the last listing comes from.                                              *)
LEMMA StoresStep ==
  ASSUME LoopFacts, TypeInv, [Next]_vars
  PROVE  /\ snap' \in {snap, store}
         /\ shown' \in {shown, found}
         /\ \/ found' \in {found, Carts!Empty}
            \/ \E k \in DOMAIN store : found' = Carts!Put(found, k, store[k])
         /\ \/ store' \in {store, snap}
            \/ \E S : store' = Carts!Without(store, S)
            \/ /\ stage = "begin" /\ Task.type = "add"
               /\ store' = Carts!Put(store, Task.item, Task.cost)
<1>1. CASE AddToBasket
  <2>1. PICK a \in Answers : Command(Carts!Put(store, Task.item, Task.cost), a)
    BY <1>1 DEF AddToBasket, One
  <2>2. /\ UNCHANGED <<found, shown>> /\ stage = "begin" /\ Task.type = "add"
    BY <1>1 DEF AddToBasket, One, AtBegin
  <2> QED  BY <2>1, <2>2, CommandStep
<1>2. CASE DeleteItem
  <2>1. PICK a \in Answers : Command(Carts!Without(store, {Task.item}), a)
    BY <1>2 DEF DeleteItem, One
  <2>2. UNCHANGED <<found, shown>>
    BY <1>2 DEF DeleteItem, One
  <2> QED  BY <2>1, <2>2, CommandStep
<1>3. CASE GetBasketById \/ Keys
  <2>1. PICK a \in Answers : Command(store, a)
    BY <1>3 DEF GetBasketById, One, Keys
  <2>2. UNCHANGED <<found, shown>>
    BY <1>3 DEF GetBasketById, One, Keys
  <2> QED  BY <2>1, <2>2, CommandStep
<1>4. ASSUME NEW k \in Items, ClearOne(k)
      PROVE  /\ UNCHANGED <<found, shown, snap>>
             /\ store' = store \/ (\E S : store' = Carts!Without(store, S))
  <2>1. PICK a \in Answers : Command(Carts!Without(store, {k}), a)
    BY <1>4 DEF ClearOne
  <2>2. UNCHANGED <<found, shown>>
    BY <1>4 DEF ClearOne, Visit
  <2> QED  BY <2>1, <2>2, CommandStep
<1>5. ASSUME NEW k \in Items, GetOne(k)
      PROVE  /\ UNCHANGED <<shown, snap, store>>
             /\ \/ found' = found
                \/ k \in DOMAIN store /\ found' = Carts!Put(found, k, store[k])
  <2>1. PICK a \in Answers :
           /\ Command(store, a)
           /\ found' = IF a = "ok" /\ k \in DOMAIN store
                       THEN Carts!Put(found, k, store[k]) ELSE found
    BY <1>5 DEF GetOne
  <2>2. UNCHANGED shown
    BY <1>5 DEF GetOne, Visit
  <2> QED  BY <2>1, <2>2, CommandStep
<1>6. CASE Receive \/ (\E r \in Carts!Requests : Accept(r)) \/ Ignore
           \/ ClearDone \/ GetDone \/ Finish \/ Respond \/ Throw
           \/ ListingThrows \/ Crash \/ Restart \/ Environment \/ Snapshot
           \/ RedisCrash \/ UNCHANGED vars
  BY <1>6
  DEF Receive, Accept, Begin, Ignore, ClearDone, GetDone, Finish, Respond,
      Throw, ListingThrows, Crash, Stop, Restart, Environment, Snapshot,
      RedisCrash, redis, handler, vars
<1> QED
  BY <1>1, <1>2, <1>3, <1>4, <1>5, <1>6 DEF Next, Service, Handler

(* So they are carts.                                                        *)
LEMMA StoresTypes ==
  ASSUME LoopFacts, TypeInv, [Next]_vars
  PROVE  {found, store, snap, shown}' \subseteq CartType
<1>1. {found, store, snap, shown} \subseteq CartType
  BY DEF TypeInv, TypeOK
<1>2. \A k \in DOMAIN store : Carts!Put(found, k, store[k]) \in CartType
  BY <1>1, CartIs, PutIs
<1>3. \A S : Carts!Without(store, S) \in CartType
  BY <1>1, WithoutIs
<1>4. (stage = "begin" /\ Task.type = "add") =>
         Carts!Put(store, Task.item, Task.cost) \in CartType
  BY <1>1, AtWorkHas, TaskTypes, PutIs
<1> QED  BY <1>1, <1>2, <1>3, <1>4, StoresStep, EmptyIs

(* Every step keeps the types and what the handler works on.                 *)
LEMMA TypeStep == LoopFacts /\ LoopFacts' /\ TypeInv /\ [Next]_vars => TypeInv'
<1> SUFFICES ASSUME LoopFacts, LoopFacts', TypeInv, [Next]_vars
             PROVE  TypeInv'
  OBVIOUS
<1>0. /\ {found, store, snap, shown}' \subseteq CartType
      /\ DOMAIN store \subseteq Items /\ Loop!TypeOK'
  BY StoresTypes, CartIs DEF TypeInv, TypeOK, LoopFacts
<1>1. CASE Receive
  <2>1. /\ UNCHANGED <<serving, request, requests, faults, reloaded>>
        /\ ~serving /\ stage' = "begin" /\ todo' = {} /\ link' = TRUE
        /\ inHand' # 0 /\ up'
    BY <1>1 DEF Receive, Begin, http, Loop!Poll, Loop!broker, LoopFacts
  <2> QED  BY <1>0, <2>1 DEF TypeInv, TypeOK, AtWork
<1>2. ASSUME NEW r \in Carts!Requests, Accept(r) PROVE TypeInv'
  <2>1. /\ UNCHANGED <<serving, faults, reloaded, inHand, up>>
        /\ up /\ serving /\ stage' = "begin" /\ todo' = {} /\ link' = TRUE
        /\ request' = r /\ requests' \in 0..MaxRequests
    BY <1>2, BasketAssumption DEF Accept, Begin, consumer, TypeInv, TypeOK
  <2> QED  BY <1>0, <2>1 DEF TypeInv, TypeOK, AtWork
<1>3. CASE AddToBasket \/ DeleteItem \/ GetBasketById
  <2>1. PICK c, a : One(c, a)
    BY <1>3 DEF AddToBasket, DeleteItem, GetBasketById
  <2>2. /\ UNCHANGED <<consumer, http, todo, reloaded>> /\ stage' = "end"
        /\ link' \in BOOLEAN /\ faults' \in 0..MaxFaults
        /\ stage = "begin" /\ up
    BY <1>3, <2>1, CommandStep
    DEF One, AddToBasket, DeleteItem, GetBasketById, AtBegin
  <2> QED  BY <1>0, <2>2 DEF TypeInv, TypeOK, AtWork, consumer, http
<1>4. CASE Keys
  <2>1. PICK a \in Answers :
           /\ Command(store, a)
           /\ todo' = IF a = "ok" THEN DOMAIN store ELSE {}
    BY <1>4 DEF Keys
  <2>2. /\ UNCHANGED <<consumer, http, reloaded>>
        /\ stage = "begin" /\ stage' = "loop" /\ up
        /\ Task' = Task /\ Task.type \in {"clear", "get"}
        /\ todo' \subseteq Items
    BY <1>0, <1>4, <2>1, CommandStep DEF Keys, AtBegin, Task, consumer, http
  <2>3. link' \in BOOLEAN /\ faults' \in 0..MaxFaults
    BY <2>1, CommandStep
  <2> QED  BY <1>0, <2>2, <2>3 DEF TypeInv, TypeOK, AtWork, consumer, http
<1>5. ASSUME NEW k \in Items, ClearOne(k) \/ GetOne(k) PROVE TypeInv'
  <2>1. PICK c, a : Command(c, a)
    BY <1>5 DEF ClearOne, GetOne
  <2>2. /\ UNCHANGED <<consumer, http, stage, reloaded>> /\ Task' = Task
        /\ todo' \subseteq todo
        /\ link' \in BOOLEAN /\ faults' \in 0..MaxFaults
    BY <1>5, <2>1, CommandStep DEF ClearOne, GetOne, Visit, Task, consumer, http
  <2> QED  BY <1>0, <2>2 DEF TypeInv, TypeOK, AtWork, consumer, http
<1>6. CASE Ignore \/ ClearDone \/ GetDone
  <2>1. /\ UNCHANGED <<consumer, http, todo, link, faults, reloaded>>
        /\ stage # "idle" /\ stage' = "end"
    BY <1>6
    DEF Ignore, ClearDone, GetDone, AtBegin, AtLoop, redis
  <2> QED  BY <1>0, <2>1 DEF TypeInv, TypeOK, AtWork, consumer, http
<1>7. CASE Finish \/ Respond \/ Throw \/ ListingThrows \/ Crash
  <2>1. /\ Stop
        /\ inHand' = 0 \/ (serving /\ UNCHANGED inHand)
    BY <1>7
    DEF Finish, Respond, Throw, ListingThrows, Crash, Loop!Finish, Loop!Throw,
        Loop!Crash, Loop!Die, consumer
  <2> QED  BY <1>0, <2>1 DEF Stop, redis, TypeInv, TypeOK, AtWork
<1>8. CASE Restart
  <2>1. /\ UNCHANGED <<request, requests, stage, todo, link, faults, reloaded, inHand>>
        /\ serving' \in BOOLEAN /\ ~up /\ inHand = 0
    BY <1>8 DEF Restart, Loop!Restart, handler, redis, LoopFacts
  <2> QED  BY <1>0, <2>1 DEF TypeInv, TypeOK, AtWork
<1>9. CASE Environment
  <2>1. /\ UNCHANGED <<serving, request, requests, stage, todo, link, faults, reloaded,
                       inHand, up>>
        /\ \A i \in 1..Len(log) : log'[i] = log[i]
    <3>1. /\ UNCHANGED <<serving, request, requests, stage, todo, link, faults,
                         reloaded>>
          /\ \/ Loop!AutoCommit \/ Loop!Rebalance
             \/ \E m \in Messages : Loop!Publish(m)
      BY <1>9 DEF Environment, http, handler, redis
    <3>2. /\ UNCHANGED <<inHand, up>>
          /\ log' = log \/ \E m \in Messages : log' = Append(log, m)
      BY <3>1 DEF Loop!Publish, Loop!AutoCommit, Loop!Rebalance, Loop!broker
    <3>3. \A i \in 1..Len(log) : log'[i] = log[i]
      BY <3>2 DEF LoopFacts
    <3> QED  BY <3>1, <3>2, <3>3
  <2>2. stage # "idle" => Task' = Task
    BY <2>1, AtWorkHas DEF Task
  <2> QED  BY <1>0, <2>1, <2>2 DEF TypeInv, TypeOK, AtWork
<1>10. CASE Snapshot \/ RedisCrash \/ UNCHANGED vars
  <2>1. /\ UNCHANGED <<consumer, http, handler>> /\ Task' = Task
        /\ link' \in BOOLEAN /\ reloaded' \in BOOLEAN /\ faults' \in 0..MaxFaults
    <3>1. /\ UNCHANGED <<consumer, http, handler>>
          /\ link' \in {link, FALSE} /\ reloaded' \in {reloaded, TRUE}
      BY <1>10 DEF Snapshot, RedisCrash, vars, redis
    <3>2. faults' \in 0..MaxFaults
      BY <1>10, BasketAssumption
      DEF Snapshot, RedisCrash, vars, redis, TypeInv, TypeOK
    <3> QED  BY <3>1, <3>2 DEF Task, consumer, http, TypeInv, TypeOK
  <2> QED
    BY <1>0, <2>1 DEF TypeInv, TypeOK, AtWork, consumer, http, handler
<1> QED
  BY <1>1, <1>2, <1>3, <1>4, <1>5, <1>6, <1>7, <1>8, <1>9, <1>10
  DEF Next, Service, Handler

(* They hold in every state.                                                 *)
LEMMA TypeInvHolds == Spec => []TypeInv
<1>1. Init /\ LoopFacts => TypeInv
  <2> SUFFICES ASSUME Init, LoopFacts PROVE TypeInv
    OBVIOUS
  <2>1. 0 \in 0..MaxRequests /\ 0 \in 0..MaxFaults
    BY BasketAssumption
  <2>2. inHand = 0 /\ Loop!TypeOK
    BY DEF Init, Loop!Init, LoopFacts
  <2> QED  BY <2>1, <2>2, EmptyIs DEF Init, TypeInv, TypeOK, AtWork
<1> QED  BY <1>1, TypeStep, LoopFactsHold, PTL DEF Spec

(* The types hold for any items, costs and bounds, whatever fails.           *)
THEOREM TypeCorrect == Spec => []TypeOK
<1>1. TypeInv => TypeOK
  BY DEF TypeInv
<1> QED  BY <1>1, TypeInvHolds, PTL

-----------------------------------------------------------------------------
(* What is in a cart was put there by a message handed to the service.       *)
Handed(c) ==
    \A i \in DOMAIN c :
        \E h \in handed : log[h] = [type |-> "add", item |-> i, cost |-> c[i]]

(* Messages handed out stay handed out, and where they are in the topic.     *)
LEMMA HandedStays ==
  ASSUME LoopFacts, TypeInv, [Next]_vars
  PROVE  /\ handed \subseteq handed'
         /\ \A h \in handed : log'[h] = log[h]
<1>1. [Loop!Next]_(Loop!vars)
  BY LoopStep
<1>2. log' = log \/ (\E m \in Messages : log' = Append(log, m))
  BY <1>1
  DEF Loop!Next, Loop!Publish, Loop!Loop, Loop!Poll, Loop!Finish, Loop!Throw,
      Loop!Crash, Loop!Die, Loop!AutoCommit, Loop!Rebalance, Loop!Restart,
      Loop!broker, Loop!vars
<1>3. handed \subseteq handed'
  BY <1>1
  DEF Loop!Next, Loop!Publish, Loop!Loop, Loop!Poll, Loop!Finish, Loop!Throw,
      Loop!Crash, Loop!Die, Loop!AutoCommit, Loop!Rebalance, Loop!Restart,
      Loop!history, Loop!vars
<1> QED  BY <1>2, <1>3 DEF LoopFacts

(* A step puts nothing in, but for a message in hand that says so.           *)
LEMMA InventedStep ==
  LoopFacts /\ TypeInv /\ NothingInvented /\ [Next]_vars => NothingInvented'
<1> SUFFICES ASSUME LoopFacts, TypeInv, NothingInvented, [Next]_vars
             PROVE  \A c \in {store, snap, found, shown}' : Handed(c)'
  BY DEF NothingInvented, Handed
<1>1. \A c \in {store, snap, found, shown} : Handed(c)
  BY DEF NothingInvented, Handed
<1>2. {found, store, snap, shown} \subseteq CartType
  BY DEF TypeInv, TypeOK
<1>3. Handed(Carts!Empty)
  BY EmptyIs DEF Handed
<1>4. \A k \in DOMAIN store : Handed(Carts!Put(found, k, store[k]))
  <2> SUFFICES ASSUME NEW k \in DOMAIN store
               PROVE  Handed(Carts!Put(found, k, store[k]))
    OBVIOUS
  <2>1. k \in Items /\ store[k] \in Costs /\ found \in CartType
    BY <1>2, CartIs
  <2> DEFINE new == Carts!Put(found, k, store[k])
  <2>2. \A i \in DOMAIN new : \/ i = k /\ new[i] = store[k]
                              \/ i \in DOMAIN found /\ new[i] = found[i]
    BY <2>1, PutIs
  <2>3. Handed(store) /\ Handed(found)
    BY <1>1
  <2> HIDE DEF new
  <2>4. Handed(new)
    BY <2>2, <2>3 DEF Handed
  <2> QED  BY <2>4 DEF new
<1>5. ASSUME NEW S PROVE Handed(Carts!Without(store, S))
  <2>1. /\ Carts!Without(store, S) = [k \in DOMAIN store \ S |-> store[k]]
        /\ Handed(store)
    BY <1>1, <1>2, WithoutIs
  <2> QED  BY <2>1 DEF Handed
<1>6. (stage = "begin" /\ Task.type = "add") =>
         Handed(Carts!Put(store, Task.item, Task.cost))
  <2> SUFFICES ASSUME stage = "begin", Task.type = "add"
               PROVE  Handed(Carts!Put(store, Task.item, Task.cost))
    OBVIOUS
  <2>1. /\ Task.item \in Items /\ Task.cost \in Costs
        /\ Task = [type |-> "add", item |-> Task.item, cost |-> Task.cost]
        /\ inHand \in handed /\ Task = log[inHand]
    BY AtWorkHas, TaskTypes
  <2> QED  BY <1>1, <1>2, <2>1, PutIs DEF Handed
<1>7. \A c \in {store, snap, found, shown}' : Handed(c)
  BY <1>1, <1>3, <1>4, <1>5, <1>6, StoresStep
<1>8. ASSUME NEW c, Handed(c)
      PROVE  \A i \in DOMAIN c : \E h \in handed' :
                log'[h] = [type |-> "add", item |-> i, cost |-> c[i]]
  BY <1>8, HandedStays DEF Handed
<1> QED  BY <1>7, <1>8 DEF Handed

(* Whatever fails, and whatever Redis forgets, nothing is in it, in its      *)
(* snapshot or in a listing that no message handed to the service put there. *)
THEOREM NothingIsInvented == Spec => []NothingInvented
<1>1. Init => NothingInvented
  BY EmptyIs DEF Init, NothingInvented
<1> QED
  BY <1>1, InventedStep, LoopFactsHold, TypeInvHolds, PTL DEF Spec

-----------------------------------------------------------------------------
(* Nothing fails: no command, no service, no commit of a rebalance.          *)
Calm == MaxFaults = 0 /\ MaxRestarts = 0 /\ MaxRebalances = 0

UndisturbedNext == Service \/ Environment \/ Restart

(* Then the message in hand is the last one polled, KEYS stays true while a  *)
(* handler visits its keys, and a listing has what it has visited.           *)
CartInv ==
    /\ link
    /\ inHand # 0 => inHand = pos
    /\ stage = "loop" => todo \subseteq DOMAIN store
    /\ stage = "begin" => found = Carts!Empty
    /\ (stage = "loop" /\ Task.type = "get") =>
          found = [k \in DOMAIN store \ todo |-> store[k]]

(* The cart that clients see, and how much of the topic it has in it.        *)
CartSeen == IF stage = "loop" /\ Task.type = "clear"
            THEN Restrict(store, DOMAIN store \ todo) ELSE store
Applied == IF /\ inHand # 0
              /\ stage = "begin" \/ (stage = "loop" /\ Task.type = "get")
           THEN inHand - 1 ELSE pos

(* Every command is done, and says so.                                       *)
LEMMA CalmCommand ==
  ASSUME Calm, TypeInv, CartInv, NEW s, NEW a \in Answers, Command(s, a)
  PROVE  a = "ok" /\ store' = s /\ link'
BY DEF Calm, TypeInv, TypeOK, CartInv, Command

(* What a step of a calm service can be.                                     *)
LEMMA CalmStep ==
  ASSUME Calm, LoopFacts, UndisturbedNext
  PROVE  /\ ~Restart /\ ~Loop!Rebalance
         /\ [Next]_vars
BY DEF Calm, LoopFacts, UndisturbedNext, Restart, Loop!Restart, Loop!Rebalance,
       Loop!TypeOK, Next

(* What a message or a request does to a cart.                               *)
LEMMA EffectIs ==
  ASSUME NEW c, NEW m
  PROVE  /\ m.type = "add" => Carts!Effect(c, m) = Carts!Put(c, m.item, m.cost)
         /\ m.type = "delete" => Carts!Effect(c, m) = Carts!Without(c, {m.item})
         /\ m.type = "clear" => Carts!Effect(c, m) = Carts!Empty
         /\ m.type \notin {"add", "delete", "clear"} => Carts!Effect(c, m) = c
<1>1. CASE m.type = "add"
  BY <1>1, Zenon DEF Carts!Effect
<1>2. CASE m.type = "delete"
  <2>1. m.type # "add" /\ m.type # "clear"
    BY <1>2
  <2> QED  BY <1>2, <2>1 DEF Carts!Effect
<1>3. CASE m.type = "clear"
  <2>1. m.type # "add" /\ m.type # "delete"
    BY <1>3
  <2> QED  BY <1>3, <2>1 DEF Carts!Effect
<1>4. CASE m.type \notin {"add", "delete", "clear"}
  BY <1>4 DEF Carts!Effect
<1> QED  BY <1>1, <1>2, <1>3, <1>4

(* A restriction to all of a cart, or to nothing of it.                      *)
LEMMA RestrictIs ==
  ASSUME NEW c \in CartType
  PROVE  /\ \A S : Restrict(c, S) = [k \in S |-> c[k]]
         /\ Restrict(c, DOMAIN c) = c /\ Restrict(c, {}) = Carts!Empty
<1>1. \A S : Restrict(c, S) = [k \in S |-> c[k]]
  BY DEF Restrict
<1>2. c = [k \in DOMAIN c |-> c[k]]
  BY CartIs
<1>3. Restrict(c, {}) \in [{} -> Costs]
  BY <1>1
<1>4. Restrict(c, {}) \in CartType /\ DOMAIN Restrict(c, {}) = {}
  BY <1>3 DEF CartType
<1> QED  BY <1>1, <1>2, <1>4, EmptyIs

(* What a calm service keeps.                                                *)
LEMMA CartInvStep ==
  ASSUME Calm, LoopFacts, LoopFacts', TypeInv, CartInv,
         UndisturbedNext \/ UNCHANGED vars
  PROVE  CartInv'
<1>0. /\ store \in CartType /\ DOMAIN store \subseteq Items /\ inHand \in Nat /\ pos \in Nat
  BY CartIs DEF TypeInv, TypeOK, LoopFacts
<1>1. CASE Receive
  <2>1. /\ stage' = "begin" /\ found' = Carts!Empty /\ link' = TRUE
        /\ inHand' = pos'
    BY <1>1 DEF Receive, Begin, Loop!Poll
  <2> QED  BY <2>1 DEF CartInv
<1>2. ASSUME NEW r \in Carts!Requests, Accept(r) PROVE CartInv'
  <2>1. /\ stage' = "begin" /\ found' = Carts!Empty /\ link' = TRUE
        /\ UNCHANGED <<inHand, pos>>
    BY <1>2 DEF Accept, Begin, consumer
  <2> QED  BY <2>1 DEF CartInv
<1>3. CASE AddToBasket \/ DeleteItem \/ GetBasketById
  <2>1. PICK c : \E a \in Answers : One(c, a)
    BY <1>3 DEF AddToBasket, DeleteItem, GetBasketById
  <2>2. link' /\ stage' = "end" /\ UNCHANGED <<inHand, pos>>
    BY <2>1, CalmCommand DEF One, consumer
  <2> QED  BY <2>2 DEF CartInv
<1>4. CASE Keys
  <2>1. PICK a \in Answers :
           /\ Command(store, a)
           /\ todo' = IF a = "ok" THEN DOMAIN store ELSE {}
    BY <1>4 DEF Keys
  <2>2. /\ UNCHANGED <<inHand, pos, found, store>> /\ stage = "begin" /\ stage' = "loop"
        /\ todo' = DOMAIN store /\ link'
    BY <1>4, <2>1, CalmCommand DEF Keys, AtBegin, consumer
  <2>3. found' = [k \in DOMAIN store' \ todo' |-> store'[k]]
    <3>1. [k \in {} |-> store[k]] = Carts!Empty
      BY <1>0, RestrictIs
    <3>2. DOMAIN store' \ todo' = {} /\ found' = Carts!Empty
      BY <2>2 DEF CartInv
    <3> QED  BY <2>2, <3>1, <3>2
  <2> QED  BY <2>2, <2>3 DEF CartInv
<1>5. ASSUME NEW k \in Items, ClearOne(k) PROVE CartInv'
  <2>1. PICK a \in Answers : Command(Carts!Without(store, {k}), a)
    BY <1>5 DEF ClearOne
  <2>2. /\ UNCHANGED <<inHand, pos, stage>> /\ stage = "loop" /\ Task.type = "clear"
        /\ Task' = Task /\ todo' = todo \ {k}
        /\ store' = Carts!Without(store, {k}) /\ link'
    BY <1>5, <2>1, CalmCommand DEF ClearOne, AtLoop, Visit, Task, consumer, http
  <2>3. DOMAIN store' = DOMAIN store \ {k}
    <3>1. Carts!Without(store, {k}) = [x \in DOMAIN store \ {k} |-> store[x]]
      BY <1>0, WithoutIs
    <3> QED  BY <2>2, <3>1
  <2> QED  BY <2>2, <2>3 DEF CartInv
<1>6. ASSUME NEW k \in Items, GetOne(k) PROVE CartInv'
  <2>1. PICK a \in Answers :
           /\ Command(store, a)
           /\ found' = IF a = "ok" /\ k \in DOMAIN store
                       THEN Carts!Put(found, k, store[k]) ELSE found
    BY <1>6 DEF GetOne
  <2>2. /\ UNCHANGED <<inHand, pos, stage, store>> /\ stage = "loop"
        /\ Task.type = "get" /\ Task' = Task
        /\ k \in todo /\ todo' = todo \ {k} /\ link'
        /\ k \in DOMAIN store /\ found' = Carts!Put(found, k, store[k])
    BY <1>6, <2>1, CalmCommand
    DEF GetOne, AtLoop, Visit, Task, consumer, http, CartInv
  <2>3. found' = [j \in DOMAIN store \ (todo \ {k}) |-> store[j]]
    <3>1. found = [j \in DOMAIN store \ todo |-> store[j]]
      BY <2>2 DEF CartInv
    <3>2. found' = [j \in (DOMAIN found) \cup {k} |-> IF j = k THEN store[k] ELSE found[j]]
      BY <2>2 DEF Carts!Put
    <3>3. (DOMAIN found) \cup {k} = DOMAIN store \ (todo \ {k})
      BY <2>2, <3>1
    <3> QED  BY <3>1, <3>2, <3>3
  <2> QED  BY <2>2, <2>3 DEF CartInv
<1>7. CASE Ignore \/ ClearDone \/ GetDone
  <2>1. stage' = "end" /\ UNCHANGED <<inHand, pos, link>>
    BY <1>7 DEF Ignore, ClearDone, GetDone, consumer, redis
  <2> QED  BY <2>1 DEF CartInv
<1>8. CASE Finish \/ Respond \/ Throw \/ ListingThrows
  <2>1. /\ stage' = "idle" /\ UNCHANGED link
        /\ inHand' = 0 \/ UNCHANGED <<inHand, pos>>
    BY <1>8
    DEF Finish, Respond, Throw, ListingThrows, Stop, Loop!Finish, Loop!Throw,
        Loop!Die, consumer, redis
  <2> QED  BY <2>1 DEF CartInv
<1>9. CASE Environment
  <2>1. /\ UNCHANGED <<serving, request, stage, todo, found, link, store, inHand, pos>>
        /\ \A i \in 1..Len(log) : log'[i] = log[i]
    <3>1. /\ UNCHANGED <<serving, request, stage, todo, found, link, store>>
          /\ Loop!AutoCommit \/ \E m \in Messages : Loop!Publish(m)
      BY <1>9, CalmStep DEF Environment, http, handler, redis, UndisturbedNext
    <3>2. /\ UNCHANGED <<inHand, pos>>
          /\ log' = log \/ \E m \in Messages : log' = Append(log, m)
      BY <3>1 DEF Loop!Publish, Loop!AutoCommit
    <3>3. \A i \in 1..Len(log) : log'[i] = log[i]
      BY <3>2 DEF LoopFacts
    <3> QED  BY <3>1, <3>2, <3>3
  <2>2. stage # "idle" => Task' = Task
    BY <2>1, AtWorkHas DEF Task
  <2> QED  BY <2>1, <2>2 DEF CartInv
<1>10. CASE UNCHANGED vars
  BY <1>10 DEF CartInv, Task, vars, consumer, http, handler, redis
<1> QED
  BY <1>1, <1>2, <1>3, <1>4, <1>5, <1>6, <1>7, <1>8, <1>9, <1>10, CalmStep
  DEF UndisturbedNext, Service, Handler

(* The step at which clients see a task done is the cart's step for it.      *)
LEMMA Done ==
  ASSUME LoopFacts, TypeInv, CartInv, stage # "idle", UNCHANGED <<log, pos>>,
         ~serving => Applied = inHand - 1,
         Applied' = pos, CartSeen' = Carts!Effect(CartSeen, Task),
         shown' = IF Task.type = "get" THEN CartSeen ELSE shown
  PROVE  Carts!Next
<1>1. Carts!Do(Task)
  BY DEF Carts!Do, CartSeen
<1>2. CASE serving
  <2>1. Task \in Carts!Requests /\ Applied = pos
    BY <1>2, AtWorkHas DEF TypeInv, AtWork, Applied
  <2>2. Carts!Ask(Task)
    BY <1>1, <2>1 DEF Carts!Ask, Applied
  <2> QED  BY <2>1, <2>2 DEF Carts!Next
<1>3. CASE ~serving
  <2>1. /\ inHand \in 1..Len(log) /\ Task = log[inHand] /\ inHand = pos
    BY <1>3, AtWorkHas DEF CartInv
  <2>2. /\ Applied \in Nat /\ Applied < Len(log) /\ Applied + 1 = inHand
        /\ Applied' = Applied + 1
    BY <1>3, <2>1 DEF LoopFacts
  <2>3. Carts!Apply
    BY <1>1, <2>1, <2>2 DEF Carts!Apply, Applied
  <2> QED  BY <2>3 DEF Carts!Next
<1> QED  BY <1>2, <1>3

(* Every step of a calm service is the cart's step or is not seen.           *)
LEMMA CartStep ==
  ASSUME Calm, LoopFacts, LoopFacts', TypeInv, TypeInv', CartInv,
         UndisturbedNext \/ UNCHANGED vars
  PROVE  Carts!Next \/ UNCHANGED <<log, Applied, CartSeen, shown>>
<1>0. /\ store \in CartType /\ store' \in CartType /\ inHand \in Nat /\ pos \in Nat
      /\ inHand # 0 => inHand = pos
      /\ stage # "idle" => ((~serving) => inHand # 0)
      /\ serving => inHand = 0
  BY DEF TypeInv, TypeOK, AtWork, LoopFacts, CartInv
<1>1. CASE Receive
  <2>1. /\ UNCHANGED <<log, store, shown>> /\ stage = "idle" /\ stage' = "begin"
        /\ inHand = 0 /\ inHand' = pos + 1
    BY <1>1 DEF Receive, Begin, Loop!Poll, Loop!broker
  <2> QED  BY <1>0, <2>1 DEF Applied, CartSeen
<1>2. ASSUME NEW r \in Carts!Requests, Accept(r)
      PROVE  UNCHANGED <<log, Applied, CartSeen, shown>>
  <2>1. /\ UNCHANGED <<log, pos, inHand, store, shown>> /\ serving
        /\ stage = "idle" /\ stage' = "begin"
    BY <1>2 DEF Accept, Begin, consumer
  <2> QED  BY <1>0, <2>1 DEF Applied, CartSeen
<1>3. CASE AddToBasket \/ DeleteItem \/ GetBasketById \/ Ignore
  <2>1. /\ UNCHANGED <<log, pos, inHand, shown>>
        /\ stage = "begin" /\ stage' = "end"
        /\ Task.type \in {"add", "delete", "find", "other"}
    BY <1>3
    DEF AddToBasket, DeleteItem, GetBasketById, Ignore, One, AtBegin, consumer
  <2>2. store' = Carts!Effect(store, Task)
    <3>1. CASE AddToBasket
      <4>1. /\ Task.type = "add"
            /\ \E a \in Answers : Command(Carts!Put(store, Task.item, Task.cost), a)
        BY <3>1 DEF AddToBasket, One, AtBegin
      <4>2. store' = Carts!Put(store, Task.item, Task.cost)
        BY <4>1, CalmCommand
      <4>3. Carts!Effect(store, Task) = Carts!Put(store, Task.item, Task.cost)
        BY <4>1, EffectIs
      <4> QED  BY <4>2, <4>3
    <3>2. CASE DeleteItem
      <4>1. /\ Task.type = "delete"
            /\ \E a \in Answers : Command(Carts!Without(store, {Task.item}), a)
        BY <3>2 DEF DeleteItem, One, AtBegin
      <4>2. store' = Carts!Without(store, {Task.item})
        BY <4>1, CalmCommand
      <4>3. Carts!Effect(store, Task) = Carts!Without(store, {Task.item})
        BY <4>1, EffectIs
      <4> QED  BY <4>2, <4>3
    <3>3. CASE GetBasketById
      <4>1. Task.type = "find" /\ \E a \in Answers : Command(store, a)
        BY <3>3 DEF GetBasketById, One, AtBegin
      <4> QED  BY <4>1, CalmCommand, EffectIs
    <3>4. CASE Ignore
      <4>1. Task.type = "other" /\ UNCHANGED store
        BY <3>4 DEF Ignore, AtBegin, redis
      <4> QED  BY <4>1, EffectIs
    <3> QED  BY <1>3, <3>1, <3>2, <3>3, <3>4
  <2>3. CartSeen = store /\ CartSeen' = store' /\ Applied' = pos
        /\ (~serving => Applied = inHand - 1)
    BY <1>0, <2>1 DEF CartSeen, Applied
  <2> QED  BY <2>1, <2>2, <2>3, Done
<1>4. CASE Keys
  <2>1. PICK a \in Answers :
           /\ Command(store, a)
           /\ todo' = IF a = "ok" THEN DOMAIN store ELSE {}
    BY <1>4 DEF Keys
  <2>2. /\ UNCHANGED <<log, pos, inHand, shown, store>> /\ Task' = Task
        /\ stage = "begin" /\ stage' = "loop" /\ Task.type \in {"clear", "get"}
        /\ todo' = DOMAIN store
    BY <1>4, <2>1, CalmCommand DEF Keys, AtBegin, Task, consumer, http
  <2>3. CASE Task.type = "get"
    BY <2>2, <2>3 DEF Applied, CartSeen
  <2>4. CASE Task.type = "clear"
    <3>1. CartSeen = store /\ CartSeen' = Carts!Effect(CartSeen, Task)
      <4>1. CartSeen = store /\ CartSeen' = Restrict(store, {})
        BY <2>2, <2>4 DEF CartSeen
      <4> QED  BY <1>0, <2>4, <4>1, RestrictIs, EffectIs
    <3>2. Applied' = pos /\ (~serving => Applied = inHand - 1)
      BY <1>0, <2>2, <2>4 DEF Applied
    <3> QED  BY <2>2, <2>4, <3>1, <3>2, Done
  <2> QED  BY <2>2, <2>3, <2>4
<1>5. ASSUME NEW k \in Items, ClearOne(k)
      PROVE  UNCHANGED <<log, Applied, CartSeen, shown>>
  <2>1. PICK a \in Answers : Command(Carts!Without(store, {k}), a)
    BY <1>5 DEF ClearOne
  <2>2. /\ UNCHANGED <<log, inHand, pos, stage, shown>> /\ stage = "loop"
        /\ Task.type = "clear" /\ Task' = Task
        /\ k \in todo /\ todo' = todo \ {k}
        /\ store' = Carts!Without(store, {k})
    BY <1>5, <2>1, CalmCommand DEF ClearOne, AtLoop, Visit, Task, consumer, http
  <2>3. store' = [j \in DOMAIN store \ {k} |-> store[j]]
    BY <1>0, <2>2, WithoutIs
  <2>4. CartSeen' = CartSeen
    <3>1. DOMAIN store' \ todo' = DOMAIN store \ todo
      BY <2>2, <2>3
    <3>2. Restrict(store', DOMAIN store' \ todo')
             = [j \in DOMAIN store \ todo |-> store[j]]
      <4>1. Restrict(store', DOMAIN store' \ todo')
               = [j \in DOMAIN store \ todo |-> store'[j]]
        BY <3>1 DEF Restrict
      <4>2. \A j \in DOMAIN store \ todo : store'[j] = store[j]
        BY <2>2, <2>3
      <4> QED  BY <4>1, <4>2
    <3> QED  BY <1>0, <2>2, <3>2, RestrictIs DEF CartSeen
  <2> QED  BY <2>2, <2>4 DEF Applied
<1>6. ASSUME NEW k \in Items, GetOne(k)
      PROVE  UNCHANGED <<log, Applied, CartSeen, shown>>
  <2>1. PICK a \in Answers : Command(store, a)
    BY <1>6 DEF GetOne
  <2>2. /\ UNCHANGED <<log, inHand, pos, stage, shown, store>>
        /\ Task.type = "get" /\ Task' = Task
    BY <1>6, <2>1, CalmCommand DEF GetOne, AtLoop, Visit, Task, consumer, http
  <2> QED  BY <2>2 DEF Applied, CartSeen
<1>7. CASE ClearDone
  <2>1. /\ UNCHANGED <<log, inHand, pos, store, shown>> /\ stage = "loop"
        /\ Task.type = "clear" /\ todo = {} /\ stage' = "end"
    BY <1>7 DEF ClearDone, AtLoop, consumer, redis
  <2>2. CartSeen = store /\ CartSeen' = store
    <3>1. CartSeen = Restrict(store, DOMAIN store) /\ CartSeen' = store
      BY <2>1 DEF CartSeen
    <3> QED  BY <1>0, <3>1, RestrictIs
  <2> QED  BY <2>1, <2>2 DEF Applied
<1>8. CASE GetDone
  <2>1. /\ UNCHANGED <<log, inHand, pos, store>> /\ stage = "loop"
        /\ Task.type = "get" /\ todo = {} /\ stage' = "end" /\ shown' = found
    BY <1>8 DEF GetDone, AtLoop, consumer, redis
  <2>2. CartSeen = store /\ CartSeen' = store /\ found = store
    <3>1. found = [k \in DOMAIN store |-> store[k]]
      BY <2>1 DEF CartInv
    <3> QED  BY <1>0, <2>1, <3>1, CartIs DEF CartSeen
  <2>3. CartSeen' = Carts!Effect(CartSeen, Task)
    BY <2>1, <2>2, EffectIs
  <2>4. Applied' = pos /\ (~serving => Applied = inHand - 1)
    BY <1>0, <2>1 DEF Applied
  <2> QED  BY <2>1, <2>2, <2>3, <2>4, Done
<1>9. CASE Finish \/ Respond
  <2>1. /\ UNCHANGED <<log, pos, store, shown>> /\ stage = "end" /\ stage' = "idle"
    BY <1>9 DEF Finish, Respond, Stop, Loop!Finish, Loop!broker, consumer, redis
  <2> QED  BY <2>1 DEF Applied, CartSeen
<1>10. CASE Throw
  <2>1. /\ UNCHANGED <<log, pos, store, shown>> /\ ~serving /\ stage = "begin"
        /\ stage' = "idle" /\ inHand' = 0 /\ log[inHand] \in Poison
    BY <1>10 DEF Throw, Stop, Loop!Throw, Loop!Die, Loop!broker, redis
  <2>2. Task.type = "bad"
    BY <2>1 DEF Task, Poison
  <2>3. CartSeen = store /\ CartSeen' = Carts!Effect(CartSeen, Task)
    BY <2>1, <2>2, EffectIs DEF CartSeen
  <2>4. Applied' = pos /\ Applied = inHand - 1
    BY <1>0, <2>1 DEF Applied
  <2> QED  BY <2>1, <2>2, <2>3, <2>4, Done
<1>11. CASE ListingThrows
  <2>1. /\ UNCHANGED <<log, pos, store, shown>> /\ serving /\ stage = "loop"
        /\ Task.type = "get" /\ stage' = "idle" /\ inHand' = 0
    BY <1>11 DEF ListingThrows, AtLoop, Stop, Loop!Die, Loop!broker, redis
  <2> QED  BY <1>0, <2>1 DEF Applied, CartSeen
<1>12. CASE Environment
  <2>1. /\ UNCHANGED <<serving, request, stage, todo, store, shown, inHand, pos>>
        /\ \A i \in 1..Len(log) : log'[i] = log[i]
        /\ \/ UNCHANGED log
           \/ \E m \in Messages : Len(log) < MaxLog /\ log' = Append(log, m)
    BY <1>12, CalmStep
    DEF Environment, http, handler, redis, Loop!Publish, Loop!AutoCommit,
        LoopFacts, UndisturbedNext
  <2>2. stage # "idle" => Task' = Task
    BY <2>1, AtWorkHas DEF Task
  <2>3. UNCHANGED <<Applied, CartSeen>>
    BY <2>1, <2>2 DEF Applied, CartSeen
  <2>4. ASSUME NEW m \in Messages, Len(log) < MaxLog, log' = Append(log, m)
        PROVE  Carts!Next
    <3>1. Carts!Publish(m)
      BY <2>1, <2>3, <2>4 DEF Carts!Publish, Applied, CartSeen
    <3> QED  BY <3>1 DEF Carts!Next, Messages
  <2> QED  BY <2>1, <2>3, <2>4
<1>13. CASE UNCHANGED vars
  BY <1>13 DEF vars, consumer, http, handler, redis, Applied, CartSeen, Task
<1> QED
  BY <1>1, <1>2, <1>3, <1>4, <1>5, <1>6, <1>7, <1>8, <1>9, <1>10, <1>11, <1>12,
     <1>13, CalmStep
  DEF UndisturbedNext, Service, Handler

(* While nothing fails, the basket service is the atomic cart of module      *)
(* Cart: a clear or a listing of many commands never shows half of it, and   *)
(* messages take effect once, in the order of the topic; with any items and  *)
(* costs, over the topic or over HTTP.                                       *)
THEOREM RefinesCart ==
  ASSUME Calm
  PROVE  UndisturbedSpec => ImplementsCart
<1>1. UndisturbedSpec => Spec
  <2>1. UndisturbedNext => Next
    BY DEF UndisturbedNext, Next
  <2> QED  BY <2>1, PTL DEF UndisturbedSpec, UndisturbedNext, Spec
<1>2. Spec => [](LoopFacts /\ TypeInv)
  BY LoopFactsHold, TypeInvHolds, PTL
<1>3. Init => CartInv
  BY DEF Init, Loop!Init, CartInv
<1>4. /\ LoopFacts /\ TypeInv /\ (LoopFacts /\ TypeInv)' /\ CartInv
      /\ [UndisturbedNext]_vars
      => CartInv' /\ [Carts!Next]_<<log, Applied, CartSeen, shown>>
  BY CartInvStep, CartStep
<1>5. Init => Carts!Init
  BY DEF Init, Loop!Init, Carts!Init
<1> QED
  BY <1>1, <1>2, <1>3, <1>4, <1>5, PTL
  DEF UndisturbedSpec, UndisturbedNext, ImplementsCart, Carts!Spec, Applied, CartSeen

-----------------------------------------------------------------------------
(* What is proved of losses rests on how the offsets stand to each other.    *)
OffsetFacts ==
    /\ pos <= Len(log) /\ committed \in Nat /\ committed <= pos
    /\ inHand # 0 => inHand \in handed \ completed /\ pos <= inHand
    /\ completed \subseteq handed
    /\ 1..pos \subseteq handed

(* They hold in every state.                                                 *)
LEMMA OffsetFactsHold == Spec => []OffsetFacts
<1>1. Proved!IInv => OffsetFacts
  BY DEF Proved!IInv, Proved!TypeOK, Proved!Offsets, OffsetFacts
<1> QED  BY <1>1, ConsumerInv, PTL

Dropped == handed \ (completed \cup {inHand})

(* A message in hand that has yet to do to an item what it says.             *)
Pending(k, i) ==
    k = inHand /\ (stage = "begin" \/ (stage = "loop" /\ i \in todo))

(* Redis has the item as some message left it, since when all about it up to *)
(* the position are lost or pending.  The position may have been set back    *)
(* before that message: what follows comes again.                            *)
ItemPaid(i, M) ==
    \E n \in About(i) \cup {0} :
        /\ LeftBy(n, i)
        /\ \A k \in About(i) : n < k /\ k <= pos => k \in M \/ Pending(k, i)

(* The messages of M are enough, and they are paid for.                      *)
Covered(M) ==
    /\ M \in SUBSET handed
    /\ Cardinality(M \ Dropped) <= faults
    /\ stage = "loop" /\ ~link => inHand \in M
    /\ \A i \in Items : ItemPaid(i, M)

PaidInv ==
    (requests = 0 /\ ~reloaded) =>
        /\ serving => stage = "idle"
        /\ stage = "begin" => link
        /\ \E M : Covered(M)

(* A step that costs nothing more, or one message for a fault, is paid for.  *)
LEMMA Cost ==
  ASSUME LoopFacts, TypeInv, NEW M \in SUBSET handed, Cardinality(M \ Dropped) <= faults,
         NEW N,
         \/ N \ Dropped' \subseteq M \ Dropped /\ faults' = faults
         \/ N \ Dropped' \subseteq (M \ Dropped) \cup {inHand} /\ faults' = faults + 1
  PROVE  Cardinality(N \ Dropped') <= faults'
<1> DEFINE A == M \ Dropped
           B == N \ Dropped'
<1>0. IsFiniteSet(1..Len(log))
  <2>1. 1 \in Int /\ Len(log) \in Int
    BY DEF LoopFacts
  <2> QED  BY <2>1, FS_Interval
<1>1. IsFiniteSet(1..Len(log)) /\ A \in SUBSET (1..Len(log))
  BY <1>0 DEF LoopFacts
<1>2. IsFiniteSet(A) /\ Cardinality(A) \in Nat /\ faults \in Nat
  BY <1>1, FS_Subset, FS_CardinalityType, BasketAssumption DEF TypeInv, TypeOK
<1>3. CASE B \subseteq A /\ faults' = faults
  <2>1. Cardinality(B) \in Nat /\ Cardinality(B) <= Cardinality(A)
    BY <1>2, <1>3, FS_Subset, FS_CardinalityType
  <2> QED  BY <1>2, <1>3, <2>1
<1>4. CASE B \subseteq A \cup {inHand} /\ faults' = faults + 1
  <2>1. /\ IsFiniteSet(A \cup {inHand})
        /\ Cardinality(A \cup {inHand}) \in {Cardinality(A), Cardinality(A) + 1}
    BY <1>2, FS_AddElement
  <2>2. Cardinality(B) \in Nat /\ Cardinality(B) <= Cardinality(A \cup {inHand})
    BY <1>4, <2>1, FS_Subset, FS_CardinalityType
  <2> QED  BY <1>2, <1>4, <2>1, <2>2
<1> QED  BY <1>3, <1>4

(* The step left the item in Redis alone; it did with it what the message in *)
(* hand says.                                                                *)
Kept(i) ==
    /\ i \in DOMAIN store' <=> i \in DOMAIN store
    /\ i \in DOMAIN store => store'[i] = store[i]
Taken(i) == inHand \in About(i) /\ LeftBy(inHand, i)'

(* An item left alone stays paid for, as what was pending is lost now or     *)
(* still pending.                                                            *)
LEMMA ItemKept ==
  ASSUME LoopFacts, LoopFacts', NEW i \in Items, NEW M, NEW N, M \subseteq N,
         ItemPaid(i, M), Kept(i), pos' <= pos,
         Len(log) <= Len(log'), \A k \in 1..Len(log) : log'[k] = log[k],
         \A k \in About(i) : Pending(k, i) => k \in N \/ Pending(k, i)'
  PROVE  ItemPaid(i, N)'
<1>1. PICK n \in About(i) \cup {0} :
         /\ LeftBy(n, i)
         /\ \A k \in About(i) : n < k /\ k <= pos => k \in M \/ Pending(k, i)
  BY DEF ItemPaid
<1>2. /\ About(i) = {k \in 1..Len(log) : Touches(log[k], i)}
      /\ About(i)' = {k \in 1..Len(log') : Touches(log'[k], i)}
  BY DEF About, LoopFacts
<1>3. n \in About(i)' \cup {0}
  BY <1>1, <1>2 DEF LoopFacts
<1>4. LeftBy(n, i)'
  BY <1>1, <1>2 DEF LeftBy, Kept
<1>5. ASSUME NEW k \in About(i)', n < k, k <= pos' PROVE k \in N \/ Pending(k, i)'
  <2>1. k \in About(i) /\ k <= pos
    BY <1>2, <1>5 DEF LoopFacts
  <2> QED  BY <1>1, <1>5, <2>1
<1> QED  BY <1>3, <1>4, <1>5 DEF ItemPaid

(* An item the message in hand took is paid for: nothing after it is behind  *)
(* the position.                                                             *)
LEMMA ItemTaken ==
  ASSUME LoopFacts, OffsetFacts, NEW i \in Items, NEW N, Taken(i),
         UNCHANGED <<log, inHand, pos>>
  PROVE  ItemPaid(i, N)'
<1>1. inHand \in 1..Len(log) /\ inHand \in About(i)' /\ About(i)' = About(i)
  BY DEF Taken, About, LoopFacts
<1>2. pos <= inHand /\ pos \in Nat /\ inHand \in Nat
  BY <1>1 DEF OffsetFacts, LoopFacts
<1>3. \A k \in About(i)' : ~(inHand < k /\ k <= pos')
  BY <1>2 DEF About, LoopFacts
<1> QED  BY <1>1, <1>3 DEF ItemPaid, Taken

(* A handler that sends a command loses at most its own message, for one     *)
(* fault, however many of its commands fail after that.                      *)
LEMMA CommandPaid ==
  ASSUME LoopFacts, LoopFacts', TypeInv, OffsetFacts, NEW M, Covered(M),
         UNCHANGED <<log, pos, inHand, handed, completed>>,
         inHand # 0, stage \in {"begin", "loop"}, stage = "begin" => link,
         NEW s, NEW a, Command(s, a),
         \A i \in Items : Kept(i) \/ Taken(i),
         a = "ok" =>
            \A i \in Items :
               \/ Taken(i)
               \/ /\ Kept(i)
                  /\ inHand \in About(i) /\ Pending(inHand, i) => Pending(inHand, i)'
  PROVE  \E N : Covered(N)'
<1>1. Dropped' = Dropped /\ inHand \in handed
  BY DEF Dropped, OffsetFacts
<1>2. CASE a = "ok"
  <2>1. link /\ link' /\ faults' = faults
    BY <1>2 DEF Command
  <2>2. Cardinality(M \ Dropped') <= faults'
    BY <1>1, <2>1, Cost DEF Covered
  <2>3. ASSUME NEW i \in Items PROVE ItemPaid(i, M)'
    <3>1. CASE Taken(i)
      BY <3>1, ItemTaken
    <3>2. CASE Kept(i) /\ (inHand \in About(i) /\ Pending(inHand, i)
                              => Pending(inHand, i)')
      <4>1. \A k \in About(i) : Pending(k, i) => Pending(k, i)'
        BY <3>2 DEF Pending
      <4> QED  BY <3>2, <4>1, ItemKept DEF Covered, LoopFacts
    <3> QED  BY <1>2, <3>1, <3>2
  <2> QED  BY <2>1, <2>2, <2>3 DEF Covered
<1>3. CASE a # "ok"
  <2>0. PICK N : N = M \cup {inHand}
    OBVIOUS
  <2>1. Cardinality(N \ Dropped') <= faults'
    <3>1. CASE link
      <4>1. faults' = faults + 1
        BY <1>3, <3>1 DEF Command
      <4> QED  BY <1>1, <2>0, <4>1, Cost DEF Covered
    <3>2. CASE ~link
      <4>1. faults' = faults /\ inHand \in M
        BY <3>2 DEF Command, redis, Covered
      <4> QED  BY <1>1, <2>0, <4>1, Cost DEF Covered
    <3> QED  BY <3>1, <3>2
  <2>2. ASSUME NEW i \in Items PROVE ItemPaid(i, N)'
    <3>1. CASE Taken(i)
      BY <3>1, ItemTaken
    <3>2. CASE Kept(i)
      <4>1. M \subseteq N /\ \A k \in About(i) : Pending(k, i) => k \in N
        BY <2>0 DEF Pending
      <4>2. ItemPaid(i, M) /\ pos' <= pos /\ Len(log) <= Len(log')
        BY DEF Covered, LoopFacts
      <4> QED  BY <3>2, <4>1, <4>2, ItemKept
    <3> QED  BY <3>1, <3>2
  <2>3. N \in SUBSET handed'
    BY <1>1, <2>0 DEF Covered
  <2>4. inHand' \in N
    BY <2>0
  <2> QED  BY <2>1, <2>2, <2>3, <2>4 DEF Covered
<1> QED  BY <1>2, <1>3

(* A step around the handler, or that leaves Redis alone, stays paid for.    *)
LEMMA OtherPaid ==
  ASSUME LoopFacts, LoopFacts', TypeInv, NEW M, Covered(M),
         UNCHANGED <<store, faults>>, handed \subseteq handed', pos' <= pos,
         Len(log) <= Len(log'), \A k \in 1..Len(log) : log'[k] = log[k],
         NEW N, M \subseteq N, N \subseteq handed', N \ Dropped' \subseteq M \ Dropped,
         stage' = "loop" /\ ~link' => inHand' \in N,
         \A i \in Items : \A k \in About(i) :
             Pending(k, i) => k \in N \/ Pending(k, i)'
  PROVE  Covered(N)'
<1>1. Cardinality(N \ Dropped') <= faults'
  BY Cost DEF Covered
<1>2. ASSUME NEW i \in Items PROVE ItemPaid(i, N)'
  BY ItemKept DEF Covered, Kept
<1> QED  BY <1>1, <1>2 DEF Covered

(* What a handler of the topic works on.                                     *)
LEMMA Topical ==
  ASSUME LoopFacts, TypeInv, PaidInv, requests = 0, ~reloaded, stage # "idle"
  PROVE  /\ ~serving /\ Task = log[inHand] /\ inHand \in 1..Len(log)
         /\ inHand # 0 /\ Task \in Messages
         /\ \A i : inHand \in About(i) <=> Touches(Task, i)
<1>1. ~serving
  BY DEF PaidInv
<1>2. Task = log[inHand] /\ inHand \in 1..Len(log)
  BY <1>1, AtWorkHas
<1> QED  BY <1>1, <1>2 DEF About, LoopFacts

(* What AddToBasket, DeleteItem and GetBasketById ask of Redis is what the   *)
(* message in hand says, and of its own item only.                           *)
LEMMA OnePaid ==
  ASSUME LoopFacts, LoopFacts', TypeInv, OffsetFacts, PaidInv, NEW M, Covered(M),
         requests = 0, ~reloaded, AddToBasket \/ DeleteItem \/ GetBasketById
  PROVE  \E N : Covered(N)'
<1>1. /\ UNCHANGED <<log, pos, inHand, handed, completed>>
      /\ stage = "begin" /\ link
  BY DEF AddToBasket, DeleteItem, GetBasketById, AtBegin, One, consumer, PaidInv
<1>2. ~GetBasketById
  BY Topical, TaskTypes, <1>1 DEF GetBasketById, AtBegin
<1>3. store \in CartType
  BY DEF TypeInv, TypeOK
<1>4. CASE AddToBasket
  <2>1. PICK a \in Answers : Command(Carts!Put(store, Task.item, Task.cost), a)
    BY <1>4 DEF AddToBasket, One
  <2>2. Task.type = "add"
    BY <1>4 DEF AddToBasket, AtBegin
  <2>3. store' = Carts!Put(store, Task.item, Task.cost) =>
           \A i \in Items : Taken(i) \/ (Kept(i) /\ inHand \notin About(i))
    <3> SUFFICES ASSUME store' = Carts!Put(store, Task.item, Task.cost),
                        NEW i \in Items
                 PROVE  Taken(i) \/ (Kept(i) /\ inHand \notin About(i))
      OBVIOUS
    <3>1. store' = [k \in DOMAIN store \cup {Task.item} |->
                      IF k = Task.item THEN Task.cost ELSE store[k]]
      BY DEF Carts!Put
    <3>2. inHand \in About(i) <=> Task.item = i
      BY <1>1, <2>2, Topical DEF Touches
    <3>3. CASE Task.item = i
      <4>1. i \in DOMAIN store' /\ store'[i] = Task.cost /\ log'[inHand'] = Task
        BY <1>1, <3>1, <3>3, Topical
      <4> QED  BY <1>1, <2>2, <3>2, <3>3, <4>1, Topical DEF Taken, LeftBy
    <3>4. CASE Task.item # i
      BY <3>1, <3>2, <3>4 DEF Kept
    <3> QED  BY <3>3, <3>4
  <2>4. \A i \in Items : store' = store => Kept(i)
    BY DEF Kept
  <2>5. /\ store' \in {store, Carts!Put(store, Task.item, Task.cost)}
        /\ a = "ok" => store' = Carts!Put(store, Task.item, Task.cost)
    BY <2>1, CommandStep
  <2> QED
    BY <1>1, <2>1, <2>3, <2>4, <2>5, Topical, CommandPaid
<1>5. CASE DeleteItem
  <2>1. PICK a \in Answers : Command(Carts!Without(store, {Task.item}), a)
    BY <1>5 DEF DeleteItem, One
  <2>2. Task.type = "delete"
    BY <1>5 DEF DeleteItem, AtBegin
  <2>3. store' = Carts!Without(store, {Task.item}) =>
           \A i \in Items : Taken(i) \/ (Kept(i) /\ inHand \notin About(i))
    <3> SUFFICES ASSUME store' = Carts!Without(store, {Task.item}),
                        NEW i \in Items
                 PROVE  Taken(i) \/ (Kept(i) /\ inHand \notin About(i))
      OBVIOUS
    <3>1. store' = [k \in DOMAIN store \ {Task.item} |-> store[k]]
      BY <1>3, WithoutIs
    <3>2. inHand \in About(i) <=> Task.item = i
      BY <1>1, <2>2, Topical DEF Touches
    <3>3. CASE Task.item = i
      <4>1. i \notin DOMAIN store' /\ log'[inHand'] = Task
        BY <1>1, <3>1, <3>3, Topical
      <4> QED  BY <1>1, <2>2, <3>2, <3>3, <4>1, Topical DEF Taken, LeftBy
    <3>4. CASE Task.item # i
      BY <3>1, <3>2, <3>4 DEF Kept
    <3> QED  BY <3>3, <3>4
  <2>4. \A i \in Items : store' = store => Kept(i)
    BY DEF Kept
  <2>5. /\ store' \in {store, Carts!Without(store, {Task.item})}
        /\ a = "ok" => store' = Carts!Without(store, {Task.item})
    BY <2>1, CommandStep
  <2> QED
    BY <1>1, <2>1, <2>3, <2>4, <2>5, Topical, CommandPaid
<1> QED  BY <1>2, <1>4, <1>5

(* A clear owes the items that KEYS listed, and has done with those it did   *)
(* not list; a listing changes nothing.                                      *)
LEMMA LoopPaid ==
  ASSUME LoopFacts, LoopFacts', TypeInv, OffsetFacts, PaidInv, NEW M, Covered(M),
         requests = 0, ~reloaded,
         Keys \/ (\E k \in Items : ClearOne(k) \/ GetOne(k))
  PROVE  \E N : Covered(N)'
<1>0. store \in CartType
  BY DEF TypeInv, TypeOK
<1>1. /\ UNCHANGED <<log, pos, inHand, handed, completed>>
      /\ stage \in {"begin", "loop"} /\ stage' = "loop"
      /\ stage = "begin" => link
      /\ Task.type \in {"clear", "get"}
  BY DEF Keys, ClearOne, GetOne, AtBegin, AtLoop, Visit, consumer, PaidInv
<1>2. Task.type = "get" => \A i : inHand \notin About(i)
  BY <1>1, Topical DEF Touches
<1>3. ASSUME Task.type = "clear", NEW i \in Items, i \notin DOMAIN store'
      PROVE  Taken(i)
  <2>1. inHand \in About(i) /\ log'[inHand'].type = "clear"
    BY <1>1, <1>3, Topical DEF Touches
  <2> QED  BY <1>1, <1>3, <2>1 DEF Taken, LeftBy
<1>4. store' = store => \A i \in Items : Kept(i)
  BY DEF Kept
<1>5. CASE Keys
  <2>1. PICK a \in Answers :
           /\ Command(store, a)
           /\ todo' = IF a = "ok" THEN DOMAIN store ELSE {}
    BY <1>5 DEF Keys
  <2>2. store' = store
    BY <2>1, CommandStep
  <2>3. a = "ok" =>
           \A i \in Items :
              \/ Taken(i)
              \/ /\ Kept(i)
                 /\ inHand \in About(i) /\ Pending(inHand, i) => Pending(inHand, i)'
    <3> SUFFICES ASSUME a = "ok", NEW i \in Items
                 PROVE  \/ Taken(i)
                        \/ /\ Kept(i)
                           /\ inHand \in About(i) => Pending(inHand, i)'
      OBVIOUS
    <3>1. todo' = DOMAIN store'
      BY <2>1, <2>2
    <3> QED  BY <1>1, <1>2, <1>3, <1>4, <2>2, <3>1 DEF Pending
  <2> QED  BY <1>1, <1>4, <2>1, <2>2, <2>3, <1>5, Topical, CommandPaid
<1>6. ASSUME NEW j \in Items, ClearOne(j) PROVE \E N : Covered(N)'
  <2>1. PICK a \in Answers : Command(Carts!Without(store, {j}), a)
    BY <1>6 DEF ClearOne
  <2>2. /\ store' \in {store, Carts!Without(store, {j})}
        /\ a = "ok" => store' = Carts!Without(store, {j})
    BY <2>1, CommandStep
  <2>3. /\ Task.type = "clear" /\ stage = "loop" /\ todo' = todo \ {j}
    BY <1>6 DEF ClearOne, AtLoop, Visit
  <2>4. store' = Carts!Without(store, {j}) =>
           \A i \in Items : Taken(i) \/ (Kept(i) /\ i # j)
    <3> SUFFICES ASSUME store' = Carts!Without(store, {j}), NEW i \in Items
                 PROVE  Taken(i) \/ (Kept(i) /\ i # j)
      OBVIOUS
    <3>1. store' = [k \in DOMAIN store \ {j} |-> store[k]]
      BY <1>0, WithoutIs
    <3>2. CASE i = j
      BY <1>3, <2>3, <3>1, <3>2
    <3>3. CASE i # j
      BY <3>1, <3>3 DEF Kept
    <3> QED  BY <3>2, <3>3
  <2>5. \A i \in Items : Kept(i) \/ Taken(i)
    BY <1>4, <2>2, <2>4
  <2>6. a = "ok" =>
           \A i \in Items :
              \/ Taken(i)
              \/ /\ Kept(i)
                 /\ inHand \in About(i) /\ Pending(inHand, i) => Pending(inHand, i)'
    <3>1. \A i : i # j /\ Pending(inHand, i) => Pending(inHand, i)'
      BY <1>1, <2>3 DEF Pending
    <3> QED  BY <2>2, <2>4, <3>1
  <2> QED  BY <1>1, <2>1, <2>3, <2>5, <2>6, Topical, CommandPaid
<1>7. ASSUME NEW j \in Items, GetOne(j) PROVE \E N : Covered(N)'
  <2>1. PICK a \in Answers : Command(store, a)
    BY <1>7 DEF GetOne
  <2>2. store' = store /\ Task.type = "get" /\ stage = "loop"
    BY <1>7, <2>1, CommandStep DEF GetOne, AtLoop
  <2> QED  BY <1>1, <1>2, <1>4, <2>1, <2>2, Topical, CommandPaid
<1> QED  BY <1>5, <1>6, <1>7

(* A message handed out is no longer counted as lost: it is pending.         *)
LEMMA ReceivePaid ==
  ASSUME LoopFacts, LoopFacts', TypeInv, OffsetFacts, NEW M, Covered(M), Receive
  PROVE  \E N : Covered(N)'
<1>1. /\ UNCHANGED <<log, store, faults>> /\ stage = "idle" /\ stage' = "begin"
      /\ inHand = 0 /\ inHand' = pos + 1 /\ pos' = pos + 1
      /\ handed' = handed \cup {pos + 1} /\ completed' = completed \ {pos + 1}
  BY DEF Receive, Begin, Loop!Poll, Loop!broker
<1>2. PICK N : N = M \ {pos + 1}
  OBVIOUS
<1>3. 0 \notin handed
  BY DEF LoopFacts
<1>4. N \in SUBSET handed' /\ N \ Dropped' \subseteq M \ Dropped
  BY <1>1, <1>2, <1>3 DEF Covered, Dropped
<1>5. Cardinality(N \ Dropped') <= faults'
  BY <1>1, <1>4, Cost DEF Covered
<1>6. ASSUME NEW i \in Items PROVE ItemPaid(i, N)'
  <2>1. PICK n \in About(i) \cup {0} :
           /\ LeftBy(n, i)
           /\ \A k \in About(i) : n < k /\ k <= pos => k \in M \/ Pending(k, i)
    BY DEF Covered, ItemPaid
  <2>2. About(i)' = About(i) /\ LeftBy(n, i)'
    BY <1>1, <2>1 DEF About, LeftBy
  <2>3. ASSUME NEW k \in About(i), n < k, k <= pos + 1
        PROVE  k \in N \/ Pending(k, i)'
    <3>1. k \in Nat /\ pos \in Nat
      BY DEF About, LoopFacts
    <3>2. CASE k = pos + 1
      BY <1>1, <3>2 DEF Pending
    <3>3. CASE k <= pos
      <4>1. k \in M
        BY <1>1, <2>1, <2>3, <3>3 DEF Pending
      <4> QED  BY <1>2, <3>1, <3>3, <4>1
    <3> QED  BY <2>3, <3>1, <3>2, <3>3
  <2> QED  BY <1>1, <2>1, <2>2, <2>3 DEF ItemPaid
<1> QED  BY <1>1, <1>4, <1>5, <1>6 DEF Covered

(* A message in hand when the service dies is lost, and was dropped.         *)
LEMMA DeathPaid ==
  ASSUME LoopFacts, LoopFacts', TypeInv, OffsetFacts, NEW M, Covered(M),
         Throw \/ Crash \/ ListingThrows
  PROVE  \E N : Covered(N)'
<1>1. /\ UNCHANGED <<log, pos, handed, completed, store, faults>>
      /\ stage' = "idle" /\ inHand' = 0
  BY DEF Throw, Crash, ListingThrows, Stop, Loop!Throw, Loop!Crash, Loop!Die,
         Loop!broker, Loop!history, redis
<1>2. PICK N : N = M \cup ({inHand} \cap handed)
  OBVIOUS
<1>3. N \ Dropped' \subseteq M \ Dropped /\ N \subseteq handed'
  BY <1>1, <1>2 DEF Covered, Dropped, OffsetFacts, LoopFacts
<1>4. \A i : \A k \in About(i) : Pending(k, i) => k \in N
  <2>1. \A i : \A k \in About(i) : k # 0
    BY DEF About, LoopFacts
  <2> QED  BY <1>2, <2>1 DEF Pending, OffsetFacts
<1>5. /\ pos' <= pos /\ Len(log) <= Len(log') /\ M \subseteq N
      /\ \A k \in 1..Len(log) : log'[k] = log[k]
  BY <1>1, <1>2 DEF LoopFacts
<1> QED
  BY <1>1, <1>3, <1>4, <1>5, OtherPaid

(* Steps that neither send a command, nor poll, nor die, cost nothing.       *)
LEMMA CalmPaid ==
  ASSUME LoopFacts, LoopFacts', TypeInv, OffsetFacts, PaidInv, NEW M, Covered(M),
         requests = 0, ~reloaded,
         \/ Ignore \/ ClearDone \/ GetDone \/ Finish \/ Respond
         \/ Restart \/ Environment \/ Snapshot \/ UNCHANGED vars
  PROVE  Covered(M)'
<1>1. CASE Ignore \/ ClearDone \/ GetDone
  <2>1. /\ UNCHANGED <<log, pos, inHand, handed, completed, store, faults>>
        /\ stage' = "end"
        /\ \/ stage = "begin" /\ Task.type = "other"
           \/ stage = "loop" /\ todo = {}
    BY <1>1 DEF Ignore, ClearDone, GetDone, AtBegin, AtLoop, consumer, redis
  <2>2. \A i : \A k \in About(i) : ~Pending(k, i)
    BY <2>1, Topical DEF Pending, Touches
  <2>3. /\ pos' <= pos /\ Len(log) <= Len(log') /\ Dropped' = Dropped
        /\ M \subseteq handed'
    BY <2>1 DEF LoopFacts, Covered, Dropped
  <2> QED  BY <2>1, <2>2, <2>3, OtherPaid
<1>2. CASE Finish \/ Respond
  <2>1. /\ UNCHANGED <<log, pos, handed, store, faults>>
        /\ stage = "end" /\ stage' = "idle" /\ ~serving
        /\ inHand' = 0 /\ completed' = completed \cup {inHand}
    BY <1>2, Topical
    DEF Finish, Respond, Stop, Loop!Finish, Loop!broker, redis
  <2>2. Dropped' = Dropped
    BY <2>1 DEF Dropped, LoopFacts
  <2>3. /\ pos' <= pos /\ Len(log) <= Len(log') /\ M \subseteq handed'
        /\ \A i : \A k \in About(i) : ~Pending(k, i)
    BY <2>1 DEF LoopFacts, Covered, Pending
  <2> QED  BY <2>1, <2>2, <2>3, OtherPaid
<1>3. CASE Restart
  <2>1. /\ UNCHANGED <<log, inHand, handed, completed, store, faults, stage>>
        /\ ~up /\ pos' = committed
    BY <1>3 DEF Restart, Loop!Restart, Loop!broker, Loop!history, handler, redis
  <2>2. stage = "idle" /\ pos' <= pos
    BY <2>1 DEF TypeInv, AtWork, OffsetFacts
  <2>3. /\ Len(log) <= Len(log') /\ M \subseteq handed' /\ Dropped' = Dropped
        /\ \A i : \A k \in About(i) : ~Pending(k, i)
    BY <2>1, <2>2 DEF LoopFacts, Covered, Pending, Dropped
  <2> QED  BY <2>1, <2>2, <2>3, OtherPaid
<1>4. CASE Environment
  <2>1. /\ UNCHANGED <<inHand, handed, completed, store, faults, stage, todo, link>>
        /\ pos' <= pos /\ Len(log) <= Len(log')
        /\ \A k \in 1..Len(log) : log'[k] = log[k]
    <3>1. UNCHANGED <<store, faults, stage, todo, link>>
      BY <1>4 DEF Environment, handler, redis
    <3>2. ASSUME NEW m \in Messages, Loop!Publish(m)
          PROVE  /\ UNCHANGED <<inHand, handed, completed, pos>>
                 /\ Len(log) <= Len(log')
                 /\ \A k \in 1..Len(log) : log'[k] = log[k]
      BY <3>2 DEF Loop!Publish, Loop!history, LoopFacts
    <3>3. ASSUME Loop!AutoCommit \/ Loop!Rebalance
          PROVE  UNCHANGED <<inHand, handed, completed, log>> /\ pos' <= pos
      BY <3>3 DEF Loop!AutoCommit, Loop!Rebalance, Loop!broker, Loop!history,
                  LoopFacts, OffsetFacts
    <3> QED  BY <1>4, <3>1, <3>2, <3>3 DEF Environment, LoopFacts
  <2> QED
    BY <2>1, OtherPaid DEF Covered, Pending, Dropped
<1>5. CASE Snapshot \/ UNCHANGED vars
  <2>1. UNCHANGED <<log, pos, inHand, handed, completed, store, faults, stage,
                    todo, link>>
    BY <1>5 DEF Snapshot, vars, consumer, handler, redis
  <2>2. /\ pos' <= pos /\ Len(log) <= Len(log') /\ M \subseteq handed'
        /\ Dropped' = Dropped
        /\ \A k, i : Pending(k, i) => Pending(k, i)'
        /\ stage' = "loop" /\ ~link' => inHand' \in M
    BY <2>1 DEF LoopFacts, Covered, Pending, Dropped
  <2> QED  BY <2>1, <2>2, OtherPaid
<1> QED  BY <1>1, <1>2, <1>3, <1>4, <1>5

(* Every step is paid for, but requests and Redis coming back from an older  *)
(* snapshot.                                                                 *)
LEMMA PaidStep ==
  LoopFacts /\ LoopFacts' /\ TypeInv /\ TypeInv' /\ OffsetFacts /\ PaidInv
      /\ [Next]_vars => PaidInv'
<1> SUFFICES ASSUME LoopFacts, LoopFacts', TypeInv, TypeInv', OffsetFacts, PaidInv,
                    [Next]_vars, requests' = 0, ~reloaded'
             PROVE  /\ serving' => stage' = "idle"
                    /\ stage' = "begin" => link'
                    /\ \E N : Covered(N)'
  BY DEF PaidInv
<1>1. /\ requests = 0 /\ ~reloaded /\ ~RedisCrash
      /\ \A r : ~Accept(r)
  <2>1. requests \in Nat
    BY BasketAssumption DEF TypeInv, TypeOK
  <2>2. ~RedisCrash /\ \A r : ~Accept(r)
    BY <2>1 DEF RedisCrash, Accept
  <2>3. ASSUME NEW s, NEW a, Command(s, a) PROVE UNCHANGED reloaded
    BY <2>3 DEF Command, redis
  <2>4. UNCHANGED <<requests, reloaded>>
    BY <2>2, <2>3
    DEF Next, Service, Handler, Receive, Begin, AddToBasket, DeleteItem,
        GetBasketById, One, Ignore, Keys, ClearOne, GetOne, Visit, ClearDone,
        GetDone, Finish, Respond, Throw, ListingThrows, Crash, Stop, Restart,
        Environment, Snapshot, http, redis, vars
  <2> QED  BY <2>2, <2>4
<1>2. PICK M : Covered(M)
  BY <1>1 DEF PaidInv
<1>3. \E N : Covered(N)'
  BY <1>1, <1>2, OnePaid, LoopPaid, ReceivePaid, DeathPaid, CalmPaid
  DEF Next, Service, Handler
<1>4. serving' => stage' = "idle"
  <2>1. CASE serving
    <3>1. stage = "idle"
      BY <1>1, <2>1 DEF PaidInv
    <3> QED
      BY <1>1, <2>1, <3>1
      DEF Next, Service, Handler, Receive, AddToBasket, DeleteItem,
          GetBasketById, AtBegin, AtLoop, Ignore, Keys, ClearOne, GetOne,
          ClearDone, GetDone, Finish, Respond, Throw, ListingThrows, Crash,
          Stop, Restart, Environment, Snapshot, handler, vars
  <2>2. CASE ~serving
    <3>1. Restart \/ ~serving'
      BY <1>1, <2>2
      DEF Next, Service, Handler, Receive, AddToBasket, DeleteItem, One,
          GetBasketById, Ignore, Keys, ClearOne, GetOne, Visit, ClearDone,
          GetDone, Finish, Respond, Throw, ListingThrows, Crash, Stop,
          Environment, Snapshot, http, vars
    <3>2. Restart => stage' = "idle"
      BY DEF Restart, Loop!Restart, handler, TypeInv, AtWork
    <3> QED  BY <3>1, <3>2
  <2> QED  BY <2>1, <2>2
<1>5. stage' = "begin" => link'
  BY <1>1
  DEF PaidInv, Next, Service, Handler, Receive, Begin, AddToBasket, DeleteItem,
      One, GetBasketById, Ignore, Keys, ClearOne, GetOne, Visit, AtLoop,
      ClearDone, GetDone, Finish, Respond, Throw, ListingThrows, Crash, Stop,
      Restart, Environment, Snapshot, handler, redis, vars
<1> QED  BY <1>3, <1>4, <1>5

(* Whatever fails, each failing command costs one message at most, and a     *)
(* death the one in hand; for any topic, items, and costs, with rebalances   *)
(* and restarts that deliver messages again.                                 *)
THEOREM LossesArePaid == Spec => []LossesPaid
<1>1. Init => PaidInv
  <2> SUFFICES ASSUME Init PROVE Covered({}) /\ stage = "idle"
    BY DEF PaidInv
  <2>1. /\ stage = "idle" /\ faults = 0 /\ pos = 0 /\ handed = {} /\ log = <<>>
        /\ DOMAIN store = {}
    BY EmptyIs DEF Init, Loop!Init
  <2>2. \A i \in Items : ItemPaid(i, {})
    BY <2>1 DEF ItemPaid, LeftBy, About
  <2> QED  BY <2>1, <2>2, FS_EmptySet DEF Covered
<1>2. PaidInv /\ LoopFacts /\ TypeInv => LossesPaid
  <2> SUFFICES ASSUME PaidInv, LoopFacts, TypeInv,
                      pos = Len(log), inHand = 0, requests = 0, ~reloaded
               PROVE  \E M \in SUBSET handed :
                         /\ Cardinality(M \ Loop!Dropped) <= faults
                         /\ \A i \in Items : \E n \in About(i) \cup {0} :
                               LeftBy(n, i) /\ {k \in About(i) : n < k} \subseteq M
    BY DEF LossesPaid
  <2>1. PICK M : Covered(M)
    BY DEF PaidInv
  <2>2. Loop!Dropped = Dropped
    BY DEF Loop!Dropped, Dropped
  <2>3. \A i : \A k \in About(i) : k <= pos /\ ~Pending(k, i)
    BY DEF About, Pending, LoopFacts
  <2>4. \A i \in Items : \E n \in About(i) \cup {0} :
           LeftBy(n, i) /\ {k \in About(i) : n < k} \subseteq M
    BY <2>1, <2>3 DEF Covered, ItemPaid
  <2> QED  BY <2>1, <2>2, <2>4 DEF Covered
<1> QED
  BY <1>1, <1>2, PaidStep, LoopFactsHold, OffsetFactsHold, TypeInvHolds, PTL
  DEF Spec
=============================================================================
