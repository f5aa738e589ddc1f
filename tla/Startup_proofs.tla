---------------------------- MODULE Startup_proofs ----------------------------
(***************************************************************************)
(* Proofs about the main functions and the Consul catalog, for any set of  *)
(* services and any number of restarts.  The inductive invariant says      *)
(* where in main a process that consumes, or one that has registered, can  *)
(* be.                                                                     *)
(***************************************************************************)
EXTENDS Startup, TLAPS

Names == {"basket", "order", "account", "resterants"}

(* The position of a step in a main. *)
ConsumeAt(s) == IF s \in {"account", "resterants"} THEN 1 ELSE 3
RegisterAt(s) == IF s = "resterants" THEN 3 ELSE 4

(* Every main consumes before it registers; Account's registers last.        *)
LEMMA MainSteps ==
  ASSUME NEW s \in Names
  PROVE  /\ Len(Main[s]) \in {4, 5} /\ DOMAIN Main[s] = 1..Len(Main[s])
         /\ ConsumeAt(s) \in 1..Len(Main[s]) /\ RegisterAt(s) \in 1..Len(Main[s])
         /\ \A i \in 1..Len(Main[s]) :
               /\ Main[s][i] = "consume" <=> i = ConsumeAt(s)
               /\ Main[s][i] = "register" <=> i = RegisterAt(s)
               /\ Main[s][i] # "ended"
         /\ s = "account" => Len(Main[s]) = 4
<1>1. CASE s = "account"
  BY <1>1 DEF Main, ConsumeAt, RegisterAt
<1>2. CASE s = "basket"
  BY <1>2 DEF Main, ConsumeAt, RegisterAt
<1>3. CASE s = "order"
  BY <1>3 DEF Main, ConsumeAt, RegisterAt
<1>4. CASE s = "resterants"
  BY <1>4 DEF Main, ConsumeAt, RegisterAt
<1> QED  BY <1>1, <1>2, <1>3, <1>4 DEF Names

(* A process that consumes is at that step of its main; while no process was *)
(* started again, one that has registered is past it.                        *)
Places ==
    /\ \A s \in Service : subscribed[s] => pc[s] = ConsumeAt(s)
    /\ restarts = 0 => \A s \in catalog : pc[s] \notin 1..RegisterAt(s)

IInv == TypeOK /\ Places

(* What a process that is at a step of its main can go on to.                *)
LEMMA AtSteps ==
  ASSUME TypeOK, NEW s \in Service
  PROVE  /\ pc[s] \in 0..5
         /\ At(s) = "consume" <=> pc[s] = ConsumeAt(s)
         /\ At(s) = "register" <=> pc[s] = RegisterAt(s)
         /\ ConsumeAt(s) \in 1..3 /\ RegisterAt(s) \in 3..4
         /\ ConsumeAt(s) < RegisterAt(s)
         /\ At(s) # "ended" <=> pc[s] \in 1..Len(Main[s])
<1>1. s \in Names /\ pc[s] \in 0..5
  BY StartupAssumption DEF TypeOK, Names
<1>2. ConsumeAt(s) \in 1..3 /\ RegisterAt(s) \in 3..4 /\ ConsumeAt(s) < RegisterAt(s)
  BY <1>1 DEF ConsumeAt, RegisterAt, Names
<1>3. CASE pc[s] \in 1..Len(Main[s])
  BY <1>1, <1>2, <1>3, MainSteps DEF At
<1>4. CASE pc[s] \notin 1..Len(Main[s])
  <2>1. At(s) = "ended"
    BY <1>1, <1>4, MainSteps DEF At
  <2>2. pc[s] # ConsumeAt(s) /\ pc[s] # RegisterAt(s)
    <3>1. ConsumeAt(s) \in 1..Len(Main[s]) /\ RegisterAt(s) \in 1..Len(Main[s])
      BY <1>1, MainSteps
    <3> HIDE DEF ConsumeAt, RegisterAt
    <3> QED  BY <1>4, <3>1
  <2> QED  BY <1>1, <1>2, <1>4, <2>1, <2>2
<1> QED  BY <1>3, <1>4

(* Where main goes on: to the next step, and from the last one to its end.   *)
LEMMA ProceedStep ==
  ASSUME TypeOK, NEW s \in Service, Proceed(s), At(s) # "ended"
  PROVE  /\ pc' \in [Service -> 0..5]
         /\ pc'[s] \in {0, pc[s] + 1}
         /\ (s = "account" /\ pc[s] = 4) => pc'[s] = 0
         /\ \A t \in Service : t # s => pc'[t] = pc[t]
<1>1. s \in Names /\ pc \in [Service -> 0..5]
  BY StartupAssumption DEF TypeOK, Names
<1>2. pc[s] \in 1..Len(Main[s]) /\ Len(Main[s]) \in {4, 5}
      /\ (s = "account" => Len(Main[s]) = 4)
  BY <1>1, AtSteps, MainSteps
<1> DEFINE next == IF pc[s] = Len(Main[s]) THEN 0 ELSE pc[s] + 1
<1>3. /\ next \in 0..5 /\ next \in {0, pc[s] + 1}
      /\ (s = "account" /\ pc[s] = 4) => next = 0
  <2>1. CASE Len(Main[s]) = 4
    BY <1>2, <2>1
  <2>2. CASE Len(Main[s]) = 5
    BY <1>2, <2>2
  <2> QED  BY <1>2, <2>1, <2>2
<1>4. pc' = [pc EXCEPT ![s] = next]
  BY DEF Proceed, Goto
<1> HIDE DEF next
<1> QED  BY <1>1, <1>3, <1>4

(* Every step keeps the types and the places.                                *)
LEMMA StartupStep == IInv /\ [Next]_vars => IInv'
<1> SUFFICES ASSUME IInv, [Next]_vars PROVE IInv'
  OBVIOUS
<1>0. /\ TypeOK /\ restarts \in Nat
      /\ \A t \in Service : /\ pc[t] \in 0..5
                            /\ ConsumeAt(t) \in 1..3 /\ RegisterAt(t) \in 3..4
                            /\ ConsumeAt(t) < RegisterAt(t)
  BY AtSteps, StartupAssumption DEF IInv, TypeOK
<1>1. ASSUME NEW s \in Service, Listen(s) \/ Announce(s) \/ RunReturns(s)
      PROVE  IInv'
  <2>1. /\ UNCHANGED <<subscribed, catalog, restarts>> /\ Proceed(s)
        /\ At(s) \notin {"ended", "consume", "register"}
        /\ announced' \subseteq Service /\ listening' \in [Service -> BOOLEAN]
    BY <1>0, <1>1 DEF Listen, Announce, RunReturns, TypeOK
  <2>2. /\ pc' \in [Service -> 0..5] /\ pc'[s] \in {0, pc[s] + 1}
        /\ \A t \in Service : t # s => pc'[t] = pc[t]
    BY <1>0, <2>1, ProceedStep
  <2>3. pc[s] # ConsumeAt(s) /\ pc[s] # RegisterAt(s) /\ pc[s] # 0
    BY <1>0, <2>1, AtSteps
  <2> QED  BY <1>0, <2>1, <2>2, <2>3 DEF IInv, TypeOK, Places
<1>2. ASSUME NEW s \in Service, Subscribe(s) PROVE IInv'
  <2>1. /\ UNCHANGED <<pc, listening, announced, catalog, restarts>>
        /\ subscribed' = [subscribed EXCEPT ![s] = TRUE]
        /\ pc[s] = ConsumeAt(s)
    BY <1>0, <1>2, AtSteps DEF Subscribe
  <2> QED  BY <1>0, <2>1 DEF IInv, TypeOK, Places
<1>3. ASSUME NEW s \in Service, SubscribeFails(s) PROVE IInv'
  <2>1. /\ UNCHANGED <<listening, subscribed, announced, catalog, restarts>>
        /\ Proceed(s) /\ At(s) = "consume" /\ ~subscribed[s]
    BY <1>3 DEF SubscribeFails
  <2>2. /\ pc' \in [Service -> 0..5] /\ pc'[s] \in {0, pc[s] + 1}
        /\ \A t \in Service : t # s => pc'[t] = pc[t]
    BY <1>0, <2>1, ProceedStep
  <2>3. pc[s] = ConsumeAt(s)
    BY <1>0, <2>1, AtSteps
  <2> QED  BY <1>0, <2>1, <2>2, <2>3 DEF IInv, TypeOK, Places
<1>4. ASSUME NEW s \in Service, Register(s) PROVE IInv'
  <2>1. /\ UNCHANGED <<listening, subscribed, announced, restarts>>
        /\ catalog' = {t \in catalog : Entry[t].id # Entry[s].id} \cup {s}
        /\ Proceed(s) /\ At(s) = "register"
    BY <1>4 DEF Register
  <2>2. /\ pc' \in [Service -> 0..5] /\ pc'[s] \in {0, pc[s] + 1}
        /\ \A t \in Service : t # s => pc'[t] = pc[t]
    BY <1>0, <2>1, ProceedStep
  <2>3. pc[s] = RegisterAt(s)
    BY <1>0, <2>1, AtSteps
  <2>4. TypeOK'
    BY <1>0, <2>1, <2>2 DEF TypeOK
  <2>5. Places'
    <3>1. \A t \in Service : subscribed'[t] => pc'[t] = ConsumeAt(t)
      BY <1>0, <2>1, <2>2, <2>3 DEF IInv, Places
    <3>2. ASSUME restarts' = 0, NEW t \in catalog'
          PROVE  pc'[t] \notin 1..RegisterAt(t)
      BY <1>0, <2>1, <2>2, <2>3, <3>2 DEF IInv, TypeOK, Places
    <3> QED  BY <3>1, <3>2 DEF Places
  <2> QED  BY <2>4, <2>5 DEF IInv
<1>5. ASSUME NEW s \in Service, End(s) PROVE IInv'
  BY <1>0, <1>5 DEF End, Goto, IInv, TypeOK, Places
<1>6. ASSUME NEW s \in Service, Restart(s) PROVE IInv'
  BY <1>0, <1>6, StartupAssumption DEF Restart, Goto, IInv, TypeOK, Places
<1>7. CASE UNCHANGED vars
  BY <1>7 DEF vars, IInv, TypeOK, Places
<1> QED
  BY <1>1, <1>2, <1>3, <1>4, <1>5, <1>6, <1>7 DEF Next, Step

(* The invariant holds in every state.                                       *)
LEMMA Inductive == Spec => []IInv
<1>1. Init => IInv
  BY StartupAssumption DEF Init, IInv, TypeOK, Places
<1> QED  BY <1>1, StartupStep, PTL DEF Spec

(* Consul's catalog holds one entry for an id, and every process is at a     *)
(* step of its main or ended, for any set of services and any restarts.      *)
THEOREM TypeCorrect == Spec => []TypeOK
<1>1. IInv => TypeOK
  BY DEF IInv
<1> QED  BY <1>1, Inductive, PTL

(* Until a process is started again, no service in the catalog consumes its  *)
(* topic, and the account service in it does not pass its health check.      *)
THEOREM FirstLivesOnly == Spec => []CatalogOfFirstLives
<1>1. IInv => CatalogOfFirstLives
  <2> SUFFICES ASSUME IInv, restarts = 0, NEW s \in catalog
               PROVE  ~subscribed[s] /\ (s = "account" => ~Healthy(s))
    BY DEF CatalogOfFirstLives
  <2>1. /\ TypeOK /\ s \in Service /\ s \in Names /\ pc[s] \notin 1..RegisterAt(s)
        /\ subscribed[s] => pc[s] = ConsumeAt(s)
    BY StartupAssumption DEF IInv, TypeOK, Places, Names
  <2>2. ~subscribed[s]
    BY <2>1, AtSteps
  <2>3. s = "account" => ~Healthy(s)
    <3> SUFFICES ASSUME s = "account", At(s) = "run" PROVE FALSE
      BY DEF Healthy, Serving, Entry
    <3>1. pc[s] \in 1..Len(Main[s]) /\ Len(Main[s]) = 4 /\ RegisterAt(s) = 4
      BY <2>1, AtSteps, MainSteps DEF RegisterAt
    <3> QED  BY <2>1, <3>1
  <2> QED  BY <2>2, <2>3
<1> QED  BY <1>1, Inductive, PTL
=============================================================================
