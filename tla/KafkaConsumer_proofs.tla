------------------------- MODULE KafkaConsumer_proofs -------------------------
(***************************************************************************)
(* Proofs that the consumer loop has its safety properties for every set   *)
(* of messages and every bound.  IInv is the inductive invariant: the      *)
(* properties that no single step shows are those of Offsets, which ties   *)
(* the committed offset, the position and the message in hand together,    *)
(* and PoisonBehind, what a poison message leaves behind in a living       *)
(* process.                                                                *)
(***************************************************************************)
EXTENDS KafkaConsumer, FiniteSetTheorems, TLAPS

(* How the offsets stand to each other and to the history. *)
Offsets ==
    /\ committed <= pos /\ pos <= Len(log)
    /\ 1..pos \subseteq handed
    /\ inHand # 0 => inHand \in handed \ completed /\ pos <= inHand
    /\ ~up => inHand = 0

(* A poison message behind the position of a living process is in hand, or *)
(* was passed by a commit.                                                 *)
PoisonBehind ==
    up => \A i \in 1..pos : log[i] \in Poison => inHand = i \/ committed >= i

IInv ==
    /\ TypeOK
    /\ Offsets
    /\ HandedInOrder
    /\ PoisonBehind
    /\ OnlyCommitPassesPoison

-----------------------------------------------------------------------------
(* Appending leaves the offsets that were there, and their messages, alone.  *)
LEMMA AppendKeeps ==
  ASSUME TypeOK, NEW m \in Messages, Publish(m)
  PROVE  /\ log' \in Seq(Messages)
         /\ Len(log') = Len(log) + 1
         /\ \A i \in 1..Len(log) : log'[i] = log[i]
  BY DEF TypeOK, Publish

(* Every step keeps the types; Finish needs that what is in hand was handed. *)
LEMMA TypeStep == TypeOK /\ Offsets /\ [Next]_vars => TypeOK'
<1> SUFFICES ASSUME TypeOK, Offsets, [Next]_vars PROVE TypeOK'
  OBVIOUS
<1> USE ConsumerAssumption
<1>1. ASSUME NEW m \in Messages, Publish(m) PROVE TypeOK'
  BY <1>1, AppendKeeps DEF TypeOK, Offsets, Publish, history
<1>2. CASE Poll
  BY <1>2 DEF TypeOK, Offsets, Poll, broker, history
<1>3. CASE Finish
  BY <1>3 DEF TypeOK, Offsets, Finish, broker, history
<1>4. CASE Throw
  BY <1>4 DEF TypeOK, Offsets, Throw, Die, broker, history
<1>5. CASE Crash
  BY <1>5 DEF TypeOK, Offsets, Crash, Die, broker, history
<1>6. CASE AutoCommit
  BY <1>6 DEF TypeOK, Offsets, AutoCommit, broker, history
<1>7. CASE Rebalance
  BY <1>7 DEF TypeOK, Offsets, Rebalance, broker, history
<1>8. CASE Restart
  BY <1>8 DEF TypeOK, Offsets, Restart, broker, history
<1>9. CASE UNCHANGED vars
  BY <1>9 DEF TypeOK, Offsets, vars, broker, history
<1> QED
  BY <1>1, <1>2, <1>3, <1>4, <1>5, <1>6, <1>7, <1>8, <1>9 DEF Next, Loop

(* Every step keeps the offsets in order. *)
LEMMA OffsetsStep == TypeOK /\ Offsets /\ [Next]_vars => Offsets'
<1> SUFFICES ASSUME TypeOK, Offsets, [Next]_vars PROVE Offsets'
  OBVIOUS
<1>1. ASSUME NEW m \in Messages, Publish(m) PROVE Offsets'
  BY <1>1, AppendKeeps DEF TypeOK, Offsets, Publish, history
<1>2. CASE Poll
  BY <1>2 DEF TypeOK, Offsets, Poll, broker, history
<1>3. CASE Finish
  BY <1>3 DEF TypeOK, Offsets, Finish, broker, history
<1>4. CASE Throw
  BY <1>4 DEF TypeOK, Offsets, Throw, Die, broker, history
<1>5. CASE Crash
  BY <1>5 DEF TypeOK, Offsets, Crash, Die, broker, history
<1>6. CASE AutoCommit
  BY <1>6 DEF TypeOK, Offsets, AutoCommit, broker, history
<1>7. CASE Rebalance
  BY <1>7 DEF TypeOK, Offsets, Rebalance, broker, history
<1>8. CASE Restart
  BY <1>8 DEF TypeOK, Offsets, Restart, broker, history
<1>9. CASE UNCHANGED vars
  BY <1>9 DEF TypeOK, Offsets, vars, broker, history
<1> QED
  BY <1>1, <1>2, <1>3, <1>4, <1>5, <1>6, <1>7, <1>8, <1>9 DEF Next, Loop

(* Only Poll hands a message out, and all before it are behind the position. *)
LEMMA OrderStep ==
  TypeOK /\ Offsets /\ HandedInOrder /\ [Next]_vars => HandedInOrder'
<1> SUFFICES ASSUME TypeOK, Offsets, HandedInOrder, [Next]_vars
             PROVE  HandedInOrder'
  OBVIOUS
<1> USE DEF HandedInOrder
<1>1. CASE Poll
  BY <1>1 DEF TypeOK, Offsets, Poll
<1>2. CASE ~Poll
  <2>1. handed' = handed
    BY <1>2 DEF Next, Loop, Publish, Finish, Throw, Crash, Die, AutoCommit,
                Rebalance, Restart, vars, history
  <2> QED  BY <2>1
<1> QED  BY <1>1, <1>2

(* A poison message gets behind the position by Poll alone, and then it is   *)
(* in hand; it leaves the hand of a living process only by Finish, whose     *)
(* guard excludes poison.                                                    *)
LEMMA PoisonBehindStep ==
  TypeOK /\ Offsets /\ PoisonBehind /\ [Next]_vars => PoisonBehind'
<1> SUFFICES ASSUME TypeOK, Offsets, PoisonBehind, [Next]_vars
             PROVE  PoisonBehind'
  OBVIOUS
<1>1. ASSUME NEW m \in Messages, Publish(m) PROVE PoisonBehind'
  BY <1>1, AppendKeeps DEF TypeOK, Offsets, PoisonBehind, Publish, history
<1>2. CASE Poll
  BY <1>2 DEF TypeOK, Offsets, PoisonBehind, Poll, broker, history
<1>3. CASE Finish
  BY <1>3 DEF TypeOK, Offsets, PoisonBehind, Finish, broker, history
<1>4. CASE Throw
  BY <1>4 DEF TypeOK, Offsets, PoisonBehind, Throw, Die, broker, history
<1>5. CASE Crash
  BY <1>5 DEF TypeOK, Offsets, PoisonBehind, Crash, Die, broker, history
<1>6. CASE AutoCommit
  BY <1>6 DEF TypeOK, Offsets, PoisonBehind, AutoCommit, broker, history
<1>7. CASE Rebalance
  BY <1>7 DEF TypeOK, Offsets, PoisonBehind, Rebalance, broker, history
<1>8. CASE Restart
  BY <1>8 DEF TypeOK, Offsets, PoisonBehind, Restart, broker, history
<1>9. CASE UNCHANGED vars
  BY <1>9 DEF TypeOK, Offsets, PoisonBehind, vars, broker, history
<1> QED
  BY <1>1, <1>2, <1>3, <1>4, <1>5, <1>6, <1>7, <1>8, <1>9 DEF Next, Loop

(* What is handed past a poison message was polled after it left the hand.   *)
LEMMA PoisonStep == IInv /\ [Next]_vars => OnlyCommitPassesPoison'
<1> SUFFICES ASSUME IInv, [Next]_vars PROVE OnlyCommitPassesPoison'
  OBVIOUS
<1> USE DEF IInv, TypeOK, Offsets, PoisonBehind, OnlyCommitPassesPoison
<1>1. ASSUME NEW m \in Messages, Publish(m) PROVE OnlyCommitPassesPoison'
  BY <1>1, AppendKeeps DEF Publish, history
<1>2. CASE Poll
  BY <1>2 DEF Poll, broker, history
<1>3. CASE Finish
  BY <1>3 DEF Finish, broker, history
<1>4. CASE Throw
  BY <1>4 DEF Throw, Die, broker, history
<1>5. CASE Crash
  BY <1>5 DEF Crash, Die, broker, history
<1>6. CASE AutoCommit
  BY <1>6 DEF AutoCommit, broker, history
<1>7. CASE Rebalance
  BY <1>7 DEF Rebalance, broker, history
<1>8. CASE Restart
  BY <1>8 DEF Restart, broker, history
<1>9. CASE UNCHANGED vars
  BY <1>9 DEF vars, broker, history
<1> QED
  BY <1>1, <1>2, <1>3, <1>4, <1>5, <1>6, <1>7, <1>8, <1>9 DEF Next, Loop

(* A first life with an empty topic starts with it.                          *)
LEMMA InitKeeps == Init => IInv /\ LossBound
<1>1. Init => IInv
  BY ConsumerAssumption
  DEF Init, IInv, TypeOK, Offsets, HandedInOrder, PoisonBehind,
      OnlyCommitPassesPoison
<1>2. Init => LossBound
  BY FS_EmptySet DEF Init, LossBound, Dropped
<1> QED  BY <1>1, <1>2

(* IInv holds in every reachable state.                                      *)
LEMMA Inductive == Spec => []IInv
<1>1. Init => IInv
  BY InitKeeps
<1>2. IInv /\ [Next]_vars => IInv'
  BY TypeStep, OffsetsStep, OrderStep, PoisonBehindStep, PoisonStep DEF IInv
<1> QED  BY <1>1, <1>2, PTL DEF Spec

-----------------------------------------------------------------------------
(* The types hold for any set of messages and any bounds: pos, committed and *)
(* inHand stay offsets, and only what was handed out is completed.           *)
THEOREM TypeCorrect == Spec => []TypeOK
<1>1. IInv => TypeOK
  BY DEF IInv
<1> QED  BY <1>1, Inductive, PTL

(* No handler sees a message before every earlier one was handed to it.      *)
THEOREM InOrder == Spec => []HandedInOrder
<1>1. IInv => HandedInOrder
  BY DEF IInv
<1> QED  BY <1>1, Inductive, PTL

(* The committed offset never runs past a message no handler was called for. *)
THEOREM CommitSkipsNothing == Spec => []NothingSkipped
<1>1. IInv => NothingSkipped
  BY DEF IInv, TypeOK, Offsets, NothingSkipped
<1> QED  BY <1>1, Inductive, PTL

(* The service gets past a message it cannot parse only through a commit.    *)
THEOREM PoisonNeedsCommit == Spec => []OnlyCommitPassesPoison
<1>1. IInv => OnlyCommitPassesPoison
  BY DEF IInv
<1> QED  BY <1>1, Inductive, PTL

-----------------------------------------------------------------------------
(* A death adds at most the message in hand to what is dropped, any other    *)
(* step adds nothing.                                                        *)
LEMMA DroppedStep ==
  ASSUME IInv, [Next]_vars
  PROVE  /\ Dropped' \subseteq Dropped \cup {inHand}
         /\ Throw \/ Crash \/ Dropped' \subseteq Dropped
<1> USE DEF IInv, TypeOK, Offsets, Dropped
<1>1. ASSUME NEW m \in Messages, Publish(m) PROVE Dropped' \subseteq Dropped
  BY <1>1 DEF Publish, history
<1>2. CASE Poll
  BY <1>2 DEF Poll
<1>3. CASE Finish
  BY <1>3 DEF Finish
<1>4. CASE Throw \/ Crash
  BY <1>4 DEF Throw, Crash, Die, history
<1>5. CASE AutoCommit \/ Rebalance \/ Restart \/ UNCHANGED vars
  BY <1>5 DEF AutoCommit, Rebalance, Restart, vars, history
<1> QED  BY <1>1, <1>2, <1>3, <1>4, <1>5 DEF Next, Loop

(* The number of lives lost so far: the bound of LossBound. *)
Deaths == restarts + (IF up THEN 0 ELSE 1)

(* No step drops more than it costs lives.                                   *)
LEMMA LossStep == LossBound /\ IInv /\ [Next]_vars => LossBound'
<1> SUFFICES ASSUME LossBound, IInv, [Next]_vars PROVE LossBound'
  OBVIOUS
<1>1. IsFiniteSet(Dropped) /\ Cardinality(Dropped) \in Nat
  <2>1. Dropped \in SUBSET (1..Len(log)) /\ Len(log) \in Int
    BY DEF Dropped, IInv, TypeOK
  <2>2. IsFiniteSet(1..Len(log))
    BY <2>1, FS_Interval
  <2>3. IsFiniteSet(Dropped)
    BY <2>1, <2>2, FS_Subset
  <2> QED  BY <2>3, FS_CardinalityType
<1>2. restarts \in Nat /\ up \in BOOLEAN /\ Cardinality(Dropped) <= Deaths
  BY ConsumerAssumption DEF IInv, TypeOK, LossBound, Deaths
<1>3. CASE Throw \/ Crash
  <2>1. Deaths' = Deaths + 1 /\ Deaths \in Nat
    BY <1>3, <1>2 DEF Throw, Crash, Die, Deaths
  <2>2. /\ IsFiniteSet(Dropped \cup {inHand})
        /\ Cardinality(Dropped \cup {inHand}) <= Cardinality(Dropped) + 1
    <3>1. /\ IsFiniteSet(Dropped \cup {inHand})
          /\ Cardinality(Dropped \cup {inHand}) =
               IF inHand \in Dropped THEN Cardinality(Dropped)
               ELSE Cardinality(Dropped) + 1
      BY <1>1, FS_AddElement
    <3> DEFINE n == Cardinality(Dropped)
    <3>2. n \in Nat
      BY <1>1
    <3> HIDE DEF n
    <3>3. n <= n + 1 /\ n + 1 <= n + 1
      BY <3>2
    <3> QED  BY <3>1, <3>3 DEF n
  <2>3. Dropped' \in SUBSET (Dropped \cup {inHand})
    BY DroppedStep
  <2>4. /\ Cardinality(Dropped') \in Nat
        /\ Cardinality(Dropped') <= Cardinality(Dropped \cup {inHand})
    BY <2>2, <2>3, FS_Subset, FS_CardinalityType
  <2>5. Cardinality(Dropped \cup {inHand}) \in Nat
    BY <2>2, FS_CardinalityType
  <2> QED
    BY <1>1, <1>2, <2>1, <2>2, <2>4, <2>5 DEF LossBound, Deaths
<1>4. CASE ~(Throw \/ Crash)
  <2>1. Deaths' = Deaths
    BY <1>4, <1>2 DEF Deaths, Next, Loop, Publish, Poll, Finish, AutoCommit,
                      Rebalance, Restart, vars
  <2>2. Dropped' \in SUBSET Dropped
    BY <1>4, DroppedStep
  <2>3. /\ Cardinality(Dropped') \in Nat
        /\ Cardinality(Dropped') <= Cardinality(Dropped)
    BY <1>1, <2>2, FS_Subset, FS_CardinalityType
  <2>4. Deaths \in Nat
    BY <1>2 DEF Deaths
  <2> QED  BY <1>1, <1>2, <2>1, <2>3, <2>4 DEF LossBound, Deaths
<1> QED  BY <1>3, <1>4

(* Storing the offset at poll loses at most one message for each death.      *)
THEOREM LossIsBounded == Spec => []LossBound
<1>1. Init => LossBound
  BY InitKeeps
<1> QED  BY <1>1, LossStep, Inductive, PTL DEF Spec

-----------------------------------------------------------------------------
(* What was dropped and will not come again: the commit is past it.          *)
Gone == \E i \in Dropped : i <= committed

(* A living process has what was dropped still to come, or it is gone.       *)
DroppedOut ==
    up => \A i \in Dropped : i <= committed \/ (pos < i /\ inHand < i)

(* What is lost stays lost: no step takes a commit back.                     *)
LEMMA LostStays == IInv /\ [Next]_vars => Lost \subseteq Lost'
<1> SUFFICES ASSUME IInv, [Next]_vars, NEW i \in Dropped, i <= committed
             PROVE  i \in Dropped' /\ i <= committed'
  BY DEF Lost
<1> USE DEF IInv, TypeOK, Offsets, Dropped
<1>0. i \in Nat
  OBVIOUS
<1>1. ASSUME NEW m \in Messages, Publish(m)
      PROVE  i \in Dropped' /\ i <= committed'
  BY <1>1 DEF Publish, history
<1>2. CASE Poll
  BY <1>0, <1>2 DEF Poll, broker
<1>3. CASE Finish
  BY <1>3 DEF Finish, broker
<1>4. CASE Throw \/ Crash
  BY <1>0, <1>4 DEF Throw, Crash, Die, broker, history
<1>5. CASE AutoCommit
  BY <1>0, <1>5 DEF AutoCommit, history
<1>6. CASE Rebalance \/ Restart \/ UNCHANGED vars
  BY <1>6 DEF Rebalance, Restart, vars, broker, history
<1> QED  BY <1>1, <1>2, <1>3, <1>4, <1>5, <1>6 DEF Next, Loop

(* So what is gone stays gone.                                               *)
LEMMA GoneStays == IInv /\ [Next]_vars /\ Gone => Gone'
BY LostStays DEF Lost, Gone

(* A dropped message that a commit has passed comes to no handler again,     *)
(* whatever restarts and rebalances follow.                                  *)
THEOREM LossIsForGood == Spec => LostForGood
BY LostStays, Inductive, PTL DEF Spec, LostForGood

(* A process comes back at the committed offset, and hands out in order.     *)
LEMMA DroppedOutStep == IInv /\ DroppedOut /\ [Next]_vars => DroppedOut'
<1> SUFFICES ASSUME IInv, DroppedOut, [Next]_vars PROVE DroppedOut'
  OBVIOUS
<1> USE DEF IInv, TypeOK, Offsets, Dropped, DroppedOut
<1>0. Dropped \subseteq Nat
  OBVIOUS
<1>1. ASSUME NEW m \in Messages, Publish(m) PROVE DroppedOut'
  BY <1>1 DEF Publish, history
<1>2. CASE Poll
  BY <1>0, <1>2 DEF Poll, broker
<1>3. CASE Finish
  BY <1>0, <1>3 DEF Finish, broker
<1>4. CASE Throw \/ Crash
  BY <1>4 DEF Throw, Crash, Die
<1>5. CASE AutoCommit
  BY <1>0, <1>5 DEF AutoCommit, history
<1>6. CASE Rebalance
  BY <1>0, <1>6 DEF Rebalance, broker, history
<1>7. CASE Restart
  BY <1>0, <1>7 DEF Restart, broker, history
<1>8. CASE UNCHANGED vars
  BY <1>8 DEF vars, broker, history
<1> QED  BY <1>1, <1>2, <1>3, <1>4, <1>5, <1>6, <1>7, <1>8 DEF Next, Loop

(* So it is at every time.                                                   *)
LEMMA DroppedOutHolds == Spec => []DroppedOut
<1>1. Init => DroppedOut
  BY DEF Init, DroppedOut, Dropped
<1> QED  BY <1>1, DroppedOutStep, Inductive, PTL DEF Spec
-----------------------------------------------------------------------------
(* What a service can count on, at any time and from any step to the next.   *)
Promises == HandedInOrder /\ NothingSkipped /\ LossBound /\ OnlyCommitPassesPoison

(* What a producer that sends several messages, or one that is stored twice, *)
(* does to the topic.                                                        *)
Grow(s) ==
    /\ log' = log \o s
    /\ UNCHANGED <<committed, pos, inHand, up, restarts, rebalances, history>>

(* The loop keeps its promises however many messages come at a time.         *)
LEMMA GrowKeeps ==
  ASSUME IInv, NEW s \in Seq(Messages), Grow(s)
  PROVE  IInv' /\ (LossBound => LossBound') /\ Lost \subseteq Lost'
<1>1. /\ log' \in Seq(Messages) /\ Len(log') \in Nat /\ Len(log) \in Nat
      /\ Len(log) <= Len(log') /\ \A i \in 1..Len(log) : log'[i] = log[i]
  BY DEF Grow, IInv, TypeOK
<1>2. /\ UNCHANGED <<committed, pos, inHand, up, restarts, rebalances, handed,
                     completed>>
  BY DEF Grow, history
<1>3. TypeOK'
  BY <1>1, <1>2 DEF IInv, TypeOK
<1>4. Offsets' /\ HandedInOrder'
  BY <1>1, <1>2 DEF IInv, TypeOK, Offsets, HandedInOrder
<1>5. PoisonBehind'
  BY <1>1, <1>2 DEF IInv, TypeOK, Offsets, PoisonBehind
<1>6. OnlyCommitPassesPoison'
  <2>1. \A i, j : i \in 1..Len(log') /\ j \in handed /\ j > i => i \in 1..Len(log)
    BY <1>1 DEF IInv, TypeOK
  <2> QED  BY <1>1, <1>2, <2>1 DEF IInv, OnlyCommitPassesPoison
<1>7. Dropped' = Dropped /\ (LossBound => LossBound') /\ Lost \subseteq Lost'
  BY <1>2 DEF Dropped, LossBound, Lost
<1> QED  BY <1>3, <1>4, <1>5, <1>6, <1>7 DEF IInv

(* What the two invariants say together.                                     *)
LEMMA InvPromises == IInv /\ LossBound => Promises
BY DEF IInv, TypeOK, Offsets, NothingSkipped, Promises

(* The promises hold of every loop.                                          *)
LEMMA PromisesHold == Spec => []Promises
BY InvPromises, Inductive, LossIsBounded, PTL
=============================================================================
