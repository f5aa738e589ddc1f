---------------------------- MODULE KafkaConsumer ----------------------------
(***************************************************************************)
(* The consumer loop every back-end service runs inside KafkaConnect: the  *)
(* services differ only in the topic and in the handlers they call.  It is *)
(* modelled with what librdkafka and the broker do under the settings the  *)
(* code chooses: group.id, auto.offset.reset = earliest, and the defaults  *)
(* it leaves in place (automatic commit of the offset that poll stored     *)
(* when it gave the message out, before the handler ran).                  *)
(*                                                                         *)
(* Offsets count from 1, so a position is also the number of messages      *)
(* before it.  The modules Basket, Orders and Account instantiate this     *)
(* one and put their handlers between Poll and Finish.                     *)
(***************************************************************************)
EXTENDS Naturals, Sequences, FiniteSets

CONSTANTS Messages,      \* what producers write to the topic
          Poison,        \* messages whose parsing or .at() throws
          MaxLog,        \* bound: messages on the topic
          MaxRestarts,   \* bound: times an operator starts the process again
          MaxRebalances  \* bound: rebalances whose commit fails

ASSUME ConsumerAssumption ==
    /\ Poison \subseteq Messages
    /\ MaxLog \in Nat /\ MaxRestarts \in Nat /\ MaxRebalances \in Nat

VARIABLES log,         \* the topic's only partition
          committed,   \* offset the group has committed on the broker
          pos,         \* last offset given to the process since it (re)joined
          inHand,      \* offset between poll and message_destroy, 0 if none
          up,          \* the process is running
          restarts, rebalances,
          handed,      \* history: offsets a handler was called for
          completed    \* history: offsets whose latest handler returned

broker == <<log, committed>>
history == <<handed, completed>>
vars == <<broker, pos, inHand, up, restarts, rebalances, history>>

TypeOK ==
    /\ log \in Seq(Messages)
    /\ committed \in Nat /\ pos \in Nat /\ inHand \in Nat
    /\ up \in BOOLEAN
    /\ restarts \in 0..MaxRestarts /\ rebalances \in 0..MaxRebalances
    /\ handed \subseteq 1..Len(log) /\ completed \subseteq handed

Init ==
    /\ log = <<>>
    /\ committed = 0 /\ pos = 0 /\ inHand = 0
    /\ up = TRUE
    /\ restarts = 0 /\ rebalances = 0
    /\ handed = {} /\ completed = {}

-----------------------------------------------------------------------------
(* Another process appends to the topic. *)
Publish(m) ==
    /\ Len(log) < MaxLog
    /\ log' = Append(log, m)
    /\ UNCHANGED <<committed, pos, inHand, up, restarts, rebalances, history>>

\* Mutant: the stored offset runs one message ahead of the one given out.
PollSkips ==
    /\ up /\ inHand = 0 /\ pos + 1 < Len(log)
    /\ pos' = pos + 2 /\ inHand' = pos + 2 /\ handed' = handed \cup {pos + 2}
    /\ completed' = completed \ {pos + 2}
    /\ UNCHANGED <<broker, up, restarts, rebalances>>

(* rd_kafka_consumer_poll gives out the next message; its offset is stored  *)
(* at once.  An empty poll or an error event changes nothing.               *)
Poll ==
    /\ up /\ inHand = 0 /\ pos < Len(log)
    /\ pos' = pos + 1
    /\ inHand' = pos + 1
    /\ handed' = handed \cup {pos + 1}
    /\ completed' = completed \ {pos + 1}
    /\ UNCHANGED <<broker, up, restarts, rebalances>>

\* Mutant: a turn of the loop ends the last message a second time.
FinishAgain ==
    /\ up /\ pos # 0 /\ log[pos] \notin Poison
    /\ completed' = completed \cup {inHand}
    /\ inHand' = 0
    /\ UNCHANGED <<broker, pos, up, restarts, rebalances, handed>>

(* The handler returned and the message is destroyed. *)
Finish ==
    /\ up /\ inHand # 0 /\ log[inHand] \notin Poison
    /\ completed' = completed \cup {inHand}
    /\ inHand' = 0
    /\ UNCHANGED <<broker, pos, up, restarts, rebalances, handed>>

Die ==
    /\ up' = FALSE /\ inHand' = 0
    /\ UNCHANGED <<broker, pos, restarts, rebalances, history>>

\* Mutant: the loop catches the exception and goes on with the next message.
ThrowCaught ==
    /\ up /\ inHand # 0 /\ log[inHand] \in Poison
    /\ inHand' = 0
    /\ UNCHANGED <<broker, pos, up, restarts, rebalances, history>>

(* The exception leaves KafkaConnect and the constructor; main prints it    *)
(* and returns, without closing the consumer.                               *)
Throw ==
    /\ up /\ inHand # 0 /\ log[inHand] \in Poison
    /\ Die

(* The process ends in any other way: container stopped, segmentation fault. *)
Crash == up /\ Die

(* librdkafka's timer commits the stored offset, also while a handler runs.  *)
(* So does a rebalance whose commit succeeds.                                *)
AutoCommit ==
    /\ up /\ committed # pos
    /\ committed' = pos
    /\ UNCHANGED <<log, pos, inHand, up, restarts, rebalances, history>>

\* Mutant: a revocation takes the message in hand away from its handler.
RebalanceDrops ==
    /\ up /\ pos # committed /\ rebalances < MaxRebalances
    /\ rebalances' = rebalances + 1
    /\ inHand' = 0
    /\ UNCHANGED <<broker, pos, up, restarts, history>>

(* All services share one group, so a restart of any of them reassigns the   *)
(* partitions of all.  If the commit at revocation fails the consumer resumes *)
(* from the last committed offset, with its current message still in hand.   *)
Rebalance ==
    /\ up /\ pos # committed /\ rebalances < MaxRebalances
    /\ rebalances' = rebalances + 1
    /\ pos' = committed
    /\ UNCHANGED <<broker, inHand, up, restarts, history>>

\* Mutant: auto.offset.reset = latest, for a group without a committed offset.
RestartAtLatest ==
    /\ ~up /\ restarts < MaxRestarts
    /\ restarts' = restarts + 1
    /\ up' = TRUE
    /\ pos' = IF committed = 0 THEN Len(log) ELSE committed
    /\ UNCHANGED <<broker, inHand, rebalances, history>>

\* Mutant: without a group.id, a life starts at the earliest message.
RestartAtEarliest ==
    /\ ~up /\ restarts < MaxRestarts
    /\ restarts' = restarts + 1
    /\ up' = TRUE
    /\ pos' = 0
    /\ UNCHANGED <<broker, inHand, rebalances, history>>

(* The process is started again and rejoins the group; with no committed     *)
(* offset it starts at the earliest message, offset 0.                       *)
Restart ==
    /\ ~up /\ restarts < MaxRestarts
    /\ restarts' = restarts + 1
    /\ up' = TRUE
    /\ pos' = committed
    /\ UNCHANGED <<broker, inHand, rebalances, history>>

\* Mutant: the loop ends after its first message.
LoopOnce == (handed = {} /\ Poll) \/ Finish \/ Throw

(* One turn of while(true). *)
Loop == Poll \/ Finish \/ Throw

Next ==
    \/ \E m \in Messages : Publish(m)
    \/ Loop
    \/ Crash
    \/ AutoCommit
    \/ Rebalance
    \/ Restart

Spec == Init /\ [][Next]_vars

(* The process keeps running its loop as long as it lives.  Neither the      *)
(* commit timer nor a restart is fair: nothing in the code or in             *)
(* docker-compose.yaml restarts a service.                                   *)
FairSpec == Spec /\ WF_vars(Loop)

-----------------------------------------------------------------------------
(* Let go without being completed since it was last handed out. *)
Dropped == handed \ (completed \cup {inHand})

(* No handler sees a message before every earlier one was handed to it.      *)
HandedInOrder == \A i \in handed : 1..i \subseteq handed

(* The committed offset never covers a message no handler was called for:    *)
(* the earliest reset and the commit of stored offsets skip nothing.         *)
NothingSkipped == 1..committed \subseteq handed

(* Storing the offset at poll makes delivery at-most-once around a death,    *)
(* but each death costs at most the one message that was in hand.            *)
LossBound ==
    Cardinality(Dropped) <= restarts + (IF up THEN 0 ELSE 1)

(* A message that cannot be parsed kills every life of the service that      *)
(* meets it; the service gets past it only after the commit timer fired in   *)
(* the gap between the poll and the throw.                                   *)
OnlyCommitPassesPoison ==
    \A i \in 1..Len(log) :
        (log[i] \in Poison /\ \E j \in handed : j > i) => committed >= i

(* A dropped message that a commit has passed is lost for good: no restart   *)
(* and no rebalance brings it back to a handler, for none takes a commit     *)
(* back.                                                                     *)
Lost == {i \in Dropped : i <= committed}
LostForGood == [][Lost \subseteq Lost']_vars

(* A running service gets every message, and lets go of it, unless it dies.  *)
EveryMessageHandled ==
    \A i \in 1..MaxLog :
        (Len(log) >= i) ~> ((i \in handed /\ inHand # i) \/ ~up)
=============================================================================
