------------------------------- MODULE Orders -------------------------------
(***************************************************************************)
(* The orders service: an "update" message clears the cart through the     *)
(* topic "cart" and then plays the delivery on a thread of its own, which  *)
(* the handler joins; an "email" message is sent by SMTP.                  *)
(***************************************************************************)
EXTENDS Naturals, Sequences, FiniteSets, Functions

CONSTANTS Messages,  \* of the topic "orders", by their type
          MaxLog, MaxRestarts, MaxRebalances,
          MaxFaults,  \* bound: sends that fail or are duplicated
          NumStages   \* stages of a delivery, 5 in the code

(* "other" is a type the service does not know; "bad" does not parse, or an  *)
(* email lacks its body, receiver or subject.                                *)
ASSUME OrdersAssumption ==
    /\ Messages \subseteq {"update", "email", "other", "bad"}
    /\ MaxLog \in Nat /\ MaxRestarts \in Nat /\ MaxRebalances \in Nat
    /\ MaxFaults \in Nat /\ NumStages \in Nat \ {0}

VARIABLES log, committed, pos, inHand, up, restarts, rebalances, handed,
          completed,   \* the consumer, see KafkaConsumer
          stage,       \* of the handler
          deliveries,  \* the delivery threads alive, with their next step
          runs,        \* history: offsets UpdateOrders was called for, in order
          sent,        \* history: what the topics got, as <<run, step>>
          mailed,      \* history: offsets Email was called for
          faults

consumer == <<log, committed, pos, inHand, up, restarts, rebalances, handed,
              completed>>
output == <<runs, sent, mailed, faults>>
vars == <<consumer, stage, deliveries, output>>

Poison == Messages \cap {"bad"}

Loop == INSTANCE KafkaConsumer

(* Step 0 is the clear sent to "cart"; the thread tells the topics "gui" and *)
(* "order", in turn, of each stage: order started, driver arrived (twice),   *)
(* order picked up, order delivered.                                         *)
LastStep == 2 * NumStages
Topic(step) == IF step = 0 THEN "cart" ELSE IF step % 2 = 1 THEN "gui" ELSE "order"

Thread(run, step) == [run |-> run, step |-> step]

TypeOK ==
    /\ Loop!TypeOK
    /\ stage \in {"idle", "begin", "cleared", "join", "end"}
    /\ deliveries \subseteq [run : 1..Len(runs), step : 1..LastStep]
    /\ runs \in Seq(1..Len(log))
    /\ sent \in Seq((1..Len(runs)) \X (0..LastStep))
    /\ mailed \subseteq handed
    /\ faults \in 0..MaxFaults

Init ==
    /\ Loop!Init
    /\ stage = "idle" /\ deliveries = {}
    /\ runs = <<>> /\ sent = <<>> /\ mailed = {} /\ faults = 0

-----------------------------------------------------------------------------
(* Produce makes a producer for one message and waits 5 s for it.  Without a *)
(* producer, or without the broker's answer in time, the message is lost or  *)
(* not; librdkafka's own retries may store it twice.  No caller is told.     *)
Produce(run, step) ==
    LET m == <<run, step>> IN
    \/ sent' = Append(sent, m) /\ UNCHANGED faults
    \/ /\ faults < MaxFaults
       /\ faults' = faults + 1
       /\ sent' \in {sent, sent \o <<m, m>>}

\* Mutant: the loop ends after its first message.
ReceiveFirst ==
    /\ stage = "idle" /\ handed = {} /\ Loop!Poll
    /\ stage' = "begin"
    /\ UNCHANGED <<deliveries, output>>

Receive ==
    /\ stage = "idle" /\ Loop!Poll
    /\ stage' = "begin"
    /\ UNCHANGED <<deliveries, output>>

AtBegin(type) == up /\ stage = "begin" /\ log[inHand] = type

\* Mutant: the handler starts over when the clear could not be sent.
ClearRetried ==
    /\ AtBegin("update")
    /\ runs' = Append(runs, inHand)
    /\ \/ stage' = "cleared" /\ sent' = Append(sent, <<Len(runs'), 0>>)
          /\ UNCHANGED faults
       \/ faults < MaxFaults /\ faults' = faults + 1 /\ UNCHANGED <<stage, sent>>
    /\ UNCHANGED <<consumer, deliveries, mailed>>

(* The first half of an update: the clear goes out before the delivery.      *)
Clear ==
    /\ AtBegin("update")
    /\ stage' = "cleared"
    /\ runs' = Append(runs, inHand)
    /\ Produce(Len(runs'), 0)
    /\ UNCHANGED <<consumer, deliveries, mailed>>

UpdateOrders ==
    /\ up /\ stage = "cleared"
    /\ stage' = "join"
    /\ deliveries' = deliveries \cup {Thread(Len(runs), 1)}
    /\ UNCHANGED <<consumer, output>>

\* Mutant: the thread's loop has no break.
DeliverOn(d) ==
    /\ d \in deliveries /\ d.step <= LastStep
    /\ Produce(d.run, d.step)
    /\ deliveries' = (deliveries \ {d}) \cup {Thread(d.run, d.step + 1)}
    /\ UNCHANGED <<consumer, stage, runs, mailed>>

\* Mutant: the thread's loop breaks before its last message.
DeliverShort(d) ==
    /\ d \in deliveries
    /\ Produce(d.run, d.step)
    /\ deliveries' = (deliveries \ {d}) \cup
          (IF d.step + 1 = LastStep THEN {} ELSE {Thread(d.run, d.step + 1)})
    /\ UNCHANGED <<consumer, stage, runs, mailed>>

(* The thread's next message, after the sleep that precedes its stage. *)
Deliver(d) ==
    /\ d \in deliveries
    /\ Produce(d.run, d.step)
    /\ deliveries' = (deliveries \ {d}) \cup
          (IF d.step = LastStep THEN {} ELSE {Thread(d.run, d.step + 1)})
    /\ UNCHANGED <<consumer, stage, runs, mailed>>

\* Mutant: the thread is detached.
Detach ==
    /\ up /\ stage = "join"
    /\ stage' = "end"
    /\ UNCHANGED <<consumer, deliveries, output>>

Join ==
    /\ up /\ stage = "join" /\ deliveries = {}
    /\ stage' = "end"
    /\ UNCHANGED <<consumer, deliveries, output>>

(* One attempt by SMTP, whose failure is printed and forgotten. *)
Email ==
    /\ AtBegin("email")
    /\ stage' = "end"
    /\ mailed' = mailed \cup {inHand}
    /\ UNCHANGED <<consumer, deliveries, runs, sent, faults>>

Ignore ==
    /\ AtBegin("other")
    /\ stage' = "end"
    /\ UNCHANGED <<consumer, deliveries, output>>

-----------------------------------------------------------------------------
Finish ==
    /\ stage = "end" /\ Loop!Finish
    /\ stage' = "idle"
    /\ UNCHANGED <<deliveries, output>>

(* Every thread of the process ends with it. *)
Stop == stage' = "idle" /\ deliveries' = {} /\ UNCHANGED output

Throw == stage = "begin" /\ Loop!Throw /\ Stop
Crash == Loop!Crash /\ Stop

Environment ==
    /\ \/ \E m \in Messages : Loop!Publish(m)
       \/ Loop!AutoCommit
       \/ Loop!Rebalance
       \/ Loop!Restart
    /\ UNCHANGED <<stage, deliveries, output>>

Service ==
    \/ Receive \/ Clear \/ UpdateOrders \/ Join \/ Email \/ Ignore
    \/ Finish \/ Throw
    \/ \E d \in deliveries : Deliver(d)

Next == Service \/ Environment \/ Crash

Spec == Init /\ [][Next]_vars

(* The consumer thread and the delivery thread are scheduled, and every send *)
(* returns after its 5 s at most.                                            *)
FairSpec == Spec /\ WF_vars(Service)

-----------------------------------------------------------------------------
(* The topics see one delivery after the other, never two at a time, and the *)
(* stages of each in their order, whatever was lost, sent twice or redone.   *)
DeliveriesInOrder ==
    \A a, b \in DOMAIN sent : a < b =>
        \/ sent[a][1] < sent[b][1]
        \/ sent[a][1] = sent[b][1] /\ sent[a][2] <= sent[b][2]

(* An order whose handler returned was played in full, its cart cleared and  *)
(* every stage told to both topics: what all such orders lack together was   *)
(* lost by sends that failed, one step for each.                             *)
Missing(r) == {s \in 0..LastStep : <<r, s>> \notin Range(sent)}
LatestRun(i) == CHOOSE r \in DOMAIN runs :
    runs[r] = i /\ \A q \in DOMAIN runs : runs[q] = i => q <= r

CompletedMeansDelivered ==
    Cardinality(UNION {{LatestRun(i)} \X Missing(LatestRun(i)) :
                       i \in {j \in completed : log[j] = "update"}}) <= faults

(* An order is played again only because a restart or a rebalance went back  *)
(* to an older offset, once for each.                                        *)
RunBound ==
    \A i \in handed :
        Cardinality({r \in DOMAIN runs : runs[r] = i}) <= 1 + restarts + rebalances

(* An order on the topic is carried out to the end, unless the service dies, *)
(* or died with it in hand and past the commit.                              *)
OrderDelivered ==
    \A i \in 1..MaxLog :
        (Len(log) >= i /\ i \notin Loop!Dropped) ~> (i \in completed \/ ~up)

(* The mails a delivery asks for (Orders.c++:100) are sent by the handler of *)
(* "email" messages (Orders.c++:43), unless the service dies.                *)
EmailsAreSent ==
    (\E r \in DOMAIN runs : <<r, 2>> \in Range(sent)) ~> (mailed # {} \/ ~up)
=============================================================================
