------------------------------ MODULE OrderFlow ------------------------------
(***************************************************************************)
(* An order across the two services it involves: the user writes to the    *)
(* topics "cart" and "orders", the orders service clears the cart through  *)
(* the topic "cart", and the basket service follows that topic.  The       *)
(* basket is its abstract form, Cart, which module Basket implements.      *)
(***************************************************************************)
EXTENDS Orders, TLC

CONSTANTS Items, Costs, MaxCartLog

ASSUME OrderFlowAssumption == "update" \in Messages

VARIABLES cartLog, applied, cart, shown,  \* the basket, see Cart
          since  \* history: items put in since the user last placed an order

basket == <<cartLog, applied, cart, shown>>
flowVars == <<vars, basket, since>>

Carts == INSTANCE Cart WITH log <- cartLog, MaxLog <- MaxCartLog

FlowTypeOK ==
    /\ TypeOK
    /\ cartLog \in Seq(Carts!TopicMessages) /\ applied \in 0..Len(cartLog)
    /\ since \subseteq Items

FlowInit == Init /\ Carts!Init /\ since = {}

-----------------------------------------------------------------------------
Shop(i, c) ==
    /\ Carts!Publish([type |-> "add", item |-> i, cost |-> c])
    /\ since' = since \cup {i}
    /\ UNCHANGED vars

PlaceOrder ==
    /\ Loop!Publish("update")
    /\ since' = {}
    /\ UNCHANGED <<stage, deliveries, output, basket>>

BasketApplies == Carts!Apply /\ UNCHANGED <<vars, since>>

ClearMessage == [type |-> "clear"]

\* Mutant: the order itself is forwarded, the outer of the two variables
\* called "message" in KafkaConnect.
OrderForwarded ==
    /\ Clear
    /\ cartLog' = Append(cartLog, [type |-> "update"])
    /\ UNCHANGED <<applied, cart, shown, since>>

\* Mutant: an order sends no clear once it or an earlier one was delivered.
ClearOnlyOnce ==
    /\ Clear
    /\ cartLog' = IF \E r \in DOMAIN runs : runs[r] <= inHand THEN cartLog
                  ELSE Append(cartLog, ClearMessage)
    /\ UNCHANGED <<applied, cart, shown, since>>

(* What Produce brought to the topic "cart", none, one or two messages. *)
OrderClears ==
    /\ Clear
    /\ cartLog' = cartLog \o [k \in 1..(Len(sent') - Len(sent)) |-> ClearMessage]
    /\ UNCHANGED <<applied, cart, shown, since>>

OrdersStep ==
    /\ \/ Receive \/ UpdateOrders \/ Join \/ Finish
       \/ \E d \in deliveries : Deliver(d)
    /\ UNCHANGED <<basket, since>>

OrdersDisturbed ==
    /\ \/ Crash
       \/ /\ Loop!AutoCommit \/ Loop!Rebalance \/ Loop!Restart
          /\ UNCHANGED <<stage, deliveries, output>>
    /\ UNCHANGED <<basket, since>>

FlowNext ==
    \/ \E i \in Items, c \in Costs : Shop(i, c)
    \/ PlaceOrder
    \/ BasketApplies
    \/ OrderClears \/ OrdersStep
    \/ OrdersDisturbed

FlowSpec == FlowInit /\ [][FlowNext]_flowVars

(* Both services run; the user and the disturbances owe nothing. *)
FairFlowSpec ==
    /\ FlowSpec
    /\ WF_flowVars(BasketApplies)
    /\ WF_flowVars(OrderClears \/ OrdersStep)

-----------------------------------------------------------------------------
Drained == applied = Len(cartLog) /\ pos = Len(log) /\ inHand = 0

(* Once both services caught up, the cart holds nothing from before the last *)
(* order: clears may come late and more than once, but never go missing, if  *)
(* no send failed and no order was dropped by a death.                       *)
OnlyNewItemsStay ==
    (Drained /\ faults = 0 /\ Loop!Dropped = {}) => DOMAIN cart \subseteq since

(* An order that was placed has its cart cleared, unless the orders service  *)
(* dies, or died with the order past the commit, or the send failed.         *)
PlacedIsCleared ==
    \A i \in 1..MaxLog :
        (Len(log) >= i /\ i \notin Loop!Dropped) ~>
            \/ ~up \/ faults > 0
            \/ \E r \in DOMAIN runs :
                /\ runs[r] = i
                /\ Cardinality({k \in 1..applied : cartLog[k].type = "clear"}) >= r
=============================================================================
