-------------------------------- MODULE Cart --------------------------------
(***************************************************************************)
(* What the basket service promises when nothing fails: one cart, a map    *)
(* from item to cost, which each message of the topic, in order and once,  *)
(* and each HTTP request changes or shows in one step.                     *)
(***************************************************************************)
EXTENDS Naturals, Sequences, Functions

CONSTANTS Items, Costs, MaxLog

ItemMessages == [type : {"delete", "find"}, item : Items]

(* "other": a type the service does not know, or /health.  "bad": not JSON,  *)
(* or without a key the service reads.                                       *)
PlainMessages == [type : {"clear", "get", "other", "bad"}]

Adds == [type : {"add"}, item : Items, cost : Costs]

TopicMessages == Adds \cup PlainMessages \cup {m \in ItemMessages : m.type = "delete"}

(* The requests handle_request routes to the basket. *)
Requests == ItemMessages \cup {m \in PlainMessages : m.type # "bad"}

Empty == <<>>
Put(c, i, cost) == [k \in DOMAIN c \cup {i} |-> IF k = i THEN cost ELSE c[k]]
Without(c, S) == Restrict(c, DOMAIN c \ S)

(* What a message does to a cart. *)
Effect(c, m) ==
    CASE m.type = "add"    -> Put(c, m.item, m.cost)
      [] m.type = "delete" -> Without(c, {m.item})
      [] m.type = "clear"  -> Empty
      [] OTHER             -> c

VARIABLES log, applied, cart, shown

Init == log = <<>> /\ applied = 0 /\ cart = Empty /\ shown = Empty

Publish(m) ==
    /\ Len(log) < MaxLog
    /\ log' = Append(log, m)
    /\ UNCHANGED <<applied, cart, shown>>

Do(m) ==
    /\ cart' = Effect(cart, m)
    /\ shown' = IF m.type = "get" THEN cart ELSE shown

Apply ==
    /\ applied < Len(log)
    /\ applied' = applied + 1
    /\ Do(log[applied + 1])
    /\ UNCHANGED log

Ask(r) == Do(r) /\ UNCHANGED <<log, applied>>

Next ==
    \/ \E m \in TopicMessages : Publish(m)
    \/ Apply
    \/ \E r \in Requests : Ask(r)

Spec == Init /\ [][Next]_<<log, applied, cart, shown>>
=============================================================================
