------------------------------- MODULE Basket -------------------------------
(***************************************************************************)
(* The basket service: the consumer loop of KafkaConnect, or the HTTP      *)
(* handlers of handle_request when KafkaConnect returned, and the Redis    *)
(* commands both send, one at a time, over a connection each handler opens *)
(* for itself.  Redis may lose the connection, answer with an error, or    *)
(* stop and come back with its last snapshot (restart: always, --save).    *)
(***************************************************************************)
EXTENDS Naturals, Sequences, FiniteSets, Functions

CONSTANTS Items, Costs, MaxLog, MaxRestarts, MaxRebalances,
          MaxRequests,  \* bound: HTTP requests
          MaxFaults     \* bound: failed Redis commands and Redis restarts

ASSUME BasketAssumption ==
    /\ MaxLog \in Nat /\ MaxRestarts \in Nat /\ MaxRebalances \in Nat
    /\ MaxRequests \in Nat /\ MaxFaults \in Nat

VARIABLES log, committed, pos, inHand, up, restarts, rebalances, handed,
          completed,  \* the consumer, see KafkaConsumer
          serving,    \* KafkaConnect returned: HTTP is served, not the topic
          request,    \* the HTTP request being handled
          requests,   \* how many there were
          stage,      \* of the handler: "idle", "begin", "loop", "end"
          todo,       \* keys of the KEYS reply not yet visited
          found,      \* items the listing has read so far
          link,       \* the handler's connection to Redis works
          store,      \* the keys basket:* in Redis
          snap,       \* the same in Redis's last snapshot
          faults,
          reloaded,   \* history: Redis has come back from a snapshot
          shown       \* the last listing printed or sent

consumer == <<log, committed, pos, inHand, up, restarts, rebalances, handed,
              completed>>
http == <<serving, request, requests>>
handler == <<stage, todo, found>>
redis == <<link, store, snap, faults, reloaded>>
vars == <<consumer, http, handler, redis, shown>>

NoRequest == [type |-> "none"]
Task == IF serving THEN request ELSE log[inHand]

\* The cart that clients see: a clear takes effect with its KEYS, a listing
\* with its last GET, and the other handlers with their only command.
Carts == INSTANCE Cart WITH
    cart <- IF stage = "loop" /\ Task.type = "clear"
            THEN Restrict(store, DOMAIN store \ todo) ELSE store,
    applied <- IF /\ inHand # 0
                  /\ stage = "begin" \/ (stage = "loop" /\ Task.type = "get")
               THEN inHand - 1 ELSE pos

Messages == Carts!TopicMessages
Poison == {m \in Messages : m.type = "bad"}

Loop == INSTANCE KafkaConsumer

CartType == UNION {[S -> Costs] : S \in SUBSET Items}

TypeOK ==
    /\ Loop!TypeOK
    /\ serving \in BOOLEAN
    /\ request \in Carts!Requests \cup {NoRequest} /\ requests \in 0..MaxRequests
    /\ stage \in {"idle", "begin", "loop", "end"}
    /\ todo \subseteq Items
    /\ link \in BOOLEAN /\ faults \in 0..MaxFaults /\ reloaded \in BOOLEAN
    /\ {found, store, snap, shown} \subseteq CartType

Init ==
    /\ Loop!Init
    /\ serving \in BOOLEAN /\ request = NoRequest /\ requests = 0
    /\ stage = "idle" /\ todo = {} /\ found = Carts!Empty
    /\ link = TRUE /\ faults = 0 /\ reloaded = FALSE
    /\ store = Carts!Empty /\ snap = Carts!Empty /\ shown = Carts!Empty

-----------------------------------------------------------------------------
(* How one redisCommand ends that would leave the store as s: done; answered *)
(* with an error reply and not done; or NULL, done or not, after which the   *)
(* context is broken and every command on it returns NULL.                   *)
Command(s, answer) ==
    \/ /\ link /\ answer = "ok"
       /\ store' = s
       /\ UNCHANGED <<link, snap, faults, reloaded>>
    \/ /\ link /\ answer = "error" /\ faults < MaxFaults
       /\ faults' = faults + 1
       /\ UNCHANGED <<link, store, snap, reloaded>>
    \/ /\ link /\ answer = "null" /\ faults < MaxFaults
       /\ faults' = faults + 1
       /\ link' = FALSE
       /\ store' \in {store, s}
       /\ UNCHANGED <<snap, reloaded>>
    \/ /\ ~link /\ answer = "null"
       /\ UNCHANGED redis

Answers == {"ok", "error", "null"}

-----------------------------------------------------------------------------
(* Starting a handler: every one opens a connection of its own.  A connect   *)
(* that fails is a first command that ends in NULL without being done.       *)
Begin ==
    /\ stage' = "begin" /\ todo' = {} /\ found' = Carts!Empty
    /\ link' = TRUE
    /\ UNCHANGED <<store, snap, faults, reloaded, shown>>

Receive ==
    /\ ~serving /\ stage = "idle"
    /\ Loop!Poll
    /\ Begin
    /\ UNCHANGED http

Accept(r) ==
    /\ up /\ serving /\ stage = "idle" /\ requests < MaxRequests
    /\ request' = r /\ requests' = requests + 1
    /\ Begin
    /\ UNCHANGED <<consumer, serving>>

AtBegin(types) == up /\ stage = "begin" /\ Task.type \in types
AtLoop(type) == up /\ stage = "loop" /\ Task.type = type
One(s, answer) ==
    /\ Command(s, answer)
    /\ stage' = "end"
    /\ UNCHANGED <<consumer, http, todo, found, shown>>

\* Mutant: the costs of an item that is put in twice are added up.
AddSums ==
    /\ AtBegin({"add"})
    /\ One(Carts!Put(store, Task.item,
                     IF Task.item \in DOMAIN store
                     THEN store[Task.item] + Task.cost ELSE Task.cost), "ok")

(* SET.  What became of it is printed, and nothing else: no failure is       *)
(* retried or kept from being committed.                                     *)
AddToBasket ==
    /\ AtBegin({"add"})
    /\ \E a \in Answers : One(Carts!Put(store, Task.item, Task.cost), a)

(* DEL of one key, there or not. *)
DeleteItem ==
    /\ AtBegin({"delete"})
    /\ \E a \in Answers : One(Carts!Without(store, {Task.item}), a)

(* GET of one key, asked for over HTTP only. *)
GetBasketById ==
    /\ AtBegin({"find"})
    /\ \E a \in Answers : One(store, a)

(* An unknown type, or /health: no command is sent. *)
Ignore ==
    /\ AtBegin({"other"})
    /\ stage' = "end"
    /\ UNCHANGED <<consumer, http, todo, found, redis, shown>>

-----------------------------------------------------------------------------
(* DeleteAllItems and GetBasket: KEYS basket:*, then a command for each key  *)
(* of the reply, in the order Redis lists them, which may be any.            *)
Keys ==
    /\ AtBegin({"clear", "get"})
    /\ \E a \in Answers :
        /\ Command(store, a)
        /\ todo' = IF a = "ok" THEN DOMAIN store ELSE {}
    /\ stage' = "loop"
    /\ UNCHANGED <<consumer, http, found, shown>>

Visit(k) == todo' = todo \ {k} /\ UNCHANGED <<consumer, http, stage, shown>>

\* Mutant: a DEL that failed is sent again, on the same connection.
ClearRetries(k) ==
    /\ AtLoop("clear") /\ k \in todo
    /\ \E a \in Answers :
        /\ Command(Carts!Without(store, {k}), a)
        /\ todo' = IF a = "ok" THEN todo \ {k} ELSE todo
    /\ UNCHANGED <<consumer, http, stage, found, shown>>

(* The result of DEL is thrown away, whatever it is. *)
ClearOne(k) ==
    /\ AtLoop("clear") /\ k \in todo
    /\ \E a \in Answers : Command(Carts!Without(store, {k}), a)
    /\ Visit(k)
    /\ UNCHANGED found

\* Mutant: the listing ends with its first key.
GetFirstOnly(k) ==
    /\ AtLoop("get") /\ k \in todo
    /\ Command(store, "ok")
    /\ todo' = {} /\ found' = Carts!Put(found, k, store[k])
    /\ UNCHANGED <<consumer, http, stage, shown>>

(* A key that went away between KEYS and GET is left out of the result. *)
GetOne(k) ==
    /\ AtLoop("get") /\ k \in todo
    /\ \E a \in Answers :
        /\ Command(store, a)
        /\ found' = IF a = "ok" /\ k \in DOMAIN store
                    THEN Carts!Put(found, k, store[k]) ELSE found
    /\ Visit(k)

ClearDone ==
    /\ AtLoop("clear") /\ todo = {}
    /\ stage' = "end"
    /\ UNCHANGED <<consumer, http, todo, found, redis, shown>>

(* The consumer prints the listing, handle_request sends it. *)
GetDone ==
    /\ AtLoop("get") /\ todo = {}
    /\ ~serving \/ found = Carts!Empty
    /\ stage' = "end"
    /\ shown' = found
    /\ UNCHANGED <<consumer, http, todo, found, redis>>

-----------------------------------------------------------------------------
Stop ==
    /\ stage' = "idle" /\ todo' = {} /\ found' = Carts!Empty
    /\ request' = NoRequest
    /\ UNCHANGED <<serving, requests, redis, shown>>

(* The message is destroyed, or the response is written. *)
Finish == ~serving /\ stage = "end" /\ Loop!Finish /\ Stop
Respond == up /\ serving /\ stage = "end" /\ Stop /\ UNCHANGED consumer

Throw == ~serving /\ stage = "begin" /\ Loop!Throw /\ Stop

(* GET /basket asks each element of a JSON array for its key(), which throws: *)
(* the exception leaves ioc.run() and main returns.                           *)
ListingThrows ==
    /\ AtLoop("get") /\ todo = {} /\ serving /\ found # Carts!Empty
    /\ Loop!Die
    /\ Stop

Crash == Loop!Crash /\ Stop

Restart ==
    /\ Loop!Restart
    /\ serving' \in BOOLEAN
    /\ UNCHANGED <<request, requests, handler, redis, shown>>

Environment ==
    /\ \/ \E m \in Messages : Loop!Publish(m)
       \/ ~serving /\ (Loop!AutoCommit \/ Loop!Rebalance)
    /\ UNCHANGED <<http, handler, redis, shown>>

Snapshot ==
    /\ faults < MaxFaults /\ snap # store
    /\ snap' = store
    /\ UNCHANGED <<consumer, http, handler, link, store, faults, reloaded, shown>>

(* Redis stops, breaking the open connection, and loads its last snapshot. *)
RedisCrash ==
    /\ faults < MaxFaults
    /\ faults' = faults + 1
    /\ store' = snap /\ link' = FALSE /\ reloaded' = TRUE
    /\ UNCHANGED <<consumer, http, handler, snap, shown>>

Handler ==
    \/ AddToBasket \/ DeleteItem \/ GetBasketById \/ Ignore \/ Keys
    \/ \E k \in Items : ClearOne(k) \/ GetOne(k)
    \/ ClearDone \/ GetDone
    \/ Finish \/ Respond \/ Throw \/ ListingThrows

Service == Receive \/ (\E r \in Carts!Requests : Accept(r)) \/ Handler

Next == Service \/ Environment \/ Crash \/ Restart \/ Snapshot \/ RedisCrash

Spec == Init /\ [][Next]_vars

(* The service dies of itself only. *)
UndisturbedSpec == Init /\ [][Service \/ Environment \/ Restart]_vars

(* One turn of the loop or of ioc.run() after the other, as long as it lives. *)
FairSpec == Spec /\ WF_vars(Receive \/ Handler)

-----------------------------------------------------------------------------
(* While nothing fails, handlers that send several commands look like one    *)
(* step: a clear or a listing never shows half of the cart, and messages     *)
(* take effect once, in the order of the topic.                              *)
ImplementsCart == Carts!Spec

(* The messages of the topic that say something of an item.                  *)
Touches(m, i) == m.type = "clear" \/ (m.type \in {"add", "delete"} /\ m.item = i)
About(i) == {k \in DOMAIN log : Touches(log[k], i)}

(* Redis has the item as message n left it, or for 0 as it was at first.     *)
LeftBy(n, i) ==
    IF n # 0 /\ log[n].type = "add" THEN i \in DOMAIN store /\ store[i] = log[n].cost
    ELSE i \notin DOMAIN store

(* A command that fails costs the effect of one message on some of its items *)
(* and nothing else, and a message whose handler was cut short by a death    *)
(* costs its own.  Messages delivered again, after a rebalance or a restart, *)
(* do no harm: once the service has caught up, Redis holds of every item     *)
(* what the last message about it says that is not among those lost, M, of   *)
(* which every item may have missed others.  (HTTP requests and a Redis that *)
(* came back from an older snapshot change more than that.)                  *)
LossesPaid ==
    (pos = Len(log) /\ inHand = 0 /\ requests = 0 /\ ~reloaded) =>
        \E M \in SUBSET handed :
            /\ Cardinality(M \ Loop!Dropped) <= faults
            /\ \A i \in Items : \E n \in About(i) \cup {0} :
                  LeftBy(n, i) /\ {k \in About(i) : n < k} \subseteq M

(* Whatever fails, no item or cost is in Redis, in its snapshot, or in a     *)
(* listing that no message handed to the service put there.                  *)
NothingInvented ==
    \A c \in {store, snap, found, shown} : \A i \in DOMAIN c :
        \E h \in handed : log[h] = [type |-> "add", item |-> i, cost |-> c[i]]

(* Every handler ends, however many keys KEYS listed and whatever fails.     *)
HandlersEnd == (stage # "idle") ~> (stage = "idle")

(* A consuming service gets to every message, unless it dies.                *)
TopicDrained ==
    \A i \in 1..MaxLog :
        (Len(log) >= i) ~> ((i \in handed /\ inHand # i) \/ ~up \/ serving)

(* GET /basket sends back all the items (Main.c++:94): nothing a client asks *)
(* for takes the server down.                                                *)
ServerStaysUp == serving => up
=============================================================================
