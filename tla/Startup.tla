------------------------------- MODULE Startup -------------------------------
(***************************************************************************)
(* The main functions of the services and the Consul catalog they fill.    *)
(* Constructing the service object is a step of main that consumes the     *)
(* topic and does not come back unless KafkaConnect could not set itself   *)
(* up; listening only opens the port, and run answers what arrives on it.  *)
(***************************************************************************)
EXTENDS Naturals, Sequences

CONSTANTS Service,      \* the services that are started
          MaxRestarts   \* bound: processes started again by an operator

ASSUME StartupAssumption ==
    /\ Service \subseteq {"basket", "order", "account", "resterants"}
    /\ MaxRestarts \in Nat

(* The name docker-compose gives a service is the host name it has. *)
Main == [
    account    |-> <<"consume", "listen", "run", "register">>,
    basket     |-> <<"listen", "announce", "consume", "register", "run">>,
    order      |-> <<"listen", "announce", "consume", "register", "run">>,
    resterants |-> <<"consume", "listen", "register", "run">>]

Port == [account |-> 9257, basket |-> 9256, order |-> 9260, resterants |-> 9259]

(* What each main passes to Register. *)
Entry == [
    account    |-> [id |-> "account-1", host |-> "account", port |-> 9257],
    basket     |-> [id |-> "basket-1",  host |-> "basket",  port |-> 9256],
    order      |-> [id |-> "orders-1",  host |-> "orders",  port |-> 9260],
    resterants |-> [id |-> "basket-1",  host |-> "basket",  port |-> 9259]]

VARIABLES pc,         \* the step of main a process is at, 0 once it ended
          listening,  \* its acceptor is open
          subscribed, \* its last KafkaConnect set up a consumer
          announced,  \* services that printed "Server running on ..."
          catalog,    \* Consul: the services registered last, one for an id
          restarts

vars == <<pc, listening, subscribed, announced, catalog, restarts>>

At(s) == IF pc[s] \in DOMAIN Main[s] THEN Main[s][pc[s]] ELSE "ended"

TypeOK ==
    /\ pc \in [Service -> 0..5]
    /\ listening \in [Service -> BOOLEAN] /\ subscribed \in [Service -> BOOLEAN]
    /\ announced \subseteq Service /\ catalog \subseteq Service
    /\ \A s, t \in catalog : Entry[s].id = Entry[t].id => s = t
    /\ restarts \in 0..MaxRestarts

Init ==
    /\ pc = [s \in Service |-> 1]
    /\ listening = [s \in Service |-> FALSE]
    /\ subscribed = [s \in Service |-> FALSE]
    /\ announced = {} /\ catalog = {} /\ restarts = 0

-----------------------------------------------------------------------------
Goto(s, step) == pc' = [pc EXCEPT ![s] = step]
Proceed(s) == Goto(s, IF pc[s] = Len(Main[s]) THEN 0 ELSE pc[s] + 1)

(* The Listener's errors are printed, and main goes on without it. *)
Listen(s) ==
    /\ At(s) = "listen"
    /\ \E ok \in BOOLEAN : listening' = [listening EXCEPT ![s] = ok]
    /\ Proceed(s)
    /\ UNCHANGED <<subscribed, announced, catalog, restarts>>

Announce(s) ==
    /\ At(s) = "announce"
    /\ announced' = announced \cup {s}
    /\ Proceed(s)
    /\ UNCHANGED <<listening, subscribed, catalog, restarts>>

\* Mutant: the loop runs beside main.
SubscribeReturns(s) ==
    /\ At(s) = "consume" /\ ~subscribed[s]
    /\ subscribed' = [subscribed EXCEPT ![s] = TRUE]
    /\ Proceed(s)
    /\ UNCHANGED <<listening, announced, catalog, restarts>>

(* KafkaConnect: the consumer runs, and the constructor stays in its loop.   *)
Subscribe(s) ==
    /\ At(s) = "consume" /\ ~subscribed[s]
    /\ subscribed' = [subscribed EXCEPT ![s] = TRUE]
    /\ UNCHANGED <<pc, listening, announced, catalog, restarts>>

(* rd_kafka_new or rd_kafka_subscribe failed: it returns. *)
SubscribeFails(s) ==
    /\ At(s) = "consume" /\ ~subscribed[s]
    /\ Proceed(s)
    /\ UNCHANGED <<listening, subscribed, announced, catalog, restarts>>

\* Mutant: Consul keeps the first service of an id.
RegisterBeside(s) ==
    /\ At(s) = "register"
    /\ catalog' = catalog \cup {s}
    /\ Proceed(s)
    /\ UNCHANGED <<listening, subscribed, announced, restarts>>

\* Mutant: main waits for an entry of its own to go away.
RegisterOnce(s) ==
    /\ At(s) = "register" /\ s \notin catalog
    /\ catalog' = {t \in catalog : Entry[t].id # Entry[s].id} \cup {s}
    /\ Proceed(s)
    /\ UNCHANGED <<listening, subscribed, announced, restarts>>

(* PUT /v1/agent/service/register replaces the entry that has the same ID.   *)
Register(s) ==
    /\ At(s) = "register"
    /\ catalog' = {t \in catalog : Entry[t].id # Entry[s].id} \cup {s}
    /\ Proceed(s)
    /\ UNCHANGED <<listening, subscribed, announced, restarts>>

(* ioc.run() has nothing to wait for when the acceptor is not open. *)
RunReturns(s) ==
    /\ At(s) = "run" /\ ~listening[s]
    /\ Proceed(s)
    /\ UNCHANGED <<listening, subscribed, announced, catalog, restarts>>

(* main ends by an exception, of a handler, of a poison message, or because  *)
(* Consul cannot be resolved or reached; or the container is stopped.        *)
End(s) ==
    /\ pc[s] # 0
    /\ Goto(s, 0)
    /\ listening' = [listening EXCEPT ![s] = FALSE]
    /\ subscribed' = [subscribed EXCEPT ![s] = FALSE]
    /\ UNCHANGED <<announced, catalog, restarts>>

Restart(s) ==
    /\ pc[s] = 0 /\ restarts < MaxRestarts
    /\ restarts' = restarts + 1
    /\ Goto(s, 1)
    /\ listening' = [listening EXCEPT ![s] = FALSE]
    /\ subscribed' = [subscribed EXCEPT ![s] = FALSE]
    /\ announced' = announced \ {s}
    /\ UNCHANGED catalog

Step(s) ==
    \/ Listen(s) \/ Announce(s) \/ Subscribe(s) \/ SubscribeFails(s)
    \/ Register(s) \/ RunReturns(s)

Next == \E s \in Service : Step(s) \/ End(s) \/ Restart(s)

Spec == Init /\ [][Next]_vars
FairSpec == Spec /\ \A s \in Service : WF_vars(Step(s))

-----------------------------------------------------------------------------
Serving(s) == At(s) = "run" /\ listening[s]

(* The check of a registered service: GET http://host:port/health. *)
Healthy(s) ==
    \E t \in Service : Serving(t) /\ t = Entry[s].host /\ Port[t] = Entry[s].port

(* A main registers behind its loop, and Account's behind its ioc.run() too: *)
(* until a process is started again, no service in the catalog consumes its  *)
(* topic, and the account service in it fails its health check.              *)
CatalogOfFirstLives ==
    restarts = 0 => \A s \in catalog :
        ~subscribed[s] /\ (s = "account" => ~Healthy(s))

(* A main that cannot set up its consumer comes to serve HTTP, registered    *)
(* where it registers before it serves; or it ends.                          *)
FailedConsumerServes ==
    \A s \in Service :
        (pc[s] # 0 /\ ~subscribed[s] /\ At(s) = "consume") ~>
            (subscribed[s] \/ Serving(s) \/ pc[s] = 0)

(* "Server running on 9256" (Basket/Main.c++:197): a server that was         *)
(* announced comes to answer, or the process ends.                           *)
AnnouncedServes ==
    \A s \in Service : (s \in announced) ~> (Serving(s) \/ pc[s] = 0)
=============================================================================
