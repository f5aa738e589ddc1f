----------------------------- MODULE Resterants -----------------------------
(***************************************************************************)
(* The restaurants service: a "collect" or "search" message opens a client *)
(* of the database, asks it, and posts what it found to the app.  The      *)
(* database is in a cloud, and any call to it may throw.                   *)
(***************************************************************************)
EXTENDS Naturals, Sequences, FiniteSets

CONSTANTS MaxLog, MaxRestarts, MaxRebalances,
          MaxTries  \* calls of Connect the stack has room for

(* "other" is an unknown type.  "bad" does not parse or has no type, or is a *)
(* search without a name, which shows only once it is connected.             *)
Poison == {"bad"}
Messages == {"collect", "search", "other"} \cup Poison

VARIABLES log, committed, pos, inHand, up, restarts, rebalances, handed,
          completed,  \* the consumer, see KafkaConsumer
          stage,      \* of the handler
          tries,      \* calls of Connect on the stack
          posted      \* history: offsets an answer was posted for

consumer == <<log, committed, pos, inHand, up, restarts, rebalances, handed,
              completed>>
vars == <<consumer, stage, tries, posted>>

Loop == INSTANCE KafkaConsumer

TypeOK ==
    /\ Loop!TypeOK
    /\ stage \in {"idle", "begin", "query", "post", "posting", "end"}
    /\ tries \in 0..MaxTries
    /\ posted \subseteq handed

Init == Loop!Init /\ stage = "idle" /\ tries = 0 /\ posted = {}

-----------------------------------------------------------------------------
At(s, types) == up /\ stage = s /\ log[inHand] \in types
Stop == stage' = "idle" /\ tries' = 0 /\ UNCHANGED posted

Receive ==
    /\ stage = "idle" /\ Loop!Poll
    /\ stage' = "begin" /\ tries' = 0
    /\ UNCHANGED posted

Ignore == At("begin", {"other"}) /\ stage' = "end" /\ UNCHANGED <<consumer, tries, posted>>

Connect ==
    /\ At("begin", {"collect", "search", "bad"})
    /\ stage' = "query" /\ tries' = 0
    /\ UNCHANGED <<consumer, posted>>

\* Mutant: Connect loops instead of calling itself.
ConnectLoops ==
    /\ At("begin", {"collect", "search", "bad"})
    /\ tries' = (tries + 1) % (MaxTries + 1)
    /\ UNCHANGED <<consumer, stage, posted>>

(* A failed Connect calls itself from its catch clause, until the stack ends. *)
ConnectAgain ==
    /\ At("begin", {"collect", "search", "bad"})
    /\ IF tries < MaxTries
       THEN tries' = tries + 1 /\ UNCHANGED <<consumer, stage, posted>>
       ELSE Loop!Die /\ Stop

(* GetAll posts whatever there is, Search only a restaurant it found.        *)
Query ==
    /\ At("query", {"collect", "search"})
    /\ stage' \in IF log[inHand] = "collect" THEN {"post"} ELSE {"post", "end"}
    /\ UNCHANGED <<consumer, tries, posted>>

(* The cursor throws, and so does the constructor. *)
QueryThrows == At("query", {"collect", "search"}) /\ Loop!Die /\ Stop

\* Mutant: the list is posted from a thread of its own.
PostDetached ==
    /\ At("post", {"collect", "search"})
    /\ stage' = "end"
    /\ UNCHANGED <<consumer, tries, posted>>

Post ==
    /\ At("post", {"collect", "search"})
    /\ stage' = "posting" /\ posted' = posted \cup {inHand}
    /\ UNCHANGED <<consumer, tries>>

(* Answered or not, the handler prints it and returns. *)
PostReturns ==
    /\ At("posting", {"collect", "search"})
    /\ stage' = "end"
    /\ UNCHANGED <<consumer, tries, posted>>

Finish == stage = "end" /\ Loop!Finish /\ Stop
Throw == stage \in {"begin", "query"} /\ Loop!Throw /\ Stop
Crash == Loop!Crash /\ Stop

Environment ==
    /\ Loop!AutoCommit \/ Loop!Rebalance \/ Loop!Restart
    /\ UNCHANGED <<stage, tries, posted>>

(* What the service does between its posts. *)
Work ==
    \/ Receive \/ Ignore \/ Connect \/ ConnectAgain \/ Query \/ QueryThrows
    \/ Finish \/ Throw

-----------------------------------------------------------------------------
(* A collect that was completed was answered, or its answer tried: only a    *)
(* search may end in silence, when it found nothing.                         *)
CollectAnswered == \A i \in completed : log[i] = "collect" => i \in posted

(* A running service gets through its topic, unless it dies. *)
TopicDrained ==
    \A i \in 1..MaxLog :
        (Len(log) >= i) ~> ((i \in handed /\ inHand # i) \/ ~up)
=============================================================================
