------------------------------- MODULE Account -------------------------------
(***************************************************************************)
(* The account service: each "login" or "create" message opens a database  *)
(* connection, asks for the user's row, may insert one, and posts the      *)
(* outcome to the GUI.  The table is taken without a uniqueness rule: the  *)
(* repository has no schema.                                               *)
(*                                                                         *)
(* Names and passwords become part of the text of a statement.  One that   *)
(* is not a literal as it stands, such as a name with a quote in it, makes *)
(* another statement than the code means: it fails, finds any row, or adds *)
(* any rows.  And the database compares names by the collation of the      *)
(* column, while the service compares passwords exactly.                   *)
(***************************************************************************)
EXTENDS Naturals, Sequences, FiniteSets, SequencesExt

CONSTANTS Users, Passwords,
          NoPassword,  \* what a create message without a password carries
          Fold,        \* what the collation keeps of a name, as a function
          Plain,       \* the names and passwords that are literals as they stand
          MaxRows,     \* bound: up to how many rows such an INSERT fills the table
          Sent,        \* bound: the logins and creates that are sent
          MaxLog, MaxRestarts, MaxRebalances,
          MaxFaults    \* bound: failing database calls and posts

Logins == [type : {"login"}, user : Users, password : Passwords]
Creates == [type : {"create"}, user : Users, password : Passwords \cup {NoPassword}]

ASSUME AccountAssumption ==
    /\ NoPassword \notin Passwords \cup Plain
    /\ Sent \subseteq Logins \cup Creates
    /\ MaxRows \in Nat
    /\ MaxLog \in Nat /\ MaxRestarts \in Nat /\ MaxRebalances \in Nat
    /\ MaxFaults \in Nat

(* "other" is an unknown type.  "bad" does not parse, or misses a key that   *)
(* is read before the first query.                                           *)
Poison == {[type |-> "bad"]}
Messages == Sent \cup {[type |-> "other"]} \cup Poison

VARIABLES log, committed, pos, inHand, up, restarts, rebalances, handed,
          completed,  \* the consumer, see KafkaConsumer
          stage,      \* of the handler
          outcome,    \* what the handler is about to post
          open,       \* connections the process has open
          working,    \* the handler's connection still works
          users,      \* the table, in the order of insertion
          replies,    \* history: what reached the GUI, as [to, success]
          faults

consumer == <<log, committed, pos, inHand, up, restarts, rebalances, handed,
              completed>>
vars == <<consumer, stage, outcome, open, working, users, replies,
          faults>>

Loop == INSTANCE KafkaConsumer

NoRow == [user |-> "none"]
Rows == [user : Users, password : Passwords]
Task == log[inHand]

TypeOK ==
    /\ Loop!TypeOK
    /\ stage \in {"idle", "begin", "select", "insert", "post", "close", "end"}
    /\ outcome \in BOOLEAN /\ working \in BOOLEAN
    /\ open \in 0..(MaxFaults + 1)
    /\ users \in Seq(Rows)
    /\ replies \in Seq([to : 1..Len(log), success : BOOLEAN])
    /\ faults \in 0..MaxFaults

Init ==
    /\ Loop!Init
    /\ stage = "idle" /\ outcome = FALSE
    /\ open = 0 /\ working = TRUE
    /\ users = <<>> /\ replies = <<>> /\ faults = 0

-----------------------------------------------------------------------------
database == <<open, working, users>>

At(s, types) == up /\ stage = s /\ Task.type \in types
Fault == faults < MaxFaults /\ faults' = faults + 1

Receive ==
    /\ stage = "idle" /\ Loop!Poll
    /\ stage' = "begin" /\ outcome' = FALSE /\ working' = TRUE
    /\ UNCHANGED <<open, users, replies, faults>>

Ignore ==
    /\ At("begin", {"other"})
    /\ stage' = "end"
    /\ UNCHANGED <<consumer, outcome, database, replies, faults>>

Connect ==
    /\ At("begin", {"login", "create"})
    /\ stage' = "select" /\ open' = open + 1
    /\ UNCHANGED <<consumer, outcome, working, users, replies, faults>>

Literal(m) ==
    /\ m.user \in Plain
    /\ m.type = "create" => m.password \in Plain \cup {NoPassword}

SameName(u, v) == Fold[u] = Fold[v]

RowsOf(u) == {i \in DOMAIN users : SameName(users[i].user, u)}

FirstRow(u) == IF RowsOf(u) = {} THEN NoRow ELSE users[Min(RowsOf(u))]

(* The first row of the result of SELECT ... WHERE username='u'.             *)
Found(u) == IF u \in Plain THEN {FirstRow(u)} ELSE Rows \cup {NoRow}

\* Mutant: a create does not look for the name first.
SelectNoCheck ==
    /\ At("select", {"login", "create"})
    /\ \E row \in Found(Task.user) :
          outcome' = (Task.type = "login" /\ row # NoRow
                       /\ row.password = Task.password)
    /\ stage' = IF Task.type = "create" THEN "insert" ELSE "post"
    /\ UNCHANGED <<consumer, database, replies, faults>>

\* Mutant: the password of the row is not compared.
SelectAnyPassword ==
    /\ At("select", {"login", "create"})
    /\ \E row \in Found(Task.user) :
          /\ outcome' = (Task.type = "login" /\ row # NoRow)
          /\ stage' = IF Task.type = "create" /\ row = NoRow THEN "insert"
                      ELSE "post"
    /\ UNCHANGED <<consumer, database, replies, faults>>

(* SELECT ... WHERE username, and what the first row means: a login compares *)
(* the password, a create goes on to INSERT when there is no row.            *)
Select ==
    /\ At("select", {"login", "create"})
    /\ \E row \in Found(Task.user) :
          /\ outcome' = (Task.type = "login" /\ row # NoRow
                          /\ row.password = Task.password)
          /\ stage' = IF Task.type = "create" /\ row = NoRow THEN "insert"
                      ELSE "post"
    /\ UNCHANGED <<consumer, database, replies, faults>>

(* The query fails, or a login gets no result: the handler returns without   *)
(* an answer and without mysql_close.                                        *)
SelectFails ==
    /\ At("select", {"login", "create"})
    /\ Fault
    /\ stage' = "end"
    /\ UNCHANGED <<consumer, outcome, database, replies>>

(* A create does not look at whether mysql_store_result gave it a result:    *)
(* without one (connection lost, or out of memory) it sees no row.           *)
NoResult ==
    /\ At("select", {"create"})
    /\ Fault
    /\ stage' = "insert" /\ working' \in BOOLEAN
    /\ UNCHANGED <<consumer, outcome, open, users, replies>>

Credentials(m) == [user |-> m.user, password |-> m.password]

(* The rows that INSERT ... VALUES ('user', 'password', ...) adds.           *)
Added(m) ==
    IF Literal(m) THEN {<<Credentials(m)>>}
    ELSE {s \in BoundedSeq(Rows, MaxRows) : s = <<>> \/ Len(users \o s) <= MaxRows}

\* Mutant: a missing password is inserted as it is.
InsertAny ==
    /\ At("insert", {"create"}) /\ working
    /\ users' \in {users \o s : s \in Added(Task) \cup {<<Credentials(Task)>>}}
    /\ outcome' = TRUE
    /\ stage' = "post"
    /\ UNCHANGED <<consumer, open, working, replies, faults>>

Insert ==
    /\ At("insert", {"create"}) /\ Task.password # NoPassword
    /\ working
    /\ users' \in {users \o s : s \in Added(Task)}
    /\ outcome' = TRUE
    /\ stage' = "post"
    /\ UNCHANGED <<consumer, open, working, replies, faults>>

(* The INSERT fails, or its answer is lost on the way back. *)
InsertFails ==
    /\ At("insert", {"create"}) /\ Task.password # NoPassword
    /\ \/ ~working /\ UNCHANGED <<users, faults>>
       \/ /\ working /\ Fault
          /\ users' \in {users} \cup {users \o s : s \in Added(Task)}
    /\ outcome' = FALSE
    /\ stage' = "post"
    /\ UNCHANGED <<consumer, open, working, replies>>

\* Mutant: only good news is posted.
PostSuccessOnly ==
    /\ At("post", {"login", "create"})
    /\ replies' = IF outcome THEN Append(replies, [to |-> inHand, success |-> TRUE])
                  ELSE replies
    /\ stage' = "close"
    /\ UNCHANGED <<consumer, outcome, database, faults>>

(* POST /logins: answered, or it fails before or after reaching the GUI.     *)
Post ==
    /\ At("post", {"login", "create"})
    /\ LET reply == [to |-> inHand, success |-> outcome] IN
       \/ replies' = Append(replies, reply) /\ UNCHANGED faults
       \/ Fault /\ replies' \in {replies, Append(replies, reply)}
    /\ stage' = "close"
    /\ UNCHANGED <<consumer, outcome, database>>

\* Mutant: the connection is not closed.
CloseForgotten ==
    /\ At("close", {"login", "create"})
    /\ stage' = "end"
    /\ UNCHANGED <<consumer, outcome, database, replies, faults>>

Close ==
    /\ At("close", {"login", "create"})
    /\ stage' = "end" /\ open' = open - 1
    /\ UNCHANGED <<consumer, outcome, working, users, replies, faults>>

Finish ==
    /\ stage = "end" /\ Loop!Finish
    /\ stage' = "idle" /\ outcome' = FALSE /\ working' = TRUE
    /\ UNCHANGED <<open, users, replies, faults>>

-----------------------------------------------------------------------------
Stop ==
    /\ stage' = "idle" /\ outcome' = FALSE /\ open' = 0 /\ working' = TRUE
    /\ UNCHANGED <<users, replies>>

Throw == stage = "begin" /\ Loop!Throw /\ Stop /\ UNCHANGED faults

(* Connect returned nullptr and mysql_query follows it. *)
ConnectFails == At("begin", {"login", "create"}) /\ Fault /\ Loop!Die /\ Stop

(* Only when the name is free does Create read the password. *)
PasswordThrows ==
    /\ At("insert", {"create"}) /\ Task.password = NoPassword
    /\ Loop!Die
    /\ Stop /\ UNCHANGED faults

Crash == Loop!Crash /\ Stop /\ UNCHANGED faults

Environment ==
    /\ \/ \E m \in Messages : Loop!Publish(m)
       \/ Loop!AutoCommit
       \/ Loop!Rebalance
       \/ Loop!Restart
    /\ UNCHANGED <<stage, outcome, database, replies, faults>>

Service ==
    \/ Receive \/ Ignore \/ Connect \/ Select \/ SelectFails \/ NoResult
    \/ Insert \/ InsertFails \/ Post \/ Close \/ Finish
    \/ Throw \/ ConnectFails \/ PasswordThrows

Next == Service \/ Environment \/ Crash

Spec == Init /\ [][Next]_vars

(* Database calls return and the post times out after 300 s. *)
FairSpec == Spec /\ WF_vars(Service)

-----------------------------------------------------------------------------
Backed(m) ==
    \E r \in Range(users) :
        /\ SameName(r.user, m.user) /\ r.password = m.password
        /\ m.type = "create" => r = Credentials(m)

(* A positive answer to a message that was understood as it was meant is     *)
(* true: for a login there is a row with that name and password, for a       *)
(* create its own row is in the table; whatever fails, whatever statements   *)
(* other messages made, and however often the message is delivered.          *)
TrueAnswersHold ==
    \A i \in DOMAIN replies :
        replies[i].success /\ Literal(log[replies[i].to])
            => Backed(log[replies[i].to])

(* What was handed out to be inserted is understood as it was meant.         *)
CreatesLiteral == \A i \in handed : log[i].type = "create" => Literal(log[i])

(* Delivering messages again makes no second account: a name, as the         *)
(* database compares them, has one row, and one more at most for each time   *)
(* that the database gave no result.                                         *)
NamesUnique ==
    CreatesLiteral =>
        Len(users) <= Cardinality({Fold[r.user] : r \in Range(users)}) + faults

(* The creates that no earlier one of the topic took the name from.          *)
Creating(m) == m.type = "create" /\ m.password # NoPassword
FirstCreates ==
    {i \in DOMAIN log :
        /\ Creating(log[i])
        /\ \A j \in 1..(i - 1) :
              Creating(log[j]) => ~SameName(log[j].user, log[i].user)}

(* The first create of a name wins, also when the service had to start over: *)
(* once it caught up with the topic, and neither the database failed nor a   *)
(* message was dropped by a death nor another statement made, the table has  *)
(* a row for each name, the one that the first create of the name asked for. *)
FirstCreateWins ==
    /\ pos = Len(log) /\ inHand = 0
    /\ Loop!Dropped = {} /\ faults = 0 /\ CreatesLiteral
    => /\ Range(users) = {Credentials(log[i]) : i \in FirstCreates}
       /\ \A k, l \in DOMAIN users :
             SameName(users[k].user, users[l].user) => k = l

(* Every login or create that was completed was answered, unless a call to   *)
(* the database or a post failed.                                            *)
CompletedAnswered ==
    Cardinality({i \in completed :
        /\ log[i].type \in {"login", "create"}
        /\ \A k \in DOMAIN replies : replies[k].to # i}) <= faults

(* Connections are only left open by queries that failed.                    *)
LeakBound == open <= faults + (IF stage \in {"idle", "begin"} THEN 0 ELSE 1)

(* A login or create in hand is answered, unless the service dies first or   *)
(* something fails.                                                          *)
Answered ==
    \A i \in 1..MaxLog :
        (inHand = i /\ log[i].type \in {"login", "create"})
        ~> (faults > 0 \/ ~up \/ \E k \in DOMAIN replies : replies[k].to = i)
=============================================================================
