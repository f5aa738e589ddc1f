------------------------------ MODULE DoorLeap ------------------------------
(***************************************************************************)
(* The DoorLeap app as the services see it: the HTTP server that takes     *)
(* their answers, what the app does with them, and the httplib client each *)
(* service posts with.  A request is written in parts; the server handles  *)
(* what one readAll returns as if it were a request of its own.            *)
(*                                                                         *)
(* The event loop gets to every readyRead long before the client's 300 s   *)
(* are over (it never blocks for more than the 5 s of a flush), so a       *)
(* client gives up only on a request that was read and left unanswered.    *)
(***************************************************************************)
EXTENDS Naturals

CONSTANTS Clients,   \* services that post to the app, one request at a time
          MaxLives,  \* bound: times a user starts the app again
          MaxLost    \* bound: sends of the app that are lost or stored twice

VARIABLES gui,       \* the process: "down", "deaf" (listen failed) or "up"
          lives,
          menu,      \* the menu has taken the place of the log-in form
          conn,      \* the connection of each client
          collects,  \* lists of restaurants the app has asked for
          lost

app == <<gui, lives, menu>>
topic == <<collects, lost>>
appVars == <<app, conn, topic>>

\* A login answer stays below the 1024 bytes from which httplib waits for
\* "100 Continue"; a list may be large, and then arrive in any two pieces.
Answers == [path : {"/logins"}, success : BOOLEAN]
Lists == [path : {"/resterants"}, large : BOOLEAN]

\* The head is one write, the body another.
Parts(r) == IF r.path = "/resterants" /\ r.large THEN 3 ELSE 2

Idle == [stage |-> "idle"]
Posts == [stage : {"sending", "ok", "failed"}, request : Answers \cup Lists,
          written : 0..3, read : 0..3,
          answered : BOOLEAN,  \* the server wrote its response and closed
          handled : BOOLEAN]   \* history: the app acted on the request

AppTypeOK ==
    /\ gui \in {"down", "deaf", "up"} /\ lives \in 0..MaxLives
    /\ menu \in BOOLEAN /\ (menu => gui = "up")
    /\ conn \in [Clients -> Posts \cup {Idle}]
    /\ \A c \in Clients : conn[c] # Idle =>
        conn[c].read <= conn[c].written /\ conn[c].written <= Parts(conn[c].request)
    /\ collects \in Nat /\ lost \in 0..MaxLost

AppInit ==
    /\ gui \in {"deaf", "up"} /\ lives = 0 /\ menu = FALSE
    /\ conn = [c \in Clients |-> Idle]
    /\ collects = 0 /\ lost = 0

-----------------------------------------------------------------------------
Sending(c) == conn[c].stage = "sending"

(* client.Post: without a listener at the other end it fails at once. *)
Post(c, r) ==
    /\ conn[c] = Idle
    /\ conn' = [conn EXCEPT ![c] =
          [stage |-> IF gui = "up" THEN "sending" ELSE "failed", request |-> r,
           written |-> 0, read |-> 0, answered |-> FALSE, handled |-> FALSE]]
    /\ UNCHANGED <<app, topic>>

(* The next part; the body of a large request after waiting for 1 s in vain. *)
Write(c) ==
    /\ Sending(c) /\ ~conn[c].answered
    /\ conn[c].written < Parts(conn[c].request)
    /\ conn' = [conn EXCEPT ![c].written = @ + 1]
    /\ UNCHANGED <<app, topic>>

(* A response that comes before the request is written may be lost with the  *)
(* connection, which the server has closed.                                  *)
ReadResponse(c) ==
    /\ Sending(c) /\ conn[c].answered
    /\ \E s \in {"ok", "failed"} :
        /\ conn[c].written = Parts(conn[c].request) => s = "ok"
        /\ conn' = [conn EXCEPT ![c].stage = s]
    /\ UNCHANGED <<app, topic>>

\* Mutant: the client waits for the response without a limit.
NoTimeout(c) == FALSE /\ UNCHANGED appVars

(* 300 s without a response. *)
Timeout(c) ==
    /\ Sending(c) /\ ~conn[c].answered
    /\ conn[c].read = Parts(conn[c].request)
    /\ conn' = [conn EXCEPT ![c].stage = "failed"]
    /\ UNCHANGED <<app, topic>>

Client(c) == Write(c) \/ ReadResponse(c) \/ Timeout(c)

(* The caller has seen the result, or is dead and the server has read all it *)
(* wrote: the socket is closed.                                              *)
Close(c) ==
    /\ conn' = [conn EXCEPT ![c] = Idle]
    /\ UNCHANGED <<app, topic>>

-----------------------------------------------------------------------------
\* Mutant: a new life of the app finds the user logged in.
DieLoggedIn ==
    /\ gui' = "down"
    /\ conn' = [c \in Clients |-> IF Sending(c) /\ ~conn[c].answered
                                  THEN [conn[c] EXCEPT !.stage = "failed"]
                                  ELSE conn[c]]
    /\ UNCHANGED <<lives, menu, topic>>

(* The process ends, and its connections with it. *)
Die ==
    /\ gui' = "down" /\ menu' = FALSE
    /\ conn' = [c \in Clients |-> IF Sending(c) /\ ~conn[c].answered
                                  THEN [conn[c] EXCEPT !.stage = "failed"]
                                  ELSE conn[c]]
    /\ UNCHANGED <<lives, topic>>

(* What readAll returns: everything that arrived, from the head on or not,   *)
(* to the end of the request or not.                                         *)
Readable(c, path) ==
    /\ gui = "up" /\ Sending(c) /\ ~conn[c].answered
    /\ conn[c].request.path = path
    /\ conn[c].read < conn[c].written
FromHead(c) == conn[c].read = 0
Whole(c) == FromHead(c) /\ conn[c].written = Parts(conn[c].request)

Read(c) == [conn EXCEPT ![c].read = conn[c].written]

(* ProduceMessage: lost, stored, or stored twice. *)
AskForList ==
    \/ collects' = collects + 1 /\ UNCHANGED lost
    \/ /\ lost < MaxLost /\ lost' = lost + 1
       /\ collects' \in {collects, collects + 2}

\* Mutant: the request stays in the socket's buffer.
TakeAnswerPeek(c) ==
    /\ Readable(c, "/logins") /\ Whole(c)
    /\ conn' = [conn EXCEPT ![c].handled = TRUE]
    /\ IF conn[c].request.success
       THEN menu' = TRUE /\ AskForList
       ELSE UNCHANGED <<menu, topic>>
    /\ UNCHANGED <<gui, lives>>

\* Mutant: the menu is shown when the list could be asked for.
TakeAnswerAfterList(c) ==
    /\ Readable(c, "/logins") /\ Whole(c)
    /\ conn' = [Read(c) EXCEPT ![c].answered = TRUE, ![c].handled = TRUE]
    /\ IF conn[c].request.success
       THEN AskForList /\ menu' = (menu \/ lost' = lost)
       ELSE UNCHANGED <<menu, topic>>
    /\ UNCHANGED <<gui, lives>>

(* HandleLogInResponse: a success shows the menu, whoever asked for it.      *)
TakeAnswer(c) ==
    /\ Readable(c, "/logins") /\ Whole(c)
    /\ conn' = [Read(c) EXCEPT ![c].answered = TRUE, ![c].handled = TRUE]
    /\ IF conn[c].request.success
       THEN menu' = TRUE /\ AskForList
       ELSE UNCHANGED <<menu, topic>>
    /\ UNCHANGED <<gui, lives>>

\* Mutant: a head without body is answered, as any unknown path is.
CutAnswerAnswered(c) ==
    /\ Readable(c, "/logins") /\ ~Whole(c)
    /\ conn' = [Read(c) EXCEPT ![c].answered = TRUE]
    /\ UNCHANGED <<app, topic>>

(* The body is parsed although it is not there, and nothing catches that.    *)
CutAnswer(c) == Readable(c, "/logins") /\ ~Whole(c) /\ Die

(* "no body", or a parse error that is caught: no response. *)
CutList(c) ==
    /\ Readable(c, "/resterants") /\ FromHead(c) /\ ~Whole(c)
    /\ conn' = Read(c)
    /\ UNCHANGED <<app, topic>>

(* "items" is an array or an object, and is read as a string: that throws.   *)
WholeList(c) == Readable(c, "/resterants") /\ Whole(c) /\ Die

(* The rest of a body is no request: left alone when its first line has no   *)
(* space, otherwise answered "endpoint not found", with status 200.          *)
Remainder(c) ==
    /\ Readable(c, "/resterants") /\ ~FromHead(c)
    /\ \E b \in BOOLEAN : conn' = [Read(c) EXCEPT ![c].answered = b]
    /\ UNCHANGED <<app, topic>>

ReadyRead(c) ==
    TakeAnswer(c) \/ CutAnswer(c) \/ CutList(c) \/ WholeList(c) \/ Remainder(c)

(* The user closes the app, and starts it again. *)
CloseApp == gui # "down" /\ Die

StartApp ==
    /\ gui = "down" /\ lives < MaxLives
    /\ lives' = lives + 1
    /\ gui' \in {"deaf", "up"}
    /\ UNCHANGED <<menu, conn, topic>>

User == CloseApp \/ StartApp

-----------------------------------------------------------------------------
(* A login answer that was answered was acted on: a cut one is not answered. *)
LoginsTaken ==
    \A c \in Clients :
        (conn[c].stage = "ok" /\ conn[c].request.path = "/logins") => conn[c].handled

(* A post ends, also when the app leaves it unanswered. *)
PostEnds == \A c \in Clients : Sending(c) ~> ~Sending(c)
=============================================================================
