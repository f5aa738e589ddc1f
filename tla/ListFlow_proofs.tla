--------------------------- MODULE ListFlow_proofs ---------------------------
(***************************************************************************)
(* Proofs about the way of a list of restaurants.  The app and the service *)
(* share the topic and two connections, and each step touches few of them: *)
(* WireInv is what holds of the app and its connections, ServiceInv of the *)
(* restaurants service, and Settled ties the two to each other and to the  *)
(* history.  Most of what follows is that a step of the one keeps its own  *)
(* part and leaves the others as they were.                                *)
(***************************************************************************)
EXTENDS ListFlow, SequenceTheorems, TLAPS

-----------------------------------------------------------------------------
Carries(c) == IF c = "account" THEN Answers ELSE Lists

(* A post on the connection of c.                                            *)
Fits(c, l) ==
    /\ l \in Posts /\ l.request \in Carries(c)
    /\ l.read <= l.written /\ l.written <= Parts(l.request)

Wire == [c \in Clients |-> conn[c]]

WireInv ==
    /\ gui \in {"down", "deaf", "up"} /\ lives \in 0..MaxLives
    /\ menu \in BOOLEAN /\ (menu => gui = "up")
    /\ collects \in Nat /\ lost \in 0..MaxLost
    /\ conn = Wire
    /\ \A c \in Clients : conn[c] = Idle \/ Fits(c, conn[c])

(* An answer that the app has yet to act on, or to drop.                     *)
Waiting == conn["account"] # Idle /\ ~conn["account"].answered

(* Each answer asks for one list, when the app acts on it, but for what the  *)
(* broker stored twice.                                                      *)
CountInv ==
    /\ answers \in 0..MaxAnswers
    /\ collects <= answers + lost
    /\ Waiting => collects < answers + lost

(* The connection of the service is open while its thread posts.             *)
PostingInv == up => (stage = "posting" <=> conn["resterants"] # Idle)

ServiceInv ==
    /\ Res!TypeOK /\ committed <= pos /\ pos <= Len(log)
    /\ inHand # 0 => inHand \in handed
    /\ ~up => inHand = 0
    /\ stage = "idle" <=> inHand = 0

(* The answer to a collect is posted before its handler returns.             *)
Answered ==
    /\ stage = "posting" => inHand \in posted
    /\ (stage = "end" /\ log[inHand] = "collect") => inHand \in posted
    /\ CollectAnswered

ListInv == WireInv /\ CountInv /\ PostingInv /\ ServiceInv /\ Answered

-----------------------------------------------------------------------------
(* A connection that carries a post is not idle, nor has it the idle stage.  *)
LEMMA FitsIsPost == \A c, l : Fits(c, l) => l # Idle /\ l.stage # "idle"
BY DEF Fits, Posts, Idle

(* The two clients carry different posts, in two or three parts.             *)
LEMMA PartsOf ==
  ASSUME NEW c \in Clients, NEW l, Fits(c, l)
  PROVE  /\ Parts(l.request) \in 2..3
         /\ c = "account" => l.request.path = "/logins"
         /\ c = "resterants" => l.request.path = "/resterants"
<1>1. c \in {"account", "resterants"}
  BY ListAssumption
<1>2. l.request \in Carries(c)
  BY DEF Fits
<1>3. CASE c = "account"
  <2>1. l.request.path = "/logins"
    BY <1>2, <1>3 DEF Carries, Answers
  <2> QED  BY <1>3, <2>1 DEF Parts
<1>4. CASE c = "resterants"
  <2>1. l.request.path = "/resterants"
    BY <1>2, <1>4 DEF Carries, Lists
  <2>2. Parts(l.request) \in 2..3
    BY DEF Parts
  <2> QED  BY <1>4, <2>1, <2>2
<1> QED  BY <1>1, <1>3, <1>4

(* What one client's connection becomes leaves the other's as it is.         *)
LEMMA WireStep ==
  ASSUME conn = Wire, \A c \in Clients : conn[c] = Idle \/ Fits(c, conn[c]),
         NEW d \in Clients, NEW l, l = Idle \/ Fits(d, l),
         conn' = [conn EXCEPT ![d] = l]
  PROVE  /\ conn' = Wire' /\ conn'[d] = l
         /\ \A c \in Clients : c # d => conn'[c] = conn[c]
         /\ \A c \in Clients : conn'[c] = Idle \/ Fits(c, conn'[c])
<1>1. conn' = [c \in Clients |-> IF c = d THEN l ELSE conn[c]]
  BY DEF Wire
<1> QED  BY <1>1 DEF Wire

(* A new post.                                                               *)
LEMMA PostStep ==
  ASSUME WireInv, NEW c \in Clients, NEW r \in Carries(c), Post(c, r)
  PROVE  /\ WireInv' /\ conn[c] = Idle /\ conn'[c] # Idle
         /\ UNCHANGED <<collects, lost>>
         /\ \A d \in Clients : d # c => conn'[d] = conn[d]
<1> DEFINE new == [stage |-> IF gui = "up" THEN "sending" ELSE "failed",
                   request |-> r, written |-> 0, read |-> 0,
                   answered |-> FALSE, handled |-> FALSE]
<1>1. /\ UNCHANGED <<gui, lives, menu, collects, lost>> /\ conn[c] = Idle
      /\ conn' = [conn EXCEPT ![c] = new]
  BY DEF Post, app, topic
<1>2. Fits(c, new)
  <2>1. r \in Answers \cup Lists /\ Parts(r) \in 2..3
    BY DEF Carries, Parts
  <2> QED  BY <2>1 DEF Fits, Posts
<1> HIDE DEF new
<1> QED  BY <1>1, <1>2, WireStep, FitsIsPost DEF WireInv

(* The end of a post.                                                        *)
LEMMA CloseStep ==
  ASSUME WireInv, NEW c \in Clients, Close(c)
  PROVE  /\ WireInv' /\ conn'[c] = Idle /\ UNCHANGED <<collects, lost>>
         /\ \A d \in Clients : d # c => conn'[d] = conn[d]
<1>1. /\ UNCHANGED <<gui, lives, menu, collects, lost>>
      /\ conn' = [conn EXCEPT ![c] = Idle]
  BY DEF Close, app, topic
<1> QED  BY <1>1, WireStep DEF WireInv

(* Whose post it was, and that it is one still, is what a client's thread    *)
(* and the event loop leave alone; only the event loop answers.              *)
Same(c) ==
    /\ \A d \in Clients : d # c => conn'[d] = conn[d]
    /\ conn[c] # Idle /\ conn'[c] # Idle
    /\ conn[c].answered => conn'[c].answered

(* What the client's thread does.                                            *)
LEMMA ClientStep ==
  ASSUME WireInv, NEW c \in Clients, Client(c)
  PROVE  WireInv' /\ Same(c) /\ UNCHANGED <<collects, lost>>
<1>1. /\ UNCHANGED <<gui, lives, menu, collects, lost>>
      /\ conn[c].stage = "sending"
  BY DEF Client, Write, ReadResponse, Timeout, Sending, app, topic
<1>2. Fits(c, conn[c])
  BY <1>1 DEF WireInv, Idle
<1>3. PICK new : /\ conn' = [conn EXCEPT ![c] = new] /\ Fits(c, new)
                 /\ new.answered = conn[c].answered
  <2>1. CASE Write(c)
    <3> DEFINE new == [conn[c] EXCEPT !.written = @ + 1]
    <3>1. conn' = [conn EXCEPT ![c] = new] /\ conn[c].written < Parts(conn[c].request)
      BY <2>1 DEF Write
    <3>2. Parts(conn[c].request) \in 2..3
      BY <1>2, PartsOf
    <3>3. Fits(c, new) /\ new.answered = conn[c].answered
      BY <1>2, <3>1, <3>2 DEF Fits, Posts
    <3> HIDE DEF new
    <3> QED  BY <3>1, <3>3
  <2>2. CASE ReadResponse(c) \/ Timeout(c)
    <3>1. PICK s \in {"ok", "failed"} : conn' = [conn EXCEPT ![c].stage = s]
      BY <2>2 DEF ReadResponse, Timeout
    <3> DEFINE new == [conn[c] EXCEPT !.stage = s]
    <3>2. conn' = [conn EXCEPT ![c] = new]
      BY <3>1
    <3>3. Fits(c, new) /\ new.answered = conn[c].answered
      BY <1>2 DEF Fits, Posts
    <3> HIDE DEF new
    <3> QED  BY <3>2, <3>3
  <2> QED  BY <2>1, <2>2 DEF Client
<1>4. WireInv' /\ conn'[c] = new /\ \A d \in Clients : d # c => conn'[d] = conn[d]
  BY <1>1, <1>3, WireStep DEF WireInv
<1>5. Same(c)
  BY <1>2, <1>3, <1>4, FitsIsPost DEF Same
<1> QED  BY <1>1, <1>4, <1>5

(* The app ends: what it had not answered fails, and stays unanswered.       *)
LEMMA DieStep ==
  ASSUME WireInv, Die
  PROVE  /\ WireInv' /\ UNCHANGED <<collects, lost>>
         /\ \A c \in Clients : /\ conn'[c] = Idle <=> conn[c] = Idle
                               /\ conn'[c].answered = conn[c].answered
<1> DEFINE new(c) == IF Sending(c) /\ ~conn[c].answered
                     THEN [conn[c] EXCEPT !.stage = "failed"] ELSE conn[c]
<1>1. /\ UNCHANGED <<lives, collects, lost>> /\ gui' = "down" /\ menu' = FALSE
      /\ conn' = [c \in Clients |-> new(c)]
  BY DEF Die, topic
<1>2. ASSUME NEW c \in Clients
      PROVE  /\ conn'[c] = Idle \/ Fits(c, conn'[c])
             /\ conn'[c] = Idle <=> conn[c] = Idle
             /\ conn'[c].answered = conn[c].answered
  <2>1. CASE conn[c] = Idle
    <3>1. new(c) = Idle
      BY <2>1 DEF Sending, Idle
    <3> QED  BY <1>1, <2>1, <3>1
  <2>2. CASE Fits(c, conn[c])
    <3>1. Fits(c, new(c)) /\ new(c).answered = conn[c].answered
      BY <2>2 DEF Fits, Posts
    <3>2. conn'[c] = new(c)
      BY <1>1
    <3> QED  BY <2>2, <3>1, <3>2, FitsIsPost
  <2> QED  BY <2>1, <2>2 DEF WireInv
<1>3. conn' = Wire'
  BY <1>1 DEF Wire
<1> QED  BY <1>1, <1>2, <1>3 DEF WireInv

(* The user closes the app, and starts it again.                             *)
LEMMA UserStep ==
  ASSUME WireInv, User
  PROVE  /\ WireInv' /\ UNCHANGED <<collects, lost>>
         /\ \A c \in Clients : /\ conn'[c] = Idle <=> conn[c] = Idle
                               /\ conn'[c].answered = conn[c].answered
<1>1. CASE CloseApp
  BY <1>1, DieStep DEF CloseApp
<1>2. CASE StartApp
  <2>1. /\ UNCHANGED <<menu, conn, collects, lost>> /\ gui = "down"
        /\ gui' \in {"deaf", "up"} /\ lives' \in 0..MaxLives
    BY <1>2, ListAssumption DEF StartApp, topic, WireInv
  <2> QED  BY <2>1 DEF WireInv, Wire
<1> QED  BY <1>1, <1>2 DEF User

(* The event loop acts on a login answer, once, or asks for nothing.         *)
LEMMA ReadStep ==
  ASSUME WireInv, NEW c \in Clients, ReadyRead(c)
  PROVE  /\ WireInv'
         /\ \A d \in Clients : /\ conn'[d] = Idle <=> conn[d] = Idle
                               /\ conn[d].answered => conn'[d].answered
         /\ \/ UNCHANGED <<collects, lost>>
            \/ /\ c = "account" /\ Waiting /\ ~Waiting'
               /\ \/ collects' = collects + 1 /\ lost' = lost
                  \/ collects' \in {collects, collects + 2} /\ lost' = lost + 1
<1>1. gui = "up" /\ conn[c].stage = "sending" /\ ~conn[c].answered
  BY DEF ReadyRead, TakeAnswer, CutAnswer, CutList, WholeList, Remainder,
         Readable, Sending
<1>2. Fits(c, conn[c]) /\ conn[c] # Idle
  BY <1>1, FitsIsPost DEF WireInv, Idle
<1>3. CASE TakeAnswer(c)
  <2> DEFINE new == [conn[c] EXCEPT !.read = conn[c].written, !.answered = TRUE,
                                    !.handled = TRUE]
  <2>1. UNCHANGED <<gui, lives>> /\ conn' = [conn EXCEPT ![c] = new]
    BY <1>3 DEF TakeAnswer, Read, WireInv, Wire
  <2>2. Fits(c, new) /\ new.answered
    <3>1. conn[c] \in Posts /\ conn[c].written \in 0..3
      BY <1>2 DEF Fits, Posts
    <3>2. /\ new \in Posts /\ new.read = conn[c].written /\ new.answered
          /\ new.written = conn[c].written /\ new.request = conn[c].request
      BY <3>1 DEF Posts
    <3> QED  BY <1>2, <3>1, <3>2 DEF Fits
  <2>3. c = "account"
    BY <1>2, <1>3, PartsOf, ListAssumption DEF TakeAnswer, Readable
  <2> HIDE DEF new
  <2>4. /\ conn' = Wire' /\ conn'[c] = new
        /\ \A d \in Clients : d # c => conn'[d] = conn[d]
        /\ \A d \in Clients : conn'[d] = Idle \/ Fits(d, conn'[d])
    BY <2>1, <2>2, WireStep DEF WireInv
  <2>5. CASE conn[c].request.success
    <3>1. menu' = TRUE /\ AskForList
      BY <1>3, <2>5 DEF TakeAnswer
    <3>2. collects' \in Nat /\ lost' \in 0..MaxLost
      BY <3>1, ListAssumption DEF AskForList, WireInv
    <3> QED
      BY <1>1, <1>2, <2>1, <2>2, <2>3, <2>4, <3>1, <3>2, FitsIsPost
      DEF WireInv, Waiting, AskForList
  <2>6. CASE ~conn[c].request.success
    <3>1. UNCHANGED <<menu, collects, lost>>
      BY <1>3, <2>6 DEF TakeAnswer, topic
    <3> QED
      BY <1>2, <2>1, <2>2, <2>4, <3>1, FitsIsPost DEF WireInv
  <2> QED  BY <2>5, <2>6
<1>4. CASE CutAnswer(c) \/ WholeList(c)
  BY <1>4, DieStep DEF CutAnswer, WholeList
<1>5. CASE CutList(c) \/ Remainder(c)
  <2>1. /\ UNCHANGED <<gui, lives, menu, collects, lost>>
        /\ \E b \in BOOLEAN : \/ conn' = [Read(c) EXCEPT ![c].answered = b]
                              \/ conn' = Read(c) /\ b = conn[c].answered
    <3>1. conn[c].answered \in BOOLEAN
      BY <1>2 DEF Fits, Posts
    <3> QED  BY <1>5, <3>1 DEF CutList, Remainder, app, topic
  <2>2. PICK b \in BOOLEAN :
           conn' = [conn EXCEPT ![c] = [conn[c] EXCEPT !.read = conn[c].written,
                                                       !.answered = b]]
    <3>1. [conn[c] EXCEPT !.read = conn[c].written]
             = [conn[c] EXCEPT !.read = conn[c].written,
                               !.answered = conn[c].answered]
      BY <1>2 DEF Fits, Posts
    <3> QED  BY <2>1, <3>1 DEF Read, WireInv, Wire
  <2> DEFINE new == [conn[c] EXCEPT !.read = conn[c].written, !.answered = b]
  <2>3. Fits(c, new)
    <3>1. conn[c] \in Posts /\ conn[c].written \in 0..3
      BY <1>2 DEF Fits, Posts
    <3>2. /\ new \in Posts /\ new.read = conn[c].written
          /\ new.written = conn[c].written /\ new.request = conn[c].request
      BY <3>1 DEF Posts
    <3> QED  BY <1>2, <3>1, <3>2 DEF Fits
  <2> HIDE DEF new
  <2>4. /\ conn' = Wire' /\ conn'[c] = new
        /\ \A d \in Clients : d # c => conn'[d] = conn[d]
        /\ \A d \in Clients : conn'[d] = Idle \/ Fits(d, conn'[d])
    BY <2>2, <2>3, WireStep DEF WireInv, new
  <2> QED  BY <1>1, <1>2, <2>1, <2>3, <2>4, FitsIsPost DEF WireInv
<1> QED  BY <1>3, <1>4, <1>5 DEF ReadyRead

-----------------------------------------------------------------------------
(* What other processes add to the topic disturbs nothing in the service.    *)
LEMMA TopicGrows ==
  ASSUME ServiceInv, Answered, UNCHANGED resVars, log' \in Seq(Res!Messages),
         Len(log) <= Len(log'), \A i \in 1..Len(log) : log'[i] = log[i]
  PROVE  ServiceInv' /\ Answered'
<1>1. /\ Len(log) \in Nat /\ Len(log') \in Nat /\ handed \subseteq 1..Len(log)
      /\ completed \subseteq handed /\ (inHand # 0 => inHand \in handed)
  BY DEF ServiceInv, Res!TypeOK, Res!Loop!TypeOK
<1>2. ServiceInv'
  BY <1>1 DEF ServiceInv, resVars, Res!TypeOK, Res!Loop!TypeOK
<1>3. Answered'
  <2>1. stage = "end" => inHand # 0
    BY DEF ServiceInv
  <2>2. stage = "end" => log'[inHand] = log[inHand]
    BY <1>1, <2>1
  <2>3. \A i \in completed : log'[i] = log[i]
    BY <1>1
  <2> QED
    BY <2>2, <2>3 DEF Answered, CollectAnswered, Res!CollectAnswered, resVars
<1> QED  BY <1>2, <1>3

(* The service's own steps, from the poll to the end of the process.         *)
LEMMA ServiceStep ==
  ASSUME ServiceInv, Answered,
         Res!Work \/ Res!Post \/ Res!PostReturns \/ Res!Crash \/ Res!Environment
  PROVE  ServiceInv' /\ Answered' /\ UNCHANGED log
<1> USE DEF CollectAnswered, Res!CollectAnswered
<1>0. /\ MaxRestarts \in Nat /\ MaxRebalances \in Nat /\ MaxTries \in Nat
      /\ Len(log) \in Nat
  BY ListAssumption DEF ServiceInv, Res!TypeOK, Res!Loop!TypeOK
<1>1. CASE Res!Receive
  <2>1. ServiceInv'
    BY <1>0, <1>1
    DEF Res!Receive, Res!Loop!Poll, Res!Loop!broker, ServiceInv, Res!TypeOK,
        Res!Loop!TypeOK
  <2>2. Answered'
    BY <1>1 DEF Res!Receive, Res!Loop!Poll, Res!Loop!broker, Answered
  <2> QED  BY <1>1, <2>1, <2>2 DEF Res!Receive, Res!Loop!Poll, Res!Loop!broker
<1>2. CASE \/ Res!Ignore \/ Res!Connect \/ Res!Query \/ Res!Post \/ Res!PostReturns
           \/ (Res!ConnectAgain /\ tries < MaxTries)
  <2>1. /\ UNCHANGED Res!consumer /\ up /\ stage # "idle" /\ stage # "end"
        /\ stage' \in {"begin", "query", "post", "posting", "end"}
        /\ posted' \in {posted, posted \cup {inHand}}
        /\ tries' \in {0, tries} \/ (tries < MaxTries /\ tries' = tries + 1)
        /\ stage' = "posting" => inHand \in posted'
        /\ (stage' = "end" /\ log[inHand] = "collect") => inHand \in posted'
    BY <1>2
    DEF Res!Ignore, Res!Connect, Res!Query, Res!Post, Res!PostReturns,
        Res!ConnectAgain, Res!At, Answered
  <2>2. ServiceInv'
    BY <1>0, <2>1 DEF Res!consumer, ServiceInv, Res!TypeOK, Res!Loop!TypeOK
  <2>3. Answered'
    BY <2>1 DEF Res!consumer, Answered
  <2> QED  BY <2>1, <2>2, <2>3 DEF Res!consumer
<1>4. ASSUME Res!Loop!Die, Res!Stop PROVE ServiceInv' /\ Answered' /\ UNCHANGED log
  <2>1. /\ UNCHANGED <<log, committed, pos, restarts, rebalances, handed, completed>>
        /\ up' = FALSE /\ inHand' = 0 /\ stage' = "idle" /\ tries' = 0
        /\ posted' = posted
    BY <1>4 DEF Res!Loop!Die, Res!Stop, Res!Loop!broker, Res!Loop!history
  <2>2. Res!Loop!TypeOK'
    BY <2>1 DEF ServiceInv, Res!TypeOK, Res!Loop!TypeOK
  <2>3. tries' \in 0..MaxTries
    BY <1>0, <2>1
  <2>4. ServiceInv'
    BY <2>1, <2>2, <2>3 DEF ServiceInv, Res!TypeOK
  <2> QED  BY <2>1, <2>4 DEF Answered
<1>5. CASE Res!Finish
  <2>1. ServiceInv'
    BY <1>0, <1>5
    DEF Res!Finish, Res!Stop, Res!Loop!Finish, Res!Loop!broker, ServiceInv,
        Res!TypeOK, Res!Loop!TypeOK
  <2>2. Answered' /\ UNCHANGED log
    BY <1>5 DEF Res!Finish, Res!Stop, Res!Loop!Finish, Res!Loop!broker, Answered
  <2> QED  BY <2>1, <2>2
<1>6. CASE Res!Environment
  <2>1. /\ UNCHANGED <<log, inHand, handed, completed, stage, tries, posted>>
        /\ up' \in BOOLEAN /\ (~up' => ~up)
        /\ committed' \in {committed, pos} /\ pos' \in {committed, pos}
        /\ committed' # committed => pos' = pos
        /\ restarts' \in 0..MaxRestarts /\ rebalances' \in 0..MaxRebalances
    <3>1. /\ UNCHANGED <<stage, tries, posted>> /\ pos \in Nat /\ up \in BOOLEAN
          /\ restarts \in 0..MaxRestarts /\ rebalances \in 0..MaxRebalances
      BY <1>6 DEF Res!Environment, ServiceInv, Res!TypeOK, Res!Loop!TypeOK
    <3>2. CASE Res!Loop!AutoCommit
      BY <3>1, <3>2 DEF Res!Loop!AutoCommit, Res!Loop!history
    <3>3. CASE Res!Loop!Rebalance
      BY <1>0, <3>1, <3>3 DEF Res!Loop!Rebalance, Res!Loop!broker, Res!Loop!history
    <3>4. CASE Res!Loop!Restart
      BY <1>0, <3>1, <3>4 DEF Res!Loop!Restart, Res!Loop!broker, Res!Loop!history
    <3> QED  BY <1>6, <3>2, <3>3, <3>4 DEF Res!Environment
  <2>2. ServiceInv'
    BY <1>0, <2>1 DEF ServiceInv, Res!TypeOK, Res!Loop!TypeOK
  <2> QED  BY <2>1, <2>2 DEF Answered
<1>7. CASE (Res!ConnectAgain /\ ~(tries < MaxTries)) \/ Res!QueryThrows
           \/ Res!Throw \/ Res!Crash
  BY <1>4, <1>7
  DEF Res!ConnectAgain, Res!QueryThrows, Res!Throw, Res!Crash, Res!Loop!Throw,
      Res!Loop!Crash
<1> QED
  BY <1>1, <1>2, <1>5, <1>6, <1>7 DEF Res!Work

(* What AskForList stored is at the end of the topic, and is to be collected. *)
LEMMA AskedFor ==
  ASSUME log \in Seq(Res!Messages), NEW n \in Nat,
         log' = log \o [i \in 1..n |-> "collect"]
  PROVE  /\ log' \in Seq(Res!Messages) /\ Len(log) <= Len(log')
         /\ \A i \in 1..Len(log) : log'[i] = log[i]
<1> DEFINE new == [i \in 1..n |-> "collect"]
<1>1. new \in Seq(Res!Messages) /\ Len(new) = n
  BY DEF Res!Messages
<1> HIDE DEF new
<1>2. log' = log \o new
  BY DEF new
<1>3. log' \in Seq(Res!Messages) /\ Len(log') = Len(log) + n /\ Len(log) \in Nat
  BY <1>1, <1>2
<1>4. ASSUME NEW i \in 1..Len(log) PROVE log'[i] = log[i]
  BY <1>1, <1>2
<1> QED  BY <1>3, <1>4

(* Every step keeps all of it.                                               *)
LEMMA ListStep == ListInv /\ [ListNext]_flowVars => ListInv'
<1> SUFFICES ASSUME ListInv, [ListNext]_flowVars PROVE ListInv'
  OBVIOUS
<1>0. /\ WireInv /\ CountInv /\ PostingInv /\ ServiceInv /\ Answered
      /\ "account" \in Clients /\ "resterants" \in Clients
      /\ answers \in Nat /\ collects \in Nat /\ lost \in Nat
  BY ListAssumption DEF ListInv, WireInv, CountInv
<1>1. (UNCHANGED <<resVars, log>>) => ServiceInv' /\ Answered'
  BY <1>0
  DEF ServiceInv, Answered, resVars, Res!TypeOK, Res!Loop!TypeOK,
      CollectAnswered, Res!CollectAnswered
<1>2. (UNCHANGED <<appVars, answers>>) => WireInv' /\ CountInv'
  BY <1>0
  DEF appVars, app, topic, WireInv, Wire, CountInv, Waiting
<1>3. CASE AccountAnswers
  <2>1. PICK r \in Answers : Post("account", r)
    BY <1>3 DEF AccountAnswers
  <2>2. /\ WireInv' /\ UNCHANGED <<collects, lost>>
        /\ conn'["resterants"] = conn["resterants"]
    BY <1>0, <2>1, PostStep DEF Carries
  <2>3. CountInv'
    BY <1>0, <1>3, <2>2, ListAssumption DEF CountInv, AccountAnswers
  <2>4. PostingInv'
    BY <1>0, <1>3, <2>2 DEF PostingInv, AccountAnswers, resVars
  <2> QED  BY <1>1, <1>3, <2>2, <2>3, <2>4 DEF ListInv, AccountAnswers
<1>4. CASE AccountHears
  <2>1. /\ WireInv' /\ UNCHANGED <<collects, lost, answers>> /\ ~Waiting'
        /\ conn'["resterants"] = conn["resterants"]
    BY <1>0, <1>4, CloseStep DEF AccountHears, Waiting
  <2>2. CountInv'
    BY <1>0, <2>1 DEF CountInv
  <2>3. PostingInv'
    BY <1>0, <1>4, <2>1 DEF PostingInv, AccountHears, resVars
  <2> QED  BY <1>1, <1>4, <2>1, <2>2, <2>3 DEF ListInv, AccountHears
<1>5. CASE ClientSteps("account") \/ ClientSteps("resterants")
  <2>1. PICK c \in Clients : ClientSteps(c)
    BY <1>0, <1>5
  <2>2. /\ WireInv' /\ Same(c) /\ UNCHANGED <<collects, lost, answers>>
    BY <1>0, <2>1, ClientStep DEF ClientSteps
  <2>3. (Waiting' => Waiting) /\ (conn'["resterants"] = Idle <=> conn["resterants"] = Idle)
    BY <1>0, <2>2 DEF Same, Waiting
  <2>4. CountInv'
    BY <1>0, <2>2, <2>3 DEF CountInv
  <2>5. PostingInv'
    BY <1>0, <2>1, <2>3 DEF PostingInv, ClientSteps, resVars
  <2> QED  BY <1>1, <2>1, <2>2, <2>4, <2>5 DEF ListInv, ClientSteps
<1>6. ASSUME NEW c \in Clients, EventLoop(c) PROVE ListInv'
  <2>1. /\ WireInv' /\ UNCHANGED <<resVars, answers>>
        /\ conn'["resterants"] = Idle <=> conn["resterants"] = Idle
        /\ conn'["account"] = Idle <=> conn["account"] = Idle
        /\ conn["account"].answered => conn'["account"].answered
        /\ \/ UNCHANGED <<collects, lost>>
           \/ /\ Waiting /\ ~Waiting'
              /\ \/ collects' = collects + 1 /\ lost' = lost
                 \/ collects' \in {collects, collects + 2} /\ lost' = lost + 1
    BY <1>0, <1>6, ReadStep DEF EventLoop
  <2>2. CountInv'
    BY <1>0, <2>1 DEF CountInv, Waiting
  <2>3. PostingInv'
    BY <1>0, <2>1 DEF PostingInv, resVars
  <2>4. collects' - collects \in Nat
    BY <1>0, <2>1
  <2>5. log \in Seq(Res!Messages)
    BY <1>0 DEF ServiceInv, Res!TypeOK, Res!Loop!TypeOK
  <2>6. ServiceInv' /\ Answered'
    <3> DEFINE n == collects' - collects
    <3>1. n \in Nat /\ log' = log \o [i \in 1..n |-> "collect"]
      BY <1>6, <2>4 DEF EventLoop
    <3> HIDE DEF n
    <3> QED  BY <1>0, <2>1, <2>5, <3>1, AskedFor, TopicGrows
  <2> QED  BY <2>1, <2>2, <2>3, <2>6 DEF ListInv
<1>7. CASE AppUser
  <2>1. /\ WireInv' /\ UNCHANGED <<collects, lost, answers>>
        /\ conn'["resterants"] = Idle <=> conn["resterants"] = Idle
        /\ Waiting' <=> Waiting
    BY <1>0, <1>7, UserStep DEF AppUser, Waiting
  <2>2. CountInv'
    BY <1>0, <2>1 DEF CountInv
  <2>3. PostingInv'
    BY <1>0, <1>7, <2>1 DEF PostingInv, AppUser, resVars
  <2> QED  BY <1>1, <1>7, <2>1, <2>2, <2>3 DEF ListInv, AppUser
<1>8. CASE Console
  <2>1. /\ UNCHANGED <<appVars, resVars, answers>>
        /\ log \in Seq(Res!Messages)
        /\ \E m \in Res!Messages : log' = Append(log, m)
    BY <1>0, <1>8
    DEF Console, Res!Loop!Publish, Res!Loop!history, resVars, ServiceInv,
        Res!TypeOK, Res!Loop!TypeOK
  <2>2. /\ log' \in Seq(Res!Messages) /\ Len(log) <= Len(log')
        /\ \A i \in 1..Len(log) : log'[i] = log[i]
    BY <2>1
  <2>3. ServiceInv' /\ Answered'
    BY <1>0, <2>1, <2>2, TopicGrows
  <2>4. PostingInv'
    BY <1>0, <2>1 DEF PostingInv, resVars, appVars
  <2> QED  BY <1>2, <2>1, <2>3, <2>4 DEF ListInv
<1>9. CASE ServiceWork
  <2>1. UNCHANGED <<appVars, answers>> /\ ServiceInv' /\ Answered'
    BY <1>0, <1>9, ServiceStep DEF ServiceWork
  <2>2. up' => up /\ stage # "posting" /\ stage' # "posting"
    BY <1>9
    DEF ServiceWork, Res!Work, Res!Receive, Res!Ignore, Res!Connect,
        Res!ConnectAgain, Res!Query, Res!QueryThrows, Res!Finish, Res!Throw,
        Res!Stop, Res!At, Res!Loop!Poll, Res!Loop!Finish, Res!Loop!Throw,
        Res!Loop!Die, Res!consumer
  <2>3. PostingInv'
    BY <1>0, <2>1, <2>2 DEF PostingInv, appVars
  <2> QED  BY <1>2, <2>1, <2>3 DEF ListInv
<1>10. CASE ServicePosts
  <2>1. PICK r \in Lists : Post("resterants", r)
    BY <1>10 DEF ServicePosts
  <2>2. /\ WireInv' /\ UNCHANGED <<collects, lost, answers>>
        /\ conn'["account"] = conn["account"] /\ conn'["resterants"] # Idle
    BY <1>0, <1>10, <2>1, PostStep DEF Carries, ServicePosts
  <2>3. CountInv'
    BY <1>0, <2>2 DEF CountInv, Waiting
  <2>4. PostingInv' /\ ServiceInv' /\ Answered'
    BY <1>0, <1>10, <2>2, ServiceStep DEF PostingInv, ServicePosts, Res!Post
  <2> QED  BY <2>2, <2>3, <2>4 DEF ListInv
<1>11. CASE ServiceHears
  <2>1. /\ WireInv' /\ UNCHANGED <<collects, lost, answers>>
        /\ conn'["account"] = conn["account"] /\ conn'["resterants"] = Idle
    BY <1>0, <1>11, CloseStep DEF ServiceHears
  <2>2. CountInv'
    BY <1>0, <2>1 DEF CountInv, Waiting
  <2>3. PostingInv' /\ ServiceInv' /\ Answered'
    BY <1>0, <1>11, <2>1, ServiceStep DEF PostingInv, ServiceHears, Res!PostReturns
  <2> QED  BY <2>1, <2>2, <2>3 DEF ListInv
<1>12. CASE ServiceDies
  <2>1. UNCHANGED <<appVars, answers>> /\ ServiceInv' /\ Answered' /\ ~up'
    BY <1>0, <1>12, ServiceStep DEF ServiceDies, Res!Crash, Res!Loop!Crash, Res!Loop!Die
  <2> QED  BY <1>2, <2>1 DEF ListInv, PostingInv
<1>13. CASE Forget
  <2>1. /\ WireInv' /\ UNCHANGED <<collects, lost, answers>> /\ ~up'
        /\ conn'["account"] = conn["account"]
    BY <1>0, <1>13, CloseStep DEF Forget, resVars
  <2>2. CountInv'
    BY <1>0, <2>1 DEF CountInv, Waiting
  <2> QED  BY <1>1, <1>13, <2>1, <2>2 DEF ListInv, PostingInv, Forget
<1>14. CASE Group
  <2>1. UNCHANGED <<appVars, answers, stage>> /\ ServiceInv' /\ Answered'
    BY <1>0, <1>14, ServiceStep DEF Group, Res!Environment
  <2>2. ~up => stage # "posting" /\ conn["resterants"] = Idle
    BY <1>0, <1>14 DEF Group, ServiceInv
  <2>3. PostingInv'
    BY <1>0, <2>1, <2>2 DEF PostingInv, appVars
  <2> QED  BY <1>2, <2>1, <2>3 DEF ListInv
<1>15. CASE UNCHANGED flowVars
  BY <1>0, <1>1, <1>2, <1>15 DEF flowVars, ListInv, PostingInv, resVars, appVars
<1> QED
  BY <1>3, <1>4, <1>5, <1>6, <1>7, <1>8, <1>9, <1>10, <1>11, <1>12, <1>13,
     <1>14, <1>15
  DEF ListNext, AccountService, Service

(* So it holds in every state.                                               *)
LEMMA ListInvHolds == ListSpec => []ListInv
<1>1. ListInit => ListInv
  <2> SUFFICES ASSUME ListInit PROVE ListInv
    OBVIOUS
  <2>1. /\ AppInit /\ Res!Init /\ answers = 0
        /\ "account" \in Clients /\ "resterants" \in Clients
    BY ListAssumption DEF ListInit
  <2>2. WireInv /\ CountInv /\ conn["resterants"] = Idle
    <3>1. /\ conn = [c \in Clients |-> Idle] /\ gui \in {"deaf", "up"}
          /\ lives = 0 /\ menu = FALSE /\ collects = 0 /\ lost = 0
      BY <2>1 DEF AppInit
    <3>2. /\ lives \in 0..MaxLives /\ lost \in 0..MaxLost
          /\ answers \in 0..MaxAnswers /\ collects \in Nat
      BY <2>1, <3>1, ListAssumption
    <3>3. conn = Wire /\ \A c \in Clients : conn[c] = Idle
      BY <3>1 DEF Wire
    <3>4. WireInv
      BY <3>1, <3>2, <3>3 DEF WireInv
    <3>5. CountInv /\ conn["resterants"] = Idle
      BY <2>1, <3>1, <3>2, <3>3 DEF CountInv, Waiting
    <3> QED  BY <3>4, <3>5
  <2>3. ServiceInv /\ Answered /\ PostingInv
    BY <2>1, <2>2, ListAssumption
    DEF Res!Init, Res!Loop!Init, ServiceInv, Res!TypeOK, Res!Loop!TypeOK,
        Answered, CollectAnswered, Res!CollectAnswered, PostingInv
  <2> QED  BY <2>2, <2>3 DEF ListInv
<1> QED  BY <1>1, ListStep, PTL DEF ListSpec

(* The types of the app, of the service and of the connections between them; *)
(* and the service's connection is open exactly while its thread posts.      *)
THEOREM ListTypesCorrect == ListSpec => []ListTypeOK
<1>1. ListInv => ListTypeOK
  <2> SUFFICES ASSUME ListInv PROVE ListTypeOK
    OBVIOUS
  <2>1. WireInv
    BY DEF ListInv
  <2>2. AppTypeOK
    <3>1. conn \in [Clients -> Posts \cup {Idle}]
      BY <2>1 DEF WireInv, Wire, Fits
    <3> QED  BY <2>1, <3>1 DEF WireInv, AppTypeOK, Fits
  <2> QED  BY <2>2 DEF ListInv, ListTypeOK, CountInv, ServiceInv, PostingInv
<1> QED  BY <1>1, ListInvHolds, PTL

(* A collect that was completed was answered, or its answer tried, however   *)
(* many there are, with deaths and rebalances in between.                    *)
THEOREM CollectsAreAnswered == ListSpec => []CollectAnswered
<1>1. ListInv => CollectAnswered
  BY DEF ListInv, Answered
<1> QED  BY <1>1, ListInvHolds, PTL

(* The app asks for no more lists than it was sent answers, but for what the *)
(* broker stored twice: no answer is acted on again, in whatever pieces it   *)
(* arrives and however often the app is started.                             *)
THEOREM AnswersAreHandledOnce == ListSpec => []HandledOnce
<1>1. ListInv => HandledOnce
  BY DEF ListInv, CountInv, HandledOnce
<1> QED  BY <1>1, ListInvHolds, PTL
-----------------------------------------------------------------------------
(* The service is a consumer loop, but that its topic may get two messages   *)
(* in one step of the app.                                                   *)
Consumer == INSTANCE KafkaConsumer_proofs
            WITH Messages <- Res!Messages, Poison <- Res!Poison

(* The bounds of the service are what the consumer loop asks of its own.     *)
LEMMA ConsumerBounds == Consumer!ConsumerAssumption
BY ListAssumption DEF Consumer!ConsumerAssumption, Res!Messages, Res!Poison

(* Res!Loop and Consumer are the same, read with and without proofs.         *)
LEMMA SameConsumer ==
  /\ Res!Loop!Init => Consumer!Init
  /\ \A m : Res!Loop!Publish(m) => Consumer!Publish(m)
  /\ Res!Loop!Poll => Consumer!Poll
  /\ Res!Loop!Finish => Consumer!Finish
  /\ Res!Loop!Throw => Consumer!Throw
  /\ (up /\ Res!Loop!Die) => Consumer!Crash
  /\ Res!Loop!AutoCommit => Consumer!AutoCommit
  /\ Res!Loop!Rebalance => Consumer!Rebalance
  /\ Res!Loop!Restart => Consumer!Restart
<1>1. /\ Res!Loop!Init => Consumer!Init
      /\ \A m : Res!Loop!Publish(m) => Consumer!Publish(m)
  BY DEF Res!Loop!Init, Consumer!Init, Res!Loop!Publish, Consumer!Publish,
         Res!Loop!history, Consumer!history
<1>2. /\ Res!Loop!Poll => Consumer!Poll
      /\ Res!Loop!Finish => Consumer!Finish
  BY DEF Res!Loop!Poll, Consumer!Poll, Res!Loop!Finish, Consumer!Finish,
         Res!Loop!broker, Consumer!broker
<1>3. Res!Loop!Die => Consumer!Die
  BY DEF Res!Loop!Die, Consumer!Die, Res!Loop!broker, Consumer!broker,
         Res!Loop!history, Consumer!history
<1>4. /\ Res!Loop!Throw => Consumer!Throw
      /\ (up /\ Res!Loop!Die) => Consumer!Crash
  BY <1>3 DEF Res!Loop!Throw, Consumer!Throw, Consumer!Crash
<1>5. /\ Res!Loop!AutoCommit => Consumer!AutoCommit
      /\ Res!Loop!Rebalance => Consumer!Rebalance
      /\ Res!Loop!Restart => Consumer!Restart
  BY DEF Res!Loop!AutoCommit, Consumer!AutoCommit, Res!Loop!Rebalance,
         Consumer!Rebalance, Res!Loop!Restart, Consumer!Restart,
         Res!Loop!broker, Consumer!broker, Res!Loop!history, Consumer!history
<1> QED  BY <1>1, <1>2, <1>4, <1>5

(* A step of the flow is one of the consumer, leaves it alone, or adds to    *)
(* its topic what the app asked for.                                         *)
LEMMA ConsumerStep ==
  ASSUME ListInv, [ListNext]_flowVars
  PROVE  \/ [Consumer!Next]_(Consumer!vars)
         \/ \E s \in Seq(Res!Messages) : Consumer!Grow(s)
<1>1. CASE ServiceWork
  <2>1. Res!Work => \/ Res!Loop!Poll \/ Res!Loop!Finish \/ Res!Loop!Throw
                    \/ up /\ Res!Loop!Die
                    \/ UNCHANGED Res!consumer
    BY DEF Res!Work, Res!Receive, Res!Ignore, Res!Connect, Res!ConnectAgain,
           Res!Query, Res!QueryThrows, Res!Finish, Res!Throw, Res!At
  <2>2. UNCHANGED Res!consumer => UNCHANGED Consumer!vars
    BY DEF Res!consumer, Consumer!vars, Consumer!broker, Consumer!history
  <2> QED  BY <1>1, <2>1, <2>2, SameConsumer
           DEF ServiceWork, Consumer!Next, Consumer!Loop
<1>2. CASE ServiceDies \/ Group \/ Console
  <2>1. \/ up /\ Res!Loop!Die
        \/ Res!Loop!AutoCommit \/ Res!Loop!Rebalance \/ Res!Loop!Restart
        \/ \E m \in Res!Messages : Res!Loop!Publish(m)
    BY <1>2 DEF ServiceDies, Group, Console, Res!Crash, Res!Loop!Crash,
                Res!Environment
  <2> QED  BY <2>1, SameConsumer DEF Consumer!Next
<1>3. ASSUME NEW c \in Clients, EventLoop(c)
      PROVE  \E s \in Seq(Res!Messages) : Consumer!Grow(s)
  <2> DEFINE new == [i \in 1..(collects' - collects) |-> "collect"]
  <2>1. collects' - collects \in Nat
    <3>1. /\ collects \in Nat
          /\ \/ collects' = collects
             \/ collects' = collects + 1
             \/ collects' = collects + 2
      BY <1>3, ReadStep DEF EventLoop, ListInv, WireInv
    <3> QED  BY <3>1
  <2>2. new \in Seq(Res!Messages)
    BY <2>1 DEF Res!Messages
  <2>3. Consumer!Grow(new)
    BY <1>3 DEF EventLoop, resVars, Consumer!Grow, Consumer!history
  <2> HIDE DEF new
  <2> QED  BY <2>2, <2>3
<1>4. CASE \/ AccountAnswers \/ AccountService \/ AppUser \/ ServicePosts
           \/ ServiceHears \/ ClientSteps("resterants") \/ Forget
           \/ UNCHANGED flowVars
  <2>1. UNCHANGED <<log, committed, pos, inHand, up, restarts, rebalances, handed,
                    completed>>
    BY <1>4
    DEF AccountAnswers, AccountService, AccountHears, ClientSteps, AppUser,
        ServicePosts, ServiceHears, Res!Post, Res!PostReturns, Res!consumer,
        Forget, flowVars, resVars
  <2> QED  BY <2>1 DEF Consumer!vars, Consumer!broker, Consumer!history
<1> QED  BY <1>1, <1>2, <1>3, <1>4 DEF ListNext, Service

(* So the flow keeps what every consumer loop does.                          *)
LEMMA ConsumerKeeps ==
  ASSUME ListInv, Consumer!IInv, Consumer!LossBound, [ListNext]_flowVars
  PROVE  Consumer!IInv' /\ Consumer!LossBound' /\ Consumer!Lost \subseteq Consumer!Lost'
<1>1. CASE [Consumer!Next]_(Consumer!vars)
  <2>1. Consumer!IInv'
    BY <1>1, ConsumerBounds, Consumer!TypeStep, Consumer!OffsetsStep,
       Consumer!OrderStep, Consumer!PoisonBehindStep, Consumer!PoisonStep
    DEF Consumer!IInv
  <2> QED  BY <1>1, <2>1, ConsumerBounds, Consumer!LossStep, Consumer!LostStays
<1>2. ASSUME NEW s \in Seq(Res!Messages), Consumer!Grow(s)
      PROVE  /\ Consumer!IInv' /\ Consumer!LossBound'
             /\ Consumer!Lost \subseteq Consumer!Lost'
  BY <1>2, ConsumerBounds, Consumer!GrowKeeps
<1> QED  BY <1>1, <1>2, ConsumerStep

(* The restaurants service misses and loses no more than the commit of       *)
(* stored offsets allows, with an app that asks for lists at any time and a  *)
(* broker that stores what it asks twice.                                    *)
THEOREM ConsumerPromises ==
  ListSpec => /\ [](/\ Res!Loop!HandedInOrder /\ Res!Loop!NothingSkipped
                    /\ Res!Loop!LossBound /\ Res!Loop!OnlyCommitPassesPoison)
              /\ [][Res!Loop!Lost \subseteq Res!Loop!Lost']_flowVars
<1> DEFINE Kept == Consumer!IInv /\ Consumer!LossBound
<1>1. ListInit => Kept
  <2>1. ListInit => Consumer!Init
    BY SameConsumer DEF ListInit, Res!Init
  <2>2. Consumer!Init => Kept
    BY ConsumerBounds, Consumer!InitKeeps
  <2> QED  BY <2>1, <2>2
<1>2. ListInv /\ Kept /\ [ListNext]_flowVars => Kept'
  BY ConsumerKeeps
<1>3. ListInv /\ Kept /\ [ListNext]_flowVars => Res!Loop!Lost \subseteq Res!Loop!Lost'
  BY ConsumerKeeps DEF Consumer!Lost, Consumer!Dropped, Res!Loop!Lost,
                       Res!Loop!Dropped
<1>4. Kept => /\ Res!Loop!HandedInOrder /\ Res!Loop!NothingSkipped
              /\ Res!Loop!LossBound /\ Res!Loop!OnlyCommitPassesPoison
  <2>1. Consumer!LossBound => Res!Loop!LossBound
    <3>1. \A S : Consumer!Cardinality(S) = Res!Loop!Cardinality(S)
      BY DEF Consumer!Cardinality, Res!Loop!Cardinality
    <3> QED  BY <3>1 DEF Consumer!LossBound, Consumer!Dropped,
                         Res!Loop!LossBound, Res!Loop!Dropped
  <2>2. Kept => Consumer!Promises
    BY ConsumerBounds, Consumer!InvPromises
  <2> QED  BY <2>1, <2>2 DEF Consumer!Promises, Consumer!HandedInOrder,
                Consumer!NothingSkipped, Consumer!OnlyCommitPassesPoison,
                Res!Loop!HandedInOrder, Res!Loop!NothingSkipped,
                Res!Loop!OnlyCommitPassesPoison
<1>5. ListSpec => []Kept
  BY <1>1, <1>2, ListInvHolds, PTL DEF ListSpec
<1> QED  BY <1>3, <1>4, <1>5, ListInvHolds, PTL DEF ListSpec
=============================================================================
