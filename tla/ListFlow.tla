------------------------------ MODULE ListFlow ------------------------------
(***************************************************************************)
(* From the menu, which asks for the restaurants as soon as it is shown,   *)
(* through the topic and the restaurants service, and back to the app: the *)
(* app composed with Resterants.  The account service is there only as the *)
(* client whose answers show the menu (LoginFlow has all of it).           *)
(***************************************************************************)
EXTENDS DoorLeap, Sequences

CONSTANTS MaxLog, MaxRestarts, MaxRebalances, MaxTries,  \* see Resterants
          MaxAnswers  \* bound: answers of the account service

ASSUME ListAssumption ==
    /\ Clients = {"account", "resterants"}
    /\ MaxLog \in Nat /\ MaxRestarts \in Nat /\ MaxRebalances \in Nat
    /\ MaxTries \in Nat /\ MaxAnswers \in Nat
    /\ MaxLives \in Nat /\ MaxLost \in Nat

VARIABLES log, committed, pos, inHand, up, restarts, rebalances, handed,
          completed, stage, tries, posted,  \* the service, see Resterants
          answers  \* history: answers the account service has posted

Res == INSTANCE Resterants

resVars == <<committed, pos, inHand, up, restarts, rebalances, handed,
             completed, stage, tries, posted>>
flowVars == <<appVars, resVars, log, answers>>

ListTypeOK ==
    /\ AppTypeOK /\ Res!TypeOK
    /\ answers \in 0..MaxAnswers
    /\ up => ((stage = "posting") <=> (conn["resterants"] # Idle))

ListInit == AppInit /\ Res!Init /\ answers = 0

-----------------------------------------------------------------------------
AccountAnswers ==
    /\ answers < MaxAnswers /\ answers' = answers + 1
    /\ \E r \in Answers : Post("account", r)
    /\ UNCHANGED <<resVars, log>>

AccountHears ==
    /\ conn["account"].stage \in {"ok", "failed"} /\ Close("account")
    /\ UNCHANGED <<resVars, log, answers>>

(* The thread of a service that posts; the dead one's is gone.               *)
ClientSteps(c) ==
    /\ (c = "resterants") => up
    /\ Client(c)
    /\ UNCHANGED <<resVars, log, answers>>

(* What AskForList stored goes to the end of the topic. *)
EventLoop(c) ==
    /\ ReadyRead(c)
    /\ log' = log \o [i \in 1..(collects' - collects) |-> "collect"]
    /\ Len(log') <= MaxLog
    /\ UNCHANGED <<resVars, answers>>

AppUser == User /\ UNCHANGED <<resVars, log, answers>>

(* Searches and whatever else comes from the console producer.               *)
Console ==
    /\ \E m \in Res!Messages \ {"collect"} : Res!Loop!Publish(m)
    /\ UNCHANGED <<appVars, stage, tries, posted, answers>>

ServiceWork == Res!Work /\ UNCHANGED <<appVars, answers>>

ServicePosts ==
    /\ Res!Post
    /\ \E r \in Lists : Post("resterants", r)
    /\ UNCHANGED answers

ServiceHears ==
    /\ Res!PostReturns
    /\ conn["resterants"].stage \in {"ok", "failed"} /\ Close("resterants")
    /\ UNCHANGED answers

Service ==
    ServiceWork \/ ServicePosts \/ ServiceHears \/ ClientSteps("resterants")

AccountService == AccountHears \/ ClientSteps("account")

(* What a dead service wrote is still read. *)
ServiceDies == Res!Crash /\ UNCHANGED <<appVars, answers>>

Forget ==
    /\ ~up /\ conn["resterants"] # Idle
    /\ ~Readable("resterants", "/resterants")
    /\ Close("resterants")
    /\ UNCHANGED <<resVars, log, answers>>

(* An operator takes longer to start the service than the app to read.       *)
Group ==
    /\ Res!Environment
    /\ ~up => conn["resterants"] = Idle
    /\ UNCHANGED <<appVars, answers>>

ListNext ==
    \/ AccountAnswers \/ AccountService
    \/ \E c \in Clients : EventLoop(c)
    \/ AppUser \/ Console
    \/ Service \/ ServiceDies \/ Forget \/ Group

ListSpec == ListInit /\ [][ListNext]_flowVars

(* Both services run as long as they live, the app gets to every socket, and *)
(* the kernel closes what a dead process had open.                           *)
FairListSpec ==
    /\ ListSpec
    /\ WF_flowVars(Forget)
    /\ WF_flowVars(Service) /\ WF_flowVars(AccountService)
    /\ \A c \in Clients : WF_flowVars(EventLoop(c))

-----------------------------------------------------------------------------
(* A login answer is acted on once: each asks for the list at most once, and *)
(* what is more on the topic is what the broker stored twice.                *)
HandledOnce == collects <= answers + lost

CollectAnswered == Res!CollectAnswered
TopicDrained == Res!TopicDrained
=============================================================================
