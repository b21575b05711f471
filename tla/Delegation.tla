------------------------------ MODULE Delegation ------------------------------
(***************************************************************************)
(* Bots that give each other work.  A message of one bot is a row in both  *)
(* chats and a queued run of the recipient; when that run ends, its worker *)
(* or the reconciler returns the outcome to the bot that asked, which is a *)
(* message like any other and starts a run there.                          *)
(*                                                                         *)
(* A delivery and the run it starts are created together, so one number    *)
(* stands for both.  messageBot locks the rows of both threads, clearThread*)
(* that of one; what they read before is a step of its own.                *)
(***************************************************************************)
EXTENDS FiniteSets, Naturals

CONSTANTS
  Teammates,   \* the bots of a user, each with its chat
  Leads,       \* those of them a person talks to
  Said,        \* intents the tool is called with ("request": "question" too)
  Person,      \* who asked, for work that no bot asked for
  Reporters,   \* workers that go on to return the outcome of their run
  Sweepers,    \* reconcilers, that return what was not
  WorkIds,     \* 1 .. the number of runs explored
  MaxHops,     \* BOT_MESSAGE_MAX_HOPS
  MaxAsks,     \* bound: runs started by a person,
  MaxChatter,  \* and by the message of a running bot
  MaxMeddling  \* bound: stops, clears, archivings and deaths

ASSUME DelegationAssumption ==
  /\ Leads \subseteq Teammates /\ Person \notin Teammates
  /\ Said \subseteq {"request", "fyi", "result", "status"}
  /\ WorkIds \subseteq Nat \ {0}
  /\ Reporters \cap Sweepers = {}
  /\ MaxHops \in Nat /\ MaxAsks \in Nat /\ MaxChatter \in Nat
  /\ MaxMeddling \in Nat

VARIABLES
  work,              \* status of each run
  doer, asker,       \* its bot; the bot whose message it answers
  intent, hop,       \* of that message
  cause,             \* the run that sent it (0: a person)
  auto,              \* deliveries made by returnBotMessageOutcome
  inbox, echo,       \* deliveries still in the recipient's, the sender's chat
  reported,              \* runs with botOutcomeReturnedAt
  archived,          \* bots with archivedAt
  doomed,            \* active runs an archiving has read (and whose)
  returning, about,  \* of a courier: where it is, the run it reports on,
  sourced,           \* whether messageBot found the run's source message
  meddling

rowsOfWork == <<doer, asker, intent, hop, cause, auto>>
chats == <<inbox, echo>>
couriers == <<returning, about, sourced>>
bots == <<archived, doomed>>
delegationVars ==
  <<work, rowsOfWork, chats, reported, bots, couriers, meddling>>

Couriers == Reporters \cup Sweepers
Unfinished == {"queued", "running"}
Ended == {"completed", "failed"}
Intents == {"request", "fyi", "result", "status"}
NotArchiving == [bot |-> Person, runs |-> {}]

DelegationTypeOK ==
  /\ work \in [WorkIds -> {"absent", "cancelled"} \cup Unfinished \cup Ended]
  /\ doer \in [WorkIds -> Teammates \cup {Person}]
  /\ asker \in [WorkIds -> Teammates \cup {Person}]
  /\ intent \in [WorkIds -> Intents]
  /\ hop \in [WorkIds -> Nat]
  /\ cause \in [WorkIds -> WorkIds \cup {0}]
  /\ auto \subseteq WorkIds /\ inbox \subseteq WorkIds /\ echo \subseteq WorkIds
  /\ reported \subseteq WorkIds
  /\ archived \subseteq Teammates
  /\ doomed \in [bot : Teammates, runs : SUBSET WorkIds] \cup {NotArchiving}
  /\ returning \in [Couriers ->
                      {"idle", "source", "sent", "address", "deliver", "mark"}]
  /\ about \in [Couriers -> WorkIds \cup {0}]
  /\ \A c \in Couriers : returning[c] # "idle" => about[c] \in WorkIds
  /\ sourced \in [Couriers -> BOOLEAN]
  /\ meddling \in Nat

DelegationInit ==
  /\ work = [w \in WorkIds |-> "absent"]
  /\ doer = [w \in WorkIds |-> Person] /\ asker = [w \in WorkIds |-> Person]
  /\ intent = [w \in WorkIds |-> "request"]
  /\ hop = [w \in WorkIds |-> 0] /\ cause = [w \in WorkIds |-> 0]
  /\ auto = {} /\ inbox = {} /\ echo = {} /\ reported = {}
  /\ archived = {} /\ doomed = NotArchiving
  /\ returning = [c \in Couriers |-> "idle"]
  /\ about = [c \in Couriers |-> 0]
  /\ sourced = [c \in Couriers |-> FALSE]
  /\ meddling = 0

Delegated(w) == asker[w] # Person
Expected(w) == intent[w] = "request"   \* its outcome is to be returned
ActiveOf(b) == {w \in WorkIds : doer[w] = b /\ work[w] \in Unfinished}
Meddle == meddling < MaxMeddling /\ meddling' = meddling + 1
Asked == {w \in WorkIds : work[w] # "absent" /\ asker[w] = Person}
Chatter == {w \in WorkIds : work[w] # "absent" /\ Delegated(w)} \ auto

\* The ids in order, so that runs are reported apart by age alone.
AddWork(v, for, from, what, depth, by) ==
  /\ work[v] = "absent"
  /\ \A u \in WorkIds : u < v => work[u] # "absent"
  /\ work' = [work EXCEPT ![v] = "queued"]
  /\ doer' = [doer EXCEPT ![v] = for]
  /\ asker' = [asker EXCEPT ![v] = from]
  /\ intent' = [intent EXCEPT ![v] = what]
  /\ hop' = [hop EXCEPT ![v] = depth]
  /\ cause' = [cause EXCEPT ![v] = by]

\* A message to the bot's chat and, as an echo, to the sender's.  The reply
\* refers to the echo of the request, which has to be there still.
Deliver(v, w, to, what, depth, replies) ==
  /\ replies => w \in echo
  /\ AddWork(v, to, doer[w], what, depth, w)
  /\ inbox' = inbox \cup {v} /\ echo' = echo \cup {v}

-----------------------------------------------------------------------------
(* The runs.                                                               *)

\* A person's own message starts a fresh chain.
AskByPerson(b) ==
  /\ b \notin archived
  /\ Cardinality(Asked) < MaxAsks
  /\ \E v \in WorkIds : AddWork(v, b, Person, "request", 0, 0)
  /\ UNCHANGED <<auto, chats, reported, bots, couriers, meddling>>

BeginWork(w) ==
  /\ work[w] = "queued"
  /\ work' = [work EXCEPT ![w] = "running"]
  /\ UNCHANGED <<rowsOfWork, chats, reported, bots, couriers, meddling>>

\* The message_bot tool.  A call that is executed again finds its message by
\* the nonce and sends nothing, so a call is one step however often it runs.
MessageBot(w, b, what) ==
  /\ work[w] = "running"
  /\ b # doer[w] /\ b \notin archived
  /\ hop[w] + 1 <= MaxHops
  /\ Cardinality(Chatter) < MaxChatter
  /\ \E v \in WorkIds :
       Deliver(v, w, b, what, hop[w] + 1, asker[w] = b /\ what # "fyi")
  /\ UNCHANGED <<auto, reported, bots, couriers, meddling>>

\* The run ends, and its worker goes on to return the outcome.  A reply
\* without text is left to the reconciler.
FinalizeWork(c, w, outcome) ==
  /\ work[w] = "running"
  /\ returning[c] = "idle"
  /\ work' = [work EXCEPT ![w] = outcome]
  /\ \/ /\ Delegated(w)
        /\ returning' = [returning EXCEPT ![c] = "source"]
        /\ about' = [about EXCEPT ![c] = w]
     \/ /\ Delegated(w) => outcome = "completed"
        /\ UNCHANGED <<returning, about>>
  /\ UNCHANGED <<rowsOfWork, chats, reported, bots, sourced, meddling>>

-----------------------------------------------------------------------------
(* returnBotMessageOutcome.                                                *)

\* Mutant: only completed runs are swept.
TakeCompleted(c, w) ==
  /\ returning[c] = "idle"
  /\ Delegated(w) /\ work[w] = "completed" /\ w \notin reported
  /\ returning' = [returning EXCEPT ![c] = "source"]
  /\ about' = [about EXCEPT ![c] = w]
  /\ UNCHANGED <<work, rowsOfWork, chats, reported, bots, sourced, meddling>>

\* The reconciler takes up an outcome that is not marked as returned.
TakeOutcome(c, w) ==
  /\ returning[c] = "idle"
  /\ Delegated(w) /\ work[w] \in Ended /\ w \notin reported
  /\ returning' = [returning EXCEPT ![c] = "source"]
  /\ about' = [about EXCEPT ![c] = w]
  /\ UNCHANGED <<work, rowsOfWork, chats, reported, bots, sourced, meddling>>

Step(c, to) ==
  /\ returning' = [returning EXCEPT ![c] = to]
  /\ UNCHANGED <<rowsOfWork, about, bots, meddling>>
GoesIdle(c) ==
  /\ returning' = [returning EXCEPT ![c] = "idle"]
  /\ about' = [about EXCEPT ![c] = 0]
  /\ sourced' = [sourced EXCEPT ![c] = FALSE]

ReadSource(c) ==
  /\ returning[c] = "source"
  /\ Step(c, IF about[c] \in inbox /\ Expected(about[c])
             THEN "sent" ELSE "mark")
  /\ UNCHANGED <<work, chats, reported, sourced>>

\* The results that the run has sent to the bot that asked, by their echoes.
ResultsSent(w) ==
  {v \in echo : cause[v] = w /\ doer[v] = asker[w] /\ intent[v] = "result"}

ReadSent(c) ==
  /\ returning[c] = "sent"
  /\ Step(c, IF ResultsSent(about[c]) # {} THEN "mark" ELSE "address")
  /\ UNCHANGED <<work, chats, reported, sourced>>

\* messageBot reads the source again, and who may be addressed.
Address(c) ==
  /\ returning[c] = "address"
  /\ \/ /\ asker[about[c]] \notin archived
        /\ sourced' = [sourced EXCEPT ![c] = about[c] \in inbox]
        /\ Step(c, "deliver")
     \/ /\ asker[about[c]] \in archived
        /\ GoesIdle(c)
        /\ UNCHANGED <<rowsOfWork, bots, meddling>>
  /\ UNCHANGED <<work, chats, reported>>

\* The nonces of the two intents differ, but a run has one outcome.
OutcomeIntent(w) == IF work[w] = "failed" THEN "status" ELSE "result"
Reports(w) == {v \in auto : cause[v] = w}

\* The transaction when nothing stands in its way: the outcome goes back, and
\* it is not held to the limit of hops.
SendOutcome(c, w) ==
  /\ work[w] \in Ended /\ asker[w] \notin archived
  /\ returning' = [returning EXCEPT ![c] = "mark"]
  /\ \E v \in WorkIds :
       /\ Deliver(v, w, asker[w], OutcomeIntent(w),
                  IF sourced[c] THEN hop[w] + 1 ELSE 1, sourced[c])
       /\ auto' = auto \cup {v}
  /\ UNCHANGED <<reported, bots, about, sourced, meddling>>

\* Mutant: an earlier delivery is not looked up by its nonce.
DeliverAnyway(c) == returning[c] = "deliver" /\ SendOutcome(c, about[c])

\* The transaction: a replay; a refusal or a failed reference; the delivery.
DeliverOutcome(c) ==
  LET w == about[c] IN
  /\ returning[c] = "deliver"
  /\ \/ /\ Reports(w) \cap inbox # {}
        /\ Step(c, "mark")
        /\ UNCHANGED <<work, chats, reported, sourced>>
     \/ /\ Reports(w) \cap inbox = {}
        /\ \/ work[w] \notin Ended
           \/ asker[w] \in archived
           \/ sourced[c] /\ w \notin echo
        /\ GoesIdle(c)
        /\ UNCHANGED <<work, rowsOfWork, chats, reported, bots, meddling>>
     \/ Reports(w) \cap inbox = {} /\ SendOutcome(c, w)

MarkReturned(c) ==
  /\ returning[c] = "mark"
  /\ reported' = reported \cup {w \in {about[c]} : work[w] \in Ended}
  /\ GoesIdle(c)
  /\ UNCHANGED <<work, rowsOfWork, chats, bots, meddling>>

CourierDies(c) ==
  /\ returning[c] # "idle"
  /\ Meddle
  /\ GoesIdle(c)
  /\ UNCHANGED <<work, rowsOfWork, chats, reported, bots>>

-----------------------------------------------------------------------------
(* The user.                                                               *)

StopWork(w) ==
  /\ work[w] \in Unfinished
  /\ Meddle
  /\ work' = [work EXCEPT ![w] = "cancelled"]
  /\ UNCHANGED <<rowsOfWork, chats, reported, bots, couriers>>

CancelAll(runs) ==
  work' = [w \in WorkIds |-> IF w \in runs THEN "cancelled" ELSE work[w]]

\* The messages of the chat go, those that bots sent and those they received.
ClearChat(b) ==
  /\ Meddle
  /\ CancelAll(ActiveOf(b))
  /\ inbox' = {w \in inbox : doer[w] # b}
  /\ echo' = {w \in echo : asker[w] # b}
  /\ UNCHANGED <<rowsOfWork, reported, bots, couriers>>

\* archiveBot reads the active runs outside the transaction that cancels
\* them, whatever has become of them.
ReadForArchive(b) ==
  /\ doomed = NotArchiving /\ b \notin archived
  /\ Meddle
  /\ doomed' = [bot |-> b, runs |-> ActiveOf(b)]
  /\ UNCHANGED <<work, rowsOfWork, chats, reported, archived, couriers>>
ArchiveBot ==
  /\ doomed # NotArchiving
  /\ CancelAll(doomed.runs)
  /\ archived' = archived \cup {doomed.bot}
  /\ doomed' = NotArchiving
  /\ UNCHANGED <<rowsOfWork, chats, reported, couriers, meddling>>
RestoreBot(b) ==
  /\ b \in archived
  /\ archived' = archived \ {b}
  /\ UNCHANGED <<work, rowsOfWork, chats, reported, doomed, couriers,
                 meddling>>

-----------------------------------------------------------------------------
Returns(c) ==
  \/ ReadSource(c)
  \/ ReadSent(c)
  \/ Address(c)
  \/ DeliverOutcome(c)
  \/ MarkReturned(c)

DelegationNext ==
  \/ \E b \in Leads : AskByPerson(b)
  \/ \E b \in Teammates :
       \/ ClearChat(b)
       \/ ReadForArchive(b)
       \/ RestoreBot(b)
  \/ ArchiveBot
  \/ \E w \in WorkIds :
       \/ BeginWork(w)
       \/ StopWork(w)
       \/ \E b \in Teammates, what \in Said : MessageBot(w, b, what)
       \/ \E c \in Sweepers : TakeOutcome(c, w)
       \/ \E c \in Reporters, outcome \in Ended : FinalizeWork(c, w, outcome)
  \/ \E c \in Couriers : Returns(c) \/ CourierDies(c)

DelegationSafety == DelegationInit /\ [][DelegationNext]_delegationVars

Reconciles(c) ==
  Returns(c) \/ (c \in Sweepers /\ \E w \in WorkIds : TakeOutcome(c, w))

\* Couriers go on, and the reconciler comes back to every outcome that is not
\* marked: one that it could not return it touches, so that others come first
\* in its next batch.
DelegationFairness ==
  /\ \A c \in Couriers : WF_delegationVars(Returns(c))
  /\ \A w \in WorkIds :
       SF_delegationVars(\E c \in Sweepers : TakeOutcome(c, w))
DelegationSpec == DelegationSafety /\ DelegationFairness

-----------------------------------------------------------------------------
(* Properties.                                                             *)

\* A request is answered by its run's own result or by one report of its
\* outcome, and a run is marked as returned only after it was: workers and
\* the reconciler may report the same run at once, and may die in between.
\* Once the chat of the run is cleared nobody knows what it was asked.
Answers(w) ==
  {v \in WorkIds : cause[v] = w /\ doer[v] = asker[w] /\ work[v] # "absent"
                     /\ (intent[v] = "result" \/ v \in auto)}
ReportedOnce ==
  \A w \in inbox :
    Expected(w) =>
      /\ Cardinality(Reports(w)) <= 1
      /\ Reports(w) # {} => Answers(w) = Reports(w)
      /\ w \in reported => Answers(w) # {}

\* A person's message starts a chain, and bots alone cannot keep it going: no
\* run is deeper than the limit but one that an outcome comes back to.
ChainEnds ==
  \A w \in WorkIds : hop[w] <= MaxHops + (IF w \in auto THEN 1 ELSE 0)

\* What became of a delegated run is reported to the bot that asked, unless
\* a chat was cleared of the request, the bot that asked is archived, or the
\* archiving of its own bot has cancelled the run after it had ended: again
\* and again there is no outcome that nobody was told.
Outstanding ==
  {w \in inbox \cap echo :
     /\ work[w] \in Ended /\ Expected(w) /\ asker[w] \notin archived
     /\ Answers(w) = {} \/ w \notin reported}
OutcomeReturned == []<>(Outstanding = {})
===============================================================================
