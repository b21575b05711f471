---------------------------- MODULE Services_proofs ----------------------------
(***************************************************************************)
(* Theorems about the in-memory job queue, the leadership of the           *)
(* reconcilers, the work that bots give each other, the chat of a group of *)
(* them and routines, for every set of jobs, keys, replicas, bots,         *)
(* couriers, handlers and reconcilers, and every bound.                    *)
(***************************************************************************)
EXTENDS Routines, InMemoryJobQueue, Leadership, Delegation, GroupChat,
        FiniteSetTheorems, TLAPS

-----------------------------------------------------------------------------
(* The job queue.                                                          *)

\* What the flags say of the jobs: a drain, and then the flag it leaves,
\* keeps timers from being set, and only the first part of a drain keeps jobs.
DrainInv ==
  /\ drain # "no" => closing
  /\ drain = "no" => ~closing
  /\ accepting => drain = "running"
  /\ drain # "running" => closingJobs = {}
  /\ stopped \/ closed => closingJobs = {}
  /\ drain # "no" \/ stopped \/ closed => scheduled = {}
  /\ ~handlers => stopped \/ closed
  /\ QuietAfterDrain

QueueInv == QueueTypeOK /\ DrainInv /\ AcceptedJobsRun

\* What a drain keeps of the jobs with a timer are some of them.
LEMMA KeptAreScheduled ==
  ASSUME NEW J, NEW K \in OnePerKey(J) PROVE K \subseteq J
BY DEF OnePerKey

LEMMA QueueTypeStep ==
  ASSUME QueueTypeOK, [QueueNext]_queueVars PROVE QueueTypeOK'
<1> USE QueueAssumption DEF QueueTypeOK, queueJobs, queueFlags, queueHistory,
        Returned, Threw, SameKey
<1>1. ASSUME NEW j \in Jobs, Enqueue(j) PROVE QueueTypeOK'
  BY <1>1 DEF Enqueue, EnqueueWhileClosing, Schedule, Cancel
<1>2. ASSUME NEW j \in Jobs, ResumeEnqueue(j) PROVE QueueTypeOK'
  BY <1>2 DEF ResumeEnqueue, EnqueueWhileClosing, Schedule
<1>3. ASSUME NEW j \in Jobs, Fire(j) PROVE QueueTypeOK'
  BY <1>3 DEF Fire
<1>4. ASSUME NEW j \in Jobs, HandlerEnds(j) PROVE QueueTypeOK'
  BY <1>4 DEF HandlerEnds
<1>5. ASSUME NEW forGood \in BOOLEAN, BeginDrain(forGood) PROVE QueueTypeOK'
  BY <1>5, KeptAreScheduled DEF BeginDrain
<1>6. CASE RunClosingJobs
  BY <1>6 DEF RunClosingJobs
<1>7. CASE EndDrain
  BY <1>7 DEF EndDrain
<1>8. CASE StartHost
  BY <1>8 DEF StartHost
<1>9. CASE UNCHANGED queueVars
  BY <1>9 DEF queueVars
<1> QED
  BY <1>1, <1>2, <1>3, <1>4, <1>5, <1>6, <1>7, <1>8, <1>9 DEF QueueNext

LEMMA DrainInvStep ==
  ASSUME QueueTypeOK, DrainInv, [QueueNext]_queueVars PROVE DrainInv'
<1> USE DEF QueueTypeOK, DrainInv, QuietAfterDrain, queueJobs, queueFlags,
        queueHistory, Returned, Threw, SameKey
<1>1. ASSUME NEW j \in Jobs, Enqueue(j) PROVE DrainInv'
  BY <1>1 DEF Enqueue, EnqueueWhileClosing, Schedule, Cancel
<1>2. ASSUME NEW j \in Jobs, ResumeEnqueue(j) PROVE DrainInv'
  BY <1>2 DEF ResumeEnqueue, EnqueueWhileClosing, Schedule
<1>3. ASSUME NEW j \in Jobs, Fire(j) PROVE DrainInv'
  BY <1>3 DEF Fire
<1>4. ASSUME NEW j \in Jobs, HandlerEnds(j) PROVE DrainInv'
  BY <1>4 DEF HandlerEnds
<1>5. ASSUME NEW forGood \in BOOLEAN, BeginDrain(forGood) PROVE DrainInv'
  BY <1>5, KeptAreScheduled DEF BeginDrain
<1>6. CASE RunClosingJobs
  BY <1>6 DEF RunClosingJobs
<1>7. CASE EndDrain
  BY <1>7 DEF EndDrain
<1>8. CASE StartHost
  BY <1>8 DEF StartHost
<1>9. CASE UNCHANGED queueVars
  BY <1>9 DEF queueVars
<1> QED
  BY <1>1, <1>2, <1>3, <1>4, <1>5, <1>6, <1>7, <1>8, <1>9 DEF QueueNext

LEMMA AcceptedStep ==
  ASSUME QueueTypeOK, DrainInv, AcceptedJobsRun, [QueueNext]_queueVars
  PROVE  AcceptedJobsRun'
<1> USE DEF QueueTypeOK, DrainInv, AcceptedJobsRun, queueJobs, queueFlags,
        queueHistory, Returned, Threw, SameKey
<1>1. ASSUME NEW j \in Jobs, Enqueue(j) PROVE AcceptedJobsRun'
  BY <1>1 DEF Enqueue, EnqueueWhileClosing, Schedule, Cancel
<1>2. ASSUME NEW j \in Jobs, ResumeEnqueue(j) PROVE AcceptedJobsRun'
  BY <1>2 DEF ResumeEnqueue, EnqueueWhileClosing, Schedule
<1>3. ASSUME NEW j \in Jobs, Fire(j) PROVE AcceptedJobsRun'
  BY <1>3 DEF Fire
<1>4. ASSUME NEW j \in Jobs, HandlerEnds(j) PROVE AcceptedJobsRun'
  BY <1>4 DEF HandlerEnds
<1>5. ASSUME NEW forGood \in BOOLEAN, BeginDrain(forGood)
      PROVE  AcceptedJobsRun'
  BY <1>5, KeptAreScheduled DEF BeginDrain
<1>6. CASE RunClosingJobs
  BY <1>6 DEF RunClosingJobs
<1>7. CASE EndDrain
  BY <1>7 DEF EndDrain
<1>8. CASE StartHost
  BY <1>8 DEF StartHost
<1>9. CASE UNCHANGED queueVars
  BY <1>9 DEF queueVars
<1> QED
  BY <1>1, <1>2, <1>3, <1>4, <1>5, <1>6, <1>7, <1>8, <1>9 DEF QueueNext

LEMMA QueueInvariant == QueueSpec => []QueueInv
<1>1. QueueInit => QueueInv
  BY QueueAssumption DEF QueueInit, QueueInv, QueueTypeOK, DrainInv,
     QuietAfterDrain, AcceptedJobsRun
<1>2. QueueInv /\ [QueueNext]_queueVars => QueueInv'
  BY QueueTypeStep, DrainInvStep, AcceptedStep DEF QueueInv
<1> QED
  BY <1>1, <1>2, PTL DEF QueueSpec

\* The variables of the queue keep their types.
THEOREM QueueTypeCorrect == QueueSpec => []QueueTypeOK
BY QueueInvariant, PTL DEF QueueInv

\* No stop, close or restart between two awaits loses a job whose enqueue
\* returned, for any number of jobs and keys.
THEOREM AcceptedJobsAreRun == QueueSpec => []AcceptedJobsRun
BY QueueInvariant, PTL DEF QueueInv

\* Once stop or close has returned no timer is set and no handler runs.
THEOREM StoppedIsQuiet == QueueSpec => []QuietAfterDrain
<1>1. QueueInv => QuietAfterDrain
  BY DEF QueueInv, DrainInv
<1> QED
  BY <1>1, QueueInvariant, PTL

-----------------------------------------------------------------------------
(* Leadership.                                                             *)

\* At most one session holds the lock, and it is that of a replica that
\* leads or is about to unlock.
LockInv ==
  /\ LeadTypeOK /\ LockNotLeftBehind
  /\ \A p, q \in locking : p = q

\* The lock's invariant, without the fairness of the replicas.
LEMMA LockInvHolds == LeadInit /\ [][LeadNext]_leadVars => []LockInv
<1>1. LeadInit => LockInv
  BY DEF LeadInit, LockInv, LeadTypeOK, LockNotLeftBehind
<1>2. ASSUME LockInv, [LeadNext]_leadVars PROVE LockInv'
  <2> USE <1>2, LeadershipAssumption DEF LockInv, LeadTypeOK,
         LockNotLeftBehind, Break
  <2>1. ASSUME NEW p \in Replicas, TryAcquire(p) PROVE LockInv'
    BY <2>1 DEF TryAcquire
  <2>2. ASSUME NEW p \in Replicas, SessionBreaks(p) PROVE LockInv'
    BY <2>2 DEF SessionBreaks
  <2>3. ASSUME NEW p \in Replicas, LoseClient(p) PROVE LockInv'
    BY <2>3 DEF LoseClient
  <2>4. ASSUME NEW p \in Replicas, BeginRelease(p) PROVE LockInv'
    BY <2>4 DEF BeginRelease
  <2>5. ASSUME NEW p \in Replicas, FinishRelease(p) PROVE LockInv'
    BY <2>5 DEF FinishRelease
  <2>6. CASE UNCHANGED leadVars
    BY <2>6 DEF leadVars
  <2> QED
    BY <2>1, <2>2, <2>3, <2>4, <2>5, <2>6 DEF LeadNext
<1> QED
  BY <1>1, <1>2, PTL

\* The lock is never left with a connection in a pool, which would keep
\* every replica from leading, and never held by two sessions.
THEOREM LockIsHeldByALeader == LeadSpec => []LockInv
BY LockInvHolds, PTL DEF LeadSpec
-----------------------------------------------------------------------------
(* Work that bots give each other.                                         *)

\* No row knows of a run that is not there yet.
AbsentInv ==
  \A v \in WorkIds :
    work[v] = "absent" =>
      /\ v \notin auto /\ v \notin inbox /\ v \notin echo /\ v \notin reported
      /\ cause[v] = 0
      /\ \A u \in WorkIds : cause[u] # v

\* A message of a bot comes from the run that sent it,
SentInv ==
  \A v \in WorkIds :
    /\ v \in inbox => cause[v] # 0
    /\ cause[v] # 0 => asker[v] = doer[cause[v]]

\* and a report goes back to who asked, once the run is over.
BackInv ==
  \A v \in auto :
    /\ cause[v] # 0
    /\ doer[v] = asker[cause[v]] /\ intent[cause[v]] = "request"
    /\ intent[v] \in {"result", "status"}
    /\ work[cause[v]] \notin Unfinished

WorksInv == AbsentInv /\ SentInv /\ BackInv

\* What a clear leaves of a run and of its messages: they share their chats.
ChatsInv ==
  \A v \in WorkIds :
    cause[v] # 0 =>
      /\ cause[v] \in inbox => v \in echo
      /\ v \in auto /\ cause[v] \in echo => v \in inbox

\* No result but those that were sent for it went to who asked for w.
OnlyReports(w) ==
  \A v \in WorkIds :
    cause[v] = w /\ doer[v] = asker[w] /\ intent[v] = "result" => v \in auto

\* What a courier has found out about its run is still so.
KnowsInv(c) ==
  /\ work[about[c]] \in Ended \cup {"cancelled"}
  /\ returning[c] \in {"sent", "address", "deliver"} =>
       intent[about[c]] = "request"
  /\ returning[c] \in {"address", "deliver"} /\ about[c] \in inbox =>
       OnlyReports(about[c])
  /\ returning[c] = "deliver" /\ ~sourced[c] => about[c] \notin inbox
  /\ returning[c] = "mark" /\ about[c] \in inbox
       /\ intent[about[c]] = "request" => Answers(about[c]) # {}
CouriersInv == \A c \in Couriers : returning[c] # "idle" => KnowsInv(c)

\* ReportedOnce, without the cardinality.
ReportsInv ==
  \A w \in inbox :
    intent[w] = "request" =>
      /\ \A u, v \in auto : cause[u] = w /\ cause[v] = w => u = v
      /\ (\E v \in auto : cause[v] = w) => OnlyReports(w)
      /\ w \in reported => Answers(w) # {}

DelegationInv ==
  /\ DelegationTypeOK /\ WorksInv /\ ChatsInv /\ CouriersInv /\ ReportsInv
  /\ ChainEnds

\* The row of u is as it was; v is a new one.
SameRow(u) ==
  /\ work'[u] = work[u] /\ doer'[u] = doer[u] /\ asker'[u] = asker[u]
  /\ intent'[u] = intent[u] /\ hop'[u] = hop[u] /\ cause'[u] = cause[u]
NewRow(v, by) ==
  /\ work[v] = "absent" /\ work'[v] = "queued" /\ cause'[v] = by
  /\ \A u \in WorkIds : u # v => SameRow(u)

RowTypes ==
  /\ work \in [WorkIds -> {"absent", "cancelled"} \cup Unfinished \cup Ended]
  /\ doer \in [WorkIds -> Teammates \cup {Person}]
  /\ asker \in [WorkIds -> Teammates \cup {Person}]
  /\ intent \in [WorkIds -> Intents] /\ hop \in [WorkIds -> Nat]
  /\ cause \in [WorkIds -> WorkIds \cup {0}]

LEMMA AddWorkTypes ==
  ASSUME DelegationTypeOK, NEW v \in WorkIds,
         NEW for \in Teammates \cup {Person},
         NEW from \in Teammates \cup {Person}, NEW what \in Intents,
         NEW depth \in Nat, NEW by \in WorkIds \cup {0},
         AddWork(v, for, from, what, depth, by)
  PROVE  RowTypes'
BY DEF AddWork, DelegationTypeOK, Unfinished, RowTypes

LEMMA AddWorkEffect ==
  ASSUME DelegationTypeOK, NEW v \in WorkIds, NEW for, NEW from, NEW what,
         NEW depth, NEW by, AddWork(v, for, from, what, depth, by)
  PROVE  /\ NewRow(v, by)
         /\ doer'[v] = for /\ asker'[v] = from /\ intent'[v] = what
         /\ hop'[v] = depth
BY DEF AddWork, DelegationTypeOK, NewRow, SameRow

\* What the types say of the references between runs and couriers.
LEMMA Basics ==
  ASSUME DelegationTypeOK
  PROVE  /\ 0 \notin WorkIds
         /\ \A u \in WorkIds : cause[u] \in WorkIds \cup {0}
         /\ auto \subseteq WorkIds /\ inbox \subseteq WorkIds
         /\ echo \subseteq WorkIds /\ reported \subseteq WorkIds
         /\ \A d \in Couriers : returning[d] # "idle" => about[d] \in WorkIds
BY DelegationAssumption DEF DelegationTypeOK

LEMMA CancelEffect ==
  ASSUME DelegationTypeOK, NEW R, CancelAll(R)
  PROVE  /\ work' \in [WorkIds -> {"absent", "cancelled"} \cup Unfinished \cup Ended]
         /\ \A w \in WorkIds : work'[w] = IF w \in R THEN "cancelled" ELSE work[w]
BY DEF CancelAll, DelegationTypeOK

\* A courier's step leaves the others where they are.
LEMMA IdleEffect ==
  ASSUME DelegationTypeOK, NEW c \in Couriers, GoesIdle(c)
  PROVE  /\ returning' \in [Couriers -> {"idle", "source", "sent", "address",
            "deliver", "mark"}]
         /\ about' \in [Couriers -> WorkIds \cup {0}]
         /\ sourced' \in [Couriers -> BOOLEAN]
         /\ returning'[c] = "idle"
         /\ \A d \in Couriers : d # c =>
              /\ returning'[d] = returning[d] /\ about'[d] = about[d]
              /\ sourced'[d] = sourced[d]
BY DEF GoesIdle, DelegationTypeOK

\* What the tool adds: the row v and its two messages.
LEMMA MessageEffect ==
  ASSUME DelegationTypeOK, NEW w \in WorkIds, NEW b \in Teammates,
         NEW what \in Said, MessageBot(w, b, what)
  PROVE  /\ work[w] = "running" /\ hop[w] + 1 <= MaxHops
         /\ UNCHANGED <<auto, reported, archived, doomed, returning, about,
            sourced>>
         /\ \E v \in WorkIds :
              /\ NewRow(v, w) /\ v # w
              /\ doer'[v] = b /\ asker'[v] = doer[w] /\ intent'[v] = what
              /\ hop'[v] = hop[w] + 1
              /\ inbox' = inbox \cup {v} /\ echo' = echo \cup {v}
<1>1. PICK v \in WorkIds :
        /\ AddWork(v, b, doer[w], what, hop[w] + 1, w)
        /\ inbox' = inbox \cup {v} /\ echo' = echo \cup {v}
  BY DEF MessageBot, Deliver
<1>2. /\ NewRow(v, w)
      /\ doer'[v] = b /\ asker'[v] = doer[w] /\ intent'[v] = what
      /\ hop'[v] = hop[w] + 1
  BY <1>1, AddWorkEffect
<1>3. /\ work[w] = "running" /\ hop[w] + 1 <= MaxHops
      /\ UNCHANGED <<auto, reported, archived, doomed, returning, about,
         sourced>>
  BY DEF MessageBot, bots, couriers
<1>4. v # w
  BY <1>2, <1>3 DEF NewRow
<1> QED
  BY <1>1, <1>2, <1>3, <1>4

\* v is the report of the run of courier c.
Report(c, v) ==
  /\ NewRow(v, about[c]) /\ v # about[c]
  /\ asker'[v] = doer[about[c]] /\ doer'[v] = asker[about[c]]
  /\ intent'[v] \in {"result", "status"}
  /\ hop'[v] = IF sourced[c] THEN hop[about[c]] + 1 ELSE 1
  /\ sourced[c] => about[c] \in echo
  /\ auto' = auto \cup {v}
  /\ inbox' = inbox \cup {v} /\ echo' = echo \cup {v}

LEMMA SendEffect ==
  ASSUME DelegationTypeOK, CouriersInv, NEW c \in Couriers,
         returning[c] = "deliver", SendOutcome(c, about[c])
  PROVE  /\ about[c] \in WorkIds /\ work[about[c]] \in Ended
         /\ intent[about[c]] = "request"
         /\ returning' = [returning EXCEPT ![c] = "mark"]
         /\ UNCHANGED <<reported, archived, doomed, about, sourced, meddling>>
         /\ RowTypes'
         /\ \E v \in WorkIds : Report(c, v)
<1> DEFINE r == about[c]
           depth == IF sourced[c] THEN hop[r] + 1 ELSE 1
<1>1. r \in WorkIds /\ intent[r] = "request"
  BY DEF DelegationTypeOK, CouriersInv, KnowsInv
<1>2. /\ work[r] \in Ended
      /\ returning' = [returning EXCEPT ![c] = "mark"]
      /\ UNCHANGED <<reported, archived, doomed, about, sourced, meddling>>
  BY DEF SendOutcome, bots
<1>3. OutcomeIntent(r) \in {"result", "status"}
  BY DEF OutcomeIntent
<1>4. PICK v \in WorkIds :
        /\ AddWork(v, asker[r], doer[r], OutcomeIntent(r), depth, r)
        /\ sourced[c] => r \in echo
        /\ auto' = auto \cup {v}
        /\ inbox' = inbox \cup {v} /\ echo' = echo \cup {v}
  BY DEF SendOutcome, Deliver
<1>5. /\ asker[r] \in Teammates \cup {Person} /\ doer[r] \in Teammates \cup {Person}
      /\ depth \in Nat /\ r \in WorkIds \cup {0}
  BY <1>1 DEF DelegationTypeOK
<1>6. OutcomeIntent(r) \in Intents
  BY <1>3 DEF Intents
<1> HIDE DEF depth, r
<1>7. RowTypes'
  BY <1>4, <1>5, <1>6, AddWorkTypes
<1>8. /\ NewRow(v, r) /\ doer'[v] = asker[r] /\ asker'[v] = doer[r]
      /\ intent'[v] = OutcomeIntent(r) /\ hop'[v] = depth
  BY <1>4, AddWorkEffect
<1>9. v # r
  BY <1>2, <1>8 DEF NewRow, Ended, r
<1>10. Report(c, v)
  BY <1>3, <1>4, <1>8, <1>9 DEF Report, r, depth
<1> QED
  BY <1>1, <1>2, <1>7, <1>10 DEF r

\* A report takes no answer away.
LEMMA ReportKeepsAnswers ==
  ASSUME NEW c \in Couriers, NEW v \in WorkIds, Report(c, v),
         NEW u \in WorkIds, u # v, Answers(u) # {}
  PROVE  Answers(u)' # {}
<1>1. PICK x \in WorkIds : x \in Answers(u)
  BY DEF Answers
<1>2. x # v
  BY <1>1 DEF Answers, Report, NewRow
<1>3. x \in Answers(u)'
  BY <1>1, <1>2 DEF Answers, Report, NewRow, SameRow
<1> QED
  BY <1>3

LEMMA DelegationTypeStep ==
  ASSUME DelegationTypeOK, CouriersInv, [DelegationNext]_delegationVars
  PROVE  DelegationTypeOK'
<1>1. ASSUME NEW b \in Leads, AskByPerson(b) PROVE DelegationTypeOK'
  <2>1. PICK v \in WorkIds : AddWork(v, b, Person, "request", 0, 0)
    BY <1>1 DEF AskByPerson
  <2>2. /\ b \in Teammates \cup {Person} /\ Person \in Teammates \cup {Person}
        /\ "request" \in Intents /\ 0 \in Nat /\ 0 \in WorkIds \cup {0}
    BY DelegationAssumption DEF Intents
  <2>3. RowTypes'
    BY <2>1, <2>2, AddWorkTypes
  <2> QED
    BY <1>1, <2>3 DEF AskByPerson, RowTypes,
       DelegationTypeOK, Intents, NotArchiving, rowsOfWork, chats,
       couriers, bots
<1>2. ASSUME NEW b \in Teammates, ClearChat(b) PROVE DelegationTypeOK'
  <2>1. work' \in [WorkIds -> {"absent", "cancelled"} \cup Unfinished \cup Ended]
    BY <1>2, CancelEffect DEF ClearChat
  <2>2. inbox' \subseteq WorkIds /\ echo' \subseteq WorkIds
    BY <1>2 DEF ClearChat, DelegationTypeOK
  <2> QED
    BY <1>2, <2>1, <2>2 DEF ClearChat, Meddle,
       DelegationTypeOK, Intents, NotArchiving, rowsOfWork, chats,
       couriers, bots
<1>3. ASSUME NEW b \in Teammates, ReadForArchive(b) PROVE DelegationTypeOK'
  BY DelegationAssumption, <1>3 DEF ReadForArchive, ActiveOf, Meddle,
     DelegationTypeOK, Intents, NotArchiving, rowsOfWork, chats,
     couriers, bots, Couriers, Unfinished, Ended
<1>4. ASSUME NEW b \in Teammates, RestoreBot(b) PROVE DelegationTypeOK'
  BY DelegationAssumption, <1>4 DEF RestoreBot,
     DelegationTypeOK, Intents, NotArchiving, rowsOfWork, chats,
     couriers, bots, Couriers, Unfinished, Ended
<1>5. CASE ArchiveBot
  <2>1. work' \in [WorkIds -> {"absent", "cancelled"} \cup Unfinished \cup Ended]
    BY <1>5, CancelEffect DEF ArchiveBot
  <2> QED
    BY <1>5, <2>1 DEF ArchiveBot,
       DelegationTypeOK, Intents, NotArchiving, rowsOfWork, chats,
       couriers, bots
<1>6. ASSUME NEW w \in WorkIds, BeginWork(w) PROVE DelegationTypeOK'
  BY DelegationAssumption, <1>6 DEF BeginWork,
     DelegationTypeOK, Intents, NotArchiving, rowsOfWork, chats,
     couriers, bots, Couriers, Unfinished, Ended
<1>7. ASSUME NEW w \in WorkIds, StopWork(w) PROVE DelegationTypeOK'
  BY DelegationAssumption, <1>7 DEF StopWork, Meddle,
     DelegationTypeOK, Intents, NotArchiving, rowsOfWork, chats,
     couriers, bots, Couriers, Unfinished, Ended
<1>8. ASSUME NEW w \in WorkIds, NEW b \in Teammates, NEW what \in Said,
              MessageBot(w, b, what)
      PROVE DelegationTypeOK'
  <2>1. PICK v \in WorkIds :
          /\ AddWork(v, b, doer[w], what, hop[w] + 1, w)
          /\ inbox' = inbox \cup {v} /\ echo' = echo \cup {v}
    BY <1>8 DEF MessageBot, Deliver
  <2>2. /\ b \in Teammates \cup {Person} /\ doer[w] \in Teammates \cup {Person}
        /\ w \in WorkIds \cup {0} /\ hop[w] + 1 \in Nat
    BY DEF DelegationTypeOK
  <2>3. what \in Intents
    BY DelegationAssumption DEF Intents
  <2>4. RowTypes'
    BY <2>1, <2>2, <2>3, AddWorkTypes
  <2> QED
    BY <1>8, <2>1, <2>4 DEF MessageBot, RowTypes,
       DelegationTypeOK, Intents, NotArchiving, rowsOfWork, chats,
       couriers, bots
<1>9. ASSUME NEW c \in Sweepers, NEW w \in WorkIds, TakeOutcome(c, w)
      PROVE DelegationTypeOK'
  BY DelegationAssumption, <1>9 DEF TakeOutcome,
     DelegationTypeOK, Intents, NotArchiving, rowsOfWork, chats,
     couriers, bots, Couriers, Unfinished, Ended
<1>10. ASSUME NEW c \in Reporters, NEW w \in WorkIds, NEW outcome \in Ended,
              FinalizeWork(c, w, outcome)
      PROVE DelegationTypeOK'
  BY DelegationAssumption, <1>10 DEF FinalizeWork,
     DelegationTypeOK, Intents, NotArchiving, rowsOfWork, chats,
     couriers, bots, Couriers, Unfinished, Ended
<1>11. ASSUME NEW c \in Couriers, ReadSource(c) PROVE DelegationTypeOK'
  BY DelegationAssumption, <1>11 DEF ReadSource, Step,
     DelegationTypeOK, Intents, NotArchiving, rowsOfWork, chats,
     couriers, bots, Couriers, Unfinished, Ended
<1>12. ASSUME NEW c \in Couriers, ReadSent(c) PROVE DelegationTypeOK'
  BY DelegationAssumption, <1>12 DEF ReadSent, Step,
     DelegationTypeOK, Intents, NotArchiving, rowsOfWork, chats,
     couriers, bots, Couriers, Unfinished, Ended
<1>13. ASSUME NEW c \in Couriers, Address(c) PROVE DelegationTypeOK'
  <2>1. CASE GoesIdle(c) /\ UNCHANGED <<rowsOfWork, bots, meddling>>
    BY <1>13, <2>1 DEF Address, GoesIdle,
       DelegationTypeOK, Intents, NotArchiving, rowsOfWork, chats,
       couriers, bots
  <2>2. CASE Step(c, "deliver")
               /\ sourced' = [sourced EXCEPT ![c] = about[c] \in inbox]
    BY <1>13, <2>2 DEF Address, Step,
       DelegationTypeOK, Intents, NotArchiving, rowsOfWork, chats,
       couriers, bots
  <2> QED
    BY <1>13, <2>1, <2>2 DEF Address
<1>14. ASSUME NEW c \in Couriers, DeliverOutcome(c) PROVE DelegationTypeOK'
  <2>1. CASE Reports(about[c]) \cap inbox # {} /\ Step(c, "mark")
               /\ UNCHANGED <<work, chats, reported, sourced>>
    BY <1>14, <2>1 DEF DeliverOutcome, Step,
       DelegationTypeOK, Intents, NotArchiving, rowsOfWork, chats,
       couriers, bots
  <2>2. CASE GoesIdle(c) /\ UNCHANGED <<work, rowsOfWork, chats, reported,
         bots, meddling>>
    BY <2>2 DEF GoesIdle,
       DelegationTypeOK, Intents, NotArchiving, rowsOfWork, chats,
       couriers, bots
  <2>3. CASE Reports(about[c]) \cap inbox = {} /\ SendOutcome(c, about[c])
    <3> DEFINE r == about[c]
    <3>1. returning[c] = "deliver"
      BY <1>14 DEF DeliverOutcome
    <3>2. /\ r \in WorkIds /\ work[r] \in Ended /\ intent[r] = "request"
          /\ returning' = [returning EXCEPT ![c] = "mark"]
          /\ UNCHANGED <<reported, about, sourced>>
      BY <2>3, <3>1, SendEffect
    <3>3. PICK v \in WorkIds : Report(c, v)
      BY <2>3, <3>1, SendEffect
    <3>4. RowTypes' /\ UNCHANGED <<archived, doomed, meddling>>
      BY <2>3, <3>1, SendEffect
    <3>5. /\ auto' \subseteq WorkIds /\ inbox' \subseteq WorkIds
          /\ echo' \subseteq WorkIds
      BY <3>3, Basics DEF Report
    <3> QED
      BY <3>2, <3>4, <3>5 DEF RowTypes,
       DelegationTypeOK, Intents, NotArchiving, rowsOfWork, chats,
       couriers, bots
  <2> QED
    BY <1>14, <2>1, <2>2, <2>3 DEF DeliverOutcome
<1>15. ASSUME NEW c \in Couriers, MarkReturned(c) PROVE DelegationTypeOK'
  <2>1. reported' \subseteq WorkIds
    <3>1. about[c] \in WorkIds
      BY <1>15, Basics DEF MarkReturned
    <3> QED
      BY <1>15, <3>1, Basics DEF MarkReturned
  <2> QED
    BY <1>15, <2>1 DEF MarkReturned, GoesIdle,
       DelegationTypeOK, Intents, NotArchiving, rowsOfWork, chats,
       couriers, bots
<1>16. ASSUME NEW c \in Couriers, CourierDies(c) PROVE DelegationTypeOK'
  BY DelegationAssumption, <1>16 DEF CourierDies, GoesIdle, Meddle,
     DelegationTypeOK, Intents, NotArchiving, rowsOfWork, chats,
     couriers, bots, Couriers, Unfinished, Ended
<1>17. CASE UNCHANGED delegationVars
  BY <1>17 DEF delegationVars, DelegationTypeOK, Intents, NotArchiving,
     rowsOfWork, chats, couriers, bots,
     Couriers, Unfinished, Ended
<1> QED
  BY <1>1, <1>2, <1>3, <1>4, <1>5, <1>6, <1>7, <1>8, <1>9, <1>10, <1>11, <1>12,
     <1>13, <1>14, <1>15, <1>16, <1>17 DEF DelegationNext, Returns, Couriers

LEMMA WorksStep ==
  ASSUME DelegationTypeOK, WorksInv, CouriersInv,
         [DelegationNext]_delegationVars
  PROVE  WorksInv'
<1>1. ASSUME NEW b \in Leads, AskByPerson(b) PROVE WorksInv'
  <2>1. PICK v \in WorkIds : AddWork(v, b, Person, "request", 0, 0)
    BY <1>1 DEF AskByPerson
  <2>2. /\ NewRow(v, 0) /\ intent'[v] = "request" /\ hop'[v] = 0
        /\ doer'[v] = b /\ asker'[v] = Person
    BY <2>1, AddWorkEffect
  <2>3. UNCHANGED <<auto, inbox, echo, reported, returning, about, sourced>>
    BY <1>1 DEF AskByPerson, chats, couriers
  <2>5. AbsentInv'
    BY <2>2, <2>3, Basics DEF WorksInv, AbsentInv, Unfinished, Ended, NewRow,
       SameRow
  <2>6. SentInv'
    BY <2>2, <2>3, Basics DEF WorksInv, AbsentInv, SentInv, NewRow, SameRow
  <2>7. BackInv'
    BY <2>2, <2>3, Basics DEF WorksInv, AbsentInv, BackInv, Unfinished, Ended,
       NewRow, SameRow
  <2> QED
    BY <2>5, <2>6, <2>7 DEF WorksInv
<1>2. ASSUME NEW b \in Teammates, ClearChat(b) PROVE WorksInv'
  BY DelegationAssumption, <1>2 DEF ClearChat, CancelAll, ActiveOf, Meddle,
     DelegationTypeOK, WorksInv, AbsentInv, SentInv, BackInv, CouriersInv,
     KnowsInv,
     rowsOfWork, chats, couriers, bots, Couriers, Unfinished, Ended
<1>3. ASSUME NEW b \in Teammates, ReadForArchive(b) PROVE WorksInv'
  BY DelegationAssumption, <1>3 DEF ReadForArchive, ActiveOf, Meddle,
     DelegationTypeOK, WorksInv, AbsentInv, SentInv, BackInv, CouriersInv,
     KnowsInv,
     rowsOfWork, chats, couriers, bots, Couriers, Unfinished, Ended
<1>4. ASSUME NEW b \in Teammates, RestoreBot(b) PROVE WorksInv'
  BY DelegationAssumption, <1>4 DEF RestoreBot,
     DelegationTypeOK, WorksInv, AbsentInv, SentInv, BackInv, CouriersInv,
     KnowsInv,
     rowsOfWork, chats, couriers, bots, Couriers, Unfinished, Ended
<1>5. CASE ArchiveBot
  BY DelegationAssumption, <1>5 DEF ArchiveBot, CancelAll, NotArchiving,
     DelegationTypeOK, WorksInv, AbsentInv, SentInv, BackInv, CouriersInv,
     KnowsInv,
     rowsOfWork, chats, couriers, bots, Couriers, Unfinished, Ended
<1>6. ASSUME NEW w \in WorkIds, BeginWork(w) PROVE WorksInv'
  BY DelegationAssumption, <1>6 DEF BeginWork,
     DelegationTypeOK, WorksInv, AbsentInv, SentInv, BackInv, CouriersInv,
     KnowsInv,
     rowsOfWork, chats, couriers, bots, Couriers, Unfinished, Ended
<1>7. ASSUME NEW w \in WorkIds, StopWork(w) PROVE WorksInv'
  BY DelegationAssumption, <1>7 DEF StopWork, Meddle,
     DelegationTypeOK, WorksInv, AbsentInv, SentInv, BackInv, CouriersInv,
     KnowsInv,
     rowsOfWork, chats, couriers, bots, Couriers, Unfinished, Ended
<1>8. ASSUME NEW w \in WorkIds, NEW b \in Teammates, NEW what \in Said,
              MessageBot(w, b, what)
      PROVE WorksInv'
  <2>1. /\ work[w] = "running" /\ hop[w] + 1 <= MaxHops
        /\ UNCHANGED <<auto, reported, returning, about, sourced>>
    BY <1>8, MessageEffect
  <2>2. PICK v \in WorkIds :
          /\ NewRow(v, w) /\ v # w
          /\ doer'[v] = b /\ asker'[v] = doer[w] /\ intent'[v] = what
          /\ hop'[v] = hop[w] + 1
          /\ inbox' = inbox \cup {v} /\ echo' = echo \cup {v}
    BY <1>8, MessageEffect
  <2>5. AbsentInv'
    BY <2>1, <2>2, Basics DEF WorksInv, AbsentInv, Unfinished, Ended, NewRow,
       SameRow
  <2>6. SentInv'
    BY <2>1, <2>2, Basics DEF WorksInv, AbsentInv, SentInv, NewRow, SameRow
  <2>7. BackInv'
    BY <2>1, <2>2, Basics DEF WorksInv, AbsentInv, BackInv, Unfinished, Ended,
       NewRow, SameRow
  <2> QED
    BY <2>5, <2>6, <2>7 DEF WorksInv
<1>9. ASSUME NEW c \in Sweepers, NEW w \in WorkIds, TakeOutcome(c, w)
      PROVE WorksInv'
  BY DelegationAssumption, <1>9 DEF TakeOutcome,
     DelegationTypeOK, WorksInv, AbsentInv, SentInv, BackInv, CouriersInv,
     KnowsInv,
     rowsOfWork, chats, couriers, bots, Couriers, Unfinished, Ended
<1>10. ASSUME NEW c \in Reporters, NEW w \in WorkIds, NEW outcome \in Ended,
              FinalizeWork(c, w, outcome)
      PROVE WorksInv'
  BY DelegationAssumption, <1>10 DEF FinalizeWork,
     DelegationTypeOK, WorksInv, AbsentInv, SentInv, BackInv, CouriersInv,
     KnowsInv,
     rowsOfWork, chats, couriers, bots, Couriers, Unfinished, Ended
<1>11. ASSUME NEW c \in Couriers, ReadSource(c) PROVE WorksInv'
  BY DelegationAssumption, <1>11 DEF ReadSource, Step,
     DelegationTypeOK, WorksInv, AbsentInv, SentInv, BackInv, CouriersInv,
     KnowsInv,
     rowsOfWork, chats, couriers, bots, Couriers, Unfinished, Ended
<1>12. ASSUME NEW c \in Couriers, ReadSent(c) PROVE WorksInv'
  BY DelegationAssumption, <1>12 DEF ReadSent, Step,
     DelegationTypeOK, WorksInv, AbsentInv, SentInv, BackInv, CouriersInv,
     KnowsInv,
     rowsOfWork, chats, couriers, bots, Couriers, Unfinished, Ended
<1>13. ASSUME NEW c \in Couriers, Address(c) PROVE WorksInv'
  <2>1. UNCHANGED <<rowsOfWork, work, chats, reported>>
    BY <1>13 DEF Address, Step
  <2> QED
    BY <2>1 DEF WorksInv, AbsentInv, SentInv, BackInv, rowsOfWork, chats
<1>14. ASSUME NEW c \in Couriers, DeliverOutcome(c) PROVE WorksInv'
  <2>1. CASE Reports(about[c]) \cap inbox # {} /\ Step(c, "mark")
               /\ UNCHANGED <<work, chats, reported, sourced>>
    BY <2>1 DEF Step, WorksInv, AbsentInv, SentInv, BackInv, rowsOfWork, chats
  <2>2. CASE GoesIdle(c) /\ UNCHANGED <<work, rowsOfWork, chats, reported,
         bots, meddling>>
    BY <2>2 DEF WorksInv, AbsentInv, SentInv, BackInv, rowsOfWork, chats
  <2>3. CASE Reports(about[c]) \cap inbox = {} /\ SendOutcome(c, about[c])
    <3> DEFINE r == about[c]
    <3>1. returning[c] = "deliver"
      BY <1>14 DEF DeliverOutcome
    <3>2. /\ r \in WorkIds /\ work[r] \in Ended /\ intent[r] = "request"
          /\ returning' = [returning EXCEPT ![c] = "mark"]
          /\ UNCHANGED <<reported, about, sourced>>
      BY <2>3, <3>1, SendEffect
    <3>3. PICK v \in WorkIds : Report(c, v)
      BY <2>3, <3>1, SendEffect
    <3>5. AbsentInv'
      BY <3>2, <3>3, Basics DEF WorksInv, AbsentInv, Unfinished, Ended,
         Report, NewRow, SameRow
    <3>6. SentInv'
      BY <3>2, <3>3, Basics DEF WorksInv, AbsentInv, SentInv, Report, NewRow,
         SameRow
    <3>7. BackInv'
      BY <3>2, <3>3, Basics DEF WorksInv, AbsentInv, BackInv, Unfinished,
         Ended, Report, NewRow, SameRow
    <3> QED
      BY <3>5, <3>6, <3>7 DEF WorksInv
  <2> QED
    BY <1>14, <2>1, <2>2, <2>3 DEF DeliverOutcome
<1>15. ASSUME NEW c \in Couriers, MarkReturned(c) PROVE WorksInv'
  BY DelegationAssumption, <1>15 DEF MarkReturned, GoesIdle,
     DelegationTypeOK, WorksInv, AbsentInv, SentInv, BackInv, CouriersInv,
     KnowsInv,
     rowsOfWork, chats, couriers, bots, Couriers, Unfinished, Ended
<1>16. ASSUME NEW c \in Couriers, CourierDies(c) PROVE WorksInv'
  BY DelegationAssumption, <1>16 DEF CourierDies, GoesIdle, Meddle,
     DelegationTypeOK, WorksInv, AbsentInv, SentInv, BackInv, CouriersInv,
     KnowsInv,
     rowsOfWork, chats, couriers, bots, Couriers, Unfinished, Ended
<1>17. CASE UNCHANGED delegationVars
  BY <1>17 DEF delegationVars, DelegationTypeOK, WorksInv, AbsentInv, SentInv,
     BackInv, CouriersInv, KnowsInv,
     rowsOfWork, chats, couriers, bots, Couriers, Unfinished, Ended
<1> QED
  BY <1>1, <1>2, <1>3, <1>4, <1>5, <1>6, <1>7, <1>8, <1>9, <1>10, <1>11, <1>12,
     <1>13, <1>14, <1>15, <1>16, <1>17 DEF DelegationNext, Returns, Couriers

LEMMA ChatsStep ==
  ASSUME DelegationTypeOK, WorksInv, ChatsInv, CouriersInv,
         [DelegationNext]_delegationVars
  PROVE  ChatsInv'
<1>1. ASSUME NEW b \in Leads, AskByPerson(b) PROVE ChatsInv'
  <2>1. PICK v \in WorkIds : AddWork(v, b, Person, "request", 0, 0)
    BY <1>1 DEF AskByPerson
  <2>2. /\ NewRow(v, 0) /\ intent'[v] = "request" /\ hop'[v] = 0
        /\ doer'[v] = b /\ asker'[v] = Person
    BY <2>1, AddWorkEffect
  <2>3. UNCHANGED <<auto, inbox, echo, reported, returning, about, sourced>>
    BY <1>1 DEF AskByPerson, chats, couriers
  <2> QED
    BY <2>2, <2>3, Basics DEF NewRow, SameRow, WorksInv, AbsentInv, ChatsInv
<1>2. ASSUME NEW b \in Teammates, ClearChat(b) PROVE ChatsInv'
  BY DelegationAssumption, <1>2 DEF ClearChat, CancelAll, ActiveOf, Meddle,
     DelegationTypeOK, WorksInv, AbsentInv, SentInv, BackInv, ChatsInv,
     rowsOfWork, chats, couriers, bots, Couriers, Unfinished, Ended
<1>3. ASSUME NEW b \in Teammates, ReadForArchive(b) PROVE ChatsInv'
  BY DelegationAssumption, <1>3 DEF ReadForArchive, ActiveOf, Meddle,
     DelegationTypeOK, WorksInv, AbsentInv, SentInv, BackInv, ChatsInv,
     rowsOfWork, chats, couriers, bots, Couriers, Unfinished, Ended
<1>4. ASSUME NEW b \in Teammates, RestoreBot(b) PROVE ChatsInv'
  BY DelegationAssumption, <1>4 DEF RestoreBot,
     DelegationTypeOK, WorksInv, AbsentInv, SentInv, BackInv, ChatsInv,
     rowsOfWork, chats, couriers, bots, Couriers, Unfinished, Ended
<1>5. CASE ArchiveBot
  BY DelegationAssumption, <1>5 DEF ArchiveBot, CancelAll, NotArchiving,
     DelegationTypeOK, WorksInv, AbsentInv, SentInv, BackInv, ChatsInv,
     rowsOfWork, chats, couriers, bots, Couriers, Unfinished, Ended
<1>6. ASSUME NEW w \in WorkIds, BeginWork(w) PROVE ChatsInv'
  BY DelegationAssumption, <1>6 DEF BeginWork,
     DelegationTypeOK, WorksInv, AbsentInv, SentInv, BackInv, ChatsInv,
     rowsOfWork, chats, couriers, bots, Couriers, Unfinished, Ended
<1>7. ASSUME NEW w \in WorkIds, StopWork(w) PROVE ChatsInv'
  BY DelegationAssumption, <1>7 DEF StopWork, Meddle,
     DelegationTypeOK, WorksInv, AbsentInv, SentInv, BackInv, ChatsInv,
     rowsOfWork, chats, couriers, bots, Couriers, Unfinished, Ended
<1>8. ASSUME NEW w \in WorkIds, NEW b \in Teammates, NEW what \in Said,
              MessageBot(w, b, what)
      PROVE ChatsInv'
  <2>1. /\ work[w] = "running" /\ hop[w] + 1 <= MaxHops
        /\ UNCHANGED <<auto, reported, returning, about, sourced>>
    BY <1>8, MessageEffect
  <2>2. PICK v \in WorkIds :
          /\ NewRow(v, w) /\ v # w
          /\ doer'[v] = b /\ asker'[v] = doer[w] /\ intent'[v] = what
          /\ hop'[v] = hop[w] + 1
          /\ inbox' = inbox \cup {v} /\ echo' = echo \cup {v}
    BY <1>8, MessageEffect
  <2> QED
    BY <2>1, <2>2, Basics DEF NewRow, SameRow, WorksInv, AbsentInv, ChatsInv
<1>9. ASSUME NEW c \in Sweepers, NEW w \in WorkIds, TakeOutcome(c, w)
      PROVE ChatsInv'
  BY DelegationAssumption, <1>9 DEF TakeOutcome,
     DelegationTypeOK, WorksInv, AbsentInv, SentInv, BackInv, ChatsInv,
     rowsOfWork, chats, couriers, bots, Couriers, Unfinished, Ended
<1>10. ASSUME NEW c \in Reporters, NEW w \in WorkIds, NEW outcome \in Ended,
              FinalizeWork(c, w, outcome)
      PROVE ChatsInv'
  BY DelegationAssumption, <1>10 DEF FinalizeWork,
     DelegationTypeOK, WorksInv, AbsentInv, SentInv, BackInv, ChatsInv,
     rowsOfWork, chats, couriers, bots, Couriers, Unfinished, Ended
<1>11. ASSUME NEW c \in Couriers, ReadSource(c) PROVE ChatsInv'
  BY DelegationAssumption, <1>11 DEF ReadSource, Step,
     DelegationTypeOK, WorksInv, AbsentInv, SentInv, BackInv, ChatsInv,
     rowsOfWork, chats, couriers, bots, Couriers, Unfinished, Ended
<1>12. ASSUME NEW c \in Couriers, ReadSent(c) PROVE ChatsInv'
  BY DelegationAssumption, <1>12 DEF ReadSent, Step,
     DelegationTypeOK, WorksInv, AbsentInv, SentInv, BackInv, ChatsInv,
     rowsOfWork, chats, couriers, bots, Couriers, Unfinished, Ended
<1>13. ASSUME NEW c \in Couriers, Address(c) PROVE ChatsInv'
  BY DelegationAssumption, <1>13 DEF Address, Step, GoesIdle,
     DelegationTypeOK, WorksInv, AbsentInv, SentInv, BackInv, ChatsInv,
     rowsOfWork, chats, couriers, bots, Couriers, Unfinished, Ended
<1>14. ASSUME NEW c \in Couriers, DeliverOutcome(c) PROVE ChatsInv'
  <2>1. CASE Reports(about[c]) \cap inbox # {} /\ Step(c, "mark")
               /\ UNCHANGED <<work, chats, reported, sourced>>
    BY <2>1 DEF Step, ChatsInv, rowsOfWork, chats
  <2>2. CASE GoesIdle(c) /\ UNCHANGED <<work, rowsOfWork, chats, reported,
         bots, meddling>>
    BY <2>2 DEF ChatsInv, rowsOfWork, chats
  <2>3. CASE Reports(about[c]) \cap inbox = {} /\ SendOutcome(c, about[c])
    <3> DEFINE r == about[c]
    <3>1. returning[c] = "deliver"
      BY <1>14 DEF DeliverOutcome
    <3>2. /\ r \in WorkIds /\ work[r] \in Ended /\ intent[r] = "request"
          /\ returning' = [returning EXCEPT ![c] = "mark"]
          /\ UNCHANGED <<reported, about, sourced>>
      BY <2>3, <3>1, SendEffect
    <3>3. PICK v \in WorkIds : Report(c, v)
      BY <2>3, <3>1, SendEffect
    <3>4. \A u \in auto : u \in inbox => cause[u] # r
      BY <2>3 DEF Reports
    <3> QED
      BY <3>2, <3>3, <3>4, Basics
      DEF Report, NewRow, SameRow, WorksInv, AbsentInv, ChatsInv
  <2> QED
    BY <1>14, <2>1, <2>2, <2>3 DEF DeliverOutcome
<1>15. ASSUME NEW c \in Couriers, MarkReturned(c) PROVE ChatsInv'
  BY DelegationAssumption, <1>15 DEF MarkReturned, GoesIdle,
     DelegationTypeOK, WorksInv, AbsentInv, SentInv, BackInv, ChatsInv,
     rowsOfWork, chats, couriers, bots, Couriers, Unfinished, Ended
<1>16. ASSUME NEW c \in Couriers, CourierDies(c) PROVE ChatsInv'
  BY DelegationAssumption, <1>16 DEF CourierDies, GoesIdle, Meddle,
     DelegationTypeOK, WorksInv, AbsentInv, SentInv, BackInv, ChatsInv,
     rowsOfWork, chats, couriers, bots, Couriers, Unfinished, Ended
<1>17. CASE UNCHANGED delegationVars
  BY <1>17 DEF delegationVars, DelegationTypeOK, WorksInv, AbsentInv, SentInv,
     BackInv, ChatsInv,
     rowsOfWork, chats, couriers, bots, Couriers, Unfinished, Ended
<1> QED
  BY <1>1, <1>2, <1>3, <1>4, <1>5, <1>6, <1>7, <1>8, <1>9, <1>10, <1>11, <1>12,
     <1>13, <1>14, <1>15, <1>16, <1>17 DEF DelegationNext, Returns, Couriers

LEMMA CouriersStep ==
  ASSUME DelegationTypeOK, WorksInv, ChatsInv, CouriersInv,
         [DelegationNext]_delegationVars
  PROVE  CouriersInv'
<1>1. ASSUME NEW b \in Leads, AskByPerson(b) PROVE CouriersInv'
  BY DelegationAssumption, <1>1 DEF AskByPerson, AddWork,
     DelegationTypeOK, WorksInv, AbsentInv, SentInv, BackInv, CouriersInv,
     KnowsInv,
     OnlyReports, Answers, rowsOfWork, chats, couriers, bots, Couriers,
     Unfinished, Ended
<1>2. ASSUME NEW b \in Teammates, ClearChat(b) PROVE CouriersInv'
  BY DelegationAssumption, <1>2 DEF ClearChat, CancelAll, ActiveOf, Meddle,
     DelegationTypeOK, WorksInv, AbsentInv, SentInv, BackInv, CouriersInv,
     KnowsInv,
     OnlyReports, Answers, rowsOfWork, chats, couriers, bots, Couriers,
     Unfinished, Ended
<1>3. ASSUME NEW b \in Teammates, ReadForArchive(b) PROVE CouriersInv'
  BY DelegationAssumption, <1>3 DEF ReadForArchive, ActiveOf, Meddle,
     DelegationTypeOK, WorksInv, AbsentInv, SentInv, BackInv, CouriersInv,
     KnowsInv,
     OnlyReports, Answers, rowsOfWork, chats, couriers, bots, Couriers,
     Unfinished, Ended
<1>4. ASSUME NEW b \in Teammates, RestoreBot(b) PROVE CouriersInv'
  BY DelegationAssumption, <1>4 DEF RestoreBot,
     DelegationTypeOK, WorksInv, AbsentInv, SentInv, BackInv, CouriersInv,
     KnowsInv,
     OnlyReports, Answers, rowsOfWork, chats, couriers, bots, Couriers,
     Unfinished, Ended
<1>5. CASE ArchiveBot
  BY DelegationAssumption, <1>5 DEF ArchiveBot, CancelAll, NotArchiving,
     DelegationTypeOK, WorksInv, AbsentInv, SentInv, BackInv, CouriersInv,
     KnowsInv,
     OnlyReports, Answers, rowsOfWork, chats, couriers, bots, Couriers,
     Unfinished, Ended
<1>6. ASSUME NEW w \in WorkIds, BeginWork(w) PROVE CouriersInv'
  BY DelegationAssumption, <1>6 DEF BeginWork,
     DelegationTypeOK, WorksInv, AbsentInv, SentInv, BackInv, CouriersInv,
     KnowsInv,
     OnlyReports, Answers, rowsOfWork, chats, couriers, bots, Couriers,
     Unfinished, Ended
<1>7. ASSUME NEW w \in WorkIds, StopWork(w) PROVE CouriersInv'
  BY DelegationAssumption, <1>7 DEF StopWork, Meddle,
     DelegationTypeOK, WorksInv, AbsentInv, SentInv, BackInv, CouriersInv,
     KnowsInv,
     OnlyReports, Answers, rowsOfWork, chats, couriers, bots, Couriers,
     Unfinished, Ended
<1>8. ASSUME NEW w \in WorkIds, NEW b \in Teammates, NEW what \in Said,
              MessageBot(w, b, what)
      PROVE CouriersInv'
  BY DelegationAssumption, <1>8 DEF MessageBot, Deliver, AddWork,
     DelegationTypeOK, WorksInv, AbsentInv, SentInv, BackInv, CouriersInv,
     KnowsInv,
     OnlyReports, Answers, rowsOfWork, chats, couriers, bots, Couriers,
     Unfinished, Ended
<1>9. ASSUME NEW c \in Sweepers, NEW w \in WorkIds, TakeOutcome(c, w)
      PROVE CouriersInv'
  BY DelegationAssumption, <1>9 DEF TakeOutcome,
     DelegationTypeOK, WorksInv, AbsentInv, SentInv, BackInv, CouriersInv,
     KnowsInv,
     OnlyReports, Answers, rowsOfWork, chats, couriers, bots, Couriers,
     Unfinished, Ended
<1>10. ASSUME NEW c \in Reporters, NEW w \in WorkIds, NEW outcome \in Ended,
              FinalizeWork(c, w, outcome)
      PROVE CouriersInv'
  BY DelegationAssumption, <1>10 DEF FinalizeWork,
     DelegationTypeOK, WorksInv, AbsentInv, SentInv, BackInv, CouriersInv,
     KnowsInv,
     OnlyReports, Answers, rowsOfWork, chats, couriers, bots, Couriers,
     Unfinished, Ended
<1>11. ASSUME NEW c \in Couriers, ReadSource(c) PROVE CouriersInv'
  <2>1. /\ returning[c] = "source" /\ UNCHANGED <<rowsOfWork, work, chats,
           reported, sourced, about>>
        /\ returning'[c] = (IF about[c] \in inbox /\ intent[about[c]] = "request"
                            THEN "sent" ELSE "mark")
        /\ \A d \in Couriers : d # c => returning'[d] = returning[d]
    BY <1>11 DEF ReadSource, Step, Expected, DelegationTypeOK
  <2>2. /\ \A u : OnlyReports(u)' <=> OnlyReports(u)
        /\ \A u : Answers(u)' = Answers(u)
    BY <2>1 DEF OnlyReports, Answers, rowsOfWork
  <2> QED
    BY <2>1, <2>2 DEF CouriersInv, KnowsInv, rowsOfWork, chats
<1>12. ASSUME NEW c \in Couriers, ReadSent(c) PROVE CouriersInv'
  <2> DEFINE r == about[c]
  <2>1. /\ returning[c] = "sent" /\ UNCHANGED <<rowsOfWork, work, chats,
           reported, sourced, about>>
        /\ returning'[c] = (IF ResultsSent(r) # {} THEN "mark" ELSE "address")
        /\ \A d \in Couriers : d # c => returning'[d] = returning[d]
    BY <1>12 DEF ReadSent, Step, DelegationTypeOK
  <2>2. r \in WorkIds /\ r # 0
    BY <2>1, Basics
  <2>3. ResultsSent(r) # {} => Answers(r) # {}
    BY Basics DEF ResultsSent, Answers, WorksInv, AbsentInv
  <2>4. ResultsSent(r) = {} /\ r \in inbox => OnlyReports(r)
    BY <2>2 DEF ResultsSent, OnlyReports, ChatsInv
  <2>5. /\ \A u : OnlyReports(u)' <=> OnlyReports(u)
        /\ \A u : Answers(u)' = Answers(u)
    BY <2>1 DEF OnlyReports, Answers, rowsOfWork
  <2> QED
    BY <2>1, <2>2, <2>3, <2>4, <2>5 DEF CouriersInv, KnowsInv, rowsOfWork,
       chats
<1>13. ASSUME NEW c \in Couriers, Address(c) PROVE CouriersInv'
  <2>1. /\ returning[c] = "address"
        /\ UNCHANGED <<rowsOfWork, work, chats, reported>>
    BY <1>13 DEF Address, Step
  <2>2. /\ \A u : OnlyReports(u)' <=> OnlyReports(u)
        /\ \A u : Answers(u)' = Answers(u)
    BY <2>1 DEF OnlyReports, Answers, rowsOfWork
  <2>3. CASE GoesIdle(c) /\ UNCHANGED <<rowsOfWork, bots, meddling>>
    BY <2>1, <2>2, <2>3, IdleEffect DEF CouriersInv, KnowsInv, rowsOfWork,
       chats
  <2>4. CASE Step(c, "deliver")
               /\ sourced' = [sourced EXCEPT ![c] = about[c] \in inbox]
    <3>1. /\ returning'[c] = "deliver" /\ sourced'[c] = (about[c] \in inbox)
          /\ UNCHANGED about
          /\ \A d \in Couriers : d # c =>
               returning'[d] = returning[d] /\ sourced'[d] = sourced[d]
      BY <2>4 DEF Step, DelegationTypeOK
    <3> QED
      BY <2>1, <2>2, <3>1 DEF CouriersInv, KnowsInv, rowsOfWork, chats
  <2> QED
    BY <1>13, <2>3, <2>4 DEF Address
<1>14. ASSUME NEW c \in Couriers, DeliverOutcome(c) PROVE CouriersInv'
  <2>1. CASE Reports(about[c]) \cap inbox # {} /\ Step(c, "mark")
               /\ UNCHANGED <<work, chats, reported, sourced>>
    <3>1. /\ returning[c] = "deliver" /\ UNCHANGED <<rowsOfWork, work, chats,
             reported, about, sourced>>
          /\ returning'[c] = "mark"
          /\ \A d \in Couriers : d # c => returning'[d] = returning[d]
      BY <1>14, <2>1 DEF DeliverOutcome, Step, DelegationTypeOK
    <3>2. PICK x \in inbox : x \in auto /\ cause[x] = about[c]
      BY <2>1 DEF Reports
    <3>3. x \in Answers(about[c])
      BY <3>1, <3>2, Basics DEF Answers, WorksInv, AbsentInv, BackInv
    <3>4. /\ \A u : OnlyReports(u)' <=> OnlyReports(u)
          /\ \A u : Answers(u)' = Answers(u)
      BY <3>1 DEF OnlyReports, Answers, rowsOfWork
    <3> QED
      BY <3>1, <3>3, <3>4 DEF CouriersInv, KnowsInv, rowsOfWork, chats
  <2>2. CASE GoesIdle(c) /\ UNCHANGED <<work, rowsOfWork, chats, reported,
         bots, meddling>>
    <3>1. /\ \A u : OnlyReports(u)' <=> OnlyReports(u)
          /\ \A u : Answers(u)' = Answers(u)
      BY <2>2 DEF OnlyReports, Answers, rowsOfWork
    <3> QED
      BY <2>2, <3>1, IdleEffect DEF CouriersInv, KnowsInv, rowsOfWork, chats
  <2>3. CASE Reports(about[c]) \cap inbox = {} /\ SendOutcome(c, about[c])
    <3> DEFINE r == about[c]
    <3>1. returning[c] = "deliver"
      BY <1>14 DEF DeliverOutcome
    <3>2. /\ r \in WorkIds /\ work[r] \in Ended /\ intent[r] = "request"
          /\ returning' = [returning EXCEPT ![c] = "mark"]
          /\ UNCHANGED <<reported, about, sourced>>
      BY <2>3, <3>1, SendEffect
    <3>3. PICK v \in WorkIds : Report(c, v)
      BY <2>3, <3>1, SendEffect
    <3>4. \A d \in Couriers : returning'[d] = IF d = c THEN "mark" ELSE returning[d]
      BY <3>2 DEF DelegationTypeOK
    <3>5. Answers(r)' # {}
      <4>1. v \in Answers(r)'
        BY <3>2, <3>3 DEF Report, NewRow, SameRow, Answers
      <4> QED
        BY <4>1
    <3>6. \A u \in WorkIds : u # v /\ OnlyReports(u) => OnlyReports(u)'
      BY <3>3 DEF Report, NewRow, SameRow, OnlyReports
    <3>7. \A u \in WorkIds : u # v /\ Answers(u) # {} => Answers(u)' # {}
      BY <3>3, ReportKeepsAnswers
    <3>8. \A d \in Couriers : returning[d] # "idle" => about[d] \in WorkIds /\ about[d] # v
      BY <3>3, Basics DEF Report, NewRow, CouriersInv, KnowsInv, Ended
    <3>9. \A u \in WorkIds : u # v =>
             /\ work'[u] = work[u] /\ intent'[u] = intent[u]
             /\ u \in inbox' <=> u \in inbox
      BY <3>3 DEF Report, NewRow, SameRow
    <3> QED
      <4>1. KnowsInv(c)'
        BY <3>2, <3>3, <3>4, <3>5 DEF KnowsInv, Report, NewRow, SameRow
      <4>2. ASSUME NEW d \in Couriers, d # c, returning[d] # "idle",
             KnowsInv(d)
            PROVE  KnowsInv(d)'
        BY <3>2, <3>4, <3>6, <3>7, <3>8, <3>9, <4>2 DEF KnowsInv
      <4> QED
        BY <3>4, <4>1, <4>2 DEF CouriersInv
  <2> QED
    BY <1>14, <2>1, <2>2, <2>3 DEF DeliverOutcome
<1>15. ASSUME NEW c \in Couriers, MarkReturned(c) PROVE CouriersInv'
  BY DelegationAssumption, <1>15 DEF MarkReturned, GoesIdle,
     DelegationTypeOK, WorksInv, AbsentInv, SentInv, BackInv, CouriersInv,
     KnowsInv,
     OnlyReports, Answers, rowsOfWork, chats, couriers, bots, Couriers,
     Unfinished, Ended
<1>16. ASSUME NEW c \in Couriers, CourierDies(c) PROVE CouriersInv'
  BY DelegationAssumption, <1>16 DEF CourierDies, GoesIdle, Meddle,
     DelegationTypeOK, WorksInv, AbsentInv, SentInv, BackInv, CouriersInv,
     KnowsInv,
     OnlyReports, Answers, rowsOfWork, chats, couriers, bots, Couriers,
     Unfinished, Ended
<1>17. CASE UNCHANGED delegationVars
  BY <1>17 DEF delegationVars, DelegationTypeOK, WorksInv, AbsentInv, SentInv,
     BackInv, CouriersInv, KnowsInv,
     OnlyReports, Answers, rowsOfWork, chats, couriers, bots, Couriers,
     Unfinished, Ended
<1> QED
  BY <1>1, <1>2, <1>3, <1>4, <1>5, <1>6, <1>7, <1>8, <1>9, <1>10, <1>11, <1>12,
     <1>13, <1>14, <1>15, <1>16, <1>17 DEF DelegationNext, Returns, Couriers

LEMMA ReportsStep ==
  ASSUME DelegationTypeOK, WorksInv, ChatsInv, CouriersInv, ReportsInv,
         [DelegationNext]_delegationVars
  PROVE  ReportsInv'
<1>1. ASSUME NEW b \in Leads, AskByPerson(b) PROVE ReportsInv'
  BY DelegationAssumption, <1>1 DEF AskByPerson, AddWork,
     DelegationTypeOK, WorksInv, AbsentInv, SentInv, BackInv, CouriersInv,
     KnowsInv,
     ReportsInv, OnlyReports, Answers, rowsOfWork, chats, couriers, bots,
     Couriers, Unfinished, Ended
<1>2. ASSUME NEW b \in Teammates, ClearChat(b) PROVE ReportsInv'
  BY DelegationAssumption, <1>2 DEF ClearChat, CancelAll, ActiveOf, Meddle,
     DelegationTypeOK, WorksInv, AbsentInv, SentInv, BackInv, CouriersInv,
     KnowsInv,
     ReportsInv, OnlyReports, Answers, rowsOfWork, chats, couriers, bots,
     Couriers, Unfinished, Ended
<1>3. ASSUME NEW b \in Teammates, ReadForArchive(b) PROVE ReportsInv'
  BY DelegationAssumption, <1>3 DEF ReadForArchive, ActiveOf, Meddle,
     DelegationTypeOK, WorksInv, AbsentInv, SentInv, BackInv, CouriersInv,
     KnowsInv,
     ReportsInv, OnlyReports, Answers, rowsOfWork, chats, couriers, bots,
     Couriers, Unfinished, Ended
<1>4. ASSUME NEW b \in Teammates, RestoreBot(b) PROVE ReportsInv'
  BY DelegationAssumption, <1>4 DEF RestoreBot,
     DelegationTypeOK, WorksInv, AbsentInv, SentInv, BackInv, CouriersInv,
     KnowsInv,
     ReportsInv, OnlyReports, Answers, rowsOfWork, chats, couriers, bots,
     Couriers, Unfinished, Ended
<1>5. CASE ArchiveBot
  BY DelegationAssumption, <1>5 DEF ArchiveBot, CancelAll, NotArchiving,
     DelegationTypeOK, WorksInv, AbsentInv, SentInv, BackInv, CouriersInv,
     KnowsInv,
     ReportsInv, OnlyReports, Answers, rowsOfWork, chats, couriers, bots,
     Couriers, Unfinished, Ended
<1>6. ASSUME NEW w \in WorkIds, BeginWork(w) PROVE ReportsInv'
  BY DelegationAssumption, <1>6 DEF BeginWork,
     DelegationTypeOK, WorksInv, AbsentInv, SentInv, BackInv, CouriersInv,
     KnowsInv,
     ReportsInv, OnlyReports, Answers, rowsOfWork, chats, couriers, bots,
     Couriers, Unfinished, Ended
<1>7. ASSUME NEW w \in WorkIds, StopWork(w) PROVE ReportsInv'
  BY DelegationAssumption, <1>7 DEF StopWork, Meddle,
     DelegationTypeOK, WorksInv, AbsentInv, SentInv, BackInv, CouriersInv,
     KnowsInv,
     ReportsInv, OnlyReports, Answers, rowsOfWork, chats, couriers, bots,
     Couriers, Unfinished, Ended
<1>8. ASSUME NEW w \in WorkIds, NEW b \in Teammates, NEW what \in Said,
              MessageBot(w, b, what)
      PROVE ReportsInv'
  BY DelegationAssumption, <1>8 DEF MessageBot, Deliver, AddWork,
     DelegationTypeOK, WorksInv, AbsentInv, SentInv, BackInv, CouriersInv,
     KnowsInv,
     ReportsInv, OnlyReports, Answers, rowsOfWork, chats, couriers, bots,
     Couriers, Unfinished, Ended
<1>9. ASSUME NEW c \in Sweepers, NEW w \in WorkIds, TakeOutcome(c, w)
      PROVE ReportsInv'
  BY DelegationAssumption, <1>9 DEF TakeOutcome,
     DelegationTypeOK, WorksInv, AbsentInv, SentInv, BackInv, CouriersInv,
     KnowsInv,
     ReportsInv, OnlyReports, Answers, rowsOfWork, chats, couriers, bots,
     Couriers, Unfinished, Ended
<1>10. ASSUME NEW c \in Reporters, NEW w \in WorkIds, NEW outcome \in Ended,
              FinalizeWork(c, w, outcome)
      PROVE ReportsInv'
  BY DelegationAssumption, <1>10 DEF FinalizeWork,
     DelegationTypeOK, WorksInv, AbsentInv, SentInv, BackInv, CouriersInv,
     KnowsInv,
     ReportsInv, OnlyReports, Answers, rowsOfWork, chats, couriers, bots,
     Couriers, Unfinished, Ended
<1>11. ASSUME NEW c \in Couriers, ReadSource(c) PROVE ReportsInv'
  BY DelegationAssumption, <1>11 DEF ReadSource, Step,
     DelegationTypeOK, WorksInv, AbsentInv, SentInv, BackInv, CouriersInv,
     KnowsInv,
     ReportsInv, OnlyReports, Answers, rowsOfWork, chats, couriers, bots,
     Couriers, Unfinished, Ended
<1>12. ASSUME NEW c \in Couriers, ReadSent(c) PROVE ReportsInv'
  BY DelegationAssumption, <1>12 DEF ReadSent, Step,
     DelegationTypeOK, WorksInv, AbsentInv, SentInv, BackInv, CouriersInv,
     KnowsInv,
     ReportsInv, OnlyReports, Answers, rowsOfWork, chats, couriers, bots,
     Couriers, Unfinished, Ended
<1>13. ASSUME NEW c \in Couriers, Address(c) PROVE ReportsInv'
  <2>1. UNCHANGED <<rowsOfWork, work, chats, reported>>
    BY <1>13 DEF Address, Step
  <2> QED
    BY <2>1 DEF ReportsInv, OnlyReports, Answers, rowsOfWork, chats
<1>14. ASSUME NEW c \in Couriers, DeliverOutcome(c) PROVE ReportsInv'
  <2>1. CASE Reports(about[c]) \cap inbox # {} /\ Step(c, "mark")
               /\ UNCHANGED <<work, chats, reported, sourced>>
    BY <2>1 DEF Step, ReportsInv, OnlyReports, Answers, rowsOfWork, chats
  <2>2. CASE GoesIdle(c) /\ UNCHANGED <<work, rowsOfWork, chats, reported,
         bots, meddling>>
    BY <2>2 DEF ReportsInv, OnlyReports, Answers, rowsOfWork, chats
  <2>3. CASE Reports(about[c]) \cap inbox = {} /\ SendOutcome(c, about[c])
    <3> DEFINE r == about[c]
    <3>1. returning[c] = "deliver"
      BY <1>14 DEF DeliverOutcome
    <3>2. /\ r \in WorkIds /\ work[r] \in Ended /\ intent[r] = "request"
          /\ returning' = [returning EXCEPT ![c] = "mark"]
          /\ UNCHANGED <<reported, about, sourced>>
      BY <2>3, <3>1, SendEffect
    <3>3. PICK v \in WorkIds : Report(c, v)
      BY <2>3, <3>1, SendEffect
    <3>4. r \in inbox => OnlyReports(r)
      BY <3>1 DEF CouriersInv, KnowsInv
    <3>5. r \in inbox => \A u \in auto : cause[u] # r
      <4> SUFFICES ASSUME r \in inbox, NEW u \in auto, cause[u] = r PROVE FALSE
        OBVIOUS
      <4>1. r \in echo
        BY <3>1, <3>3 DEF Report, CouriersInv, KnowsInv
      <4>2. u \in inbox
        BY <4>1, <3>2, Basics DEF ChatsInv
      <4> QED
        BY <2>3, <4>2 DEF Reports
    <3>6. \A u \in WorkIds : u # v /\ OnlyReports(u) => OnlyReports(u)'
      BY <3>3 DEF Report, NewRow, SameRow, OnlyReports
    <3>7. \A u \in WorkIds : u # v /\ Answers(u) # {} => Answers(u)' # {}
      BY <3>3, ReportKeepsAnswers
    <3>8. /\ v \notin auto /\ v \notin inbox /\ intent'[v] # "request"
          /\ cause'[v] = r /\ auto' = auto \cup {v} /\ inbox' = inbox \cup {v}
      BY <3>3 DEF Report, NewRow, WorksInv, AbsentInv
    <3>9. \A u \in WorkIds : u # v => intent'[u] = intent[u] /\ cause'[u] = cause[u]
      BY <3>3 DEF Report, NewRow, SameRow
    <3> QED
      BY <3>2, <3>4, <3>5, <3>6, <3>7, <3>8, <3>9, Basics DEF ReportsInv
  <2> QED
    BY <1>14, <2>1, <2>2, <2>3 DEF DeliverOutcome
<1>15. ASSUME NEW c \in Couriers, MarkReturned(c) PROVE ReportsInv'
  BY DelegationAssumption, <1>15 DEF MarkReturned, GoesIdle,
     DelegationTypeOK, WorksInv, AbsentInv, SentInv, BackInv, CouriersInv,
     KnowsInv,
     ReportsInv, OnlyReports, Answers, rowsOfWork, chats, couriers, bots,
     Couriers, Unfinished, Ended
<1>16. ASSUME NEW c \in Couriers, CourierDies(c) PROVE ReportsInv'
  BY DelegationAssumption, <1>16 DEF CourierDies, GoesIdle, Meddle,
     DelegationTypeOK, WorksInv, AbsentInv, SentInv, BackInv, CouriersInv,
     KnowsInv,
     ReportsInv, OnlyReports, Answers, rowsOfWork, chats, couriers, bots,
     Couriers, Unfinished, Ended
<1>17. CASE UNCHANGED delegationVars
  BY <1>17 DEF delegationVars, DelegationTypeOK, WorksInv, AbsentInv, SentInv,
     BackInv, CouriersInv, KnowsInv,
     ReportsInv, OnlyReports, Answers, rowsOfWork, chats, couriers, bots,
     Couriers, Unfinished, Ended
<1> QED
  BY <1>1, <1>2, <1>3, <1>4, <1>5, <1>6, <1>7, <1>8, <1>9, <1>10, <1>11, <1>12,
     <1>13, <1>14, <1>15, <1>16, <1>17 DEF DelegationNext, Returns, Couriers

LEMMA ChainStep ==
  ASSUME DelegationTypeOK, WorksInv, CouriersInv, ChainEnds,
         [DelegationNext]_delegationVars
  PROVE  ChainEnds'
<1>1. ASSUME NEW b \in Leads, AskByPerson(b) PROVE ChainEnds'
  BY DelegationAssumption, <1>1 DEF AskByPerson, AddWork,
     DelegationTypeOK, WorksInv, AbsentInv, SentInv, BackInv, CouriersInv,
     KnowsInv,
     ChainEnds, rowsOfWork, chats, couriers, bots, Couriers, Unfinished, Ended
<1>2. ASSUME NEW b \in Teammates, ClearChat(b) PROVE ChainEnds'
  BY DelegationAssumption, <1>2 DEF ClearChat, CancelAll, ActiveOf, Meddle,
     DelegationTypeOK, WorksInv, AbsentInv, SentInv, BackInv, CouriersInv,
     KnowsInv,
     ChainEnds, rowsOfWork, chats, couriers, bots, Couriers, Unfinished, Ended
<1>3. ASSUME NEW b \in Teammates, ReadForArchive(b) PROVE ChainEnds'
  BY DelegationAssumption, <1>3 DEF ReadForArchive, ActiveOf, Meddle,
     DelegationTypeOK, WorksInv, AbsentInv, SentInv, BackInv, CouriersInv,
     KnowsInv,
     ChainEnds, rowsOfWork, chats, couriers, bots, Couriers, Unfinished, Ended
<1>4. ASSUME NEW b \in Teammates, RestoreBot(b) PROVE ChainEnds'
  BY DelegationAssumption, <1>4 DEF RestoreBot,
     DelegationTypeOK, WorksInv, AbsentInv, SentInv, BackInv, CouriersInv,
     KnowsInv,
     ChainEnds, rowsOfWork, chats, couriers, bots, Couriers, Unfinished, Ended
<1>5. CASE ArchiveBot
  BY DelegationAssumption, <1>5 DEF ArchiveBot, CancelAll, NotArchiving,
     DelegationTypeOK, WorksInv, AbsentInv, SentInv, BackInv, CouriersInv,
     KnowsInv,
     ChainEnds, rowsOfWork, chats, couriers, bots, Couriers, Unfinished, Ended
<1>6. ASSUME NEW w \in WorkIds, BeginWork(w) PROVE ChainEnds'
  BY DelegationAssumption, <1>6 DEF BeginWork,
     DelegationTypeOK, WorksInv, AbsentInv, SentInv, BackInv, CouriersInv,
     KnowsInv,
     ChainEnds, rowsOfWork, chats, couriers, bots, Couriers, Unfinished, Ended
<1>7. ASSUME NEW w \in WorkIds, StopWork(w) PROVE ChainEnds'
  BY DelegationAssumption, <1>7 DEF StopWork, Meddle,
     DelegationTypeOK, WorksInv, AbsentInv, SentInv, BackInv, CouriersInv,
     KnowsInv,
     ChainEnds, rowsOfWork, chats, couriers, bots, Couriers, Unfinished, Ended
<1>8. ASSUME NEW w \in WorkIds, NEW b \in Teammates, NEW what \in Said,
              MessageBot(w, b, what)
      PROVE ChainEnds'
  BY DelegationAssumption, <1>8 DEF MessageBot, Deliver, AddWork,
     DelegationTypeOK, WorksInv, AbsentInv, SentInv, BackInv, CouriersInv,
     KnowsInv,
     ChainEnds, rowsOfWork, chats, couriers, bots, Couriers, Unfinished, Ended
<1>9. ASSUME NEW c \in Sweepers, NEW w \in WorkIds, TakeOutcome(c, w)
      PROVE ChainEnds'
  BY DelegationAssumption, <1>9 DEF TakeOutcome,
     DelegationTypeOK, WorksInv, AbsentInv, SentInv, BackInv, CouriersInv,
     KnowsInv,
     ChainEnds, rowsOfWork, chats, couriers, bots, Couriers, Unfinished, Ended
<1>10. ASSUME NEW c \in Reporters, NEW w \in WorkIds, NEW outcome \in Ended,
              FinalizeWork(c, w, outcome)
      PROVE ChainEnds'
  BY DelegationAssumption, <1>10 DEF FinalizeWork,
     DelegationTypeOK, WorksInv, AbsentInv, SentInv, BackInv, CouriersInv,
     KnowsInv,
     ChainEnds, rowsOfWork, chats, couriers, bots, Couriers, Unfinished, Ended
<1>11. ASSUME NEW c \in Couriers, ReadSource(c) PROVE ChainEnds'
  BY DelegationAssumption, <1>11 DEF ReadSource, Step,
     DelegationTypeOK, WorksInv, AbsentInv, SentInv, BackInv, CouriersInv,
     KnowsInv,
     ChainEnds, rowsOfWork, chats, couriers, bots, Couriers, Unfinished, Ended
<1>12. ASSUME NEW c \in Couriers, ReadSent(c) PROVE ChainEnds'
  BY DelegationAssumption, <1>12 DEF ReadSent, Step,
     DelegationTypeOK, WorksInv, AbsentInv, SentInv, BackInv, CouriersInv,
     KnowsInv,
     ChainEnds, rowsOfWork, chats, couriers, bots, Couriers, Unfinished, Ended
<1>13. ASSUME NEW c \in Couriers, Address(c) PROVE ChainEnds'
  BY DelegationAssumption, <1>13 DEF Address, Step, GoesIdle,
     DelegationTypeOK, WorksInv, AbsentInv, SentInv, BackInv, CouriersInv,
     KnowsInv,
     ChainEnds, rowsOfWork, chats, couriers, bots, Couriers, Unfinished, Ended
<1>14. ASSUME NEW c \in Couriers, DeliverOutcome(c) PROVE ChainEnds'
  <2>1. CASE Reports(about[c]) \cap inbox # {} /\ Step(c, "mark")
               /\ UNCHANGED <<work, chats, reported, sourced>>
    BY <2>1 DEF Step, ChainEnds, rowsOfWork
  <2>2. CASE GoesIdle(c) /\ UNCHANGED <<work, rowsOfWork, chats, reported,
         bots, meddling>>
    BY <2>2 DEF ChainEnds, rowsOfWork
  <2>3. CASE Reports(about[c]) \cap inbox = {} /\ SendOutcome(c, about[c])
    <3> DEFINE r == about[c]
    <3>1. returning[c] = "deliver"
      BY <1>14 DEF DeliverOutcome
    <3>2. /\ r \in WorkIds /\ work[r] \in Ended /\ intent[r] = "request"
          /\ returning' = [returning EXCEPT ![c] = "mark"]
          /\ UNCHANGED <<reported, about, sourced>>
      BY <2>3, <3>1, SendEffect
    <3>3. PICK v \in WorkIds : Report(c, v)
      BY <2>3, <3>1, SendEffect
    <3>4. r \notin auto
      BY <3>2 DEF WorksInv, BackInv, CouriersInv, KnowsInv
    <3>5. hop[r] <= MaxHops /\ hop[r] \in Nat
      <4>1. hop[r] \in Nat
        BY <3>2 DEF DelegationTypeOK
      <4>2. hop[r] <= MaxHops + 0
        BY <3>2, <3>4 DEF ChainEnds
      <4> QED
        BY <4>1, <4>2, DelegationAssumption
    <3>6. hop'[v] <= MaxHops + 1
      BY <3>3, <3>5, DelegationAssumption DEF Report
    <3> QED
      BY <3>3, <3>6 DEF Report, NewRow, SameRow, ChainEnds
  <2> QED
    BY <1>14, <2>1, <2>2, <2>3 DEF DeliverOutcome
<1>15. ASSUME NEW c \in Couriers, MarkReturned(c) PROVE ChainEnds'
  BY DelegationAssumption, <1>15 DEF MarkReturned, GoesIdle,
     DelegationTypeOK, WorksInv, AbsentInv, SentInv, BackInv, CouriersInv,
     KnowsInv,
     ChainEnds, rowsOfWork, chats, couriers, bots, Couriers, Unfinished, Ended
<1>16. ASSUME NEW c \in Couriers, CourierDies(c) PROVE ChainEnds'
  BY DelegationAssumption, <1>16 DEF CourierDies, GoesIdle, Meddle,
     DelegationTypeOK, WorksInv, AbsentInv, SentInv, BackInv, CouriersInv,
     KnowsInv,
     ChainEnds, rowsOfWork, chats, couriers, bots, Couriers, Unfinished, Ended
<1>17. CASE UNCHANGED delegationVars
  BY <1>17 DEF delegationVars, DelegationTypeOK, WorksInv, AbsentInv, SentInv,
     BackInv, CouriersInv, KnowsInv,
     ChainEnds, rowsOfWork, chats, couriers, bots, Couriers, Unfinished, Ended
<1> QED
  BY <1>1, <1>2, <1>3, <1>4, <1>5, <1>6, <1>7, <1>8, <1>9, <1>10, <1>11, <1>12,
     <1>13, <1>14, <1>15, <1>16, <1>17 DEF DelegationNext, Returns, Couriers

LEMMA DelegationInvariant == DelegationSafety => []DelegationInv
<1>1. DelegationInit => DelegationInv
  BY DelegationAssumption DEF DelegationInit, DelegationInv, DelegationTypeOK,
     WorksInv,
     AbsentInv, SentInv, BackInv, ChatsInv, CouriersInv, KnowsInv, ReportsInv,
     ChainEnds, Intents, Unfinished, Ended, Couriers
<1>2. DelegationInv /\ [DelegationNext]_delegationVars => DelegationInv'
  BY DelegationTypeStep, WorksStep, ChatsStep, CouriersStep, ReportsStep,
     ChainStep
  DEF DelegationInv
<1> QED
  BY <1>1, <1>2, PTL DEF DelegationSafety

\* Every variable of the work that bots give each other keeps its type.
THEOREM DelegationTypeCorrect == DelegationSafety => []DelegationTypeOK
BY DelegationInvariant, PTL DEF DelegationInv

\* Bots alone cannot keep a conversation going: no message lies deeper than
\* the limit, but for an outcome that comes back from there.
THEOREM ChainsEnd == DelegationSafety => []ChainEnds
BY DelegationInvariant, PTL DEF DelegationInv

\* A bot that asked another hears of it once: by a result that the other sent,
\* or by one report of its outcome, however many workers and reconcilers meet.
THEOREM OutcomesReportedOnce == DelegationSafety => []ReportedOnce
<1>1. DelegationInv => ReportedOnce
  <2> SUFFICES ASSUME DelegationInv, NEW w \in inbox, Expected(w)
               PROVE  /\ Cardinality(Reports(w)) <= 1
                      /\ Reports(w) # {} => Answers(w) = Reports(w)
                      /\ w \in reported => Answers(w) # {}
    BY DEF ReportedOnce
  <2>1. w \in WorkIds /\ intent[w] = "request"
    BY DEF DelegationInv, DelegationTypeOK, Expected
  <2>2. /\ \A u, v \in auto : cause[u] = w /\ cause[v] = w => u = v
        /\ (\E v \in auto : cause[v] = w) => OnlyReports(w)
        /\ w \in reported => Answers(w) # {}
    BY <2>1 DEF DelegationInv, ReportsInv
  <2>3. Cardinality(Reports(w)) <= 1
    <3>1. CASE Reports(w) = {}
      BY <3>1, FS_EmptySet
    <3>2. ASSUME NEW v \in Reports(w) PROVE Cardinality(Reports(w)) <= 1
      <4>1. Reports(w) = {v}
        BY <2>2, <3>2 DEF Reports
      <4> QED
        BY <4>1, FS_Singleton
    <3> QED
      BY <3>1, <3>2
  <2>4. Reports(w) # {} => Answers(w) = Reports(w)
    <3>1. Reports(w) \subseteq Answers(w)
      BY <2>1 DEF DelegationInv, DelegationTypeOK, WorksInv, AbsentInv,
         BackInv, Reports,
             Answers
    <3>2. Reports(w) # {} => Answers(w) \subseteq Reports(w)
      BY <2>2 DEF Reports, Answers, OnlyReports
    <3> QED
      BY <3>1, <3>2
  <2> QED
    BY <2>2, <2>3, <2>4
<1> QED
  BY <1>1, DelegationInvariant, PTL

-----------------------------------------------------------------------------
(* The chat of a group.                                                    *)

\* The states of a run that has ended.
Finished == {"ended", "cancelled", "deleted"}

\* A handoff that has read and not written: the group is as it was read, its
\* run exists and has handed nothing on.
Pending ==
  \A r \in StageIds, b \in Crew :
    <<r, b>> \in handing =>
      /\ changing = Unchanging /\ group = "open" /\ b \in members
      /\ stage[r] # "absent"
      /\ \A u \in StageIds : maker[u] # r

\* A change of the group that has read and not written: every run it must
\* cancel is among those it read.
Grasped ==
  changing # Unchanging =>
    /\ group = "open" /\ changing.kind # "none"
    /\ changing.members \cap erased = {}
    /\ \A r \in StageIds \ slipped :
         /\ stage[r] \in InProgress
         /\ changing.kind = "update" => bearer[r] \notin changing.members
         => r \in changing.runs

\* A handoff is a message of the thread, or its run has ended.
Traced ==
  \A u \in StageIds :
    maker[u] # 0 => u \in posted \/ stage[maker[u]] \in Finished

\* Runs that exist belong to a bot, and those that were read exist.
Known ==
  /\ \A r \in StageIds : stage[r] # "absent" => bearer[r] \in Crew
  /\ leaving # Staying => leaving.bot \in Crew
  /\ \A r \in changing.runs \cup leaving.runs : stage[r] # "absent"
  /\ \A u \in StageIds : maker[u] # 0 => stage[maker[u]] # "absent"

\* The inductive invariant.
GroupInd ==
  /\ GroupTypeOK /\ OnlyMembersWork /\ StopEndsRelay /\ HandedOnce
  /\ Pending /\ Grasped /\ Traced /\ Known

\* CancelStages cancels the runs it is given and leaves the others.
LEMMA CancelledRuns ==
  ASSUME stage \in [StageIds -> StageStatus], NEW runs, CancelStages(runs)
  PROVE  /\ stage' \in [StageIds -> StageStatus]
         /\ \A r \in StageIds :
              stage'[r] = IF r \in runs THEN "cancelled" ELSE stage[r]
BY DEF CancelStages, StageStatus

\* AddStage makes one run of the columns and leaves the others.
LEMMA AddedRun ==
  ASSUME GroupTypeOK, NEW status \in [StageIds -> StageStatus],
         NEW v \in StageIds, NEW b, NEW from, NEW depth, NEW by, NEW when,
         AddStage(status, v, b, from, depth, by, when)
  PROVE  /\ status[v] = "absent" /\ stage'[v] = "queued" /\ bearer'[v] = b
         /\ maker'[v] = by /\ wave'[v] = when
         /\ \A u \in StageIds \ {v} :
              /\ stage'[u] = status[u] /\ bearer'[u] = bearer[u]
              /\ maker'[u] = maker[u] /\ wave'[u] = wave[u]
<1>1. /\ status[v] = "absent" /\ stage'[v] = "queued" /\ bearer'[v] = b
      /\ maker'[v] = by /\ wave'[v] = when
  BY DEF AddStage, NextStage, GroupTypeOK
<1>2. \A u \in StageIds \ {v} :
        /\ stage'[u] = status[u] /\ bearer'[u] = bearer[u]
        /\ maker'[u] = maker[u] /\ wave'[u] = wave[u]
  BY DEF AddStage, GroupTypeOK
<1> QED
  BY <1>1, <1>2

\* The columns keep their types.
LEMMA AddedRunTyped ==
  ASSUME GroupTypeOK, NEW status \in [StageIds -> StageStatus],
         NEW v \in StageIds, NEW b \in Crew, NEW from \in Crew \cup {Outsider},
         NEW depth \in Nat, NEW by \in StageIds \cup {0}, NEW when \in Nat,
         AddStage(status, v, b, from, depth, by, when)
  PROVE  /\ stage' \in [StageIds -> StageStatus]
         /\ bearer' \in [StageIds -> Crew \cup {Outsider}]
         /\ giver' \in [StageIds -> Crew \cup {Outsider}]
         /\ chain' \in [StageIds -> Nat] /\ wave' \in [StageIds -> Nat]
         /\ maker' \in [StageIds -> StageIds \cup {0}]
<1>1. stage' \in [StageIds -> StageStatus]
  BY DEF AddStage, StageStatus, InProgress
<1> QED
  BY <1>1 DEF AddStage, GroupTypeOK

\* No run becomes absent: enough for Known.
LEMMA KnownKept ==
  ASSUME GroupTypeOK, Known,
         \A r \in StageIds :
           /\ stage[r] # "absent" => stage'[r] # "absent"
           /\ stage'[r] # "absent" => bearer'[r] \in Crew
           /\ maker'[r] \notin {0, maker[r]} =>
                maker'[r] \in StageIds /\ stage[maker'[r]] # "absent",
         changing'.runs \subseteq changing.runs,
         leaving'.runs \subseteq leaving.runs,
         leaving' # Staying => leaving'.bot = leaving.bot /\ leaving # Staying
  PROVE  Known'
<1>1. changing.runs \subseteq StageIds /\ leaving.runs \subseteq StageIds
  BY DEF GroupTypeOK
<1>2. \A u \in StageIds : maker[u] # 0 => maker[u] \in StageIds
  BY DEF GroupTypeOK
<1>3. \A r \in changing'.runs \cup leaving'.runs : stage'[r] # "absent"
  BY <1>1 DEF Known
<1>4. \A u \in StageIds : maker'[u] # 0 => stage'[maker'[u]] # "absent"
  BY <1>2 DEF Known
<1> QED
  BY <1>3, <1>4 DEF Known

\* Every step keeps the types.
LEMMA GroupTypeStep ==
  GroupInd /\ [GroupNext]_groupVars => GroupTypeOK'
<1> SUFFICES ASSUME GroupInd, [GroupNext]_groupVars PROVE GroupTypeOK'
  OBVIOUS
<1> USE GroupAssumption DEF GroupInd, InProgress, Finished
<1>1. CASE ResolveTarget
  BY <1>1 DEF ResolveTarget, Awake, GroupTypeOK, stageRows, thread, crewRows,
     locks, outliers
<1>2. CASE GiveUp
  BY <1>2 DEF GiveUp, GroupTypeOK, stageRows, thread, crewRows, locks, outliers
<1>3. ASSUME NEW named \in SUBSET Crew, SendToGroup(named) PROVE GroupTypeOK'
  BY <1>3 DEF SendToGroup, Send, StartsOrSteers, StagesOf, LoadedMembers,
     Awake, GroupRowFree, GroupTypeOK, StageStatus, crewRows, locks, outliers
<1>4. CASE StopGroup
  <2> USE DEF GroupTypeOK
  <2>1. stage' \in [StageIds -> StageStatus]
    BY <1>4, CancelledRuns DEF StopGroup
  <2>2. waves' \in Nat /\ changes' \in Nat
    BY <1>4 DEF StopGroup, Change
  <2>3. steered' \subseteq StageIds /\ floating' \subseteq Crew
    BY <1>4 DEF StopGroup
  <2> QED
    BY <1>4, <2>1, <2>2, <2>3 DEF StopGroup, CancelStages, crewRows, locks,
       outliers
<1>5. CASE ClearGroup
  BY <1>5 DEF ClearGroup, Change, CancelStages, AllStages, GroupRowFree,
     GroupTypeOK, StageStatus, crewRows, locks, outliers
<1>6. ASSUME NEW b \in Crew, FollowUp(b) PROVE GroupTypeOK'
  BY <1>6 DEF FollowUp, Send, StartsOrSteers, StagesOf, GroupRowFree,
     GroupTypeOK, StageStatus, crewRows, locks, outliers
<1>7. ASSUME NEW b \in Crew, RouteRoutine(b) PROVE GroupTypeOK'
  BY <1>7 DEF RouteRoutine, Send, GroupTypeOK, stageRows, thread, crewRows,
     locks, outliers
<1>8. ASSUME NEW b \in Crew, FireInGroup(b) PROVE GroupTypeOK'
  <2> USE DEF GroupTypeOK
  <2>1. CASE UNCHANGED <<stageRows, slipped>>
    BY <1>8, <2>1 DEF FireInGroup, stageRows, thread, crewRows, locks,
       outliers
  <2>2. ASSUME NEW v \in StageIds,
               AddStage(stage, v, b, Outsider, 0, 0, waves),
               slipped' = Slipping(v, b)
        PROVE  GroupTypeOK'
    <3>1. /\ stage' \in [StageIds -> StageStatus]
          /\ bearer' \in [StageIds -> Crew \cup {Outsider}]
          /\ giver' \in [StageIds -> Crew \cup {Outsider}]
          /\ chain' \in [StageIds -> Nat] /\ wave' \in [StageIds -> Nat]
          /\ maker' \in [StageIds -> StageIds \cup {0}]
      BY <1>8, <2>2, AddedRunTyped
    <3> QED
      BY <1>8, <2>2, <3>1 DEF FireInGroup, Slipping, thread, crewRows, locks
  <2> QED
    BY <1>8, <2>1, <2>2 DEF FireInGroup
<1>9. ASSUME NEW b \in Crew, ReadBotRuns(b) PROVE GroupTypeOK'
  BY <1>9 DEF ReadBotRuns, Change, StagesOf, GroupTypeOK, Staying, stageRows,
     thread, underway, locks, outliers
<1>10. ASSUME NEW b \in Crew, WakeBot(b) PROVE GroupTypeOK'
  BY <1>10 DEF WakeBot, GroupTypeOK, stageRows, thread, underway, locks,
     outliers
<1>11. ASSUME NEW r \in StageIds, StartStage(r) PROVE GroupTypeOK'
  BY <1>11 DEF StartStage, GroupTypeOK, StageStatus, thread, crewRows,
     underway, locks, outliers
<1>12. ASSUME NEW r \in StageIds, PauseStage(r) PROVE GroupTypeOK'
  BY <1>12 DEF PauseStage, Change, GroupTypeOK, StageStatus, thread, crewRows,
     underway, locks, outliers
<1>13. ASSUME NEW r \in StageIds, AnswerStage(r) PROVE GroupTypeOK'
  BY <1>13 DEF AnswerStage, GroupTypeOK, StageStatus, thread, crewRows,
     underway, locks, outliers
<1>14. ASSUME NEW r \in StageIds, NEW answered \in BOOLEAN,
              FinishStage(r, answered)
       PROVE  GroupTypeOK'
  <2> DEFINE over == [stage EXCEPT ![r] = "ended"]
  <2> USE DEF GroupTypeOK
  <2>1. over \in [StageIds -> StageStatus]
    BY DEF StageStatus
  <2>2. bearer[r] \in Crew
    BY <1>14 DEF FinishStage, Known
  <2>3. CASE UNCHANGED <<bearer, giver, chain, maker, wave, slipped>>
             /\ stage' = over /\ steered' = steered \ {r}
    <3>1. floating' \subseteq Crew
      BY <1>14, <2>2 DEF FinishStage
    <3> HIDE DEF over
    <3> QED
      BY <1>14, <2>1, <2>3, <3>1 DEF FinishStage, crewRows, underway, locks
  <2>4. ASSUME NEW v \in StageIds,
               AddStage(over, v, bearer[r], Outsider, 0, 0, wave[r]),
               steered' = (steered \ {r}) \cup {v},
               slipped' = Slipping(v, bearer[r]),
               bearer[r] \in Crew
        PROVE  GroupTypeOK'
    <3> HIDE DEF over
    <3>1. /\ stage' \in [StageIds -> StageStatus]
          /\ bearer' \in [StageIds -> Crew \cup {Outsider}]
          /\ giver' \in [StageIds -> Crew \cup {Outsider}]
          /\ chain' \in [StageIds -> Nat] /\ wave' \in [StageIds -> Nat]
          /\ maker' \in [StageIds -> StageIds \cup {0}]
      BY <2>1, <2>4, <2>2, AddedRunTyped
    <3> QED
      BY <1>14, <2>4, <3>1 DEF FinishStage, Slipping, crewRows, underway, locks
  <2> QED
    BY <1>14, <2>3, <2>4, <2>2 DEF FinishStage
<1>15. ASSUME NEW r \in StageIds, NEW b \in Crew, ReadHandoff(r, b)
       PROVE  GroupTypeOK'
  BY <1>15 DEF ReadHandoff, Awake, Recorded, GroupRowFree, GroupTypeOK,
     stageRows, thread, crewRows, underway, outliers
<1>16. ASSUME NEW r \in StageIds, NEW b \in Crew, WriteHandoff(r, b)
       PROVE  GroupTypeOK'
  BY <1>16 DEF WriteHandoff, AddStage, NextStage, MayWrite, GroupTypeOK,
     StageStatus, crewRows, underway
<1>17. CASE HandoffAborted
  BY <1>17 DEF HandoffAborted, GroupTypeOK, stageRows, thread, crewRows,
     underway, outliers
<1>18. ASSUME NEW ms \in SUBSET Crew, ReadForNewMembers(ms) PROVE GroupTypeOK'
  BY <1>18 DEF ReadForNewMembers, Change, StagesOf, GroupRowFree, GroupTypeOK,
     stageRows, thread, crewRows, underway, outliers
<1>19. CASE ReadForArchiving
  BY <1>19 DEF ReadForArchiving, Change, AllStages, GroupRowFree, GroupTypeOK,
     stageRows, thread, crewRows, underway, outliers
<1>20. CASE ChangeGroup
  <2> USE DEF GroupTypeOK
  <2>1. stage' \in [StageIds -> StageStatus]
    BY <1>20, CancelledRuns DEF ChangeGroup
  <2>2. UNCHANGED <<bearer, giver, chain, maker, wave>>
    BY <1>20 DEF ChangeGroup, CancelStages
  <2> QED
    BY <1>20, <2>1, <2>2 DEF ChangeGroup, Change, Grasped, Unchanging, thread,
       crewRows,
       underway, locks, outliers
<1>21. CASE RestoreGroup
  BY <1>21 DEF RestoreGroup, GroupRowFree, GroupTypeOK, stageRows, thread,
     crewRows, underway, locks, outliers
<1>22. CASE RemoveGroup
  BY <1>22 DEF RemoveGroup, Change, Dissolve, GroupRowFree, GroupTypeOK,
     StageStatus, crewRows, underway, locks, outliers
<1>23. CASE RestBot
  <2> USE DEF GroupTypeOK
  <2>1. stage' \in [StageIds -> StageStatus]
    BY <1>23, CancelledRuns DEF RestBot
  <2>2. UNCHANGED <<bearer, giver, chain, maker, wave>>
    BY <1>23 DEF RestBot, CancelStages
  <2> QED
    BY <1>23, <2>1, <2>2 DEF RestBot, Change, Staying, Known, thread, crewRows,
       underway, locks, outliers
<1>24. CASE CancelForErasing
  BY <1>24 DEF CancelForErasing, CancelStages, GroupTypeOK, StageStatus,
     Staying, thread, underway, locks, outliers
<1>25. CASE EraseBot
  <2> USE DEF GroupTypeOK, StageStatus
  <2>1. stage' \in [StageIds -> StageStatus]
    BY <1>25 DEF EraseBot, Dissolve
  <2>2. erased' \subseteq Crew
    BY <1>25 DEF EraseBot, Known
  <2>3. /\ members' \subseteq Crew \ erased' /\ resting' \subseteq Crew
        /\ posted' \subseteq StageIds /\ steered' \subseteq StageIds
        /\ floating' \subseteq Crew /\ group' \in {"open", "archived", "gone"}
    <3>1. CASE Dissolve
      BY <1>25, <3>1 DEF EraseBot, Dissolve
    <3>2. CASE ~Dissolve
      <4>1. /\ erased' = erased \cup {leaving.bot}
            /\ resting' = resting \ {leaving.bot}
            /\ members' = members \ {leaving.bot}
            /\ floating' = floating \ {leaving.bot}
            /\ UNCHANGED <<group, posted>> /\ steered' \subseteq steered
        BY <1>25, <3>2 DEF EraseBot
      <4> QED
        BY <4>1
    <3> QED
      BY <3>1, <3>2
  <2> QED
    BY <1>25, <2>1, <2>2, <2>3 DEF EraseBot, Staying, underway, locks, outliers
<1>26. CASE UNCHANGED groupVars
  BY <1>26 DEF groupVars, GroupTypeOK, stageRows, thread, crewRows, underway,
     locks, outliers
<1> QED
  BY <1>1, <1>2, <1>3, <1>4, <1>5, <1>6, <1>7, <1>8, <1>9, <1>10, <1>11,
     <1>12, <1>13, <1>14, <1>15, <1>16, <1>17, <1>18, <1>19, <1>20, <1>21,
     <1>22, <1>23, <1>24, <1>25, <1>26 DEF GroupNext

\* No step leaves a run at work for a bot that is not a member, or in a group
\* that is not open, unless it slips by.
LEMMA MembersStep ==
  GroupInd /\ [GroupNext]_groupVars => OnlyMembersWork'
<1> SUFFICES ASSUME GroupInd, [GroupNext]_groupVars PROVE OnlyMembersWork'
  OBVIOUS
<1> USE GroupAssumption DEF GroupInd, InProgress, Finished
<1>1. CASE ResolveTarget
  BY <1>1 DEF ResolveTarget, OnlyMembersWork, stageRows, outliers
<1>2. CASE GiveUp
  BY <1>2 DEF GiveUp, OnlyMembersWork, stageRows, outliers
<1>3. ASSUME NEW named \in SUBSET Crew, SendToGroup(named)
      PROVE  OnlyMembersWork'
  BY <1>3 DEF SendToGroup, StartsOrSteers, StagesOf, LoadedMembers, Awake,
     GroupRowFree, OnlyMembersWork, GroupTypeOK, StageStatus, outliers
<1>4. CASE StopGroup
  BY <1>4 DEF StopGroup, CancelStages, AllStages, OnlyMembersWork, GroupTypeOK,
     StageStatus, outliers
<1>5. CASE ClearGroup
  BY <1>5 DEF ClearGroup, CancelStages, AllStages, GroupRowFree,
     OnlyMembersWork, GroupTypeOK, StageStatus, outliers
<1>6. ASSUME NEW b \in Crew, FollowUp(b) PROVE OnlyMembersWork'
  BY <1>6 DEF FollowUp, StartsOrSteers, StagesOf, GroupRowFree,
     OnlyMembersWork, GroupTypeOK, StageStatus, outliers
<1>7. ASSUME NEW b \in Crew, RouteRoutine(b) PROVE OnlyMembersWork'
  BY <1>7 DEF RouteRoutine, OnlyMembersWork, stageRows, outliers
<1>8. ASSUME NEW b \in Crew, FireInGroup(b) PROVE OnlyMembersWork'
  BY <1>8 DEF FireInGroup, AddStage, NextStage, Slipping, Slips,
     OnlyMembersWork, GroupTypeOK, StageStatus, Pending, Grasped, Unchanging,
     stageRows, thread, crewRows, underway, locks, outliers
<1>9. ASSUME NEW b \in Crew, ReadBotRuns(b) PROVE OnlyMembersWork'
  BY <1>9 DEF ReadBotRuns, OnlyMembersWork, stageRows, outliers
<1>10. ASSUME NEW b \in Crew, WakeBot(b) PROVE OnlyMembersWork'
  BY <1>10 DEF WakeBot, OnlyMembersWork, stageRows, outliers
<1>11. ASSUME NEW r \in StageIds, StartStage(r) PROVE OnlyMembersWork'
  BY <1>11 DEF StartStage, OnlyMembersWork, GroupTypeOK, StageStatus, outliers
<1>12. ASSUME NEW r \in StageIds, PauseStage(r) PROVE OnlyMembersWork'
  BY <1>12 DEF PauseStage, OnlyMembersWork, GroupTypeOK, StageStatus, outliers
<1>13. ASSUME NEW r \in StageIds, AnswerStage(r) PROVE OnlyMembersWork'
  BY <1>13 DEF AnswerStage, OnlyMembersWork, GroupTypeOK, StageStatus, outliers
<1>14. ASSUME NEW r \in StageIds, NEW answered \in BOOLEAN,
              FinishStage(r, answered)
       PROVE  OnlyMembersWork'
  BY <1>14 DEF FinishStage, AddStage, NextStage, Slipping, Slips,
     OnlyMembersWork, GroupTypeOK, StageStatus
<1>15. ASSUME NEW r \in StageIds, NEW b \in Crew, ReadHandoff(r, b)
       PROVE  OnlyMembersWork'
  BY <1>15 DEF ReadHandoff, OnlyMembersWork, stageRows, outliers
<1>16. ASSUME NEW r \in StageIds, NEW b \in Crew, WriteHandoff(r, b)
       PROVE  OnlyMembersWork'
  BY <1>16 DEF WriteHandoff, AddStage, NextStage, MayWrite, OnlyMembersWork,
     GroupTypeOK, StageStatus, Pending, Grasped, Unchanging, stageRows, thread,
     crewRows, underway, locks, outliers
<1>17. CASE HandoffAborted
  BY <1>17 DEF HandoffAborted, OnlyMembersWork, stageRows, outliers
<1>18. ASSUME NEW ms \in SUBSET Crew, ReadForNewMembers(ms)
       PROVE  OnlyMembersWork'
  BY <1>18 DEF ReadForNewMembers, OnlyMembersWork, stageRows, outliers
<1>19. CASE ReadForArchiving
  BY <1>19 DEF ReadForArchiving, OnlyMembersWork, stageRows, outliers
<1>20. CASE ChangeGroup
  BY <1>20 DEF ChangeGroup, CancelStages, OnlyMembersWork, GroupTypeOK,
     StageStatus, Grasped, Unchanging, outliers
<1>21. CASE RestoreGroup
  BY <1>21 DEF RestoreGroup, GroupRowFree, OnlyMembersWork, GroupTypeOK,
     stageRows, outliers
<1>22. CASE RemoveGroup
  BY <1>22 DEF RemoveGroup, Dissolve, GroupRowFree, OnlyMembersWork,
     GroupTypeOK, StageStatus, outliers
<1>23. CASE RestBot
  BY <1>23 DEF RestBot, CancelStages, OnlyMembersWork, GroupTypeOK,
     StageStatus, outliers
<1>24. CASE CancelForErasing
  BY <1>24 DEF CancelForErasing, CancelStages, OnlyMembersWork, GroupTypeOK,
     StageStatus, outliers
<1>25. CASE EraseBot
  BY <1>25 DEF EraseBot, Dissolve, Awake, GroupRowFree, OnlyMembersWork,
     GroupTypeOK, StageStatus, Pending, Grasped, Unchanging, stageRows, thread,
     crewRows, underway, locks, outliers
<1>26. CASE UNCHANGED groupVars
  BY <1>26 DEF groupVars, OnlyMembersWork, stageRows, outliers
<1> QED
  BY <1>1, <1>2, <1>3, <1>4, <1>5, <1>6, <1>7, <1>8, <1>9, <1>10, <1>11,
     <1>12, <1>13, <1>14, <1>15, <1>16, <1>17, <1>18, <1>19, <1>20, <1>21,
     <1>22, <1>23, <1>24, <1>25, <1>26 DEF GroupNext

\* No step lets a run of before a stop or a clear go on after it.
LEMMA RelayStep ==
  GroupInd /\ [GroupNext]_groupVars => StopEndsRelay'
<1> SUFFICES ASSUME GroupInd, [GroupNext]_groupVars PROVE StopEndsRelay'
  OBVIOUS
<1> USE GroupAssumption DEF GroupInd, InProgress, Finished
<1>1. CASE ResolveTarget
  BY <1>1 DEF ResolveTarget, StopEndsRelay, stageRows, outliers
<1>2. CASE GiveUp
  BY <1>2 DEF GiveUp, StopEndsRelay, stageRows, outliers
<1>3. ASSUME NEW named \in SUBSET Crew, SendToGroup(named)
      PROVE  StopEndsRelay'
  BY <1>3 DEF SendToGroup, StartsOrSteers, StagesOf, LoadedMembers, Awake,
     GroupRowFree, StopEndsRelay, GroupTypeOK, StageStatus, outliers
<1>4. CASE StopGroup
  BY <1>4 DEF StopGroup, CancelStages, AllStages, StopEndsRelay, GroupTypeOK,
     StageStatus, outliers
<1>5. CASE ClearGroup
  BY <1>5 DEF ClearGroup, CancelStages, AllStages, GroupRowFree, StopEndsRelay,
     GroupTypeOK, StageStatus, outliers
<1>6. ASSUME NEW b \in Crew, FollowUp(b) PROVE StopEndsRelay'
  BY <1>6 DEF FollowUp, StartsOrSteers, StagesOf, GroupRowFree, StopEndsRelay,
     GroupTypeOK, StageStatus, outliers
<1>7. ASSUME NEW b \in Crew, RouteRoutine(b) PROVE StopEndsRelay'
  BY <1>7 DEF RouteRoutine, StopEndsRelay, stageRows, outliers
<1>8. ASSUME NEW b \in Crew, FireInGroup(b) PROVE StopEndsRelay'
  BY <1>8 DEF FireInGroup, AddStage, NextStage, Slips, StopEndsRelay,
     GroupTypeOK, StageStatus, stageRows
<1>9. ASSUME NEW b \in Crew, ReadBotRuns(b) PROVE StopEndsRelay'
  BY <1>9 DEF ReadBotRuns, StopEndsRelay, stageRows, outliers
<1>10. ASSUME NEW b \in Crew, WakeBot(b) PROVE StopEndsRelay'
  BY <1>10 DEF WakeBot, StopEndsRelay, stageRows, outliers
<1>11. ASSUME NEW r \in StageIds, StartStage(r) PROVE StopEndsRelay'
  BY <1>11 DEF StartStage, StopEndsRelay, GroupTypeOK, StageStatus, outliers
<1>12. ASSUME NEW r \in StageIds, PauseStage(r) PROVE StopEndsRelay'
  BY <1>12 DEF PauseStage, StopEndsRelay, GroupTypeOK, StageStatus, outliers
<1>13. ASSUME NEW r \in StageIds, AnswerStage(r) PROVE StopEndsRelay'
  BY <1>13 DEF AnswerStage, StopEndsRelay, GroupTypeOK, StageStatus, outliers
<1>14. ASSUME NEW r \in StageIds, NEW answered \in BOOLEAN,
              FinishStage(r, answered)
       PROVE  StopEndsRelay'
  BY <1>14 DEF FinishStage, AddStage, NextStage, Slips, StopEndsRelay,
     GroupTypeOK, StageStatus
<1>15. ASSUME NEW r \in StageIds, NEW b \in Crew, ReadHandoff(r, b)
       PROVE  StopEndsRelay'
  BY <1>15 DEF ReadHandoff, StopEndsRelay, stageRows, outliers
<1>16. ASSUME NEW r \in StageIds, NEW b \in Crew, WriteHandoff(r, b)
       PROVE  StopEndsRelay'
  <2>1. PICK v \in StageIds :
          AddStage(stage, v, b, bearer[r], chain[r] + 1, r, wave[r])
    BY <1>16 DEF WriteHandoff
  <2>2. /\ maker'[v] = r /\ wave'[v] = wave[r]
        /\ \A u \in StageIds \ {v} :
             stage'[u] = stage[u] /\ maker'[u] = maker[u] /\ wave'[u] = wave[u]
    <3>1. maker'[v] = r /\ wave'[v] = wave[r]
      BY <2>1 DEF AddStage, GroupTypeOK
    <3>2. \A u \in StageIds \ {v} :
            stage'[u] = stage[u] /\ maker'[u] = maker[u] /\ wave'[u] = wave[u]
      BY <2>1 DEF AddStage, GroupTypeOK
    <3> QED
      BY <3>1, <3>2
  <2>3. ~belated' => stage[r] \in InProgress /\ wave[r] = waves
    <3>1. /\ stage[r] \in Finished \cup InProgress
          /\ stage[r] # "cancelled" /\ stage[r] # "deleted"
      BY <1>16 DEF WriteHandoff, MayWrite, Pending, StageStatus, GroupTypeOK
    <3>2. ~belated' => ~belated /\ stage[r] # "ended"
      BY <1>16 DEF WriteHandoff
    <3> QED
      BY <3>1, <3>2 DEF StopEndsRelay, GroupTypeOK
  <2> QED
    BY <1>16, <2>2, <2>3 DEF WriteHandoff, StopEndsRelay
<1>17. CASE HandoffAborted
  BY <1>17 DEF HandoffAborted, StopEndsRelay, stageRows, outliers
<1>18. ASSUME NEW ms \in SUBSET Crew, ReadForNewMembers(ms)
       PROVE  StopEndsRelay'
  BY <1>18 DEF ReadForNewMembers, StopEndsRelay, stageRows, outliers
<1>19. CASE ReadForArchiving
  BY <1>19 DEF ReadForArchiving, StopEndsRelay, stageRows, outliers
<1>20. CASE ChangeGroup
  BY <1>20 DEF ChangeGroup, CancelStages, StopEndsRelay, GroupTypeOK,
     StageStatus, outliers
<1>21. CASE RestoreGroup
  BY <1>21 DEF RestoreGroup, StopEndsRelay, stageRows, outliers
<1>22. CASE RemoveGroup
  BY <1>22 DEF RemoveGroup, Dissolve, GroupRowFree, StopEndsRelay, GroupTypeOK,
     StageStatus, outliers
<1>23. CASE RestBot
  BY <1>23 DEF RestBot, CancelStages, StopEndsRelay, GroupTypeOK, StageStatus,
     outliers
<1>24. CASE CancelForErasing
  BY <1>24 DEF CancelForErasing, CancelStages, StopEndsRelay, GroupTypeOK,
     StageStatus, outliers
<1>25. CASE EraseBot
  <2>1. \A r \in StageIds : stage'[r] \in InProgress => stage[r] \in InProgress
    <3>1. CASE Dissolve
      BY <1>25, <3>1 DEF EraseBot, Dissolve
    <3>2. CASE ~Dissolve
      BY <1>25, <3>2 DEF EraseBot
    <3> QED
      BY <3>1, <3>2
  <2> QED
    BY <1>25, <2>1 DEF EraseBot, StopEndsRelay, outliers
<1>26. CASE UNCHANGED groupVars
  BY <1>26 DEF groupVars, StopEndsRelay, stageRows, outliers
<1> QED
  BY <1>1, <1>2, <1>3, <1>4, <1>5, <1>6, <1>7, <1>8, <1>9, <1>10, <1>11,
     <1>12, <1>13, <1>14, <1>15, <1>16, <1>17, <1>18, <1>19, <1>20, <1>21,
     <1>22, <1>23, <1>24, <1>25, <1>26 DEF GroupNext

\* No run hands its stage on twice.
LEMMA OnceStep ==
  GroupInd /\ [GroupNext]_groupVars => HandedOnce'
<1> SUFFICES ASSUME GroupInd, [GroupNext]_groupVars PROVE HandedOnce'
  OBVIOUS
<1> USE GroupAssumption DEF GroupInd, InProgress, Finished
<1>1. CASE ResolveTarget
  BY <1>1 DEF ResolveTarget, HandedOnce, stageRows
<1>2. CASE GiveUp
  BY <1>2 DEF GiveUp, HandedOnce, stageRows
<1>3. ASSUME NEW named \in SUBSET Crew, SendToGroup(named) PROVE HandedOnce'
  BY <1>3 DEF SendToGroup, StartsOrSteers, StagesOf, LoadedMembers, Awake,
     GroupRowFree, HandedOnce, GroupTypeOK
<1>4. CASE StopGroup
  BY <1>4 DEF StopGroup, CancelStages, AllStages, HandedOnce, GroupTypeOK
<1>5. CASE ClearGroup
  BY <1>5 DEF ClearGroup, CancelStages, AllStages, GroupRowFree, HandedOnce,
     GroupTypeOK
<1>6. ASSUME NEW b \in Crew, FollowUp(b) PROVE HandedOnce'
  BY <1>6 DEF FollowUp, StartsOrSteers, StagesOf, GroupRowFree, HandedOnce,
     GroupTypeOK
<1>7. ASSUME NEW b \in Crew, RouteRoutine(b) PROVE HandedOnce'
  BY <1>7 DEF RouteRoutine, HandedOnce, stageRows
<1>8. ASSUME NEW b \in Crew, FireInGroup(b) PROVE HandedOnce'
  BY <1>8 DEF FireInGroup, AddStage, NextStage, Slips, HandedOnce, GroupTypeOK,
     stageRows
<1>9. ASSUME NEW b \in Crew, ReadBotRuns(b) PROVE HandedOnce'
  BY <1>9 DEF ReadBotRuns, HandedOnce, stageRows
<1>10. ASSUME NEW b \in Crew, WakeBot(b) PROVE HandedOnce'
  BY <1>10 DEF WakeBot, HandedOnce, stageRows
<1>11. ASSUME NEW r \in StageIds, StartStage(r) PROVE HandedOnce'
  BY <1>11 DEF StartStage, HandedOnce
<1>12. ASSUME NEW r \in StageIds, PauseStage(r) PROVE HandedOnce'
  BY <1>12 DEF PauseStage, HandedOnce
<1>13. ASSUME NEW r \in StageIds, AnswerStage(r) PROVE HandedOnce'
  BY <1>13 DEF AnswerStage, HandedOnce
<1>14. ASSUME NEW r \in StageIds, NEW answered \in BOOLEAN,
              FinishStage(r, answered)
       PROVE  HandedOnce'
  BY <1>14 DEF FinishStage, AddStage, NextStage, Slips, HandedOnce, GroupTypeOK
<1>15. ASSUME NEW r \in StageIds, NEW b \in Crew, ReadHandoff(r, b)
       PROVE  HandedOnce'
  BY <1>15 DEF ReadHandoff, HandedOnce, stageRows
<1>16. ASSUME NEW r \in StageIds, NEW b \in Crew, WriteHandoff(r, b)
       PROVE  HandedOnce'
  <2>1. PICK v \in StageIds :
          AddStage(stage, v, b, bearer[r], chain[r] + 1, r, wave[r])
    BY <1>16 DEF WriteHandoff
  <2>2. /\ maker'[v] = r /\ wave'[v] = wave[r]
        /\ \A u \in StageIds \ {v} :
             stage'[u] = stage[u] /\ maker'[u] = maker[u] /\ wave'[u] = wave[u]
    <3>1. maker'[v] = r /\ wave'[v] = wave[r]
      BY <2>1 DEF AddStage, GroupTypeOK
    <3>2. \A u \in StageIds \ {v} :
            stage'[u] = stage[u] /\ maker'[u] = maker[u] /\ wave'[u] = wave[u]
      BY <2>1 DEF AddStage, GroupTypeOK
    <3> QED
      BY <3>1, <3>2
  <2>3. \A u \in StageIds : maker[u] # r
    BY <1>16 DEF WriteHandoff, Pending
  <2> QED
    BY <2>2, <2>3 DEF HandedOnce
<1>17. CASE HandoffAborted
  BY <1>17 DEF HandoffAborted, HandedOnce, stageRows
<1>18. ASSUME NEW ms \in SUBSET Crew, ReadForNewMembers(ms) PROVE HandedOnce'
  BY <1>18 DEF ReadForNewMembers, HandedOnce, stageRows
<1>19. CASE ReadForArchiving
  BY <1>19 DEF ReadForArchiving, HandedOnce, stageRows
<1>20. CASE ChangeGroup
  BY <1>20 DEF ChangeGroup, CancelStages, HandedOnce, GroupTypeOK
<1>21. CASE RestoreGroup
  BY <1>21 DEF RestoreGroup, HandedOnce, stageRows
<1>22. CASE RemoveGroup
  BY <1>22 DEF RemoveGroup, HandedOnce
<1>23. CASE RestBot
  BY <1>23 DEF RestBot, CancelStages, HandedOnce, GroupTypeOK
<1>24. CASE CancelForErasing
  BY <1>24 DEF CancelForErasing, CancelStages, HandedOnce, GroupTypeOK
<1>25. CASE EraseBot
  BY <1>25 DEF EraseBot, HandedOnce
<1>26. CASE UNCHANGED groupVars
  BY <1>26 DEF groupVars, HandedOnce, stageRows
<1> QED
  BY <1>1, <1>2, <1>3, <1>4, <1>5, <1>6, <1>7, <1>8, <1>9, <1>10, <1>11,
     <1>12, <1>13, <1>14, <1>15, <1>16, <1>17, <1>18, <1>19, <1>20, <1>21,
     <1>22, <1>23, <1>24, <1>25, <1>26 DEF GroupNext

\* A handoff that has read keeps the group as it is.
LEMMA PendingStep ==
  GroupInd /\ [GroupNext]_groupVars => Pending'
<1> SUFFICES ASSUME GroupInd, [GroupNext]_groupVars PROVE Pending'
  OBVIOUS
<1> USE GroupAssumption DEF GroupInd, InProgress, Finished
<1>1. CASE ResolveTarget
  BY <1>1 DEF ResolveTarget, Pending, stageRows, locks
<1>2. CASE GiveUp
  BY <1>2 DEF GiveUp, Pending, stageRows, locks
<1>3. ASSUME NEW named \in SUBSET Crew, SendToGroup(named) PROVE Pending'
  BY <1>3 DEF SendToGroup, StartsOrSteers, StagesOf, LoadedMembers, Awake,
     GroupRowFree, Pending, GroupTypeOK, StageStatus, locks
<1>4. CASE StopGroup
  BY <1>4 DEF StopGroup, CancelStages, AllStages, Pending, GroupTypeOK,
     StageStatus, locks
<1>5. CASE ClearGroup
  BY <1>5 DEF ClearGroup, CancelStages, AllStages, GroupRowFree, Pending,
     GroupTypeOK, StageStatus, locks
<1>6. ASSUME NEW b \in Crew, FollowUp(b) PROVE Pending'
  BY <1>6 DEF FollowUp, StartsOrSteers, StagesOf, GroupRowFree, Pending,
     GroupTypeOK, StageStatus, locks
<1>7. ASSUME NEW b \in Crew, RouteRoutine(b) PROVE Pending'
  BY <1>7 DEF RouteRoutine, Pending, stageRows, locks
<1>8. ASSUME NEW b \in Crew, FireInGroup(b) PROVE Pending'
  <2> USE DEF GroupTypeOK
  <2>1. CASE UNCHANGED <<stageRows, slipped>>
    BY <1>8, <2>1 DEF FireInGroup, Pending, stageRows, locks
  <2>2. ASSUME NEW v \in StageIds,
               AddStage(stage, v, b, Outsider, 0, 0, waves)
        PROVE  Pending'
    <3>1. /\ stage'[v] = "queued" /\ maker'[v] = 0
          /\ \A u \in StageIds \ {v} :
               stage'[u] = stage[u] /\ maker'[u] = maker[u]
      BY <1>8, <2>2, AddedRun
    <3> QED
      BY <1>8, <3>1 DEF FireInGroup, Pending, locks
  <2> QED
    BY <1>8, <2>1, <2>2 DEF FireInGroup
<1>9. ASSUME NEW b \in Crew, ReadBotRuns(b) PROVE Pending'
  BY <1>9 DEF ReadBotRuns, Pending, stageRows, locks
<1>10. ASSUME NEW b \in Crew, WakeBot(b) PROVE Pending'
  BY <1>10 DEF WakeBot, Pending, stageRows, locks
<1>11. ASSUME NEW r \in StageIds, StartStage(r) PROVE Pending'
  BY <1>11 DEF StartStage, Pending, GroupTypeOK, StageStatus, locks
<1>12. ASSUME NEW r \in StageIds, PauseStage(r) PROVE Pending'
  BY <1>12 DEF PauseStage, Pending, GroupTypeOK, StageStatus, locks
<1>13. ASSUME NEW r \in StageIds, AnswerStage(r) PROVE Pending'
  BY <1>13 DEF AnswerStage, Pending, GroupTypeOK, StageStatus, locks
<1>14. ASSUME NEW r \in StageIds, NEW answered \in BOOLEAN,
              FinishStage(r, answered)
       PROVE  Pending'
  BY <1>14 DEF FinishStage, AddStage, NextStage, Slips, Pending, GroupTypeOK,
     StageStatus, locks
<1>15. ASSUME NEW r \in StageIds, NEW b \in Crew, ReadHandoff(r, b)
       PROVE  Pending'
  BY <1>15 DEF ReadHandoff, Awake, Recorded, GroupRowFree, Pending,
     GroupTypeOK, Traced, stageRows
<1>16. ASSUME NEW r \in StageIds, NEW b \in Crew, WriteHandoff(r, b)
       PROVE  Pending'
  BY <1>16 DEF WriteHandoff, AddStage, NextStage, MayWrite, Pending,
     GroupTypeOK, StageStatus
<1>17. CASE HandoffAborted
  BY <1>17 DEF HandoffAborted, Pending, GroupTypeOK, stageRows
<1>18. ASSUME NEW ms \in SUBSET Crew, ReadForNewMembers(ms) PROVE Pending'
  BY <1>18 DEF ReadForNewMembers, StagesOf, GroupRowFree, Pending, GroupTypeOK,
     stageRows
<1>19. CASE ReadForArchiving
  BY <1>19 DEF ReadForArchiving, AllStages, GroupRowFree, Pending, GroupTypeOK,
     stageRows
<1>20. CASE ChangeGroup
  BY <1>20 DEF ChangeGroup, CancelStages, Pending, GroupTypeOK, StageStatus,
     Unchanging
<1>21. CASE RestoreGroup
  BY <1>21 DEF RestoreGroup, GroupRowFree, Pending, GroupTypeOK, stageRows,
     locks
<1>22. CASE RemoveGroup
  BY <1>22 DEF RemoveGroup, Dissolve, GroupRowFree, Pending, GroupTypeOK,
     StageStatus, locks
<1>23. CASE RestBot
  BY <1>23 DEF RestBot, CancelStages, Pending, GroupTypeOK, StageStatus, locks
<1>24. CASE CancelForErasing
  BY <1>24 DEF CancelForErasing, CancelStages, Pending, GroupTypeOK,
     StageStatus, locks
<1>25. CASE EraseBot
  BY <1>25 DEF EraseBot, Dissolve, Awake, GroupRowFree, Pending, GroupTypeOK,
     StageStatus, locks
<1>26. CASE UNCHANGED groupVars
  BY <1>26 DEF groupVars, Pending, stageRows, locks
<1> QED
  BY <1>1, <1>2, <1>3, <1>4, <1>5, <1>6, <1>7, <1>8, <1>9, <1>10, <1>11,
     <1>12, <1>13, <1>14, <1>15, <1>16, <1>17, <1>18, <1>19, <1>20, <1>21,
     <1>22, <1>23, <1>24, <1>25, <1>26 DEF GroupNext

\* What a change of the group has read stays all that it must cancel.
LEMMA GraspedStep ==
  GroupInd /\ [GroupNext]_groupVars => Grasped'
<1> SUFFICES ASSUME GroupInd, [GroupNext]_groupVars PROVE Grasped'
  OBVIOUS
<1> USE GroupAssumption DEF GroupInd, InProgress, Finished
<1>1. CASE ResolveTarget
  BY <1>1 DEF ResolveTarget, Grasped, stageRows, crewRows, locks, outliers
<1>2. CASE GiveUp
  BY <1>2 DEF GiveUp, Grasped, stageRows, crewRows, locks, outliers
<1>3. ASSUME NEW named \in SUBSET Crew, SendToGroup(named) PROVE Grasped'
  BY <1>3 DEF SendToGroup, StartsOrSteers, StagesOf, LoadedMembers, Awake,
     GroupRowFree, Grasped, GroupTypeOK, StageStatus, crewRows, locks, outliers
<1>4. CASE StopGroup
  BY <1>4 DEF StopGroup, CancelStages, AllStages, Grasped, GroupTypeOK,
     StageStatus, crewRows, locks, outliers
<1>5. CASE ClearGroup
  BY <1>5 DEF ClearGroup, CancelStages, AllStages, GroupRowFree, Grasped,
     GroupTypeOK, StageStatus, crewRows, locks, outliers
<1>6. ASSUME NEW b \in Crew, FollowUp(b) PROVE Grasped'
  BY <1>6 DEF FollowUp, StartsOrSteers, StagesOf, GroupRowFree, Grasped,
     GroupTypeOK, StageStatus, crewRows, locks, outliers
<1>7. ASSUME NEW b \in Crew, RouteRoutine(b) PROVE Grasped'
  BY <1>7 DEF RouteRoutine, Grasped, stageRows, crewRows, locks, outliers
<1>8. ASSUME NEW b \in Crew, FireInGroup(b) PROVE Grasped'
  BY <1>8 DEF FireInGroup, AddStage, NextStage, Slipping, Slips, Grasped,
     GroupTypeOK, StageStatus, stageRows, crewRows, locks
<1>9. ASSUME NEW b \in Crew, ReadBotRuns(b) PROVE Grasped'
  BY <1>9 DEF ReadBotRuns, Grasped, stageRows, locks, outliers
<1>10. ASSUME NEW b \in Crew, WakeBot(b) PROVE Grasped'
  BY <1>10 DEF WakeBot, Grasped, stageRows, locks, outliers
<1>11. ASSUME NEW r \in StageIds, StartStage(r) PROVE Grasped'
  BY <1>11 DEF StartStage, Grasped, GroupTypeOK, StageStatus, crewRows, locks,
     outliers
<1>12. ASSUME NEW r \in StageIds, PauseStage(r) PROVE Grasped'
  BY <1>12 DEF PauseStage, Grasped, GroupTypeOK, StageStatus, crewRows, locks,
     outliers
<1>13. ASSUME NEW r \in StageIds, AnswerStage(r) PROVE Grasped'
  BY <1>13 DEF AnswerStage, Grasped, GroupTypeOK, StageStatus, crewRows, locks,
     outliers
<1>14. ASSUME NEW r \in StageIds, NEW answered \in BOOLEAN,
              FinishStage(r, answered)
       PROVE  Grasped'
  BY <1>14 DEF FinishStage, AddStage, NextStage, Slipping, Slips, Grasped,
     OnlyMembersWork, GroupTypeOK, StageStatus, Pending, Unchanging, stageRows,
     thread, crewRows, underway, locks, outliers
<1>15. ASSUME NEW r \in StageIds, NEW b \in Crew, ReadHandoff(r, b)
       PROVE  Grasped'
  BY <1>15 DEF ReadHandoff, Grasped, stageRows, crewRows, outliers
<1>16. ASSUME NEW r \in StageIds, NEW b \in Crew, WriteHandoff(r, b)
       PROVE  Grasped'
  BY <1>16 DEF WriteHandoff, AddStage, NextStage, MayWrite, Grasped,
     OnlyMembersWork, GroupTypeOK, StageStatus, Pending, Unchanging, stageRows,
     thread, crewRows, underway, locks, outliers
<1>17. CASE HandoffAborted
  BY <1>17 DEF HandoffAborted, Grasped, stageRows, crewRows, outliers
<1>18. ASSUME NEW ms \in SUBSET Crew, ReadForNewMembers(ms) PROVE Grasped'
  <2>1. changing'.members = ms /\ ms \cap erased = {}
    BY <1>18 DEF ReadForNewMembers
  <2>2. \A r \in StageIds \ slipped :
          stage[r] \in InProgress /\ bearer[r] \notin ms => r \in changing'.runs
    BY <1>18 DEF ReadForNewMembers, StagesOf, OnlyMembersWork
  <2> QED
    BY <1>18, <2>1, <2>2 DEF ReadForNewMembers, Grasped, stageRows, crewRows,
       outliers
<1>19. CASE ReadForArchiving
  BY <1>19 DEF ReadForArchiving, AllStages, GroupRowFree, Grasped, GroupTypeOK,
     stageRows, crewRows, outliers
<1>20. CASE ChangeGroup
  BY <1>20 DEF ChangeGroup, CancelStages, Grasped, GroupTypeOK, StageStatus,
     Unchanging, crewRows, outliers
<1>21. CASE RestoreGroup
  BY <1>21 DEF RestoreGroup, GroupRowFree, Grasped, GroupTypeOK, stageRows,
     crewRows, locks, outliers
<1>22. CASE RemoveGroup
  BY <1>22 DEF RemoveGroup, Dissolve, GroupRowFree, Grasped, GroupTypeOK,
     StageStatus, crewRows, locks, outliers
<1>23. CASE RestBot
  BY <1>23 DEF RestBot, CancelStages, Grasped, GroupTypeOK, StageStatus, locks,
     outliers
<1>24. CASE CancelForErasing
  BY <1>24 DEF CancelForErasing, CancelStages, Grasped, GroupTypeOK,
     StageStatus, locks, outliers
<1>25. CASE EraseBot
  BY <1>25 DEF EraseBot, Dissolve, Awake, GroupRowFree, Grasped, GroupTypeOK,
     StageStatus, locks, outliers
<1>26. CASE UNCHANGED groupVars
  BY <1>26 DEF groupVars, Grasped, stageRows, crewRows, locks, outliers
<1> QED
  BY <1>1, <1>2, <1>3, <1>4, <1>5, <1>6, <1>7, <1>8, <1>9, <1>10, <1>11,
     <1>12, <1>13, <1>14, <1>15, <1>16, <1>17, <1>18, <1>19, <1>20, <1>21,
     <1>22, <1>23, <1>24, <1>25, <1>26 DEF GroupNext

\* A handoff stays recorded until its run has ended.
LEMMA TracedStep ==
  GroupInd /\ [GroupNext]_groupVars => Traced'
<1> SUFFICES ASSUME GroupInd, [GroupNext]_groupVars PROVE Traced'
  OBVIOUS
<1> USE GroupAssumption DEF GroupInd, InProgress, Finished
<1>1. CASE ResolveTarget
  BY <1>1 DEF ResolveTarget, Traced, stageRows, thread
<1>2. CASE GiveUp
  BY <1>2 DEF GiveUp, Traced, stageRows, thread
<1>3. ASSUME NEW named \in SUBSET Crew, SendToGroup(named) PROVE Traced'
  BY <1>3 DEF SendToGroup, StartsOrSteers, StagesOf, LoadedMembers, Awake,
     GroupRowFree, Traced, GroupTypeOK, StageStatus
<1>4. CASE StopGroup
  BY <1>4 DEF StopGroup, CancelStages, AllStages, Traced, GroupTypeOK,
     StageStatus
<1>5. CASE ClearGroup
  <2>1. \A r \in StageIds : stage[r] # "absent" => stage'[r] \in Finished
    BY <1>5 DEF ClearGroup, CancelStages, AllStages, GroupTypeOK, StageStatus
  <2>2. \A u \in StageIds : maker[u] # 0 => stage[maker[u]] # "absent"
    BY DEF Known
  <2> QED
    BY <1>5, <2>1, <2>2 DEF ClearGroup, CancelStages, Traced, GroupTypeOK
<1>6. ASSUME NEW b \in Crew, FollowUp(b) PROVE Traced'
  BY <1>6 DEF FollowUp, StartsOrSteers, StagesOf, GroupRowFree, Traced,
     GroupTypeOK, StageStatus
<1>7. ASSUME NEW b \in Crew, RouteRoutine(b) PROVE Traced'
  BY <1>7 DEF RouteRoutine, Traced, stageRows, thread
<1>8. ASSUME NEW b \in Crew, FireInGroup(b) PROVE Traced'
  <2> USE DEF GroupTypeOK
  <2>1. CASE UNCHANGED <<stageRows, slipped>>
    BY <1>8, <2>1 DEF FireInGroup, Traced, stageRows, thread
  <2>2. ASSUME NEW v \in StageIds,
               AddStage(stage, v, b, Outsider, 0, 0, waves)
        PROVE  Traced'
    <3>1. /\ stage[v] = "absent" /\ maker'[v] = 0
          /\ \A u \in StageIds \ {v} :
               stage'[u] = stage[u] /\ maker'[u] = maker[u]
      BY <2>2, AddedRun
    <3>2. \A u \in StageIds : stage[u] \in Finished => stage'[u] \in Finished
      BY <3>1
    <3>3. \A u \in StageIds : maker[u] # 0 => maker[u] \in StageIds
      OBVIOUS
    <3>4. posted' = posted
      BY <1>8 DEF FireInGroup, thread
    <3> QED
      BY <3>1, <3>2, <3>3, <3>4 DEF Traced
  <2> QED
    BY <1>8, <2>1, <2>2 DEF FireInGroup
<1>9. ASSUME NEW b \in Crew, ReadBotRuns(b) PROVE Traced'
  BY <1>9 DEF ReadBotRuns, Traced, stageRows, thread
<1>10. ASSUME NEW b \in Crew, WakeBot(b) PROVE Traced'
  BY <1>10 DEF WakeBot, Traced, stageRows, thread
<1>11. ASSUME NEW r \in StageIds, StartStage(r) PROVE Traced'
  BY <1>11 DEF StartStage, Traced, GroupTypeOK, StageStatus, thread
<1>12. ASSUME NEW r \in StageIds, PauseStage(r) PROVE Traced'
  BY <1>12 DEF PauseStage, Traced, GroupTypeOK, StageStatus, thread
<1>13. ASSUME NEW r \in StageIds, AnswerStage(r) PROVE Traced'
  BY <1>13 DEF AnswerStage, Traced, GroupTypeOK, StageStatus, thread
<1>14. ASSUME NEW r \in StageIds, NEW answered \in BOOLEAN,
              FinishStage(r, answered)
       PROVE  Traced'
  <2> DEFINE over == [stage EXCEPT ![r] = "ended"]
  <2> USE DEF GroupTypeOK
  <2>1. /\ over \in [StageIds -> StageStatus]
        /\ \A u \in StageIds : stage[u] \in Finished => over[u] \in Finished
    BY DEF StageStatus
  <2>2. bearer[r] \in Crew /\ wave[r] \in Nat
    BY <1>14 DEF FinishStage, Known
  <2>3. CASE stage' = over /\ maker' = maker
    BY <1>14, <2>1, <2>3 DEF FinishStage, Traced
  <2>4. ASSUME NEW v \in StageIds, bearer[r] \in Crew,
               AddStage(over, v, bearer[r], Outsider, 0, 0, wave[r])
        PROVE  Traced'
    <3> HIDE DEF over
    <3>1. /\ over[v] = "absent" /\ maker'[v] = 0
          /\ \A u \in StageIds \ {v} :
               stage'[u] = over[u] /\ maker'[u] = maker[u]
      BY <2>1, <2>4, <2>2, AddedRun
    <3>2. \A u \in StageIds : stage[u] \in Finished => stage'[u] \in Finished
      BY <2>1, <3>1
    <3>3. \A u \in StageIds : maker[u] # 0 => maker[u] \in StageIds
      OBVIOUS
    <3>4. posted' = posted
      BY <1>14 DEF FinishStage
    <3> QED
      BY <3>1, <3>2, <3>3, <3>4 DEF Traced
  <2> QED
    BY <1>14, <2>3, <2>4, <2>2 DEF FinishStage
<1>15. ASSUME NEW r \in StageIds, NEW b \in Crew, ReadHandoff(r, b)
       PROVE  Traced'
  BY <1>15 DEF ReadHandoff, Traced, stageRows, thread
<1>16. ASSUME NEW r \in StageIds, NEW b \in Crew, WriteHandoff(r, b)
       PROVE  Traced'
  BY <1>16 DEF WriteHandoff, AddStage, NextStage, MayWrite, Traced,
     GroupTypeOK, StageStatus
<1>17. CASE HandoffAborted
  BY <1>17 DEF HandoffAborted, Traced, stageRows, thread
<1>18. ASSUME NEW ms \in SUBSET Crew, ReadForNewMembers(ms) PROVE Traced'
  BY <1>18 DEF ReadForNewMembers, Traced, stageRows, thread
<1>19. CASE ReadForArchiving
  BY <1>19 DEF ReadForArchiving, Traced, stageRows, thread
<1>20. CASE ChangeGroup
  BY <1>20 DEF ChangeGroup, CancelStages, Traced, GroupTypeOK, StageStatus,
     thread
<1>21. CASE RestoreGroup
  BY <1>21 DEF RestoreGroup, Traced, stageRows, thread
<1>22. CASE RemoveGroup
  <2>1. \A r \in StageIds : stage[r] # "absent" => stage'[r] = "deleted"
    BY <1>22 DEF RemoveGroup, Dissolve
  <2>2. \A u \in StageIds : maker[u] # 0 => stage[maker[u]] # "absent"
    BY DEF Known
  <2> QED
    BY <1>22, <2>1, <2>2 DEF RemoveGroup, Dissolve, GroupTypeOK, Traced
<1>23. CASE RestBot
  BY <1>23 DEF RestBot, CancelStages, Traced, GroupTypeOK, StageStatus, thread
<1>24. CASE CancelForErasing
  BY <1>24 DEF CancelForErasing, CancelStages, Traced, GroupTypeOK,
     StageStatus, thread
<1>25. CASE EraseBot
  <2>1. \A u \in StageIds :
          maker[u] # 0 => stage[maker[u]] # "absent" /\ maker[u] \in StageIds
    BY DEF Known, GroupTypeOK
  <2>2. CASE Dissolve
    BY <1>25, <2>1, <2>2 DEF EraseBot, Dissolve, Traced
  <2>3. CASE UNCHANGED posted
    <3>1. \A r \in StageIds : stage[r] \in Finished => stage'[r] \in Finished
      BY <1>25, <2>3 DEF EraseBot, Dissolve
    <3> QED
      BY <1>25, <2>1, <2>3, <3>1 DEF EraseBot, Traced
  <2> QED
    BY <1>25, <2>2, <2>3 DEF EraseBot
<1>26. CASE UNCHANGED groupVars
  BY <1>26 DEF groupVars, Traced, stageRows, thread
<1> QED
  BY <1>1, <1>2, <1>3, <1>4, <1>5, <1>6, <1>7, <1>8, <1>9, <1>10, <1>11,
     <1>12, <1>13, <1>14, <1>15, <1>16, <1>17, <1>18, <1>19, <1>20, <1>21,
     <1>22, <1>23, <1>24, <1>25, <1>26 DEF GroupNext

\* A run that exists has a bot, and what was read of it exists.
LEMMA KnownStep ==
  GroupInd /\ [GroupNext]_groupVars => Known'
<1> SUFFICES ASSUME GroupInd, [GroupNext]_groupVars PROVE Known'
  OBVIOUS
<1> USE GroupAssumption DEF GroupInd, InProgress, Finished
<1>1. CASE ResolveTarget
  BY <1>1 DEF ResolveTarget, Known, stageRows, crewRows, locks
<1>2. CASE GiveUp
  BY <1>2 DEF GiveUp, Known, stageRows, crewRows, locks
<1>3. ASSUME NEW named \in SUBSET Crew, SendToGroup(named) PROVE Known'
  BY <1>3 DEF SendToGroup, StartsOrSteers, StagesOf, LoadedMembers, Awake,
     GroupRowFree, Known, GroupTypeOK, StageStatus, crewRows, locks
<1>4. CASE StopGroup
  BY <1>4 DEF StopGroup, CancelStages, AllStages, Known, GroupTypeOK,
     StageStatus, crewRows, locks
<1>5. CASE ClearGroup
  BY <1>5 DEF ClearGroup, CancelStages, AllStages, GroupRowFree, Known,
     GroupTypeOK, StageStatus, crewRows, locks
<1>6. ASSUME NEW b \in Crew, FollowUp(b) PROVE Known'
  BY <1>6 DEF FollowUp, StartsOrSteers, StagesOf, GroupRowFree, Known,
     GroupTypeOK, StageStatus, crewRows, locks
<1>7. ASSUME NEW b \in Crew, RouteRoutine(b) PROVE Known'
  BY <1>7 DEF RouteRoutine, Known, stageRows, crewRows, locks
<1>8. ASSUME NEW b \in Crew, FireInGroup(b) PROVE Known'
  <2>1. stage \in [StageIds -> StageStatus]
    BY DEF GroupTypeOK
  <2>2. ASSUME NEW v \in StageIds,
               AddStage(stage, v, b, Outsider, 0, 0, waves)
        PROVE  Known'
    <3>1. /\ stage[v] = "absent" /\ stage'[v] = "queued"
          /\ bearer'[v] = b /\ maker'[v] = 0 /\ wave'[v] = waves
          /\ \A u \in StageIds \ {v} :
               /\ stage'[u] = stage[u] /\ bearer'[u] = bearer[u]
               /\ maker'[u] = maker[u] /\ wave'[u] = wave[u]
      <4>1. /\ stage[v] = "absent" /\ stage'[v] = "queued"
            /\ bearer'[v] = b /\ maker'[v] = 0 /\ wave'[v] = waves
        BY <2>2 DEF AddStage, NextStage, GroupTypeOK
      <4>2. \A u \in StageIds \ {v} :
              /\ stage'[u] = stage[u] /\ bearer'[u] = bearer[u]
              /\ maker'[u] = maker[u] /\ wave'[u] = wave[u]
        BY <2>2 DEF AddStage, GroupTypeOK
      <4> QED
        BY <4>1, <4>2
    <3>2. UNCHANGED <<changing, leaving>>
      BY <1>8 DEF FireInGroup, locks, crewRows
    <3>3. \A u \in StageIds :
            /\ stage[u] # "absent" => stage'[u] # "absent"
            /\ stage'[u] # "absent" => bearer'[u] \in Crew
      BY <2>1, <3>1 DEF Known
    <3> QED
      BY <1>8, <2>1, <3>1, <3>2, <3>3, KnownKept DEF FireInGroup
  <2>3. CASE UNCHANGED <<stageRows, slipped>>
    BY <1>8, <2>3 DEF FireInGroup, Known, stageRows, locks, crewRows
  <2> QED
    BY <1>8, <2>2, <2>3 DEF FireInGroup
<1>9. ASSUME NEW b \in Crew, ReadBotRuns(b) PROVE Known'
  BY <1>9 DEF ReadBotRuns, StagesOf, Known, GroupTypeOK, Staying, stageRows,
     locks
<1>10. ASSUME NEW b \in Crew, WakeBot(b) PROVE Known'
  BY <1>10 DEF WakeBot, Known, stageRows, locks
<1>11. ASSUME NEW r \in StageIds, StartStage(r) PROVE Known'
  BY <1>11 DEF StartStage, Known, GroupTypeOK, StageStatus, crewRows, locks
<1>12. ASSUME NEW r \in StageIds, PauseStage(r) PROVE Known'
  BY <1>12 DEF PauseStage, Known, GroupTypeOK, StageStatus, crewRows, locks
<1>13. ASSUME NEW r \in StageIds, AnswerStage(r) PROVE Known'
  BY <1>13 DEF AnswerStage, Known, GroupTypeOK, StageStatus, crewRows, locks
<1>14. ASSUME NEW r \in StageIds, NEW answered \in BOOLEAN,
              FinishStage(r, answered)
       PROVE  Known'
  <2> DEFINE over == [stage EXCEPT ![r] = "ended"]
  <2>1. over \in [StageIds -> StageStatus]
    BY DEF GroupTypeOK, StageStatus
  <2>2. /\ \A u \in StageIds : over[u] = "absent" <=> stage[u] = "absent"
        /\ bearer[r] \in Crew
    BY <1>14 DEF FinishStage, GroupTypeOK, StageStatus, Known
  <2> HIDE DEF over
  <2>3. ASSUME NEW v \in StageIds,
               AddStage(over, v, bearer[r], Outsider, 0, 0, wave[r])
        PROVE  Known'
    <3>1. /\ over[v] = "absent" /\ stage'[v] = "queued"
          /\ bearer'[v] = bearer[r] /\ maker'[v] = 0 /\ wave'[v] = wave[r]
          /\ \A u \in StageIds \ {v} :
               /\ stage'[u] = over[u] /\ bearer'[u] = bearer[u]
               /\ maker'[u] = maker[u] /\ wave'[u] = wave[u]
      BY <2>1, <2>3, AddedRun, SMTT(60)
    <3>2. UNCHANGED <<changing, leaving>>
      BY <1>14 DEF FinishStage, locks, crewRows
    <3>3. \A u \in StageIds :
            /\ stage[u] # "absent" => stage'[u] # "absent"
            /\ stage'[u] # "absent" => bearer'[u] \in Crew
      BY <2>1, <2>2, <3>1 DEF Known
    <3> QED
      BY <1>14, <2>1, <2>2, <3>1, <3>2, <3>3, KnownKept DEF FinishStage
  <2>4. ASSUME UNCHANGED <<bearer, maker>>, stage' = over
        PROVE  Known'
    BY <1>14, <2>2, <2>4 DEF FinishStage, Known, locks, crewRows, GroupTypeOK
  <2> QED
    BY <1>14, <2>3, <2>4 DEF FinishStage, over
<1>15. ASSUME NEW r \in StageIds, NEW b \in Crew, ReadHandoff(r, b)
       PROVE  Known'
  BY <1>15 DEF ReadHandoff, Known, stageRows, crewRows
<1>16. ASSUME NEW r \in StageIds, NEW b \in Crew, WriteHandoff(r, b)
       PROVE  Known'
  <2>1. stage \in [StageIds -> StageStatus] /\ stage[r] # "absent"
    BY <1>16 DEF GroupTypeOK, WriteHandoff, Pending
  <2>2. ASSUME NEW v \in StageIds,
               AddStage(stage, v, b, bearer[r], chain[r] + 1, r, wave[r])
        PROVE  Known'
    <3>1. /\ stage[v] = "absent" /\ stage'[v] = "queued"
          /\ bearer'[v] = b /\ maker'[v] = r /\ wave'[v] = wave[r]
          /\ \A u \in StageIds \ {v} :
               /\ stage'[u] = stage[u] /\ bearer'[u] = bearer[u]
               /\ maker'[u] = maker[u] /\ wave'[u] = wave[u]
      <4>1. /\ stage[v] = "absent" /\ stage'[v] = "queued"
            /\ bearer'[v] = b /\ maker'[v] = r /\ wave'[v] = wave[r]
        BY <2>2 DEF AddStage, NextStage, GroupTypeOK
      <4>2. \A u \in StageIds \ {v} :
              /\ stage'[u] = stage[u] /\ bearer'[u] = bearer[u]
              /\ maker'[u] = maker[u] /\ wave'[u] = wave[u]
        BY <2>2 DEF AddStage, GroupTypeOK
      <4> QED
        BY <4>1, <4>2
    <3>2. UNCHANGED <<changing, leaving>>
      BY <1>16 DEF WriteHandoff, locks, crewRows
    <3>3. \A u \in StageIds :
            /\ stage[u] # "absent" => stage'[u] # "absent"
            /\ stage'[u] # "absent" => bearer'[u] \in Crew
      BY <2>1, <3>1 DEF Known
    <3> QED
      BY <1>16, <2>1, <3>1, <3>2, <3>3, KnownKept DEF WriteHandoff
  <2> QED
    BY <1>16, <2>2 DEF WriteHandoff
<1>17. CASE HandoffAborted
  BY <1>17 DEF HandoffAborted, Known, stageRows, crewRows
<1>18. ASSUME NEW ms \in SUBSET Crew, ReadForNewMembers(ms) PROVE Known'
  <2>1. \A r \in changing'.runs : stage[r] # "absent"
    BY <1>18 DEF ReadForNewMembers, StagesOf
  <2> QED
    BY <1>18, <2>1 DEF ReadForNewMembers, Known, stageRows, crewRows
<1>19. CASE ReadForArchiving
  BY <1>19 DEF ReadForArchiving, AllStages, GroupRowFree, Known, GroupTypeOK,
     stageRows, crewRows
<1>20. CASE ChangeGroup
  <2>1. /\ changing'.runs \subseteq changing.runs
        /\ leaving'.runs \subseteq leaving.runs
        /\ leaving' # Staying => leaving'.bot = leaving.bot /\ leaving # Staying
        /\ maker' = maker /\ bearer' = bearer
    BY <1>20 DEF ChangeGroup, CancelStages, Unchanging, Staying, GroupTypeOK,
       locks, crewRows
  <2>2. \A r \in StageIds :
          /\ stage[r] # "absent" => stage'[r] # "absent"
          /\ stage'[r] # "absent" => stage[r] # "absent"
    BY <1>20 DEF ChangeGroup, CancelStages, Known, GroupTypeOK
  <2> QED
    BY <2>1, <2>2, KnownKept DEF Known
<1>21. CASE RestoreGroup
  BY <1>21 DEF RestoreGroup, Known, stageRows, crewRows, locks
<1>22. CASE RemoveGroup
  BY <1>22 DEF RemoveGroup, Dissolve, GroupRowFree, Known, GroupTypeOK,
     StageStatus, crewRows, locks
<1>23. CASE RestBot
  <2>1. /\ changing'.runs \subseteq changing.runs
        /\ leaving'.runs \subseteq leaving.runs
        /\ leaving' # Staying => leaving'.bot = leaving.bot /\ leaving # Staying
        /\ maker' = maker /\ bearer' = bearer
    BY <1>23 DEF RestBot, CancelStages, Unchanging, Staying, GroupTypeOK,
       locks, crewRows
  <2>2. \A r \in StageIds :
          /\ stage[r] # "absent" => stage'[r] # "absent"
          /\ stage'[r] # "absent" => stage[r] # "absent"
    BY <1>23 DEF RestBot, CancelStages, Known, GroupTypeOK
  <2> QED
    BY <2>1, <2>2, KnownKept DEF Known
<1>24. CASE CancelForErasing
  <2>1. /\ changing'.runs \subseteq changing.runs
        /\ leaving'.runs \subseteq leaving.runs
        /\ leaving' # Staying => leaving'.bot = leaving.bot /\ leaving # Staying
        /\ maker' = maker /\ bearer' = bearer
    BY <1>24 DEF CancelForErasing, CancelStages, Unchanging, Staying,
       GroupTypeOK, locks, crewRows
  <2>2. \A r \in StageIds :
          /\ stage[r] # "absent" => stage'[r] # "absent"
          /\ stage'[r] # "absent" => stage[r] # "absent"
    BY <1>24 DEF CancelForErasing, CancelStages, Known, GroupTypeOK
  <2> QED
    BY <2>1, <2>2, KnownKept DEF Known
<1>25. CASE EraseBot
  <2>1. /\ changing'.runs \subseteq changing.runs
        /\ leaving'.runs \subseteq leaving.runs
        /\ leaving' # Staying => leaving'.bot = leaving.bot /\ leaving # Staying
        /\ maker' = maker /\ bearer' = bearer
    BY <1>25 DEF EraseBot, Unchanging, Staying, GroupTypeOK, locks, crewRows
  <2>2. \A r \in StageIds :
          /\ stage[r] # "absent" => stage'[r] # "absent"
          /\ stage'[r] # "absent" => stage[r] # "absent"
    <3>1. CASE Dissolve
      BY <1>25, <3>1 DEF EraseBot, Dissolve, GroupTypeOK
    <3>2. CASE ~Dissolve
      BY <1>25, <3>2 DEF EraseBot, GroupTypeOK
    <3> QED
      BY <3>1, <3>2
  <2> QED
    BY <2>1, <2>2, KnownKept DEF Known
<1>26. CASE UNCHANGED groupVars
  BY <1>26 DEF groupVars, Known, stageRows, crewRows, locks
<1> QED
  BY <1>1, <1>2, <1>3, <1>4, <1>5, <1>6, <1>7, <1>8, <1>9, <1>10, <1>11,
     <1>12, <1>13, <1>14, <1>15, <1>16, <1>17, <1>18, <1>19, <1>20, <1>21,
     <1>22, <1>23, <1>24, <1>25, <1>26 DEF GroupNext

LEMMA GroupStart == GroupInit => GroupInd
<1> SUFFICES ASSUME GroupInit PROVE GroupInd
  OBVIOUS
<1> USE GroupAssumption DEF GroupInit
<1>1. GroupTypeOK
  BY DEF GroupTypeOK, StageStatus, Unchanging, Staying
<1>2. OnlyMembersWork /\ StopEndsRelay /\ HandedOnce
  BY DEF OnlyMembersWork, StopEndsRelay, HandedOnce, InProgress
<1>3. Pending /\ Grasped /\ Traced
  BY DEF Pending, Grasped, Traced
<1>4. Known
  BY DEF Known, Unchanging, Staying
<1> QED
  BY <1>1, <1>2, <1>3, <1>4 DEF GroupInd

LEMMA GroupInductive == GroupSpec => []GroupInd
<1>1. GroupInd /\ [GroupNext]_groupVars => GroupInd'
  BY GroupTypeStep, MembersStep, RelayStep, OnceStep, PendingStep,
     GraspedStep, TracedStep, KnownStep DEF GroupInd
<1> QED
  BY GroupStart, <1>1, PTL DEF GroupSpec

\* Every variable of the group keeps its type, whatever the crew and the
\* bounds.
THEOREM GroupTypeCorrect == GroupSpec => []GroupTypeOK
<1>1. GroupInd => GroupTypeOK
  BY DEF GroupInd
<1> QED
  BY GroupInductive, <1>1, PTL

\* Whoever works in the thread of a group is a member of it, and it is open:
\* sends, handoffs and follow-ups look again under the group's lock
\* (thread-target.ts, group-handoff.ts), and what a change of the group
\* (groups.ts) has read is all that it has to cancel.
THEOREM MembersAlone == GroupSpec => []OnlyMembersWork
<1>1. GroupInd => OnlyMembersWork
  BY DEF GroupInd
<1> QED
  BY GroupInductive, <1>1, PTL

\* No handoff carries work over a stop or a clear of the group: the writing
\* transaction finds its run cancelled (assertRunCanWriteHistory).
THEOREM StopsEndRelays == GroupSpec => []StopEndsRelay
<1>1. GroupInd => StopEndsRelay
  BY DEF GroupInd
<1> QED
  BY GroupInductive, <1>1, PTL

\* However often the tool call of a handoff is repeated, one bot is given the
\* next stage once (the nonce of group-handoff.ts).
THEOREM StagesHandedOnce == GroupSpec => []HandedOnce
<1>1. GroupInd => HandedOnce
  BY DEF GroupInd
<1> QED
  BY GroupInductive, <1>1, PTL

-----------------------------------------------------------------------------
(* Routines: a due time fires once, a pause holds and no claimed firing is *)
(* lost.                                                                   *)

\* RoutineTypeOK, but for the sign of the counts (CountsInv).
RoutineRowTypeOK ==
  /\ once \in BOOLEAN /\ now \in 0 .. MaxTime
  /\ exists \in BOOLEAN /\ active \in BOOLEAN /\ ran \in BOOLEAN
  /\ nextRunAt \in MaybeTime
JobTypeOK ==
  /\ job \in MaybeTime /\ scanned \in [Reconcilers -> MaybeTime]
  /\ paused \in BOOLEAN /\ edits \in Nat /\ mishaps \in Nat
HandlingTypeOK ==
  /\ wake \in [Handlers -> {"idle", "read", "claim", "enqueue", "restore", "next"}]
  /\ scheduledFor \in [Handlers -> MaybeTime]
  /\ follows \in [Handlers -> MaybeTime]
  /\ myRun \in [Handlers -> {"none", "queued", "started"}]
  /\ ranBefore \in [Handlers -> BOOLEAN]
ToldTypeOK ==
  /\ fired \in [Times -> Int]
  /\ again \subseteq Times /\ moved \subseteq Times
LooseTypeOK ==
  RoutineRowTypeOK /\ JobTypeOK /\ HandlingTypeOK /\ ToldTypeOK /\ edit \in EditStates

\* A handler's job was due when it was taken; a recurring routine always has
\* a next time; a handler has a run only between its claim and its end.
HandlersInv ==
  \A h \in Handlers :
    /\ wake[h] # "idle" => scheduledFor[h] \in Times /\ scheduledFor[h] <= now
    /\ wake[h] \in {"enqueue", "restore", "next"} /\ ~once => follows[h] # 0
    /\ wake[h] \in {"idle", "read", "claim"} => myRun[h] = "none"

\* What a time has fired covers the runs that can still be withdrawn.
Withdrawable(t) == {h \in Handlers : myRun[h] = "queued" /\ scheduledFor[h] = t}
CountsInv == \A t \in Times : Cardinality(Withdrawable(t)) <= fired[t]

\* The row never names a time that has fired, and none fires before it is due.
FiringInv ==
  /\ FiresOnce
  /\ nextRunAt \in Times \ again => fired[nextRunAt] <= 0
  /\ \A t \in Times : fired[t] > 0 => t <= now

\* A paused routine has no next time, which is what the restore compares.
PauseInv ==
  /\ paused \/ edit.at = "write" => edits > 0
  /\ paused /\ exists /\ ~once => ~active /\ nextRunAt = 0

\* The row is as the claim of a handler left it until its run is enqueued,
\* unless its time is one of those moved.
KeptInv ==
  \A h \in Unenqueued :
    exists /\ scheduledFor[h] \notin moved =>
      nextRunAt = follows[h] /\ (follows[h] = 0 => ~active)

RoutineInv ==
  LooseTypeOK /\ HandlersInv /\ CountsInv /\ FiringInv /\ PauseInv /\ KeptInv

-----------------------------------------------------------------------------
(* Each part is kept by every step.                                        *)

LEMMA EditFields ==
  ASSUME edit \in EditStates
  PROVE  /\ edit.at \in {"none", "create", "write", "enqueue", "cancel"}
         /\ edit.active \in BOOLEAN /\ edit.ran \in BOOLEAN
         /\ edit.next \in MaybeTime
  BY DEF EditStates

LEMMA NextForType ==
  ASSUME LooseTypeOK, NEW wanted \in BOOLEAN
  PROVE  NextFor(wanted) \subseteq MaybeTime
<1>1. edit.next \in MaybeTime
  BY EditFields DEF LooseTypeOK
<1> QED
  BY <1>1, RoutinesAssumption
  DEF NextFor, CronAfter, LooseTypeOK, RoutineRowTypeOK, Times, MaybeTime

LEMMA EditStep ==
  ASSUME LooseTypeOK, [RoutineNext]_routineVars
  PROVE  (edit \in EditStates)'
<1> USE RoutinesAssumption DEF LooseTypeOK
<1>0. NoEdit \in EditStates
  BY DEF NoEdit, EditStates, MaybeTime
<1>1. CASE CreateRoutine
  <2>1. CronAfter(now) \in MaybeTime
    BY DEF CronAfter, MaybeTime, RoutineRowTypeOK
  <2>2. edit' = [NoEdit EXCEPT !.at = "create", !.next = CronAfter(now)]
    BY <1>1 DEF CreateRoutine
  <2> QED
    BY <2>1, <2>2, <1>0 DEF EditStates
<1>2. CASE ReadForUpdate
  BY <1>2 DEF ReadForUpdate, EditStates, RoutineRowTypeOK
<1>3. ASSUME NEW wanted \in BOOLEAN, WriteUpdate(wanted)
      PROVE  edit' \in EditStates
  <2>1. PICK next \in NextFor(wanted) :
          \/ edit' = NoEdit
          \/ edit' = [edit EXCEPT !.at = IF next # 0 THEN "enqueue" ELSE "cancel",
                                  !.next = next]
    BY <1>3 DEF WriteUpdate
  <2>2. next \in MaybeTime
    BY <1>3, NextForType
  <2> QED
    BY <2>1, <2>2, <1>0 DEF EditStates
<1>4. CASE RemoveRoutine
  <2>1. edit' = [NoEdit EXCEPT !.at = "cancel"]
    BY <1>4 DEF RemoveRoutine
  <2> QED
    BY <2>1, <1>0 DEF EditStates
<1>5. CASE edit' = NoEdit
  BY <1>5, <1>0
<1>6. CASE UNCHANGED edit
  BY <1>6
<1> QED
  BY <1>1, <1>2, <1>3, <1>4, <1>5, <1>6
  DEF RoutineNext, routineVars, Handle, editing, Tick, TakeWakeup, ReadRoutine,
      ClaimFiring, EnqueueRun, RestoreFiring, EnqueueNext, DeferFuture, RunStarts,
      HandlerDies, ScanRoutines, EnqueueScanned, SyncSchedule, SyncFails

LEMMA ClaimRoutineEffect ==
  ASSUME LooseTypeOK, HandlersInv, NEW h \in Handlers, ClaimFiring(h)
  PROVE  /\ wake[h] = "claim" /\ UNCHANGED <<once, now, exists, again>>
         /\ UNCHANGED <<job, scanned, editing, mishaps>>
         /\ scheduledFor[h] \in Times /\ scheduledFor[h] <= now
         /\ \/ Done(h) /\ UNCHANGED <<nextRunAt, ran, active, fired, moved>>
            \/ /\ Claimable(h)
               /\ ran' = TRUE /\ UNCHANGED <<scheduledFor, ranBefore>>
               /\ wake' = [wake EXCEPT ![h] = "enqueue"]
               /\ myRun' = [myRun EXCEPT ![h] = "queued"]
               /\ fired' = [fired EXCEPT ![scheduledFor[h]] = @ + 1]
               /\ moved' = moved \cup InFlight
               /\ \E next \in MaybeTime :
                    /\ nextRunAt' = next /\ active' = (next # 0)
                    /\ follows' = [follows EXCEPT ![h] = next]
                    /\ ~once => next > now
                    /\ once => next = 0
                    /\ next # 0 => next > scheduledFor[h] /\ next > now
<1> DEFINE t == scheduledFor[h]
           next == IF once THEN 0 ELSE CronAfter(Later(t))
<1>1. t \in Times /\ t <= now /\ wake[h] = "claim"
  BY DEF ClaimFiring, HandlersInv
<1>2. /\ next \in MaybeTime /\ (~once => next > now) /\ (once => next = 0)
      /\ next # 0 => next > t /\ next > now
  BY <1>1, RoutinesAssumption
  DEF LooseTypeOK, RoutineRowTypeOK, CronAfter, Later, Times, MaybeTime
<1>3. CASE Claimable(h)
  <2>1. /\ nextRunAt' = next /\ active' = (next # 0) /\ ran' = TRUE
        /\ follows' = [follows EXCEPT ![h] = next]
        /\ fired' = [fired EXCEPT ![t] = @ + 1]
    BY <1>3 DEF ClaimFiring
  <2>2. /\ UNCHANGED <<once, now, exists, again, job, scanned, editing, mishaps>>
        /\ UNCHANGED <<scheduledFor, ranBefore>>
        /\ wake' = [wake EXCEPT ![h] = "enqueue"]
        /\ myRun' = [myRun EXCEPT ![h] = "queued"]
        /\ moved' = moved \cup InFlight
    BY <1>3 DEF ClaimFiring, Goto
  <2> HIDE DEF next
  <2> QED
    BY <1>1, <1>2, <1>3, <2>1, <2>2
<1>4. CASE ~Claimable(h)
  BY <1>1, <1>4 DEF ClaimFiring
<1> QED
  BY <1>3, <1>4

LEMMA RoutineRowTypeStep ==
  ASSUME LooseTypeOK, HandlersInv, [RoutineNext]_routineVars
  PROVE  RoutineRowTypeOK'
<1> USE RoutinesAssumption DEF LooseTypeOK, RoutineRowTypeOK, HandlingTypeOK, MaybeTime,
        row, handling, editing, told, Goto, SameHandling, Done, Mishap,
        CronAfter, Later, RestoreRow
<1>1. CASE Tick
  BY <1>1 DEF Tick
<1>2. ASSUME NEW h \in Handlers, TakeWakeup(h) PROVE RoutineRowTypeOK'
  BY <1>2 DEF TakeWakeup
<1>3. ASSUME NEW h \in Handlers, ReadRoutine(h) PROVE RoutineRowTypeOK'
  BY <1>3 DEF ReadRoutine
<1>4. ASSUME NEW h \in Handlers, ClaimFiring(h) PROVE RoutineRowTypeOK'
  <2>1. UNCHANGED <<once, now, exists, again, job, scanned, editing, mishaps>>
    BY <1>4, ClaimRoutineEffect
  <2>2. CASE Done(h) /\ UNCHANGED <<nextRunAt, ran, active, fired, moved>>
    BY <1>4, <2>1, <2>2, ClaimRoutineEffect
  <2>3. CASE ~(Done(h) /\ UNCHANGED <<nextRunAt, ran, active, fired, moved>>)
    BY <1>4, <2>1, <2>3, ClaimRoutineEffect
  <2> QED
    BY <2>2, <2>3
<1>5. ASSUME NEW h \in Handlers, EnqueueRun(h) PROVE RoutineRowTypeOK'
  BY <1>5 DEF EnqueueRun
<1>6. ASSUME NEW h \in Handlers, RestoreFiring(h) PROVE RoutineRowTypeOK'
  BY <1>6 DEF RestoreFiring
<1>7. ASSUME NEW h \in Handlers, EnqueueNext(h) PROVE RoutineRowTypeOK'
  BY <1>7 DEF EnqueueNext
<1>8. ASSUME NEW h \in Handlers, DeferFuture(h) PROVE RoutineRowTypeOK'
  BY <1>8 DEF DeferFuture
<1>9. ASSUME NEW h \in Handlers, RunStarts(h) PROVE RoutineRowTypeOK'
  BY <1>9 DEF RunStarts
<1>10. ASSUME NEW h \in Handlers, HandlerDies(h) PROVE RoutineRowTypeOK'
  BY <1>10 DEF HandlerDies
<1>11. ASSUME NEW p \in Reconcilers, ScanRoutines(p) PROVE RoutineRowTypeOK'
  BY <1>11 DEF ScanRoutines
<1>12. ASSUME NEW p \in Reconcilers, EnqueueScanned(p) PROVE RoutineRowTypeOK'
  BY <1>12 DEF EnqueueScanned
<1>13. CASE ReadForUpdate
  BY <1>13 DEF ReadForUpdate
<1>14. ASSUME NEW wanted \in BOOLEAN, WriteUpdate(wanted) PROVE RoutineRowTypeOK'
  <2>1. NextFor(wanted) \subseteq MaybeTime
    BY <1>14, NextForType
  <2> QED
    BY <1>14, <2>1 DEF WriteUpdate
<1>15. CASE CreateRoutine
  BY <1>15 DEF CreateRoutine
<1>16. CASE SyncSchedule
  BY <1>16 DEF SyncSchedule
<1>17. CASE SyncFails
  BY <1>17 DEF SyncFails
<1>18. CASE RemoveRoutine
  BY <1>18 DEF RemoveRoutine
<1>19. CASE UNCHANGED routineVars
  BY <1>19 DEF routineVars
<1> QED
  BY <1>1, <1>2, <1>3, <1>4, <1>5, <1>6, <1>7, <1>8, <1>9, <1>10, <1>11, <1>12,
     <1>13, <1>14, <1>15, <1>16, <1>17, <1>18, <1>19 DEF RoutineNext, Handle

LEMMA JobTypeStep ==
  ASSUME LooseTypeOK, HandlersInv, [RoutineNext]_routineVars
  PROVE  JobTypeOK'
<1> USE RoutinesAssumption DEF LooseTypeOK, JobTypeOK, RoutineRowTypeOK, HandlingTypeOK,
        MaybeTime, Times,
        row, handling, editing, told, Goto, SameHandling, Done, Mishap
<1>1. CASE Tick
  BY <1>1 DEF Tick
<1>2. ASSUME NEW h \in Handlers, TakeWakeup(h) PROVE JobTypeOK'
  BY <1>2 DEF TakeWakeup
<1>3. ASSUME NEW h \in Handlers, ReadRoutine(h) PROVE JobTypeOK'
  BY <1>3 DEF ReadRoutine
<1>4. ASSUME NEW h \in Handlers, ClaimFiring(h) PROVE JobTypeOK'
  BY <1>4 DEF ClaimFiring
<1>5. ASSUME NEW h \in Handlers, EnqueueRun(h) PROVE JobTypeOK'
  BY <1>5 DEF EnqueueRun
<1>6. ASSUME NEW h \in Handlers, RestoreFiring(h) PROVE JobTypeOK'
  BY <1>6 DEF RestoreFiring
<1>7. ASSUME NEW h \in Handlers, EnqueueNext(h) PROVE JobTypeOK'
  BY <1>7 DEF EnqueueNext
<1>8. ASSUME NEW h \in Handlers, DeferFuture(h) PROVE JobTypeOK'
  BY <1>8 DEF DeferFuture
<1>9. ASSUME NEW h \in Handlers, RunStarts(h) PROVE JobTypeOK'
  BY <1>9 DEF RunStarts
<1>10. ASSUME NEW h \in Handlers, HandlerDies(h) PROVE JobTypeOK'
  BY <1>10 DEF HandlerDies
<1>11. ASSUME NEW p \in Reconcilers, ScanRoutines(p) PROVE JobTypeOK'
  BY <1>11 DEF ScanRoutines
<1>12. ASSUME NEW p \in Reconcilers, EnqueueScanned(p) PROVE JobTypeOK'
  BY <1>12 DEF EnqueueScanned
<1>13. CASE ReadForUpdate
  BY <1>13 DEF ReadForUpdate
<1>14. ASSUME NEW wanted \in BOOLEAN, WriteUpdate(wanted) PROVE JobTypeOK'
  BY <1>14 DEF WriteUpdate
<1>15. CASE CreateRoutine
  BY <1>15 DEF CreateRoutine
<1>16. CASE SyncSchedule
  BY <1>16, EditFields DEF SyncSchedule, JobTypeOK
<1>17. CASE SyncFails
  BY <1>17 DEF SyncFails
<1>18. CASE RemoveRoutine
  BY <1>18 DEF RemoveRoutine
<1>19. CASE UNCHANGED routineVars
  BY <1>19 DEF routineVars
<1> QED
  BY <1>1, <1>2, <1>3, <1>4, <1>5, <1>6, <1>7, <1>8, <1>9, <1>10, <1>11, <1>12,
     <1>13, <1>14, <1>15, <1>16, <1>17, <1>18, <1>19 DEF RoutineNext, Handle

LEMMA HandlingTypeStep ==
  ASSUME LooseTypeOK, HandlersInv, [RoutineNext]_routineVars
  PROVE  HandlingTypeOK'
<1> USE RoutinesAssumption DEF LooseTypeOK, RoutineRowTypeOK, HandlingTypeOK, MaybeTime, Times,
        row, handling, editing, told, Goto, SameHandling, Done, Mishap
<1>1. CASE Tick
  BY <1>1 DEF Tick
<1>2. ASSUME NEW h \in Handlers, TakeWakeup(h) PROVE HandlingTypeOK'
  BY <1>2 DEF TakeWakeup
<1>3. ASSUME NEW h \in Handlers, ReadRoutine(h) PROVE HandlingTypeOK'
  <2>1. CASE Done(h)
    BY <1>3, <2>1 DEF ReadRoutine
  <2>2. CASE ~Done(h)
    BY <1>3, <2>2 DEF ReadRoutine
  <2> QED
    BY <2>1, <2>2
<1>4. ASSUME NEW h \in Handlers, ClaimFiring(h) PROVE HandlingTypeOK'
  <2>1. UNCHANGED <<once, now, exists, again, job, scanned, editing, mishaps>>
    BY <1>4, ClaimRoutineEffect
  <2>2. CASE Done(h) /\ UNCHANGED <<nextRunAt, ran, active, fired, moved>>
    BY <1>4, <2>1, <2>2, ClaimRoutineEffect
  <2>3. CASE ~(Done(h) /\ UNCHANGED <<nextRunAt, ran, active, fired, moved>>)
    BY <1>4, <2>1, <2>3, ClaimRoutineEffect, ZenonT(60)
  <2> QED
    BY <2>2, <2>3
<1>5. ASSUME NEW h \in Handlers, EnqueueRun(h) PROVE HandlingTypeOK'
  BY <1>5 DEF EnqueueRun
<1>6. ASSUME NEW h \in Handlers, RestoreFiring(h) PROVE HandlingTypeOK'
  BY <1>6 DEF RestoreFiring
<1>7. ASSUME NEW h \in Handlers, EnqueueNext(h) PROVE HandlingTypeOK'
  BY <1>7 DEF EnqueueNext
<1>8. ASSUME NEW h \in Handlers, DeferFuture(h) PROVE HandlingTypeOK'
  BY <1>8 DEF DeferFuture
<1>9. ASSUME NEW h \in Handlers, RunStarts(h) PROVE HandlingTypeOK'
  BY <1>9 DEF RunStarts
<1>10. ASSUME NEW h \in Handlers, HandlerDies(h) PROVE HandlingTypeOK'
  BY <1>10 DEF HandlerDies
<1>11. ASSUME NEW p \in Reconcilers, ScanRoutines(p) PROVE HandlingTypeOK'
  BY <1>11 DEF ScanRoutines
<1>12. ASSUME NEW p \in Reconcilers, EnqueueScanned(p) PROVE HandlingTypeOK'
  BY <1>12 DEF EnqueueScanned
<1>13. CASE ReadForUpdate
  BY <1>13 DEF ReadForUpdate
<1>14. ASSUME NEW wanted \in BOOLEAN, WriteUpdate(wanted) PROVE HandlingTypeOK'
  BY <1>14 DEF WriteUpdate
<1>15. CASE CreateRoutine
  BY <1>15 DEF CreateRoutine
<1>16. CASE SyncSchedule
  BY <1>16 DEF SyncSchedule
<1>17. CASE SyncFails
  BY <1>17 DEF SyncFails
<1>18. CASE RemoveRoutine
  BY <1>18 DEF RemoveRoutine
<1>19. CASE UNCHANGED routineVars
  BY <1>19 DEF routineVars
<1> QED
  BY <1>1, <1>2, <1>3, <1>4, <1>5, <1>6, <1>7, <1>8, <1>9, <1>10, <1>11, <1>12,
     <1>13, <1>14, <1>15, <1>16, <1>17, <1>18, <1>19 DEF RoutineNext, Handle

LEMMA ToldTypeStep ==
  ASSUME LooseTypeOK, HandlersInv, [RoutineNext]_routineVars
  PROVE  ToldTypeOK'
<1> USE RoutinesAssumption DEF LooseTypeOK, ToldTypeOK, HandlersInv, HandlingTypeOK,
        row, handling, editing, told, Goto, SameHandling, Done, Mishap,
        InFlight, InFlightBut, Unenqueued
<1>1. CASE Tick
  BY <1>1 DEF Tick
<1>2. ASSUME NEW h \in Handlers, TakeWakeup(h) PROVE ToldTypeOK'
  BY <1>2 DEF TakeWakeup
<1>3. ASSUME NEW h \in Handlers, ReadRoutine(h) PROVE ToldTypeOK'
  BY <1>3 DEF ReadRoutine
<1>4. ASSUME NEW h \in Handlers, ClaimFiring(h) PROVE ToldTypeOK'
  <2>1. PICK t \in Times :
          \/ fired' = fired \/ fired' = [fired EXCEPT ![t] = @ + 1]
    BY <1>4, ClaimRoutineEffect
  <2>2. again' = again /\ (moved' = moved \/ moved' = moved \cup InFlight)
    BY <1>4, ClaimRoutineEffect
  <2>3. InFlight \subseteq Times
    OBVIOUS
  <2> QED
    BY <2>1, <2>2, <2>3
<1>5. ASSUME NEW h \in Handlers, EnqueueRun(h) PROVE ToldTypeOK'
  BY <1>5 DEF EnqueueRun
<1>6. ASSUME NEW h \in Handlers, RestoreFiring(h) PROVE ToldTypeOK'
  BY <1>6 DEF RestoreFiring
<1>7. ASSUME NEW h \in Handlers, EnqueueNext(h) PROVE ToldTypeOK'
  BY <1>7 DEF EnqueueNext
<1>8. ASSUME NEW h \in Handlers, DeferFuture(h) PROVE ToldTypeOK'
  BY <1>8 DEF DeferFuture
<1>9. ASSUME NEW h \in Handlers, RunStarts(h) PROVE ToldTypeOK'
  BY <1>9 DEF RunStarts
<1>10. ASSUME NEW h \in Handlers, HandlerDies(h) PROVE ToldTypeOK'
  BY <1>10 DEF HandlerDies
<1>11. ASSUME NEW p \in Reconcilers, ScanRoutines(p) PROVE ToldTypeOK'
  BY <1>11 DEF ScanRoutines
<1>12. ASSUME NEW p \in Reconcilers, EnqueueScanned(p) PROVE ToldTypeOK'
  BY <1>12 DEF EnqueueScanned
<1>13. CASE ReadForUpdate
  BY <1>13 DEF ReadForUpdate
<1>14. ASSUME NEW wanted \in BOOLEAN, WriteUpdate(wanted) PROVE ToldTypeOK'
  BY <1>14 DEF WriteUpdate
<1>15. CASE CreateRoutine
  BY <1>15 DEF CreateRoutine
<1>16. CASE SyncSchedule
  BY <1>16 DEF SyncSchedule
<1>17. CASE SyncFails
  BY <1>17 DEF SyncFails
<1>18. CASE RemoveRoutine
  BY <1>18 DEF RemoveRoutine
<1>19. CASE UNCHANGED routineVars
  BY <1>19 DEF routineVars
<1> QED
  BY <1>1, <1>2, <1>3, <1>4, <1>5, <1>6, <1>7, <1>8, <1>9, <1>10, <1>11, <1>12,
     <1>13, <1>14, <1>15, <1>16, <1>17, <1>18, <1>19 DEF RoutineNext, Handle

LEMMA HandlersStep ==
  ASSUME LooseTypeOK, HandlersInv, [RoutineNext]_routineVars
  PROVE  HandlersInv'
<1> USE RoutinesAssumption DEF LooseTypeOK, RoutineRowTypeOK, HandlingTypeOK, HandlersInv,
        Times, MaybeTime,
        row, handling, editing, told, Goto, SameHandling, Done, Mishap
<1>1. CASE Tick
  BY <1>1 DEF Tick
<1>2. ASSUME NEW h \in Handlers, TakeWakeup(h) PROVE HandlersInv'
  BY <1>2 DEF TakeWakeup
<1>3. ASSUME NEW h \in Handlers, ReadRoutine(h) PROVE HandlersInv'
  BY <1>3 DEF ReadRoutine
<1>4. ASSUME NEW h \in Handlers, ClaimFiring(h) PROVE HandlersInv'
  <2>1. UNCHANGED <<once, now, exists, again, job, scanned, editing, mishaps>>
    BY <1>4, ClaimRoutineEffect
  <2>2. CASE Done(h) /\ UNCHANGED <<nextRunAt, ran, active, fired, moved>>
    BY <1>4, <2>1, <2>2, ClaimRoutineEffect
  <2>3. CASE ~(Done(h) /\ UNCHANGED <<nextRunAt, ran, active, fired, moved>>)
    <3>1. PICK next \in MaybeTime :
            /\ wake' = [wake EXCEPT ![h] = "enqueue"]
            /\ myRun' = [myRun EXCEPT ![h] = "queued"]
            /\ follows' = [follows EXCEPT ![h] = next]
            /\ nextRunAt' = next /\ active' = (next # 0)
            /\ ~once => next > now
            /\ scheduledFor' = scheduledFor /\ moved' = moved \cup InFlight
      <4> HIDE DEF LooseTypeOK, HandlersInv, Done
      <4> QED
        BY <1>4, <2>3, ClaimRoutineEffect
    <3>2. scheduledFor[h] \in Times /\ scheduledFor[h] <= now
      <4> HIDE DEF LooseTypeOK, HandlersInv, Done
      <4> QED
        BY <1>4, ClaimRoutineEffect
    <3>3. ~once => next # 0
      BY <3>1 DEF LooseTypeOK, RoutineRowTypeOK
    <3> QED
      BY <2>1, <3>1, <3>2, <3>3
  <2> QED
    BY <2>2, <2>3
<1>5. ASSUME NEW h \in Handlers, EnqueueRun(h) PROVE HandlersInv'
  BY <1>5 DEF EnqueueRun
<1>6. ASSUME NEW h \in Handlers, RestoreFiring(h) PROVE HandlersInv'
  BY <1>6 DEF RestoreFiring
<1>7. ASSUME NEW h \in Handlers, EnqueueNext(h) PROVE HandlersInv'
  BY <1>7 DEF EnqueueNext
<1>8. ASSUME NEW h \in Handlers, DeferFuture(h) PROVE HandlersInv'
  BY <1>8 DEF DeferFuture
<1>9. ASSUME NEW h \in Handlers, RunStarts(h) PROVE HandlersInv'
  BY <1>9 DEF RunStarts
<1>10. ASSUME NEW h \in Handlers, HandlerDies(h) PROVE HandlersInv'
  BY <1>10 DEF HandlerDies
<1>11. ASSUME NEW p \in Reconcilers, ScanRoutines(p) PROVE HandlersInv'
  BY <1>11 DEF ScanRoutines
<1>12. ASSUME NEW p \in Reconcilers, EnqueueScanned(p) PROVE HandlersInv'
  BY <1>12 DEF EnqueueScanned
<1>13. CASE ReadForUpdate
  BY <1>13 DEF ReadForUpdate
<1>14. ASSUME NEW wanted \in BOOLEAN, WriteUpdate(wanted) PROVE HandlersInv'
  BY <1>14 DEF WriteUpdate
<1>15. CASE CreateRoutine
  BY <1>15 DEF CreateRoutine
<1>16. CASE SyncSchedule
  BY <1>16 DEF SyncSchedule
<1>17. CASE SyncFails
  BY <1>17 DEF SyncFails
<1>18. CASE RemoveRoutine
  BY <1>18 DEF RemoveRoutine
<1>19. CASE UNCHANGED routineVars
  BY <1>19 DEF routineVars
<1> QED
  BY <1>1, <1>2, <1>3, <1>4, <1>5, <1>6, <1>7, <1>8, <1>9, <1>10, <1>11, <1>12,
     <1>13, <1>14, <1>15, <1>16, <1>17, <1>18, <1>19 DEF RoutineNext, Handle

LEMMA FiringStep ==
  ASSUME LooseTypeOK, HandlersInv, FiringInv, [RoutineNext]_routineVars
  PROVE  FiringInv'
<1> USE RoutinesAssumption DEF LooseTypeOK, RoutineRowTypeOK, HandlingTypeOK, ToldTypeOK,
        HandlersInv, FiringInv,
        FiresOnce, Times, MaybeTime, row, handling, editing, told, Goto, SameHandling, Done, Mishap,
        CronAfter, Later, Claimable, RestoreRow
<1>1. CASE Tick
  BY <1>1 DEF Tick
<1>2. ASSUME NEW h \in Handlers, TakeWakeup(h) PROVE FiringInv'
  BY <1>2 DEF TakeWakeup
<1>3. ASSUME NEW h \in Handlers, ReadRoutine(h) PROVE FiringInv'
  BY <1>3 DEF ReadRoutine
<1>4. ASSUME NEW h \in Handlers, ClaimFiring(h) PROVE FiringInv'
  <2>1. UNCHANGED <<once, now, exists, again, job, scanned, editing, mishaps>>
    BY <1>4, ClaimRoutineEffect
  <2>2. CASE Done(h) /\ UNCHANGED <<nextRunAt, ran, active, fired, moved>>
    BY <2>1, <2>2
  <2>3. CASE ~(Done(h) /\ UNCHANGED <<nextRunAt, ran, active, fired, moved>>)
    <3> DEFINE t == scheduledFor[h]
    <3>1. /\ t \in Times /\ t <= now /\ t = nextRunAt
          /\ fired' = [fired EXCEPT ![t] = @ + 1]
      BY <1>4, <2>3, ClaimRoutineEffect
    <3>2. nextRunAt' \in MaybeTime /\ (nextRunAt' # 0 => nextRunAt' > now)
      BY <1>4, <2>3, ClaimRoutineEffect
    <3>3. \A s \in Times : fired'[s] = IF s = t THEN fired[t] + 1 ELSE fired[s]
      BY <3>1
    <3> HIDE DEF t
    <3>4. \A s \in Times \ again : fired'[s] <= 1
      BY <3>1, <3>3
    <3>5. nextRunAt' \in Times => fired'[nextRunAt'] <= 0
      BY <3>1, <3>2, <3>3
    <3>6. \A s \in Times : fired'[s] > 0 => s <= now
      BY <3>1, <3>3
    <3> QED
      BY <2>1, <3>4, <3>5, <3>6
  <2> QED
    BY <2>2, <2>3
<1>5. ASSUME NEW h \in Handlers, EnqueueRun(h) PROVE FiringInv'
  BY <1>5 DEF EnqueueRun
<1>6. ASSUME NEW h \in Handlers, RestoreFiring(h) PROVE FiringInv'
  <2> DEFINE t == scheduledFor[h]
  <2>1. t \in Times /\ t <= now
    BY <1>6 DEF RestoreFiring
  <2>2. UNCHANGED <<once, now, exists>> /\ again \subseteq again'
    BY <1>6 DEF RestoreFiring
  <2>3. \A s \in Times : s # t => fired'[s] = fired[s] /\ (s \in again' <=> s \in again)
    BY <1>6 DEF RestoreFiring
  <2>4. fired'[t] <= fired[t] /\ (t \in again' \/ fired'[t] = fired[t] - 1)
    BY <1>6, <2>1 DEF RestoreFiring
  <2>5. fired'[t] \in Int /\ (nextRunAt' = t \/ nextRunAt' = nextRunAt)
    BY <1>6, <2>1 DEF RestoreFiring
  <2> HIDE DEF t
  <2>6. \A s \in Times \ again' : fired'[s] <= 1
    BY <2>1, <2>2, <2>3, <2>4, <2>5
  <2>7. nextRunAt' \in Times \ again' => fired'[nextRunAt'] <= 0
    BY <2>1, <2>2, <2>3, <2>4, <2>5
  <2>8. \A s \in Times : fired'[s] > 0 => s <= now
    BY <2>1, <2>3, <2>4, <2>5
  <2> QED
    BY <2>2, <2>6, <2>7, <2>8
<1>7. ASSUME NEW h \in Handlers, EnqueueNext(h) PROVE FiringInv'
  BY <1>7 DEF EnqueueNext
<1>8. ASSUME NEW h \in Handlers, DeferFuture(h) PROVE FiringInv'
  BY <1>8 DEF DeferFuture
<1>9. ASSUME NEW h \in Handlers, RunStarts(h) PROVE FiringInv'
  BY <1>9 DEF RunStarts
<1>10. ASSUME NEW h \in Handlers, HandlerDies(h) PROVE FiringInv'
  BY <1>10 DEF HandlerDies
<1>11. ASSUME NEW p \in Reconcilers, ScanRoutines(p) PROVE FiringInv'
  BY <1>11 DEF ScanRoutines
<1>12. ASSUME NEW p \in Reconcilers, EnqueueScanned(p) PROVE FiringInv'
  BY <1>12 DEF EnqueueScanned
<1>13. CASE ReadForUpdate
  BY <1>13 DEF ReadForUpdate
<1>14. ASSUME NEW wanted \in BOOLEAN, WriteUpdate(wanted) PROVE FiringInv'
  BY <1>14 DEF WriteUpdate
<1>15. CASE CreateRoutine
  <2>1. UNCHANGED <<now, fired, again>> /\ now = 0 /\ nextRunAt' = 1
    BY <1>15 DEF CreateRoutine
  <2>2. 1 \in Times => fired[1] <= 0
    BY <2>1
  <2> QED
    BY <2>1, <2>2
<1>16. CASE SyncSchedule
  BY <1>16 DEF SyncSchedule
<1>17. CASE SyncFails
  BY <1>17 DEF SyncFails
<1>18. CASE RemoveRoutine
  BY <1>18 DEF RemoveRoutine
<1>19. CASE UNCHANGED routineVars
  BY <1>19 DEF routineVars
<1> QED
  BY <1>1, <1>2, <1>3, <1>4, <1>5, <1>6, <1>7, <1>8, <1>9, <1>10, <1>11, <1>12,
     <1>13, <1>14, <1>15, <1>16, <1>17, <1>18, <1>19 DEF RoutineNext, Handle

LEMMA PauseStep ==
  ASSUME LooseTypeOK, HandlersInv, PauseInv, [RoutineNext]_routineVars
  PROVE  PauseInv'
<1> USE RoutinesAssumption DEF LooseTypeOK, RoutineRowTypeOK, JobTypeOK, HandlingTypeOK,
        HandlersInv, PauseInv,
        row, handling, editing, told, Goto, SameHandling, Done, Mishap,
        Claimable, Restorable, RestoreRow, NextFor, NoEdit
<1>1. CASE Tick
  BY <1>1 DEF Tick
<1>2. ASSUME NEW h \in Handlers, TakeWakeup(h) PROVE PauseInv'
  BY <1>2 DEF TakeWakeup
<1>3. ASSUME NEW h \in Handlers, ReadRoutine(h) PROVE PauseInv'
  BY <1>3 DEF ReadRoutine
<1>4. ASSUME NEW h \in Handlers, ClaimFiring(h) PROVE PauseInv'
  <2>1. UNCHANGED <<once, now, exists, again, job, scanned, editing, mishaps>>
    BY <1>4, ClaimRoutineEffect
  <2>2. CASE Done(h) /\ UNCHANGED <<nextRunAt, ran, active, fired, moved>>
    BY <1>4, <2>1, <2>2, ClaimRoutineEffect
  <2>3. CASE ~(Done(h) /\ UNCHANGED <<nextRunAt, ran, active, fired, moved>>)
    BY <1>4, <2>1, <2>3, ClaimRoutineEffect
  <2> QED
    BY <2>2, <2>3
<1>5. ASSUME NEW h \in Handlers, EnqueueRun(h) PROVE PauseInv'
  BY <1>5 DEF EnqueueRun
<1>6. ASSUME NEW h \in Handlers, RestoreFiring(h) PROVE PauseInv'
  BY <1>6 DEF RestoreFiring
<1>7. ASSUME NEW h \in Handlers, EnqueueNext(h) PROVE PauseInv'
  BY <1>7 DEF EnqueueNext
<1>8. ASSUME NEW h \in Handlers, DeferFuture(h) PROVE PauseInv'
  BY <1>8 DEF DeferFuture
<1>9. ASSUME NEW h \in Handlers, RunStarts(h) PROVE PauseInv'
  BY <1>9 DEF RunStarts
<1>10. ASSUME NEW h \in Handlers, HandlerDies(h) PROVE PauseInv'
  BY <1>10 DEF HandlerDies
<1>11. ASSUME NEW p \in Reconcilers, ScanRoutines(p) PROVE PauseInv'
  BY <1>11 DEF ScanRoutines
<1>12. ASSUME NEW p \in Reconcilers, EnqueueScanned(p) PROVE PauseInv'
  BY <1>12 DEF EnqueueScanned
<1>13. CASE ReadForUpdate
  BY <1>13 DEF ReadForUpdate
<1>14. ASSUME NEW wanted \in BOOLEAN, WriteUpdate(wanted) PROVE PauseInv'
  BY <1>14 DEF WriteUpdate
<1>15. CASE CreateRoutine
  BY <1>15 DEF CreateRoutine
<1>16. CASE SyncSchedule
  BY <1>16 DEF SyncSchedule
<1>17. CASE SyncFails
  BY <1>17 DEF SyncFails
<1>18. CASE RemoveRoutine
  BY <1>18 DEF RemoveRoutine
<1>19. CASE UNCHANGED routineVars
  BY <1>19 DEF routineVars
<1> QED
  BY <1>1, <1>2, <1>3, <1>4, <1>5, <1>6, <1>7, <1>8, <1>9, <1>10, <1>11, <1>12,
     <1>13, <1>14, <1>15, <1>16, <1>17, <1>18, <1>19 DEF RoutineNext, Handle

LEMMA KeptStep ==
  ASSUME LooseTypeOK, HandlersInv, KeptInv, [RoutineNext]_routineVars
  PROVE  KeptInv'
<1> USE RoutinesAssumption DEF LooseTypeOK, RoutineRowTypeOK, HandlingTypeOK, HandlersInv, KeptInv,
        row, handling, editing, told, Goto, SameHandling, Done, Mishap,
        Claimable, Restorable, RestoreRow, InFlight, InFlightBut, Unenqueued
<1>1. CASE Tick
  BY <1>1 DEF Tick
<1>2. ASSUME NEW h \in Handlers, TakeWakeup(h) PROVE KeptInv'
  BY <1>2 DEF TakeWakeup
<1>3. ASSUME NEW h \in Handlers, ReadRoutine(h) PROVE KeptInv'
  BY <1>3 DEF ReadRoutine
<1>4. ASSUME NEW h \in Handlers, ClaimFiring(h) PROVE KeptInv'
  <2>1. UNCHANGED <<once, now, exists, again, job, scanned, editing, mishaps>>
    BY <1>4, ClaimRoutineEffect
  <2>2. CASE Done(h) /\ UNCHANGED <<nextRunAt, ran, active, fired, moved>>
    BY <1>4, <2>1, <2>2, ClaimRoutineEffect
  <2>3. CASE ~(Done(h) /\ UNCHANGED <<nextRunAt, ran, active, fired, moved>>)
    <3>1. PICK next \in MaybeTime :
            /\ wake' = [wake EXCEPT ![h] = "enqueue"]
            /\ myRun' = [myRun EXCEPT ![h] = "queued"]
            /\ follows' = [follows EXCEPT ![h] = next]
            /\ nextRunAt' = next /\ active' = (next # 0)
            /\ ~once => next > now
            /\ scheduledFor' = scheduledFor /\ moved' = moved \cup InFlight
      <4> HIDE DEF LooseTypeOK, HandlersInv, Done
      <4> QED
        BY <1>4, <2>3, ClaimRoutineEffect
    <3>2. \A k \in Unenqueued' : k # h => scheduledFor'[k] \in moved'
      BY <3>1
    <3>3. scheduledFor'[h] = scheduledFor[h] /\ follows'[h] = nextRunAt'
      BY <3>1
    <3>4. follows'[h] = 0 => ~active'
      BY <3>1
    <3> QED
      BY <3>2, <3>3, <3>4
  <2> QED
    BY <2>2, <2>3
<1>5. ASSUME NEW h \in Handlers, EnqueueRun(h) PROVE KeptInv'
  BY <1>5 DEF EnqueueRun
<1>6. ASSUME NEW h \in Handlers, RestoreFiring(h) PROVE KeptInv'
  BY <1>6 DEF RestoreFiring
<1>7. ASSUME NEW h \in Handlers, EnqueueNext(h) PROVE KeptInv'
  BY <1>7 DEF EnqueueNext
<1>8. ASSUME NEW h \in Handlers, DeferFuture(h) PROVE KeptInv'
  BY <1>8 DEF DeferFuture
<1>9. ASSUME NEW h \in Handlers, RunStarts(h) PROVE KeptInv'
  BY <1>9 DEF RunStarts
<1>10. ASSUME NEW h \in Handlers, HandlerDies(h) PROVE KeptInv'
  BY <1>10 DEF HandlerDies
<1>11. ASSUME NEW p \in Reconcilers, ScanRoutines(p) PROVE KeptInv'
  BY <1>11 DEF ScanRoutines
<1>12. ASSUME NEW p \in Reconcilers, EnqueueScanned(p) PROVE KeptInv'
  BY <1>12 DEF EnqueueScanned
<1>13. CASE ReadForUpdate
  BY <1>13 DEF ReadForUpdate
<1>14. ASSUME NEW wanted \in BOOLEAN, WriteUpdate(wanted) PROVE KeptInv'
  BY <1>14 DEF WriteUpdate
<1>15. CASE CreateRoutine
  BY <1>15 DEF CreateRoutine, Times
<1>16. CASE SyncSchedule
  BY <1>16 DEF SyncSchedule
<1>17. CASE SyncFails
  BY <1>17 DEF SyncFails
<1>18. CASE RemoveRoutine
  BY <1>18 DEF RemoveRoutine
<1>19. CASE UNCHANGED routineVars
  BY <1>19 DEF routineVars
<1> QED
  BY <1>1, <1>2, <1>3, <1>4, <1>5, <1>6, <1>7, <1>8, <1>9, <1>10, <1>11, <1>12,
     <1>13, <1>14, <1>15, <1>16, <1>17, <1>18, <1>19 DEF RoutineNext, Handle

\* One more or one fewer handler changes a finite set's size by one.
LEMMA SizeStep ==
  ASSUME NEW S, IsFiniteSet(S), NEW h
  PROVE  /\ Cardinality(S) \in Nat
         /\ Cardinality(S \cup {h}) <= Cardinality(S) + 1
         /\ h \in S => Cardinality(S \ {h}) = Cardinality(S) - 1
<1>1. Cardinality(S) \in Nat
  BY FS_CardinalityType
<1>2. Cardinality(S \cup {h}) = IF h \in S THEN Cardinality(S) ELSE Cardinality(S) + 1
  BY FS_AddElement
<1>3. Cardinality(S \ {h}) = IF h \in S THEN Cardinality(S) - 1 ELSE Cardinality(S)
  BY FS_RemoveElement
<1> QED
  BY <1>1, <1>2, <1>3

LEMMA HandlerSets ==
  ASSUME RoutinesAssumption, NEW S \in SUBSET Handlers
  PROVE  /\ IsFiniteSet(S) /\ Cardinality(S) \in Nat
         /\ \A T \in SUBSET S :
              Cardinality(T) \in Nat /\ Cardinality(T) <= Cardinality(S)
  BY FS_Subset, FS_CardinalityType DEF RoutinesAssumption

LEMMA CountsStep ==
  ASSUME LooseTypeOK, HandlersInv, CountsInv, [RoutineNext]_routineVars
  PROVE  CountsInv'
<1> SUFFICES ASSUME NEW t \in Times
             PROVE  Cardinality(Withdrawable(t)') <= fired'[t]
  BY DEF CountsInv
<1> DEFINE W == Withdrawable(t)
<1>0. /\ IsFiniteSet(W) /\ Cardinality(W) \in Nat /\ fired[t] \in Int
      /\ Cardinality(W) <= fired[t]
      /\ \A T \in SUBSET W :
           Cardinality(T) \in Nat /\ Cardinality(T) <= Cardinality(W)
  <2>1. W \in SUBSET Handlers
    BY DEF Withdrawable
  <2> QED
    BY <2>1, HandlerSets, RoutinesAssumption DEF CountsInv, LooseTypeOK, ToldTypeOK
<1> HIDE DEF W
\* Most steps withdraw or start runs, or leave them alone.
<1>1. CASE Withdrawable(t)' \subseteq W /\ fired'[t] = fired[t]
  BY <1>0, <1>1
<1>2. CASE UNCHANGED <<myRun, scheduledFor, fired>>
  BY <1>1, <1>2 DEF W, Withdrawable
<1>3. ASSUME NEW h \in Handlers, Done(h), fired' = fired
      PROVE  Cardinality(Withdrawable(t)') <= fired'[t]
  <2>1. Withdrawable(t)' \subseteq W
    BY <1>3 DEF Done, W, Withdrawable, LooseTypeOK, HandlingTypeOK
  <2> QED
    BY <1>1, <1>3, <2>1
<1>4. ASSUME NEW h \in Handlers, TakeWakeup(h)
      PROVE  Cardinality(Withdrawable(t)') <= fired'[t]
  <2>1. /\ myRun[h] = "none" /\ UNCHANGED <<myRun, fired>>
        /\ \A k \in Handlers : k # h => scheduledFor'[k] = scheduledFor[k]
    BY <1>4 DEF TakeWakeup, HandlersInv, LooseTypeOK, HandlingTypeOK, told
  <2>2. Withdrawable(t)' \subseteq W
    BY <2>1 DEF W, Withdrawable
  <2> QED
    BY <1>1, <2>1, <2>2
<1>5. ASSUME NEW h \in Handlers, ReadRoutine(h)
      PROVE  Cardinality(Withdrawable(t)') <= fired'[t]
  BY <1>2, <1>3, <1>5 DEF ReadRoutine, told
<1>6. ASSUME NEW h \in Handlers, ClaimFiring(h)
      PROVE  Cardinality(Withdrawable(t)') <= fired'[t]
  <2>1. CASE Done(h) /\ fired' = fired
    BY <1>3, <2>1
  <2>2. CASE ~(Done(h) /\ fired' = fired)
    <3>1. /\ myRun' = [myRun EXCEPT ![h] = "queued"]
          /\ scheduledFor' = scheduledFor /\ scheduledFor[h] \in Times
          /\ fired' = [fired EXCEPT ![scheduledFor[h]] = @ + 1]
      BY <1>6, <2>2, ClaimRoutineEffect
    <3>2. CASE scheduledFor[h] = t
      <4>1. Withdrawable(t)' = W \cup {h}
        BY <3>1, <3>2 DEF W, Withdrawable, LooseTypeOK, HandlingTypeOK
      <4>2. fired'[t] = fired[t] + 1
        BY <3>1, <3>2 DEF LooseTypeOK, ToldTypeOK
      <4>3. Cardinality(W \cup {h}) <= Cardinality(W) + 1
        BY <1>0, SizeStep
      <4>4. Cardinality(W \cup {h}) \in Nat
        BY <1>0, FS_AddElement, FS_CardinalityType
      <4> QED
        BY <1>0, <4>1, <4>2, <4>3, <4>4
    <3>3. CASE scheduledFor[h] # t
      <4>1. Withdrawable(t)' \subseteq W /\ fired'[t] = fired[t]
        BY <3>1, <3>3 DEF W, Withdrawable, LooseTypeOK, HandlingTypeOK, ToldTypeOK
      <4> QED
        BY <1>1, <4>1
    <3> QED
      BY <3>2, <3>3
  <2> QED
    BY <2>1, <2>2
<1>7. ASSUME NEW h \in Handlers, RestoreFiring(h)
      PROVE  Cardinality(Withdrawable(t)') <= fired'[t]
  <2>1. Done(h) /\ wake[h] = "restore"
    BY <1>7 DEF RestoreFiring
  <2>2. CASE fired' = fired
    BY <1>3, <2>1, <2>2
  <2>3. CASE fired' # fired
    <3>1. /\ myRun[h] = "queued" /\ scheduledFor[h] \in Times
          /\ fired' = [fired EXCEPT ![scheduledFor[h]] = @ - 1]
      BY <1>7, <2>1, <2>3 DEF RestoreFiring, HandlersInv
    <3>2. Withdrawable(t)' \subseteq W \ {h}
      BY <2>1 DEF Done, W, Withdrawable, LooseTypeOK, HandlingTypeOK
    <3>3. CASE scheduledFor[h] = t
      <4>1. h \in W
        BY <3>1, <3>3 DEF W, Withdrawable
      <4>2. /\ IsFiniteSet(W \ {h}) /\ Cardinality(W \ {h}) = Cardinality(W) - 1
        BY <1>0, <4>1, FS_RemoveElement
      <4>3. /\ Cardinality(Withdrawable(t)') <= Cardinality(W \ {h})
            /\ Cardinality(Withdrawable(t)') \in Nat
        BY <3>2, <4>2, FS_Subset, FS_CardinalityType
      <4>4. fired'[t] = fired[t] - 1
        BY <3>1, <3>3 DEF LooseTypeOK, ToldTypeOK
      <4> QED
        BY <1>0, <4>2, <4>3, <4>4
    <3>4. CASE scheduledFor[h] # t
      <4>1. fired'[t] = fired[t]
        BY <3>1, <3>4 DEF LooseTypeOK, ToldTypeOK
      <4> QED
        BY <1>1, <3>2, <4>1
    <3> QED
      BY <3>3, <3>4
  <2> QED
    BY <2>2, <2>3
<1>8. ASSUME NEW h \in Handlers, RunStarts(h)
      PROVE  Cardinality(Withdrawable(t)') <= fired'[t]
  <2>1. Withdrawable(t)' \subseteq W /\ fired'[t] = fired[t]
    BY <1>8 DEF RunStarts, told, W, Withdrawable, LooseTypeOK, HandlingTypeOK
  <2> QED
    BY <1>1, <2>1
<1>9. ASSUME NEW h \in Handlers, EnqueueRun(h)
      PROVE  Cardinality(Withdrawable(t)') <= fired'[t]
  BY <1>2, <1>9 DEF EnqueueRun, SameHandling, told
<1>10. ASSUME NEW h \in Handlers, EnqueueNext(h) \/ DeferFuture(h) \/ HandlerDies(h)
       PROVE  Cardinality(Withdrawable(t)') <= fired'[t]
  BY <1>3, <1>10 DEF EnqueueNext, DeferFuture, HandlerDies, told
<1>11. ASSUME NEW p \in Reconcilers, ScanRoutines(p) \/ EnqueueScanned(p)
       PROVE  Cardinality(Withdrawable(t)') <= fired'[t]
  BY <1>2, <1>11 DEF ScanRoutines, EnqueueScanned, handling, told
<1>12. ASSUME NEW wanted \in BOOLEAN, WriteUpdate(wanted)
       PROVE  Cardinality(Withdrawable(t)') <= fired'[t]
  BY <1>2, <1>12 DEF WriteUpdate, handling
<1>13. CASE Tick \/ ReadForUpdate \/ CreateRoutine \/ SyncSchedule \/ SyncFails
            \/ RemoveRoutine
  BY <1>2, <1>13 DEF Tick, ReadForUpdate, CreateRoutine, SyncSchedule, SyncFails,
                     RemoveRoutine, handling, told
<1>14. CASE UNCHANGED routineVars
  BY <1>2, <1>14 DEF routineVars, handling, told
<1> QED
  BY <1>4, <1>5, <1>6, <1>7, <1>8, <1>9, <1>10, <1>11, <1>12, <1>13, <1>14
  DEF RoutineNext, Handle

-----------------------------------------------------------------------------
(* The invariant.                                                          *)

LEMMA RoutineInvStart == RoutineInit => RoutineInv
<1> SUFFICES ASSUME RoutineInit PROVE RoutineInv
  OBVIOUS
<1> USE RoutinesAssumption DEF RoutineInit
<1>1. LooseTypeOK
  <2>0. 0 \in MaybeTime /\ 0 \in 0 .. MaxTime /\ 0 \in Nat
    BY DEF MaybeTime
  <2>1. RoutineRowTypeOK
    BY <2>0, Zenon DEF RoutineRowTypeOK
  <2>5. JobTypeOK
    BY <2>0, Zenon DEF JobTypeOK
  <2>2. HandlingTypeOK
    BY DEF HandlingTypeOK, MaybeTime
  <2>3. ToldTypeOK
    BY DEF ToldTypeOK
  <2>4. edit \in EditStates
    BY DEF EditStates, NoEdit, MaybeTime
  <2> QED
    BY <2>1, <2>2, <2>3, <2>4, <2>5 DEF LooseTypeOK
<1>2. CountsInv
  <2>1. \A t \in Times : Withdrawable(t) = {}
    BY DEF Withdrawable
  <2> QED
    BY <2>1, FS_EmptySet DEF CountsInv
<1>3. HandlersInv
  BY DEF HandlersInv
<1>4. FiringInv
  BY DEF FiringInv, FiresOnce
<1>5. PauseInv
  BY DEF PauseInv, NoEdit
<1>6. KeptInv
  BY DEF KeptInv, Unenqueued
<1> QED
  BY <1>1, <1>2, <1>3, <1>4, <1>5, <1>6 DEF RoutineInv

LEMMA RoutineInvStep == RoutineInv /\ [RoutineNext]_routineVars => RoutineInv'
<1> SUFFICES ASSUME RoutineInv, [RoutineNext]_routineVars PROVE RoutineInv'
  OBVIOUS
<1> USE DEF RoutineInv
<1>1. LooseTypeOK'
  BY RoutineRowTypeStep, JobTypeStep, HandlingTypeStep, ToldTypeStep, EditStep DEF LooseTypeOK
<1> QED
  BY <1>1, HandlersStep, CountsStep, FiringStep, PauseStep, KeptStep

LEMMA RoutineInvHolds ==
  RoutineInit /\ [][RoutineNext]_routineVars => []RoutineInv
BY RoutineInvStart, RoutineInvStep, PTL

-----------------------------------------------------------------------------
(* The theorems about routines.                                            *)

\* The counts are never negative: a run is withdrawn once, and by its handler.
LEMMA RoutineInvTyped == RoutineInv => RoutineTypeOK
<1> SUFFICES ASSUME RoutineInv PROVE RoutineTypeOK
  OBVIOUS
<1> USE DEF RoutineInv, LooseTypeOK
<1>1. fired \in [Times -> Nat]
  <2>1. \A t \in Times : Cardinality(Withdrawable(t)) \in Nat
    BY HandlerSets, RoutinesAssumption DEF Withdrawable
  <2>2. \A t \in Times : fired[t] \in Nat
    BY <2>1 DEF CountsInv, ToldTypeOK
  <2> QED
    BY <2>2 DEF ToldTypeOK
<1>2. now \in MaybeTime
  BY RoutinesAssumption DEF RoutineRowTypeOK, MaybeTime
<1> QED
  BY <1>1, <1>2 DEF RoutineTypeOK, RoutineRowTypeOK, JobTypeOK, HandlingTypeOK, ToldTypeOK

\* Every variable has its type.
THEOREM RoutineTypeCorrect == RoutineSpec => []RoutineTypeOK
BY RoutineInvTyped, RoutineInvHolds, PTL DEF RoutineSpec

\* However many wake-ups arrive for a due time, from whichever replicas, it
\* fires once, unless the user set it again or its run had already started.
THEOREM RoutineFiresOnce == RoutineSpec => []FiresOnce
<1>1. RoutineInv => FiresOnce
  BY DEF RoutineInv, FiringInv
<1> QED
  BY <1>1, RoutineInvHolds, PTL DEF RoutineSpec

\* No claim, restore or reconciler makes a paused recurring routine active.
THEOREM PausesHold == RoutineSpec => []PauseHolds
<1>1. RoutineInv => PauseHolds
  BY DEF RoutineInv, PauseInv, PauseHolds
<1> QED
  BY <1>1, RoutineInvHolds, PTL DEF RoutineSpec

\* A claimed firing whose run is withdrawn is due again: the compared row is
\* as the claim left it, unless its time was moved.
THEOREM FiringsAreKept == RoutineSpec => FiringKept
<1>1. ASSUME RoutineInv, [RoutineNext]_routineVars, NEW t \in Times, fired'[t] < fired[t]
      PROVE  (nextRunAt' = t /\ active') \/ t \in moved \/ ~exists
  <2> USE DEF RoutineInv, LooseTypeOK
  <2>0. fired \in [Times -> Int]
    BY <1>1 DEF ToldTypeOK
  <2>1. fired' # fired
    BY <1>1, <2>0
  <2>2. ASSUME NEW h \in Handlers, ClaimFiring(h) PROVE FALSE
    <3>1. PICK s \in Times : fired' = [fired EXCEPT ![s] = @ + 1]
      BY <1>1, <2>1, <2>2, ClaimRoutineEffect
    <3> QED
      BY <1>1, <2>0, <3>1
  <2>3. ASSUME NEW h \in Handlers, RestoreFiring(h)
        PROVE  (nextRunAt' = t /\ active') \/ t \in moved \/ ~exists
    <3>1. wake[h] = "restore" /\ scheduledFor[h] = t
      BY <1>1, <2>0, <2>3 DEF RestoreFiring
    <3>2. CASE Restorable(h)
      BY <2>3, <3>1, <3>2 DEF RestoreFiring, RestoreRow
    <3>3. CASE ~Restorable(h)
      BY <1>1, <3>1, <3>3 DEF Restorable, KeptInv, Unenqueued
    <3> QED
      BY <3>2, <3>3
  <2>4. \E h \in Handlers : ClaimFiring(h) \/ RestoreFiring(h)
    BY <1>1, <2>1
    DEF RoutineNext, routineVars, Handle, told, Tick, TakeWakeup, ReadRoutine, EnqueueRun,
        EnqueueNext, DeferFuture, RunStarts, HandlerDies, ScanRoutines, EnqueueScanned,
        ReadForUpdate, WriteUpdate, CreateRoutine, SyncSchedule, SyncFails, RemoveRoutine
  <2> QED
    BY <2>2, <2>3, <2>4
<1>2. RoutineInv /\ [RoutineNext]_routineVars =>
        [\A t \in Times : fired'[t] < fired[t] =>
           \/ nextRunAt' = t /\ active'
           \/ t \in moved \/ ~exists]_routineVars
  BY <1>1
<1> QED
  BY <1>2, RoutineInvHolds, PTL DEF RoutineSpec, FiringKept
================================================================================
