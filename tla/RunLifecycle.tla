---------------------------- MODULE RunLifecycle ----------------------------
(***************************************************************************)
(* One run of a bot, from the row a message creates to its outcome.        *)
(*                                                                         *)
(* The run row is a lease: a job slot of a worker claims it under a fence, *)
(* works for as long as it can renew the lease, and commits an outcome or  *)
(* a pause only if (status, leaseOwner, leaseFence) still read as it left  *)
(* them.  Slots are the concurrent handlers of graphile-worker; WorkerOf   *)
(* names the process a slot belongs to, and leaseOwner is that process id, *)
(* so slots of one worker share it.  Jobs may be duplicated (the           *)
(* reconciler, retries), a worker may die, a lease may lapse under a slot  *)
(* that is alive, and the user may answer, release, stop or clear at any   *)
(* moment.                                                                 *)
(***************************************************************************)
EXTENDS Naturals

CONSTANTS
  Slots,      \* job slots: concurrent executions of the run.continue handler
  Workers,    \* worker process ids (leaseOwner)
  WorkerOf,   \* the process each slot runs in
  NoWorker,   \* leaseOwner = null
  MaxFaults,  \* bound: crashes, lapses, busy computers and failed calls
  MaxPauses   \* bound: questions and takeover requests of the agent

ASSUME WorkerAssumption ==
  /\ WorkerOf \in [Slots -> Workers]
  /\ NoWorker \notin Workers
ASSUME BoundAssumption == MaxFaults \in Nat /\ MaxPauses \in Nat

VARIABLES
  status, leaseOwner, leaseFence, leaseExpiresAt, checkpoint, \* the run row
  job,         \* a run.continue job for this run waits in the queue
  scanned,     \* the reconciler read the row and has yet to enqueue
  pc,          \* where each slot is in continueRun
  fence,       \* continueRun's local fence
  resume,      \* continueRun's local resumeCheckpoint
  attempt,     \* status of the slot's attempt row
  leaseValid,  \* the slots whose local leaseValid is true
  sawExpired,  \* slots whose local now is past the row's leaseExpiresAt
  outcomes,    \* history: run.completed and run.failed events committed
  regressed,   \* history: some claim wrote a fence that was not higher
  faults, pauses

row == <<status, leaseOwner, leaseFence, leaseExpiresAt, checkpoint>>
queue == <<job, scanned>>
local == <<pc, fence, resume, attempt, leaseValid>>
history == <<outcomes, regressed>>
bounds == <<faults, pauses>>
vars == <<row, queue, local, sawExpired, history, bounds>>

Parked == {"queued", "waiting_input", "waiting_takeover"}
Held == {"leased", "running"}
Active == Parked \cup Held
Terminal == {"completed", "failed", "cancelled"}
RunStatus == Active \cup Terminal

Resumes == {"none", "takeover", "takeover-skipped"}
Expiries == {"null", "future", "past"}
AttemptStatus == {"none", "running", "waiting_input", "waiting_takeover",
                  "completed", "failed", "cancelled", "setup_failed"}

\* Before the claim; claimed but without an attempt; with one; on the way out.
Unclaimed == {"idle", "read", "claim"}
Starting == {"reread", "start", "target", "attempt"}
Committing == {"pauseInput", "pauseTakeover", "complete", "fail"}
Attempting == {"setup", "work"} \cup Committing
Leaving == {"requeued", "unwind", "finally", "finallyRetry"}
Beating == Attempting \cup {"unwind"}   \* the heartbeat timer is set
Places == Unclaimed \cup Starting \cup Attempting \cup Leaving

TypeOK ==
  /\ status \in RunStatus
  /\ leaseOwner \in Workers \cup {NoWorker}
  /\ leaseFence \in Nat
  /\ leaseExpiresAt \in Expiries
  /\ checkpoint \in Resumes
  /\ job \in BOOLEAN /\ scanned \in BOOLEAN
  /\ pc \in [Slots -> Places]
  /\ fence \in [Slots -> Nat]
  /\ resume \in [Slots -> Resumes]
  /\ attempt \in [Slots -> AttemptStatus]
  /\ leaseValid \in SUBSET Slots
  /\ sawExpired \in SUBSET Slots
  /\ outcomes \in Nat
  /\ regressed \in BOOLEAN
  /\ faults \in Nat /\ pauses \in Nat

Init ==
  /\ status = "queued"
  /\ leaseOwner = NoWorker
  /\ leaseFence = 0
  /\ leaseExpiresAt = "null"
  /\ checkpoint = "none"
  /\ job \in BOOLEAN          \* the enqueue after the commit may have failed
  /\ scanned = FALSE
  /\ pc = [s \in Slots |-> "idle"]
  /\ fence = [s \in Slots |-> 0]
  /\ resume = [s \in Slots |-> "none"]
  /\ attempt = [s \in Slots |-> "none"]
  /\ leaseValid = Slots
  /\ sawExpired = {}
  /\ outcomes = 0
  /\ regressed = FALSE
  /\ faults = 0 /\ pauses = 0

-----------------------------------------------------------------------------
(* Helpers.                                                                *)

Goto(s, place) == pc' = [pc EXCEPT ![s] = place]

\* The handler returns; its locals are gone.
Return(s) ==
  /\ Goto(s, "idle")
  /\ fence' = [fence EXCEPT ![s] = 0]
  /\ resume' = [resume EXCEPT ![s] = "none"]
  /\ attempt' = [attempt EXCEPT ![s] = "none"]
  /\ leaseValid' = leaseValid \cup {s}
  /\ sawExpired' = sawExpired \ {s}

KeepLocals == UNCHANGED <<fence, resume, attempt, leaseValid, sawExpired>>

Fault == faults < MaxFaults /\ faults' = faults + 1 /\ UNCHANGED pauses

\* Mutant: the where-clause without the fence.
MatchesOwnerOnly(s) == leaseOwner = WorkerOf[s]

\* The where-clause every write of a slot carries.
Matches(s) == leaseOwner = WorkerOf[s] /\ leaseFence = fence[s]

Holds(s) == status = "running" /\ Matches(s)

\* renewRunLease: a new leaseExpiresAt is later than every now taken before.
Renew ==
  /\ leaseExpiresAt' = "future"
  /\ sawExpired' = {}
  /\ UNCHANGED <<status, leaseOwner, leaseFence, checkpoint>>

\* The row data of pauses, outcomes and requeues: the lease is given up.
Park(next, ck) ==
  /\ status' = next
  /\ leaseOwner' = NoWorker
  /\ leaseExpiresAt' = "null"
  /\ checkpoint' = ck
  /\ UNCHANGED leaseFence

-----------------------------------------------------------------------------
(* continueRun, up to the attempt row.                                     *)

PickJob(s) ==
  /\ pc[s] = "idle" /\ job
  /\ job' = FALSE
  /\ Goto(s, "read")
  /\ UNCHANGED <<row, scanned, fence, resume, attempt, leaseValid,
                 sawExpired, history, bounds>>

ReadRun(s) ==
  /\ pc[s] = "read"
  /\ \/ status \in Terminal /\ Return(s)
     \/ /\ status \notin Terminal
        /\ Goto(s, "claim")
        /\ fence' = [fence EXCEPT ![s] = leaseFence + 1]
        /\ resume' = [resume EXCEPT ![s] = checkpoint]
        /\ sawExpired' = IF leaseExpiresAt = "past" THEN sawExpired \cup {s}
                                                   ELSE sawExpired
        /\ UNCHANGED <<attempt, leaseValid>>
  /\ UNCHANGED <<row, queue, history, bounds>>

\* Mutant: a held row may be claimed without looking at its expiry.
ClaimableUnexpired(s) == status \in Parked \cup Held

Claimable(s) ==
  \/ status \in Parked
  \/ status \in Held /\ s \in sawExpired

\* The claim does not compare the row's fence with the one it read.
ClaimRun(s) ==
  /\ pc[s] = "claim"
  /\ \/ /\ Claimable(s)
        /\ status' = "leased"
        /\ leaseOwner' = WorkerOf[s]
        /\ leaseFence' = fence[s]
        /\ leaseExpiresAt' = "future"
        /\ checkpoint' = "none"
        /\ sawExpired' = {}
        /\ regressed' = IF fence[s] > leaseFence THEN regressed ELSE TRUE
        /\ Goto(s, "reread")
        /\ UNCHANGED <<fence, resume, attempt, leaseValid>>
     \/ /\ ~Claimable(s)
        /\ Return(s)
        /\ UNCHANGED <<row, regressed>>
  /\ UNCHANGED <<queue, outcomes, bounds>>

\* The row is read again and assertTransition(status, running) throws when
\* it was parked in the meantime; graphile-worker then retries the job.
RereadRun(s) ==
  /\ pc[s] = "reread"
  /\ \/ status \in Parked /\ Return(s) /\ job' = TRUE
     \/ /\ status \notin Parked
        /\ Goto(s, "start") /\ KeepLocals
        /\ UNCHANGED job
  /\ UNCHANGED <<row, scanned, history, bounds>>

StartRun(s) ==
  /\ pc[s] = "start"
  /\ \/ /\ status = "leased" /\ Matches(s)
        /\ status' = "running"
        /\ Goto(s, "target") /\ KeepLocals
     \/ /\ ~(status = "leased" /\ Matches(s))
        /\ Return(s)
        /\ UNCHANGED status
  /\ UNCHANGED <<leaseOwner, leaseFence, leaseExpiresAt, checkpoint, queue,
                 history, bounds>>

AcquireComputer(s) ==
  /\ pc[s] = "target"
  /\ Goto(s, "attempt") /\ KeepLocals
  /\ UNCHANGED <<row, queue, history, bounds>>

\* requeueComputerRun: the computer is switching or its lease is taken.
RequeueBusy(s) ==
  /\ pc[s] = "target" /\ Fault
  /\ \/ /\ Holds(s)
        /\ Park("queued", resume[s])
        /\ Goto(s, "requeued") /\ KeepLocals
     \/ /\ ~Holds(s)
        /\ Return(s)
        /\ UNCHANGED row
  /\ UNCHANGED <<queue, history>>

EnqueueRetry(s) ==
  /\ pc[s] = "requeued"
  /\ job' = TRUE
  /\ Return(s)
  /\ UNCHANGED <<row, scanned, history, bounds>>

CreateAttempt(s) ==
  /\ pc[s] = "attempt"
  /\ attempt' = [attempt EXCEPT ![s] = "running"]
  /\ Goto(s, "setup")
  /\ UNCHANGED <<row, queue, fence, resume, leaseValid, sawExpired, history,
                 bounds>>

\* A database call before the attempt row fails: the job is retried, and a
\* row that was claimed stays claimed.
CallFails(s) ==
  /\ pc[s] \in {"read", "claim"} \cup Starting /\ Fault
  /\ job' = TRUE
  /\ Return(s)
  /\ UNCHANGED <<row, scanned, history>>

-----------------------------------------------------------------------------
(* continueRun, with an attempt.                                           *)

FinishSetup(s) ==
  /\ pc[s] = "setup"
  /\ Goto(s, "work") /\ KeepLocals
  /\ UNCHANGED <<row, queue, history, bounds>>

\* Setup throws, or recording a failure does: the outer catch takes over.
SetupFails(s) ==
  /\ pc[s] \in {"setup", "fail"} /\ Fault
  /\ Goto(s, "unwind") /\ KeepLocals
  /\ UNCHANGED <<row, queue, history>>

RequeueFailedSetup(s) ==
  /\ pc[s] = "unwind"
  /\ \/ /\ Holds(s)
        /\ Park("queued", resume[s])
        /\ attempt' = [attempt EXCEPT ![s] = "setup_failed"]
        /\ Goto(s, "finallyRetry")
     \/ /\ ~Holds(s)
        /\ Goto(s, "finally")
        /\ UNCHANGED <<row, attempt>>
  /\ UNCHANGED <<queue, fence, resume, leaseValid, sawExpired, history,
                 bounds>>

\* Mutant: the renewal does not test the status.
HeartbeatAnyStatus(s) ==
  /\ pc[s] \in Beating
  /\ \/ Matches(s) /\ Renew /\ UNCHANGED leaseValid
     \/ /\ ~Matches(s)
        /\ leaseValid' = leaseValid \ {s}
        /\ UNCHANGED <<row, sawExpired>>
  /\ UNCHANGED <<queue, pc, fence, resume, attempt, history, bounds>>

\* The timer: renew, and remember when the lease is no longer ours.
Heartbeat(s) ==
  /\ pc[s] \in Beating
  /\ \/ Holds(s) /\ Renew /\ UNCHANGED leaseValid
     \/ /\ ~Holds(s)
        /\ leaseValid' = leaseValid \ {s}
        /\ UNCHANGED <<row, sawExpired>>
  /\ UNCHANGED <<queue, pc, fence, resume, attempt, history, bounds>>

\* One of the two renewals was refused or threw: the work is aborted, whether
\* or not the run's own lease was renewed.
Abort(s) ==
  /\ pc[s] \in Beating
  /\ leaseValid' = leaseValid \ {s}
  /\ \/ Holds(s) /\ Renew
     \/ UNCHANGED <<row, sawExpired>>
  /\ UNCHANGED <<queue, pc, fence, resume, attempt, history>>

HeartbeatFails(s) == Abort(s) /\ Fault

\* The abort ends the runtime's event loop.
LeaveLostLease(s) ==
  /\ pc[s] = "work" /\ s \notin leaseValid
  /\ Goto(s, "finally") /\ KeepLocals
  /\ UNCHANGED <<row, queue, history, bounds>>

\* While the agent produces events, the loop reads the row once a second.
PollRow(s) ==
  /\ pc[s] = "work"
  /\ status = "cancelled" \/ ~Matches(s)
  /\ leaseValid' = leaseValid \ {s}
  /\ Goto(s, "finally")
  /\ UNCHANGED <<row, queue, fence, resume, attempt, sawExpired, history,
                 bounds>>

\* The agent asks, wants the user at the screen, or is done: the lease is
\* renewed first and the workspace checkpointed before the commit.
RenewFor(s, place) ==
  /\ pc[s] = "work"
  /\ \/ Holds(s) /\ Renew /\ Goto(s, place)
     \/ ~Holds(s) /\ Goto(s, "finally") /\ UNCHANGED <<row, sawExpired>>
  /\ UNCHANGED <<queue, fence, resume, attempt, leaseValid, history, faults>>

Pause == pauses < MaxPauses /\ pauses' = pauses + 1

AskUser(s) == Pause /\ RenewFor(s, "pauseInput")
RequestTakeover(s) == Pause /\ RenewFor(s, "pauseTakeover")
FinishTurn(s) == RenewFor(s, "complete") /\ UNCHANGED pauses

\* Anything in the inner try throws, the abort of the runtime included.
WorkFails(s) ==
  /\ pc[s] \in {"work", "pauseInput", "pauseTakeover", "complete"}
  /\ Goto(s, "fail") /\ KeepLocals
  /\ UNCHANGED <<row, queue, history, bounds>>

\* Mutant: the row is written whoever holds it.
CommitUnfenced(s, next, ck, onThrow) ==
  \/ /\ attempt[s] = "running"
     /\ Park(next, ck)
     /\ attempt' = [attempt EXCEPT ![s] = next]
     /\ Goto(s, "finally")
  \/ /\ attempt[s] # "running"
     /\ Goto(s, onThrow)
     /\ UNCHANGED <<row, attempt>>

\* One transaction: the row, the attempt, then the message and the events.
\* A missing attempt rolls it back and throws.
Commit(s, next, ck, onThrow) ==
  \/ /\ Holds(s) /\ attempt[s] = "running"
     /\ Park(next, ck)
     /\ attempt' = [attempt EXCEPT ![s] = next]
     /\ Goto(s, "finally")
  \/ /\ Holds(s) /\ attempt[s] # "running"
     /\ Goto(s, onThrow)
     /\ UNCHANGED <<row, attempt>>
  \/ /\ ~Holds(s)
     /\ Goto(s, "finally")
     /\ UNCHANGED <<row, attempt>>

PauseRunForInput(s) ==
  /\ pc[s] = "pauseInput"
  /\ Commit(s, "waiting_input", checkpoint, "fail")
  /\ UNCHANGED <<queue, fence, resume, leaseValid, sawExpired, history, bounds>>

PauseRunForTakeover(s) ==
  /\ pc[s] = "pauseTakeover"
  /\ Commit(s, "waiting_takeover", "none", "fail")
  /\ UNCHANGED <<queue, fence, resume, leaseValid, sawExpired, history, bounds>>

FinalizeRun(s, place, outcome, onThrow) ==
  /\ pc[s] = place
  /\ Commit(s, outcome, checkpoint, onThrow)
  /\ outcomes' = IF attempt' # attempt THEN outcomes + 1 ELSE outcomes
  /\ UNCHANGED <<queue, fence, resume, leaseValid, sawExpired, regressed,
                 bounds>>

FinalizeCompleted(s) == FinalizeRun(s, "complete", "completed", "fail")
\* Mutant: the attempt's outcome is written to the run.
FinalizeInterrupted(s) == FinalizeRun(s, "fail", "interrupted", "unwind")

FinalizeFailed(s) == FinalizeRun(s, "fail", "failed", "unwind")

\* finally: an attempt still running is interrupted; the handler returns or,
\* after a failed setup, throws, and the job is retried.
Finally(s) ==
  /\ \/ pc[s] = "finally" /\ UNCHANGED job
     \/ pc[s] = "finallyRetry" /\ job' = TRUE
  /\ Return(s)
  /\ UNCHANGED <<row, scanned, history, bounds>>

-----------------------------------------------------------------------------
(* The user, through the API.  The enqueue that follows a commit may fail. *)

Enqueued == job' \in {job, TRUE}

AnswerRunInput ==
  /\ status = "waiting_input"
  /\ status' = "queued"
  /\ Enqueued
  /\ UNCHANGED <<leaseOwner, leaseFence, leaseExpiresAt, checkpoint, scanned,
                 local, sawExpired, history, bounds>>

ReleaseTakeover(how) ==
  /\ status = "waiting_takeover"
  /\ status' = "queued"
  /\ checkpoint' = how
  /\ Enqueued
  /\ UNCHANGED <<leaseOwner, leaseFence, leaseExpiresAt, scanned, local,
                 sawExpired, history, bounds>>

\* stopThreadRuns leaves the owner and the lease in the row.
StopRun ==
  /\ status \in Active
  /\ status' = "cancelled"
  /\ UNCHANGED <<leaseOwner, leaseFence, leaseExpiresAt, checkpoint, queue,
                 local, sawExpired, history, bounds>>

\* Mutant: the attempts are cancelled and the run is not.
ClearThreadAttempts ==
  /\ status \in Active
  /\ attempt' = [s \in Slots |-> IF attempt[s] = "running" THEN "cancelled"
                                                          ELSE attempt[s]]
  /\ UNCHANGED <<row, queue, pc, fence, resume, leaseValid, sawExpired,
                 history, bounds>>

ClearThread ==
  /\ status \in Active
  /\ Park("cancelled", checkpoint)
  /\ attempt' = [s \in Slots |-> IF attempt[s] = "running" THEN "cancelled"
                                                          ELSE attempt[s]]
  /\ UNCHANGED <<queue, pc, fence, resume, leaseValid, sawExpired, history,
                 bounds>>

-----------------------------------------------------------------------------
(* Time, the reconciler, and a worker's death.                             *)

Lapse ==
  /\ status \in Held /\ leaseExpiresAt = "future"
  /\ leaseExpiresAt' = "past"
  /\ UNCHANGED <<status, leaseOwner, leaseFence, checkpoint, queue, local,
                 sawExpired, history>>

Tended == \E s \in Slots : Matches(s) /\ pc[s] \in Starting \cup Beating

\* Nobody renews: five minutes pass.
LeaseExpires == ~Tended /\ Lapse /\ UNCHANGED bounds

\* A live holder is stalled for longer than its lease.
HolderStalls == Tended /\ Lapse /\ Fault

\* Mutant: only queued rows are recovered.
RecoverableQueued == status = "queued"

\* reconcileOnce reads the row in one query and enqueues later.
Recoverable ==
  \/ status = "queued"
  \/ status \in Held /\ leaseExpiresAt = "past"

ReconcileScan ==
  /\ ~scanned /\ Recoverable
  /\ scanned' = TRUE
  /\ UNCHANGED <<row, job, local, sawExpired, history, bounds>>

ReconcileEnqueue ==
  /\ scanned
  /\ scanned' = FALSE /\ job' = TRUE
  /\ UNCHANGED <<row, local, sawExpired, history, bounds>>

\* The process is gone with every slot in it, the reconciler's scan, and the
\* jobs it had locked; attempts it opened stay as they were.
Crash(w) ==
  LET dead == {s \in Slots : WorkerOf[s] = w}
      reset(f, v) == [s \in Slots |-> IF s \in dead THEN v ELSE f[s]]
  IN  /\ \E s \in dead : pc[s] # "idle"
      /\ Fault
      /\ pc' = reset(pc, "idle")
      /\ fence' = reset(fence, 0)
      /\ resume' = reset(resume, "none")
      /\ attempt' = reset(attempt, "none")
      /\ leaseValid' = leaseValid \cup dead
      /\ sawExpired' = sawExpired \ dead
      /\ scanned' = FALSE
      /\ UNCHANGED <<row, job, history>>

-----------------------------------------------------------------------------
\* What the scheduling of a worker makes a slot do.
Advance(s) ==
  \/ PickJob(s) \/ ReadRun(s) \/ ClaimRun(s) \/ RereadRun(s) \/ StartRun(s)
  \/ AcquireComputer(s) \/ EnqueueRetry(s) \/ CreateAttempt(s)
  \/ FinishSetup(s) \/ RequeueFailedSetup(s) \/ LeaveLostLease(s)
  \/ PauseRunForInput(s) \/ PauseRunForTakeover(s)
  \/ FinalizeCompleted(s) \/ FinalizeFailed(s) \/ Finally(s)

\* What is up to the agent: it may go on working for good.
Agent(s) ==
  \/ AskUser(s) \/ RequestTakeover(s) \/ FinishTurn(s) \/ WorkFails(s)
  \/ PollRow(s)

Disturb(s) ==
  \/ RequeueBusy(s) \/ CallFails(s) \/ SetupFails(s) \/ HeartbeatFails(s)

User ==
  \/ AnswerRunInput \/ StopRun \/ ClearThread
  \/ \E how \in {"takeover", "takeover-skipped"} : ReleaseTakeover(how)

Next ==
  \/ \E s \in Slots : Advance(s) \/ Agent(s) \/ Heartbeat(s) \/ Disturb(s)
  \/ User
  \/ LeaseExpires \/ HolderStalls
  \/ ReconcileScan \/ ReconcileEnqueue
  \/ \E w \in Workers : Crash(w)

Spec == Init /\ [][Next]_vars

\* Slots run, timers fire, the reconciler polls and time passes.  The user
\* and the agent owe nothing.
FairSpec ==
  /\ Spec
  /\ \A s \in Slots : WF_vars(Advance(s)) /\ WF_vars(Heartbeat(s))
  /\ WF_vars(LeaseExpires)
  /\ WF_vars(ReconcileScan) /\ WF_vars(ReconcileEnqueue)

-----------------------------------------------------------------------------
(* Properties.                                                             *)

\* However many slots, stale or current, reach finalizeRun, and whatever the
\* user does meanwhile, at most one outcome event is committed, exactly when
\* the row says completed or failed, and none for a cancelled run.
OneOutcome ==
  outcomes = IF status \in {"completed", "failed"} THEN 1 ELSE 0

\* The attempt row of a slot that may still commit is running: the throws
\* "Active run attempt was not available to pause / finalize" never happen.
AttemptAvailable ==
  \A s \in Slots :
    pc[s] \in Committing /\ Holds(s) => attempt[s] = "running"

\* A leased or running row has an owner and an expiry, so that the reconciler
\* finds it when it lapses; a parked or finished row is nobody's, so that no
\* slot of an earlier claim can match it.
LeaseMatchesStatus ==
  /\ status \in Held => leaseOwner # NoWorker /\ leaseExpiresAt # "null"
  /\ status \in Parked \cup {"completed", "failed"} =>
       leaseOwner = NoWorker /\ leaseExpiresAt = "null"

\* As long as no claim has reused a fence, at most one slot passes the
\* (leaseOwner, leaseFence) test of the writes, also when all slots belong to
\* one worker and share its leaseOwner.
SoleHolder ==
  ~regressed =>
    \A s, t \in Slots :
      /\ s # t
      /\ pc[s] \notin Unclaimed /\ pc[t] \notin Unclaimed
      => ~(Matches(s) /\ Matches(t))

\* Why these hold.  A slot past setup has a running attempt unless the thread
\* was cleared; without a regression the fences of claimed slots differ and are
\* at most the row's; and a slot that read an expired lease and still waits to
\* claim computed the successor of the fence that is in the row.
AttemptsRun ==
  \A s \in Slots :
    pc[s] \in Beating => attempt[s] = "running" \/ status = "cancelled"

FencesDistinct ==
  ~regressed =>
    \A s \in Slots :
      pc[s] \notin Unclaimed =>
        /\ fence[s] <= leaseFence
        /\ \A t \in Slots \ {s} :
             pc[t] \notin Unclaimed => fence[t] # fence[s]

ExpiredReads ==
  \A s \in sawExpired : pc[s] = "claim" /\ fence[s] = leaseFence + 1

\* A finished or cancelled row never changes again, whichever slot, heartbeat
\* or user request arrives late.
TerminalIsFinal == [][(status \in Terminal) => (row' = row)]_vars

Claims(s) == pc[s] = "claim" /\ pc'[s] = "reread"

\* "reclaims an expired running lease with a higher fence": a claim that takes
\* the row over from a holder leaves that holder a fence that is too low.
ReclaimRaisesFence ==
  [][\A s \in Slots :
       status \in Held /\ Claims(s) => leaseFence' > leaseFence]_vars

\* If the agent's turns end, a run that is due comes to rest: it waits for the
\* user or has an outcome, although jobs get lost, leases lapse and workers die.
Settles ==
  (\A s \in Slots : WF_vars(Agent(s))) =>
    (status \in Held \cup {"queued"} ~> status \notin Held \cup {"queued"})

\* A stopped run leaves every slot for good, although stopThreadRuns tells no
\* worker, and even if the agent produces no event that would poll the row.
StopReachesSlots ==
  status = "cancelled" ~> [](\A s \in Slots : pc[s] \notin Attempting)

\* The transition table that assertTransition consults.
CanTransition ==
  [ queued |-> {"leased", "cancelled"},
    leased |-> {"running", "queued", "cancelled"},
    running |-> {"waiting_input", "waiting_takeover", "completed", "failed",
                 "cancelled", "leased"},
    waiting_input |-> {"queued", "leased", "cancelled"},
    waiting_takeover |-> {"queued", "leased", "cancelled"},
    completed |-> {}, failed |-> {"queued"}, cancelled |-> {} ]

\* Every change of a run's status is in the table of legal transitions.
LegalTransitions ==
  [][(status' # status) => (status' \in CanTransition[status])]_vars
=============================================================================
