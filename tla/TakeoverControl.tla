--------------------------- MODULE TakeoverControl ---------------------------
(***************************************************************************)
(* A run and the computer it works on: the execution lease of the bot's    *)
(* screen, and the control lease by which the user takes the screen over.  *)
(*                                                                         *)
(* Every step of RunLifecycle is kept; this module adds what the same      *)
(* handler does to the computer's rows, and the handlers of the API that   *)
(* grant, release and expire the user's control.  One run and one bot; the *)
(* computer is a Team computer (Team) or a dedicated one.                  *)
(***************************************************************************)
EXTENDS RunLifecycle

CONSTANTS
  Team,       \* Computer.scope = "team"
  MaxGrants,  \* bound: control leases granted
  MaxTurns,   \* bound: stops, boots and sleeps of the computer
  MaxClaims   \* bound: claims of the run; with a deleted row two slots may end
              \* each other's attempts again and again

ASSUME ComputerAssumption ==
  /\ Team \in BOOLEAN
  /\ MaxGrants \in Nat /\ MaxTurns \in Nat /\ MaxClaims \in Nat

VARIABLES
  execFence,   \* ComputerExecutionLease.fence, 0 when the row is absent
  execExpiry,  \* its expiresAt; "held" is the day of a takeover
  reissued,    \* history: a row got the fence that some slot still has
  forfeited,   \* history: the row was deleted by computer.stop, or lapsed and
               \* was taken, since a slot acquired it
  mine,        \* continueRun's local computerLease: its fence, 0 for null
  hold,        \* slots whose lease is held for a takeover, or retained
  told,        \* continueRun's local takeoverResume
  said,        \* history: how the user ended the last takeover
  control,     \* the computer's control columns
  grants,      \* control leases granted
  asked,       \* computer.takeover between its checks and its grant
  pend,        \* releases and expiries between their read and their commit
  severed,     \* history: controls cleared while their run was waiting
  stopping,    \* stopThreadRuns has cancelled, and has yet to delete leases
  power,       \* Computer.state; "off" is stopped, suspended or error
  halting,     \* computer.stop: between its claim, its delete and its end
  turns        \* stops, boots and sleeps of the computer

rowHistory == <<reissued, forfeited>>
exec == <<execFence, execExpiry, rowHistory>>
slotVars == <<mine, hold, told>>
userVars == <<control, grants, asked, pend, severed>>
hostVars == <<stopping, power, halting, turns>>
computerVars == <<exec, slotVars, said, userVars, hostVars>>
allVars == <<vars, computerVars>>

NoControl == [id |-> 0, holder |-> "none", run |-> FALSE, expired |-> FALSE]
Controls == [id : 0..MaxGrants, holder : {"none", "user"},
             run : BOOLEAN, expired : BOOLEAN]
Releases == [id : 1..MaxGrants, run : BOOLEAN,
             how : {"takeover", "takeover-skipped"}]

ComputerTypeOK ==
  /\ TypeOK
  /\ execFence \in Nat
  /\ execExpiry \in {"none", "future", "held", "past"}
  /\ execFence = 0 <=> execExpiry = "none"
  /\ reissued \in BOOLEAN
  /\ forfeited \in BOOLEAN
  /\ mine \in [Slots -> Nat]
  /\ hold \in [Slots -> {"no", "held", "retained"}]
  /\ told \in [Slots -> {"none", "done", "skipped"}]
  /\ said \in {"none", "done", "skipped"}
  /\ control \in Controls
  /\ grants \in 0..MaxGrants
  /\ asked \in {"no", "free", "waiting"}
  /\ pend \subseteq Releases
  /\ severed \subseteq 0..MaxGrants
  /\ stopping \in BOOLEAN
  /\ power \in {"running", "suspending", "off"}
  /\ halting \in {"no", "claimed", "deleted"}
  /\ turns \in 0..MaxTurns

ComputerInit ==
  /\ Init
  /\ execFence = 0 /\ execExpiry = "none"
  /\ reissued = FALSE /\ forfeited = FALSE
  /\ mine = [s \in Slots |-> 0]
  /\ hold = [s \in Slots |-> "no"]
  /\ told = [s \in Slots |-> "none"]
  /\ said = "none"
  /\ control = NoControl
  /\ grants = 0
  /\ asked = "no"
  /\ pend = {} /\ severed = {}
  /\ stopping = FALSE
  /\ power \in {"running", "off"}
  /\ halting = "no"
  /\ turns = 0

-----------------------------------------------------------------------------
(* The execution lease.                                                    *)

hasActiveComputerControl ==
  control.holder = "user" /\ control.id # 0 /\ ~control.expired

\* A control that has lapsed is expired first, or the call throws.
Provisionable ==
  power # "suspending" /\ (control.id = 0 \/ hasActiveComputerControl)

Owns(s) == mine[s] # 0 /\ mine[s] = execFence

\* Mutant: the row is blanked and its expiresAt survives.
DeleteLeaseFence == execFence' = 0 /\ UNCHANGED <<execExpiry, rowHistory>>

DeleteLease ==
  execFence' = 0 /\ execExpiry' = "none" /\ UNCHANGED rowHistory

\* Deleted by somebody who knows nothing of the run that waits for it.
Forfeit ==
  /\ execFence' = 0 /\ execExpiry' = "none"
  /\ forfeited' = (forfeited \/ execFence # 0)
  /\ UNCHANGED reissued

\* The row is absent, lapsed, or this run's own and held for its takeover.
Available(s) == execFence = 0 \/ execExpiry = "past" \/ told[s] # "none"

\* A row that was deleted starts again at 1.
WriteLease ==
  /\ execFence' = execFence + 1 /\ execExpiry' = "future"
  /\ reissued' = (reissued \/ \E t \in Slots : mine[t] = execFence + 1)
  /\ forfeited' = FALSE

\* A slot that returns forgets its locals.
Forget(s) ==
  /\ mine' = [mine EXCEPT ![s] = 0]
  /\ hold' = [hold EXCEPT ![s] = "no"]
  /\ told' = [told EXCEPT ![s] = "none"]

ForgetIfReturned(s) ==
  IF pc'[s] = "idle" THEN Forget(s) ELSE UNCHANGED slotVars

\* resumeFromTakeover: the row is waiting for the user, or carries the release.
ReadForResume(s) ==
  /\ leaseFence < MaxClaims
  /\ ReadRun(s)
  /\ told' = [told EXCEPT ![s] =
       IF status \in Terminal THEN "none"
       ELSE IF checkpoint = "takeover-skipped" THEN "skipped"
       ELSE IF checkpoint = "takeover" \/ status = "waiting_takeover"
            THEN "done" ELSE "none"]
  /\ UNCHANGED <<exec, mine, hold, said, userVars, hostVars>>

\* Neither the read before the write nor the one after it finds the computer
\* suspending.
AcquireLease(s) ==
  /\ AcquireComputer(s)
  /\ IF Team THEN power # "suspending" /\ Available(s) /\ WriteLease
                  /\ mine' = [mine EXCEPT ![s] = execFence + 1]
             ELSE UNCHANGED <<exec, mine>>
  /\ UNCHANGED <<hold, told, said, userVars, hostVars>>

\* validateAcquiredComputerLease: it suspends after the write, and the row that
\* was just acquired is deleted.
AcquireRefused(s) ==
  /\ RequeueBusy(s)
  /\ Team /\ power = "suspending" /\ Available(s)
  /\ DeleteLease
  /\ ForgetIfReturned(s)
  /\ UNCHANGED <<said, userVars, hostVars>>

\* The lease may have been written by the call that failed; the one that was
\* acquired before the attempt row failed is released.
LeaseCallFails(s) ==
  /\ CallFails(s)
  /\ \/ pc[s] = "target" /\ Team /\ Available(s) /\ WriteLease
     \/ pc[s] = "attempt" /\ Owns(s) /\ DeleteLease
     \/ ~(pc[s] = "attempt" /\ Owns(s)) /\ UNCHANGED exec
  /\ Forget(s)
  /\ UNCHANGED <<said, userVars, hostVars>>

\* Both leases are renewed; a lost computer aborts the work.
RenewBoth(s) ==
  /\ \/ /\ Heartbeat(s)
        /\ \/ mine[s] = 0 /\ UNCHANGED exec
           \/ Owns(s) /\ execExpiry' = "future" /\ UNCHANGED <<execFence, rowHistory>>
     \/ /\ mine[s] # 0 /\ ~Owns(s)
        /\ Abort(s) /\ UNCHANGED <<exec, bounds>>
  /\ UNCHANGED <<slotVars, said, userVars, hostVars>>

\* provisionComputer: the computer is started, or found running.
FinishProvision(s) ==
  /\ FinishSetup(s)
  /\ Provisionable
  /\ power' = "running"
  /\ UNCHANGED <<exec, slotVars, said, userVars, stopping, halting, turns>>

\* The takeover event revokes whatever control the user has, and writes down
\* that the computer runs.
AskForTakeover(s) ==
  /\ RequestTakeover(s)
  /\ IF pc'[s] = "pauseTakeover"
     THEN control' = NoControl /\ power' = "running"
     ELSE UNCHANGED <<control, power>>
  /\ UNCHANGED <<exec, slotVars, said, grants, asked, pend, severed, stopping,
                 halting, turns>>

HoldLease(s) ==
  /\ pc[s] = "pauseTakeover" /\ hold[s] = "no"
  /\ \/ mine[s] = 0 /\ UNCHANGED exec
     \/ Owns(s) /\ execExpiry' = "held" /\ UNCHANGED <<execFence, rowHistory>>
  /\ hold' = [hold EXCEPT ![s] = "held"]
  /\ UNCHANGED <<vars, mine, told, said, userVars, hostVars>>

PauseHeld(s) ==
  /\ hold[s] = "held"
  /\ PauseRunForTakeover(s)
  /\ LET paused == attempt' # attempt
     IN  /\ hold' = [hold EXCEPT ![s] = IF paused THEN "retained" ELSE "no"]
         /\ said' = IF paused THEN "none" ELSE said
  /\ UNCHANGED <<exec, mine, told, userVars, hostVars>>

\* Mutant: the release forgets retainComputerLease.
ReleaseLeaseAlways(s) ==
  /\ Finally(s)
  /\ IF Owns(s) THEN DeleteLease ELSE UNCHANGED exec
  /\ Forget(s)
  /\ UNCHANGED <<said, userVars, hostVars>>

\* finally: the lease is released unless it is retained for the user.
ReleaseLease(s) ==
  /\ Finally(s)
  /\ IF Owns(s) /\ hold[s] # "retained" THEN DeleteLease ELSE UNCHANGED exec
  /\ Forget(s)
  /\ UNCHANGED <<said, userVars, hostVars>>

\* The other steps of a slot leave the computer's rows alone.
OtherStep(s) ==
  /\ \/ PickJob(s) \/ ClaimRun(s) \/ RereadRun(s) \/ StartRun(s)
     \/ EnqueueRetry(s) \/ CreateAttempt(s)
     \/ RequeueFailedSetup(s) \/ LeaveLostLease(s) \/ PauseRunForInput(s)
     \/ FinalizeCompleted(s) \/ FinalizeFailed(s)
     \/ AskUser(s) \/ FinishTurn(s) \/ WorkFails(s) \/ PollRow(s)
     \/ RequeueBusy(s) \/ SetupFails(s) \/ HeartbeatFails(s)
  /\ ForgetIfReturned(s)
  /\ UNCHANGED <<exec, said, userVars, hostVars>>

\* Nobody renews the lease for five minutes, or for the day of a takeover.
LeaseLapses ==
  /\ execExpiry \in {"future", "held"}
  /\ \A s \in Slots : ~Owns(s)
  /\ execExpiry' = "past"
  /\ UNCHANGED <<vars, execFence, rowHistory, slotVars, said, userVars, hostVars>>

LoseProcess(w) ==
  LET dead == {s \in Slots : WorkerOf[s] = w}
      reset(f, v) == [s \in Slots |-> IF s \in dead THEN v ELSE f[s]]
  IN  /\ Crash(w)
      /\ mine' = reset(mine, 0)
      /\ hold' = reset(hold, "no")
      /\ told' = reset(told, "none")
      /\ UNCHANGED <<exec, said, userVars, hostVars>>

\* A holder that is alive and stalls loses both leases.
Stall(s) ==
  /\ HolderStalls
  /\ Matches(s) /\ pc[s] \in Starting \cup Beating
  /\ execExpiry' = IF Owns(s) /\ execExpiry = "future" THEN "past"
                                                      ELSE execExpiry
  /\ UNCHANGED <<execFence, rowHistory, slotVars, said, userVars, hostVars>>

-----------------------------------------------------------------------------
(* The API: stop, clear, take control, release, expire.                    *)

StopAndCancel ==
  /\ StopRun
  /\ stopping' = TRUE
  /\ UNCHANGED <<exec, slotVars, said, userVars, power, halting, turns>>

DeleteStopped ==
  /\ stopping
  /\ stopping' = FALSE
  /\ DeleteLease
  /\ UNCHANGED <<vars, slotVars, said, userVars, power, halting, turns>>

ClearAndDelete ==
  /\ ClearThread
  /\ DeleteLease
  /\ UNCHANGED <<slotVars, said, userVars, hostVars>>

Answer ==
  /\ AnswerRunInput
  /\ UNCHANGED computerVars

executionBlocksUserTakeover ==
  /\ execFence # 0 /\ status # "waiting_takeover"
  /\ execExpiry # "past" \/ status \in Active

\* computer.takeover reads the lease and the run, then grants by CAS.
CheckTakeover ==
  /\ power = "running"
  /\ asked = "no" /\ control.id = 0 /\ grants < MaxGrants
  /\ ~executionBlocksUserTakeover
  /\ asked' = IF execFence # 0 /\ status = "waiting_takeover"
              THEN "waiting" ELSE "free"
  /\ IF execFence # 0 /\ asked' = "free" THEN DeleteLease ELSE UNCHANGED exec
  /\ UNCHANGED <<vars, slotVars, said, control, grants, pend, severed, hostVars>>

GrantTakeover ==
  /\ asked # "no"
  /\ asked' = "no"
  /\ IF control.id = 0 /\ power = "running"
     THEN /\ grants' = grants + 1
          /\ control' = [id |-> grants + 1, holder |-> "user",
                         run |-> asked = "waiting", expired |-> FALSE]
     ELSE UNCHANGED <<grants, control>>
  /\ UNCHANGED <<vars, exec, slotVars, said, pend, severed, hostVars>>

\* The columns are blanked, whatever run waits for the control they name.
ClearControl ==
  /\ control' = NoControl
  /\ severed' = IF control.run /\ status = "waiting_takeover"
                THEN severed \cup {control.id} ELSE severed

\* A takeover of, or requested by, another bot of the team clears the columns.
OtherBotTakesOver ==
  /\ control.id # 0 /\ grants < MaxGrants
  /\ grants' = grants + 1
  /\ ClearControl
  /\ UNCHANGED <<vars, exec, slotVars, said, asked, pend, hostVars>>

ControlLapses ==
  /\ control.id # 0 /\ ~control.expired
  /\ control' = [control EXCEPT !.expired = TRUE]
  /\ UNCHANGED <<vars, exec, slotVars, said, grants, asked, pend, severed, hostVars>>

\* computer.release reads the lease, then revokes the screen at the provider.
ReadRelease(how) ==
  /\ hasActiveComputerControl /\ pend = {}
  /\ pend' = {[id |-> control.id, run |-> control.run, how |-> how]}
  /\ UNCHANGED <<vars, exec, slotVars, said, control, grants, asked, severed,
                 hostVars>>

\* expireComputerControl denies input, then revokes the screen.
ReadExpiry ==
  /\ control.id # 0 /\ control.expired
  /\ control' = [control EXCEPT !.holder = "none"]
  /\ pend' = pend \cup {[id |-> control.id, run |-> control.run,
                         how |-> "takeover-skipped"]}
  /\ pend' # pend
  /\ UNCHANGED <<vars, exec, slotVars, said, grants, asked, severed, hostVars>>

\* Mutant: the holder that expiry has already denied is required.
MatchingUser(p) ==
  control.holder = "user" /\ control.id = p.id /\ control.run = p.run

\* The where-clause of finalizeComputerControlRelease.
Matching(p) == control.id = p.id /\ control.run = p.run

\* finalizeComputerControlRelease: the columns and the run in one transaction.
FinalizeRelease(p) ==
  /\ p \in pend
  /\ pend' = pend \ {p}
  /\ control' = IF Matching(p) THEN NoControl ELSE control
  /\ IF Matching(p) /\ p.run /\ status = "waiting_takeover"
     THEN /\ ReleaseTakeover(p.how)
          /\ said' = IF p.how = "takeover" THEN "done" ELSE "skipped"
     ELSE UNCHANGED <<vars, said>>
  /\ UNCHANGED <<exec, slotVars, grants, asked, severed, hostVars>>

\* The provider, or the process, fails before the commit.
RevocationFails(p) ==
  /\ p \in pend /\ Fault
  /\ pend' = pend \ {p}
  /\ UNCHANGED <<row, queue, local, sawExpired, history, exec, slotVars, said,
                 control, grants, asked, severed, hostVars>>

-----------------------------------------------------------------------------
(* The computer: the owner's stop and boot, the sleep job.                 *)

Turn == turns < MaxTurns /\ turns' = turns + 1

\* computer.stop claims the computer,
ClaimStop ==
  /\ Turn
  /\ halting = "no" /\ power # "suspending"
  /\ power' = "suspending" /\ halting' = "claimed"
  /\ UNCHANGED <<vars, exec, slotVars, said, userVars, stopping>>

\* and gives it back when another bot of the team has a run,
StopRefused ==
  /\ halting = "claimed"
  /\ halting' = "no"
  /\ power' \in IF power = "suspending" THEN {"running", "off"} ELSE {power}
  /\ UNCHANGED <<vars, exec, slotVars, said, userVars, stopping, turns>>

\* else deletes this bot's lease, whatever run of this bot has it,
StopDeletesLease ==
  /\ halting = "claimed"
  /\ halting' = "deleted"
  /\ Forfeit
  /\ UNCHANGED <<vars, slotVars, said, userVars, stopping, power, turns>>

\* stops the sandbox, and clears the control without a look at the run.
StopEnds ==
  /\ halting = "deleted"
  /\ halting' = "no" /\ power' = "off"
  /\ ClearControl
  /\ UNCHANGED <<vars, exec, slotVars, said, grants, asked, pend, stopping, turns>>

\* The provider fails: the state becomes error and the control stays.  Or the
\* process dies, and the computer stays as it was claimed.
StopFails ==
  /\ halting # "no" /\ Fault
  /\ halting' = "no"
  /\ \/ halting = "deleted" /\ power = "suspending" /\ power' = "off"
     \/ UNCHANGED power
  /\ UNCHANGED <<row, queue, local, sawExpired, history, exec, slotVars, said,
                 userVars, stopping, turns>>

\* A lapsed row is taken by another run of the bot, by a recover, a reset or a
\* lesson of its owner, and deleted when they return.
LeaseTaken ==
  /\ execExpiry = "past" /\ power # "suspending"
  /\ Forfeit
  /\ UNCHANGED <<vars, slotVars, said, userVars, hostVars>>

\* computer.boot takes the lease, provisions the computer, releases the lease.
Boot ==
  /\ Turn
  /\ power = "off" /\ Provisionable
  /\ execExpiry \in {"none", "past"}
  /\ power' = "running"
  /\ Forfeit
  /\ UNCHANGED <<vars, slotVars, said, userVars, stopping, halting>>

\* sleepComputerIfIdle: unless the user has the control, a run that waits for
\* him does not keep the computer awake, but its lease does until it lapses.
Sleep ==
  /\ Turn
  /\ power = "running" /\ Provisionable
  /\ execExpiry \in {"none", "past"}
  /\ \/ status \notin Active
     \/ status = "waiting_takeover" /\ ~hasActiveComputerControl
  /\ power' = "off"
  /\ ClearControl
  /\ UNCHANGED <<vars, exec, slotVars, said, grants, asked, pend, stopping,
                 halting>>

Background ==
  /\ LeaseExpires \/ ReconcileScan \/ ReconcileEnqueue
  /\ UNCHANGED computerVars

-----------------------------------------------------------------------------
ComputerStep(s) ==
  \/ ReadForResume(s) \/ AcquireLease(s) \/ AcquireRefused(s)
  \/ LeaseCallFails(s) \/ FinishProvision(s) \/ RenewBoth(s)
  \/ AskForTakeover(s) \/ HoldLease(s) \/ PauseHeld(s) \/ ReleaseLease(s)
  \/ OtherStep(s)

ControlStep ==
  \/ StopAndCancel \/ DeleteStopped \/ ClearAndDelete \/ Answer
  \/ CheckTakeover \/ GrantTakeover \/ OtherBotTakesOver
  \/ ControlLapses \/ ReadExpiry
  \/ \E how \in {"takeover", "takeover-skipped"} : ReadRelease(how)
  \/ \E p \in pend : FinalizeRelease(p) \/ RevocationFails(p)

PowerStep ==
  \/ ClaimStop \/ StopRefused \/ StopDeletesLease \/ StopEnds \/ StopFails
  \/ LeaseTaken \/ Boot \/ Sleep

ComputerNext ==
  \/ \E s \in Slots : ComputerStep(s)
  \/ ControlStep \/ PowerStep
  \/ LeaseLapses \/ Background
  \/ \E w \in Workers : LoseProcess(w)

ComputerSpec == ComputerInit /\ [][ComputerNext]_allVars

\* With holders that stall for longer than their leases.
StallSpec ==
  ComputerInit /\ [][ComputerNext \/ \E s \in Slots : Stall(s)]_allVars

\* The expiry job runs, and a revocation that does not fail commits.
FairComputerSpec ==
  /\ ComputerSpec
  /\ WF_allVars(ControlLapses) /\ WF_allVars(ReadExpiry)
  /\ WF_allVars(\E p \in pend : FinalizeRelease(p))

-----------------------------------------------------------------------------
(* Properties.                                                             *)

\* On a Team computer a run that waits for the user keeps the row of its lease,
\* by which computer.takeover recognises that this run is the one to resume: no
\* attempt on its way out, no stop of the run and no takeover of another bot
\* deletes it.  Two things do, and are named: the owner's computer.stop
\* (router.ts 1407), or whoever takes the row once it has lapsed (forfeited);
\* and a row that began again at 1 and got the fence of an earlier attempt of
\* the run, which takes it for its own (reissued).
HeldForTakeover ==
  Team /\ status = "waiting_takeover" /\ ~reissued /\ ~forfeited
    => execFence # 0

\* The control lease bound to a waiting run ends with the run no longer
\* waiting, although the user walks away and a revocation fails: no control is
\* lost on the way.  The exception is named: a control whose columns somebody
\* else blanked while the run waited (severed), which computer.stop and the
\* takeover of another bot do, and which leaves the run waiting.
ControlResumes ==
  \A i \in 1..MaxGrants :
    (status = "waiting_takeover" /\ control.run /\ control.id = i)
      ~> (status # "waiting_takeover" \/ i \in severed)

\* "skipping takeover resumes without treating login as done": the agent is
\* told that the user finished only if the user said so.
SkippedIsNotDone ==
  \A s \in Slots :
    pc[s] \in Attempting /\ Matches(s) /\ told[s] = "done" => said = "done"

\* "after release, the agent may continue": the end of the user's control
\* queues the run that waits for it.
ReleaseContinues ==
  [][(pend' # pend /\ control.id # 0 /\ control'.id = 0
      /\ status = "waiting_takeover") => status' = "queued"]_allVars

\* "One bot still runs only one computer-use task on its own screen": while a
\* slot holds the run and finds its lease in the row, no other working slot does.
OneComputerTask ==
  \A s, t \in Slots :
    /\ s # t
    /\ {pc[s], pc[t]} \subseteq Beating /\ {s, t} \subseteq leaseValid
    /\ Holds(s) /\ Owns(s)
    => ~Owns(t)
=============================================================================
