--------------------------- MODULE ComputerPower ---------------------------
(***************************************************************************)
(* The power of one computer: who may boot, stop, replace or suspend the   *)
(* sandbox behind it, and what becomes of a run that works on it.          *)
(*                                                                         *)
(* computers.state is the lock of a transition: a process that moves the   *)
(* row to booting or suspending with a conditional update is the only one  *)
(* to act on the sandbox until it moves the row on.  Runs do not take that *)
(* lock.  A bot of a Team computer holds an execution lease row instead,   *)
(* read back after it was written; a dedicated computer has no lease, only *)
(* the active run rows of its bot.  The processes are the executor of each *)
(* bot, the owner's request (boot, stop or replace) and the sleep job.     *)
(***************************************************************************)
EXTENDS Naturals

CONSTANTS
  Bots,           \* the bots of the computer, each with at most one run at work
  Solo,           \* the only bot when the computer is dedicated
  Owner, Sleeper, \* the request handler and the computer.sleep job handler
  Free,           \* no row: a lease nobody holds
  MaxTurns,       \* bound: messages that start a run
  MaxRequests,    \* bound: requests of the owner
  MaxPowerFaults  \* bound: failed calls, lapses, crashes and waits that end

ASSUME PowerAssumption ==
  /\ Solo \in Bots
  /\ Owner \notin Bots /\ Sleeper \notin Bots /\ Owner # Sleeper
  /\ Free \notin Bots \cup {Owner, Sleeper}
  /\ {MaxTurns, MaxRequests, MaxPowerFaults} \subseteq Nat

VARIABLES
  scope,      \* computers.scope: "team" or "dedicated"
  power,      \* computers.state
  hasRef,     \* computers.providerRef is set
  box,        \* the sandbox itself
  written,    \* computers.updatedAt moved since the sleep job read it
  lease,      \* computer_execution_leases: who wrote the row of each bot
  lapsed,     \* rows whose expiresAt is past
  botRun,     \* the run row of each bot
  background, \* a background process of a bot runs in the sandbox
  at,         \* where each process is
  request,    \* the owner's request: operation, bot and the state it read
  halted,     \* history: the owner stopped the computer under this bot's run
  overtaken,  \* history: a stop took the row from a boot that was under way
  putBack,    \* history: a stop put back a state it had not taken, or a boot
  died,       \* history: a process died between its claim and its end
  turns, requests, powerFaults

computer == <<scope, power, hasRef, box, written>>
leases == <<lease, lapsed>>
powerBounds == <<turns, requests, powerFaults>>
powerHistory == <<halted, overtaken, putBack, died>>
powerVars == <<computer, leases, botRun, background, at, request, powerHistory,
               powerBounds>>

Callers == Bots \cup {Owner}
Transitional == {"booting", "suspending"}
PowerStates == {"stopped", "suspended", "running", "error"} \cup Transitional

\* Between the conditional update that takes the row and the one that lets go.
Claimed == {"boot", "activate", "rollback", "record", "stopRun", "stopBox",
            "stopped", "replaceRun", "destroy", "destroyed", "abandon",
            "sleepRun", "sleepBox", "asleep"}
Stations == Claimed \cup
  {"idle", "create", "validate", "provision", "claim",
   "reconnect", "work", "retry", "release", "stop", "replace", "sleepCheck", "sleep"}

Requests == [op : {"boot", "stop", "replace"}, bot : Bots, read : PowerStates,
             took : PowerStates, ref : BOOLEAN]

PowerTypeOK ==
  /\ scope \in {"team", "dedicated"} /\ power \in PowerStates
  /\ hasRef \in BOOLEAN /\ box \in {"none", "down", "up"}
  /\ written \in BOOLEAN /\ background \in BOOLEAN
  /\ lease \in [Bots -> Callers \cup {Free}] /\ lapsed \in SUBSET Bots
  /\ botRun \in [Bots -> {"none", "queued", "running"}]
  /\ at \in [Callers \cup {Sleeper} -> Stations]
  /\ request \in Requests
  /\ halted \in SUBSET Bots /\ {overtaken, putBack, died} \subseteq BOOLEAN
  /\ {turns, requests, powerFaults} \subseteq Nat

PowerInit ==
  /\ scope \in {"team", "dedicated"}
  /\ power = "running" /\ hasRef = TRUE /\ box = "up"   \* booted before
  /\ written = FALSE /\ background = FALSE
  /\ lease = [b \in Bots |-> Free] /\ lapsed = {}
  /\ botRun = [b \in Bots |-> "none"]
  /\ at = [c \in Callers \cup {Sleeper} |-> "idle"]
  /\ request = [op |-> "boot", bot |-> Solo, read |-> "stopped",
                took |-> "stopped", ref |-> FALSE]
  /\ halted = {} /\ overtaken = FALSE /\ putBack = FALSE /\ died = FALSE
  /\ turns = 0 /\ requests = 0 /\ powerFaults = 0

-----------------------------------------------------------------------------
(* Helpers.                                                                *)

Members == IF scope = "team" THEN Bots ELSE {Solo}
BotOf(c) == IF c = Owner THEN request.bot ELSE c
To(c, place) == at' = [at EXCEPT ![c] = place]

Live(b) == lease[b] # Free /\ b \notin lapsed
OthersLive(b) == \E other \in Bots \ {b} : Live(other)
ActiveTurn(bots) == \E b \in bots : botRun[b] # "none"

\* acquireComputerExecutionLease begins with a look at the computer: a dedicated
\* one has no lease, a suspending one refuses.
Look(next) ==
  CASE scope = "dedicated" -> next
    [] scope = "team" /\ power = "suspending" -> "retry"
    [] OTHER -> "create"

\* releaseComputerExecutionLease: only the row this caller wrote.
Release(c) ==
  /\ lease' = [b \in Bots |-> IF b = BotOf(c) /\ lease[b] = c THEN Free ELSE lease[b]]
  /\ lapsed' = {b \in lapsed : lease'[b] # Free}

\* Prisma's @updatedAt: every update of the row moves it, which matters to a
\* sleep job that has read it.
Asking == at[Sleeper] \in {"sleepCheck", "sleep", "sleepRun"}
SetPower(p) == power' = p /\ written' = Asking /\ UNCHANGED scope
KeepRow == UNCHANGED <<scope, power, hasRef, written>>
PowerFault == powerFaults < MaxPowerFaults /\ powerFaults' = powerFaults + 1
              /\ UNCHANGED <<turns, requests>>

\* updateMany({where: {id, state: from}, data: {state: p}}): maybe no row.
SetPowerIf(from, p) ==
  IF power \in from THEN SetPower(p) ELSE UNCHANGED <<scope, power, written>>

-----------------------------------------------------------------------------
(* The run of a bot, as far as its computer goes.                          *)

\* A message, a wake-up or an answer makes a run active.
StartTurn(b) ==
  /\ b \in Members /\ botRun[b] = "none" /\ turns < MaxTurns
  /\ botRun' = [botRun EXCEPT ![b] = "queued"] /\ turns' = turns + 1
  /\ UNCHANGED <<computer, leases, background, at, request, powerHistory,
                 requests, powerFaults>>

\* continueRun claims the row, of a queued run or of one its worker dropped.
TakeTurn(b) ==
  /\ at[b] = "idle" /\ botRun[b] # "none"
  /\ botRun' = [botRun EXCEPT ![b] = "running"] /\ To(b, Look("provision"))
  /\ halted' = halted \ {b}
  /\ UNCHANGED <<computer, leases, background, request, overtaken, putBack, died,
                 powerBounds>>

\* requeueComputerRun, or a setup that failed: the run goes back in the queue
\* and the lease is released.
RetryTurn(b) ==
  /\ at[b] = "retry" /\ To(b, "idle") /\ Release(b)
  /\ botRun' = [botRun EXCEPT ![b] = "queued"]
  /\ UNCHANGED <<computer, background, request, powerHistory, powerBounds>>

\* The agent leaves a process behind in the sandbox, which ends some time.
StartBackground(b) ==
  /\ at[b] = "work" /\ ~background /\ box = "up" /\ background' = TRUE
  /\ UNCHANGED <<computer, leases, botRun, at, request, powerHistory, powerBounds>>

BackgroundEnds ==
  /\ background /\ background' = FALSE
  /\ UNCHANGED <<computer, leases, botRun, at, request, powerHistory, powerBounds>>

\* The outcome is committed; the lease goes in the finally block.
FinishTurn(b) ==
  /\ at[b] = "work" /\ To(b, "release")
  /\ botRun' = [botRun EXCEPT ![b] = "none"]
  /\ UNCHANGED <<computer, leases, background, request, powerHistory, powerBounds>>

\* The heartbeat finds its lease row gone and aborts the run, whose row stays
\* to be claimed again.
LoseTurn(b) ==
  /\ at[b] = "work" /\ scope = "team" /\ lease[b] # b /\ To(b, "idle")
  /\ UNCHANGED <<computer, leases, botRun, background, request, powerHistory,
                 powerBounds>>

-----------------------------------------------------------------------------
(* acquireComputerExecutionLease, and what releases the lease.             *)

\* The bot's expired row is taken over, or a row is created: one per bot.
CreateLease(c) ==
  /\ at[c] = "create"
  /\ \/ /\ ~Live(BotOf(c)) /\ To(c, "validate")
        /\ lease' = [lease EXCEPT ![BotOf(c)] = c]
        /\ lapsed' = lapsed \ {BotOf(c)}
     \/ Live(BotOf(c)) /\ To(c, "retry") /\ UNCHANGED leases
  /\ UNCHANGED <<computer, botRun, background, request, powerHistory, powerBounds>>

\* validateAcquiredComputerLease: a suspension that began before the row was
\* written did not see it, so the lease gives way ("retry" releases it).
ValidateLease(c) ==
  /\ at[c] = "validate"
  /\ \/ power = "suspending" /\ To(c, "retry")
     \/ /\ power # "suspending"
        /\ To(c, IF c = Owner /\ request.op = "replace" THEN "replace" ELSE "provision")
  /\ UNCHANGED <<computer, leases, botRun, background, request, powerHistory,
                 powerBounds>>

ReleaseLease(c) ==
  /\ at[c] = "release" \/ (c = Owner /\ at[c] = "retry")
  /\ To(c, "idle")
  /\ Release(c)
  /\ UNCHANGED <<computer, botRun, background, request, powerHistory, powerBounds>>

\* Nobody renews the row of a caller that is gone.
LeaseExpires(b) ==
  /\ Live(b) /\ at[lease[b]] = "idle" /\ lapsed' = lapsed \cup {b}
  /\ UNCHANGED <<computer, lease, botRun, background, at, request, powerHistory,
                 powerBounds>>

\* The heartbeat of a live worker is late, and renews the row after all.
LeaseLapses(b) ==
  /\ Live(b) /\ lease[b] = b /\ at[b] # "idle" /\ PowerFault
  /\ lapsed' = lapsed \cup {b}
  /\ UNCHANGED <<computer, lease, botRun, background, at, request, powerHistory>>

RenewLease(b) ==
  /\ b \in lapsed /\ lease[b] = b /\ at[b] = "work" /\ lapsed' = lapsed \ {b}
  /\ UNCHANGED <<computer, lease, botRun, background, at, request, powerHistory,
                 powerBounds>>

-----------------------------------------------------------------------------
(* provisionComputer.                                                      *)

KeepAllButRow == UNCHANGED <<leases, botRun, background, request>>

\* A running computer is reconnected to, a transition is waited for
\* (waitForComputerReady), for ten seconds.
Provision(c) ==
  /\ at[c] = "provision"
  /\ \/ /\ power = "running" /\ hasRef /\ To(c, "reconnect") /\ UNCHANGED powerBounds
     \/ /\ power \notin Transitional /\ ~(power = "running" /\ hasRef)
        /\ To(c, "claim") /\ UNCHANGED powerBounds
     \/ power \in Transitional /\ PowerFault /\ To(c, "claim")
  /\ UNCHANGED computer /\ KeepAllButRow /\ UNCHANGED powerHistory

ClaimBoot(c) ==
  /\ at[c] = "claim"
  /\ \/ /\ power \in {"stopped", "suspended", "error"}
        /\ SetPower("booting") /\ To(c, "boot") /\ UNCHANGED <<hasRef, box>>
     \/ /\ power \in {"running"} \cup Transitional
        /\ To(c, "retry") /\ UNCHANGED computer
  /\ KeepAllButRow /\ UNCHANGED <<powerHistory, powerBounds>>

\* sandbox.provision and prepare; a failure before there is a sandbox only
\* has the row to put in error, one after it has the sandbox to stop.
BootBox(c) ==
  /\ at[c] = "boot"
  /\ \/ box' = "up" /\ To(c, "activate") /\ UNCHANGED powerBounds
     \/ box' = box /\ To(c, "record") /\ PowerFault
     \/ box' = "up" /\ To(c, "rollback") /\ PowerFault
  /\ KeepRow /\ KeepAllButRow /\ UNCHANGED powerHistory

Activate(c) ==
  /\ at[c] = "activate"
  /\ \/ /\ power = "booting" /\ SetPower("running") /\ hasRef' = TRUE
        /\ To(c, IF c = Owner THEN "release" ELSE "work")
     \/ /\ power # "booting" /\ To(c, "rollback")
        /\ UNCHANGED <<scope, power, hasRef, written>>
  /\ UNCHANGED box /\ KeepAllButRow /\ UNCHANGED <<powerHistory, powerBounds>>

\* rollbackProvisionedComputer: stop, or destroy what was created for this.
Rollback(c) ==
  /\ at[c] = "rollback" /\ To(c, "record")
  /\ box' = IF hasRef THEN "down" ELSE "none"
  /\ background' = FALSE
  /\ KeepRow /\ UNCHANGED <<leases, botRun, request, powerHistory, powerBounds>>

\* Mutant: a failed boot leaves the row as it is.
KeepBooting(c) ==
  /\ at[c] = "record" /\ To(c, "retry")
  /\ UNCHANGED computer /\ KeepAllButRow /\ UNCHANGED <<powerHistory, powerBounds>>

RecordFailedBoot(c) ==
  /\ at[c] = "record" /\ To(c, "retry")
  /\ SetPowerIf({"booting"}, "error") /\ UNCHANGED <<hasRef, box>>
  /\ KeepAllButRow /\ UNCHANGED <<powerHistory, powerBounds>>

\* reconnectComputer: the provider resumes the sandbox if it has to.
Reconnect(c) ==
  /\ at[c] = "reconnect"
  /\ \/ /\ box' = "up" /\ To(c, IF c = Owner THEN "release" ELSE "work")
        /\ UNCHANGED powerBounds
     \/ box' = box /\ To(c, "retry") /\ PowerFault
  /\ KeepRow /\ KeepAllButRow /\ UNCHANGED powerHistory

-----------------------------------------------------------------------------
(* Requests of the owner: boot, stop (computer.stop), replaceComputer.     *)

OwnerRequests(op, b) ==
  /\ at[Owner] = "idle" /\ b \in Members /\ requests < MaxRequests
  /\ request' = [op |-> op, bot |-> b, read |-> power, took |-> power,
                 ref |-> hasRef]
  /\ requests' = requests + 1
  /\ op = "boot" => ~(power = "running" /\ hasRef)   \* which has nothing to do
  /\ To(Owner, CASE op = "boot" -> Look("provision")
                 [] op = "replace" -> Look("replace")
                 [] op = "stop" -> "stop")
  /\ UNCHANGED <<computer, leases, botRun, background, powerHistory, turns,
                 powerFaults>>

\* The row is taken from anything but a suspension, a boot included.
ClaimStop ==
  /\ at[Owner] = "stop"
  /\ \/ /\ power # "suspending" /\ ~OthersLive(request.bot)
        /\ SetPower("suspending") /\ To(Owner, "stopRun")
        /\ UNCHANGED <<hasRef, box>>
        /\ request' = [request EXCEPT !.took = power]
        /\ overtaken' = (overtaken \/ power = "booting")
     \/ /\ power = "suspending" \/ OthersLive(request.bot)
        /\ To(Owner, "idle") /\ UNCHANGED <<computer, request, overtaken>>
  /\ UNCHANGED <<leases, botRun, background, halted, putBack, died, powerBounds>>

\* A run of another bot: the state read at the start is put back.  Otherwise
\* the bot's own lease goes.
StopUnlessOtherRun ==
  /\ at[Owner] = "stopRun"
  /\ \/ /\ ActiveTurn(Bots \ {request.bot}) /\ To(Owner, "idle")
        /\ SetPowerIf({"suspending"}, request.read)
        /\ putBack' = \/ putBack \/ request.read # request.took
                       \/ request.read = "booting"
        /\ UNCHANGED <<hasRef, box, leases, halted>>
     \/ /\ ~ActiveTurn(Bots \ {request.bot}) /\ To(Owner, "stopBox")
        /\ lease' = [lease EXCEPT ![request.bot] = Free]
        /\ lapsed' = lapsed \ {request.bot}
        /\ halted' = halted \cup {request.bot}
        /\ UNCHANGED <<computer, putBack>>
  /\ UNCHANGED <<botRun, background, request, overtaken, died, powerBounds>>

\* The checkpoint and sandbox.stop, if the row read had a sandbox.
StopBox ==
  /\ at[Owner] = "stopBox"
  /\ \/ /\ IF request.ref /\ box = "up"
             THEN box' = "down" /\ background' = FALSE
             ELSE UNCHANGED <<box, background>>
        /\ To(Owner, "stopped") /\ UNCHANGED <<scope, power, written, powerBounds>>
     \/ /\ PowerFault /\ SetPowerIf({"suspending"}, "error") /\ To(Owner, "idle")
        /\ UNCHANGED <<box, background>>
  /\ UNCHANGED <<hasRef, leases, botRun, request, powerHistory>>

RecordStopped ==
  /\ at[Owner] = "stopped" /\ To(Owner, "idle") /\ SetPower("stopped")
  /\ UNCHANGED <<hasRef, box>>
  /\ KeepAllButRow /\ UNCHANGED <<powerHistory, powerBounds>>

ClaimReplace ==
  /\ at[Owner] = "replace"
  /\ \/ /\ power \notin Transitional /\ ~OthersLive(request.bot)
        /\ SetPower("suspending") /\ request' = [request EXCEPT !.read = power]
        /\ To(Owner, "replaceRun") /\ UNCHANGED <<hasRef, box>>
     \/ /\ power \in Transitional \/ OthersLive(request.bot)
        /\ To(Owner, "retry") /\ UNCHANGED <<computer, request>>
  /\ UNCHANGED <<leases, botRun, background, powerHistory, powerBounds>>

ReplaceUnlessRun ==
  /\ at[Owner] = "replaceRun"
  /\ \/ /\ ActiveTurn(Bots) /\ To(Owner, "retry")
        /\ SetPowerIf({"suspending"}, request.read)
     \/ /\ ~ActiveTurn(Bots) /\ To(Owner, "destroy")
        /\ UNCHANGED <<scope, power, written>>
  /\ UNCHANGED <<hasRef, box>> /\ KeepAllButRow
  /\ UNCHANGED <<powerHistory, powerBounds>>

\* Checkpoint and destroy, which may fail.
DestroyBox ==
  /\ at[Owner] = "destroy"
  /\ \/ /\ box' = "none" /\ background' = FALSE
        /\ To(Owner, "destroyed") /\ UNCHANGED powerBounds
     \/ To(Owner, "abandon") /\ PowerFault /\ UNCHANGED <<box, background>>
  /\ KeepRow /\ UNCHANGED <<leases, botRun, request, powerHistory>>

RecordDestroyed ==
  /\ at[Owner] = "destroyed" /\ To(Owner, "provision")
  /\ SetPower("stopped") /\ hasRef' = FALSE /\ UNCHANGED box
  /\ KeepAllButRow /\ UNCHANGED <<powerHistory, powerBounds>>

\* The error is recorded whatever the state is; the boot that ends a
\* replacement is not awaited in the try block, so its failures do not come here.
AbandonReplace ==
  /\ at[Owner] = "abandon" /\ To(Owner, "retry")
  /\ SetPower("error") /\ UNCHANGED <<hasRef, box>>
  /\ KeepAllButRow /\ UNCHANGED <<powerHistory, powerBounds>>

-----------------------------------------------------------------------------
(* sleepComputerIfIdle.                                                    *)

SleepLoads ==
  /\ at[Sleeper] = "idle" /\ power = "running" /\ hasRef /\ To(Sleeper, "sleepCheck")
  /\ written' = FALSE /\ UNCHANGED <<scope, power, hasRef, box>>
  /\ KeepAllButRow /\ UNCHANGED <<powerHistory, powerBounds>>

\* An active run or background work puts the sleep off.
SleepChecks ==
  /\ at[Sleeper] = "sleepCheck"
  /\ IF ActiveTurn(Bots) \/ background
       THEN To(Sleeper, "idle") /\ written' = FALSE
       ELSE To(Sleeper, "sleep") /\ UNCHANGED written
  /\ UNCHANGED <<scope, power, hasRef, box>> /\ KeepAllButRow /\ UNCHANGED <<powerHistory, powerBounds>>

\* The checkpoint, then the conditional update.
ClaimSleep ==
  /\ at[Sleeper] = "sleep"
  /\ \/ /\ power = "running" /\ ~written /\ \A b \in Bots : ~Live(b)
        /\ power' = "suspending" /\ To(Sleeper, "sleepRun")
     \/ /\ power # "running" \/ written \/ \E b \in Bots : Live(b)
        /\ To(Sleeper, "idle") /\ UNCHANGED power
  /\ written' = FALSE /\ UNCHANGED <<scope, hasRef, box>> /\ KeepAllButRow
  /\ UNCHANGED <<powerHistory, powerBounds>>

ResumeRow ==
  /\ power' = IF power = "suspending" THEN "running" ELSE power
  /\ written' = FALSE /\ UNCHANGED scope

\* Mutant: the runs are not read again after the checkpoint.
SleepUnlessBackground ==
  /\ at[Sleeper] = "sleepRun"
  /\ \/ /\ background \/ written \/ power # "suspending"
        /\ To(Sleeper, "idle") /\ ResumeRow
     \/ /\ ~background /\ ~written /\ power = "suspending"
        /\ To(Sleeper, "sleepBox") /\ UNCHANGED <<scope, power, written>>
  /\ UNCHANGED <<hasRef, box>> /\ KeepAllButRow
  /\ UNCHANGED <<powerHistory, powerBounds>>

\* What became active while the checkpoint was taken; and the row must still
\* be as the claim left it.
SleepUnlessActive ==
  /\ at[Sleeper] = "sleepRun"
  /\ \/ /\ ActiveTurn(Bots) \/ background \/ written \/ power # "suspending"
        /\ To(Sleeper, "idle") /\ ResumeRow
     \/ /\ ~ActiveTurn(Bots) /\ ~background /\ ~written /\ power = "suspending"
        /\ To(Sleeper, "sleepBox") /\ UNCHANGED <<scope, power, written>>
  /\ UNCHANGED <<hasRef, box>> /\ KeepAllButRow
  /\ UNCHANGED <<powerHistory, powerBounds>>

\* Mutant: a provider that fails to stop leaves the row as it is.
SleepBoxQuietly ==
  /\ at[Sleeper] = "sleepBox"
  /\ \/ /\ box' = "down" /\ background' = FALSE /\ To(Sleeper, "asleep")
        /\ UNCHANGED <<scope, power, written, powerBounds>>
     \/ /\ PowerFault /\ To(Sleeper, "idle")
        /\ UNCHANGED <<scope, power, written, box, background>>
  /\ UNCHANGED <<hasRef, leases, botRun, request, powerHistory>>

SleepBox ==
  /\ at[Sleeper] = "sleepBox"
  /\ \/ /\ box' = "down" /\ background' = FALSE /\ To(Sleeper, "asleep")
        /\ UNCHANGED <<scope, power, written, powerBounds>>
     \/ /\ PowerFault /\ To(Sleeper, "idle") /\ SetPowerIf({"suspending"}, "running")
        /\ UNCHANGED <<box, background>>
  /\ UNCHANGED <<hasRef, leases, botRun, request, powerHistory>>

RecordAsleep ==
  /\ at[Sleeper] = "asleep" /\ To(Sleeper, "idle") /\ SetPower("suspended")
  /\ UNCHANGED <<hasRef, box>>
  /\ KeepAllButRow /\ UNCHANGED <<powerHistory, powerBounds>>

-----------------------------------------------------------------------------
\* The process a handler runs in dies: its rows stay as they are.
Dies(c) ==
  /\ at[c] # "idle" /\ PowerFault /\ To(c, "idle")
  /\ died' = (died \/ at[c] \in Claimed)
  /\ UNCHANGED <<computer, leases, botRun, background, request, halted, overtaken,
                 putBack>>

RunStep(b) ==
  \/ TakeTurn(b) \/ RetryTurn(b) \/ FinishTurn(b) \/ LoseTurn(b) \/ RenewLease(b)
CallerStep(c) ==
  \/ CreateLease(c) \/ ValidateLease(c) \/ ReleaseLease(c)
  \/ Provision(c) \/ ClaimBoot(c) \/ BootBox(c) \/ Activate(c)
  \/ Rollback(c) \/ RecordFailedBoot(c) \/ Reconnect(c)
OwnerStep ==
  \/ ClaimStop \/ StopUnlessOtherRun \/ StopBox \/ RecordStopped
  \/ ClaimReplace \/ ReplaceUnlessRun \/ DestroyBox \/ RecordDestroyed
  \/ AbandonReplace
SleepStep ==
  \/ SleepChecks \/ ClaimSleep \/ SleepUnlessActive \/ SleepBox \/ RecordAsleep

PowerNext ==
  \/ \E b \in Bots : \/ RunStep(b) \/ StartTurn(b) \/ StartBackground(b)
                     \/ LeaseExpires(b) \/ LeaseLapses(b)
  \/ \E c \in Callers : CallerStep(c)
  \/ \E op \in {"boot", "stop", "replace"}, b \in Bots : OwnerRequests(op, b)
  \/ OwnerStep \/ SleepLoads \/ SleepStep
  \/ BackgroundEnds
  \/ \E c \in Callers \cup {Sleeper} : Dies(c)

\* Handlers that run go on; the job queue runs a run's job again; a lease that
\* nobody renews expires; the sleep job comes again for a computer that runs.
PowerFairness ==
  /\ \A b \in Bots : WF_powerVars(RunStep(b)) /\ WF_powerVars(LeaseExpires(b))
  /\ \A c \in Callers : WF_powerVars(CallerStep(c))
  /\ WF_powerVars(OwnerStep) /\ WF_powerVars(SleepStep)

PowerSpec == PowerInit /\ [][PowerNext]_powerVars /\ PowerFairness

-----------------------------------------------------------------------------
(* Properties.                                                             *)

\* A sandbox is not stopped or destroyed under a run that works on it, unless
\* the owner stopped the computer of that very bot: a suspension or a
\* replacement that raced a new run always lets go of the sandbox before the
\* run works, on a Team computer with its leases and on a dedicated one without.
\* Nor does the sleep job stop it while a process that a run left runs in it.
\* (Not claimed once a stop overtook a boot, whose rollback stops the sandbox
\* whoever has booted it again, nor once a stop put back "stopped" for a
\* computer that runs: a failed boot on top of it stops the sandbox too.)
WorkUndisturbed ==
  [][ (box = "up" /\ box' # "up" /\ ~overtaken /\ ~putBack) =>
        /\ \A b \in Bots : at[b] = "work" => b \in halted
        /\ at[Sleeper] = "sleepBox" => ~background ]_powerVars

\* A computer in booting or suspending has a process that will move it on:
\* every way out of a transition, failures included, leaves a settled state.
\* (A process that dies in between, or a stop that puts back booting when that
\* boot has ended meanwhile, strands the row: nothing recovers it.)
TransitionOwned ==
  power \in Transitional =>
    died \/ putBack \/ \E c \in Callers \cup {Sleeper} : at[c] \in Claimed

\* A run gets its computer: whatever sleeps, replacements and failures it
\* meets, it comes to work on the sandbox.  (Not claimed once a transition was
\* stranded, nor once a stop overtook a boot: the boots of two bots may then
\* undo each other for ever, each putting the other's booting in error.)
RunGetsComputer ==
  \A b \in Bots :
    []<>(botRun[b] # "none" => at[b] = "work" \/ died \/ putBack \/ overtaken)
=============================================================================
