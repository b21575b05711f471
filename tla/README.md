# 2Hands: formal models of runs, computers, conversations and their services

2Hands runs AI co-workers ("bots"). A message to a bot creates a *run*; a worker
process claims the run, drives an agent runtime, and the agent may ask the user,
hand the user its computer, call tools with external effects, and finish. Around
a run there are the messages that steer it, the followers of its thread, the
routines that start it, the bots that give it work, the group it works in, the
computer it works on, the queues that carry its jobs and the outbox that takes
its words to messaging channels. This directory holds
TLA+ models of that machinery wherever several actors meet in one database row
or one process, the TLC runs that check them on small instances, and the TLAPS
proofs of what matters most.

Paths below are relative to `src/`. `EX` is `packages/adapters/src/executor.ts`,
`EV` is `packages/db/src/events.ts`, `CL`, `CC`, `IDLE` are
`computer-lifecycle.ts`, `computer-control.ts` and `computer-idle.ts` next to the
executor, `MD`, `GH` are `messaging-delivery.ts`, `group-handoff.ts` there, `GR`
is `packages/db/src/groups.ts`, `RT`, `TT` are `router.ts` and
`thread-target.ts` in `apps/api/src`, `JR` is `job-reconciler.ts`, `RL` is
`realtime.ts` and `WK` is `wakeup.ts`, all in `packages/adapters/src`.

## 1. Inventory

| Component | State it keeps | Operations | What is hard |
|---|---|---|---|
| Run executor (`EX` 706-3405) | `Run` row: status, leaseOwner, leaseFence, leaseExpiresAt, resumeCheckpoint; `Attempt` rows; locals of the handler | claim, start, acquire the computer, attempt, heartbeat, renew, pause, finalize, requeue, catch, finally | several handlers of one run at a time: duplicate jobs, lapsed leases, crashes, failed commits |
| Run and thread transactions (`EV`, `TT`) | the rows above, messages, thread events | create, answer, pause, finalize, stop, clear, finalize a release of control | each is atomic, their order is anybody's |
| Jobs (`WK`, `background-job-handlers.ts`) | graphile-worker's queue, keyed by run | enqueue, run, retry | an enqueue follows its commit and may be lost; at-least-once |
| In-memory job queue (`WK`) | timers, keys, promises of one process | enqueue, replace, dispatch, drain, stop, close, start again | the await of a cancel inside an enqueue; a drain overtaking it |
| Reconciler (`JR`) | a cursor | scan due runs, expired controls, routines, deliveries; enqueue | scan and enqueue are apart |
| Reconciler leadership (`JR` 20-114) | the advisory lock of a session | try, lose, release | a session that broke without the replica noticing: two leaders |
| Team computer lease (`CL` 265-383) | `ComputerExecutionLease` row of a bot | acquire, renew, hold for a takeover, release, expire | the row is deleted and created again |
| Provisioning, sleep, replacement (`CL`, `IDLE`, `RT` 1300-1450) | `computers.state`, providerRef, the sandbox itself | provision, reconnect, roll back, boot, stop, replace, sleep | a computer suspended between a check and a lease; overlapping transitions |
| User control (`RT` 1455-1640, `CC`, `EV` 787-855) | control columns of the computer | take over, release, expire, revoke at the provider | reads, provider calls and commits are apart; expiry races release |
| External effects (`approval-effect.ts`, `EX` 1252-2708, 3679-3727) | `ExternalEffect` rows | propose, approve, claim, complete, leave uncertain | crash between the call and its record; replays; stale slots |
| Steering (`EV` 230-1061, `TT`) | messages with a steering claim | send, claim, release, continue in a new run, stop, clear | a message against the end of the run it steers |
| Thread events and followers (`EV` 1095-1199, `RL`) | event log with a sequence; one listening connection per process | append, signal, connect, reconnect, follow | missed wake-ups, lost connections |
| Routines (`EX` 599-700, `cron.ts`, `schedule-tools.ts`) | nextRunAt, active, the keyed wake-up | wake, claim, restore, reschedule, create, edit, remove | duplicate and late wake-ups against edits |
| Messaging surface (`MD`, `agent-connections.ts`, `messaging.ts`) | outbox rows, connections between agents | mirror, connect, answer, revoke, drain, retry | concurrent drains; lost answers; a revocation during a send |
| Bots that give each other work (`bot-messages.ts`, `JR` 229-284, `child-bots.ts` 278-350) | a message in each of two chats, a run with its source message, `botOutcomeReturnedAt` | message_bot, return an outcome, clear, archive, restore | several couriers of one outcome; reads before the transaction; chats that are gone |
| Groups of bots (`GH`, `GR`, `TT` 228-294, 642-867) | a thread with several bots, its members, runs with the handoff they were started by, the steering of each bot | send, follow up, hand a stage on, change the members, archive, restore, remove; stop, clear; archive and delete a bot | two locks, the group's and the thread's, taken in either order or not at all |
| Screens (`computer-screens.ts`, `core/screen-lease.ts`) | claims of displays | take, release | none: functions of one process that never await |
| Others | see `PROJECT.json` | | vendors' adapters, user interface, single transactions |

How they interact: a request (`RT`) commits a transaction of `EV` and then
enqueues `run.continue`; a worker runs `continueRun`, which writes the same rows
under a fence, claims the steering messages of its thread between the agent's
turns, and appends events that the followers of the thread are woken for; the
reconciler, whoever leads, finds what has lost its job; a routine's wake-up
creates a run like a message does, and so does the message of another bot, to
whom the outcome is returned when that run ends; in a group a run hands its stage
on to the next bot in the same thread; the run holds the lease of the computer that
the owner and the sleep job would like to stop; the user's takeover of a
computer finds the run that waits for it through the execution lease of the
run's bot, and its end, or its expiry, resumes the run; what the bot says is
mirrored into the outbox that drains empty.

What makes each component correct is stated by the properties of section 4 for
the modelled ones, and by the hazards in `PROJECT.json` for the others.

## 2. Plan and what has been done of it

1. `RunLifecycle`: the run row. Proofs in `RunLifecycle_proofs`. Done.
2. `TakeoverControl`: extends it by the computer's rows and the control. Proofs
   in `TakeoverControl_proofs`. Done.
3. `EffectPromise` and `ExternalEffects`: the abstract at-most-once promise and
   the rows, gates and answers that keep it, with the proofs of the refinement and
   of what becomes of approvals in `ExternalEffects_proofs`. Done.
4. `Conversation`: steering. Done, with proofs.
5. `EventDelivery` and `ThreadFollowers`: in-order, complete delivery and the log
   that refines it. Done, proofs in `Conversation_proofs`.
6. `InMemoryJobQueue`, `Leadership`. Done, proofs in `Services_proofs`.
7. `Routines`. Done, proofs in `Services_proofs`.
8. `ComputerPower`. Done, with proofs.
9. `MessagingOutbox`. Done, with proofs.
10. `Delegation`. Done, proofs in `Services_proofs`.
11. `GroupChat`. Done, proofs in `Services_proofs`.
12. `MCServices`: the services side by side. Done, proofs in `MCServices_proofs`.
13. Left: a composition of `ComputerPower` with the control of `TakeoverControl`, which
    has boot and sleep as single steps;
    a bound on the time a run waits when its worker died between the hold for a
    day and the pause, which needs a clock.

## 3. Modules

### RunLifecycle

One run, the slots that may execute `continueRun` for it, the user, the
reconciler, and time. `Slots` are concurrent handlers, `WorkerOf` their process;
`leaseOwner` is the process id (`worker/src/index.ts` 147), so slots of one
worker share it and only the fence tells them apart.

| TLA+ | Code |
|---|---|
| `status`, `leaseOwner`, `leaseFence`, `leaseExpiresAt`, `checkpoint` | columns of `Run`; the expiry is null, future or past |
| `pc[s]` | the place between two awaits of `continueRun` at which other writers may step in |
| `fence`, `resume`, `attempt`, `leaseValid` | locals of `continueRun`; the status of its attempt row |
| `sawExpired` | slots whose local `now` is past the expiry in the row; a renewal clears it, because it writes an expiry later than every `now` taken before |
| `job` | a `run.continue` job waits. A job key replaces a job that waits and not one that runs, so one bit is enough |
| `ReadRun` .. `CreateAttempt` | `EX` 726-806, one action per database call |
| `Heartbeat`, `Abort` | the timer, `EX` 813-829 |
| `AskUser`, `RequestTakeover`, `FinishTurn`, `WorkFails` | the agent's choice of how its turn ends; each commit first renews (`RenewFor`) and does slow work, then commits |
| `Commit` | the transaction of `pauseRunForInput`, `pauseRunForTakeover`, `finalizeRunOnce`: compare-and-set on (running, owner, fence), then the attempt, which throws when it is missing |
| `FinalizeFailed`, `RequeueFailedSetup`, `Finally` | the catch and finally blocks, `EX` 3294-3405 |
| `AnswerRunInput`, `ReleaseTakeover`, `StopRun`, `ClearThread` | the user's transactions; `Enqueued` is the enqueue that may fail after the commit |
| `ReconcileScan`, `ReconcileEnqueue` | `JR` 155-173 and 286-287 |
| `LeaseExpires`, `HolderStalls` | five minutes without a renewal: nobody tends the row, or a live holder is stalled |
| `Crash(w)` | the process of `w` dies with all its slots |

The claim (`ClaimRun`) writes the fence computed from an earlier read and does
not compare the row's own (`EX` 739-751). Two jobs may therefore claim one after
the other with equal fences when the first parked the row in between.
`regressed` records that this has happened; `SoleHolder` is stated for the
behaviours where it has not, `OneOutcome`, `AttemptAvailable`,
`TerminalIsFinal` and `ReclaimRaisesFence` for all.

### TakeoverControl

Extends `RunLifecycle`: each action of a slot is conjoined with what the handler
does to the computer's rows, so every behaviour of the pair, projected on the
run, is one of the handler's. It adds the execution lease of the bot (`exec*`,
`mine`, `hold`), the control columns (`control`), the handlers of the API
between their reads and their commits (`asked`, `pend`, `stopping`), and what
the handler tells the agent (`told`) beside what the user did (`said`).
`reissued` is history: a row that was deleted and created again got the fence
that some slot still has in `mine`. `StallSpec` adds holders that stall for
longer than their leases.

| TLA+ | Code |
|---|---|
| `execFence`, `execExpiry` | the bot's `ComputerExecutionLease`: no row, or a lease for five minutes, held for a day, lapsed |
| `AcquireLease`, `AcquireRefused` | `acquireComputerExecutionLease` and the validation that deletes the row again (`CL` 265-334) |
| `HoldLease`, `PauseHeld`, `ReleaseLease` | the takeover event (`EX` 2991-3036) and the finally block |
| `CheckTakeover`, `GrantTakeover` | `computer.takeover`: reads, then grants |
| `ReadRelease`, `ReadExpiry`, `FinalizeRelease`, `RevocationFails` | `computer.release` and `expireComputerControl` up to the provider, then `finalizeComputerControlRelease` |
| `power`, `halting` | `computers.state`, and `computer.stop` between its claim, its delete and its end |
| `ClaimStop`, `StopRefused`, `StopDeletesLease`, `StopEnds`, `StopFails` | `computer.stop` (`RT` 1370-1441): it looks for other bots' leases and runs only, deletes the lease of the bot's own run, stops the sandbox and blanks the control columns |
| `Boot`, `Sleep` | `computer.boot`, `sleepComputerIfIdle`, a step each (`ComputerPower` has them await by await) |
| `LeaseTaken` | a lapsed row is taken by somebody else for the same bot: another run, a boot, `computer.recover`, a lesson |
| `ClearControl`, `severed` | the columns are blanked whatever run they name; the controls that were bound to a waiting run then |
| `forfeited` | the row was deleted by `computer.stop`, or lapsed and was taken |

### EffectPromise and ExternalEffects

`EffectPromise` is what a bot's user is promised of an external effect: it is
carried out only after the user, a rule or the reviewer has allowed it, at most
once, never after a refusal, and what is recorded of it is true. "Unknown" is an
honest record. `ExternalEffects` is the code: the tool calls of one run, in
several slots of which one may hold the run and the others are stale, with their
rows in `ExternalEffect`.

| TLA+ | Code |
|---|---|
| `Requests`, `ToolOf` | a tool and its arguments; the key of the row, `approvalEffectKey`, is a hash of both |
| `Gate`, `always` | what `resolveActionApprovalDetail` and `planActionGate` say without, and with, the always-allow rules that answers create |
| `Consequential` | `requiresApprovalByDefault` |
| `effect`, `review`, `order` | status, reviewDecision and createdAt of the row |
| `run`, `epoch`, `fence` | the run's status and the fence of claims, from `RunLifecycle` |
| `queue[s]` | `createApprovedEffectReplayQueue`: read once by an attempt, in creation order |
| `rules[s]` | the memo of `loadApprovalRules`: read at the first call of a turn and stale afterwards |
| `at[c]` | the await of `applyTool` (`EX` 1252-1722) at which a call is |
| `saw`, `decision`, `claimed` | the row `recordEffect` returned, `gateDecision`, `claimedEffect` |
| `ReadEffect`, `CreateEffect` | `recordEffect`: find, then create; the unique key makes the loser throw |
| `Judge` | `runAutoReview`, whose verdict is any |
| `ClaimEffect`, `RereadEffect`, `SettleUncertain` | `claimOrReturn`, `settleUncertainEffect`: compare-and-set on the status |
| `CheckWaiting`, `RenewForApproval`, `PauseForApproval` | `requestApproval` |
| `Answer` | the transaction of `answerRunInput` for a card |
| `Perform`, `PersistResult` | the outside world; `completeExternalEffect` |
| `times`, `allowed`, `thrown` | history |

The refinement maps `authorized` to the allowed requests of consequential tools,
`times` to their counts, and `record` to the row's status (`Books`). Tools that
do not require approval by default are outside the promise: with a plan of allow
they run under a key of their own, as often as the agent calls them.

### Conversation

The runs of one bot in one thread and the messages sent while it is busy. Runs
are numbered by age; a message that reaches a busy thread becomes a steering row.

| TLA+ | Code |
|---|---|
| `run`, `claims` | the run's status and lease fence (`RunLifecycle` has the lease itself); `waiting` is both waiting states |
| `rows`, `bound`, `claimed` | `SteeringMessage` rows: which exist, their `runId` (0 is null), whether `claimedAt` is set |
| `turn`, `of`, `fence`, `seen` | locals of an attempt: the steering ids its agent was given are passed back by each call of `claimSteering` |
| `SendUserMessage` | `EV` 337-466: a run is created, or a steering row for the active one |
| `ReactToMessage`, `PeerMessage`, `RoutineFires` | what creates a run without asking whether one is active |
| `RoutineWithdrawn` | `EX` 676-700: the run of a firing that could not be enqueued is deleted, and the foreign key sets its rows' `runId` to null |
| `BeginTurns`, `NextTurn` | `claimSteering`, at the start of a turn and between turns |
| `FinalizeTurn` | `finalizeRunOnce` with `createSteeringContinuation`: the run ends, deletes the rows it claimed if it completed, and a continuation is created for those still pending if no other run of the bot is active |
| `StopThread`, `ClearConversation`, `StartLesson` | `stopThreadRuns`, `clearThread`, `startTaughtSkillSession`'s cancellation |
| `heard`, `answers`, `dropped`, `born`, `era`, `beside` | history |

### EventDelivery and ThreadFollowers

`EventDelivery` is what a thread promises its readers: events come one after the
other and each reader is given them in that order, none skipped but those that
were deleted. `ThreadFollowers` is the code: writers take the next number under
the lock of the thread's row (`Allocate`, `OpenAppend`), commit, and only then
signal (`Publish`); one connection per process listens (`client`, `candidate`,
`connecting`, `timer`: the fields of `PostgresRealtimeFanout`), breaks, and is
made again; `followThreadEvents` observes its latch, reads a batch, gives it to
the reader and waits (`follower`, `stirred`, `cursor`, `rest`). The refinement
maps `reached` to the cursor of each follower.

### Routines

One routine. `nextRunAt`, `active`, `ran` are its columns; `job` is the time of
the one wake-up its key allows. A handler (`wake`, `scheduledFor`, `follows`,
`myRun`, `ranBefore`) goes through `wakeRoutine`: read, claim by compare-and-set
on the time, enqueue the run, restore the firing if that fails, enqueue the next
wake-up. The user's edit (`edit`) reads the row, computes the new time from what
it read, writes it, and enqueues that time, whatever the row is by then. Replicas
scan and enqueue in two steps (`scanned`). Times are the slots of the schedule.

### ComputerPower

`power` is `computers.state`, the lock of a transition; `box` is the sandbox
itself, so that a row and a sandbox that disagree can be told. `at[c]` is the
place of each process between two awaits: the executor of each bot
(`TakeTurn` .. `ReleaseLease`, `Provision` .. `Reconnect`: `CL`), the owner's
request (`OwnerRequests` .. `AbandonReplace`: `RT`, `CL`) and the sleep job
(`SleepLoads` .. `RecordAsleep`: `IDLE`). `lease` and `lapsed` are the execution
lease rows; a dedicated computer (`scope`) has none. `written` says that
`updatedAt` has moved since the sleep job read it, on which its update is
conditional. `Claimed` are the places between a claim of the row and the write
that ends it.

### InMemoryJobQueue, Leadership

The queue of a process without a worker, an action from one await to the next:
`Enqueue` up to the await of the cancel of the job with its key, `ResumeEnqueue`
after it, `Fire`, `BeginDrain`, `RunClosingJobs`, `EndDrain`, `StartHost`.
`Leadership` is the advisory lock: `locking` are the sessions that hold it on the
server, `leaderClient` the replicas that believe so, and `releasing` those between
their unlock and the return of the connection to its pool.

### MessagingOutbox

The outbox of one direct message and one request to connect (`outbox`), the
connection it asks for (`connection`, and `cycle`, its request), and the drains.
`ListPending`, `ClaimRow`, `Resolve`, `SendMessage`, `RecordHandle`,
`CountOutbound`, `Catch` are `MD` from the query to the catch block;
`LockConnection`, `SendInvite`, `TransactionEnds` the transaction that holds the
connection's row around the call. The provider accepts, refuses, or accepts and
loses its answer (`ambiguous`). Both rows are for one addressee: `sinceInbound`
is its `outboundSinceInbound` up to `MESSAGING_DM_OUTBOUND_CAP` (`OutboundCap`),
which `CountOutbound` and other rows (`OthersSent`) raise and an inbound message
(`Inbound`) resets; `linked` are the rows whose identity is the present one, which
`Unlink` removes. `Resolve` fails the row of an identity that is gone, puts a row
at the cap back to pending with no send, attempt or backoff, and lets the others
on to the thread; the two updates throw when the row was deleted meanwhile.

### Delegation

Bots that give each other work. A message of one bot to another is a row in each
of their chats and a queued run of the recipient; all three are created in one
transaction, so one number stands for them.

| TLA+ | Code |
|---|---|
| `work`, `doer`, `intent`, `hop` | the run's status and bot; what its message says |
| `asker`, `cause` | the bot the message came from, and the run that sent it (`run.id` in the echo; `fromBotId`) |
| `inbox`, `echo` | deliveries whose message is still in the recipient's, the sender's chat |
| `auto` | deliveries of `returnBotMessageOutcome`, found again by their nonce |
| `reported` | `botOutcomeReturnedAt` is set |
| `doomed` | what `archiveBot` has read and not yet cancelled |
| `MessageBot` | the tool, `messageBot` from its reads to its transaction: the run is running, so nothing that it read before can have gone |
| `FinalizeWork`, `TakeOutcome` | the two callers of `returnBotMessageOutcome`: the worker after the run's end, the reconciler for what is not marked |
| `ReadSource`, `ReadSent`, `Address`, `DeliverOutcome`, `MarkReturned` | `returnBotMessageOutcome`, an action per await; `DeliverOutcome` is the transaction with its replay, its refusals, the reply to a message that is gone (a foreign key) and the delivery |
| `StopWork`, `ClearChat`, `ReadForArchive`, `ArchiveBot`, `RestoreBot` | the user: `stopThreadRuns`, `clearThread`, `archiveBot` (read, then write), `bots.restore` |

### GroupChat

One group: bots that share a thread, its person, and the stages of work they hand
to each other there. Whatever changes the group, sends to it or hands a stage on
locks its row; whatever ends, stops or clears runs locks the thread's; the
archiving of a bot and the firing of a routine lock neither. A transaction that
reads under one lock and writes under the other is two actions.

| TLA+ | Code |
|---|---|
| `group`, `members`, `resting`, `erased` | the group's archivedAt or its row's absence, its rows of `chat_group_members`, bots that are archived, and deleted |
| `stage`, `bearer`, `giver`, `chain`, `maker` | the runs of the thread: status, bot, and of the handoff each was started by `fromBotId`, `hop` and the run that sent it |
| `posted`, `steered`, `floating` | the messages of handoffs that are still there, the runs with unheard steering, the bots with steering bound to no run |
| `resolved`, `routed` | what `resolveThreadTarget` and `wakeRoutine` found before their transactions |
| `handing`, `changing`, `leaving` | a handoff, a change of the group, an archiving or deletion of a bot that has read and has yet to write |
| `ResolveTarget`, `SendToGroup`, `FollowUp`, `StopGroup`, `ClearGroup`, `AnswerStage`, `GiveUp` | the person's requests: the target, then the transaction with `lockAndLoadGroupMembers` |
| `StartStage`, `PauseStage`, `FinishStage` | a run, and its end with the continuation for what it has not heard |
| `ReadHandoff`, `WriteHandoff`, `HandoffAborted` | `handoffToGroupBot`, under the group's lock and then the thread's, by its nonce; a clear takes the two locks the other way round |
| `RouteRoutine`, `FireInGroup` | a routine of the group |
| `ReadForNewMembers`, `ReadForArchiving`, `ChangeGroup`, `RestoreGroup`, `RemoveGroup` | `updateGroup`, `archiveGroup` (reads, then writes), restore, remove |
| `ReadBotRuns`, `RestBot`, `WakeBot`, `CancelForErasing`, `EraseBot` | `archiveBot`, restore, `destroyBot` with `detachBotFromGroups` |
| `slipped`, `belated`, `wave`, `waves` | history |

### MCServices

Composes the nine modules from `Conversation` on, which share no variable. A
behaviour is one of a single service, picked at the start: two runs then check
all of them without the product of their states, and `ServicesAreApart` proves
that each behaviour is one of every service alone. `ServiceView`, the view of
the safety run, is the service and its own variables: the others are as they
began. In the composition the fairness of each service is unchanged, because the
weak fairness of a disjunction, of whose disjuncts only one can ever be enabled, is
that of this one; who acts is named alike in all services for the same reason.

## 4. Runs

| Run | Shows |
|---|---|
| `run_safety` | two slots of one worker, two faults, two pauses (1.4 million states): types; `OneOutcome`; `AttemptAvailable`; `SoleHolder`; `ReclaimRaisesFence` |
| `run_liveness` | two workers of one slot: `Settles`, a due run comes to rest although jobs get lost and workers die; `StopReachesSlots`, a stopped run leaves every slot |
| `run_transitions` | `LegalTransitions` fails (finding) |
| `takeover_team` | a Team computer, two slots, two stops, boots or sleeps of it (3.7 million states): `HeldForTakeover`, a waiting run keeps its row until `computer.stop` deletes it or it has lapsed and is taken |
| `takeover_control` | one slot, two grants, one stop, boot or sleep (0.8 million states): types; `ControlResumes`, a control bound to the waiting run ends with the run no longer waiting although a revocation fails, unless its columns were blanked by `computer.stop` or another bot |
| `takeover_skipped`, `takeover_dedicated`, `takeover_screen` | `SkippedIsNotDone`, `ReleaseContinues`, `OneComputerTask` fail (findings) |
| `effects_safety` | a tool that asks and one with a judge, a call in each of two slots, one fault (a million states): `AtMostOnce`; `KeepsPromise`, the refinement of `EffectPromise`; `EveryApprovalReplayed`; `AskAnswerable` |
| `effects_replay` | a tool that does not require approval by default, gated by a rule: `ReplayedOnce` fails (finding) |
| `services_safety` | the nine services of `MCServices` (4.2 million states). Conversation: `NoStranded`, `GoneOnlyIfGiven`, `NothingFromBefore`, `AnsweredOnce`. Followers: `InOrderDelivery` (refinement), `NeverOffline`. Routines: `FiresOnce`, `PauseHolds`, `FiringKept`. Power: `WorkUndisturbed`, `TransitionOwned`. Queue: `AcceptedJobsRun`. Outbox: `SentOnce`, `RequestIsCurrent`. Delegation: `ReportedOnce`. Groups: `OnlyMembersWork`, `StopEndsRelay`. All: `ServicesTypeOK` |
| `services_liveness` | the same on smaller bounds, with fairness: `EveryMessageHeard`, `EventuallyGiven`, `EventuallyFires`, `RunGetsComputer`, `EverythingSettles`, `SomeoneLeads`, `OutcomeReturned` |

Bounds. Two slots are the least number at which a stale and a current handler of
one run coexist; one worker gives both the same `leaseOwner`, which is the harder
case for safety, and two workers let one survive the other's crash, which is the
case liveness needs. `MaxFaults` bounds crashes, stalls, failed calls and busy
computers together: one is enough for every single failure, two for a failure
while another is being repaired. `MaxPauses` bounds the questions and takeovers
of the agent; with two a run is resumed, pauses again and is resumed by a stale
job. A busy computer counts as a fault because its retry is unbounded in the
code. `MaxGrants` bounds the controls granted: two make a stale release or expiry
meet a newer grant. `MaxTurns` bounds the stops,
boots and sleeps of a computer: two make a stop meet a boot. `MaxClaims` bounds the
claims of the run in `TakeoverControl`: once stops and boots delete and re-create
its lease row, two slots whose fences agree may end each other's attempts for ever,
so the states are not finite without it; three are a run, its retry and the resumed
run. `takeover_team` grants no control, which deletes no row of a waiting run, so that
two slots and two turns fit; `takeover_control` has one slot and one claim, so the
run is not taken up again after its release, and two grants and a turn meet while
it waits. The runs of findings have no turns. `takeover_team` has one pause: the
exception `reissued` of `HeldForTakeover` needs more of them than the run has, and
is what the proof is for. The effects have a call in each of two slots, the race that
the rows exist for; two calls of one turn share the replay queue, and the theorems
cover their claims for any number of calls.

The services. Two messages make one of them late while the other is heard;
six runs are the two of the messages, the extra ones (`MaxExtra`, 2: a stop, a
clear, a lesson, a peer, a firing, a question) and the continuations of both.
Two writers race for the thread's row, three events exceed the batch of one and
leave a rest behind it, and one drop is a lost signal, a broken connection, a
rolled back append or a reader that leaves. Two handlers hold the same due time,
with the reconciler enqueueing it a third time; one edit meets them at any place.
Two bots share a computer with the owner and the sleep job; `ComputerPower` was
also explored alone with two requests of the owner (7.4 million states). Three of
four jobs share a key, one of them delayed. Two drains race for the rows; two
cycles of a connection are a request, its revocation and the next request. A cap
of one lets a single message hold back the next. Two
bots and four runs are a person's message, a request, what the asked bot says by
itself and the report of the outcome; a worker and a reconciler are the two
couriers that may meet over one outcome, a hop limit of one lets the report go
beyond it, and one stop, clear, archiving or death falls between any two steps.
A group of two with a third bot outside can lose, gain and be too small for its
members; three runs are a message to two members, or to one that hands its stage
on, and a continuation or a routine's run; two sends let a second message meet a busy
member, and one change falls between any two steps. `services_liveness` leaves
the group idle, which has no liveness of its own: its runs end as runs do.
The theorems of section 6 hold for every value of these constants.
`CHECK_DEADLOCK FALSE`: a run that has its outcome stops, and so do the services
when nobody asks anything of them.

Slots of one worker are interchangeable, so the runs that check safety of the run
alone use them as a symmetry set.

## 5. Fairness

`FairSpec` assumes what the runtime gives without anybody's help: a handler that
is not waiting for the agent goes on (`Advance`), timers fire (`Heartbeat`), time
passes (`LeaseExpires`), and the reconciler polls. Nothing is assumed of the user
or the agent: `Settles` has the fairness of the agent's turns as its premise, and
`StopReachesSlots` holds without it. Faults are finitely many by `MaxFaults`; the
liveness properties say what happens once they have stopped.
`FairComputerSpec` assumes that the expiry job of a control runs when it is due
(it is scheduled with the grant, and the reconciler repairs it) and that a
revocation that does not fail commits.
`ExternalEffects` states safety alone and assumes no fairness.

The services: `ConvSpec` assumes that a queued run is claimed and its attempt goes
on to complete (what `Settles` shows of `RunLifecycle`), and that a routine's job
is retried; not that the user answers, hence the last disjunct of
`EveryMessageHeard`. `FollowSpec` assumes only that a follower goes on and that its
catch-up timer fires: nothing of writers, signals or the connection, so
`EventuallyGiven` rests on the polling alone. `RoutineSpec` assumes that time
passes, due jobs are taken and some replica polls. `PowerFairness` assumes that
handlers go on, that a requeued run's job runs again, that a row which nobody
renews expires, and that the sleep job comes again. `LeadSpec` assumes that
replicas try at every interval and that a query answers. `OutboxFairness` assumes
that drains go on, are enqueued while a row is due (`JR` 214, 305), and that a backoff
ends; nothing of inbound messages, hence the exception of `EverythingSettles` for rows
at the cap ("mirror rows stay pending until the next inbound resets the counter", `MD` 15).
`DelegationFairness` assumes that couriers go on and that the reconciler comes back
to every outcome that is not marked: strong fairness for each run, because `JR` 277
moves an outcome it could not return behind the others of its order. With one
request at a time, as in `services_liveness`, weak fairness is as much.

## 6. Proofs

All theorems hold for every value of the constants that satisfies the named
assumption of the module; none of these assumptions says more than that bounds
are natural numbers and that names are distinct. None of the invariants is
inductive alone; each module proves a stronger one, by one lemma per part and,
under it, one step per action.

`RunLifecycle_proofs` proves, for every set of slots and workers, every
assignment of slots to workers and every bound (`WorkerAssumption`,
`BoundAssumption`), the safety properties of `run_safety`: `TypeCorrect`,
`OutcomeOnce`, `LeaseInLine` (the lease columns agree with the status), `AttemptsAvailable`, `OneHolder`, `TerminalKept`,
`ReclaimFences`. The invariant (`Inductive`) conjoins
them with `AttemptsRun` (a slot past its setup has a running attempt unless the
run was cancelled), `FencesDistinct` (without a regression the fences of claimed
slots differ and are at most the row's) and `ExpiredReads` (a slot that read a
lapsed lease and has yet to claim computed the successor of the row's fence).
`ExpiredReads` is the reason `ReclaimRaisesFence` holds although the claim does
not compare fences: a holder cannot be replaced without `leaseExpiresAt` being
written, and that empties `sawExpired`.

`TakeoverControl_proofs` shows first that what this module adds leaves the run
alone. `StepOfRun`: every step is one of `RunLifecycle`, or none of it, but for a
renewal that finds the computer lost (it aborts the attempt) and a revocation
that fails (it counts a fault); so `IInv` is kept, `RunKeepsItsPromises` carries
`LeaseMatchesStatus`, `OneOutcome`, `AttemptAvailable` and `SoleHolder` over to
`StallSpec`, and `TerminalUntouched` does so for `TerminalIsFinal`. `ComputerTypeCorrect` is
proved for `StallSpec` too. For holders that do not stall, `OneTender` says that
the slot which has claimed the run is alone with it until it parks it, loses it or
the run is over (`SoleTender`), and `RowKeptForUser` proves `HeldForTakeover`. The
invariant (`ComputerInd`) is `IInv` with the types and six parts. `LeaseInHand`: what a
slot has of the lease at each place, so that an attempt on a Team computer has a fence and one
on its way in has none. `OneOwner`: unless a fence was given out again, a row
belongs to one slot. `HeldIsOwned`: from the hold to the pause the row is the
pausing slot's, since nobody else tends the run. `OwnerRetains`: while the run
waits, a slot that owns the row is one that will retain it. `Stopped`: the
deletions that follow a stop find the run cancelled. `HeldForTakeover` itself is
true by these: whoever could delete the row does not own it, or retains it. What
deletes the row with no look at the run is `computer.stop` (`RT` 1407), also in the
moment between the hold and the pause, and what takes it once it has lapsed; both
are recorded by `forfeited`, on which `HeldIsOwned` and `HeldForTakeover` depend:
without it both are false. As it was first stated, without `reissued`, `HeldForTakeover` is false: with two
slots and four pauses TLC finds an attempt on its way out that still has fence
1 while the row, deleted by a release and created again, is at 1 once more (`CL`
288-315, 370-383); it deletes the row of a run that waits for the user.

`ExternalEffects_proofs` proves `TypeCorrect`, `PerformedOnce` (`AtMostOnce`) and
`Refinement` (`KeepsPromise`). The invariant
(`Safe`, theorem `ClaimsAreSafe`) has four parts besides the types. `ClaimsHeld`:
a consequential request is carried out only by a call with a claim, and while a
claim is held the row is executing or uncertain. `ClaimsDiffer`: no two calls have
claimed the same request, because a claim needs a row in a status that no held
claim leaves. `TimesMatch`: rows that can be claimed belong to requests never
carried out, and completed rows to those carried out once. `AllowedFirst`: what
is approved, reviewed as passed, or on its way with a decision to allow has been
allowed. `Cases` sorts the steps by what they touch; the lemmas that follow take
one part each. For the refinement, `PerformKeeps` maps `Perform` to `CarryOut`,
`SettleKeeps` and `AnswerKeeps` map a change of the books to `Book`, and all other
steps authorize or stutter (`QuietStep`).

The same module proves `ApprovalsReplayed` (`EveryApprovalReplayed`) and
`WaitingIsAnswerable` (`AskAnswerable`), by an invariant of its own (`Approvals`,
checked by TLC with three sets of constants before it was proved). Both rest on
one fact: answers come only while the run waits, so while an attempt is in charge
nothing becomes approved and no rule is added. Hence what a current attempt
remembers of the rules is what they are (`RulesStand`) and its decisions are still
right when it acts on them (`DecisionsStand`); nobody claims a row that is about to
be asked about (`AskStands`), nor while its card waits (`CardStands`). And an
approved row is, for the attempt in charge, still in its replay queue, in flight in
a call that has seen it or has yet to look, or thrown (`ReplaysKept`,
`ReplaysSeen`); a run completes when the queue is empty and nothing is in flight.

`Conversation_proofs` proves `ConvTypeCorrect`, `NothingComesBack`,
`NobodyStranded`, `RowsGoWhenGiven` and `MessagesAnsweredOnce`. `FenceInv`: a
fence held by a slot is at most the row's, and no two slots hold the same fence of
one run. `BornInv`: a busy run was born after the last clear, which is
`NothingFromBefore` of the answer it will give. `GivenInv`: what is claimed for a
run was given to its holder, or to one that died and whose successor will be given
it again; it carries `GoneOnlyIfGiven` over the death of an attempt. `OneActive`
(no two runs are busy unless one was started beside another), `SourceInv` and
`HeardInv` (a run that has heard a message and not yet answered is busy and is the
one its row is bound to) make `AnsweredOnce` inductive: a message's row goes in
the very transaction that writes the answer.

The same module proves of the followers `FollowTypeCorrect`, `FollowersAreNeverOffline`
and `Delivers`, the refinement of `EventDelivery`. Its invariant says that the
holder of the row's lock has the number before the next and all committed numbers
lie below it, and that what a follower has read is a prefix of what it has yet to
read (`BatchIsPrefix`), so that an event between its cursor and what it is about
to give has been deleted.

`Services_proofs` holds the proofs of the smaller services. It proves of the
in-memory queue `QueueTypeCorrect`,
`AcceptedJobsAreRun` and `StoppedIsQuiet` (once a drain has ended no timer and no
handler outlives it), and of the leadership `LockIsHeldByALeader`: the lock is
held by at most one session, that of a replica that leads or is about to unlock,
and never by a connection left in a pool.

Of the work between bots it proves `DelegationTypeCorrect`,
`ChainsEnd` (no message lies deeper than `MaxHops`, but an outcome that comes back
from there; a theorem alone, no run checks it) and `OutcomesReportedOnce`
(`ReportedOnce`). The invariant (`DelegationInv`) says of the rows that nobody
knows a run that is not there, that what was sent names its sender, and that a
report goes back to who asked and only when the run is over (`WorksInv`); that a
clear takes the messages of a run from both chats alike (`ChatsInv`); and that what
a courier has found out about its run is still so when it acts on it
(`CouriersInv`, `KnowsInv`). The last is the argument why two reconcilers and a
worker that crashed halfway cannot answer twice: after the check for a result sent
by the run itself no such result can appear, because only a running run sends, and
the report's own key is looked for in the transaction that writes it. The operator
`Report` describes the new row to all parts. `OutcomeReturned`, that a report comes
at all, stays with TLC.

Of groups it proves `GroupTypeCorrect`, `MembersAlone` (`OnlyMembersWork`),
`StopsEndRelays` (`StopEndsRelay`) and `StagesHandedOnce` (`HandedOnce`, which no
run checks). The invariant (`GroupInd`) adds what the transactions under way know.
`Pending`: a handoff that has read finds, when it writes, the group as it was, for
it has kept the group's lock; that its run was cancelled meanwhile it sees itself,
hence `StopEndsRelay`. `Grasped`: a change of the group that has read knows every
run that it must cancel, because no message and no handoff can start one before
it has written; a continuation or a routine's run can (`slipped`). `Traced`: the
handoff of a run stays a message as long as the run is not over, so a repeated
call finds it. `Known`: what was read still exists, or is marked as deleted.

Of routines it proves `RoutineTypeCorrect`, `RoutineFiresOnce`, `PausesHold`
and `FiringsAreKept`. `FiringInv`: a time that the row still has, and that was not
set again, has not fired. `CountsInv`: the runs of a time that may still be
withdrawn are no more than the times it fired (a cardinality, which is why
`Handlers` is assumed finite), so a withdrawal never counts below zero. `KeptInv`:
the row is as a claim left it for as long as the claim's time is not in `moved`.
`PauseInv`: no write under way activates a row that the user paused last.

`ComputerPower_proofs` proves `PowerTypeCorrect`, `TransitionsAreOwned`,
`TransitionsAreAlone` and `WorkIsUndisturbed`. The state column is shown to be a
lock (`OwnedInv`, `AloneInv`): between the claim of booting or suspending and the
write that ends it there is one process. `WorkInv` says where runs can be while a
process is about to stop or destroy the sandbox: the runs were looked at after the
row was taken, and a run comes to work only over a row that is neither suspending
nor booting, or after a validation that found it so.

`MessagingOutbox_proofs` proves `OutboxTypeCorrect`, `SentAtMostOnce` and
`RequestsAreCurrent`. Its invariant follows a row from the claim to the record:
who is past the claim of a row (`HoldersInv`), what the row says of messages and
requests already accepted (`MessagesInv`, `RequestsInv`, with `WaysInv` and
`IdsInv` for which rows those are), and that the lock of the connection is held by
the drain whose call it surrounds (`ConnectionLockInv`).

`MCServices_proofs` proves of the composition that a behaviour of it is one of each
service (`ServicesAreApart`: the safety parts of their specifications), that all
their inductive invariants hold of it together (`ServicesInvariant`), and
`ServicesTypeCorrect`. What is proved of a service thus holds of the very
specification that `services_safety` explores.

Every invariant that a run checks is also a theorem, and so are the action
properties and the two refinements. Model-checked only: the liveness properties
(`Settles`, `StopReachesSlots`, `ControlResumes` and those of
`services_liveness`), because fairness and ENABLED are beyond the prover, and the
findings, which are counterexamples.

## 7. Findings

* `run_transitions`: a busy computer, or a failed setup, takes a running run back
  to queued; `core/run-state.ts` 12-21 does not list that transition, and its
  assertion is consulted at one place only.
* `takeover_skipped`: a job that claims a run in `waiting_takeover` tells the
  agent that the user has finished, although the user did nothing.
* `takeover_dedicated`: on a Private Computer there is no execution lease, the
  control is bound to no run, and its release does not resume the run.
* `takeover_screen`: the fence of the execution lease restarts at 1 when the row
  is created again, so a stalled slot passes for its successor. Without any stall,
  an attempt on its way out of an earlier pause may delete the row of a later one,
  and the takeover that the run waits for no longer finds it (`reissued`).
* `computer.stop` refuses for the runs of other bots only. On a bot whose own run
  waits for the user it deletes the lease row (`RT` 1407) and blanks the control
  columns (1417-1427): the run goes on waiting, a later takeover finds no lease to
  bind the control to, and its release resumes nobody. The same follows when the row
  of a waiting run has lapsed after its day and is taken by another run of the bot, a
  boot, a recovery or a lesson; and a takeover by another bot of the team blanks the
  columns (`RT` 1476) and leaves the run waiting, but with its row, so a new takeover
  finds it. `HeldForTakeover` and `ControlResumes` name these (`forfeited`,
  `severed`); no text of the repository promises otherwise, so no run refutes them.
* `effects_replay`: a tool that does not require approval by default, asked for
  because of a rule for its connector and answered "always", is replayed under a
  key of its own (`EX` 1475-1478); its approved row is never claimed, and every
  later attempt of the run replays it again.

The services showed the following, which their properties name as exceptions
(history variables) and no run refutes:

* Steering. The start of a lesson cancels runs and leaves their steering rows
  bound to them (`dropped` in `NoStranded`). A run started beside an active one by
  a peer, a webhook, a reaction or a routine may answer a message a second time,
  and so may the runs around a withdrawn firing (`beside`).
* Routines. An edit that read the row before a firing sets its time again, and the
  time fires twice; a firing whose run was found by the reconciler before the
  restore is redone (`again`). `SyncSchedule` enqueues the time it wrote, which
  another edit may have changed meanwhile: harmless, as the wake-up compares.
* Power. A process that dies between its claim and its end leaves booting or
  suspending for good (`died`). `computer.stop` puts back the state it read before
  its claim, not the one it took (`putBack`). A stop takes the row from a boot that
  is under way; that boot's rollback then stops the sandbox, whoever booted it
  since, and the boots of two bots may undo each other for ever (`overtaken`).
* Messaging. The comment at `MD` 413 says that `nextAttemptAt` keeps other drains
  from racing the backoff; the claim does not read it, and a drain that listed the
  row earlier sends at once. Attempts are counted from the row as it was listed.
  An accepted send whose answer, record or count fails is sent again (`ambiguous`),
  a request to connect included when the counter of its owner cannot be updated. A
  transaction that times out around the call lets a revocation commit before the
  send (`untimely`). A drain that dies after its claim leaves the row sent
  (`stranded`).
* Queue. Two enqueues of one key that both await keep both timers. A job that falls
  due before the host was started is dropped without a trace (the model starts with
  the handlers in place).
* Bots. `archiveBot` reads the active runs before its transaction and cancels them
  by their ids alone: a run that completed in between becomes cancelled, and its
  outcome is never returned; one that was created in between stays active on an
  archived bot. (`TerminalIsFinal` is about the run's own transactions, which
  archiving is not among.) When the chat of the bot that asked is cleared, the
  reply to it refers to a message that is gone: every return fails, and the
  reconciler tries again for ever; likewise while the bot that asked is archived.
  When the chat of the bot that was asked is cleared between the reads of a
  courier, the report starts a chain of its own, at hop 1. A delegated run that is
  stopped answers nobody. `Outstanding` and the premise of `ReportedOnce` name
  these states.
* Groups. A continuation and a routine's run are created with no look at the
  group's row: one that meets a change of the group starts, and stays, for a bot
  that has left it or in a group that was archived (`slipped`). The handoff of a
  stale attempt is refused if its run was cancelled, but not if another attempt
  completed it: it gets through after a stop that came between (`belated`).
  `clearThread` locks the thread before the group and a handoff the group before
  the thread, so each may be the victim of a deadlock.
* Leadership. Two replicas may reconcile at once, one of which has lost its session
  and has not heard of it. `Routines` and `RunLifecycle` bear it: their scans may
  be enqueued any number of times.

## 8. Abstractions

* Messages, events, notifications and sequence numbers are left out of
  `RunLifecycle`; a transaction is one step.
* A job that a crashed worker had locked is lost (graphile-worker frees it after
  hours; the reconciler is faster).
* `TakeoverControl` has one bot and one run; other bots of the team appear as
  `OtherBotTakesOver`, other runs of the bot as `LeaseTaken`. Acquiring the lease and
  validating it are one step with two outcomes; `Boot`, `Sleep` and the provisioning
  of a run's computer are one step each, so a takeover in the middle of a sleep is not
  in it. Loss of the sandbox at the provider is left out there. Replacing a computer,
  or moving the bot to another one, is refused while the bot has an active run;
  archiving the bot and starting a lesson cancel its runs as a stop does. A release is read only when no other release or expiry is
  pending. A grant whose expiry job cannot be scheduled is undone by the code and
  never made by the model. Stalls are only in `StallSpec`. A switching computer is
  a busy one there; the switch itself is `ComputerPower`.
* Attempt rows of dead slots are not kept: nothing reads them.
* `ExternalEffects` keeps of the run what decides who holds it; `StartAttempt`
  stands for the claim and start of `RunLifecycle`, its third disjunct for lapsed
  leases and delayed jobs. The user's other questions, `request_secret`, tools
  that record no row (read-only ones), the routing of catalog and bound connector
  tools, and the schema check of replayed arguments are left out. The gate of a
  tool is fixed but for the always-rules; rules edited in the settings while a run
  works are not modelled. Rows under a key of their own are not kept: no other
  call ever finds them.
* `EveryApprovalReplayed` excepts requests of which a call threw, because the
  replay is taken from the queue before its row is claimed; `AskAnswerable`
  excepts requests with a judge, because two reviews of one intended row may
  disagree and leave the card of a row that has been claimed. Both exceptions are
  states the code can reach, listed as hazards.
* `Conversation` is of a runtime that claims steering between its turns (`pi`); the
  scripted runtime never does. `Slots` keep a fence instead of a lease. A retry of
  a message by its nonce is the message.
* `ThreadFollowers`: one thread and one process; the number of a rolled back append
  is taken again, as in the code; a poll without a signal is `CatchUp`.
* `Routines`: a schedule is a period, a one-shot is one time; a routine is created
  once. `PauseHolds` is for recurring routines: a one-shot that is restored is
  active again whatever the user said. The tool's fallback that deactivates a
  routine it cannot delete is left out.
* `ComputerPower`: the hold of a lease for a day during a takeover, the switch of a
  bot to another computer and the workspace's contents are left out. A wait for a
  transition that ends without it counts as a fault.
* `MessagingOutbox`: one row of each kind stands for all, because rows are claimed
  and sent independently but for the cap. The two have one addressee; its counter
  is kept up to the cap, and for a provider other than sendblue the cap is never
  reached. Rows without an identity (groups, introductions) are left out.
* `Delegation`: one user and space; a run of it is queued, running or ended, what
  happens within is `RunLifecycle`. A call of message_bot that is executed again
  finds its message by the nonce and is the first call. A question is a request.
  Runs are numbered by age. Bots are not renamed or removed.
* `GroupChat`: one group and one person. A completed run and a failed one are both
  ended, since nothing later tells them apart; what happens within a run is
  `RunLifecycle`, and of steering it keeps which runs and bots have some unheard,
  not how much (`Conversation` has the messages). Names, instructions and the
  order of members are left out: any member may be the first. A retry by its nonce
  of a request is the request.
* `InMemoryJobQueue`: handlers are choices of when they end; `KeyOf` and `Delayed`
  fix what a job is.

## 9. Not modelled

* Screen claims (`computer-screens.ts`, `core/screen-lease.ts`): a table in one
  process changed by functions that never await.
* History compaction: one conditional update; the summary is a model's output.
* Teaching sessions but for the start of a lesson: they write the control columns
  as `TakeoverControl` has them. Their release never enqueues the run it resumes
  (`teaching-session.ts` 282); the reconciler finds it.
* The spawning and removal of child bots by their parents, but for the part of
  removal that all bots share (`destroyBot`, in `GroupChat`).
* Inbound messages, but for the reset of the cap (`Inbound`), and the fan-out to
  channels.
* Agent runtimes, sandbox providers, connectors, model credentials: requests to
  vendors; what they do is a choice of the modelled components, failure included.
* Memory, home, artifacts, authentication, spaces, billing: single transactions
  and checks of one request.
* Self update: a script of the host replaces the program, by commands that the
  repository does not define.
* Clients: user interfaces; what users can ask is the actions of the user.

These hold most of the repository's lines, which is why the map covers a small
share of them: what has state that several actors change is in the modules above.
