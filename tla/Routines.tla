------------------------------- MODULE Routines -------------------------------
(***************************************************************************)
(* A routine and its firings: the row with the time of the next one, the   *)
(* keyed wake-up job, the handlers that run it, the replicas that          *)
(* reconcile (one, or two when one lost its session: Leadership), and the  *)
(* user who edits the schedule at any moment.                              *)
(*                                                                         *)
(* Time is counted in slots of the schedule, at each of which a recurring  *)
(* routine is due; no time is 0.                                           *)
(***************************************************************************)
EXTENDS FiniteSets, Naturals

CONSTANTS
  Handlers,           \* wake-ups the workers may run at once
  Reconcilers,        \* replicas that take themselves for the leader
  MaxTime,            \* bound: the last slot
  MaxEdits,           \* bound: edits by the user
  MaxRoutineFaults    \* bound: deaths, failed enqueues, jobs run again

ASSUME RoutinesAssumption ==
  /\ IsFiniteSet(Handlers)
  /\ MaxTime \in Nat /\ MaxEdits \in Nat /\ MaxRoutineFaults \in Nat

VARIABLES
  once,                 \* the schedule is a one-shot
  now,
  exists, active,       \* the row: there, active,
  nextRunAt, ran,       \* the next time, and lastRunAt is set
  job,                  \* the pending wake-up's time, at most one by its key
  wake, scheduledFor,   \* of a handler: where it is, its job's time,
  follows, myRun,       \* the next time it computed, the run it created,
  ranBefore,            \* and if lastRunAt was set before
  scanned,              \* of a reconciler: the wake-up it is about to enqueue
  edit,                 \* the edit of the user, or the creation, under way
  fired,                \* history: the runs of each time that were kept
  again,                \* history: times that the user set again, or that
                        \* were restored once their run had started
  moved,                \* history: times whose run was not yet enqueued when
                        \* the user edited the routine, or it fired again, or
                        \* another firing was put back
  paused,               \* history: the user's last word was to pause
  edits, mishaps

row == <<exists, active, nextRunAt, ran>>
handling == <<wake, scheduledFor, follows, myRun, ranBefore>>
editing == <<edit, edits, paused>>
told == <<fired, again, moved>>
routineVars == <<once, now, row, job, handling, scanned, editing,
                 told, mishaps>>

Times == 1 .. MaxTime
MaybeTime == 0 .. MaxTime + 1

\* Where the edit is, what it read of the row, and the time it read or, once
\* written, wrote.
EditStates ==
  [at : {"none", "create", "write", "enqueue", "cancel"},
   active : BOOLEAN, ran : BOOLEAN, next : MaybeTime]
NoEdit == [at |-> "none", active |-> FALSE, ran |-> FALSE, next |-> 0]

RoutineTypeOK ==
  /\ once \in BOOLEAN /\ now \in MaybeTime
  /\ exists \in BOOLEAN /\ active \in BOOLEAN /\ ran \in BOOLEAN
  /\ nextRunAt \in MaybeTime /\ job \in MaybeTime
  /\ wake \in [Handlers -> {"idle", "read", "claim", "enqueue", "restore",
                            "next"}]
  /\ scheduledFor \in [Handlers -> MaybeTime]
  /\ follows \in [Handlers -> MaybeTime]
  /\ myRun \in [Handlers -> {"none", "queued", "started"}]
  /\ ranBefore \in [Handlers -> BOOLEAN]
  /\ scanned \in [Reconcilers -> MaybeTime]
  /\ edit \in EditStates
  /\ fired \in [Times -> Nat]
  /\ again \subseteq Times /\ moved \subseteq Times
  /\ paused \in BOOLEAN /\ edits \in Nat /\ mishaps \in Nat

RoutineInit ==
  /\ once \in BOOLEAN /\ now = 0
  /\ exists = FALSE /\ active = FALSE /\ nextRunAt = 0 /\ ran = FALSE
  /\ job = 0
  /\ wake = [h \in Handlers |-> "idle"]
  /\ scheduledFor = [h \in Handlers |-> 0]
  /\ follows = [h \in Handlers |-> 0]
  /\ myRun = [h \in Handlers |-> "none"]
  /\ ranBefore = [h \in Handlers |-> FALSE]
  /\ scanned = [p \in Reconcilers |-> 0]
  /\ edit = NoEdit /\ edits = 0 /\ paused = FALSE
  /\ fired = [t \in Times |-> 0]
  /\ again = {} /\ moved = {}
  /\ mishaps = 0

Mishap == mishaps < MaxRoutineFaults /\ mishaps' = mishaps + 1

Later(t) == IF t > now THEN t ELSE now

\* Mutant: a slot is skipped.
CronSkips(t) == t + 2

\* nextCronDateAcross: the next slot; one past the bound is never due.
CronAfter(t) == t + 1

Tick ==
  /\ now < MaxTime /\ now' = now + 1
  /\ UNCHANGED <<once, row, job, handling, scanned, editing, told,
                 mishaps>>

-----------------------------------------------------------------------------
(* A handler (wakeRoutine).                                                *)

Goto(h, place) == wake' = [wake EXCEPT ![h] = place]

Done(h) ==
  /\ Goto(h, "idle")
  /\ scheduledFor' = [scheduledFor EXCEPT ![h] = 0]
  /\ follows' = [follows EXCEPT ![h] = 0]
  /\ myRun' = [myRun EXCEPT ![h] = "none"]
  /\ ranBefore' = [ranBefore EXCEPT ![h] = FALSE]

SameHandling == UNCHANGED <<scheduledFor, follows, myRun, ranBefore>>

\* A due job is taken from the queue; a dead worker's is run again.
TakeWakeup(h) ==
  /\ wake[h] = "idle"
  /\ \E t \in Times :
       /\ t <= now
       /\ \/ t = job /\ job' = 0 /\ UNCHANGED mishaps
          \/ Mishap /\ UNCHANGED job
       /\ Goto(h, "read")
       /\ scheduledFor' = [scheduledFor EXCEPT ![h] = t]
  /\ UNCHANGED <<once, now, row, follows, myRun, ranBefore, scanned,
                 editing, told>>

\* The row must be active and due at the job's time.
ReadRoutine(h) ==
  /\ wake[h] = "read"
  /\ IF exists /\ active /\ nextRunAt = scheduledFor[h]
     THEN /\ Goto(h, "claim")
          /\ ranBefore' = [ranBefore EXCEPT ![h] = ran]
          /\ UNCHANGED <<scheduledFor, follows, myRun>>
     ELSE Done(h)
  /\ UNCHANGED <<once, now, row, job, scanned, editing, told,
                 mishaps>>

\* deferFutureRoutine: the worker's clock says it is early.
DeferFuture(h) ==
  /\ wake[h] = "claim" /\ Mishap
  /\ job' = scheduledFor[h]
  /\ Done(h)
  /\ UNCHANGED <<once, now, row, scanned, editing, told>>

Unenqueued == {h \in Handlers : wake[h] \in {"enqueue", "restore"}}
InFlight == {scheduledFor[h] : h \in Unenqueued}
InFlightBut(h) == {scheduledFor[k] : k \in Unenqueued \ {h}}

\* Mutant: the claim does not compare the time.
ClaimableIfActive(h) == exists /\ active

Claimable(h) == exists /\ active /\ nextRunAt = scheduledFor[h]

\* The row moves on to the next time and the run is created, in one
\* transaction, if the row is still what was read.
ClaimFiring(h) ==
  LET t == scheduledFor[h]
      next == IF once THEN 0 ELSE CronAfter(Later(t))
  IN  /\ wake[h] = "claim"
      /\ IF Claimable(h)
         THEN /\ nextRunAt' = next /\ ran' = TRUE
              /\ active' = (next # 0)
              /\ fired' = [fired EXCEPT ![t] = @ + 1]
              /\ moved' = moved \cup InFlight
              /\ Goto(h, "enqueue")
              /\ follows' = [follows EXCEPT ![h] = next]
              /\ myRun' = [myRun EXCEPT ![h] = "queued"]
              /\ UNCHANGED <<scheduledFor, ranBefore>>
         ELSE Done(h) /\ UNCHANGED <<nextRunAt, ran, active, fired, moved>>
      /\ UNCHANGED <<once, now, exists, job, scanned, editing,
                     again, mishaps>>

\* The reconciler finds the queued run before its job is enqueued.
RunStarts(h) ==
  /\ wake[h] \in {"enqueue", "restore"} /\ myRun[h] = "queued"
  /\ myRun' = [myRun EXCEPT ![h] = "started"]
  /\ UNCHANGED <<once, now, row, job, wake, scheduledFor, follows,
                 ranBefore, scanned, editing, told, mishaps>>

EnqueueRun(h) ==
  /\ wake[h] = "enqueue"
  /\ \/ Goto(h, "next") /\ UNCHANGED mishaps
     \/ Goto(h, "restore") /\ Mishap
  /\ SameHandling
  /\ UNCHANGED <<once, now, row, job, scanned, editing, told>>

\* Mutant: the row is restored whatever became of it.
RestorableAnyhow(h) == exists

\* The row must still be as the claim left it for the firing to be redone.
Restorable(h) ==
  exists /\ nextRunAt = follows[h] /\ (follows[h] = 0 => ~active)

\* Mutant: a one-shot stays inactive.
RestoreTime(h) ==
  /\ nextRunAt' = scheduledFor[h] /\ ran' = ranBefore[h]
  /\ UNCHANGED active

RestoreRow(h) ==
  /\ nextRunAt' = scheduledFor[h] /\ ran' = ranBefore[h]
  /\ active' = TRUE

\* The run goes if it is still queued, the row is as before the claim, and
\* the job, which throws, is run again unless a newer one has its key.
RestoreFiring(h) ==
  LET t == scheduledFor[h]
  IN  /\ wake[h] = "restore"
      /\ IF myRun[h] = "queued"
         THEN /\ fired' = [fired EXCEPT ![t] = @ - 1]
              /\ UNCHANGED again
         ELSE /\ again' = again \cup {t}
              /\ UNCHANGED fired
      /\ IF Restorable(h)
         THEN RestoreRow(h) /\ moved' = moved \cup InFlightBut(h)
         ELSE UNCHANGED <<nextRunAt, active, ran, moved>>
      /\ job' = IF job = 0 THEN t ELSE job
      /\ Done(h)
      /\ UNCHANGED <<once, now, exists, scanned, editing, mishaps>>

\* A one-shot's job is cancelled, a recurring routine's next is enqueued.
EnqueueNext(h) ==
  /\ wake[h] = "next"
  /\ job' = IF once THEN 0 ELSE IF follows[h] # 0 THEN follows[h] ELSE job
  /\ Done(h)
  /\ UNCHANGED <<once, now, row, scanned, editing, told, mishaps>>

HandlerDies(h) ==
  /\ wake[h] # "idle" /\ Mishap
  /\ Done(h)
  /\ UNCHANGED <<once, now, row, job, scanned, editing, told>>

-----------------------------------------------------------------------------
(* The reconciler.                                                         *)

\* Mutant: it looks ahead only.
NotYetDue(t) == t > now /\ t <= now + 1

\* Overdue, or due within the look-ahead.
DueSoon(t) == t <= now + 1

\* reconcileOnce.
ScanRoutines(p) ==
  /\ scanned[p] = 0
  /\ exists /\ active /\ nextRunAt # 0 /\ DueSoon(nextRunAt)
  /\ scanned' = [scanned EXCEPT ![p] = nextRunAt]
  /\ UNCHANGED <<once, now, row, job, handling, editing, told,
                 mishaps>>

\* The job replaces the one with its key, which may be a newer one.
EnqueueScanned(p) ==
  /\ scanned[p] # 0
  /\ job' = scanned[p]
  /\ scanned' = [scanned EXCEPT ![p] = 0]
  /\ UNCHANGED <<once, now, row, handling, editing, told, mishaps>>

-----------------------------------------------------------------------------
(* The user.                                                               *)

\* routines.create, or scheduleFromTool, which alone makes one-shots.
CreateRoutine ==
  /\ ~exists /\ now = 0 /\ nextRunAt = 0 /\ edits = 0
  /\ exists' = TRUE /\ active' = TRUE /\ nextRunAt' = CronAfter(now)
  /\ edit' = [NoEdit EXCEPT !.at = "create", !.next = CronAfter(now)]
  /\ UNCHANGED <<once, now, ran, job, handling, scanned, paused, edits, told,
                 mishaps>>

\* The job cannot be enqueued, or the process dies first.  What the agent's
\* tool had created is deleted again.
SyncFails ==
  /\ edit.at \in {"create", "enqueue", "cancel"} /\ Mishap
  /\ \/ UNCHANGED exists
     \/ edit.at = "create" /\ exists' = FALSE
  /\ edit' = NoEdit
  /\ UNCHANGED <<once, now, active, nextRunAt, ran, job, handling, scanned,
                 paused, edits, told>>

ReadForUpdate ==
  /\ edit.at = "none" /\ edits < MaxEdits /\ exists
  /\ edit' = [at |-> "write", active |-> active, ran |-> ran, next |-> nextRunAt]
  /\ edits' = edits + 1
  /\ UNCHANGED <<once, now, row, job, handling, scanned, paused,
                 told, mishaps>>

\* What routines.update computes from the row it read, for the "active" the
\* user sends: the time as read, unless a recurring schedule is resumed or
\* has none.  A one-shot is armed again only if it has not run.
NextFor(wanted) ==
  IF ~wanted THEN {0}
  ELSE IF once
       THEN IF edit.next = 0 /\ ~edit.ran THEN {t \in Times : t > now}
            ELSE {edit.next}
       ELSE IF edit.active /\ edit.next # 0 THEN {edit.next}
            ELSE {CronAfter(now)}

WriteUpdate(wanted) ==
  /\ edit.at = "write"
  /\ \E next \in NextFor(wanted) :
       /\ nextRunAt' = IF exists THEN next ELSE nextRunAt
       /\ active' = IF exists THEN wanted ELSE active
       /\ again' = IF exists /\ next \in Times /\ fired[next] > 0
                   THEN again \cup {next} ELSE again
       /\ edit' = IF ~exists \/ (wanted = edit.active /\ (edit.next # 0 \/ next = 0))
                  THEN NoEdit
                  ELSE [edit EXCEPT !.at = IF next # 0 THEN "enqueue" ELSE "cancel",
                                    !.next = next]
  /\ paused' = ~wanted
  /\ moved' = moved \cup InFlight
  /\ UNCHANGED <<once, now, exists, ran, job, handling, scanned,
                 fired, edits, mishaps>>

\* The job of the time that was written, whatever it is by now.
SyncSchedule ==
  /\ edit.at \in {"create", "enqueue", "cancel"}
  /\ job' = IF edit.at = "cancel" THEN 0 ELSE edit.next
  /\ edit' = NoEdit
  /\ UNCHANGED <<once, now, row, handling, scanned, paused, edits,
                 told, mishaps>>

RemoveRoutine ==
  /\ exists /\ edits < MaxEdits /\ edit.at = "none"
  /\ exists' = FALSE
  /\ edits' = edits + 1
  /\ edit' = [NoEdit EXCEPT !.at = "cancel"]
  /\ UNCHANGED <<once, now, active, nextRunAt, ran, job, handling,
                 scanned, paused, told, mishaps>>

-----------------------------------------------------------------------------
Handle(h) ==
  \/ ReadRoutine(h) \/ ClaimFiring(h) \/ EnqueueRun(h) \/ RestoreFiring(h)
  \/ EnqueueNext(h)

RoutineNext ==
  \/ Tick
  \/ \E h \in Handlers :
       \/ TakeWakeup(h) \/ Handle(h) \/ DeferFuture(h) \/ RunStarts(h)
       \/ HandlerDies(h)
  \/ \E p \in Reconcilers : ScanRoutines(p) \/ EnqueueScanned(p)
  \/ ReadForUpdate \/ \E wanted \in BOOLEAN : WriteUpdate(wanted)
  \/ CreateRoutine \/ SyncSchedule \/ SyncFails \/ RemoveRoutine

\* Time passes, workers take due jobs and finish them, and some replica
\* leads, scans and enqueues at every interval (Leadership).
TakeDue(h) == TakeWakeup(h) /\ UNCHANGED mishaps
Reconcile(p) == ScanRoutines(p) \/ EnqueueScanned(p)

RoutineSpec ==
  /\ RoutineInit /\ [][RoutineNext]_routineVars
  /\ WF_routineVars(Tick)
  /\ \A h \in Handlers :
       WF_routineVars(TakeDue(h)) /\ WF_routineVars(Handle(h))
  /\ \A p \in Reconcilers : WF_routineVars(Reconcile(p))

-----------------------------------------------------------------------------
(* Properties.                                                             *)

\* A due time fires once, however many wake-ups arrive for it and whoever
\* enqueued them; but an edit that read the row before the firing sets the
\* time again, and a firing is redone when its run had already started.
FiresOnce == \A t \in Times \ again : fired[t] <= 1

\* A firing that a handler claimed is never lost: when its run is withdrawn
\* the row is due again at that time, whatever kind of schedule it has,
\* unless the user edited the routine meanwhile, or it has fired again or been
\* put back to another firing since.
FiringKept ==
  [][\A t \in Times :
       fired'[t] < fired[t] =>
         \/ nextRunAt' = t /\ active'
         \/ t \in moved \/ ~exists]_routineVars

\* Once the user has paused a recurring routine nothing but the user makes
\* it active again: no claim, restore or stale edit of an earlier read.
PauseHolds == paused /\ exists /\ ~once => ~active

\* A routine whose time has come does not stay due: it fires, or the user
\* moves or pauses it, whatever jobs were lost or replaced by older ones.
EventuallyFires ==
  \A t \in Times :
    []<>~(exists /\ active /\ nextRunAt = t)
===============================================================================
