--------------------------- MODULE InMemoryJobQueue ---------------------------
(***************************************************************************)
(* The job queue of a process without a worker: timers and promises of one *)
(* JavaScript thread.  An action runs from one await to the next.          *)
(*                                                                         *)
(* A job is one call of enqueue; jobs with the same replaceKey are meant   *)
(* to replace each other.                                                  *)
(***************************************************************************)

CONSTANTS
  Jobs,
  Keys, NoKey, KeyOf,   \* the replaceKey of each job, if any
  Delayed               \* jobs whose availableAt is still to come

ASSUME QueueAssumption ==
  /\ NoKey \notin Keys /\ KeyOf \in [Jobs -> Keys \cup {NoKey}]
  /\ Delayed \subseteq Jobs

VARIABLES
  enqueue,     \* of a job: the call has not begun, awaits, returned, threw
  scheduled,   \* jobs with a timer
  keyed,       \* the job whose timer each key names
  running,     \* jobs whose handler runs
  closingJobs, \* jobs kept for the end of the drain
  closing, accepting, closeRequested, closed, stopped, handlers,
  dispatched,  \* history: jobs whose handler was started
  replaced,    \* history: jobs that another took the place of, or cancelled
  discarded,   \* history: delayed jobs given up by a drain
  drain        \* where performDrain is

queueJobs == <<enqueue, scheduled, keyed, running, closingJobs>>
queueFlags == <<closing, accepting, closeRequested, closed, stopped, handlers>>
queueHistory == <<dispatched, replaced, discarded>>
queueVars == <<queueJobs, queueFlags, queueHistory, drain>>

NoJob == "no job"

QueueTypeOK ==
  /\ enqueue \in [Jobs -> {"new", "await", "ok", "threw"}]
  /\ scheduled \subseteq Jobs /\ running \subseteq Jobs
  /\ keyed \in [Keys -> Jobs \cup {NoJob}]
  /\ closingJobs \subseteq Jobs
  /\ closing \in BOOLEAN /\ accepting \in BOOLEAN
  /\ closeRequested \in BOOLEAN /\ closed \in BOOLEAN
  /\ stopped \in BOOLEAN /\ handlers \in BOOLEAN
  /\ dispatched \subseteq Jobs /\ replaced \subseteq Jobs
  /\ discarded \subseteq Jobs
  /\ drain \in {"no", "running", "closing"}

\* The host was started with its handlers.
QueueInit ==
  /\ enqueue = [j \in Jobs |-> "new"]
  /\ scheduled = {} /\ running = {} /\ closingJobs = {}
  /\ keyed = [k \in Keys |-> NoJob]
  /\ closing = FALSE /\ accepting = FALSE
  /\ closeRequested = FALSE /\ closed = FALSE
  /\ stopped = FALSE /\ handlers = TRUE
  /\ dispatched = {} /\ replaced = {} /\ discarded = {}
  /\ drain = "no"

SameKey(j, J) == {i \in J : KeyOf[i] = KeyOf[j] /\ KeyOf[j] # NoKey}

Returned(j) == enqueue' = [enqueue EXCEPT ![j] = "ok"]
Threw(j) == enqueue' = [enqueue EXCEPT ![j] = "threw"]

-----------------------------------------------------------------------------
(* Enqueueing.                                                             *)

\* enqueueWhileClosing: a delayed job is given up, another is kept while the
\* first handlers of the drain run.
EnqueueWhileClosing(j) ==
  LET same == SameKey(j, closingJobs)
      rest == closingJobs \ same
  IN  /\ replaced' = replaced \cup same
      /\ \/ j \in Delayed /\ Returned(j)
            /\ closingJobs' = rest /\ discarded' = discarded \cup {j}
         \/ j \notin Delayed /\ ~accepting /\ Threw(j)
            /\ closingJobs' = rest /\ UNCHANGED discarded
         \/ j \notin Delayed /\ accepting /\ Returned(j)
            /\ closingJobs' = rest \cup {j} /\ UNCHANGED discarded
      /\ UNCHANGED <<scheduled, keyed>>

Schedule(j) ==
  /\ Returned(j)
  /\ scheduled' = scheduled \cup {j}
  /\ keyed' = IF KeyOf[j] = NoKey THEN keyed
              ELSE [keyed EXCEPT ![KeyOf[j]] = j]
  /\ UNCHANGED <<closingJobs, replaced, discarded>>

\* cancel: the job kept for the end of the drain, and the key's timer.
Cancel(j) ==
  LET k == KeyOf[j]
      gone == SameKey(j, closingJobs) \cup ({keyed[k]} \ {NoJob})
  IN  /\ closingJobs' = closingJobs \ gone
      /\ scheduled' = scheduled \ gone
      /\ keyed' = [keyed EXCEPT ![k] = NoJob]
      /\ replaced' = replaced \cup gone

Enqueue(j) ==
  /\ enqueue[j] = "new"
  /\ \/ /\ closed \/ stopped
        /\ Threw(j)
        /\ UNCHANGED <<scheduled, keyed, closingJobs, replaced, discarded>>
     \/ ~closed /\ ~stopped /\ closing /\ EnqueueWhileClosing(j)
     \/ ~closed /\ ~stopped /\ ~closing /\ KeyOf[j] = NoKey /\ Schedule(j)
     \/ /\ ~closed /\ ~stopped /\ ~closing /\ KeyOf[j] # NoKey
        /\ Cancel(j)
        /\ enqueue' = [enqueue EXCEPT ![j] = "await"]
        /\ UNCHANGED discarded
  /\ UNCHANGED <<running, queueFlags, dispatched, drain>>

\* The same checks after the await of the cancel.
ResumeEnqueue(j) ==
  /\ enqueue[j] = "await"
  /\ \/ /\ closed \/ stopped
        /\ Threw(j)
        /\ UNCHANGED <<scheduled, keyed, closingJobs, replaced, discarded>>
     \/ ~closed /\ ~stopped /\ closing /\ EnqueueWhileClosing(j)
     \/ ~closed /\ ~stopped /\ ~closing /\ Schedule(j)
  /\ UNCHANGED <<running, queueFlags, dispatched, drain>>

-----------------------------------------------------------------------------
(* Running.                                                                *)

\* The timer fires; without handlers the job is dropped.
Fire(j) ==
  /\ j \in scheduled
  /\ scheduled' = scheduled \ {j}
  /\ keyed' = [k \in Keys |-> IF keyed[k] = j THEN NoJob ELSE keyed[k]]
  /\ IF handlers
     THEN running' = running \cup {j} /\ dispatched' = dispatched \cup {j}
     ELSE UNCHANGED <<running, dispatched>>
  /\ UNCHANGED <<enqueue, closingJobs, queueFlags, replaced, discarded, drain>>

HandlerEnds(j) ==
  /\ j \in running /\ running' = running \ {j}
  /\ UNCHANGED <<enqueue, scheduled, keyed, closingJobs, queueFlags,
                 queueHistory, drain>>

-----------------------------------------------------------------------------
(* Stopping.                                                               *)

\* Jobs of a set in which the last of each key replaced the others.
OnePerKey(J) ==
  {K \in SUBSET J : /\ \A i, j \in K : i # j => KeyOf[i] # KeyOf[j]
                                                  \/ KeyOf[i] = NoKey
                    /\ \A j \in J \ K : SameKey(j, K) # {}}

\* stop or close begins the drain: due jobs are kept, delayed ones given up.
BeginDrain(forGood) ==
  /\ ~closed
  /\ closeRequested' = (closeRequested \/ forGood)
  /\ IF drain # "no"
     THEN UNCHANGED <<queueJobs, closing, accepting, queueHistory, drain>>
     ELSE /\ drain' = "running" /\ closing' = TRUE /\ accepting' = TRUE
          /\ \E kept \in OnePerKey(scheduled) :
               /\ closingJobs' = kept \ Delayed
               /\ replaced' = replaced \cup (scheduled \ kept)
               /\ discarded' = discarded \cup (kept \cap Delayed)
          /\ scheduled' = {}
          /\ keyed' = [k \in Keys |-> NoJob]
          /\ UNCHANGED <<enqueue, running, dispatched>>
  /\ UNCHANGED <<closed, stopped, handlers>>

\* Mutant: what the handlers enqueued meanwhile is thrown away.
DropClosingJobs ==
  /\ drain = "running" /\ running = {}
  /\ drain' = "closing" /\ accepting' = FALSE
  /\ closingJobs' = {}
  /\ UNCHANGED <<enqueue, scheduled, keyed, running, closing, closeRequested,
                 closed, stopped, handlers, queueHistory>>

\* The first handlers have ended: the jobs kept are run.
RunClosingJobs ==
  /\ drain = "running" /\ running = {}
  /\ drain' = "closing" /\ accepting' = FALSE
  /\ closingJobs' = {}
  /\ IF handlers
     THEN running' = closingJobs /\ dispatched' = dispatched \cup closingJobs
     ELSE UNCHANGED <<running, dispatched>>
  /\ UNCHANGED <<enqueue, scheduled, keyed, closing, closeRequested, closed,
                 stopped, handlers, replaced, discarded>>

EndDrain ==
  /\ drain = "closing" /\ running = {}
  /\ drain' = "no"
  /\ handlers' = FALSE /\ closing' = FALSE
  /\ closed' = closeRequested /\ stopped' = ~closeRequested
  /\ UNCHANGED <<queueJobs, accepting, closeRequested, queueHistory>>

\* The host is started again after a stop.
StartHost ==
  /\ stopped /\ drain = "no" /\ ~closed
  /\ handlers' = TRUE /\ stopped' = FALSE
  /\ UNCHANGED <<queueJobs, closing, accepting, closeRequested, closed,
                 queueHistory, drain>>

-----------------------------------------------------------------------------
QueueNext ==
  \/ \E j \in Jobs :
       Enqueue(j) \/ ResumeEnqueue(j) \/ Fire(j) \/ HandlerEnds(j)
  \/ \E forGood \in BOOLEAN : BeginDrain(forGood)
  \/ RunClosingJobs \/ EndDrain \/ StartHost

QueueSpec == QueueInit /\ [][QueueNext]_queueVars

\* A job that is due when its enqueue returns is run, now or at the end of a
\* drain that overtakes it, unless another with its key takes its place: no
\* stop, close or restart between two awaits loses it.
AcceptedJobsRun ==
  \A j \in Jobs \ Delayed :
    enqueue[j] = "ok" =>
      j \in scheduled \cup closingJobs \cup dispatched \cup replaced

\* Nothing is left behind by a drain: no timer and no handler outlives it.
QuietAfterDrain ==
  (stopped \/ closed) /\ drain = "no" => scheduled = {} /\ running = {}
===============================================================================
