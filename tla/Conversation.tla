----------------------------- MODULE Conversation -----------------------------
(***************************************************************************)
(* The runs of one bot in one thread, and the messages the user sends      *)
(* while the bot is busy: steering rows, which the current run claims      *)
(* between its turns, and which a continuation run answers when they come  *)
(* too late.                                                               *)
(*                                                                         *)
(* Every transaction here but two locks the thread's row, so each is one   *)
(* step; a routine's firing and the start of a lesson only touch rows that *)
(* the others read under their own row locks.  Leases and jobs are those   *)
(* of RunLifecycle: here an attempt is the slot that runs it and the fence *)
(* of its claim.                                                           *)
(***************************************************************************)
EXTENDS FiniteSets, Naturals

CONSTANTS
  Messages,    \* what the user sends
  RunIds,      \* 1 .. the number of runs explored
  Slots,       \* attempts that may be in progress at once
  MaxExtra,    \* bound: stops, clears, reactions, peers, firings, questions
  MaxFaults    \* bound: deaths, stalls, failed runs and failed enqueues

ASSUME ConversationAssumption ==
  /\ RunIds \subseteq Nat \ {0}
  /\ MaxExtra \in Nat /\ MaxFaults \in Nat

VARIABLES
  run, claims,     \* status of each run, and its lease fence
  source,          \* the messages a run was created for
  rows,            \* messages with a steering row
  bound, claimed,  \* runId of each row (0: null), rows with claimedAt set
  turn, of, fence, \* of a slot: where it is, its run, the fence it holds,
  seen,            \* and the steering ids its agent was given
  firing, due,     \* the run of a firing not yet enqueued; a firing to redo
  sent, dropped,   \* history: messages sent; and discarded by the user
  heard,           \* history: runs whose agent was given the message
  beside,          \* history: a run was created next to an active one, or
                   \* a routine's was withdrawn
  born, era,       \* history: the era of each run; clears so far
  answers,         \* runs with an answer in the thread
  extra, misses

runRows == <<run, claims, source, born>>
steering == <<rows, bound, claimed>>
attempts == <<turn, of, fence, seen>>
routine == <<firing, due>>
talk == <<sent, dropped, heard>>
convVars == <<runRows, steering, attempts, routine, talk, beside, era,
              answers, extra, misses>>

Busy == {"queued", "running", "waiting"}
ThreadRunStatus == {"absent", "deleted", "completed", "failed", "cancelled"}
                     \cup Busy

ConvTypeOK ==
  /\ run \in [RunIds -> ThreadRunStatus]
  /\ claims \in [RunIds -> Nat] /\ born \in [RunIds -> Nat]
  /\ source \in [RunIds -> SUBSET Messages]
  /\ rows \subseteq Messages /\ claimed \subseteq rows
  /\ bound \in [Messages -> RunIds \cup {0}]
  /\ turn \in [Slots -> {"idle", "begin", "turn"}]
  /\ of \in [Slots -> RunIds \cup {0}]
  /\ \A s \in Slots : turn[s] # "idle" => of[s] \in RunIds
  /\ fence \in [Slots -> Nat]
  /\ seen \in [Slots -> SUBSET Messages]
  /\ firing \in RunIds \cup {0} /\ due \in BOOLEAN
  /\ sent \subseteq Messages /\ dropped \subseteq Messages
  /\ heard \in [Messages -> SUBSET RunIds]
  /\ beside \in BOOLEAN
  /\ era \in Nat /\ extra \in Nat /\ misses \in Nat
  /\ answers \subseteq RunIds

ConvInit ==
  /\ run = [r \in RunIds |-> "absent"]
  /\ claims = [r \in RunIds |-> 0] /\ born = [r \in RunIds |-> 0]
  /\ source = [r \in RunIds |-> {}]
  /\ rows = {} /\ claimed = {}
  /\ bound = [m \in Messages |-> 0]
  /\ turn = [s \in Slots |-> "idle"]
  /\ of = [s \in Slots |-> 0] /\ fence = [s \in Slots |-> 0]
  /\ seen = [s \in Slots |-> {}]
  /\ firing = 0 /\ due = FALSE
  /\ sent = {} /\ dropped = {}
  /\ heard = [m \in Messages |-> {}]
  /\ beside = FALSE
  /\ era = 0 /\ extra = 0 /\ misses = 0
  /\ answers = {}

ActiveIn(status) == {r \in RunIds : status[r] \in Busy}
ActiveRuns == ActiveIn(run)

\* The ids in order, so that runs are told apart by age alone.
NextRun(r) ==
  /\ run[r] = "absent"
  /\ \A q \in RunIds : q < r => run[q] # "absent"

\* A run for the messages "for"; "status" is the column before it.
AddRun(status, r, for) ==
  /\ NextRun(r)
  /\ run' = [status EXCEPT ![r] = "queued"]
  /\ source' = [source EXCEPT ![r] = for]
  /\ born' = [born EXCEPT ![r] = era]
  /\ UNCHANGED claims

Extra == extra < MaxExtra /\ extra' = extra + 1
Miss == misses < MaxFaults /\ misses' = misses + 1

-----------------------------------------------------------------------------
(* The user, and what else starts runs.                                    *)

\* A message starts a run, or steers a run that is under way; a retry with
\* its nonce finds the message and changes nothing.
SendUserMessage(m) ==
  /\ m \notin sent
  /\ sent' = sent \cup {m}
  /\ \/ /\ ActiveRuns = {}
        /\ \E r \in RunIds : AddRun(run, r, {m})
        /\ UNCHANGED steering
     \/ \E busy \in ActiveRuns :
          /\ rows' = rows \cup {m}
          /\ bound' = [bound EXCEPT ![m] = busy]
          /\ UNCHANGED <<claimed, runRows>>
  /\ UNCHANGED <<attempts, routine, dropped, heard, beside, era, answers,
                 extra, misses>>

\* A thumbs-up starts a run unless one is queued or running; one that waits
\* for the user does not count.
ReactToMessage ==
  /\ Extra
  /\ \A r \in RunIds : run[r] \notin {"queued", "running"}
  /\ \E r \in RunIds : AddRun(run, r, {})
  /\ beside' = (beside \/ ActiveRuns # {})
  /\ UNCHANGED <<steering, attempts, routine, talk, era, answers, misses>>

\* Another bot's message, or a webhook, starts a run whatever is under way.
PeerMessage ==
  /\ Extra
  /\ \E r \in RunIds : AddRun(run, r, {})
  /\ beside' = (beside \/ ActiveRuns # {})
  /\ UNCHANGED <<steering, attempts, routine, talk, era, answers, misses>>

\* So does a routine, when its time comes or when its firing is redone.
RoutineFires ==
  /\ firing = 0
  /\ IF due THEN UNCHANGED extra ELSE Extra
  /\ \E r \in RunIds : AddRun(run, r, {}) /\ firing' = r
  /\ due' = FALSE
  /\ beside' = (beside \/ ActiveRuns # {})
  /\ UNCHANGED <<steering, attempts, talk, era, answers, misses>>

RoutineEnqueued ==
  /\ firing # 0
  /\ firing' = 0
  /\ UNCHANGED <<due, runRows, steering, attempts, talk, beside, era,
                 answers, extra, misses>>

\* Its run could not be enqueued: the run is deleted if it is still queued,
\* which unbinds its steering (onDelete: SetNull), and the firing is redone.
RoutineWithdrawn ==
  /\ firing # 0 /\ Miss
  /\ firing' = 0 /\ due' = TRUE
  /\ IF run[firing] = "queued"
     THEN /\ run' = [run EXCEPT ![firing] = "deleted"]
          /\ bound' = [m \in Messages |->
                         IF bound[m] = firing THEN 0 ELSE bound[m]]
          /\ beside' = TRUE
     ELSE UNCHANGED <<run, bound, beside>>
  /\ UNCHANGED <<claims, source, born, rows, claimed, attempts, talk, era,
                 answers, extra>>

AnswerRun(r) ==
  /\ run[r] = "waiting" /\ run' = [run EXCEPT ![r] = "queued"]
  /\ UNCHANGED <<claims, source, born, steering, attempts, routine, talk,
                 beside, era, answers, extra, misses>>

Cancelled(status, r) == IF status[r] \in Busy THEN "cancelled" ELSE status[r]

\* The messages not heard yet, which the user gives up by a stop or a clear.
Unheard == {m \in sent : heard[m] = {}}

StopThread ==
  /\ Extra
  /\ run' = [r \in RunIds |-> Cancelled(run, r)]
  /\ rows' = {} /\ claimed' = {}
  /\ bound' = [m \in Messages |-> 0]
  /\ dropped' = dropped \cup rows \cup Unheard
  /\ UNCHANGED <<claims, source, born, attempts, routine, sent, heard, beside,
                 era, answers, misses>>

\* Mutant: a run that waits for the user survives the clear.
ClearAllButWaiting ==
  /\ Extra
  /\ run' = [r \in RunIds |->
               IF run[r] = "waiting" THEN run[r] ELSE Cancelled(run, r)]
  /\ rows' = {} /\ claimed' = {}
  /\ bound' = [m \in Messages |-> 0]
  /\ dropped' = dropped \cup rows \cup Unheard
  /\ answers' = {} /\ era' = era + 1
  /\ UNCHANGED <<claims, source, born, attempts, routine, sent, heard, beside,
                 misses>>

\* Messages go, and with them their steering rows.
ClearConversation ==
  /\ Extra
  /\ run' = [r \in RunIds |-> Cancelled(run, r)]
  /\ rows' = {} /\ claimed' = {}
  /\ bound' = [m \in Messages |-> 0]
  /\ dropped' = dropped \cup rows \cup Unheard
  /\ answers' = {} /\ era' = era + 1
  /\ UNCHANGED <<claims, source, born, attempts, routine, sent, heard, beside,
                 misses>>

\* A lesson cancels the bot's runs, and leaves their steering rows bound.
StartLesson ==
  /\ Extra
  /\ run' = [r \in RunIds |-> Cancelled(run, r)]
  /\ dropped' = dropped \cup rows \cup Unheard
  /\ UNCHANGED <<claims, source, born, steering, attempts, routine, sent,
                 heard, beside, era, answers, misses>>

-----------------------------------------------------------------------------
(* An attempt.                                                             *)

Mine(s) == of[s] # 0 /\ run[of[s]] = "running" /\ claims[of[s]] = fence[s]

Idle(s) ==
  /\ turn' = [turn EXCEPT ![s] = "idle"]
  /\ of' = [of EXCEPT ![s] = 0]
  /\ fence' = [fence EXCEPT ![s] = 0]
  /\ seen' = [seen EXCEPT ![s] = {}]

\* A queued run is claimed, or one whose holder died or stalled.
StartAttemptOf(s, r) ==
  /\ turn[s] = "idle"
  /\ \/ run[r] = "queued" /\ UNCHANGED misses
     \/ /\ run[r] = "running" /\ UNCHANGED misses
        /\ ~\E t \in Slots : of[t] = r /\ fence[t] = claims[r]
     \/ run[r] = "running" /\ Miss
  /\ run' = [run EXCEPT ![r] = "running"]
  /\ claims' = [claims EXCEPT ![r] = @ + 1]
  /\ turn' = [turn EXCEPT ![s] = "begin"]
  /\ of' = [of EXCEPT ![s] = r]
  /\ fence' = [fence EXCEPT ![s] = claims[r] + 1]
  /\ UNCHANGED <<source, born, seen, steering, routine, talk, beside, era,
                 answers, extra>>

\* The rows claimSteering finds for an attempt, but those it has seen.
Steering(s) == {m \in rows \ seen[s] : bound[m] \in {0, of[s]}}

\* claimSteering: only rows nobody claimed are marked; all are returned.
ClaimSteering(s, found) ==
  LET fresh == found \ claimed
  IN  /\ claimed' = claimed \cup found
      /\ bound' = [m \in Messages |-> IF m \in fresh THEN of[s] ELSE bound[m]]
      /\ seen' = [seen EXCEPT ![s] = @ \cup found]

\* The agent starts with the prompt and whatever steering there is; it is
\* given more before each of its turns.
BeginTurns(s) ==
  LET found == IF Mine(s) THEN Steering(s) ELSE {}
  IN  /\ turn[s] = "begin"
      /\ turn' = [turn EXCEPT ![s] = "turn"]
      /\ ClaimSteering(s, found)
      /\ heard' = [m \in Messages |->
                     IF m \in found \cup source[of[s]]
                     THEN heard[m] \cup {of[s]} ELSE heard[m]]
      /\ UNCHANGED <<runRows, rows, of, fence, routine, sent, dropped, beside,
                     era, answers, extra, misses>>

NextTurn(s) ==
  LET found == Steering(s)
  IN  /\ turn[s] = "turn" /\ Mine(s) /\ found # {}
      /\ ClaimSteering(s, found)
      /\ heard' = [m \in Messages |->
                     IF m \in found THEN heard[m] \cup {of[s]} ELSE heard[m]]
      /\ UNCHANGED <<runRows, rows, turn, of, fence, routine, sent, dropped,
                     beside, era, answers, extra, misses>>

\* Mutant: a completed run deletes all its steering.
DeleteAllSteering(s, outcome) ==
  IF outcome = "completed" THEN {m \in rows : bound[m] # of[s]} ELSE rows

\* Mutant: a completed run keeps the steering it answered.
KeepAnswered(s, outcome) == rows

\* The rows a finished run leaves: completed, it deletes those it claimed.
RowsAfter(s, outcome) ==
  IF outcome = "completed"
  THEN {m \in rows : ~(bound[m] = of[s] /\ m \in claimed)}
  ELSE rows

\* Mutant: the finishing run still counts as active.
CountsItself(status) == ActiveIn(run) = {}

\* No other run of the bot is active: what is pending needs a continuation.
NeedsContinuation(status) == ActiveIn(status) = {}

\* finalizeRun: the run ends, lets go of its steering, and if no run is left
\* to hear what is pending, a continuation is created and bound to it.
FinalizeTurn(s, outcome) ==
  LET r == of[s]
      over == [run EXCEPT ![r] = outcome]
      left == RowsAfter(s, outcome)
      pending == {m \in left : bound[m] \in {0, r}}
      unbound(m, q) == IF m \in pending \/ m \notin left THEN q ELSE bound[m]
  IN  /\ turn[s] = "turn" /\ Mine(s)
      /\ IF outcome = "failed" THEN Miss ELSE UNCHANGED misses
      /\ rows' = left
      /\ IF NeedsContinuation(over) /\ pending # {}
         THEN \E q \in RunIds :
                /\ AddRun(over, q, {})
                /\ bound' = [m \in Messages |->
                               unbound(m, IF m \in pending THEN q ELSE 0)]
                /\ claimed' = (claimed \cap left) \ pending
         ELSE /\ run' = over
              /\ bound' = [m \in Messages |-> unbound(m, 0)]
              /\ claimed' = claimed \cap left
              /\ UNCHANGED <<claims, source, born>>
      /\ answers' = IF outcome = "completed" THEN answers \cup {r} ELSE answers
      /\ Idle(s)
      /\ UNCHANGED <<routine, talk, beside, era, extra>>

\* The attempt asks the user, and the run waits: its steering stays bound.
PauseTurn(s) ==
  /\ turn[s] = "turn" /\ Mine(s) /\ Extra
  /\ run' = [run EXCEPT ![of[s]] = "waiting"]
  /\ Idle(s)
  /\ UNCHANGED <<claims, source, born, steering, routine, talk, beside, era,
                 answers, misses>>

\* The attempt finds that the run is no longer its own.
AbandonTurn(s) ==
  /\ turn[s] # "idle" /\ ~Mine(s)
  /\ Idle(s)
  /\ UNCHANGED <<runRows, steering, routine, talk, beside, era, answers,
                 extra, misses>>

AttemptDies(s) ==
  /\ turn[s] # "idle" /\ Mine(s) /\ Miss
  /\ Idle(s)
  /\ UNCHANGED <<runRows, steering, routine, talk, beside, era, answers,
                 extra>>

Finish(s) == \E outcome \in {"completed", "failed"} : FinalizeTurn(s, outcome)

Attempt(s) ==
  \/ \E r \in RunIds : StartAttemptOf(s, r)
  \/ BeginTurns(s) \/ NextTurn(s) \/ Finish(s) \/ PauseTurn(s)
  \/ AbandonTurn(s) \/ AttemptDies(s)

ConvNext ==
  \/ \E m \in Messages : SendUserMessage(m)
  \/ \E r \in RunIds : AnswerRun(r)
  \/ ReactToMessage \/ PeerMessage
  \/ RoutineFires \/ RoutineEnqueued \/ RoutineWithdrawn
  \/ StopThread \/ ClearConversation \/ StartLesson
  \/ \E s \in Slots : Attempt(s)

\* The fairness of RunLifecycle's workers: a queued run is claimed by a free
\* slot, and an attempt goes on; a routine's job is retried until it fires.
Progress(s) ==
  \/ \E r \in RunIds : StartAttemptOf(s, r) /\ UNCHANGED misses
  \/ BeginTurns(s) \/ NextTurn(s) \/ FinalizeTurn(s, "completed")
  \/ AbandonTurn(s)

RoutineJob == RoutineEnqueued \/ (due /\ RoutineFires)

ConvSpec ==
  /\ ConvInit /\ [][ConvNext]_convVars
  /\ \A s \in Slots : WF_convVars(Progress(s))
  /\ WF_convVars(RoutineJob)

-----------------------------------------------------------------------------
(* Properties.                                                             *)

\* A message on its way to the bot is never stranded: its row is bound to a
\* run that is still to hear it, or floats while some run of the thread (or
\* the routine whose firing is redone) is there to pick it up.  Only a
\* lesson leaves rows behind, with the messages it made the user give up.
NoStranded ==
  \A m \in rows \ dropped :
    IF bound[m] = 0 THEN ActiveRuns # {} \/ due ELSE bound[m] \in ActiveRuns

\* A steering row goes only because the user discards the message, or with
\* an attempt that was itself given it: what a dead attempt claimed is given
\* again to the one that takes the run over.
GoneOnlyIfGiven ==
  [][\A m \in rows \ rows' :
       \/ m \in dropped'
       \/ \E s \in Slots : turn[s] = "turn" /\ turn'[s] = "idle"
                             /\ m \in seen[s]]_convVars

\* Nothing a run from before a clear writes ends up in the cleared thread,
\* whatever it was doing when the clear came.
NothingFromBefore == \A r \in answers : born[r] = era

\* A message is answered once, however it races the end of a run, a failure
\* or a takeover of the run by another attempt, unless a second run of the
\* bot was started beside the one it steers, or the one it steers was the
\* withdrawn run of a routine.
AnsweredOnce ==
  beside \/ \A m \in Messages : Cardinality(heard[m] \cap answers) <= 1

\* No message waits for ever: it is given to an agent, unless the user stops,
\* clears or starts a lesson, or a run waits for the user.
EveryMessageHeard ==
  \A m \in Messages :
    []<>(m \in sent => \/ heard[m] # {} \/ m \in dropped
                       \/ \E r \in RunIds : run[r] = "waiting")
===============================================================================
