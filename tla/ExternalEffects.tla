--------------------------- MODULE ExternalEffects ---------------------------
(***************************************************************************)
(* The external effects of one run: tool calls that reach the outside      *)
(* world, the approval they may need, and the rows that keep a call from   *)
(* being carried out twice.                                                *)
(*                                                                         *)
(* A slot runs the turn of one attempt; its callers are the tool calls it  *)
(* has in flight, which outlive the turn.  A request is a tool and its     *)
(* arguments, the key of its row (approvalEffectKey).  Of the run's        *)
(* lifecycle (RunLifecycle) only what decides who holds the run is kept.   *)
(***************************************************************************)
EXTENDS Naturals

CONSTANTS
  Requests,       \* tool and arguments
  Tools, ToolOf,  \* the tool of each request
  Gate,           \* what the user's rules say of each tool, "always" aside
  Consequential,  \* tools that require approval by default
  Slots,          \* job slots, each with the turn of at most one attempt
  Callers, SlotOf, \* tool calls in flight, and the slot they belong to
  None,           \* no request
  MaxPlain,       \* bound: calls without a key of the same request
  MaxFaults       \* bound: lapses, delayed jobs, deaths and calls that throw

ASSUME EffectAssumption ==
  /\ ToolOf \in [Requests -> Tools]
  /\ Gate \in [Tools -> {"explicit", "ask", "judge", "allow"}]
  /\ Consequential \subseteq Tools
  /\ \A t \in Tools : Gate[t] \in {"explicit", "judge"} => t \in Consequential
  /\ SlotOf \in [Callers -> Slots]
  /\ None \notin Requests
  /\ MaxPlain \in Nat /\ MaxFaults \in Nat

VARIABLES
  run, epoch,  \* the run's status, and the fence of its latest claim
  cards,       \* requests with a pending approval card in the thread
  effect,      \* status of each request's ExternalEffect row
  review,      \* its reviewDecision
  order, made, \* its place in creation order, and the number of rows
  always,      \* tools with an "always allow" rule
  place, fence, queue,  \* of a slot: its turn, its fence, the replays,
  rules,       \* and the memo of the always-rules: none, or the one loaded
  at,          \* where each call is
  ask,         \* of a call: its request,
  mine,        \* its attempt's fence,
  saw,         \* the row's status recordEffect returned, "none" for a new row,
  decision,    \* gateDecision, "judge" until the judge has spoken,
  claimed,     \* and claimedEffect
  times,       \* history: how often each request was carried out
  allowed,     \* history: requests allowed by the user, a rule or a judge
  thrown,      \* history: requests of which some call threw
  faults

runVars == <<run, epoch, cards>>
rows == <<effect, review, order, made>>
slotVars == <<place, fence, queue, rules>>
callVars == <<at, ask, mine, saw, decision, claimed>>
history == <<times, allowed, thrown>>
vars == <<runVars, rows, always, slotVars, callVars, history, faults>>

Over == {"completed", "failed", "cancelled"}
EffectStatus == {"absent", "intended", "approved", "denied", "executing",
                 "completed", "uncertain"}
Returned == {"completed", "denied", "uncertain"}
Places == {"idle", "read", "create", "judge", "gate", "reread", "settle",
           "renew", "pause", "perform", "persist"}

RunTypeOK ==
  /\ run \in {"queued", "running", "waiting"} \cup Over
  /\ epoch \in Nat /\ faults \in Nat
  /\ cards \subseteq Requests /\ always \subseteq Tools
  /\ times \in [Requests -> Nat]
  /\ allowed \subseteq Requests /\ thrown \subseteq Requests

RowTypeOK ==
  /\ effect \in [Requests -> EffectStatus]
  /\ review \in [Requests -> {"none", "pass", "ask"}]
  /\ order \in [Requests -> Nat] /\ made \in Nat

SlotTypeOK ==
  /\ place \in [Slots -> {"idle", "setup", "turn"}]
  /\ fence \in [Slots -> Nat]
  /\ queue \in [Slots -> SUBSET Requests]
  /\ rules \in [Slots -> SUBSET SUBSET Tools]

CallTypeOK ==
  /\ at \in [Callers -> Places]
  /\ ask \in [Callers -> Requests \cup {None}]
  /\ \A c \in Callers : at[c] # "idle" => ask[c] \in Requests
  /\ mine \in [Callers -> Nat]
  /\ saw \in [Callers -> EffectStatus \cup {"none"}]
  /\ decision \in [Callers -> {"ask", "judge", "allow"}]
  /\ claimed \in [Callers -> BOOLEAN]

EffectTypeOK == RunTypeOK /\ RowTypeOK /\ SlotTypeOK /\ CallTypeOK

Init ==
  /\ run = "queued" /\ epoch = 0 /\ cards = {}
  /\ effect = [r \in Requests |-> "absent"]
  /\ review = [r \in Requests |-> "none"]
  /\ order = [r \in Requests |-> 0] /\ made = 0
  /\ always = {}
  /\ place = [s \in Slots |-> "idle"]
  /\ fence = [s \in Slots |-> 0]
  /\ queue = [s \in Slots |-> {}]
  /\ rules = [s \in Slots |-> {}]
  /\ at = [c \in Callers |-> "idle"]
  /\ ask = [c \in Callers |-> None]
  /\ mine = [c \in Callers |-> 0]
  /\ saw = [c \in Callers |-> "none"]
  /\ decision = [c \in Callers |-> "ask"]
  /\ claimed = [c \in Callers |-> FALSE]
  /\ times = [r \in Requests |-> 0]
  /\ allowed = {} /\ thrown = {}
  /\ faults = 0

-----------------------------------------------------------------------------
(* The slot: an attempt begins, its turn runs, and ends.                   *)

Fault == faults < MaxFaults /\ faults' = faults + 1

Current(n) == run = "running" /\ n = epoch

\* A job claims the run: it is due, or its holder is gone; or the holder is
\* stalled for longer than its lease, or the job is late.
StartAttempt(s) ==
  /\ place[s] = "idle"
  /\ \/ run = "queued" /\ UNCHANGED faults
     \/ /\ run = "running" /\ UNCHANGED faults
        /\ \A t \in Slots : place[t] = "idle" \/ fence[t] # epoch
     \/ run \in {"running", "waiting"} /\ Fault
  /\ run' = "running"
  /\ epoch' = epoch + 1
  /\ place' = [place EXCEPT ![s] = "setup"]
  /\ fence' = [fence EXCEPT ![s] = epoch + 1]
  /\ rules' = [rules EXCEPT ![s] = {}]
  /\ UNCHANGED <<cards, rows, always, queue, callVars, history>>

\* The approved requests are read once, to be replayed in creation order.
LoadReplays(s) ==
  /\ place[s] = "setup"
  /\ place' = [place EXCEPT ![s] = "turn"]
  /\ queue' = [queue EXCEPT ![s] = {r \in Requests : effect[r] = "approved"}]
  /\ UNCHANGED <<runVars, rows, always, fence, rules, callVars, history,
                 faults>>

TurnEnds(s) ==
  /\ place' = [place EXCEPT ![s] = "idle"]
  /\ queue' = [queue EXCEPT ![s] = {}]
  /\ UNCHANGED <<fence, rules>>

InFlight(s) ==
  {c \in Callers : SlotOf[c] = s /\ at[c] # "idle" /\ mine[c] = fence[s]}

\* Mutant: the drain is not asserted.
CompleteUndrained(s) ==
  /\ place[s] = "turn" /\ InFlight(s) = {}
  /\ TurnEnds(s)
  /\ run' = IF Current(fence[s]) THEN "completed" ELSE run
  /\ UNCHANGED <<epoch, cards, rows, always, callVars, history, faults>>

\* The agent is done: with replays left, assertDrained fails the run.
CompleteTurn(s) ==
  /\ place[s] = "turn" /\ InFlight(s) = {}
  /\ TurnEnds(s)
  /\ run' = IF ~Current(fence[s]) THEN run
            ELSE IF queue[s] = {} THEN "completed" ELSE "failed"
  /\ UNCHANGED <<epoch, cards, rows, always, callVars, history, faults>>

\* The attempt notices that the run is no longer its own.
LeaveTurn(s) ==
  /\ place[s] # "idle" /\ ~Current(fence[s])
  /\ TurnEnds(s)
  /\ UNCHANGED <<runVars, rows, always, callVars, history, faults>>

\* The process dies in the middle of whatever its calls were doing.
Die(s) ==
  LET reset(f, v) == [c \in Callers |-> IF SlotOf[c] = s THEN v ELSE f[c]]
  IN  /\ Fault
      /\ \/ place[s] # "idle"
         \/ \E c \in Callers : SlotOf[c] = s /\ at[c] # "idle"
      /\ TurnEnds(s)
      /\ at' = reset(at, "idle")
      /\ ask' = reset(ask, None)
      /\ mine' = reset(mine, 0)
      /\ saw' = reset(saw, "none")
      /\ decision' = reset(decision, "ask")
      /\ claimed' = reset(claimed, FALSE)
      /\ UNCHANGED <<runVars, rows, always, history>>

-----------------------------------------------------------------------------
(* A call (applyTool), one action for each await.                          *)

Goto(c, p) == at' = [at EXCEPT ![c] = p]

EndCall(c) ==
  /\ at' = [at EXCEPT ![c] = "idle"]
  /\ ask' = [ask EXCEPT ![c] = None]
  /\ mine' = [mine EXCEPT ![c] = 0]
  /\ saw' = [saw EXCEPT ![c] = "none"]
  /\ decision' = [decision EXCEPT ![c] = "ask"]
  /\ claimed' = [claimed EXCEPT ![c] = FALSE]

SameCall == UNCHANGED <<ask, mine, saw, decision, claimed>>

\* planActionGate over resolveActionApproval: a rule for the tool beats the
\* rules for its connector and category.
Plan(t, allows) ==
  IF Gate[t] = "explicit" THEN "ask"
  ELSE IF t \in allows THEN "allow" ELSE Gate[t]

\* The oldest approved request, if any, is replayed in place of whatever the
\* agent asks of the same tool; another tool has to wait for it.
Replay(q, r) ==
  IF q = {} THEN {r}
  ELSE {h \in q : ToolOf[h] = ToolOf[r] /\ \A i \in q : order[h] <= order[i]}

\* A call that needs no approval by its plan or by default gets a key of its
\* own, which no other call shares, and is carried out straight away.
Keyed(plan, t) == plan # "allow" \/ t \in Consequential

BeginCall(c, r) ==
  LET s == SlotOf[c]
  IN  /\ at[c] = "idle" /\ place[s] = "turn"
      /\ \E h \in Replay(queue[s], r),
            known \in IF rules[s] = {} THEN {always} ELSE rules[s] :
           LET plan == Plan(ToolOf[h], known)
               keyed == Keyed(plan, ToolOf[h])
           IN  /\ keyed \/ times[h] < MaxPlain
               /\ ask' = [ask EXCEPT ![c] = h]
               /\ mine' = [mine EXCEPT ![c] = fence[s]]
               /\ queue' = [queue EXCEPT ![s] = @ \ {h}]
               /\ rules' = [rules EXCEPT ![s] = {known}]
               /\ decision' = [decision EXCEPT ![c] = plan]
               /\ Goto(c, IF keyed THEN "read" ELSE "perform")
               /\ allowed' = allowed \cup IF plan = "allow" THEN {h} ELSE {}
      /\ UNCHANGED <<runVars, rows, always, place, fence, saw, claimed, times,
                     thrown, faults>>

\* recordEffect finds the row; a verdict of the judge that it holds is kept.
ReadEffect(c) ==
  LET r == ask[c]
      known == IF decision[c] = "judge" /\ review[r] # "none"
               THEN IF review[r] = "pass" THEN "allow" ELSE "ask"
               ELSE decision[c]
  IN  /\ at[c] = "read"
      /\ \/ /\ effect[r] = "absent"
            /\ Goto(c, "create") /\ UNCHANGED <<saw, decision>>
         \/ /\ effect[r] # "absent"
            /\ saw' = [saw EXCEPT ![c] = effect[r]]
            /\ decision' = [decision EXCEPT ![c] = known]
            /\ Goto(c, IF known = "judge" THEN "judge" ELSE "gate")
      /\ UNCHANGED <<runVars, rows, always, slotVars, ask, mine, claimed,
                     history, faults>>

\* The key is unique: the second of two concurrent creations throws.
CreateEffect(c) ==
  LET r == ask[c]
  IN  /\ at[c] = "create"
      /\ \/ /\ effect[r] = "absent"
            /\ effect' = [effect EXCEPT ![r] = "intended"]
            /\ order' = [order EXCEPT ![r] = made + 1]
            /\ made' = made + 1
            /\ Goto(c, IF decision[c] = "judge" THEN "judge" ELSE "gate")
            /\ SameCall
         \/ /\ effect[r] # "absent"
            /\ EndCall(c)
            /\ UNCHANGED <<effect, order, made>>
      /\ UNCHANGED <<runVars, review, always, slotVars, history, faults>>

\* runAutoReview: a judge that fails asks the user.
Judge(c) ==
  /\ at[c] = "judge"
  /\ \E d \in {"pass", "ask"} :
       /\ review' = [review EXCEPT ![ask[c]] = d]
       /\ decision' = [decision EXCEPT ![c] = IF d = "pass" THEN "allow"
                                                            ELSE "ask"]
       /\ allowed' = IF d = "pass" THEN allowed \cup {ask[c]} ELSE allowed
  /\ Goto(c, "gate")
  /\ UNCHANGED <<runVars, effect, order, made, always, slotVars, ask, mine,
                 saw, claimed, times, thrown, faults>>

\* resolveDuplicateEffectGate: what is settled is returned.
ReturnStored(c) ==
  /\ at[c] = "gate" /\ saw[c] \in Returned
  /\ EndCall(c)
  /\ UNCHANGED <<runVars, rows, always, slotVars, history, faults>>

\* An approved row is claimed as it is; an intended one if the gate allows it.
ClaimsFrom(c) ==
  IF saw[c] = "approved" THEN {"approved"}
  ELSE IF saw[c] \in {"intended", "none"} /\ decision[c] = "allow"
       THEN {"intended"} ELSE {}

\* Mutant: the where-clause has lost the status.
ClaimWhatever(c, from) ==
  /\ at[c] = "gate"
  /\ effect' = [effect EXCEPT ![ask[c]] = "executing"]
  /\ claimed' = [claimed EXCEPT ![c] = TRUE]
  /\ Goto(c, "perform")
  /\ UNCHANGED <<runVars, review, order, made, always, slotVars, ask, mine,
                 saw, decision, history, faults>>

\* claimApprovedEffect and claimIntendedEffect.
ClaimEffect(c, from) ==
  /\ at[c] = "gate"
  /\ \/ /\ effect[ask[c]] = from
        /\ effect' = [effect EXCEPT ![ask[c]] = "executing"]
        /\ claimed' = [claimed EXCEPT ![c] = TRUE]
        /\ Goto(c, "perform")
     \/ /\ effect[ask[c]] # from
        /\ Goto(c, "reread")
        /\ UNCHANGED <<effect, claimed>>
  /\ UNCHANGED <<runVars, review, order, made, always, slotVars, ask, mine,
                 saw, decision, history, faults>>

\* The claim was lost: what is settled is returned, an execution is settled,
\* anything else throws.
RereadEffect(c) ==
  /\ at[c] = "reread"
  /\ IF effect[ask[c]] = "executing" THEN Goto(c, "settle") /\ SameCall
                                     ELSE EndCall(c)
  /\ UNCHANGED <<runVars, rows, always, slotVars, history, faults>>

\* Mutant: an interrupted execution is tried again.
SettleForRetry(c) ==
  /\ at[c] = "settle" \/ (at[c] = "gate" /\ saw[c] = "executing")
  /\ effect' = [effect EXCEPT ![ask[c]] = IF @ = "executing" THEN "approved"
                                                             ELSE @]
  /\ EndCall(c)
  /\ UNCHANGED <<runVars, review, order, made, always, slotVars, history,
                 faults>>

\* settleUncertainEffect: somebody was carrying it out, and may be dead.
SettleUncertain(c) ==
  /\ at[c] = "settle" \/ (at[c] = "gate" /\ saw[c] = "executing")
  /\ effect' = [effect EXCEPT ![ask[c]] = IF @ = "executing" THEN "uncertain"
                                                             ELSE @]
  /\ EndCall(c)
  /\ UNCHANGED <<runVars, review, order, made, always, slotVars, history,
                 faults>>

\* pauseForApproval: the call returns and ends the turn it belongs to.
PausesTurn(c) ==
  LET s == SlotOf[c]
  IN  /\ EndCall(c)
      /\ IF place[s] = "turn" /\ fence[s] = mine[c]
         THEN TurnEnds(s) ELSE UNCHANGED slotVars

\* A row that is still intended: a run that waits has its card.
CheckWaiting(c) ==
  /\ at[c] = "gate" /\ saw[c] = "intended" /\ decision[c] = "ask"
  /\ IF run = "waiting" THEN PausesTurn(c)
                        ELSE Goto(c, "renew") /\ SameCall /\ UNCHANGED slotVars
  /\ UNCHANGED <<runVars, rows, always, history, faults>>

\* requestApproval renews the lease, checkpoints the workspace,
RenewForApproval(c) ==
  /\ \/ at[c] = "renew"
     \/ at[c] = "gate" /\ saw[c] = "none" /\ decision[c] = "ask"
  /\ IF Current(mine[c])
     THEN Goto(c, "pause") /\ SameCall /\ UNCHANGED slotVars
     ELSE PausesTurn(c)
  /\ UNCHANGED <<runVars, rows, always, history, faults>>

\* Mutant: the run is paused whoever holds it.
PauseAnyRun(c) ==
  /\ at[c] = "pause"
  /\ run' = "waiting" /\ cards' = cards \cup {ask[c]}
  /\ PausesTurn(c)
  /\ UNCHANGED <<epoch, rows, always, history, faults>>

\* and pauses the run with the card; when that is refused it throws.
PauseForApproval(c) ==
  /\ at[c] = "pause"
  /\ \/ /\ Current(mine[c])
        /\ run' = "waiting" /\ cards' = cards \cup {ask[c]}
        /\ PausesTurn(c)
     \/ /\ ~Current(mine[c])
        /\ EndCall(c)
        /\ UNCHANGED <<run, cards, slotVars>>
  /\ UNCHANGED <<epoch, rows, always, history, faults>>

Perform(c) ==
  /\ at[c] = "perform"
  /\ times' = [times EXCEPT ![ask[c]] = @ + 1]
  /\ Goto(c, "persist") /\ SameCall
  /\ UNCHANGED <<runVars, rows, always, slotVars, allowed, thrown, faults>>

\* completeExternalEffect, from the status that the claim left.  The row of a
\* call with a key of its own is not in the model.
PersistResult(c) ==
  /\ at[c] = "persist"
  /\ effect' = IF claimed[c] /\ effect[ask[c]] = "executing"
               THEN [effect EXCEPT ![ask[c]] = "completed"] ELSE effect
  /\ EndCall(c)
  /\ UNCHANGED <<runVars, review, order, made, always, slotVars, history,
                 faults>>

\* A database call, the judge's credentials or the outside world throws.
CallThrows(c) ==
  /\ at[c] # "idle" /\ Fault
  /\ thrown' = thrown \cup {ask[c]}
  /\ EndCall(c)
  /\ UNCHANGED <<runVars, rows, always, slotVars, times, allowed>>

-----------------------------------------------------------------------------
(* The user.                                                               *)

\* Mutant: the answer's id is written as the status.
AnswerVerbatim(r, how) ==
  /\ run = "waiting" /\ r \in cards
  /\ effect[r] = "intended"
  /\ run' = "queued" /\ cards' = cards \ {r}
  /\ effect' = [effect EXCEPT ![r] = how]
  /\ UNCHANGED <<epoch, review, order, made, always, slotVars, callVars,
                 history, faults>>

\* answerRunInput for a card.  "always" is not offered for explicit tools.
Answer(r, how) ==
  /\ run = "waiting" /\ r \in cards
  /\ effect[r] = "intended"
  /\ how = "always" => Gate[ToolOf[r]] # "explicit"
  /\ run' = "queued" /\ cards' = cards \ {r}
  /\ effect' = [effect EXCEPT ![r] = IF how = "deny" THEN "denied"
                                                     ELSE "approved"]
  /\ always' = IF how = "always" THEN always \cup {ToolOf[r]} ELSE always
  /\ allowed' = IF how = "deny" THEN allowed ELSE allowed \cup {r}
  /\ UNCHANGED <<epoch, review, order, made, slotVars, callVars, times, thrown,
                 faults>>

StopRun ==
  /\ run \notin Over
  /\ run' = "cancelled"
  /\ UNCHANGED <<epoch, cards, rows, always, slotVars, callVars, history,
                 faults>>

-----------------------------------------------------------------------------
CallStep(c) ==
  \/ ReadEffect(c) \/ CreateEffect(c) \/ Judge(c) \/ ReturnStored(c)
  \/ \E from \in ClaimsFrom(c) : ClaimEffect(c, from)
  \/ RereadEffect(c) \/ SettleUncertain(c) \/ CheckWaiting(c)
  \/ RenewForApproval(c) \/ PauseForApproval(c) \/ Perform(c)
  \/ PersistResult(c)

SlotStep(s) == LoadReplays(s) \/ CompleteTurn(s) \/ LeaveTurn(s)

Next ==
  \/ \E s \in Slots : StartAttempt(s) \/ SlotStep(s) \/ Die(s)
  \/ \E c \in Callers :
       \/ CallStep(c) \/ CallThrows(c)
       \/ \E r \in Requests : BeginCall(c, r)
  \/ \E r \in Requests, how \in {"allow", "always", "deny"} : Answer(r, how)
  \/ StopRun

Spec == Init /\ [][Next]_vars

-----------------------------------------------------------------------------
(* Properties.                                                             *)

\* An effect that needs approval by default is carried out at most once,
\* whatever slots and calls replay it, crash in it, or race for it.
AtMostOnce ==
  \A r \in Requests : ToolOf[r] \in Consequential => times[r] <= 1

Guarded == {r \in Requests : ToolOf[r] \in Consequential}

Books(st) == IF st = "completed" THEN "done"
             ELSE IF st = "denied" THEN "refused"
             ELSE IF st = "uncertain" THEN "unknown" ELSE "open"

Promise == INSTANCE EffectPromise WITH
  Requests <- Guarded,
  authorized <- allowed \cap Guarded,
  times <- [r \in Guarded |-> times[r]],
  record <- [r \in Guarded |-> Books(effect[r])]

\* The rows implement the promise: allowed before it is carried out, once,
\* never after a refusal, and recorded as done only if it was.
KeepsPromise == Promise!PromiseSpec

\* Why the promise holds.  A claim belongs to one call, which carries the
\* request out and whose row nobody else completes; a row that was never
\* claimed was never carried out; and whatever lets a claim through, a verdict,
\* a rule or an answer, has allowed the request.
ClaimsHeld ==
  \A c \in Callers :
    /\ at[c] \in {"perform", "persist"} /\ ask[c] \in Guarded => claimed[c]
    /\ claimed[c] => /\ at[c] \in {"perform", "persist"}
                     /\ effect[ask[c]] \in {"executing", "uncertain"}

ClaimsDiffer ==
  \A c, d \in Callers : claimed[c] /\ claimed[d] /\ c # d => ask[c] # ask[d]

TimesMatch ==
  /\ \A r \in Guarded :
       /\ times[r] <= 1
       /\ effect[r] \in {"absent", "intended", "approved", "denied"} =>
            times[r] = 0
       /\ effect[r] = "completed" => times[r] = 1
  /\ \A c \in Callers :
       claimed[c] /\ ask[c] \in Guarded =>
         times[ask[c]] = IF at[c] = "perform" THEN 0 ELSE 1

AllowedFirst ==
  /\ \A r \in Requests :
       review[r] = "pass" \/ effect[r] = "approved" => r \in allowed
  /\ \A c \in Callers :
       claimed[c] \/ (at[c] # "idle" /\ decision[c] = "allow") =>
         ask[c] \in allowed

\* "Approved tool requests were not fully replayed": a run is completed with
\* an approved request left behind only if a call of that request threw.
EveryApprovalReplayed ==
  run = "completed" =>
    \A r \in Guarded : effect[r] = "approved" => r \in thrown

\* A run that waits for the user has a card that the user can answer, unless
\* a judge, who may disagree with himself, has let the request through.
AskAnswerable ==
  run = "waiting" =>
    \E r \in cards : effect[r] = "intended" \/ Gate[ToolOf[r]] = "judge"

Takes(c) ==
  at[c] = "idle" /\ at'[c] # "idle" /\ queue'[SlotOf[c]] # queue[SlotOf[c]]

\* "Call each listed approved request exactly once": what is replayed has not
\* been carried out before.
ReplayedOnce ==
  [][\A c \in Callers : Takes(c) => times[ask'[c]] = 0]_vars
=============================================================================
