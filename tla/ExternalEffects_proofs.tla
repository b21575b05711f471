------------------------ MODULE ExternalEffects_proofs ------------------------
(***************************************************************************)
(* ExternalEffects keeps the promise of EffectPromise, for every set of    *)
(* requests, tools, slots and calls and every bound.                       *)
(***************************************************************************)
EXTENDS ExternalEffects, TLAPS

\* A call that ends keeps the types of its locals.
LEMMA EndCallType ==
  ASSUME CallTypeOK, NEW c \in Callers, EndCall(c)
  PROVE  CallTypeOK'
  BY DEF CallTypeOK, EndCall, Places, EffectStatus

\* A step to the next await keeps them.
LEMMA GotoType ==
  ASSUME CallTypeOK, NEW c \in Callers, NEW p \in Places, at[c] # "idle",
         Goto(c, p), SameCall
  PROVE  CallTypeOK'
  BY DEF CallTypeOK, Goto, SameCall

\* What a call begins with: its request is the agent's or a replayed one, and
\* only a request that needs no approval by default goes without a key.
Begins(c, h, plan) ==
  /\ ask' = [ask EXCEPT ![c] = h]
  /\ mine' = [mine EXCEPT ![c] = fence[SlotOf[c]]]
  /\ decision' = [decision EXCEPT ![c] = plan]
  /\ at' = [at EXCEPT ![c] = IF Keyed(plan, ToolOf[h]) THEN "read"
                                                      ELSE "perform"]
  /\ allowed' = allowed \cup IF plan = "allow" THEN {h} ELSE {}
  /\ UNCHANGED <<effect, review, saw, claimed, times>>

\* BeginCall does that for some request and plan.
LEMMA BeginFacts ==
  ASSUME EffectTypeOK, NEW c \in Callers, NEW r \in Requests, BeginCall(c, r)
  PROVE  \E h \in Requests, plan \in {"ask", "judge", "allow"} :
           Begins(c, h, plan)
  <1>1. PICK h \in Replay(queue[SlotOf[c]], r),
             known \in IF rules[SlotOf[c]] = {} THEN {always}
                                               ELSE rules[SlotOf[c]] :
          Begins(c, h, Plan(ToolOf[h], known))
    BY DEF BeginCall, Begins, Goto, rows
  <1>2. h \in Requests /\ SlotOf[c] \in Slots
    BY EffectAssumption DEF Replay, EffectTypeOK, SlotTypeOK
  <1>3. Plan(ToolOf[h], known) \in {"ask", "judge", "allow"}
    BY <1>2, EffectAssumption DEF Plan
  <1> QED BY <1>1, <1>2, <1>3


-----------------------------------------------------------------------------
(* Which steps there are, as far as the invariant can tell.                *)

\* A call goes on without touching anything but its place.
Moves(c) ==
  /\ at[c] \notin {"idle", "perform", "persist"}
  /\ \E p \in Places \ {"perform", "persist"} : Goto(c, p)
  /\ SameCall /\ UNCHANGED <<rows, times, allowed>>

Ends(c) == at[c] # "idle" /\ EndCall(c) /\ UNCHANGED <<rows, times, allowed>>

Creates(c) ==
  /\ at[c] = "create" /\ effect[ask[c]] = "absent"
  /\ effect' = [effect EXCEPT ![ask[c]] = "intended"]
  /\ \E p \in {"judge", "gate"} : Goto(c, p)
  /\ order' = [order EXCEPT ![ask[c]] = made + 1] /\ made' = made + 1
  /\ SameCall /\ UNCHANGED <<review, times, allowed>>

Claims(c) ==
  /\ at[c] = "gate" /\ effect[ask[c]] \in {"intended", "approved"}
  /\ effect[ask[c]] = "intended" => decision[c] = "allow"
  /\ effect' = [effect EXCEPT ![ask[c]] = "executing"]
  /\ claimed' = [claimed EXCEPT ![c] = TRUE]
  /\ Goto(c, "perform")
  /\ UNCHANGED <<ask, mine, saw, decision, review, order, made, times,
                 allowed>>

Other(c) ==
  \/ ReadEffect(c) \/ Creates(c) \/ Judge(c) \/ Claims(c)
  \/ SettleUncertain(c) \/ Perform(c) \/ PersistResult(c)
  \/ \E r \in Requests : BeginCall(c, r)

Quiet ==
  \/ UNCHANGED <<rows, callVars, times, allowed>>
  \/ \E s \in Slots : Die(s)
  \/ \E c \in Callers : Moves(c) \/ Ends(c)

\* Every step is one of these.
LEMMA Cases ==
  ASSUME [Next]_vars
  PROVE  \/ Quiet
         \/ \E c \in Callers : Other(c)
         \/ \E r \in Requests, how \in {"allow", "always", "deny"} :
              Answer(r, how)
<1>1. ASSUME NEW s \in Slots, StartAttempt(s) \/ SlotStep(s)
      PROVE  UNCHANGED <<rows, callVars, times, allowed>>
  BY <1>1 DEF StartAttempt, SlotStep, LoadReplays, CompleteTurn, LeaveTurn,
     history
<1>2. ASSUME NEW c \in Callers, ReturnStored(c) \/ CallThrows(c)
      PROVE  Ends(c)
  BY <1>2 DEF ReturnStored, CallThrows, Ends, history
<1>3. ASSUME NEW c \in Callers, CreateEffect(c)
      PROVE  Creates(c) \/ Ends(c)
  BY <1>3 DEF CreateEffect, Creates, Ends, rows, history
<1>4. ASSUME NEW c \in Callers, NEW from \in ClaimsFrom(c),
             ClaimEffect(c, from)
      PROVE  Claims(c) \/ Moves(c)
  <2>1. from = "approved" \/ (from = "intended" /\ decision[c] = "allow")
    BY DEF ClaimsFrom
  <2> QED
    BY <1>4, <2>1
       DEF ClaimEffect, Claims, Moves, Places, SameCall, rows, history
<1>5. ASSUME NEW c \in Callers, RereadEffect(c) PROVE Moves(c) \/ Ends(c)
  BY <1>5 DEF RereadEffect, Moves, Ends, Places, history
<1>6. ASSUME NEW c \in Callers,
             CheckWaiting(c) \/ RenewForApproval(c) \/ PauseForApproval(c)
      PROVE  Moves(c) \/ Ends(c)
  BY <1>6 DEF CheckWaiting, RenewForApproval, PauseForApproval, PausesTurn,
     Moves, Ends, Places, history
<1>7. CASE StopRun \/ UNCHANGED vars
  BY <1>7 DEF StopRun, vars, history, Quiet
<1> QED
  BY <1>1, <1>2, <1>3, <1>4, <1>5, <1>6, <1>7
     DEF Next, CallStep, Quiet, Other

\* Every step keeps every variable in its type.
LEMMA RunTypeStep ==
  ASSUME EffectTypeOK, [Next]_vars
  PROVE  RunTypeOK'
<1> USE DEF EffectTypeOK, RunTypeOK, runVars, history
<1>1. ASSUME NEW s \in Slots, StartAttempt(s) PROVE RunTypeOK'
  BY <1>1 DEF StartAttempt, Fault
<1>2. ASSUME NEW s \in Slots, LoadReplays(s) \/ LeaveTurn(s) PROVE RunTypeOK'
  BY <1>2 DEF LoadReplays, LeaveTurn
<1>3. ASSUME NEW s \in Slots, CompleteTurn(s) PROVE RunTypeOK'
  BY <1>3 DEF CompleteTurn, Over
<1>4. ASSUME NEW s \in Slots, Die(s) PROVE RunTypeOK'
  BY <1>4 DEF Die, Fault
<1>5. ASSUME NEW c \in Callers, NEW r \in Requests, BeginCall(c, r)
      PROVE  RunTypeOK'
  <2>1. PICK h \in Requests, plan \in {"ask", "judge", "allow"} :
          Begins(c, h, plan)
    BY <1>5, BeginFacts
  <2> QED
    BY <2>1, <1>5 DEF Begins, BeginCall
<1>6. ASSUME NEW c \in Callers, ReadEffect(c) \/ CreateEffect(c)
      PROVE  RunTypeOK'
  BY <1>6 DEF ReadEffect, CreateEffect
<1>7. ASSUME NEW c \in Callers, Judge(c) PROVE RunTypeOK'
  BY <1>7 DEF Judge, CallTypeOK
<1>8. ASSUME NEW c \in Callers, ReturnStored(c) \/ RereadEffect(c)
      PROVE  RunTypeOK'
  BY <1>8 DEF ReturnStored, RereadEffect
<1>9. ASSUME NEW c \in Callers, NEW from \in ClaimsFrom(c),
             ClaimEffect(c, from)
      PROVE  RunTypeOK'
  BY <1>9 DEF ClaimEffect
<1>10. ASSUME NEW c \in Callers, SettleUncertain(c) \/ PersistResult(c)
       PROVE  RunTypeOK'
  BY <1>10 DEF SettleUncertain, PersistResult
<1>11. ASSUME NEW c \in Callers, CheckWaiting(c) \/ RenewForApproval(c)
       PROVE  RunTypeOK'
  BY <1>11 DEF CheckWaiting, RenewForApproval
<1>12. ASSUME NEW c \in Callers, PauseForApproval(c) PROVE RunTypeOK'
  BY <1>12 DEF PauseForApproval, CallTypeOK
<1>13. ASSUME NEW c \in Callers, Perform(c) PROVE RunTypeOK'
  BY <1>13 DEF Perform, CallTypeOK
<1>14. ASSUME NEW c \in Callers, CallThrows(c) PROVE RunTypeOK'
  BY <1>14 DEF CallThrows, Fault, CallTypeOK
<1>15. ASSUME NEW r \in Requests, NEW how \in {"allow", "always", "deny"},
              Answer(r, how)
       PROVE  RunTypeOK'
  BY <1>15, EffectAssumption DEF Answer
<1>16. CASE StopRun
  BY <1>16 DEF StopRun, Over
<1>17. CASE UNCHANGED vars
  BY <1>17 DEF vars
<1> QED
  BY <1>1, <1>2, <1>3, <1>4, <1>5, <1>6, <1>7, <1>8, <1>9, <1>10, <1>11,
     <1>12, <1>13, <1>14, <1>15, <1>16, <1>17 DEF Next, CallStep, SlotStep

\* The same of the slots.
LEMMA SlotTypeStep ==
  ASSUME EffectTypeOK, [Next]_vars
  PROVE  SlotTypeOK'
<1> USE DEF EffectTypeOK, SlotTypeOK, slotVars, TurnEnds
<1>1. ASSUME NEW s \in Slots, StartAttempt(s) PROVE SlotTypeOK'
  BY <1>1 DEF StartAttempt, RunTypeOK
<1>2. ASSUME NEW s \in Slots, LoadReplays(s) PROVE SlotTypeOK'
  BY <1>2 DEF LoadReplays
<1>3. ASSUME NEW s \in Slots, CompleteTurn(s) \/ LeaveTurn(s)
      PROVE  SlotTypeOK'
  BY <1>3 DEF CompleteTurn, LeaveTurn
<1>4. ASSUME NEW s \in Slots, Die(s) PROVE SlotTypeOK'
  BY <1>4 DEF Die
<1>5. ASSUME NEW c \in Callers, NEW r \in Requests, BeginCall(c, r)
      PROVE  SlotTypeOK'
  BY <1>5, EffectAssumption DEF BeginCall, Replay, RunTypeOK
<1>6. ASSUME NEW c \in Callers, ReadEffect(c) \/ CreateEffect(c) \/ Judge(c)
      PROVE  SlotTypeOK'
  BY <1>6 DEF ReadEffect, CreateEffect, Judge
<1>7. ASSUME NEW c \in Callers, ReturnStored(c) \/ RereadEffect(c)
      PROVE  SlotTypeOK'
  BY <1>7 DEF ReturnStored, RereadEffect
<1>8. ASSUME NEW c \in Callers, NEW from \in ClaimsFrom(c),
             ClaimEffect(c, from)
      PROVE  SlotTypeOK'
  BY <1>8 DEF ClaimEffect
<1>9. ASSUME NEW c \in Callers, SettleUncertain(c) \/ PersistResult(c)
      PROVE  SlotTypeOK'
  BY <1>9 DEF SettleUncertain, PersistResult
<1>10. ASSUME NEW c \in Callers, CheckWaiting(c) PROVE SlotTypeOK'
  BY <1>10, EffectAssumption DEF CheckWaiting, PausesTurn
<1>11. ASSUME NEW c \in Callers, RenewForApproval(c) PROVE SlotTypeOK'
  BY <1>11, EffectAssumption DEF RenewForApproval, PausesTurn
<1>12. ASSUME NEW c \in Callers, PauseForApproval(c) PROVE SlotTypeOK'
  BY <1>12, EffectAssumption DEF PauseForApproval, PausesTurn
<1>13. ASSUME NEW c \in Callers, Perform(c) \/ CallThrows(c) PROVE SlotTypeOK'
  BY <1>13 DEF Perform, CallThrows
<1>14. ASSUME NEW r \in Requests, NEW how \in {"allow", "always", "deny"},
              Answer(r, how)
       PROVE  SlotTypeOK'
  BY <1>14 DEF Answer
<1>15. CASE StopRun \/ UNCHANGED vars
  BY <1>15 DEF StopRun, vars
<1> QED
  BY <1>1, <1>2, <1>3, <1>4, <1>5, <1>6, <1>7, <1>8, <1>9, <1>10, <1>11,
     <1>12, <1>13, <1>14, <1>15 DEF Next, CallStep, SlotStep

\* The same of the rows.
LEMMA RowTypeStep ==
  ASSUME EffectTypeOK, [Next]_vars
  PROVE  RowTypeOK'
<1> USE DEF EffectTypeOK, RowTypeOK, CallTypeOK, rows
<1>1. CASE Quiet
  BY <1>1 DEF Quiet, Die, Moves, Ends
<1>2. ASSUME NEW c \in Callers, NEW r \in Requests, BeginCall(c, r)
      PROVE  RowTypeOK'
  BY <1>2 DEF BeginCall
<1>3. ASSUME NEW c \in Callers, ReadEffect(c) \/ Perform(c) PROVE RowTypeOK'
  BY <1>3 DEF ReadEffect, Perform
<1>4. ASSUME NEW c \in Callers, Creates(c) PROVE RowTypeOK'
  BY <1>4 DEF Creates, EffectStatus
<1>5. ASSUME NEW c \in Callers, Judge(c) PROVE RowTypeOK'
  BY <1>5 DEF Judge
<1>6. ASSUME NEW c \in Callers, Claims(c) PROVE RowTypeOK'
  BY <1>6 DEF Claims, EffectStatus
<1>7. ASSUME NEW c \in Callers, SettleUncertain(c) \/ PersistResult(c)
      PROVE  RowTypeOK'
  BY <1>7 DEF SettleUncertain, PersistResult, EffectStatus
<1>8. ASSUME NEW r \in Requests, NEW how \in {"allow", "always", "deny"},
             Answer(r, how)
      PROVE  RowTypeOK'
  BY <1>8 DEF Answer, EffectStatus
<1> QED
  BY <1>1, <1>2, <1>3, <1>4, <1>5, <1>6, <1>7, <1>8, Cases DEF Other

\* The same of the calls.
LEMMA CallTypeStep ==
  ASSUME EffectTypeOK, [Next]_vars
  PROVE  CallTypeOK'
<1> USE DEF EffectTypeOK, CallTypeOK
<1>1. CASE UNCHANGED <<rows, callVars, times, allowed>>
  BY <1>1 DEF callVars
<1>2. ASSUME NEW s \in Slots, Die(s) PROVE CallTypeOK'
  BY <1>2 DEF Die, Places, EffectStatus
<1>3. ASSUME NEW c \in Callers, Moves(c) PROVE CallTypeOK'
  BY <1>3, GotoType DEF Moves
<1>4. ASSUME NEW c \in Callers, Ends(c) PROVE CallTypeOK'
  BY <1>4, EndCallType DEF Ends
<1>5. ASSUME NEW c \in Callers, NEW r \in Requests, BeginCall(c, r)
      PROVE  CallTypeOK'
  <2>1. PICK h \in Requests, plan \in {"ask", "judge", "allow"} :
          Begins(c, h, plan)
    BY <1>5, BeginFacts
  <2>2. fence[SlotOf[c]] \in Nat
    BY EffectAssumption DEF SlotTypeOK
  <2> QED
    BY <2>1, <2>2, <1>5 DEF Begins, BeginCall, Places
<1>6. ASSUME NEW c \in Callers, ReadEffect(c) PROVE CallTypeOK'
  BY <1>6 DEF ReadEffect, Goto, RowTypeOK, Places
<1>7. ASSUME NEW c \in Callers, Creates(c) PROVE CallTypeOK'
  BY <1>7, GotoType DEF Creates, Places
<1>8. ASSUME NEW c \in Callers, Judge(c) PROVE CallTypeOK'
  BY <1>8 DEF Judge, Goto, Places
<1>9. ASSUME NEW c \in Callers, Claims(c) PROVE CallTypeOK'
  BY <1>9 DEF Claims, Goto, Places
<1>10. ASSUME NEW c \in Callers, Perform(c) PROVE CallTypeOK'
  BY <1>10, GotoType DEF Perform, Places
<1>11. ASSUME NEW c \in Callers, SettleUncertain(c) \/ PersistResult(c)
       PROVE  CallTypeOK'
  BY <1>11, EndCallType DEF SettleUncertain, PersistResult
<1>12. ASSUME NEW r \in Requests, NEW how \in {"allow", "always", "deny"},
              Answer(r, how)
       PROVE  CallTypeOK'
  BY <1>12 DEF Answer, callVars
<1> QED
  BY <1>1, <1>2, <1>3, <1>4, <1>5, <1>6, <1>7, <1>8, <1>9, <1>10, <1>11,
     <1>12, Cases DEF Quiet, Other

\* Together.
LEMMA TypeStep == EffectTypeOK /\ [Next]_vars => EffectTypeOK'
  BY RunTypeStep, SlotTypeStep, RowTypeStep, CallTypeStep DEF EffectTypeOK

\* Every variable keeps its type.
THEOREM TypeCorrect == Spec => []EffectTypeOK
  <1>1. Init => EffectTypeOK
    BY EffectAssumption DEF Init, EffectTypeOK, RunTypeOK, RowTypeOK,
       SlotTypeOK, CallTypeOK, EffectStatus, Places, Over
  <1> QED BY <1>1, TypeStep, PTL DEF Spec

-----------------------------------------------------------------------------
(* The invariant.                                                          *)

\* The inductive invariant.
Safe ==
  EffectTypeOK /\ ClaimsHeld /\ ClaimsDiffer /\ TimesMatch /\ AllowedFirst

\* A claim is held by the call that carries the request out.
LEMMA HeldStep ==
  ASSUME Safe, [Next]_vars
  PROVE  ClaimsHeld'
<1> USE DEF Safe, EffectTypeOK, CallTypeOK, RowTypeOK, ClaimsHeld
<1>1. CASE UNCHANGED <<rows, callVars, times, allowed>>
  BY <1>1 DEF rows, callVars
<1>2. ASSUME NEW s \in Slots, Die(s) PROVE ClaimsHeld'
  BY <1>2 DEF Die, rows
<1>3. ASSUME NEW c \in Callers, Moves(c) PROVE ClaimsHeld'
  BY <1>3 DEF Moves, Goto, SameCall, rows
<1>4. ASSUME NEW c \in Callers, Ends(c) PROVE ClaimsHeld'
  BY <1>4 DEF Ends, EndCall, rows
<1>5. ASSUME NEW c \in Callers, NEW r \in Requests, BeginCall(c, r)
      PROVE  ClaimsHeld'
  <2>1. PICK h \in Requests, plan \in {"ask", "judge", "allow"} :
          Begins(c, h, plan)
    BY <1>5, BeginFacts
  <2>2. at[c] = "idle" /\ claimed[c] = FALSE
    BY <1>5 DEF BeginCall, ClaimsHeld
  <2> QED
    BY <2>1, <2>2 DEF Begins, Keyed, Guarded
<1>6. ASSUME NEW c \in Callers, ReadEffect(c) PROVE ClaimsHeld'
  BY <1>6 DEF ReadEffect, Goto, rows
<1>7. ASSUME NEW c \in Callers, Creates(c) PROVE ClaimsHeld'
  BY <1>7 DEF Creates, Goto, SameCall
<1>8. ASSUME NEW c \in Callers, Judge(c) PROVE ClaimsHeld'
  BY <1>8 DEF Judge, Goto
<1>9. ASSUME NEW c \in Callers, Claims(c) PROVE ClaimsHeld'
  BY <1>9 DEF Claims, Goto
<1>10. ASSUME NEW c \in Callers, Perform(c) PROVE ClaimsHeld'
  BY <1>10 DEF Perform, Goto, SameCall, rows
<1>11. ASSUME NEW c \in Callers, SettleUncertain(c) PROVE ClaimsHeld'
  BY <1>11 DEF SettleUncertain, EndCall
<1>12. ASSUME NEW c \in Callers, PersistResult(c) PROVE ClaimsHeld'
  BY <1>12 DEF PersistResult, EndCall, ClaimsDiffer
<1>13. ASSUME NEW r \in Requests, NEW how \in {"allow", "always", "deny"},
              Answer(r, how)
       PROVE  ClaimsHeld'
  BY <1>13 DEF Answer, callVars
<1> QED
  BY <1>1, <1>2, <1>3, <1>4, <1>5, <1>6, <1>7, <1>8, <1>9, <1>10, <1>11,
     <1>12, <1>13, Cases DEF Quiet, Other

\* No request is claimed twice: whoever claims it finds a row that nobody
\* holds.
LEMMA DifferStep ==
  ASSUME Safe, [Next]_vars
  PROVE  ClaimsDiffer'
<1> USE DEF Safe, EffectTypeOK, CallTypeOK, ClaimsDiffer
<1>1. CASE UNCHANGED <<rows, callVars, times, allowed>>
  BY <1>1 DEF rows, callVars
<1>2. ASSUME NEW s \in Slots, Die(s) PROVE ClaimsDiffer'
  BY <1>2 DEF Die
<1>3. ASSUME NEW c \in Callers, Moves(c) PROVE ClaimsDiffer'
  BY <1>3 DEF Moves, Goto, SameCall
<1>4. ASSUME NEW c \in Callers, Ends(c) PROVE ClaimsDiffer'
  BY <1>4 DEF Ends, EndCall
<1>5. ASSUME NEW c \in Callers, NEW r \in Requests, BeginCall(c, r)
      PROVE  ClaimsDiffer'
  <2>1. PICK h \in Requests, plan \in {"ask", "judge", "allow"} :
          Begins(c, h, plan)
    BY <1>5, BeginFacts
  <2>2. at[c] = "idle" /\ claimed[c] = FALSE
    BY <1>5 DEF BeginCall, ClaimsHeld
  <2> QED
    BY <2>1, <2>2 DEF Begins
<1>6. ASSUME NEW c \in Callers, ReadEffect(c) PROVE ClaimsDiffer'
  BY <1>6 DEF ReadEffect, Goto
<1>7. ASSUME NEW c \in Callers, Creates(c) PROVE ClaimsDiffer'
  BY <1>7 DEF Creates, Goto, SameCall
<1>8. ASSUME NEW c \in Callers, Judge(c) PROVE ClaimsDiffer'
  BY <1>8 DEF Judge, Goto
<1>9. ASSUME NEW c \in Callers, Claims(c) PROVE ClaimsDiffer'
  BY <1>9 DEF Claims, Goto, ClaimsHeld
<1>10. ASSUME NEW c \in Callers, Perform(c) PROVE ClaimsDiffer'
  BY <1>10 DEF Perform, Goto, SameCall
<1>11. ASSUME NEW c \in Callers, SettleUncertain(c) PROVE ClaimsDiffer'
  BY <1>11 DEF SettleUncertain, EndCall
<1>12. ASSUME NEW c \in Callers, PersistResult(c) PROVE ClaimsDiffer'
  BY <1>12 DEF PersistResult, EndCall
<1>13. ASSUME NEW r \in Requests, NEW how \in {"allow", "always", "deny"},
              Answer(r, how)
       PROVE  ClaimsDiffer'
  BY <1>13 DEF Answer, callVars
<1> QED
  BY <1>1, <1>2, <1>3, <1>4, <1>5, <1>6, <1>7, <1>8, <1>9, <1>10, <1>11,
     <1>12, <1>13, Cases DEF Quiet, Other

\* The rows know what was carried out.
LEMMA TimesStep ==
  ASSUME Safe, [Next]_vars
  PROVE  TimesMatch'
<1> USE DEF Safe, EffectTypeOK, CallTypeOK, RowTypeOK, RunTypeOK, TimesMatch
<1>1. CASE UNCHANGED <<rows, callVars, times, allowed>>
  BY <1>1 DEF rows, callVars
<1>2. ASSUME NEW s \in Slots, Die(s) PROVE TimesMatch'
  BY <1>2 DEF Die, rows, history
<1>3. ASSUME NEW c \in Callers, Moves(c) PROVE TimesMatch'
  BY <1>3 DEF Moves, Goto, SameCall, rows
<1>4. ASSUME NEW c \in Callers, Ends(c) PROVE TimesMatch'
  BY <1>4 DEF Ends, EndCall, rows
<1>5. ASSUME NEW c \in Callers, NEW r \in Requests, BeginCall(c, r)
      PROVE  TimesMatch'
  <2>1. PICK h \in Requests, plan \in {"ask", "judge", "allow"} :
          Begins(c, h, plan)
    BY <1>5, BeginFacts
  <2>2. at[c] = "idle" /\ claimed[c] = FALSE
    BY <1>5 DEF BeginCall, ClaimsHeld
  <2> QED
    BY <2>1, <2>2 DEF Begins, Guarded
<1>6. ASSUME NEW c \in Callers, ReadEffect(c) PROVE TimesMatch'
  BY <1>6 DEF ReadEffect, Goto, rows, history
<1>7. ASSUME NEW c \in Callers, Creates(c) PROVE TimesMatch'
  BY <1>7 DEF Creates, Goto, SameCall, Guarded, ClaimsHeld
<1>8. ASSUME NEW c \in Callers, Judge(c) PROVE TimesMatch'
  BY <1>8 DEF Judge, Goto
<1>9. ASSUME NEW c \in Callers, Claims(c) PROVE TimesMatch'
  BY <1>9 DEF Claims, Goto, Guarded, ClaimsHeld
<1>10. ASSUME NEW c \in Callers, Perform(c) PROVE TimesMatch'
  <2>1. /\ at[c] = "perform" /\ ask[c] \in Requests
        /\ times' = [times EXCEPT ![ask[c]] = @ + 1]
        /\ at' = [at EXCEPT ![c] = "persist"]
        /\ UNCHANGED <<effect, ask, claimed>>
    BY <1>10 DEF Perform, Goto, SameCall, rows
  <2>2. CASE ask[c] \in Guarded
    BY <2>1, <2>2 DEF ClaimsHeld, ClaimsDiffer, Guarded
  <2>3. CASE ask[c] \notin Guarded
    BY <2>1, <2>3 DEF Guarded
  <2> QED BY <2>2, <2>3
<1>11. ASSUME NEW c \in Callers, SettleUncertain(c) PROVE TimesMatch'
  BY <1>11 DEF SettleUncertain, EndCall, Guarded, history
<1>12. ASSUME NEW c \in Callers, PersistResult(c) PROVE TimesMatch'
  BY <1>12 DEF PersistResult, EndCall, Guarded, history, ClaimsDiffer,
     ClaimsHeld
<1>13. ASSUME NEW r \in Requests, NEW how \in {"allow", "always", "deny"},
              Answer(r, how)
       PROVE  TimesMatch'
  BY <1>13 DEF Answer, Guarded, callVars
<1> QED
  BY <1>1, <1>2, <1>3, <1>4, <1>5, <1>6, <1>7, <1>8, <1>9, <1>10, <1>11,
     <1>12, <1>13, Cases DEF Quiet, Other

\* Whatever is or may be claimed has been allowed.
LEMMA AllowedStep ==
  ASSUME Safe, [Next]_vars
  PROVE  AllowedFirst'
<1> USE DEF Safe, EffectTypeOK, CallTypeOK, RowTypeOK, AllowedFirst
<1>1. CASE UNCHANGED <<rows, callVars, times, allowed>>
  BY <1>1 DEF rows, callVars
<1>2. ASSUME NEW s \in Slots, Die(s) PROVE AllowedFirst'
  BY <1>2 DEF Die, rows, history
<1>3. ASSUME NEW c \in Callers, Moves(c) PROVE AllowedFirst'
  BY <1>3 DEF Moves, Goto, SameCall, rows
<1>4. ASSUME NEW c \in Callers, Ends(c) PROVE AllowedFirst'
  BY <1>4 DEF Ends, EndCall, rows
<1>5. ASSUME NEW c \in Callers, NEW r \in Requests, BeginCall(c, r)
      PROVE  AllowedFirst'
  <2>1. PICK h \in Requests, plan \in {"ask", "judge", "allow"} :
          Begins(c, h, plan)
    BY <1>5, BeginFacts
  <2>2. at[c] = "idle" /\ claimed[c] = FALSE
    BY <1>5 DEF BeginCall, ClaimsHeld
  <2> QED
    BY <2>1, <2>2 DEF Begins
<1>6. ASSUME NEW c \in Callers, ReadEffect(c) PROVE AllowedFirst'
  BY <1>6 DEF ReadEffect, Goto, rows, history
<1>7. ASSUME NEW c \in Callers, Creates(c) PROVE AllowedFirst'
  BY <1>7 DEF Creates, Goto, SameCall
<1>8. ASSUME NEW c \in Callers, Judge(c) PROVE AllowedFirst'
  BY <1>8 DEF Judge, Goto
<1>9. ASSUME NEW c \in Callers, Claims(c) PROVE AllowedFirst'
  BY <1>9 DEF Claims, Goto
<1>10. ASSUME NEW c \in Callers, Perform(c) PROVE AllowedFirst'
  BY <1>10 DEF Perform, Goto, SameCall, rows
<1>11. ASSUME NEW c \in Callers, SettleUncertain(c) PROVE AllowedFirst'
  BY <1>11 DEF SettleUncertain, EndCall, history
<1>12. ASSUME NEW c \in Callers, PersistResult(c) PROVE AllowedFirst'
  BY <1>12 DEF PersistResult, EndCall, history
<1>13. ASSUME NEW r \in Requests, NEW how \in {"allow", "always", "deny"},
              Answer(r, how)
       PROVE  AllowedFirst'
  BY <1>13 DEF Answer, callVars
<1> QED
  BY <1>1, <1>2, <1>3, <1>4, <1>5, <1>6, <1>7, <1>8, <1>9, <1>10, <1>11,
     <1>12, <1>13, Cases DEF Quiet, Other

\* Together.
LEMMA SafeStep == Safe /\ [Next]_vars => Safe'
  BY TypeStep, HeldStep, DifferStep, TimesStep, AllowedStep DEF Safe

\* What is carried out is claimed, a claim belongs to one call, and a row that
\* can be claimed belongs to a request that was never carried out.
THEOREM ClaimsAreSafe == Spec => []Safe
  <1>1. Init => Safe
    BY EffectAssumption DEF Init, Safe, EffectTypeOK, RunTypeOK, RowTypeOK,
       SlotTypeOK, CallTypeOK, EffectStatus, Places, Over, ClaimsHeld,
       ClaimsDiffer, TimesMatch, AllowedFirst, Guarded
  <1> QED BY <1>1, SafeStep, PTL DEF Spec

\* An effect that needs approval by default is carried out at most once, in
\* any number of slots and calls, whatever the crashes, stale attempts,
\* replays and answers.
THEOREM PerformedOnce == Spec => []AtMostOnce
  <1>1. Safe => AtMostOnce
    BY DEF Safe, TimesMatch, AtMostOnce, Guarded
  <1> QED BY <1>1, ClaimsAreSafe, PTL

\* A step that carries nothing out and books nothing at most allows something.
LEMMA QuietStep ==
  ASSUME allowed \subseteq allowed', UNCHANGED times,
         \A r \in Guarded : Books(effect[r])' = Books(effect[r])
  PROVE  Promise!PromiseNext
  BY DEF Promise!PromiseNext, Promise!Authorize

\* A step that books what has become of a request.
LEMMA BookingStep ==
  ASSUME EffectTypeOK, NEW r \in Guarded, NEW st \in EffectStatus,
         effect' = [effect EXCEPT ![r] = st],
         UNCHANGED <<allowed, times>>,
         Books(effect[r]) = "open",
         Books(st) \in {"done", "refused", "unknown"},
         Books(st) = "done" => times[r] = 1,
         Books(st) = "refused" => times[r] = 0
  PROVE  Promise!PromiseNext
  <1>1. Promise!Book(r, Books(st))
    BY DEF Promise!Book, EffectTypeOK, RowTypeOK, Guarded
  <1> QED BY <1>1 DEF Promise!PromiseNext

\* A call carries its request out: it has claimed the row, so the request was
\* allowed and not refused.
LEMMA PerformKeeps ==
  ASSUME Safe, NEW c \in Callers, Perform(c)
  PROVE  Promise!PromiseNext
  <1>1. /\ at[c] = "perform" /\ ask[c] \in Requests
        /\ times' = [times EXCEPT ![ask[c]] = @ + 1]
        /\ UNCHANGED <<allowed, effect>>
    BY DEF Perform, rows, Safe, EffectTypeOK, CallTypeOK
  <1>2. CASE ask[c] \in Guarded
    <2>1. /\ claimed[c] /\ times[ask[c]] = 0 /\ ask[c] \in allowed
          /\ effect[ask[c]] \in {"executing", "uncertain"}
      BY <1>1, <1>2 DEF Safe, ClaimsHeld, TimesMatch, AllowedFirst
    <2>2. PICK r \in Guarded : r = ask[c]
      BY <1>2
    <2>3. Promise!CarryOut(r)
      BY <1>1, <2>1, <2>2
         DEF Promise!CarryOut, Books, Guarded, Safe, EffectTypeOK, RunTypeOK
    <2> QED BY <2>3 DEF Promise!PromiseNext
  <1>3. CASE ask[c] \notin Guarded
    <2>1. \A r \in Guarded : times'[r] = times[r]
      BY <1>1, <1>3 DEF Safe, EffectTypeOK, RunTypeOK, Guarded
    <2> QED BY <1>1, <2>1 DEF Promise!PromiseNext, Promise!Authorize
  <1> QED BY <1>2, <1>3

\* A call leaves the row as it is or settles it, done or unknown.
LEMMA SettleKeeps ==
  ASSUME Safe, NEW c \in Callers, PersistResult(c) \/ SettleUncertain(c)
  PROVE  Promise!PromiseNext
  <1>1. ask[c] \in Requests /\ UNCHANGED <<allowed, times>>
    BY DEF PersistResult, SettleUncertain, history, Safe, EffectTypeOK,
       CallTypeOK
  <1>2. CASE UNCHANGED effect
    BY <1>1, <1>2, QuietStep
  <1>3. ASSUME ~UNCHANGED effect
        PROVE  \E st \in {"completed", "uncertain"} :
                 /\ effect' = [effect EXCEPT ![ask[c]] = st]
                 /\ effect[ask[c]] = "executing"
                 /\ st = "completed" => at[c] = "persist" /\ claimed[c]
    BY <1>1, <1>3
       DEF PersistResult, SettleUncertain, Safe, EffectTypeOK, RowTypeOK
  <1>4. ASSUME ~UNCHANGED effect, ask[c] \in Guarded
        PROVE  Promise!PromiseNext
    <2>1. PICK st \in {"completed", "uncertain"} :
                 /\ effect' = [effect EXCEPT ![ask[c]] = st]
                 /\ effect[ask[c]] = "executing"
                 /\ st = "completed" => at[c] = "persist" /\ claimed[c]
      BY <1>3, <1>4
    <2>2. st = "completed" => times[ask[c]] = 1
      BY <2>1, <1>4 DEF Safe, TimesMatch
    <2> QED
      BY <2>1, <2>2, <1>1, <1>4, BookingStep DEF Safe, Books, EffectStatus
  <1>5. ASSUME ~UNCHANGED effect, ask[c] \notin Guarded
        PROVE  Promise!PromiseNext
    <2>1. \A r \in Guarded : effect'[r] = effect[r]
      BY <1>1, <1>3, <1>5 DEF Safe, EffectTypeOK, RowTypeOK, Guarded
    <2> QED BY <1>1, <2>1, QuietStep DEF Books
  <1> QED BY <1>2, <1>4, <1>5

\* An answer allows the request or books its refusal.
LEMMA AnswerKeeps ==
  ASSUME Safe, NEW r \in Requests, NEW how \in {"allow", "always", "deny"},
         Answer(r, how)
  PROVE  Promise!PromiseNext
  <1>1. /\ effect[r] = "intended" /\ UNCHANGED times
        /\ effect' = [effect EXCEPT ![r] = IF how = "deny" THEN "denied"
                                                           ELSE "approved"]
        /\ allowed' = IF how = "deny" THEN allowed ELSE allowed \cup {r}
    BY DEF Answer
  <1>2. CASE how = "deny" /\ r \in Guarded
    <2>1. times[r] = 0
      BY <1>1, <1>2 DEF Safe, TimesMatch
    <2> QED
      BY <1>1, <1>2, <2>1, BookingStep DEF Safe, Books, EffectStatus
  <1>3. CASE how # "deny" \/ r \notin Guarded
    <2>1. \A q \in Guarded : Books(effect[q])' = Books(effect[q])
      BY <1>1, <1>3
         DEF Books, Safe, EffectTypeOK, RowTypeOK, Guarded
    <2> QED BY <1>1, <2>1, QuietStep
  <1> QED BY <1>2, <1>3

\* Creating or claiming a row leaves it open.
LEMMA OpenStep ==
  ASSUME Safe, NEW c \in Callers,
         CreateEffect(c) \/ \E from \in ClaimsFrom(c) : ClaimEffect(c, from)
  PROVE  Promise!PromiseNext
  <1>1. ask[c] \in Requests /\ UNCHANGED <<allowed, times>>
    BY DEF CreateEffect, ClaimEffect, history, Safe, EffectTypeOK, CallTypeOK
  <1>2. \/ UNCHANGED effect
        \/ \E st \in {"intended", "executing"} :
             /\ effect' = [effect EXCEPT ![ask[c]] = st]
             /\ effect[ask[c]] \in {"absent", "intended", "approved"}
    BY DEF CreateEffect, ClaimEffect, ClaimsFrom
  <1>3. \A r \in Guarded : Books(effect[r])' = Books(effect[r])
    BY <1>1, <1>2 DEF Books, Safe, EffectTypeOK, RowTypeOK, Guarded
  <1> QED BY <1>1, <1>3, QuietStep

\* Every step of the rows is a step of the promise.
LEMMA KeepStep ==
  Safe /\ [Next]_vars => [Promise!PromiseNext]_(Promise!promise)
  <1> SUFFICES ASSUME Safe, [Next]_vars
               PROVE  Promise!PromiseNext \/ UNCHANGED Promise!promise
    OBVIOUS
  <1>1. CASE /\ allowed \subseteq allowed'
             /\ UNCHANGED <<effect, times>>
    BY <1>1, QuietStep
  <1>2. ASSUME NEW s \in Slots, StartAttempt(s) \/ SlotStep(s) \/ Die(s)
        PROVE  UNCHANGED <<allowed, effect, times>>
    BY <1>2 DEF SlotStep, StartAttempt, LoadReplays, CompleteTurn, LeaveTurn,
       Die, rows, history
  <1>3. ASSUME NEW c \in Callers,
               \/ ReadEffect(c) \/ Judge(c) \/ ReturnStored(c)
               \/ RereadEffect(c) \/ CheckWaiting(c) \/ RenewForApproval(c)
               \/ PauseForApproval(c) \/ CallThrows(c)
               \/ \E r \in Requests : BeginCall(c, r)
        PROVE  allowed \subseteq allowed' /\ UNCHANGED <<effect, times>>
    BY <1>3 DEF ReadEffect, Judge, ReturnStored, RereadEffect, CheckWaiting,
       RenewForApproval, PauseForApproval, CallThrows, BeginCall, rows,
       history
  <1>4. CASE StopRun \/ UNCHANGED vars
    BY <1>1, <1>4 DEF StopRun, vars, rows, history
  <1> QED
    BY <1>1, <1>2, <1>3, <1>4, PerformKeeps, SettleKeeps, AnswerKeeps,
       OpenStep DEF Next, CallStep

\* The rows, the gates and the answers implement the promise.
THEOREM Refinement == Spec => KeepsPromise
  <1>1. Init => Promise!PromiseInit
    BY DEF Init, Promise!PromiseInit, Guarded, Books
  <1> QED BY <1>1, KeepStep, ClaimsAreSafe, PTL
     DEF Spec, KeepsPromise, Promise!PromiseSpec

-----------------------------------------------------------------------------
(* What was approved is replayed, and what waits can be answered.          *)

\* All that BeginCall does, for a request and the rules it knows of.
BeginsWith(c, h, known) ==
  LET s == SlotOf[c]
      plan == Plan(ToolOf[h], known)
      keyed == Keyed(plan, ToolOf[h])
  IN  /\ at[c] = "idle" /\ place[s] = "turn"
      /\ IF rules[s] = {} THEN known = always ELSE known \in rules[s]
      /\ plan \in {"ask", "judge", "allow"}
      /\ plan = "judge" => Gate[ToolOf[h]] = "judge"
      /\ ask' = [ask EXCEPT ![c] = h]
      /\ mine' = [mine EXCEPT ![c] = fence[s]]
      /\ queue' = [queue EXCEPT ![s] = @ \ {h}]
      /\ rules' = [rules EXCEPT ![s] = {known}]
      /\ decision' = [decision EXCEPT ![c] = plan]
      /\ at' = [at EXCEPT ![c] = IF keyed THEN "read" ELSE "perform"]
      /\ UNCHANGED <<runVars, rows, always, place, fence, saw, claimed, times,
                     thrown, faults>>

LEMMA BeginCases ==
  ASSUME EffectTypeOK, NEW c \in Callers, NEW r \in Requests, BeginCall(c, r)
  PROVE  \E h \in Requests, known \in SUBSET Tools : BeginsWith(c, h, known)
  <1>1. PICK h \in Replay(queue[SlotOf[c]], r),
             known \in IF rules[SlotOf[c]] = {} THEN {always}
                                               ELSE rules[SlotOf[c]] :
          LET plan == Plan(ToolOf[h], known)
              keyed == Keyed(plan, ToolOf[h])
          IN  /\ at[c] = "idle" /\ place[SlotOf[c]] = "turn"
              /\ ask' = [ask EXCEPT ![c] = h]
              /\ mine' = [mine EXCEPT ![c] = fence[SlotOf[c]]]
              /\ queue' = [queue EXCEPT ![SlotOf[c]] = @ \ {h}]
              /\ rules' = [rules EXCEPT ![SlotOf[c]] = {known}]
              /\ decision' = [decision EXCEPT ![c] = plan]
              /\ at' = [at EXCEPT ![c] = IF keyed THEN "read" ELSE "perform"]
              /\ UNCHANGED <<runVars, rows, always, place, fence, saw, claimed,
                             times, thrown, faults>>
    BY DEF BeginCall, Goto
  <1>2. h \in Requests /\ SlotOf[c] \in Slots
    BY EffectAssumption DEF Replay, EffectTypeOK, SlotTypeOK
  <1>3. known \in SUBSET Tools
    BY <1>2 DEF EffectTypeOK, SlotTypeOK, RunTypeOK
  <1>4. /\ Plan(ToolOf[h], known) \in {"ask", "judge", "allow"}
        /\ Plan(ToolOf[h], known) = "judge" => Gate[ToolOf[h]] = "judge"
    BY <1>2, EffectAssumption DEF Plan
  <1>5. IF rules[SlotOf[c]] = {} THEN known = always
                                 ELSE known \in rules[SlotOf[c]]
    OBVIOUS
  <1>6. BeginsWith(c, h, known)
    BY <1>1, <1>4, <1>5 DEF BeginsWith
  <1> QED
    BY <1>2, <1>3, <1>6

\* Fences are given out in order.
FencesPast ==
  /\ \A s \in Slots : fence[s] <= epoch
  /\ \A c \in Callers : mine[c] <= epoch

PlanNow(r) == Plan(ToolOf[r], always)
Judged(r) == Gate[ToolOf[r]] = "judge"
InCharge(c) == at[c] # "idle" /\ Current(mine[c])

\* Rules are added, never dropped, and only between two attempts: what an
\* attempt remembers is true until it ends.
RulesStand ==
  \A s \in Slots :
    /\ \A known \in rules[s] : known \subseteq always
    /\ Current(fence[s]) => rules[s] \subseteq {always}

DecisionsStand ==
  \A c \in Callers :
    at[c] # "idle" =>
      /\ decision[c] = "judge" \/ at[c] = "judge" => Judged(ask[c])
      /\ decision[c] = "allow" =>
           Judged(ask[c]) \/ PlanNow(ask[c]) = "allow"
      /\ decision[c] = "ask" /\ Current(mine[c]) =>
           Judged(ask[c]) \/ PlanNow(ask[c]) = "ask"
      /\ at[c] \in {"renew", "pause"} => decision[c] = "ask"

\* So nobody claims a row that an attempt in charge is about to ask about,
AskStands ==
  \A c \in Callers :
    /\ Current(mine[c]) /\ decision[c] = "ask" /\ ~Judged(ask[c])
    /\ \/ at[c] \in {"renew", "pause"}
       \/ at[c] = "gate" /\ saw[c] \in {"intended", "none"}
    => effect[ask[c]] = "intended"

\* nor afterwards, while the run waits for the answer.
CardStands ==
  run = "waiting" =>
    \E r \in cards :
      Judged(r) \/ (effect[r] = "intended" /\ PlanNow(r) = "ask")

\* A call in charge whose row is approved has not looked yet, or has seen that
\* it is: nothing is approved while an attempt is in charge.
ReplaysSeen ==
  \A c \in Callers :
    InCharge(c) /\ ask[c] \in Guarded /\ effect[ask[c]] = "approved" =>
      \/ at[c] = "read"
      \/ at[c] \in {"judge", "gate"} /\ saw[c] = "approved"

\* An approved request waits for its replay, is in flight or was thrown.
ReplaysKept ==
  \A s \in Slots :
    place[s] = "turn" /\ Current(fence[s]) =>
      \A r \in Guarded :
        effect[r] = "approved" =>
          r \in queue[s] \cup thrown \/ \E c \in InFlight(s) : ask[c] = r

Approvals ==
  /\ EffectTypeOK
  /\ FencesPast /\ RulesStand /\ DecisionsStand /\ AskStands /\ CardStands
  /\ ReplaysSeen /\ ReplaysKept /\ EveryApprovalReplayed

\* Every step keeps the fences in order.
LEMMA FencesStep ==
  ASSUME EffectTypeOK, FencesPast, [Next]_vars
  PROVE  FencesPast'
<1> USE EffectAssumption
    DEF EffectTypeOK, RunTypeOK, SlotTypeOK,
        CallTypeOK, FencesPast, runVars, rows, slotVars, callVars, history
<1>1. ASSUME NEW s \in Slots, StartAttempt(s) PROVE FencesPast'
  BY <1>1 DEF StartAttempt
<1>2. ASSUME NEW s \in Slots, LoadReplays(s) PROVE FencesPast'
  BY <1>2 DEF LoadReplays
<1>3. ASSUME NEW s \in Slots, CompleteTurn(s) PROVE FencesPast'
  BY <1>3 DEF CompleteTurn, TurnEnds
<1>4. ASSUME NEW s \in Slots, LeaveTurn(s) PROVE FencesPast'
  BY <1>4 DEF LeaveTurn, TurnEnds
<1>5. ASSUME NEW s \in Slots, Die(s) PROVE FencesPast'
  BY <1>5 DEF Die, TurnEnds
<1>6. ASSUME NEW c \in Callers, NEW r \in Requests, BeginCall(c, r)
      PROVE  FencesPast'
  <2>1. PICK h \in Requests, known \in SUBSET Tools :
          BeginsWith(c, h, known)
    BY <1>6, BeginCases
  <2> QED
    BY <2>1 DEF BeginsWith
<1>7. ASSUME NEW c \in Callers, ReadEffect(c) PROVE FencesPast'
  BY <1>7 DEF ReadEffect, Goto
<1>8. ASSUME NEW c \in Callers, CreateEffect(c) PROVE FencesPast'
  BY <1>8 DEF CreateEffect, Goto, SameCall, EndCall
<1>9. ASSUME NEW c \in Callers, Judge(c) PROVE FencesPast'
  BY <1>9 DEF Judge, Goto
<1>10. ASSUME NEW c \in Callers, ReturnStored(c) PROVE FencesPast'
  BY <1>10 DEF ReturnStored, EndCall
<1>11. ASSUME NEW c \in Callers, NEW from \in ClaimsFrom(c),
              ClaimEffect(c, from)
       PROVE  FencesPast'
  BY <1>11 DEF ClaimEffect, Goto
<1>12. ASSUME NEW c \in Callers, RereadEffect(c) PROVE FencesPast'
  BY <1>12 DEF RereadEffect, Goto, SameCall, EndCall
<1>13. ASSUME NEW c \in Callers, SettleUncertain(c) PROVE FencesPast'
  BY <1>13 DEF SettleUncertain, EndCall
<1>14. ASSUME NEW c \in Callers, CheckWaiting(c) PROVE FencesPast'
  BY <1>14 DEF CheckWaiting, PausesTurn, EndCall, TurnEnds, Goto, SameCall
<1>15. ASSUME NEW c \in Callers, RenewForApproval(c) PROVE FencesPast'
  BY <1>15 DEF RenewForApproval, PausesTurn, EndCall, TurnEnds, Goto, SameCall
<1>16. ASSUME NEW c \in Callers, PauseForApproval(c) PROVE FencesPast'
  BY <1>16 DEF PauseForApproval, PausesTurn, EndCall, TurnEnds
<1>17. ASSUME NEW c \in Callers, Perform(c) PROVE FencesPast'
  BY <1>17 DEF Perform, Goto, SameCall
<1>18. ASSUME NEW c \in Callers, PersistResult(c) PROVE FencesPast'
  BY <1>18 DEF PersistResult, EndCall
<1>19. ASSUME NEW c \in Callers, CallThrows(c) PROVE FencesPast'
  BY <1>19 DEF CallThrows, EndCall
<1>20. ASSUME NEW r \in Requests, NEW how \in {"allow", "always", "deny"},
              Answer(r, how)
       PROVE  FencesPast'
  BY <1>20 DEF Answer
<1>21. CASE StopRun
  BY <1>21 DEF StopRun
<1>22. CASE UNCHANGED vars
  BY <1>22 DEF vars
<1> QED
  BY <1>1, <1>2, <1>3, <1>4, <1>5, <1>6, <1>7, <1>8, <1>9, <1>10, <1>11, <1>12,
     <1>13, <1>14, <1>15, <1>16, <1>17, <1>18, <1>19, <1>20, <1>21, <1>22
     DEF Next, CallStep, SlotStep

\* The rules an attempt remembers stand.
LEMMA RulesStep ==
  ASSUME EffectTypeOK, FencesPast, RulesStand, [Next]_vars
  PROVE  RulesStand'
<1> USE EffectAssumption
    DEF EffectTypeOK, RunTypeOK, SlotTypeOK,
        FencesPast, RulesStand, Current, Over, runVars, rows, slotVars, callVars,
        history
<1>1. ASSUME NEW s \in Slots, StartAttempt(s) PROVE RulesStand'
  BY <1>1 DEF StartAttempt
<1>2. ASSUME NEW s \in Slots, LoadReplays(s) PROVE RulesStand'
  BY <1>2 DEF LoadReplays
<1>3. ASSUME NEW s \in Slots, CompleteTurn(s) PROVE RulesStand'
  BY <1>3 DEF CompleteTurn, TurnEnds
<1>4. ASSUME NEW s \in Slots, LeaveTurn(s) PROVE RulesStand'
  BY <1>4 DEF LeaveTurn, TurnEnds
<1>5. ASSUME NEW s \in Slots, Die(s) PROVE RulesStand'
  BY <1>5 DEF Die, TurnEnds
<1>6. ASSUME NEW c \in Callers, NEW r \in Requests, BeginCall(c, r)
      PROVE  RulesStand'
  <2>1. PICK h \in Requests, known \in SUBSET Tools :
          BeginsWith(c, h, known)
    BY <1>6, BeginCases
  <2> QED
    BY <2>1 DEF BeginsWith
<1>7. ASSUME NEW c \in Callers, ReadEffect(c) PROVE RulesStand'
  BY <1>7 DEF ReadEffect
<1>8. ASSUME NEW c \in Callers, CreateEffect(c) PROVE RulesStand'
  BY <1>8 DEF CreateEffect
<1>9. ASSUME NEW c \in Callers, Judge(c) PROVE RulesStand'
  BY <1>9 DEF Judge
<1>10. ASSUME NEW c \in Callers, ReturnStored(c) PROVE RulesStand'
  BY <1>10 DEF ReturnStored
<1>11. ASSUME NEW c \in Callers, NEW from \in ClaimsFrom(c),
              ClaimEffect(c, from)
       PROVE  RulesStand'
  BY <1>11 DEF ClaimEffect
<1>12. ASSUME NEW c \in Callers, RereadEffect(c) PROVE RulesStand'
  BY <1>12 DEF RereadEffect
<1>13. ASSUME NEW c \in Callers, SettleUncertain(c) PROVE RulesStand'
  BY <1>13 DEF SettleUncertain
<1>14. ASSUME NEW c \in Callers, CheckWaiting(c) PROVE RulesStand'
  BY <1>14 DEF CheckWaiting, PausesTurn, TurnEnds
<1>15. ASSUME NEW c \in Callers, RenewForApproval(c) PROVE RulesStand'
  BY <1>15 DEF RenewForApproval, PausesTurn, TurnEnds
<1>16. ASSUME NEW c \in Callers, PauseForApproval(c) PROVE RulesStand'
  BY <1>16 DEF PauseForApproval, PausesTurn, TurnEnds
<1>17. ASSUME NEW c \in Callers, Perform(c) PROVE RulesStand'
  BY <1>17 DEF Perform
<1>18. ASSUME NEW c \in Callers, PersistResult(c) PROVE RulesStand'
  BY <1>18 DEF PersistResult
<1>19. ASSUME NEW c \in Callers, CallThrows(c) PROVE RulesStand'
  BY <1>19 DEF CallThrows
<1>20. ASSUME NEW r \in Requests, NEW how \in {"allow", "always", "deny"},
              Answer(r, how)
       PROVE  RulesStand'
  BY <1>20 DEF Answer
<1>21. CASE StopRun
  BY <1>21 DEF StopRun
<1>22. CASE UNCHANGED vars
  BY <1>22 DEF vars
<1> QED
  BY <1>1, <1>2, <1>3, <1>4, <1>5, <1>6, <1>7, <1>8, <1>9, <1>10, <1>11, <1>12,
     <1>13, <1>14, <1>15, <1>16, <1>17, <1>18, <1>19, <1>20, <1>21, <1>22
     DEF Next, CallStep, SlotStep

\* And the decisions that follow from them.
LEMMA DecisionStep ==
  ASSUME EffectTypeOK, FencesPast, RulesStand, DecisionsStand, [Next]_vars
  PROVE  DecisionsStand'
<1> USE EffectAssumption
    DEF EffectTypeOK, RunTypeOK, SlotTypeOK,
        CallTypeOK, FencesPast, RulesStand, DecisionsStand, Current, Judged,
        PlanNow, Plan, Over, runVars, rows, slotVars, callVars, history
<1>1. ASSUME NEW s \in Slots, StartAttempt(s) PROVE DecisionsStand'
  BY <1>1 DEF StartAttempt
<1>2. ASSUME NEW s \in Slots, LoadReplays(s) PROVE DecisionsStand'
  BY <1>2 DEF LoadReplays
<1>3. ASSUME NEW s \in Slots, CompleteTurn(s) PROVE DecisionsStand'
  BY <1>3 DEF CompleteTurn
<1>4. ASSUME NEW s \in Slots, LeaveTurn(s) PROVE DecisionsStand'
  BY <1>4 DEF LeaveTurn
<1>5. ASSUME NEW s \in Slots, Die(s) PROVE DecisionsStand'
  BY <1>5 DEF Die
<1>6. ASSUME NEW c \in Callers, NEW r \in Requests, BeginCall(c, r)
      PROVE  DecisionsStand'
  <2>1. PICK h \in Requests, known \in SUBSET Tools :
          BeginsWith(c, h, known)
    BY <1>6, BeginCases
  <2> QED
    BY <2>1 DEF BeginsWith
<1>7. ASSUME NEW c \in Callers, ReadEffect(c) PROVE DecisionsStand'
  BY <1>7 DEF ReadEffect, Goto
<1>8. ASSUME NEW c \in Callers, CreateEffect(c) PROVE DecisionsStand'
  BY <1>8 DEF CreateEffect, Goto, SameCall, EndCall
<1>9. ASSUME NEW c \in Callers, Judge(c) PROVE DecisionsStand'
  BY <1>9 DEF Judge, Goto
<1>10. ASSUME NEW c \in Callers, ReturnStored(c) PROVE DecisionsStand'
  BY <1>10 DEF ReturnStored, EndCall
<1>11. ASSUME NEW c \in Callers, NEW from \in ClaimsFrom(c),
              ClaimEffect(c, from)
       PROVE  DecisionsStand'
  BY <1>11 DEF ClaimEffect, Goto
<1>12. ASSUME NEW c \in Callers, RereadEffect(c) PROVE DecisionsStand'
  BY <1>12 DEF RereadEffect, Goto, SameCall, EndCall
<1>13. ASSUME NEW c \in Callers, SettleUncertain(c) PROVE DecisionsStand'
  BY <1>13 DEF SettleUncertain, EndCall
<1>14. ASSUME NEW c \in Callers, CheckWaiting(c) PROVE DecisionsStand'
  BY <1>14 DEF CheckWaiting, PausesTurn, EndCall, Goto, SameCall
<1>15. ASSUME NEW c \in Callers, RenewForApproval(c) PROVE DecisionsStand'
  BY <1>15 DEF RenewForApproval, PausesTurn, EndCall, Goto, SameCall
<1>16. ASSUME NEW c \in Callers, PauseForApproval(c) PROVE DecisionsStand'
  BY <1>16 DEF PauseForApproval, PausesTurn, EndCall
<1>17. ASSUME NEW c \in Callers, Perform(c) PROVE DecisionsStand'
  BY <1>17 DEF Perform, Goto, SameCall
<1>18. ASSUME NEW c \in Callers, PersistResult(c) PROVE DecisionsStand'
  BY <1>18 DEF PersistResult, EndCall
<1>19. ASSUME NEW c \in Callers, CallThrows(c) PROVE DecisionsStand'
  BY <1>19 DEF CallThrows, EndCall
<1>20. ASSUME NEW r \in Requests, NEW how \in {"allow", "always", "deny"},
              Answer(r, how)
       PROVE  DecisionsStand'
  BY <1>20 DEF Answer
<1>21. CASE StopRun
  BY <1>21 DEF StopRun
<1>22. CASE UNCHANGED vars
  BY <1>22 DEF vars
<1> QED
  BY <1>1, <1>2, <1>3, <1>4, <1>5, <1>6, <1>7, <1>8, <1>9, <1>10, <1>11, <1>12,
     <1>13, <1>14, <1>15, <1>16, <1>17, <1>18, <1>19, <1>20, <1>21, <1>22
     DEF Next, CallStep, SlotStep

\* What an attempt in charge asks about stays open.
LEMMA AskStep ==
  ASSUME EffectTypeOK, FencesPast, DecisionsStand, AskStands, [Next]_vars
  PROVE  AskStands'
<1> USE EffectAssumption
    DEF EffectTypeOK, RunTypeOK, RowTypeOK,
        CallTypeOK, EffectStatus, FencesPast, DecisionsStand, AskStands, Current,
        Judged, PlanNow, Over, runVars, rows, slotVars, callVars, history
<1>1. ASSUME NEW s \in Slots, StartAttempt(s) PROVE AskStands'
  BY <1>1 DEF StartAttempt
<1>2. ASSUME NEW s \in Slots, LoadReplays(s) PROVE AskStands'
  BY <1>2 DEF LoadReplays
<1>3. ASSUME NEW s \in Slots, CompleteTurn(s) PROVE AskStands'
  BY <1>3 DEF CompleteTurn
<1>4. ASSUME NEW s \in Slots, LeaveTurn(s) PROVE AskStands'
  BY <1>4 DEF LeaveTurn
<1>5. ASSUME NEW s \in Slots, Die(s) PROVE AskStands'
  BY <1>5 DEF Die
<1>6. ASSUME NEW c \in Callers, NEW r \in Requests, BeginCall(c, r)
      PROVE  AskStands'
  <2>1. PICK h \in Requests, known \in SUBSET Tools :
          BeginsWith(c, h, known)
    BY <1>6, BeginCases
  <2> QED
    BY <2>1 DEF BeginsWith
<1>7. ASSUME NEW c \in Callers, ReadEffect(c) PROVE AskStands'
  BY <1>7 DEF ReadEffect, Goto
<1>8. ASSUME NEW c \in Callers, CreateEffect(c) PROVE AskStands'
  BY <1>8 DEF CreateEffect, Goto, SameCall, EndCall
<1>9. ASSUME NEW c \in Callers, Judge(c) PROVE AskStands'
  BY <1>9 DEF Judge, Goto
<1>10. ASSUME NEW c \in Callers, ReturnStored(c) PROVE AskStands'
  BY <1>10 DEF ReturnStored, EndCall
<1>11. ASSUME NEW c \in Callers, NEW from \in ClaimsFrom(c),
              ClaimEffect(c, from)
       PROVE  AskStands'
  BY <1>11 DEF ClaimEffect, ClaimsFrom, Goto
<1>12. ASSUME NEW c \in Callers, RereadEffect(c) PROVE AskStands'
  BY <1>12 DEF RereadEffect, Goto, SameCall, EndCall
<1>13. ASSUME NEW c \in Callers, SettleUncertain(c) PROVE AskStands'
  BY <1>13 DEF SettleUncertain, EndCall
<1>14. ASSUME NEW c \in Callers, CheckWaiting(c) PROVE AskStands'
  BY <1>14 DEF CheckWaiting, PausesTurn, EndCall, Goto, SameCall
<1>15. ASSUME NEW c \in Callers, RenewForApproval(c) PROVE AskStands'
  BY <1>15 DEF RenewForApproval, PausesTurn, EndCall, Goto, SameCall
<1>16. ASSUME NEW c \in Callers, PauseForApproval(c) PROVE AskStands'
  BY <1>16 DEF PauseForApproval, PausesTurn, EndCall
<1>17. ASSUME NEW c \in Callers, Perform(c) PROVE AskStands'
  BY <1>17 DEF Perform, Goto, SameCall
<1>18. ASSUME NEW c \in Callers, PersistResult(c) PROVE AskStands'
  BY <1>18 DEF PersistResult, EndCall
<1>19. ASSUME NEW c \in Callers, CallThrows(c) PROVE AskStands'
  BY <1>19 DEF CallThrows, EndCall
<1>20. ASSUME NEW r \in Requests, NEW how \in {"allow", "always", "deny"},
              Answer(r, how)
       PROVE  AskStands'
  BY <1>20 DEF Answer
<1>21. CASE StopRun
  BY <1>21 DEF StopRun
<1>22. CASE UNCHANGED vars
  BY <1>22 DEF vars
<1> QED
  BY <1>1, <1>2, <1>3, <1>4, <1>5, <1>6, <1>7, <1>8, <1>9, <1>10, <1>11, <1>12,
     <1>13, <1>14, <1>15, <1>16, <1>17, <1>18, <1>19, <1>20, <1>21, <1>22
     DEF Next, CallStep, SlotStep

\* And so does what the user is asked about.
LEMMA CardStep ==
  ASSUME EffectTypeOK, DecisionsStand, AskStands, CardStands, [Next]_vars
  PROVE  CardStands'
<1> USE EffectAssumption
    DEF EffectTypeOK, RunTypeOK, RowTypeOK,
        CallTypeOK, DecisionsStand, AskStands, CardStands, Current, Judged,
        PlanNow, Over, runVars, rows, slotVars, callVars, history
<1>1. ASSUME NEW s \in Slots, StartAttempt(s) PROVE CardStands'
  BY <1>1 DEF StartAttempt
<1>2. ASSUME NEW s \in Slots, LoadReplays(s) PROVE CardStands'
  BY <1>2 DEF LoadReplays
<1>3. ASSUME NEW s \in Slots, CompleteTurn(s) PROVE CardStands'
  BY <1>3 DEF CompleteTurn
<1>4. ASSUME NEW s \in Slots, LeaveTurn(s) PROVE CardStands'
  BY <1>4 DEF LeaveTurn
<1>5. ASSUME NEW s \in Slots, Die(s) PROVE CardStands'
  BY <1>5 DEF Die
<1>6. ASSUME NEW c \in Callers, NEW r \in Requests, BeginCall(c, r)
      PROVE  CardStands'
  <2>1. PICK h \in Requests, known \in SUBSET Tools :
          BeginsWith(c, h, known)
    BY <1>6, BeginCases
  <2> QED
    BY <2>1 DEF BeginsWith
<1>7. ASSUME NEW c \in Callers, ReadEffect(c) PROVE CardStands'
  BY <1>7 DEF ReadEffect, Goto
<1>8. ASSUME NEW c \in Callers, CreateEffect(c) PROVE CardStands'
  BY <1>8 DEF CreateEffect, Goto, SameCall, EndCall
<1>9. ASSUME NEW c \in Callers, Judge(c) PROVE CardStands'
  BY <1>9 DEF Judge, Goto
<1>10. ASSUME NEW c \in Callers, ReturnStored(c) PROVE CardStands'
  BY <1>10 DEF ReturnStored, EndCall
<1>11. ASSUME NEW c \in Callers, NEW from \in ClaimsFrom(c),
              ClaimEffect(c, from)
       PROVE  CardStands'
  BY <1>11 DEF ClaimEffect, ClaimsFrom, Goto
<1>12. ASSUME NEW c \in Callers, RereadEffect(c) PROVE CardStands'
  BY <1>12 DEF RereadEffect, Goto, SameCall, EndCall
<1>13. ASSUME NEW c \in Callers, SettleUncertain(c) PROVE CardStands'
  BY <1>13 DEF SettleUncertain, EndCall
<1>14. ASSUME NEW c \in Callers, CheckWaiting(c) PROVE CardStands'
  BY <1>14 DEF CheckWaiting, PausesTurn, EndCall, Goto, SameCall
<1>15. ASSUME NEW c \in Callers, RenewForApproval(c) PROVE CardStands'
  BY <1>15 DEF RenewForApproval, PausesTurn, EndCall, Goto, SameCall
<1>16. ASSUME NEW c \in Callers, PauseForApproval(c) PROVE CardStands'
  BY <1>16 DEF PauseForApproval, PausesTurn, EndCall
<1>17. ASSUME NEW c \in Callers, Perform(c) PROVE CardStands'
  BY <1>17 DEF Perform, Goto, SameCall
<1>18. ASSUME NEW c \in Callers, PersistResult(c) PROVE CardStands'
  BY <1>18 DEF PersistResult, EndCall
<1>19. ASSUME NEW c \in Callers, CallThrows(c) PROVE CardStands'
  BY <1>19 DEF CallThrows, EndCall
<1>20. ASSUME NEW r \in Requests, NEW how \in {"allow", "always", "deny"},
              Answer(r, how)
       PROVE  CardStands'
  BY <1>20 DEF Answer
<1>21. CASE StopRun
  BY <1>21 DEF StopRun
<1>22. CASE UNCHANGED vars
  BY <1>22 DEF vars
<1> QED
  BY <1>1, <1>2, <1>3, <1>4, <1>5, <1>6, <1>7, <1>8, <1>9, <1>10, <1>11, <1>12,
     <1>13, <1>14, <1>15, <1>16, <1>17, <1>18, <1>19, <1>20, <1>21, <1>22
     DEF Next, CallStep, SlotStep

\* A call in charge sees that its request is approved.
LEMMA SeenStep ==
  ASSUME EffectTypeOK, FencesPast, ReplaysSeen, [Next]_vars
  PROVE  ReplaysSeen'
<1> USE EffectAssumption
    DEF EffectTypeOK, RunTypeOK, RowTypeOK,
        CallTypeOK, FencesPast, ReplaysSeen, InCharge, Guarded, Keyed, Current,
        Over, runVars, rows, slotVars, callVars, history
<1>1. ASSUME NEW s \in Slots, StartAttempt(s) PROVE ReplaysSeen'
  BY <1>1 DEF StartAttempt
<1>2. ASSUME NEW s \in Slots, LoadReplays(s) PROVE ReplaysSeen'
  BY <1>2 DEF LoadReplays
<1>3. ASSUME NEW s \in Slots, CompleteTurn(s) PROVE ReplaysSeen'
  BY <1>3 DEF CompleteTurn
<1>4. ASSUME NEW s \in Slots, LeaveTurn(s) PROVE ReplaysSeen'
  BY <1>4 DEF LeaveTurn
<1>5. ASSUME NEW s \in Slots, Die(s) PROVE ReplaysSeen'
  BY <1>5 DEF Die
<1>6. ASSUME NEW c \in Callers, NEW r \in Requests, BeginCall(c, r)
      PROVE  ReplaysSeen'
  <2>1. PICK h \in Requests, known \in SUBSET Tools :
          BeginsWith(c, h, known)
    BY <1>6, BeginCases
  <2> QED
    BY <2>1 DEF BeginsWith
<1>7. ASSUME NEW c \in Callers, ReadEffect(c) PROVE ReplaysSeen'
  BY <1>7 DEF ReadEffect, Goto
<1>8. ASSUME NEW c \in Callers, CreateEffect(c) PROVE ReplaysSeen'
  BY <1>8 DEF CreateEffect, Goto, SameCall, EndCall
<1>9. ASSUME NEW c \in Callers, Judge(c) PROVE ReplaysSeen'
  BY <1>9 DEF Judge, Goto
<1>10. ASSUME NEW c \in Callers, ReturnStored(c) PROVE ReplaysSeen'
  BY <1>10 DEF ReturnStored, EndCall
<1>11. ASSUME NEW c \in Callers, NEW from \in ClaimsFrom(c),
              ClaimEffect(c, from)
       PROVE  ReplaysSeen'
  BY <1>11 DEF ClaimEffect, ClaimsFrom, Goto
<1>12. ASSUME NEW c \in Callers, RereadEffect(c) PROVE ReplaysSeen'
  BY <1>12 DEF RereadEffect, Goto, SameCall, EndCall
<1>13. ASSUME NEW c \in Callers, SettleUncertain(c) PROVE ReplaysSeen'
  BY <1>13 DEF SettleUncertain, EndCall
<1>14. ASSUME NEW c \in Callers, CheckWaiting(c) PROVE ReplaysSeen'
  BY <1>14 DEF CheckWaiting, PausesTurn, EndCall, Goto, SameCall
<1>15. ASSUME NEW c \in Callers, RenewForApproval(c) PROVE ReplaysSeen'
  BY <1>15 DEF RenewForApproval, PausesTurn, EndCall, Goto, SameCall
<1>16. ASSUME NEW c \in Callers, PauseForApproval(c) PROVE ReplaysSeen'
  BY <1>16 DEF PauseForApproval, PausesTurn, EndCall
<1>17. ASSUME NEW c \in Callers, Perform(c) PROVE ReplaysSeen'
  BY <1>17 DEF Perform, Goto, SameCall
<1>18. ASSUME NEW c \in Callers, PersistResult(c) PROVE ReplaysSeen'
  BY <1>18 DEF PersistResult, EndCall
<1>19. ASSUME NEW c \in Callers, CallThrows(c) PROVE ReplaysSeen'
  BY <1>19 DEF CallThrows, EndCall
<1>20. ASSUME NEW r \in Requests, NEW how \in {"allow", "always", "deny"},
              Answer(r, how)
       PROVE  ReplaysSeen'
  BY <1>20 DEF Answer
<1>21. CASE StopRun
  BY <1>21 DEF StopRun
<1>22. CASE UNCHANGED vars
  BY <1>22 DEF vars
<1> QED
  BY <1>1, <1>2, <1>3, <1>4, <1>5, <1>6, <1>7, <1>8, <1>9, <1>10, <1>11, <1>12,
     <1>13, <1>14, <1>15, <1>16, <1>17, <1>18, <1>19, <1>20, <1>21, <1>22
     DEF Next, CallStep, SlotStep

\* No approved request is dropped.
LEMMA KeptStep ==
  ASSUME EffectTypeOK, FencesPast, ReplaysSeen, ReplaysKept, [Next]_vars
  PROVE  ReplaysKept'
<1> USE EffectAssumption
    DEF EffectTypeOK, RunTypeOK, RowTypeOK,
        SlotTypeOK, CallTypeOK, FencesPast, ReplaysSeen, ReplaysKept, InCharge,
        Guarded, Keyed, Current, InFlight, Returned, Over, runVars, rows,
        slotVars, callVars, history
<1>1. ASSUME NEW s \in Slots, StartAttempt(s) PROVE ReplaysKept'
  BY <1>1 DEF StartAttempt
<1>2. ASSUME NEW s \in Slots, LoadReplays(s) PROVE ReplaysKept'
  BY <1>2 DEF LoadReplays
<1>3. ASSUME NEW s \in Slots, CompleteTurn(s) PROVE ReplaysKept'
  BY <1>3 DEF CompleteTurn, TurnEnds
<1>4. ASSUME NEW s \in Slots, LeaveTurn(s) PROVE ReplaysKept'
  BY <1>4 DEF LeaveTurn, TurnEnds
<1>5. ASSUME NEW s \in Slots, Die(s) PROVE ReplaysKept'
  BY <1>5 DEF Die, TurnEnds
<1>6. ASSUME NEW c \in Callers, NEW r \in Requests, BeginCall(c, r)
      PROVE  ReplaysKept'
  <2>1. PICK h \in Requests, known \in SUBSET Tools :
          BeginsWith(c, h, known)
    BY <1>6, BeginCases
  <2> QED
    BY <2>1 DEF BeginsWith
<1>7. ASSUME NEW c \in Callers, ReadEffect(c) PROVE ReplaysKept'
  BY <1>7 DEF ReadEffect, Goto
<1>8. ASSUME NEW c \in Callers, CreateEffect(c) PROVE ReplaysKept'
  BY <1>8 DEF CreateEffect, Goto, SameCall, EndCall
<1>9. ASSUME NEW c \in Callers, Judge(c) PROVE ReplaysKept'
  BY <1>9 DEF Judge, Goto
<1>10. ASSUME NEW c \in Callers, ReturnStored(c) PROVE ReplaysKept'
  BY <1>10 DEF ReturnStored, EndCall
<1>11. ASSUME NEW c \in Callers, NEW from \in ClaimsFrom(c),
              ClaimEffect(c, from)
       PROVE  ReplaysKept'
  BY <1>11 DEF ClaimEffect, ClaimsFrom, Goto
<1>12. ASSUME NEW c \in Callers, RereadEffect(c) PROVE ReplaysKept'
  BY <1>12 DEF RereadEffect, Goto, SameCall, EndCall
<1>13. ASSUME NEW c \in Callers, SettleUncertain(c) PROVE ReplaysKept'
  BY <1>13 DEF SettleUncertain, EndCall
<1>14. ASSUME NEW c \in Callers, CheckWaiting(c) PROVE ReplaysKept'
  BY <1>14 DEF CheckWaiting, PausesTurn, EndCall, TurnEnds, Goto, SameCall
<1>15. ASSUME NEW c \in Callers, RenewForApproval(c) PROVE ReplaysKept'
  BY <1>15 DEF RenewForApproval, PausesTurn, EndCall, TurnEnds, Goto, SameCall
<1>16. ASSUME NEW c \in Callers, PauseForApproval(c) PROVE ReplaysKept'
  BY <1>16 DEF PauseForApproval, PausesTurn, EndCall, TurnEnds
<1>17. ASSUME NEW c \in Callers, Perform(c) PROVE ReplaysKept'
  BY <1>17 DEF Perform, Goto, SameCall
<1>18. ASSUME NEW c \in Callers, PersistResult(c) PROVE ReplaysKept'
  BY <1>18 DEF PersistResult, EndCall
<1>19. ASSUME NEW c \in Callers, CallThrows(c) PROVE ReplaysKept'
  BY <1>19 DEF CallThrows, EndCall
<1>20. ASSUME NEW r \in Requests, NEW how \in {"allow", "always", "deny"},
              Answer(r, how)
       PROVE  ReplaysKept'
  BY <1>20 DEF Answer
<1>21. CASE StopRun
  BY <1>21 DEF StopRun
<1>22. CASE UNCHANGED vars
  BY <1>22 DEF vars
<1> QED
  BY <1>1, <1>2, <1>3, <1>4, <1>5, <1>6, <1>7, <1>8, <1>9, <1>10, <1>11, <1>12,
     <1>13, <1>14, <1>15, <1>16, <1>17, <1>18, <1>19, <1>20, <1>21, <1>22
     DEF Next, CallStep, SlotStep

\* A run that is completed has replayed what was approved.
LEMMA ReplayedStep ==
  ASSUME EffectTypeOK, ReplaysKept, EveryApprovalReplayed, [Next]_vars
  PROVE  EveryApprovalReplayed'
<1> USE EffectAssumption
    DEF EffectTypeOK, RunTypeOK, RowTypeOK,
        CallTypeOK, ReplaysKept, EveryApprovalReplayed, Guarded, Current, Over,
        runVars, rows, slotVars, callVars, history
<1>1. ASSUME NEW s \in Slots, StartAttempt(s) PROVE EveryApprovalReplayed'
  BY <1>1 DEF StartAttempt
<1>2. ASSUME NEW s \in Slots, LoadReplays(s) PROVE EveryApprovalReplayed'
  BY <1>2 DEF LoadReplays
<1>3. ASSUME NEW s \in Slots, CompleteTurn(s) PROVE EveryApprovalReplayed'
  BY <1>3 DEF CompleteTurn, TurnEnds, InFlight
<1>4. ASSUME NEW s \in Slots, LeaveTurn(s) PROVE EveryApprovalReplayed'
  BY <1>4 DEF LeaveTurn, TurnEnds
<1>5. ASSUME NEW s \in Slots, Die(s) PROVE EveryApprovalReplayed'
  BY <1>5 DEF Die, TurnEnds
<1>6. ASSUME NEW c \in Callers, NEW r \in Requests, BeginCall(c, r)
      PROVE  EveryApprovalReplayed'
  <2>1. PICK h \in Requests, known \in SUBSET Tools :
          BeginsWith(c, h, known)
    BY <1>6, BeginCases
  <2> QED
    BY <2>1 DEF BeginsWith
<1>7. ASSUME NEW c \in Callers, ReadEffect(c) PROVE EveryApprovalReplayed'
  BY <1>7 DEF ReadEffect
<1>8. ASSUME NEW c \in Callers, CreateEffect(c) PROVE EveryApprovalReplayed'
  BY <1>8 DEF CreateEffect
<1>9. ASSUME NEW c \in Callers, Judge(c) PROVE EveryApprovalReplayed'
  BY <1>9 DEF Judge
<1>10. ASSUME NEW c \in Callers, ReturnStored(c) PROVE EveryApprovalReplayed'
  BY <1>10 DEF ReturnStored
<1>11. ASSUME NEW c \in Callers, NEW from \in ClaimsFrom(c),
              ClaimEffect(c, from)
       PROVE  EveryApprovalReplayed'
  BY <1>11 DEF ClaimEffect, ClaimsFrom
<1>12. ASSUME NEW c \in Callers, RereadEffect(c) PROVE EveryApprovalReplayed'
  BY <1>12 DEF RereadEffect
<1>13. ASSUME NEW c \in Callers, SettleUncertain(c) PROVE EveryApprovalReplayed'
  BY <1>13 DEF SettleUncertain
<1>14. ASSUME NEW c \in Callers, CheckWaiting(c) PROVE EveryApprovalReplayed'
  BY <1>14 DEF CheckWaiting, PausesTurn, TurnEnds
<1>15. ASSUME NEW c \in Callers, RenewForApproval(c)
       PROVE  EveryApprovalReplayed'
  BY <1>15 DEF RenewForApproval, PausesTurn, TurnEnds
<1>16. ASSUME NEW c \in Callers, PauseForApproval(c)
       PROVE  EveryApprovalReplayed'
  BY <1>16 DEF PauseForApproval, PausesTurn, TurnEnds
<1>17. ASSUME NEW c \in Callers, Perform(c) PROVE EveryApprovalReplayed'
  BY <1>17 DEF Perform
<1>18. ASSUME NEW c \in Callers, PersistResult(c) PROVE EveryApprovalReplayed'
  BY <1>18 DEF PersistResult
<1>19. ASSUME NEW c \in Callers, CallThrows(c) PROVE EveryApprovalReplayed'
  BY <1>19 DEF CallThrows
<1>20. ASSUME NEW r \in Requests, NEW how \in {"allow", "always", "deny"},
              Answer(r, how)
       PROVE  EveryApprovalReplayed'
  BY <1>20 DEF Answer
<1>21. CASE StopRun
  BY <1>21 DEF StopRun
<1>22. CASE UNCHANGED vars
  BY <1>22 DEF vars
<1> QED
  BY <1>1, <1>2, <1>3, <1>4, <1>5, <1>6, <1>7, <1>8, <1>9, <1>10, <1>11, <1>12,
     <1>13, <1>14, <1>15, <1>16, <1>17, <1>18, <1>19, <1>20, <1>21, <1>22
     DEF Next, CallStep, SlotStep

\* Every step keeps the whole.
LEMMA ApprovalsStep == Approvals /\ [Next]_vars => Approvals'
<1> SUFFICES ASSUME Approvals, [Next]_vars PROVE Approvals'
  OBVIOUS
<1>1. EffectTypeOK' /\ FencesPast' /\ RulesStand' /\ DecisionsStand'
  BY TypeStep, FencesStep, RulesStep, DecisionStep DEF Approvals
<1>2. AskStands' /\ CardStands' /\ ReplaysSeen' /\ ReplaysKept'
  BY AskStep, CardStep, SeenStep, KeptStep DEF Approvals
<1>3. EveryApprovalReplayed'
  BY ReplayedStep DEF Approvals
<1> QED
  BY <1>1, <1>2, <1>3 DEF Approvals

\* The induction that the next two theorems share.
LEMMA ApprovalsHold == Spec => []Approvals
<1>1. Init => EffectTypeOK
  BY EffectAssumption DEF Init, EffectTypeOK, RunTypeOK, RowTypeOK,
     SlotTypeOK, CallTypeOK, EffectStatus, Places, Over
<1>2. Init => /\ FencesPast /\ RulesStand /\ DecisionsStand /\ AskStands
              /\ CardStands /\ ReplaysSeen /\ ReplaysKept
              /\ EveryApprovalReplayed
  BY DEF Init, FencesPast, RulesStand, DecisionsStand, AskStands, CardStands,
     ReplaysSeen, ReplaysKept, EveryApprovalReplayed, InCharge, Current
<1>3. Init => Approvals
  BY <1>1, <1>2 DEF Approvals
<1> QED
  BY <1>3, ApprovalsStep, PTL DEF Spec

\* However attempts die, lose the run and are asked again in between, a run is
\* completed only after each request its user approved was replayed or threw:
\* assertDrained looks at the queue alone, and that is enough.
THEOREM ApprovalsReplayed == Spec => []EveryApprovalReplayed
<1>1. Approvals => EveryApprovalReplayed
  BY DEF Approvals
<1> QED
  BY ApprovalsHold, <1>1, PTL

\* A run waits only with a card whose answer answerRunInput will accept, unless
\* a judge has spoken twice about its request.
THEOREM WaitingIsAnswerable == Spec => []AskAnswerable
<1>1. Approvals => AskAnswerable
  BY DEF Approvals, CardStands, AskAnswerable, Judged
<1> QED
  BY ApprovalsHold, <1>1, PTL

==============================================================================
