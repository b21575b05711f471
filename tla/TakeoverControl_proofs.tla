------------------------ MODULE TakeoverControl_proofs ------------------------
(***************************************************************************)
(* The computer of a run: what RunLifecycle promises of the run still      *)
(* holds with it, and a run that waits for the user keeps the row of its   *)
(* lease.  For every set of slots and workers, every number of pauses,     *)
(* faults and grants.                                                      *)
(***************************************************************************)
EXTENDS TakeoverControl, RunLifecycle_proofs

-----------------------------------------------------------------------------
(* The run.                                                                *)

AnyStep == ComputerNext \/ \E s \in Slots : Stall(s)

\* What the steps of OtherStep do besides the step of RunLifecycle.
Apart(s) ==
  ForgetIfReturned(s) /\ UNCHANGED <<exec, said, userVars, hostVars>>

\* For the run, a step is one of its own or none, but for two: a renewal that
\* finds the computer lost, and a revocation that fails.
LEMMA StepOfRun ==
  ASSUME pend \subseteq Releases, [AnyStep]_allVars
  PROVE  \/ [Next]_vars
         \/ \E s \in Slots : Abort(s) /\ UNCHANGED bounds
         \/ UNCHANGED <<row, queue, local, sawExpired, history>> /\ Fault
<1>1. ASSUME NEW s \in Slots, ComputerStep(s)
      PROVE  [Next]_vars \/ (Abort(s) /\ UNCHANGED bounds)
  <2>1. CASE OtherStep(s)
    BY <2>1 DEF OtherStep, Next, Advance, Agent, Disturb
  <2>2. CASE ReadForResume(s) \/ AcquireLease(s) \/ LeaseCallFails(s)
    BY <2>2 DEF ReadForResume, AcquireLease, LeaseCallFails, Next, Advance,
       Disturb
  <2>6. CASE AcquireRefused(s) \/ FinishProvision(s)
    BY <2>6 DEF AcquireRefused, FinishProvision, Next, Advance, Disturb
  <2>3. CASE RenewBoth(s)
    BY <2>3 DEF RenewBoth, Next
  <2>4. CASE AskForTakeover(s) \/ PauseHeld(s) \/ ReleaseLease(s)
    BY <2>4 DEF AskForTakeover, PauseHeld, ReleaseLease, Next, Advance, Agent
  <2>5. CASE HoldLease(s)
    BY <2>5 DEF HoldLease
  <2> QED
    BY <1>1, <2>1, <2>2, <2>3, <2>4, <2>5, <2>6 DEF ComputerStep
<1>2. ASSUME ControlStep
      PROVE  \/ [Next]_vars
             \/ UNCHANGED <<row, queue, local, sawExpired, history>> /\ Fault
  <2>1. ASSUME NEW p \in pend, FinalizeRelease(p) PROVE [Next]_vars
    <3>1. p.how \in {"takeover", "takeover-skipped"}
      BY DEF Releases
    <3> QED
      BY <2>1, <3>1 DEF FinalizeRelease, Next, User
  <2>2. ASSUME NEW p \in pend, RevocationFails(p)
        PROVE  UNCHANGED <<row, queue, local, sawExpired, history>> /\ Fault
    BY <2>2 DEF RevocationFails
  <2>3. CASE StopAndCancel \/ ClearAndDelete \/ Answer
    BY <2>3 DEF StopAndCancel, ClearAndDelete, Answer, Next, User
  <2>4. CASE DeleteStopped \/ CheckTakeover \/ GrantTakeover
             \/ OtherBotTakesOver \/ ControlLapses \/ ReadExpiry
    BY <2>4 DEF DeleteStopped, CheckTakeover, GrantTakeover,
       OtherBotTakesOver, ControlLapses, ReadExpiry
  <2>5. ASSUME NEW how \in {"takeover", "takeover-skipped"}, ReadRelease(how)
        PROVE  [Next]_vars
    BY <2>5 DEF ReadRelease
  <2> QED
    BY <1>2, <2>1, <2>2, <2>3, <2>4, <2>5 DEF ControlStep
<1>3. CASE LeaseLapses \/ Background
  BY <1>3 DEF LeaseLapses, Background, Next
<1>4. ASSUME NEW w \in Workers, LoseProcess(w) PROVE [Next]_vars
  BY <1>4 DEF LoseProcess, Next
<1>5. ASSUME NEW s \in Slots, Stall(s) PROVE [Next]_vars
  BY <1>5 DEF Stall, Next
<1>6. CASE PowerStep
  <2>1. CASE StopFails
    BY <2>1 DEF StopFails
  <2>2. CASE ~StopFails
    BY <1>6, <2>2 DEF PowerStep, ClaimStop, StopRefused, StopDeletesLease,
       StopEnds, LeaseTaken, Boot, Sleep
  <2> QED
    BY <2>1, <2>2
<1>7. CASE UNCHANGED allVars
  BY <1>7 DEF allVars
<1> QED
  BY <1>1, <1>2, <1>3, <1>4, <1>5, <1>6, <1>7 DEF AnyStep, ComputerNext

\* A renewal refused for the computer's sake keeps the invariant of the run.
LEMMA AbortKeeps ==
  ASSUME IInv, NEW s \in Slots, Abort(s), UNCHANGED bounds
  PROVE  IInv'
<1> USE DEF IInv, Abort, Renew, row, queue, local, history, bounds
<1>1. TypeOK'
  BY DEF TypeOK, Expiries, Holds, Matches
<1>2. LeaseMatchesStatus' /\ OneOutcome'
  BY DEF LeaseMatchesStatus, OneOutcome, Holds, Parked, Held
<1>3. AttemptsRun' /\ FencesDistinct'
  BY DEF AttemptsRun, FencesDistinct
<1>4. ExpiredReads'
  BY DEF ExpiredReads
<1> QED
  BY <1>1, <1>2, <1>3, <1>4

\* And so does a step that only counts a fault.
LEMMA FaultKeeps ==
  ASSUME IInv, UNCHANGED <<row, queue, local, sawExpired, history>>, Fault
  PROVE  IInv'
BY DEF IInv, TypeOK, LeaseMatchesStatus, OneOutcome, AttemptsRun,
   FencesDistinct, ExpiredReads, row, queue, local, history, Fault

LEMMA RunKept ==
  ASSUME IInv, pend \subseteq Releases, [AnyStep]_allVars
  PROVE  IInv'
BY StepOfRun, AbortKeeps, FaultKeeps, NextIInv

-----------------------------------------------------------------------------
(* The types.                                                              *)

\* What this module adds to the types of RunLifecycle.
RowTypes ==
  /\ execFence \in Nat
  /\ execExpiry \in {"none", "future", "held", "past"}
  /\ execFence = 0 <=> execExpiry = "none"
  /\ reissued \in BOOLEAN
  /\ forfeited \in BOOLEAN
  /\ execFence # 0 => forfeited = FALSE
HostTypes ==
  /\ stopping \in BOOLEAN
  /\ power \in {"running", "suspending", "off"}
  /\ halting \in {"no", "claimed", "deleted"}
  /\ turns \in 0..MaxTurns
LocalTypes ==
  /\ mine \in [Slots -> Nat]
  /\ hold \in [Slots -> {"no", "held", "retained"}]
  /\ told \in [Slots -> {"none", "done", "skipped"}]
  /\ said \in {"none", "done", "skipped"}
UserTypes ==
  /\ control \in Controls
  /\ grants \in 0..MaxGrants
  /\ asked \in {"no", "free", "waiting"}
  /\ asked # "no" => control.id = 0 /\ grants < MaxGrants
  /\ pend \subseteq Releases
  /\ severed \subseteq 0..MaxGrants
ComputerTypes == RowTypes /\ HostTypes /\ LocalTypes /\ UserTypes

\* Every step keeps the types of the lease's row, stalls included.
LEMMA RowTypeStep ==
  ASSUME TypeOK, ComputerTypes, [AnyStep]_allVars
  PROVE  RowTypes'
<1> USE DEF ComputerTypes, RowTypes, LocalTypes, exec, rowHistory
<1>1. ASSUME NEW s \in Slots,
              ReadForResume(s) \/ AskForTakeover(s) \/ PauseHeld(s)
      PROVE  RowTypes'
  BY <1>1 DEF ReadForResume, AskForTakeover, PauseHeld
<1>2. ASSUME NEW s \in Slots, AcquireLease(s) PROVE RowTypes'
  <2>1. CASE Team
    <3>1. WriteLease
      BY <1>2, <2>1 DEF AcquireLease
    <3>2. /\ reissued' \in BOOLEAN /\ forfeited' \in BOOLEAN
          /\ execFence' # 0 => forfeited' = FALSE
      BY <3>1, Zenon DEF WriteLease
    <3>3. /\ execFence' = execFence + 1 /\ execExpiry' = "future"
      BY <1>2, <3>1 DEF AcquireLease, WriteLease
    <3> QED
      BY <3>2, <3>3
  <2>2. CASE ~Team
    BY <1>2, <2>2 DEF AcquireLease
  <2> QED
    BY <2>1, <2>2
<1>3. ASSUME NEW s \in Slots, LeaseCallFails(s) PROVE RowTypes'
  <2>1. CASE WriteLease
    <3>1. /\ reissued' \in BOOLEAN /\ forfeited' \in BOOLEAN
          /\ execFence' # 0 => forfeited' = FALSE
      BY <2>1, Zenon DEF WriteLease
    <3>2. /\ execFence' = execFence + 1 /\ execExpiry' = "future"
      BY <1>3, <2>1 DEF LeaseCallFails, WriteLease
    <3> QED
      BY <3>1, <3>2
  <2>2. CASE ~WriteLease
    BY <1>3, <2>2 DEF LeaseCallFails, DeleteLease
  <2> QED
    BY <2>1, <2>2
<1>4. ASSUME NEW s \in Slots, RenewBoth(s) PROVE RowTypes'
  BY <1>4 DEF RenewBoth, Owns
<1>5. ASSUME NEW s \in Slots, HoldLease(s) PROVE RowTypes'
  BY <1>5 DEF HoldLease, Owns
<1>6. ASSUME NEW s \in Slots, ReleaseLease(s) PROVE RowTypes'
  BY <1>6 DEF ReleaseLease, Forget, DeleteLease, Owns
<1>7. ASSUME NEW s \in Slots, OtherStep(s) PROVE RowTypes'
  BY <1>7 DEF OtherStep
<1>8. CASE StopAndCancel \/ Answer \/ GrantTakeover \/ OtherBotTakesOver \/
          ControlLapses \/ ReadExpiry
  BY <1>8 DEF StopAndCancel, Answer, computerVars, GrantTakeover,
     OtherBotTakesOver, ControlLapses, ReadExpiry
<1>9. CASE DeleteStopped
  BY <1>9 DEF DeleteStopped, DeleteLease
<1>10. CASE ClearAndDelete
  BY <1>10 DEF ClearAndDelete, DeleteLease
<1>11. CASE CheckTakeover
  BY <1>11 DEF CheckTakeover, DeleteLease, executionBlocksUserTakeover
<1>12. ASSUME NEW how \in {"takeover", "takeover-skipped"}, ReadRelease(how)
      PROVE  RowTypes'
  BY <1>12 DEF ReadRelease, hasActiveComputerControl
<1>13. ASSUME NEW p \in pend, FinalizeRelease(p) PROVE RowTypes'
  BY <1>13 DEF FinalizeRelease
<1>14. ASSUME NEW p \in pend, RevocationFails(p) PROVE RowTypes'
  BY <1>14 DEF RevocationFails
<1>15. CASE LeaseLapses
  BY <1>15 DEF LeaseLapses, Owns
<1>16. CASE Background
  BY <1>16 DEF Background, computerVars
<1>17. ASSUME NEW w \in Workers, LoseProcess(w) PROVE RowTypes'
  BY <1>17 DEF LoseProcess
<1>18. ASSUME NEW s \in Slots, Stall(s) PROVE RowTypes'
  BY <1>18 DEF Stall, Owns
<1>19. CASE UNCHANGED allVars
  BY <1>19 DEF allVars, vars, computerVars
<1>20. ASSUME NEW s \in Slots, AcquireRefused(s) PROVE RowTypes'
  BY <1>20 DEF AcquireRefused, DeleteLease
<1>21. ASSUME NEW s \in Slots, FinishProvision(s) PROVE RowTypes'
  BY <1>21 DEF FinishProvision
<1>22. CASE StopDeletesLease \/ LeaseTaken \/ Boot
  <2>1. Forfeit
    BY <1>22 DEF StopDeletesLease, LeaseTaken, Boot
  <2>2. forfeited' \in BOOLEAN
    BY <2>1, Zenon DEF Forfeit
  <2>3. execFence' = 0 /\ execExpiry' = "none" /\ UNCHANGED reissued
    BY <2>1 DEF Forfeit
  <2> QED
    BY <2>2, <2>3
<1>23. CASE ClaimStop \/ StopRefused \/ StopEnds \/ StopFails \/ Sleep
  BY <1>23 DEF ClaimStop, StopRefused, StopEnds, StopFails, Sleep
<1> QED
  BY <1>1, <1>2, <1>3, <1>4, <1>5, <1>6, <1>7, <1>8, <1>9, <1>10, <1>11,
     <1>12, <1>13, <1>14, <1>15, <1>16, <1>17, <1>18, <1>19, <1>20, <1>21,
     <1>22, <1>23
     DEF ComputerNext, ComputerStep, ControlStep, AnyStep, PowerStep

\* Of the locals of the slots,
LEMMA LocalTypeStep ==
  ASSUME TypeOK, ComputerTypes, [AnyStep]_allVars
  PROVE  LocalTypes'
<1> USE DEF ComputerTypes, RowTypes, LocalTypes, slotVars, exec, rowHistory
<1>1. ASSUME NEW s \in Slots,
              RenewBoth(s) \/ AskForTakeover(s)
      PROVE  LocalTypes'
  BY <1>1 DEF RenewBoth, AskForTakeover
<1>2. ASSUME NEW s \in Slots, ReadForResume(s) PROVE LocalTypes'
  BY <1>2 DEF ReadForResume
<1>3. ASSUME NEW s \in Slots, AcquireLease(s) PROVE LocalTypes'
  BY <1>3 DEF AcquireLease
<1>4. ASSUME NEW s \in Slots, LeaseCallFails(s) PROVE LocalTypes'
  BY <1>4 DEF LeaseCallFails, Forget
<1>5. ASSUME NEW s \in Slots, HoldLease(s) PROVE LocalTypes'
  BY <1>5 DEF HoldLease
<1>6. ASSUME NEW s \in Slots, PauseHeld(s) PROVE LocalTypes'
  BY <1>6 DEF PauseHeld
<1>7. ASSUME NEW s \in Slots, ReleaseLease(s) PROVE LocalTypes'
  BY <1>7 DEF ReleaseLease, Forget
<1>8. ASSUME NEW s \in Slots, OtherStep(s) PROVE LocalTypes'
  BY <1>8 DEF OtherStep, ForgetIfReturned, Forget
<1>9. CASE StopAndCancel \/ DeleteStopped \/ ClearAndDelete \/ Answer \/
          CheckTakeover \/ GrantTakeover \/ OtherBotTakesOver \/
          ControlLapses \/ ReadExpiry
  BY <1>9 DEF StopAndCancel, DeleteStopped, ClearAndDelete, Answer,
     computerVars, CheckTakeover, GrantTakeover, OtherBotTakesOver,
     ControlLapses, ReadExpiry
<1>10. ASSUME NEW how \in {"takeover", "takeover-skipped"}, ReadRelease(how)
      PROVE  LocalTypes'
  BY <1>10 DEF ReadRelease
<1>11. ASSUME NEW p \in pend, FinalizeRelease(p) PROVE LocalTypes'
  BY <1>11 DEF FinalizeRelease
<1>12. ASSUME NEW p \in pend, RevocationFails(p) PROVE LocalTypes'
  BY <1>12 DEF RevocationFails
<1>13. CASE LeaseLapses
  BY <1>13 DEF LeaseLapses
<1>14. CASE Background
  BY <1>14 DEF Background, computerVars
<1>15. ASSUME NEW w \in Workers, LoseProcess(w) PROVE LocalTypes'
  BY <1>15 DEF LoseProcess
<1>16. ASSUME NEW s \in Slots, Stall(s) PROVE LocalTypes'
  BY <1>16 DEF Stall
<1>17. CASE UNCHANGED allVars
  BY <1>17 DEF allVars, vars, computerVars
<1>18. ASSUME NEW s \in Slots, AcquireRefused(s) PROVE LocalTypes'
  BY <1>18 DEF AcquireRefused, ForgetIfReturned, Forget
<1>19. ASSUME NEW s \in Slots, FinishProvision(s) PROVE LocalTypes'
  BY <1>19 DEF FinishProvision
<1>20. CASE PowerStep
  BY <1>20 DEF PowerStep, ClaimStop, StopRefused, StopDeletesLease, StopEnds,
     StopFails, LeaseTaken, Boot, Sleep
<1> QED
  BY <1>1, <1>2, <1>3, <1>4, <1>5, <1>6, <1>7, <1>8, <1>9, <1>10, <1>11,
     <1>12, <1>13, <1>14, <1>15, <1>16, <1>17, <1>18, <1>19, <1>20
     DEF ComputerNext, ComputerStep, ControlStep, AnyStep, PowerStep

\* And of the user's control.
LEMMA UserTypeStep ==
  ASSUME TypeOK, ComputerTypes, [AnyStep]_allVars
  PROVE  UserTypes'
<1> USE ComputerAssumption
    DEF ComputerTypes, UserTypes, userVars, Controls, Releases, NoControl
<1>1. ASSUME NEW s \in Slots,
              ReadForResume(s) \/ AcquireLease(s) \/ LeaseCallFails(s) \/
              RenewBoth(s) \/ HoldLease(s) \/ PauseHeld(s) \/ ReleaseLease(s)
      PROVE  UserTypes'
  BY <1>1 DEF ReadForResume, AcquireLease, LeaseCallFails, RenewBoth,
     HoldLease, PauseHeld, ReleaseLease
<1>2. ASSUME NEW s \in Slots, AskForTakeover(s) PROVE UserTypes'
  <2>1. control' \in {control, NoControl}
    BY <1>2 DEF AskForTakeover
  <2>2. UNCHANGED <<grants, asked, pend, severed>>
    BY <1>2 DEF AskForTakeover
  <2>3. NoControl \in Controls /\ NoControl.id = 0
    OBVIOUS
  <2>4. control' \in Controls /\ (asked # "no" => control'.id = 0)
    BY <2>1, <2>3, Zenon
  <2> QED
    BY <2>2, <2>4
<1>3. ASSUME NEW s \in Slots, OtherStep(s) PROVE UserTypes'
  BY <1>3 DEF OtherStep
<1>4. CASE StopAndCancel \/ DeleteStopped \/ ClearAndDelete \/ Answer
  BY <1>4 DEF StopAndCancel, DeleteStopped, ClearAndDelete, Answer,
     computerVars
<1>5. CASE CheckTakeover
  BY <1>5 DEF CheckTakeover
<1>6. CASE GrantTakeover
  <2>1. CASE control.id = 0 /\ power = "running"
    <3>1. asked # "no" /\ grants < MaxGrants /\ grants \in Nat
      BY <1>6 DEF GrantTakeover
    <3>2. /\ grants' = grants + 1 /\ asked' = "no" /\ UNCHANGED <<pend, severed>>
          /\ control' = [id |-> grants + 1, holder |-> "user",
                         run |-> asked = "waiting", expired |-> FALSE]
      BY <1>6, <2>1 DEF GrantTakeover
    <3> QED
      BY <3>1, <3>2
  <2>2. CASE ~(control.id = 0 /\ power = "running")
    BY <1>6, <2>2 DEF GrantTakeover
  <2> QED
    BY <2>1, <2>2
<1>7. CASE OtherBotTakesOver
  <2>1. control' = NoControl /\ severed' \in {severed, severed \cup {control.id}}
    BY <1>7 DEF OtherBotTakesOver, ClearControl
  <2>2. control.id \in 0..MaxGrants /\ NoControl \in Controls
    OBVIOUS
  <2>3. severed' \subseteq 0..MaxGrants /\ control' \in Controls
    BY <2>1, <2>2
  <2> QED
    BY <1>7, <2>1, <2>3 DEF OtherBotTakesOver
<1>8. CASE ControlLapses
  BY <1>8 DEF ControlLapses
<1>9. CASE ReadExpiry
  BY <1>9 DEF ReadExpiry
<1>10. ASSUME NEW how \in {"takeover", "takeover-skipped"}, ReadRelease(how)
      PROVE  UserTypes'
  BY <1>10 DEF ReadRelease, hasActiveComputerControl
<1>11. ASSUME NEW p \in pend, FinalizeRelease(p) PROVE UserTypes'
  BY <1>11 DEF FinalizeRelease
<1>12. ASSUME NEW p \in pend, RevocationFails(p) PROVE UserTypes'
  BY <1>12 DEF RevocationFails
<1>13. CASE LeaseLapses
  BY <1>13 DEF LeaseLapses
<1>14. CASE Background
  BY <1>14 DEF Background, computerVars
<1>15. ASSUME NEW w \in Workers, LoseProcess(w) PROVE UserTypes'
  BY <1>15 DEF LoseProcess
<1>16. ASSUME NEW s \in Slots, Stall(s) PROVE UserTypes'
  BY <1>16 DEF Stall
<1>17. CASE UNCHANGED allVars
  BY <1>17 DEF allVars, vars, computerVars
<1>18. ASSUME NEW s \in Slots, AcquireRefused(s) PROVE UserTypes'
  BY <1>18 DEF AcquireRefused
<1>19. ASSUME NEW s \in Slots, FinishProvision(s) PROVE UserTypes'
  BY <1>19 DEF FinishProvision
<1>20. CASE StopEnds \/ Sleep
  <2>1. control' = NoControl /\ severed' \in {severed, severed \cup {control.id}}
    BY <1>20 DEF StopEnds, Sleep, ClearControl
  <2>2. control.id \in 0..MaxGrants /\ NoControl \in Controls
    OBVIOUS
  <2>3. severed' \subseteq 0..MaxGrants /\ control' \in Controls
    BY <2>1, <2>2
  <2>4. UNCHANGED <<grants, asked, pend>> /\ control'.id = 0
    BY <1>20, <2>1 DEF StopEnds, Sleep
  <2> QED
    BY <2>3, <2>4
<1>21. CASE ClaimStop \/ StopRefused \/ StopDeletesLease \/ StopFails \/
          LeaseTaken \/ Boot
  BY <1>21 DEF ClaimStop, StopRefused, StopDeletesLease, StopFails, LeaseTaken,
     Boot
<1> QED
  BY <1>1, <1>2, <1>3, <1>4, <1>5, <1>6, <1>7, <1>8, <1>9, <1>10, <1>11,
     <1>12, <1>13, <1>14, <1>15, <1>16, <1>17, <1>18, <1>19, <1>20, <1>21
     DEF ComputerNext, ComputerStep, ControlStep, AnyStep, PowerStep

\* And of what the API and the sleep job do to the computer.
LEMMA HostTypeStep ==
  ASSUME ComputerTypes, [AnyStep]_allVars
  PROVE  HostTypes'
<1> USE ComputerAssumption DEF ComputerTypes, HostTypes, hostVars
<1>1. ASSUME NEW s \in Slots, ComputerStep(s) PROVE HostTypes'
  BY <1>1 DEF ComputerStep, ReadForResume, AcquireLease, AcquireRefused,
     LeaseCallFails, FinishProvision, RenewBoth, AskForTakeover, HoldLease,
     PauseHeld, ReleaseLease, OtherStep
<1>2. CASE ControlStep
  BY <1>2 DEF ControlStep, StopAndCancel, DeleteStopped, ClearAndDelete, Answer,
     computerVars, CheckTakeover, GrantTakeover, OtherBotTakesOver,
     ControlLapses, ReadExpiry, ReadRelease, FinalizeRelease, RevocationFails
<1>3. CASE PowerStep
  BY <1>3 DEF PowerStep, Turn, ClaimStop, StopRefused, StopDeletesLease,
     StopEnds, StopFails, LeaseTaken, Boot, Sleep
<1>4. CASE LeaseLapses \/ Background
  BY <1>4 DEF LeaseLapses, Background, computerVars
<1>5. ASSUME NEW w \in Workers, LoseProcess(w) PROVE HostTypes'
  BY <1>5 DEF LoseProcess
<1>6. ASSUME NEW s \in Slots, Stall(s) PROVE HostTypes'
  BY <1>6 DEF Stall
<1>7. CASE UNCHANGED allVars
  BY <1>7 DEF allVars, computerVars
<1> QED
  BY <1>1, <1>2, <1>3, <1>4, <1>5, <1>6, <1>7 DEF AnyStep, ComputerNext

-----------------------------------------------------------------------------
(* The invariant.                                                          *)

\* A slot that has claimed the run and has neither parked nor lost it: its
\* lease is renewed.  Where no holder stalls nobody takes the run from it, so
\* it alone has it.
Tending == Starting \cup Beating
SoleTender ==
  status \notin Terminal =>
    \A s \in Slots :
      pc[s] \in Tending =>
        /\ Matches(s) /\ leaseExpiresAt = "future" /\ sawExpired = {}
        /\ status = IF pc[s] \in {"reread", "start"} THEN "leased"
                                                     ELSE "running"
        /\ \A t \in Slots \ {s} : pc[t] \notin Tending

\* The locals of a slot, by where it is.
LeaseInHand ==
  \A s \in Slots :
    /\ Team /\ pc[s] \in {"attempt"} \cup Attempting => mine[s] # 0
    /\ pc[s] \in Unclaimed \cup {"reread", "start", "target", "requeued"} =>
         mine[s] = 0
    /\ pc[s] \in Unclaimed \cup Starting \cup {"setup", "work"} =>
         hold[s] = "no"

\* Unless a fence was given out again, a row belongs to one slot.
OneOwner ==
  ~reissued =>
    \A s, t \in Slots : mine[s] = mine[t] /\ mine[s] # 0 => s = t

Stopped == stopping => status = "cancelled"

\* Between the hold and the pause the row is there.
HeldIsOwned ==
  Team /\ ~reissued /\ ~forfeited /\ status = "running" =>
    \A s \in Slots : pc[s] = "pauseTakeover" /\ hold[s] = "held" => Owns(s)

\* While the run waits, a slot on its way out that owns the row retains it.
OwnerRetains ==
  Team /\ ~reissued /\ status = "waiting_takeover" =>
    \A s \in Slots : Owns(s) => hold[s] = "retained"

RowRetained == OwnerRetains /\ HeldForTakeover

ComputerInd ==
  /\ IInv /\ ComputerTypes
  /\ SoleTender /\ LeaseInHand /\ OneOwner /\ Stopped
  /\ HeldIsOwned /\ RowRetained

\* Only the slot that tends the run takes it out of its hands.
LEMMA TenderStep ==
  ASSUME TypeOK, ComputerTypes, SoleTender, [ComputerNext]_allVars
  PROVE  SoleTender'
<1> USE WorkerAssumption
    DEF TypeOK, SoleTender, Tending, Matches, vars, row, queue, local,
        history, bounds
<1> USE DEF Places, Unclaimed, Starting, Attempting, Committing, Beating,
            Leaving, RunStatus, Active, Parked, Held, Terminal
<1>1. ASSUME NEW s \in Slots,
              HoldLease(s)
      PROVE  SoleTender'
  BY <1>1 DEF HoldLease
<1>2. ASSUME NEW s \in Slots, ReadForResume(s) PROVE SoleTender'
  BY <1>2 DEF ReadForResume, ReadRun, Return, Goto
<1>3. ASSUME NEW s \in Slots, AcquireLease(s) PROVE SoleTender'
  BY <1>3 DEF AcquireLease, AcquireComputer, Goto, KeepLocals
<1>4. ASSUME NEW s \in Slots, LeaseCallFails(s) PROVE SoleTender'
  BY <1>4 DEF LeaseCallFails, CallFails, Fault, Return, Goto
<1>5. ASSUME NEW s \in Slots, RenewBoth(s) PROVE SoleTender'
  BY <1>5 DEF RenewBoth, Heartbeat, Abort, Renew, Holds
<1>6. ASSUME NEW s \in Slots, AskForTakeover(s) PROVE SoleTender'
  BY <1>6 DEF AskForTakeover, RequestTakeover, Pause, RenewFor, Renew, Goto,
     Holds
<1>7. ASSUME NEW s \in Slots, PauseHeld(s) PROVE SoleTender'
  BY <1>7 DEF PauseHeld, PauseRunForTakeover, Commit, Park, Goto, Holds
<1>8. ASSUME NEW s \in Slots, ReleaseLease(s) PROVE SoleTender'
  BY <1>8 DEF ReleaseLease, Finally, Return, Goto
<1>9. ASSUME NEW s \in Slots, PickJob(s), Apart(s) PROVE SoleTender'
  BY <1>9 DEF PickJob, Goto, Apart
<1>10. ASSUME NEW s \in Slots, ClaimRun(s), Apart(s) PROVE SoleTender'
  <2>1. CASE Claimable(s)
    <3>1. status \notin Terminal
      BY <2>1 DEF Claimable
    <3>2. \A t \in Slots : pc[t] \notin Tending
      BY <2>1, <3>1 DEF Claimable
    <3>3. /\ status' = "leased" /\ leaseOwner' = WorkerOf[s]
          /\ leaseFence' = fence[s] /\ leaseExpiresAt' = "future"
          /\ sawExpired' = {} /\ UNCHANGED fence
          /\ pc' = [pc EXCEPT ![s] = "reread"]
      BY <1>10, <2>1 DEF ClaimRun, Goto
    <3> QED
      BY <3>2, <3>3
  <2>2. CASE ~Claimable(s)
    <3>1. /\ UNCHANGED <<row, regressed>> /\ Return(s)
      BY <1>10, <2>2 DEF ClaimRun
    <3> QED
      BY <1>10, <3>1 DEF Return, Goto, ClaimRun
  <2> QED
    BY <2>1, <2>2
<1>11. ASSUME NEW s \in Slots, RereadRun(s), Apart(s) PROVE SoleTender'
  BY <1>11 DEF RereadRun, Return, Goto, KeepLocals, Apart
<1>12. ASSUME NEW s \in Slots, StartRun(s), Apart(s) PROVE SoleTender'
  BY <1>12 DEF StartRun, Return, Goto, KeepLocals, Apart
<1>13. ASSUME NEW s \in Slots, EnqueueRetry(s), Apart(s) PROVE SoleTender'
  BY <1>13 DEF EnqueueRetry, Return, Goto, Apart
<1>14. ASSUME NEW s \in Slots, CreateAttempt(s), Apart(s) PROVE SoleTender'
  BY <1>14 DEF CreateAttempt, Goto, Apart
<1>15. ASSUME NEW s \in Slots, FinishProvision(s) PROVE SoleTender'
  BY <1>15 DEF FinishProvision, FinishSetup, Goto, KeepLocals
<1>16. ASSUME NEW s \in Slots, RequeueFailedSetup(s), Apart(s) PROVE SoleTender'
  BY <1>16 DEF RequeueFailedSetup, Goto, Park, Holds, Apart
<1>17. ASSUME NEW s \in Slots, LeaveLostLease(s), Apart(s) PROVE SoleTender'
  BY <1>17 DEF LeaveLostLease, Goto, KeepLocals, Apart
<1>18. ASSUME NEW s \in Slots, PauseRunForInput(s), Apart(s) PROVE SoleTender'
  BY <1>18 DEF PauseRunForInput, Commit, Goto, Park, Holds, Apart
<1>19. ASSUME NEW s \in Slots, FinalizeCompleted(s), Apart(s) PROVE SoleTender'
  BY <1>19 DEF FinalizeCompleted, FinalizeRun, Commit, Goto, Park, Holds, Apart
<1>20. ASSUME NEW s \in Slots, FinalizeFailed(s), Apart(s) PROVE SoleTender'
  BY <1>20 DEF FinalizeFailed, FinalizeRun, Commit, Goto, Park, Holds, Apart
<1>21. ASSUME NEW s \in Slots, AskUser(s), Apart(s) PROVE SoleTender'
  BY <1>21 DEF AskUser, Pause, RenewFor, Renew, Goto, Holds, Apart
<1>22. ASSUME NEW s \in Slots, FinishTurn(s), Apart(s) PROVE SoleTender'
  BY <1>22 DEF FinishTurn, RenewFor, Renew, Goto, Holds, Apart
<1>23. ASSUME NEW s \in Slots, WorkFails(s), Apart(s) PROVE SoleTender'
  BY <1>23 DEF WorkFails, Goto, KeepLocals, Apart
<1>24. ASSUME NEW s \in Slots, PollRow(s), Apart(s) PROVE SoleTender'
  BY <1>24 DEF PollRow, Goto, Apart
<1>25. ASSUME NEW s \in Slots, RequeueBusy(s), Apart(s) PROVE SoleTender'
  BY <1>25 DEF RequeueBusy, Fault, Park, Goto, KeepLocals, Return, Holds, Apart
<1>26. ASSUME NEW s \in Slots, SetupFails(s), Apart(s) PROVE SoleTender'
  BY <1>26 DEF SetupFails, Fault, Goto, KeepLocals, Apart
<1>27. ASSUME NEW s \in Slots, HeartbeatFails(s), Apart(s) PROVE SoleTender'
  BY <1>27 DEF HeartbeatFails, Abort, Renew, Holds, Fault, Apart
<1>28. CASE DeleteStopped \/ CheckTakeover \/ GrantTakeover \/
          OtherBotTakesOver \/ ControlLapses \/ ReadExpiry
  BY <1>28 DEF DeleteStopped, CheckTakeover, GrantTakeover, OtherBotTakesOver,
     ControlLapses, ReadExpiry
<1>29. CASE StopAndCancel
  BY <1>29 DEF StopAndCancel, StopRun
<1>30. CASE ClearAndDelete
  BY <1>30 DEF ClearAndDelete, ClearThread, Park
<1>31. CASE Answer
  BY <1>31 DEF Answer, AnswerRunInput, Enqueued, computerVars
<1>32. ASSUME NEW how \in {"takeover", "takeover-skipped"}, ReadRelease(how)
      PROVE  SoleTender'
  BY <1>32 DEF ReadRelease, hasActiveComputerControl
<1>33. ASSUME NEW p \in pend, FinalizeRelease(p) PROVE SoleTender'
  BY <1>33 DEF FinalizeRelease, ReleaseTakeover, Enqueued
<1>34. ASSUME NEW p \in pend, RevocationFails(p) PROVE SoleTender'
  BY <1>34 DEF RevocationFails, Fault
<1>35. CASE LeaseLapses
  BY <1>35 DEF LeaseLapses
<1>36. CASE Background
  BY <1>36 DEF Background, LeaseExpires, Tended, Lapse, ReconcileScan,
     ReconcileEnqueue, computerVars
<1>37. ASSUME NEW w \in Workers, LoseProcess(w) PROVE SoleTender'
  BY <1>37 DEF LoseProcess, Crash, Fault
<1>38. CASE UNCHANGED allVars
  BY <1>38 DEF allVars, computerVars
<1>39. ASSUME NEW s \in Slots, AcquireRefused(s) PROVE SoleTender'
  BY <1>39 DEF AcquireRefused, RequeueBusy, Fault, Park, Goto,
     KeepLocals, Return, Holds
<1>40. CASE PowerStep
  BY <1>40 DEF PowerStep, ClaimStop, StopRefused, StopDeletesLease, StopEnds,
     StopFails, LeaseTaken, Boot, Sleep, Fault
<1> QED
  BY <1>1, <1>2, <1>3, <1>4, <1>5, <1>6, <1>7, <1>8, <1>9, <1>10, <1>11,
     <1>12, <1>13, <1>14, <1>15, <1>16, <1>17, <1>18, <1>19, <1>20, <1>21,
     <1>22, <1>23, <1>24, <1>25, <1>26, <1>27, <1>28, <1>29, <1>30, <1>31,
     <1>32, <1>33, <1>34, <1>35, <1>36, <1>37, <1>38, <1>39, <1>40
     DEF ComputerNext, ComputerStep, ControlStep, OtherStep, Apart, PowerStep

\* The locals follow the slot.
LEMMA InHandStep ==
  ASSUME TypeOK, ComputerTypes, LeaseInHand, [ComputerNext]_allVars
  PROVE  LeaseInHand'
<1> USE DEF TypeOK, ComputerTypes, LocalTypes, RowTypes, LeaseInHand, vars, row,
            queue, local, slotVars, exec, rowHistory
<1> USE DEF Places, Unclaimed, Starting, Attempting, Committing, Beating,
            Leaving
<1>1. ASSUME NEW s \in Slots,
              RenewBoth(s)
      PROVE  LeaseInHand'
  BY <1>1 DEF RenewBoth, Heartbeat, Abort, Owns
<1>2. ASSUME NEW s \in Slots, ReadForResume(s) PROVE LeaseInHand'
  BY <1>2 DEF ReadForResume, ReadRun, Return, Goto
<1>3. ASSUME NEW s \in Slots, AcquireLease(s) PROVE LeaseInHand'
  BY <1>3 DEF AcquireLease, AcquireComputer, Goto, KeepLocals
<1>4. ASSUME NEW s \in Slots, LeaseCallFails(s) PROVE LeaseInHand'
  BY <1>4 DEF LeaseCallFails, CallFails, Fault, Return, Goto, Forget, Owns
<1>5. ASSUME NEW s \in Slots, AskForTakeover(s) PROVE LeaseInHand'
  BY <1>5 DEF AskForTakeover, RequestTakeover, Pause, RenewFor, Goto
<1>6. ASSUME NEW s \in Slots, HoldLease(s) PROVE LeaseInHand'
  BY <1>6 DEF HoldLease, Owns
<1>7. ASSUME NEW s \in Slots, PauseHeld(s) PROVE LeaseInHand'
  BY <1>7 DEF PauseHeld, PauseRunForTakeover, Commit, Goto
<1>8. ASSUME NEW s \in Slots, ReleaseLease(s) PROVE LeaseInHand'
  BY <1>8 DEF ReleaseLease, Finally, Return, Goto, Forget, Owns
<1>9. ASSUME NEW s \in Slots, PickJob(s), Apart(s) PROVE LeaseInHand'
  BY <1>9 DEF PickJob, Goto, Apart, ForgetIfReturned, Forget
<1>10. ASSUME NEW s \in Slots, ClaimRun(s), Apart(s) PROVE LeaseInHand'
  <2>1. CASE Claimable(s)
    <3>1. pc[s] = "claim" /\ pc' = [pc EXCEPT ![s] = "reread"]
      BY <1>10, <2>1 DEF ClaimRun, Goto
    <3>2. UNCHANGED <<mine, hold>>
      BY <1>10, <3>1 DEF Apart, ForgetIfReturned
    <3> QED
      BY <3>1, <3>2
  <2>2. CASE ~Claimable(s)
    <3>1. Return(s)
      BY <1>10, <2>2 DEF ClaimRun
    <3>2. pc' = [pc EXCEPT ![s] = "idle"] /\ Forget(s)
      BY <1>10, <3>1 DEF Return, Goto, Apart, ForgetIfReturned
    <3> QED
      BY <3>2 DEF Forget
  <2> QED
    BY <2>1, <2>2
<1>11. ASSUME NEW s \in Slots, RereadRun(s), Apart(s) PROVE LeaseInHand'
  BY <1>11 DEF RereadRun, Return, Goto, KeepLocals, Apart, ForgetIfReturned,
     Forget
<1>12. ASSUME NEW s \in Slots, StartRun(s), Apart(s) PROVE LeaseInHand'
  BY <1>12 DEF StartRun, Return, Goto, KeepLocals, Apart, ForgetIfReturned,
     Forget
<1>13. ASSUME NEW s \in Slots, EnqueueRetry(s), Apart(s) PROVE LeaseInHand'
  BY <1>13 DEF EnqueueRetry, Return, Goto, Apart, ForgetIfReturned, Forget
<1>14. ASSUME NEW s \in Slots, CreateAttempt(s), Apart(s) PROVE LeaseInHand'
  BY <1>14 DEF CreateAttempt, Goto, Apart, ForgetIfReturned, Forget
<1>15. ASSUME NEW s \in Slots, FinishProvision(s) PROVE LeaseInHand'
  BY <1>15 DEF FinishProvision, FinishSetup, Goto, KeepLocals
<1>16. ASSUME NEW s \in Slots, RequeueFailedSetup(s), Apart(s)
      PROVE  LeaseInHand'
  BY <1>16 DEF RequeueFailedSetup, Goto, Apart, ForgetIfReturned, Forget
<1>17. ASSUME NEW s \in Slots, LeaveLostLease(s), Apart(s) PROVE LeaseInHand'
  BY <1>17 DEF LeaveLostLease, Goto, KeepLocals, Apart, ForgetIfReturned,
     Forget
<1>18. ASSUME NEW s \in Slots, PauseRunForInput(s), Apart(s) PROVE LeaseInHand'
  BY <1>18 DEF PauseRunForInput, Commit, Goto, Apart, ForgetIfReturned, Forget
<1>19. ASSUME NEW s \in Slots, FinalizeCompleted(s), Apart(s) PROVE LeaseInHand'
  BY <1>19 DEF FinalizeCompleted, FinalizeRun, Commit, Goto, Apart,
     ForgetIfReturned, Forget
<1>20. ASSUME NEW s \in Slots, FinalizeFailed(s), Apart(s) PROVE LeaseInHand'
  BY <1>20 DEF FinalizeFailed, FinalizeRun, Commit, Goto, Apart,
     ForgetIfReturned, Forget
<1>21. ASSUME NEW s \in Slots, AskUser(s), Apart(s) PROVE LeaseInHand'
  BY <1>21 DEF AskUser, Pause, RenewFor, Goto, Apart, ForgetIfReturned, Forget
<1>22. ASSUME NEW s \in Slots, FinishTurn(s), Apart(s) PROVE LeaseInHand'
  BY <1>22 DEF FinishTurn, RenewFor, Goto, Apart, ForgetIfReturned, Forget
<1>23. ASSUME NEW s \in Slots, WorkFails(s), Apart(s) PROVE LeaseInHand'
  BY <1>23 DEF WorkFails, Goto, KeepLocals, Apart, ForgetIfReturned, Forget
<1>24. ASSUME NEW s \in Slots, PollRow(s), Apart(s) PROVE LeaseInHand'
  BY <1>24 DEF PollRow, Goto, Apart, ForgetIfReturned, Forget
<1>25. ASSUME NEW s \in Slots, RequeueBusy(s), Apart(s) PROVE LeaseInHand'
  BY <1>25 DEF RequeueBusy, Fault, Goto, KeepLocals, Return, Apart,
     ForgetIfReturned, Forget
<1>26. ASSUME NEW s \in Slots, SetupFails(s), Apart(s) PROVE LeaseInHand'
  BY <1>26 DEF SetupFails, Fault, Goto, KeepLocals, Apart, ForgetIfReturned,
     Forget
<1>27. ASSUME NEW s \in Slots, HeartbeatFails(s), Apart(s) PROVE LeaseInHand'
  BY <1>27 DEF HeartbeatFails, Abort, Fault, Apart, ForgetIfReturned, Forget
<1>28. CASE StopAndCancel \/ DeleteStopped \/ ClearAndDelete \/ Answer \/
          CheckTakeover \/ GrantTakeover \/ OtherBotTakesOver \/
          ControlLapses \/ ReadExpiry
  BY <1>28 DEF StopAndCancel, StopRun, DeleteStopped, ClearAndDelete,
     ClearThread, Answer, AnswerRunInput, Enqueued, computerVars,
     CheckTakeover, GrantTakeover, OtherBotTakesOver, ControlLapses, ReadExpiry
<1>29. ASSUME NEW how \in {"takeover", "takeover-skipped"}, ReadRelease(how)
      PROVE  LeaseInHand'
  BY <1>29 DEF ReadRelease, hasActiveComputerControl
<1>30. ASSUME NEW p \in pend, FinalizeRelease(p) PROVE LeaseInHand'
  BY <1>30 DEF FinalizeRelease, ReleaseTakeover, Enqueued
<1>31. ASSUME NEW p \in pend, RevocationFails(p) PROVE LeaseInHand'
  BY <1>31 DEF RevocationFails, Fault
<1>32. CASE LeaseLapses
  BY <1>32 DEF LeaseLapses, Owns
<1>33. CASE Background
  BY <1>33 DEF Background, LeaseExpires, Tended, Lapse, ReconcileScan,
     ReconcileEnqueue, computerVars
<1>34. ASSUME NEW w \in Workers, LoseProcess(w) PROVE LeaseInHand'
  BY <1>34 DEF LoseProcess, Crash, Fault
<1>35. CASE UNCHANGED allVars
  BY <1>35 DEF allVars, computerVars
<1>36. ASSUME NEW s \in Slots, AcquireRefused(s) PROVE LeaseInHand'
  BY <1>36 DEF AcquireRefused, RequeueBusy, Fault, Park, Goto,
     KeepLocals, Return, Holds,
     ForgetIfReturned, Forget
<1>37. CASE PowerStep
  BY <1>37 DEF PowerStep, ClaimStop, StopRefused, StopDeletesLease, StopEnds,
     StopFails, LeaseTaken, Boot, Sleep, Fault
<1> QED
  BY <1>1, <1>2, <1>3, <1>4, <1>5, <1>6, <1>7, <1>8, <1>9, <1>10, <1>11,
     <1>12, <1>13, <1>14, <1>15, <1>16, <1>17, <1>18, <1>19, <1>20, <1>21,
     <1>22, <1>23, <1>24, <1>25, <1>26, <1>27, <1>28, <1>29, <1>30, <1>31,
     <1>32, <1>33, <1>34, <1>35, <1>36, <1>37
     DEF ComputerNext, ComputerStep, ControlStep, OtherStep, Apart, PowerStep

\* A fence that is given out to a second slot is remembered as such.
LEMMA OwnerStep ==
  ASSUME TypeOK, ComputerTypes, LeaseInHand, OneOwner, [ComputerNext]_allVars
  PROVE  OneOwner'
<1> USE DEF ComputerTypes, LocalTypes, RowTypes, OneOwner, slotVars, exec,
            rowHistory
<1>1. ASSUME NEW s \in Slots,
              ReadForResume(s) \/ RenewBoth(s) \/ AskForTakeover(s) \/
              HoldLease(s) \/ PauseHeld(s)
      PROVE  OneOwner'
  BY <1>1 DEF ReadForResume, RenewBoth, Owns, AskForTakeover, HoldLease,
     PauseHeld
<1>2. ASSUME NEW s \in Slots, AcquireLease(s) PROVE OneOwner'
  BY <1>2 DEF AcquireLease, WriteLease
<1>3. ASSUME NEW s \in Slots, LeaseCallFails(s) PROVE OneOwner'
  BY <1>3 DEF LeaseCallFails, Forget, WriteLease, DeleteLease, Owns
<1>4. ASSUME NEW s \in Slots, ReleaseLease(s) PROVE OneOwner'
  BY <1>4 DEF ReleaseLease, Forget, DeleteLease, Owns
<1>5. ASSUME NEW s \in Slots, OtherStep(s) PROVE OneOwner'
  BY <1>5 DEF OtherStep, ForgetIfReturned, Forget
<1>6. CASE StopAndCancel \/ DeleteStopped \/ ClearAndDelete \/ Answer \/
          CheckTakeover \/ GrantTakeover \/ OtherBotTakesOver \/
          ControlLapses \/ ReadExpiry
  BY <1>6 DEF StopAndCancel, DeleteStopped, DeleteLease, ClearAndDelete,
     Answer, computerVars, CheckTakeover, GrantTakeover, OtherBotTakesOver,
     ControlLapses, ReadExpiry
<1>7. ASSUME NEW how \in {"takeover", "takeover-skipped"}, ReadRelease(how)
      PROVE  OneOwner'
  BY <1>7 DEF ReadRelease, hasActiveComputerControl
<1>8. ASSUME NEW p \in pend, FinalizeRelease(p) PROVE OneOwner'
  BY <1>8 DEF FinalizeRelease
<1>9. ASSUME NEW p \in pend, RevocationFails(p) PROVE OneOwner'
  BY <1>9 DEF RevocationFails
<1>10. CASE LeaseLapses
  BY <1>10 DEF LeaseLapses, Owns
<1>11. CASE Background
  BY <1>11 DEF Background, computerVars
<1>12. ASSUME NEW w \in Workers, LoseProcess(w) PROVE OneOwner'
  BY <1>12 DEF LoseProcess
<1>13. CASE UNCHANGED allVars
  BY <1>13 DEF allVars, vars, computerVars
<1>14. ASSUME NEW s \in Slots, AcquireRefused(s) PROVE OneOwner'
  BY <1>14 DEF AcquireRefused, ForgetIfReturned, Forget, DeleteLease
<1>15. ASSUME NEW s \in Slots, FinishProvision(s) PROVE OneOwner'
  BY <1>15 DEF FinishProvision
<1>16. CASE PowerStep
  BY <1>16 DEF PowerStep, ClaimStop, StopRefused, StopDeletesLease, StopEnds,
     StopFails, LeaseTaken, Boot, Sleep, Forfeit
<1> QED
  BY <1>1, <1>2, <1>3, <1>4, <1>5, <1>6, <1>7, <1>8, <1>9, <1>10, <1>11,
     <1>12, <1>13, <1>14, <1>15, <1>16
     DEF ComputerNext, ComputerStep, ControlStep, PowerStep

\* A run that is cancelled stays so.
LEMMA CancelledStays ==
  ASSUME IInv, pend \subseteq Releases, [ComputerNext]_allVars,
         status = "cancelled"
  PROVE  status' = "cancelled"
<1>1. CASE [Next]_vars
  BY <1>1, TerminalStep DEF IInv, Terminal, row
<1>2. ASSUME NEW s \in Slots, Abort(s) PROVE status' = status
  BY <1>2 DEF Abort, Renew, row
<1>3. CASE UNCHANGED row
  BY <1>3 DEF row
<1> QED
  BY <1>1, <1>2, <1>3, StepOfRun DEF AnyStep, row

\* A stop leaves the run cancelled.
LEMMA StoppedStep ==
  ASSUME IInv, pend \subseteq Releases, Stopped, [ComputerNext]_allVars
  PROVE  Stopped'
<1>1. CASE StopAndCancel
  BY <1>1 DEF StopAndCancel, StopRun, Stopped
<1>2. CASE ~StopAndCancel
  <2>1. stopping' => stopping
    BY <1>2 DEF ComputerNext, ComputerStep, ControlStep, allVars, computerVars,
       hostVars, ReadForResume, AcquireLease, AcquireRefused, LeaseCallFails,
       FinishProvision, RenewBoth, AskForTakeover, PowerStep, ClaimStop,
       StopRefused, StopDeletesLease, StopEnds, StopFails, LeaseTaken, Boot,
       Sleep, HoldLease, PauseHeld, ReleaseLease, OtherStep, DeleteStopped,
       ClearAndDelete, Answer, CheckTakeover, GrantTakeover,
       OtherBotTakesOver, ControlLapses, ReadRelease, ReadExpiry,
       FinalizeRelease, RevocationFails, LeaseLapses, Background, LoseProcess
  <2> QED
    BY <2>1, CancelledStays DEF Stopped
<1> QED
  BY <1>1, <1>2

\* From the hold to the pause nobody deletes or replaces the row.
LEMMA HeldStep ==
  ASSUME TypeOK, ComputerTypes, SoleTender, LeaseInHand,
         OneOwner, Stopped, HeldIsOwned, [ComputerNext]_allVars
  PROVE  HeldIsOwned'
<1> USE DEF RunStatus, Active, Parked, Held, TypeOK, ComputerTypes, LocalTypes,
            RowTypes, SoleTender, Tending,
            LeaseInHand, OneOwner, Stopped, HeldIsOwned, Owns, vars, row,
            queue, local, history, slotVars, exec, rowHistory
<1> USE DEF Places, Unclaimed, Starting, Attempting, Committing, Beating,
            Leaving, Terminal
<1>1. ASSUME NEW s \in Slots, ReadForResume(s) PROVE HeldIsOwned'
  BY <1>1 DEF ReadForResume, ReadRun, Return, Goto
<1>2. ASSUME NEW s \in Slots, AcquireLease(s) PROVE HeldIsOwned'
  BY <1>2 DEF AcquireLease, AcquireComputer, WriteLease, Goto, KeepLocals
<1>3. ASSUME NEW s \in Slots, LeaseCallFails(s) PROVE HeldIsOwned'
  BY <1>3 DEF LeaseCallFails, CallFails, Fault, Return, Goto, Forget,
     WriteLease, DeleteLease, Owns
<1>4. ASSUME NEW s \in Slots, RenewBoth(s) PROVE HeldIsOwned'
  BY <1>4 DEF RenewBoth, Heartbeat, Abort, Renew, Holds, Owns
<1>5. ASSUME NEW s \in Slots, AskForTakeover(s) PROVE HeldIsOwned'
  BY <1>5 DEF AskForTakeover, RequestTakeover, Pause, RenewFor, Renew, Goto,
     Holds
<1>6. ASSUME NEW s \in Slots, HoldLease(s) PROVE HeldIsOwned'
  BY <1>6 DEF HoldLease, Owns
<1>7. ASSUME NEW s \in Slots, PauseHeld(s) PROVE HeldIsOwned'
  BY <1>7 DEF PauseHeld, PauseRunForTakeover, Commit, Park, Goto, Holds
<1>8. ASSUME NEW s \in Slots, ReleaseLease(s) PROVE HeldIsOwned'
  BY <1>8 DEF ReleaseLease, Finally, Return, Goto, Forget, DeleteLease, Owns
<1>9. ASSUME NEW s \in Slots, PickJob(s), Apart(s) PROVE HeldIsOwned'
  BY <1>9 DEF PickJob, Goto, Apart, ForgetIfReturned, Forget
<1>10. ASSUME NEW s \in Slots, ClaimRun(s), Apart(s) PROVE HeldIsOwned'
  <2>1. CASE Claimable(s)
    <3>1. /\ pc[s] = "claim" /\ pc' = [pc EXCEPT ![s] = "reread"]
          /\ status' = "leased"
      BY <1>10, <2>1 DEF ClaimRun, Goto
    <3>2. UNCHANGED <<mine, hold, exec>>
      BY <1>10, <3>1 DEF Apart, ForgetIfReturned
    <3> QED
      BY <3>1, <3>2
  <2>2. CASE ~Claimable(s)
    <3>1. Return(s) /\ UNCHANGED row
      BY <1>10, <2>2 DEF ClaimRun
    <3>2. pc' = [pc EXCEPT ![s] = "idle"] /\ Forget(s) /\ UNCHANGED exec
      BY <1>10, <3>1 DEF Return, Goto, Apart, ForgetIfReturned
    <3> QED
      BY <3>1, <3>2 DEF Forget
  <2> QED
    BY <2>1, <2>2
<1>11. ASSUME NEW s \in Slots, RereadRun(s), Apart(s) PROVE HeldIsOwned'
  BY <1>11 DEF RereadRun, Return, Goto, KeepLocals, Apart, ForgetIfReturned,
     Forget
<1>12. ASSUME NEW s \in Slots, StartRun(s), Apart(s) PROVE HeldIsOwned'
  BY <1>12 DEF StartRun, Return, Goto, KeepLocals, Apart, ForgetIfReturned,
     Forget
<1>13. ASSUME NEW s \in Slots, EnqueueRetry(s), Apart(s) PROVE HeldIsOwned'
  BY <1>13 DEF EnqueueRetry, Return, Goto, Apart, ForgetIfReturned, Forget
<1>14. ASSUME NEW s \in Slots, CreateAttempt(s), Apart(s) PROVE HeldIsOwned'
  BY <1>14 DEF CreateAttempt, Goto, Apart, ForgetIfReturned, Forget
<1>15. ASSUME NEW s \in Slots, FinishProvision(s) PROVE HeldIsOwned'
  BY <1>15 DEF FinishProvision, FinishSetup, Goto, KeepLocals
<1>16. ASSUME NEW s \in Slots, RequeueFailedSetup(s), Apart(s)
      PROVE  HeldIsOwned'
  BY <1>16 DEF RequeueFailedSetup, Goto, Park, Holds, Apart, ForgetIfReturned,
     Forget
<1>17. ASSUME NEW s \in Slots, LeaveLostLease(s), Apart(s) PROVE HeldIsOwned'
  BY <1>17 DEF LeaveLostLease, Goto, KeepLocals, Apart, ForgetIfReturned,
     Forget
<1>18. ASSUME NEW s \in Slots, PauseRunForInput(s), Apart(s) PROVE HeldIsOwned'
  BY <1>18 DEF PauseRunForInput, Commit, Goto, Park, Holds, Apart,
     ForgetIfReturned, Forget
<1>19. ASSUME NEW s \in Slots, FinalizeCompleted(s), Apart(s) PROVE HeldIsOwned'
  BY <1>19 DEF FinalizeCompleted, FinalizeRun, Commit, Goto, Park, Holds,
     Apart, ForgetIfReturned, Forget
<1>20. ASSUME NEW s \in Slots, FinalizeFailed(s), Apart(s) PROVE HeldIsOwned'
  BY <1>20 DEF FinalizeFailed, FinalizeRun, Commit, Goto, Park, Holds, Apart,
     ForgetIfReturned, Forget
<1>21. ASSUME NEW s \in Slots, AskUser(s), Apart(s) PROVE HeldIsOwned'
  BY <1>21 DEF AskUser, Pause, RenewFor, Renew, Goto, Holds, Apart,
     ForgetIfReturned, Forget
<1>22. ASSUME NEW s \in Slots, FinishTurn(s), Apart(s) PROVE HeldIsOwned'
  BY <1>22 DEF FinishTurn, RenewFor, Renew, Goto, Holds, Apart,
     ForgetIfReturned, Forget
<1>23. ASSUME NEW s \in Slots, WorkFails(s), Apart(s) PROVE HeldIsOwned'
  BY <1>23 DEF WorkFails, Goto, KeepLocals, Apart, ForgetIfReturned, Forget
<1>24. ASSUME NEW s \in Slots, PollRow(s), Apart(s) PROVE HeldIsOwned'
  BY <1>24 DEF PollRow, Goto, Apart, ForgetIfReturned, Forget
<1>25. ASSUME NEW s \in Slots, RequeueBusy(s), Apart(s) PROVE HeldIsOwned'
  BY <1>25 DEF RequeueBusy, Fault, Park, Goto, KeepLocals, Return, Holds,
     Apart, ForgetIfReturned, Forget
<1>26. ASSUME NEW s \in Slots, SetupFails(s), Apart(s) PROVE HeldIsOwned'
  BY <1>26 DEF SetupFails, Fault, Goto, KeepLocals, Apart, ForgetIfReturned,
     Forget
<1>27. ASSUME NEW s \in Slots, HeartbeatFails(s), Apart(s) PROVE HeldIsOwned'
  BY <1>27 DEF HeartbeatFails, Abort, Renew, Holds, Fault, Apart,
     ForgetIfReturned, Forget
<1>28. CASE StopAndCancel \/ Answer \/ GrantTakeover \/ OtherBotTakesOver \/
          ControlLapses \/ ReadExpiry
  BY <1>28 DEF StopAndCancel, StopRun, Answer, AnswerRunInput, Enqueued,
     computerVars, GrantTakeover, OtherBotTakesOver, ControlLapses, ReadExpiry
<1>29. CASE DeleteStopped
  BY <1>29 DEF DeleteStopped, DeleteLease
<1>30. CASE ClearAndDelete
  BY <1>30 DEF ClearAndDelete, ClearThread, Park, DeleteLease
<1>31. CASE CheckTakeover
  BY <1>31 DEF CheckTakeover, DeleteLease, executionBlocksUserTakeover
<1>32. ASSUME NEW how \in {"takeover", "takeover-skipped"}, ReadRelease(how)
      PROVE  HeldIsOwned'
  BY <1>32 DEF ReadRelease, hasActiveComputerControl
<1>33. ASSUME NEW p \in pend, FinalizeRelease(p) PROVE HeldIsOwned'
  BY <1>33 DEF FinalizeRelease, ReleaseTakeover, Enqueued
<1>34. ASSUME NEW p \in pend, RevocationFails(p) PROVE HeldIsOwned'
  BY <1>34 DEF RevocationFails, Fault
<1>35. CASE LeaseLapses
  BY <1>35 DEF LeaseLapses, Owns
<1>36. CASE Background
  BY <1>36 DEF Background, LeaseExpires, Tended, Lapse, ReconcileScan,
     ReconcileEnqueue, computerVars
<1>37. ASSUME NEW w \in Workers, LoseProcess(w) PROVE HeldIsOwned'
  BY <1>37 DEF LoseProcess, Crash, Fault
<1>38. CASE UNCHANGED allVars
  BY <1>38 DEF allVars, vars, computerVars
<1>39. ASSUME NEW s \in Slots, AcquireRefused(s) PROVE HeldIsOwned'
  BY <1>39 DEF AcquireRefused, RequeueBusy, Fault, Park, Goto,
     KeepLocals, Return, Holds,
     ForgetIfReturned, Forget, DeleteLease
<1>40. CASE PowerStep
  BY <1>40 DEF PowerStep, ClaimStop, StopRefused, StopDeletesLease, StopEnds,
     StopFails, LeaseTaken, Boot, Sleep,
     Fault, Forfeit
<1> QED
  BY <1>1, <1>2, <1>3, <1>4, <1>5, <1>6, <1>7, <1>8, <1>9, <1>10, <1>11,
     <1>12, <1>13, <1>14, <1>15, <1>16, <1>17, <1>18, <1>19, <1>20, <1>21,
     <1>22, <1>23, <1>24, <1>25, <1>26, <1>27, <1>28, <1>29, <1>30, <1>31,
     <1>32, <1>33, <1>34, <1>35, <1>36, <1>37, <1>38, <1>39, <1>40
     DEF ComputerNext, ComputerStep, ControlStep, OtherStep, Apart, PowerStep

\* While the run waits the row stays.
LEMMA WaitStep ==
  ASSUME TypeOK, ComputerTypes, SoleTender, LeaseInHand, OneOwner,
         Stopped, HeldIsOwned, RowRetained, [ComputerNext]_allVars
  PROVE  RowRetained'
<1> USE DEF RunStatus, Active, Parked, Held, TypeOK, ComputerTypes, LocalTypes,
            RowTypes, SoleTender, Tending,
            LeaseInHand, OneOwner, Stopped, HeldIsOwned, Owns, vars, row,
            queue, local, history, slotVars, exec, rowHistory
<1> USE DEF Places, Unclaimed, Starting, Attempting, Committing, Beating,
            Leaving, Terminal
<1> USE DEF RowRetained, OwnerRetains, HeldForTakeover
<1>1. ASSUME NEW s \in Slots, ReadForResume(s) PROVE RowRetained'
  BY <1>1 DEF ReadForResume, ReadRun, Return, Goto
<1>2. ASSUME NEW s \in Slots, AcquireLease(s) PROVE RowRetained'
  BY <1>2 DEF AcquireLease, AcquireComputer, WriteLease, Goto, KeepLocals
<1>3. ASSUME NEW s \in Slots, LeaseCallFails(s) PROVE RowRetained'
  BY <1>3 DEF LeaseCallFails, CallFails, Fault, Return, Goto, Forget,
     WriteLease, DeleteLease, Owns
<1>4. ASSUME NEW s \in Slots, RenewBoth(s) PROVE RowRetained'
  BY <1>4 DEF RenewBoth, Heartbeat, Abort, Renew, Holds, Owns
<1>5. ASSUME NEW s \in Slots, AskForTakeover(s) PROVE RowRetained'
  BY <1>5 DEF AskForTakeover, RequestTakeover, Pause, RenewFor, Renew, Goto,
     Holds
<1>6. ASSUME NEW s \in Slots, HoldLease(s) PROVE RowRetained'
  BY <1>6 DEF HoldLease, Owns
<1>7. ASSUME NEW s \in Slots, PauseHeld(s) PROVE RowRetained'
  BY <1>7 DEF PauseHeld, PauseRunForTakeover, Commit, Park, Goto, Holds
<1>8. ASSUME NEW s \in Slots, ReleaseLease(s) PROVE RowRetained'
  BY <1>8 DEF ReleaseLease, Finally, Return, Goto, Forget, DeleteLease, Owns
<1>9. ASSUME NEW s \in Slots, PickJob(s), Apart(s) PROVE RowRetained'
  BY <1>9 DEF PickJob, Goto, Apart, ForgetIfReturned, Forget
<1>10. ASSUME NEW s \in Slots, ClaimRun(s), Apart(s) PROVE RowRetained'
  <2>1. CASE Claimable(s)
    <3>1. /\ pc[s] = "claim" /\ pc' = [pc EXCEPT ![s] = "reread"]
          /\ status' = "leased"
      BY <1>10, <2>1 DEF ClaimRun, Goto
    <3>2. UNCHANGED <<mine, hold, exec>>
      BY <1>10, <3>1 DEF Apart, ForgetIfReturned
    <3> QED
      BY <3>1, <3>2
  <2>2. CASE ~Claimable(s)
    <3>1. Return(s) /\ UNCHANGED row
      BY <1>10, <2>2 DEF ClaimRun
    <3>2. pc' = [pc EXCEPT ![s] = "idle"] /\ Forget(s) /\ UNCHANGED exec
      BY <1>10, <3>1 DEF Return, Goto, Apart, ForgetIfReturned
    <3> QED
      BY <3>1, <3>2 DEF Forget
  <2> QED
    BY <2>1, <2>2
<1>11. ASSUME NEW s \in Slots, RereadRun(s), Apart(s) PROVE RowRetained'
  BY <1>11 DEF RereadRun, Return, Goto, KeepLocals, Apart, ForgetIfReturned,
     Forget
<1>12. ASSUME NEW s \in Slots, StartRun(s), Apart(s) PROVE RowRetained'
  BY <1>12 DEF StartRun, Return, Goto, KeepLocals, Apart, ForgetIfReturned,
     Forget
<1>13. ASSUME NEW s \in Slots, EnqueueRetry(s), Apart(s) PROVE RowRetained'
  BY <1>13 DEF EnqueueRetry, Return, Goto, Apart, ForgetIfReturned, Forget
<1>14. ASSUME NEW s \in Slots, CreateAttempt(s), Apart(s) PROVE RowRetained'
  BY <1>14 DEF CreateAttempt, Goto, Apart, ForgetIfReturned, Forget
<1>15. ASSUME NEW s \in Slots, FinishProvision(s) PROVE RowRetained'
  BY <1>15 DEF FinishProvision, FinishSetup, Goto, KeepLocals
<1>16. ASSUME NEW s \in Slots, RequeueFailedSetup(s), Apart(s)
      PROVE  RowRetained'
  BY <1>16 DEF RequeueFailedSetup, Goto, Park, Holds, Apart, ForgetIfReturned,
     Forget
<1>17. ASSUME NEW s \in Slots, LeaveLostLease(s), Apart(s) PROVE RowRetained'
  BY <1>17 DEF LeaveLostLease, Goto, KeepLocals, Apart, ForgetIfReturned,
     Forget
<1>18. ASSUME NEW s \in Slots, PauseRunForInput(s), Apart(s) PROVE RowRetained'
  BY <1>18 DEF PauseRunForInput, Commit, Goto, Park, Holds, Apart,
     ForgetIfReturned, Forget
<1>19. ASSUME NEW s \in Slots, FinalizeCompleted(s), Apart(s) PROVE RowRetained'
  BY <1>19 DEF FinalizeCompleted, FinalizeRun, Commit, Goto, Park, Holds,
     Apart, ForgetIfReturned, Forget
<1>20. ASSUME NEW s \in Slots, FinalizeFailed(s), Apart(s) PROVE RowRetained'
  BY <1>20 DEF FinalizeFailed, FinalizeRun, Commit, Goto, Park, Holds, Apart,
     ForgetIfReturned, Forget
<1>21. ASSUME NEW s \in Slots, AskUser(s), Apart(s) PROVE RowRetained'
  BY <1>21 DEF AskUser, Pause, RenewFor, Renew, Goto, Holds, Apart,
     ForgetIfReturned, Forget
<1>22. ASSUME NEW s \in Slots, FinishTurn(s), Apart(s) PROVE RowRetained'
  BY <1>22 DEF FinishTurn, RenewFor, Renew, Goto, Holds, Apart,
     ForgetIfReturned, Forget
<1>23. ASSUME NEW s \in Slots, WorkFails(s), Apart(s) PROVE RowRetained'
  BY <1>23 DEF WorkFails, Goto, KeepLocals, Apart, ForgetIfReturned, Forget
<1>24. ASSUME NEW s \in Slots, PollRow(s), Apart(s) PROVE RowRetained'
  BY <1>24 DEF PollRow, Goto, Apart, ForgetIfReturned, Forget
<1>25. ASSUME NEW s \in Slots, RequeueBusy(s), Apart(s) PROVE RowRetained'
  BY <1>25 DEF RequeueBusy, Fault, Park, Goto, KeepLocals, Return, Holds,
     Apart, ForgetIfReturned, Forget
<1>26. ASSUME NEW s \in Slots, SetupFails(s), Apart(s) PROVE RowRetained'
  BY <1>26 DEF SetupFails, Fault, Goto, KeepLocals, Apart, ForgetIfReturned,
     Forget
<1>27. ASSUME NEW s \in Slots, HeartbeatFails(s), Apart(s) PROVE RowRetained'
  BY <1>27 DEF HeartbeatFails, Abort, Renew, Holds, Fault, Apart,
     ForgetIfReturned, Forget
<1>28. CASE StopAndCancel \/ Answer \/ GrantTakeover \/ OtherBotTakesOver \/
          ControlLapses \/ ReadExpiry
  BY <1>28 DEF StopAndCancel, StopRun, Answer, AnswerRunInput, Enqueued,
     computerVars, GrantTakeover, OtherBotTakesOver, ControlLapses, ReadExpiry
<1>29. CASE DeleteStopped
  BY <1>29 DEF DeleteStopped, DeleteLease
<1>30. CASE ClearAndDelete
  BY <1>30 DEF ClearAndDelete, ClearThread, Park, DeleteLease
<1>31. CASE CheckTakeover
  BY <1>31 DEF CheckTakeover, DeleteLease, executionBlocksUserTakeover
<1>32. ASSUME NEW how \in {"takeover", "takeover-skipped"}, ReadRelease(how)
      PROVE  RowRetained'
  BY <1>32 DEF ReadRelease, hasActiveComputerControl
<1>33. ASSUME NEW p \in pend, FinalizeRelease(p) PROVE RowRetained'
  BY <1>33 DEF FinalizeRelease, ReleaseTakeover, Enqueued
<1>34. ASSUME NEW p \in pend, RevocationFails(p) PROVE RowRetained'
  BY <1>34 DEF RevocationFails, Fault
<1>35. CASE LeaseLapses
  BY <1>35 DEF LeaseLapses, Owns
<1>36. CASE Background
  BY <1>36 DEF Background, LeaseExpires, Tended, Lapse, ReconcileScan,
     ReconcileEnqueue, computerVars
<1>37. ASSUME NEW w \in Workers, LoseProcess(w) PROVE RowRetained'
  BY <1>37 DEF LoseProcess, Crash, Fault
<1>38. CASE UNCHANGED allVars
  BY <1>38 DEF allVars, vars, computerVars
<1>39. ASSUME NEW s \in Slots, AcquireRefused(s) PROVE RowRetained'
  BY <1>39 DEF AcquireRefused, RequeueBusy, Fault, Park, Goto,
     KeepLocals, Return, Holds,
     ForgetIfReturned, Forget, DeleteLease
<1>40. CASE PowerStep
  BY <1>40 DEF PowerStep, ClaimStop, StopRefused, StopDeletesLease, StopEnds,
     StopFails, LeaseTaken, Boot, Sleep,
     Fault, Forfeit
<1> QED
  BY <1>1, <1>2, <1>3, <1>4, <1>5, <1>6, <1>7, <1>8, <1>9, <1>10, <1>11,
     <1>12, <1>13, <1>14, <1>15, <1>16, <1>17, <1>18, <1>19, <1>20, <1>21,
     <1>22, <1>23, <1>24, <1>25, <1>26, <1>27, <1>28, <1>29, <1>30, <1>31,
     <1>32, <1>33, <1>34, <1>35, <1>36, <1>37, <1>38, <1>39, <1>40
     DEF ComputerNext, ComputerStep, ControlStep, OtherStep, Apart, PowerStep

-----------------------------------------------------------------------------
(* The theorems.                                                           *)

\* The types and the invariant of the run, with stalls.
LEMMA TypesKept ==
  ASSUME IInv, ComputerTypes, [AnyStep]_allVars
  PROVE  (IInv /\ ComputerTypes)'
<1>1. TypeOK /\ pend \subseteq Releases
  BY DEF IInv, ComputerTypes, UserTypes
<1> QED
  BY <1>1, RunKept, RowTypeStep, HostTypeStep, LocalTypeStep, UserTypeStep
  DEF ComputerTypes

\* The invariant of the run and its computer holds at first,
LEMMA InitComputerInd == ComputerInit => ComputerInd
<1> SUFFICES ASSUME ComputerInit PROVE ComputerInd
  OBVIOUS
<1> USE ComputerAssumption DEF ComputerInit
<1>1. IInv
  BY InitIInv
<1>2. RowTypes /\ HostTypes /\ LocalTypes
  <2>1. /\ reissued \in BOOLEAN /\ forfeited \in BOOLEAN
        /\ execFence # 0 => forfeited = FALSE
    BY Zenon
  <2>2. RowTypes
    BY <2>1 DEF RowTypes
  <2>3. HostTypes
    <3>1. turns \in 0..MaxTurns
      OBVIOUS
    <3>2. power \in {"running", "off"} /\ halting = "no" /\ stopping = FALSE
      OBVIOUS
    <3> QED
      BY <3>1, <3>2, Zenon DEF HostTypes
  <2>4. LocalTypes
    BY DEF LocalTypes
  <2> QED
    BY <2>2, <2>3, <2>4
<1>3. UserTypes
  <2>1. control \in Controls
    BY DEF Controls, NoControl
  <2>2. /\ grants \in 0..MaxGrants /\ asked = "no"
        /\ pend \subseteq Releases /\ severed \subseteq 0..MaxGrants
    OBVIOUS
  <2> QED
    BY <2>1, <2>2 DEF UserTypes
<1>4. SoleTender /\ LeaseInHand /\ HeldIsOwned
  BY DEF Init, SoleTender, LeaseInHand, HeldIsOwned, Tending, Starting,
     Beating, Attempting, Committing, Unclaimed
<1>5. OneOwner /\ Stopped /\ RowRetained
  BY DEF Init, OneOwner, Stopped, RowRetained, OwnerRetains, HeldForTakeover
<1> QED
  BY <1>1, <1>2, <1>3, <1>4, <1>5 DEF ComputerInd, ComputerTypes

\* and every step without a stall keeps it.
LEMMA NextComputerInd == ComputerInd /\ [ComputerNext]_allVars => ComputerInd'
<1> SUFFICES ASSUME ComputerInd, [ComputerNext]_allVars PROVE ComputerInd'
  OBVIOUS
<1>1. /\ IInv /\ TypeOK /\ ComputerTypes /\ pend \subseteq Releases
      /\ SoleTender /\ LeaseInHand /\ OneOwner /\ Stopped
      /\ HeldIsOwned /\ RowRetained
  BY DEF ComputerInd, IInv, ComputerTypes, UserTypes
<1>2. [AnyStep]_allVars
  BY DEF AnyStep
<1>3. (IInv /\ ComputerTypes)'
  BY <1>1, <1>2, TypesKept
<1>4. SoleTender' /\ LeaseInHand' /\ OneOwner' /\ Stopped'
  BY <1>1, TenderStep, InHandStep, OwnerStep, StoppedStep
<1>5. HeldIsOwned' /\ RowRetained'
  BY <1>1, HeldStep, WaitStep
<1> QED
  BY <1>3, <1>4, <1>5 DEF ComputerInd

\* No interleaving of the agent, the API and the timers takes a variable out of
\* its type, not even one with stalled holders.
THEOREM ComputerTypeCorrect == StallSpec => []ComputerTypeOK
<1>1. ComputerInit => IInv /\ ComputerTypes
  BY InitComputerInd DEF ComputerInd
<1>2. IInv /\ ComputerTypes /\ [AnyStep]_allVars => (IInv /\ ComputerTypes)'
  BY TypesKept
<1>3. IInv /\ ComputerTypes => ComputerTypeOK
  BY DEF IInv, ComputerTypes, RowTypes, HostTypes, LocalTypes, UserTypes,
     ComputerTypeOK
<1> QED
  BY <1>1, <1>2, <1>3, PTL DEF StallSpec, AnyStep

\* The computer's half of each handler, a renewal that is refused because the
\* computer is lost and a control whose revocation fails break nothing that is
\* promised of the run: the lease of its row follows its status, it ends once,
\* whoever commits has its attempt, and the where-clause singles out one slot,
\* though holders stall.
THEOREM RunKeepsItsPromises ==
  StallSpec => [](/\ LeaseMatchesStatus /\ OneOutcome
                  /\ AttemptAvailable /\ SoleHolder)
<1>1. ComputerInit => IInv /\ ComputerTypes
  BY InitComputerInd DEF ComputerInd
<1>2. IInv /\ ComputerTypes /\ [AnyStep]_allVars => (IInv /\ ComputerTypes)'
  BY TypesKept
<1>3. IInv => LeaseMatchesStatus /\ OneOutcome
  BY DEF IInv
<1>4. IInv => AttemptAvailable
  BY DEF IInv, AttemptsRun, AttemptAvailable, Holds, Beating, Attempting
<1>5. IInv => SoleHolder
  BY DEF IInv, FencesDistinct, SoleHolder, Matches, TypeOK
<1> QED
  BY <1>1, <1>2, <1>3, <1>4, <1>5, PTL DEF StallSpec, AnyStep

\* Nor does any of it touch the row of a run that is over.
THEOREM TerminalUntouched == StallSpec => TerminalIsFinal
<1>1. ComputerInit => IInv /\ ComputerTypes
  BY InitComputerInd DEF ComputerInd
<1>2. IInv /\ ComputerTypes /\ [AnyStep]_allVars => (IInv /\ ComputerTypes)'
  BY TypesKept
<1>3. IInv /\ ComputerTypes /\ [AnyStep]_allVars
      => [(status \in Terminal) => (row' = row)]_vars
  <2> SUFFICES ASSUME IInv, ComputerTypes, [AnyStep]_allVars,
                      status \in Terminal
               PROVE  row' = row
    OBVIOUS
  <2>1. TypeOK /\ pend \subseteq Releases
    BY DEF IInv, ComputerTypes, UserTypes
  <2>2. CASE [Next]_vars
    BY <2>1, <2>2, TerminalStep
  <2>3. ASSUME NEW s \in Slots, Abort(s) PROVE row' = row
    BY <2>3 DEF Abort, Renew, Holds, Terminal, row
  <2>4. CASE UNCHANGED row
    BY <2>4
  <2> QED
    BY <2>1, <2>2, <2>3, <2>4, StepOfRun
<1> QED
  BY <1>1, <1>2, <1>3, PTL DEF StallSpec, AnyStep, TerminalIsFinal

\* While no holder stalls, the slot that has claimed the run and has neither
\* parked it nor given it up is the only one: neither the user, a fault of a
\* renewal nor the reconciler lets a second slot in before the run is over.
THEOREM OneTender == ComputerSpec => []SoleTender
<1>1. ComputerInd => SoleTender
  BY DEF ComputerInd
<1> QED
  BY <1>1, InitComputerInd, NextComputerInd, PTL DEF ComputerSpec

\* A run that waits for the user keeps the row of its lease, whatever attempts
\* are on their way out and whatever the API does meanwhile, until its owner
\* stops the computer, or the row lapses and another takes it: the first of
\* these includes a stop between the hold and the pause.
THEOREM RowKeptForUser == ComputerSpec => []HeldForTakeover
<1>1. ComputerInd => HeldForTakeover
  BY DEF ComputerInd, RowRetained
<1> QED
  BY <1>1, InitComputerInd, NextComputerInd, PTL DEF ComputerSpec

===============================================================================
