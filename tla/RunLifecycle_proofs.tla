------------------------ MODULE RunLifecycle_proofs ------------------------
(***************************************************************************)
(* Theorems about RunLifecycle, for every set of slots and workers, every  *)
(* assignment of slots to workers, and every bound on faults and pauses.   *)
(***************************************************************************)
EXTENDS RunLifecycle, TLAPS

-----------------------------------------------------------------------------
(* The step lemmas: what each action does to one part of the invariant.    *)


\* Every step keeps every variable in its type.
LEMMA TypeStep ==
  ASSUME TypeOK, [Next]_vars
  PROVE  TypeOK'
<1> USE WorkerAssumption, BoundAssumption
    DEF TypeOK, row, queue, local, history, bounds
<1> USE DEF Places, Unclaimed, Starting, Attempting, Committing, Leaving,
            Resumes, Expiries, AttemptStatus, RunStatus, Active, Parked, Held,
            Terminal
<1>1. ASSUME NEW s \in Slots, PickJob(s) PROVE TypeOK'
  BY <1>1 DEF PickJob, Goto
<1>2. ASSUME NEW s \in Slots, ReadRun(s) PROVE TypeOK'
  BY <1>2 DEF ReadRun, Return, Goto
<1>3. ASSUME NEW s \in Slots, ClaimRun(s) PROVE TypeOK'
  <2>1. CASE Claimable(s)
    <3> USE <1>3, <2>1 DEF ClaimRun, Goto
    <3>1. /\ status' \in RunStatus /\ leaseOwner' \in Workers \cup {NoWorker}
          /\ leaseExpiresAt' \in Expiries /\ checkpoint' \in Resumes
      OBVIOUS
    <3>2. leaseFence' \in Nat /\ fence' \in [Slots -> Nat]
      OBVIOUS
    <3>3. regressed' \in BOOLEAN
      OBVIOUS
    <3>4. pc' \in [Slots -> Places]
      OBVIOUS
    <3> QED
      BY <3>1, <3>2, <3>3, <3>4
  <2>2. CASE ~Claimable(s)
    <3>1. Return(s) /\ UNCHANGED <<row, regressed, queue, outcomes, bounds>>
      BY <1>3, <2>2 DEF ClaimRun
    <3> QED
      BY <3>1 DEF Return, Goto
  <2> QED
    BY <2>1, <2>2
<1>4. ASSUME NEW s \in Slots, RereadRun(s) PROVE TypeOK'
  <2> USE <1>4 DEF RereadRun, Return, Goto, KeepLocals
  <2>1. pc' \in [Slots -> Places] /\ fence' \in [Slots -> Nat]
    OBVIOUS
  <2>2. resume' \in [Slots -> Resumes] /\ attempt' \in [Slots -> AttemptStatus]
    OBVIOUS
  <2>3. leaseValid' \in SUBSET Slots /\ sawExpired' \in SUBSET Slots
    OBVIOUS
  <2>4. job' \in BOOLEAN
    OBVIOUS
  <2> QED
    BY <2>1, <2>2, <2>3, <2>4
<1>5. ASSUME NEW s \in Slots, StartRun(s) PROVE TypeOK'
  BY <1>5 DEF StartRun, Return, Goto, KeepLocals, Matches
<1>6. ASSUME NEW s \in Slots, AcquireComputer(s) PROVE TypeOK'
  BY <1>6 DEF AcquireComputer, Goto, KeepLocals
<1>7. ASSUME NEW s \in Slots, EnqueueRetry(s) PROVE TypeOK'
  BY <1>7 DEF EnqueueRetry, Return, Goto
<1>8. ASSUME NEW s \in Slots, CreateAttempt(s) PROVE TypeOK'
  BY <1>8 DEF CreateAttempt, Goto
<1>9. ASSUME NEW s \in Slots, FinishSetup(s) PROVE TypeOK'
  BY <1>9 DEF FinishSetup, Goto, KeepLocals
<1>10. ASSUME NEW s \in Slots, RequeueFailedSetup(s) PROVE TypeOK'
  BY <1>10 DEF RequeueFailedSetup, Goto, Park, Holds, Matches
<1>11. ASSUME NEW s \in Slots, LeaveLostLease(s) PROVE TypeOK'
  BY <1>11 DEF LeaveLostLease, Goto, KeepLocals
<1>12. ASSUME NEW s \in Slots, PauseRunForInput(s) PROVE TypeOK'
  BY <1>12 DEF PauseRunForInput, Commit, Goto, Park, Holds, Matches
<1>13. ASSUME NEW s \in Slots, PauseRunForTakeover(s) PROVE TypeOK'
  BY <1>13 DEF PauseRunForTakeover, Commit, Goto, Park, Holds, Matches
<1>14. ASSUME NEW s \in Slots, FinalizeCompleted(s) PROVE TypeOK'
  BY <1>14 DEF FinalizeCompleted, FinalizeRun, Commit, Goto, Park, Holds,
     Matches
<1>15. ASSUME NEW s \in Slots, FinalizeFailed(s) PROVE TypeOK'
  BY <1>15 DEF FinalizeFailed, FinalizeRun, Commit, Goto, Park, Holds, Matches
<1>16. ASSUME NEW s \in Slots, Finally(s) PROVE TypeOK'
  BY <1>16, ZenonT(60) DEF Finally, Return, Goto
<1>17. ASSUME NEW s \in Slots, AskUser(s) PROVE TypeOK'
  BY <1>17 DEF AskUser, Pause, RenewFor, Renew, Goto, Holds, Matches
<1>18. ASSUME NEW s \in Slots, RequestTakeover(s) PROVE TypeOK'
  BY <1>18 DEF RequestTakeover, Pause, RenewFor, Renew, Goto, Holds, Matches
<1>19. ASSUME NEW s \in Slots, FinishTurn(s) PROVE TypeOK'
  BY <1>19 DEF FinishTurn, RenewFor, Renew, Goto, Holds, Matches
<1>20. ASSUME NEW s \in Slots, WorkFails(s) PROVE TypeOK'
  BY <1>20 DEF WorkFails, Goto, KeepLocals
<1>21. ASSUME NEW s \in Slots, PollRow(s) PROVE TypeOK'
  BY <1>21 DEF PollRow, Goto, Matches
<1>22. ASSUME NEW s \in Slots, Heartbeat(s) PROVE TypeOK'
  BY <1>22 DEF Heartbeat, Renew, Holds, Matches
<1>23. ASSUME NEW s \in Slots, RequeueBusy(s) PROVE TypeOK'
  BY <1>23 DEF RequeueBusy, Fault, Park, Goto, KeepLocals, Return, Holds,
     Matches
<1>24. ASSUME NEW s \in Slots, CallFails(s) PROVE TypeOK'
  BY <1>24 DEF CallFails, Fault, Return, Goto
<1>25. ASSUME NEW s \in Slots, SetupFails(s) PROVE TypeOK'
  BY <1>25 DEF SetupFails, Fault, Goto, KeepLocals
<1>26. ASSUME NEW s \in Slots, HeartbeatFails(s) PROVE TypeOK'
  BY <1>26 DEF HeartbeatFails, Abort, Renew, Holds, Matches, Fault
<1>27. CASE AnswerRunInput
  BY <1>27 DEF AnswerRunInput, Enqueued
<1>28. ASSUME NEW how \in {"takeover", "takeover-skipped"}, ReleaseTakeover(how)
      PROVE  TypeOK'
  BY <1>28 DEF ReleaseTakeover, Enqueued
<1>29. CASE StopRun
  BY <1>29 DEF StopRun
<1>30. CASE ClearThread
  BY <1>30 DEF ClearThread, Park
<1>31. CASE LeaseExpires
  BY <1>31 DEF LeaseExpires, Lapse
<1>32. CASE HolderStalls
  BY <1>32 DEF HolderStalls, Lapse, Fault
<1>33. CASE ReconcileScan
  BY <1>33 DEF ReconcileScan
<1>34. CASE ReconcileEnqueue
  BY <1>34 DEF ReconcileEnqueue
<1>35. ASSUME NEW w \in Workers, Crash(w) PROVE TypeOK'
  <2>1. pc' \in [Slots -> Places]
    BY <1>35 DEF Crash
  <2>2. fence' \in [Slots -> Nat]
    BY <1>35 DEF Crash
  <2>3. resume' \in [Slots -> Resumes]
    BY <1>35 DEF Crash
  <2>4. attempt' \in [Slots -> AttemptStatus]
    BY <1>35 DEF Crash
  <2>5. sawExpired' \in SUBSET Slots /\ leaseValid' \in SUBSET Slots
    BY <1>35 DEF Crash
  <2>6. faults' \in Nat /\ pauses' \in Nat
    BY <1>35 DEF Crash, Fault
  <2> QED
    BY <1>35, <2>1, <2>2, <2>3, <2>4, <2>5, <2>6 DEF Crash
<1>36. CASE UNCHANGED vars
  BY <1>36 DEF vars
<1> QED
  BY <1>1, <1>2, <1>3, <1>4, <1>5, <1>6, <1>7, <1>8, <1>9, <1>10,
     <1>11, <1>12, <1>13, <1>14, <1>15, <1>16, <1>17, <1>18, <1>19, <1>20,
     <1>21, <1>22, <1>23, <1>24, <1>25, <1>26, <1>27, <1>28, <1>29, <1>30,
     <1>31, <1>32, <1>33, <1>34, <1>35, <1>36
     DEF Next, Advance, Agent, Disturb, User

\* Every step keeps owner and expiry in line with the status.
LEMMA LeaseStep ==
  ASSUME TypeOK, LeaseMatchesStatus, [Next]_vars
  PROVE  LeaseMatchesStatus'
<1> USE WorkerAssumption
    DEF TypeOK, LeaseMatchesStatus, row, queue, local, history, bounds
<1> USE DEF RunStatus, Active, Parked, Held, Terminal
<1>1. ASSUME NEW s \in Slots, PickJob(s) PROVE LeaseMatchesStatus'
  BY <1>1 DEF PickJob, Goto
<1>2. ASSUME NEW s \in Slots, ReadRun(s) PROVE LeaseMatchesStatus'
  BY <1>2 DEF ReadRun, Return, Goto
<1>3. ASSUME NEW s \in Slots, ClaimRun(s) PROVE LeaseMatchesStatus'
  <2>1. CASE Claimable(s)
    <3>1. status' = "leased" /\ leaseOwner' = WorkerOf[s] /\ leaseExpiresAt' = "future"
      BY <1>3, <2>1 DEF ClaimRun
    <3> QED
      BY <3>1
  <2>2. CASE ~Claimable(s)
    <3>1. UNCHANGED row
      BY <1>3, <2>2 DEF ClaimRun
    <3> QED
      BY <3>1
  <2> QED
    BY <2>1, <2>2
<1>4. ASSUME NEW s \in Slots, RereadRun(s) PROVE LeaseMatchesStatus'
  BY <1>4 DEF RereadRun, Return, Goto, KeepLocals
<1>5. ASSUME NEW s \in Slots, StartRun(s) PROVE LeaseMatchesStatus'
  BY <1>5 DEF StartRun, Return, Goto, KeepLocals, Matches
<1>6. ASSUME NEW s \in Slots, AcquireComputer(s) PROVE LeaseMatchesStatus'
  BY <1>6 DEF AcquireComputer, Goto, KeepLocals
<1>7. ASSUME NEW s \in Slots, EnqueueRetry(s) PROVE LeaseMatchesStatus'
  BY <1>7 DEF EnqueueRetry, Return, Goto
<1>8. ASSUME NEW s \in Slots, CreateAttempt(s) PROVE LeaseMatchesStatus'
  BY <1>8 DEF CreateAttempt, Goto
<1>9. ASSUME NEW s \in Slots, FinishSetup(s) PROVE LeaseMatchesStatus'
  BY <1>9 DEF FinishSetup, Goto, KeepLocals
<1>10. ASSUME NEW s \in Slots, RequeueFailedSetup(s) PROVE LeaseMatchesStatus'
  BY <1>10 DEF RequeueFailedSetup, Goto, Park, Holds, Matches
<1>11. ASSUME NEW s \in Slots, LeaveLostLease(s) PROVE LeaseMatchesStatus'
  BY <1>11 DEF LeaveLostLease, Goto, KeepLocals
<1>12. ASSUME NEW s \in Slots, PauseRunForInput(s) PROVE LeaseMatchesStatus'
  BY <1>12 DEF PauseRunForInput, Commit, Goto, Park, Holds, Matches
<1>13. ASSUME NEW s \in Slots, PauseRunForTakeover(s) PROVE LeaseMatchesStatus'
  BY <1>13 DEF PauseRunForTakeover, Commit, Goto, Park, Holds, Matches
<1>14. ASSUME NEW s \in Slots, FinalizeCompleted(s) PROVE LeaseMatchesStatus'
  BY <1>14 DEF FinalizeCompleted, FinalizeRun, Commit, Goto, Park, Holds,
     Matches
<1>15. ASSUME NEW s \in Slots, FinalizeFailed(s) PROVE LeaseMatchesStatus'
  BY <1>15 DEF FinalizeFailed, FinalizeRun, Commit, Goto, Park, Holds, Matches
<1>16. ASSUME NEW s \in Slots, Finally(s) PROVE LeaseMatchesStatus'
  BY <1>16 DEF Finally, Return, Goto
<1>17. ASSUME NEW s \in Slots, AskUser(s) PROVE LeaseMatchesStatus'
  BY <1>17 DEF AskUser, Pause, RenewFor, Renew, Goto, Holds, Matches
<1>18. ASSUME NEW s \in Slots, RequestTakeover(s) PROVE LeaseMatchesStatus'
  BY <1>18 DEF RequestTakeover, Pause, RenewFor, Renew, Goto, Holds, Matches
<1>19. ASSUME NEW s \in Slots, FinishTurn(s) PROVE LeaseMatchesStatus'
  BY <1>19 DEF FinishTurn, RenewFor, Renew, Goto, Holds, Matches
<1>20. ASSUME NEW s \in Slots, WorkFails(s) PROVE LeaseMatchesStatus'
  BY <1>20 DEF WorkFails, Goto, KeepLocals
<1>21. ASSUME NEW s \in Slots, PollRow(s) PROVE LeaseMatchesStatus'
  BY <1>21 DEF PollRow, Goto, Matches
<1>22. ASSUME NEW s \in Slots, Heartbeat(s) PROVE LeaseMatchesStatus'
  BY <1>22 DEF Heartbeat, Renew, Holds, Matches
<1>23. ASSUME NEW s \in Slots, RequeueBusy(s) PROVE LeaseMatchesStatus'
  BY <1>23 DEF RequeueBusy, Fault, Park, Goto, KeepLocals, Return, Holds,
     Matches
<1>24. ASSUME NEW s \in Slots, CallFails(s) PROVE LeaseMatchesStatus'
  BY <1>24 DEF CallFails, Fault, Return, Goto
<1>25. ASSUME NEW s \in Slots, SetupFails(s) PROVE LeaseMatchesStatus'
  BY <1>25 DEF SetupFails, Fault, Goto, KeepLocals
<1>26. ASSUME NEW s \in Slots, HeartbeatFails(s) PROVE LeaseMatchesStatus'
  BY <1>26 DEF HeartbeatFails, Abort, Renew, Holds, Matches, Fault
<1>27. CASE AnswerRunInput
  BY <1>27 DEF AnswerRunInput, Enqueued
<1>28. ASSUME NEW how \in {"takeover", "takeover-skipped"}, ReleaseTakeover(how)
      PROVE  LeaseMatchesStatus'
  BY <1>28 DEF ReleaseTakeover, Enqueued
<1>29. CASE StopRun
  BY <1>29 DEF StopRun
<1>30. CASE ClearThread
  BY <1>30 DEF ClearThread, Park
<1>31. CASE LeaseExpires
  BY <1>31 DEF LeaseExpires, Lapse
<1>32. CASE HolderStalls
  BY <1>32 DEF HolderStalls, Lapse, Fault
<1>33. CASE ReconcileScan
  BY <1>33 DEF ReconcileScan
<1>34. CASE ReconcileEnqueue
  BY <1>34 DEF ReconcileEnqueue
<1>35. ASSUME NEW w \in Workers, Crash(w) PROVE LeaseMatchesStatus'
  BY <1>35 DEF Crash, Fault
<1>36. CASE UNCHANGED vars
  BY <1>36 DEF vars
<1> QED
  BY <1>1, <1>2, <1>3, <1>4, <1>5, <1>6, <1>7, <1>8, <1>9, <1>10,
     <1>11, <1>12, <1>13, <1>14, <1>15, <1>16, <1>17, <1>18, <1>19, <1>20,
     <1>21, <1>22, <1>23, <1>24, <1>25, <1>26, <1>27, <1>28, <1>29, <1>30,
     <1>31, <1>32, <1>33, <1>34, <1>35, <1>36
     DEF Next, Advance, Agent, Disturb, User

\* An outcome is counted in the step that writes it, and never again.
LEMMA OutcomeStep ==
  ASSUME TypeOK, OneOutcome, [Next]_vars
  PROVE  OneOutcome'
<1> USE DEF TypeOK, OneOutcome, row, queue, local, history, bounds
<1> USE DEF RunStatus, Active, Parked, Held, Terminal
<1>1. ASSUME NEW s \in Slots, PickJob(s) PROVE OneOutcome'
  BY <1>1 DEF PickJob, Goto
<1>2. ASSUME NEW s \in Slots, ReadRun(s) PROVE OneOutcome'
  BY <1>2 DEF ReadRun, Return, Goto
<1>3. ASSUME NEW s \in Slots, ClaimRun(s) PROVE OneOutcome'
  BY <1>3 DEF ClaimRun, Claimable, Return, Goto
<1>4. ASSUME NEW s \in Slots, RereadRun(s) PROVE OneOutcome'
  BY <1>4 DEF RereadRun, Return, Goto, KeepLocals
<1>5. ASSUME NEW s \in Slots, StartRun(s) PROVE OneOutcome'
  BY <1>5 DEF StartRun, Return, Goto, KeepLocals, Matches
<1>6. ASSUME NEW s \in Slots, AcquireComputer(s) PROVE OneOutcome'
  BY <1>6 DEF AcquireComputer, Goto, KeepLocals
<1>7. ASSUME NEW s \in Slots, EnqueueRetry(s) PROVE OneOutcome'
  BY <1>7 DEF EnqueueRetry, Return, Goto
<1>8. ASSUME NEW s \in Slots, CreateAttempt(s) PROVE OneOutcome'
  BY <1>8 DEF CreateAttempt, Goto
<1>9. ASSUME NEW s \in Slots, FinishSetup(s) PROVE OneOutcome'
  BY <1>9 DEF FinishSetup, Goto, KeepLocals
<1>10. ASSUME NEW s \in Slots, RequeueFailedSetup(s) PROVE OneOutcome'
  BY <1>10 DEF RequeueFailedSetup, Goto, Park, Holds, Matches
<1>11. ASSUME NEW s \in Slots, LeaveLostLease(s) PROVE OneOutcome'
  BY <1>11 DEF LeaveLostLease, Goto, KeepLocals
<1>12. ASSUME NEW s \in Slots, PauseRunForInput(s) PROVE OneOutcome'
  BY <1>12 DEF PauseRunForInput, Commit, Goto, Park, Holds, Matches
<1>13. ASSUME NEW s \in Slots, PauseRunForTakeover(s) PROVE OneOutcome'
  BY <1>13 DEF PauseRunForTakeover, Commit, Goto, Park, Holds, Matches
<1>14. ASSUME NEW s \in Slots, FinalizeCompleted(s) PROVE OneOutcome'
  BY <1>14 DEF FinalizeCompleted, FinalizeRun, Commit, Goto, Park, Holds,
     Matches
<1>15. ASSUME NEW s \in Slots, FinalizeFailed(s) PROVE OneOutcome'
  BY <1>15 DEF FinalizeFailed, FinalizeRun, Commit, Goto, Park, Holds, Matches
<1>16. ASSUME NEW s \in Slots, Finally(s) PROVE OneOutcome'
  BY <1>16 DEF Finally, Return, Goto
<1>17. ASSUME NEW s \in Slots, AskUser(s) PROVE OneOutcome'
  BY <1>17 DEF AskUser, Pause, RenewFor, Renew, Goto, Holds, Matches
<1>18. ASSUME NEW s \in Slots, RequestTakeover(s) PROVE OneOutcome'
  BY <1>18 DEF RequestTakeover, Pause, RenewFor, Renew, Goto, Holds, Matches
<1>19. ASSUME NEW s \in Slots, FinishTurn(s) PROVE OneOutcome'
  BY <1>19 DEF FinishTurn, RenewFor, Renew, Goto, Holds, Matches
<1>20. ASSUME NEW s \in Slots, WorkFails(s) PROVE OneOutcome'
  BY <1>20 DEF WorkFails, Goto, KeepLocals
<1>21. ASSUME NEW s \in Slots, PollRow(s) PROVE OneOutcome'
  BY <1>21 DEF PollRow, Goto, Matches
<1>22. ASSUME NEW s \in Slots, Heartbeat(s) PROVE OneOutcome'
  BY <1>22 DEF Heartbeat, Renew, Holds, Matches
<1>23. ASSUME NEW s \in Slots, RequeueBusy(s) PROVE OneOutcome'
  BY <1>23 DEF RequeueBusy, Fault, Park, Goto, KeepLocals, Return, Holds,
     Matches
<1>24. ASSUME NEW s \in Slots, CallFails(s) PROVE OneOutcome'
  BY <1>24 DEF CallFails, Fault, Return, Goto
<1>25. ASSUME NEW s \in Slots, SetupFails(s) PROVE OneOutcome'
  BY <1>25 DEF SetupFails, Fault, Goto, KeepLocals
<1>26. ASSUME NEW s \in Slots, HeartbeatFails(s) PROVE OneOutcome'
  BY <1>26 DEF HeartbeatFails, Abort, Renew, Holds, Matches, Fault
<1>27. CASE AnswerRunInput
  BY <1>27 DEF AnswerRunInput, Enqueued
<1>28. ASSUME NEW how \in {"takeover", "takeover-skipped"}, ReleaseTakeover(how)
      PROVE  OneOutcome'
  BY <1>28 DEF ReleaseTakeover, Enqueued
<1>29. CASE StopRun
  BY <1>29 DEF StopRun
<1>30. CASE ClearThread
  BY <1>30 DEF ClearThread, Park
<1>31. CASE LeaseExpires
  BY <1>31 DEF LeaseExpires, Lapse
<1>32. CASE HolderStalls
  BY <1>32 DEF HolderStalls, Lapse, Fault
<1>33. CASE ReconcileScan
  BY <1>33 DEF ReconcileScan
<1>34. CASE ReconcileEnqueue
  BY <1>34 DEF ReconcileEnqueue
<1>35. ASSUME NEW w \in Workers, Crash(w) PROVE OneOutcome'
  BY <1>35 DEF Crash, Fault
<1>36. CASE UNCHANGED vars
  BY <1>36 DEF vars
<1> QED
  BY <1>1, <1>2, <1>3, <1>4, <1>5, <1>6, <1>7, <1>8, <1>9, <1>10,
     <1>11, <1>12, <1>13, <1>14, <1>15, <1>16, <1>17, <1>18, <1>19, <1>20,
     <1>21, <1>22, <1>23, <1>24, <1>25, <1>26, <1>27, <1>28, <1>29, <1>30,
     <1>31, <1>32, <1>33, <1>34, <1>35, <1>36
     DEF Next, Advance, Agent, Disturb, User

\* The attempt of a slot that may still commit is running.
LEMMA AttemptStep ==
  ASSUME TypeOK, AttemptsRun, [Next]_vars
  PROVE  AttemptsRun'
<1> USE DEF TypeOK, AttemptsRun, row, queue, local, history, bounds
<1> USE DEF Places, Unclaimed, Starting, Attempting, Committing, Leaving,
            Beating, RunStatus, Active, Parked, Held, Terminal
<1>1. ASSUME NEW s \in Slots, PickJob(s) PROVE AttemptsRun'
  BY <1>1 DEF PickJob, Goto
<1>2. ASSUME NEW s \in Slots, ReadRun(s) PROVE AttemptsRun'
  BY <1>2 DEF ReadRun, Return, Goto
<1>3. ASSUME NEW s \in Slots, ClaimRun(s) PROVE AttemptsRun'
  BY <1>3 DEF ClaimRun, Claimable, Return, Goto
<1>4. ASSUME NEW s \in Slots, RereadRun(s) PROVE AttemptsRun'
  BY <1>4 DEF RereadRun, Return, Goto, KeepLocals
<1>5. ASSUME NEW s \in Slots, StartRun(s) PROVE AttemptsRun'
  BY <1>5 DEF StartRun, Return, Goto, KeepLocals, Matches
<1>6. ASSUME NEW s \in Slots, AcquireComputer(s) PROVE AttemptsRun'
  BY <1>6 DEF AcquireComputer, Goto, KeepLocals
<1>7. ASSUME NEW s \in Slots, EnqueueRetry(s) PROVE AttemptsRun'
  BY <1>7 DEF EnqueueRetry, Return, Goto
<1>8. ASSUME NEW s \in Slots, CreateAttempt(s) PROVE AttemptsRun'
  BY <1>8 DEF CreateAttempt, Goto
<1>9. ASSUME NEW s \in Slots, FinishSetup(s) PROVE AttemptsRun'
  BY <1>9 DEF FinishSetup, Goto, KeepLocals
<1>10. ASSUME NEW s \in Slots, RequeueFailedSetup(s) PROVE AttemptsRun'
  BY <1>10 DEF RequeueFailedSetup, Goto, Park, Holds, Matches
<1>11. ASSUME NEW s \in Slots, LeaveLostLease(s) PROVE AttemptsRun'
  BY <1>11 DEF LeaveLostLease, Goto, KeepLocals
<1>12. ASSUME NEW s \in Slots, PauseRunForInput(s) PROVE AttemptsRun'
  BY <1>12 DEF PauseRunForInput, Commit, Goto, Park, Holds, Matches
<1>13. ASSUME NEW s \in Slots, PauseRunForTakeover(s) PROVE AttemptsRun'
  BY <1>13 DEF PauseRunForTakeover, Commit, Goto, Park, Holds, Matches
<1>14. ASSUME NEW s \in Slots, FinalizeCompleted(s) PROVE AttemptsRun'
  BY <1>14 DEF FinalizeCompleted, FinalizeRun, Commit, Goto, Park, Holds,
     Matches
<1>15. ASSUME NEW s \in Slots, FinalizeFailed(s) PROVE AttemptsRun'
  BY <1>15 DEF FinalizeFailed, FinalizeRun, Commit, Goto, Park, Holds, Matches
<1>16. ASSUME NEW s \in Slots, Finally(s) PROVE AttemptsRun'
  BY <1>16 DEF Finally, Return, Goto
<1>17. ASSUME NEW s \in Slots, AskUser(s) PROVE AttemptsRun'
  BY <1>17 DEF AskUser, Pause, RenewFor, Renew, Goto, Holds, Matches
<1>18. ASSUME NEW s \in Slots, RequestTakeover(s) PROVE AttemptsRun'
  BY <1>18 DEF RequestTakeover, Pause, RenewFor, Renew, Goto, Holds, Matches
<1>19. ASSUME NEW s \in Slots, FinishTurn(s) PROVE AttemptsRun'
  BY <1>19 DEF FinishTurn, RenewFor, Renew, Goto, Holds, Matches
<1>20. ASSUME NEW s \in Slots, WorkFails(s) PROVE AttemptsRun'
  BY <1>20 DEF WorkFails, Goto, KeepLocals
<1>21. ASSUME NEW s \in Slots, PollRow(s) PROVE AttemptsRun'
  BY <1>21 DEF PollRow, Goto, Matches
<1>22. ASSUME NEW s \in Slots, Heartbeat(s) PROVE AttemptsRun'
  BY <1>22 DEF Heartbeat, Renew, Holds, Matches
<1>23. ASSUME NEW s \in Slots, RequeueBusy(s) PROVE AttemptsRun'
  BY <1>23 DEF RequeueBusy, Fault, Park, Goto, KeepLocals, Return, Holds,
     Matches
<1>24. ASSUME NEW s \in Slots, CallFails(s) PROVE AttemptsRun'
  BY <1>24 DEF CallFails, Fault, Return, Goto
<1>25. ASSUME NEW s \in Slots, SetupFails(s) PROVE AttemptsRun'
  BY <1>25 DEF SetupFails, Fault, Goto, KeepLocals
<1>26. ASSUME NEW s \in Slots, HeartbeatFails(s) PROVE AttemptsRun'
  BY <1>26 DEF HeartbeatFails, Abort, Renew, Holds, Matches, Fault
<1>27. CASE AnswerRunInput
  BY <1>27 DEF AnswerRunInput, Enqueued
<1>28. ASSUME NEW how \in {"takeover", "takeover-skipped"}, ReleaseTakeover(how)
      PROVE  AttemptsRun'
  BY <1>28 DEF ReleaseTakeover, Enqueued
<1>29. CASE StopRun
  BY <1>29 DEF StopRun
<1>30. CASE ClearThread
  BY <1>30 DEF ClearThread, Park
<1>31. CASE LeaseExpires
  BY <1>31 DEF LeaseExpires, Lapse
<1>32. CASE HolderStalls
  BY <1>32 DEF HolderStalls, Lapse, Fault
<1>33. CASE ReconcileScan
  BY <1>33 DEF ReconcileScan
<1>34. CASE ReconcileEnqueue
  BY <1>34 DEF ReconcileEnqueue
<1>35. ASSUME NEW w \in Workers, Crash(w) PROVE AttemptsRun'
  BY <1>35 DEF Crash, Fault
<1>36. CASE UNCHANGED vars
  BY <1>36 DEF vars
<1> QED
  BY <1>1, <1>2, <1>3, <1>4, <1>5, <1>6, <1>7, <1>8, <1>9, <1>10,
     <1>11, <1>12, <1>13, <1>14, <1>15, <1>16, <1>17, <1>18, <1>19, <1>20,
     <1>21, <1>22, <1>23, <1>24, <1>25, <1>26, <1>27, <1>28, <1>29, <1>30,
     <1>31, <1>32, <1>33, <1>34, <1>35, <1>36
     DEF Next, Advance, Agent, Disturb, User

\* Without a regression, a claim takes a fence above all others.
LEMMA FenceStep ==
  ASSUME TypeOK, FencesDistinct, [Next]_vars
  PROVE  FencesDistinct'
<1> USE DEF TypeOK, FencesDistinct, row, queue, local, history, bounds
<1> USE DEF Places, Unclaimed, Starting, Attempting, Committing, Leaving
<1>1. ASSUME NEW s \in Slots, PickJob(s) PROVE FencesDistinct'
  BY <1>1 DEF PickJob, Goto
<1>2. ASSUME NEW s \in Slots, ReadRun(s) PROVE FencesDistinct'
  BY <1>2 DEF ReadRun, Return, Goto
<1>3. ASSUME NEW s \in Slots, ClaimRun(s) PROVE FencesDistinct'
  <2>1. CASE Claimable(s)
    <3>1. /\ leaseFence' = fence[s] /\ UNCHANGED fence /\ Goto(s, "reread")
          /\ regressed' = IF fence[s] > leaseFence THEN regressed ELSE TRUE
      BY <1>3, <2>1 DEF ClaimRun
    <3> SUFFICES ASSUME ~regressed'
                 PROVE  \A t \in Slots :
                          pc'[t] \notin Unclaimed =>
                            /\ fence'[t] <= leaseFence'
                            /\ \A u \in Slots \ {t} :
                                 pc'[u] \notin Unclaimed => fence'[u] # fence'[t]
      OBVIOUS
    <3>2. fence[s] > leaseFence /\ ~regressed
      BY <3>1
    <3>3. \A t \in Slots \ {s} : pc'[t] = pc[t]
      BY <3>1 DEF Goto
    <3>4. \A t \in Slots \ {s} : pc'[t] \notin Unclaimed => fence[t] <= leaseFence
      BY <3>2, <3>3
    <3>5. leaseFence \in Nat /\ \A t \in Slots : fence[t] \in Nat
      OBVIOUS
    <3> QED
      BY <3>1, <3>2, <3>3, <3>4, <3>5
  <2>2. CASE ~Claimable(s)
    <3>1. Return(s) /\ UNCHANGED <<row, regressed>>
      BY <1>3, <2>2 DEF ClaimRun
    <3> QED
      BY <3>1 DEF Return, Goto
  <2> QED
    BY <2>1, <2>2
<1>4. ASSUME NEW s \in Slots, RereadRun(s) PROVE FencesDistinct'
  BY <1>4 DEF RereadRun, Return, Goto, KeepLocals
<1>5. ASSUME NEW s \in Slots, StartRun(s) PROVE FencesDistinct'
  BY <1>5 DEF StartRun, Return, Goto, KeepLocals, Matches
<1>6. ASSUME NEW s \in Slots, AcquireComputer(s) PROVE FencesDistinct'
  BY <1>6 DEF AcquireComputer, Goto, KeepLocals
<1>7. ASSUME NEW s \in Slots, EnqueueRetry(s) PROVE FencesDistinct'
  BY <1>7 DEF EnqueueRetry, Return, Goto
<1>8. ASSUME NEW s \in Slots, CreateAttempt(s) PROVE FencesDistinct'
  BY <1>8 DEF CreateAttempt, Goto
<1>9. ASSUME NEW s \in Slots, FinishSetup(s) PROVE FencesDistinct'
  BY <1>9 DEF FinishSetup, Goto, KeepLocals
<1>10. ASSUME NEW s \in Slots, RequeueFailedSetup(s) PROVE FencesDistinct'
  BY <1>10 DEF RequeueFailedSetup, Goto, Park, Holds, Matches
<1>11. ASSUME NEW s \in Slots, LeaveLostLease(s) PROVE FencesDistinct'
  BY <1>11 DEF LeaveLostLease, Goto, KeepLocals
<1>12. ASSUME NEW s \in Slots, PauseRunForInput(s) PROVE FencesDistinct'
  BY <1>12 DEF PauseRunForInput, Commit, Goto, Park, Holds, Matches
<1>13. ASSUME NEW s \in Slots, PauseRunForTakeover(s) PROVE FencesDistinct'
  BY <1>13 DEF PauseRunForTakeover, Commit, Goto, Park, Holds, Matches
<1>14. ASSUME NEW s \in Slots, FinalizeCompleted(s) PROVE FencesDistinct'
  BY <1>14 DEF FinalizeCompleted, FinalizeRun, Commit, Goto, Park, Holds,
     Matches
<1>15. ASSUME NEW s \in Slots, FinalizeFailed(s) PROVE FencesDistinct'
  BY <1>15 DEF FinalizeFailed, FinalizeRun, Commit, Goto, Park, Holds, Matches
<1>16. ASSUME NEW s \in Slots, Finally(s) PROVE FencesDistinct'
  BY <1>16 DEF Finally, Return, Goto
<1>17. ASSUME NEW s \in Slots, AskUser(s) PROVE FencesDistinct'
  BY <1>17 DEF AskUser, Pause, RenewFor, Renew, Goto, Holds, Matches
<1>18. ASSUME NEW s \in Slots, RequestTakeover(s) PROVE FencesDistinct'
  BY <1>18 DEF RequestTakeover, Pause, RenewFor, Renew, Goto, Holds, Matches
<1>19. ASSUME NEW s \in Slots, FinishTurn(s) PROVE FencesDistinct'
  BY <1>19 DEF FinishTurn, RenewFor, Renew, Goto, Holds, Matches
<1>20. ASSUME NEW s \in Slots, WorkFails(s) PROVE FencesDistinct'
  BY <1>20 DEF WorkFails, Goto, KeepLocals
<1>21. ASSUME NEW s \in Slots, PollRow(s) PROVE FencesDistinct'
  BY <1>21 DEF PollRow, Goto, Matches
<1>22. ASSUME NEW s \in Slots, Heartbeat(s) PROVE FencesDistinct'
  BY <1>22 DEF Heartbeat, Renew, Holds, Matches
<1>23. ASSUME NEW s \in Slots, RequeueBusy(s) PROVE FencesDistinct'
  BY <1>23 DEF RequeueBusy, Fault, Park, Goto, KeepLocals, Return, Holds,
     Matches
<1>24. ASSUME NEW s \in Slots, CallFails(s) PROVE FencesDistinct'
  BY <1>24 DEF CallFails, Fault, Return, Goto
<1>25. ASSUME NEW s \in Slots, SetupFails(s) PROVE FencesDistinct'
  BY <1>25 DEF SetupFails, Fault, Goto, KeepLocals
<1>26. ASSUME NEW s \in Slots, HeartbeatFails(s) PROVE FencesDistinct'
  BY <1>26 DEF HeartbeatFails, Abort, Renew, Holds, Matches, Fault
<1>27. CASE AnswerRunInput
  BY <1>27 DEF AnswerRunInput, Enqueued
<1>28. ASSUME NEW how \in {"takeover", "takeover-skipped"}, ReleaseTakeover(how)
      PROVE  FencesDistinct'
  BY <1>28 DEF ReleaseTakeover, Enqueued
<1>29. CASE StopRun
  BY <1>29 DEF StopRun
<1>30. CASE ClearThread
  BY <1>30 DEF ClearThread, Park
<1>31. CASE LeaseExpires
  BY <1>31 DEF LeaseExpires, Lapse
<1>32. CASE HolderStalls
  BY <1>32 DEF HolderStalls, Lapse, Fault
<1>33. CASE ReconcileScan
  BY <1>33 DEF ReconcileScan
<1>34. CASE ReconcileEnqueue
  BY <1>34 DEF ReconcileEnqueue
<1>35. ASSUME NEW w \in Workers, Crash(w) PROVE FencesDistinct'
  BY <1>35 DEF Crash, Fault
<1>36. CASE UNCHANGED vars
  BY <1>36 DEF vars
<1> QED
  BY <1>1, <1>2, <1>3, <1>4, <1>5, <1>6, <1>7, <1>8, <1>9, <1>10,
     <1>11, <1>12, <1>13, <1>14, <1>15, <1>16, <1>17, <1>18, <1>19, <1>20,
     <1>21, <1>22, <1>23, <1>24, <1>25, <1>26, <1>27, <1>28, <1>29, <1>30,
     <1>31, <1>32, <1>33, <1>34, <1>35, <1>36
     DEF Next, Advance, Agent, Disturb, User

\* Whoever saw the lease expired computed the next fence of this very lease.
LEMMA ExpiredStep ==
  ASSUME TypeOK, ExpiredReads, [Next]_vars
  PROVE  ExpiredReads'
<1> USE DEF TypeOK, ExpiredReads, row, queue, local, history, bounds
<1> USE DEF Places, Unclaimed, Starting, Attempting, Committing, Leaving,
            Beating
<1>1. ASSUME NEW s \in Slots, PickJob(s) PROVE ExpiredReads'
  BY <1>1 DEF PickJob, Goto
<1>2. ASSUME NEW s \in Slots, ReadRun(s) PROVE ExpiredReads'
  BY <1>2 DEF ReadRun, Return, Goto
<1>3. ASSUME NEW s \in Slots, ClaimRun(s) PROVE ExpiredReads'
  BY <1>3 DEF ClaimRun, Claimable, Return, Goto
<1>4. ASSUME NEW s \in Slots, RereadRun(s) PROVE ExpiredReads'
  BY <1>4 DEF RereadRun, Return, Goto, KeepLocals
<1>5. ASSUME NEW s \in Slots, StartRun(s) PROVE ExpiredReads'
  BY <1>5 DEF StartRun, Return, Goto, KeepLocals, Matches
<1>6. ASSUME NEW s \in Slots, AcquireComputer(s) PROVE ExpiredReads'
  BY <1>6 DEF AcquireComputer, Goto, KeepLocals
<1>7. ASSUME NEW s \in Slots, EnqueueRetry(s) PROVE ExpiredReads'
  BY <1>7 DEF EnqueueRetry, Return, Goto
<1>8. ASSUME NEW s \in Slots, CreateAttempt(s) PROVE ExpiredReads'
  BY <1>8 DEF CreateAttempt, Goto
<1>9. ASSUME NEW s \in Slots, FinishSetup(s) PROVE ExpiredReads'
  BY <1>9 DEF FinishSetup, Goto, KeepLocals
<1>10. ASSUME NEW s \in Slots, RequeueFailedSetup(s) PROVE ExpiredReads'
  BY <1>10 DEF RequeueFailedSetup, Goto, Park, Holds, Matches
<1>11. ASSUME NEW s \in Slots, LeaveLostLease(s) PROVE ExpiredReads'
  BY <1>11 DEF LeaveLostLease, Goto, KeepLocals
<1>12. ASSUME NEW s \in Slots, PauseRunForInput(s) PROVE ExpiredReads'
  BY <1>12 DEF PauseRunForInput, Commit, Goto, Park, Holds, Matches
<1>13. ASSUME NEW s \in Slots, PauseRunForTakeover(s) PROVE ExpiredReads'
  BY <1>13 DEF PauseRunForTakeover, Commit, Goto, Park, Holds, Matches
<1>14. ASSUME NEW s \in Slots, FinalizeCompleted(s) PROVE ExpiredReads'
  BY <1>14 DEF FinalizeCompleted, FinalizeRun, Commit, Goto, Park, Holds,
     Matches
<1>15. ASSUME NEW s \in Slots, FinalizeFailed(s) PROVE ExpiredReads'
  BY <1>15 DEF FinalizeFailed, FinalizeRun, Commit, Goto, Park, Holds, Matches
<1>16. ASSUME NEW s \in Slots, Finally(s) PROVE ExpiredReads'
  BY <1>16 DEF Finally, Return, Goto
<1>17. ASSUME NEW s \in Slots, AskUser(s) PROVE ExpiredReads'
  BY <1>17 DEF AskUser, Pause, RenewFor, Renew, Goto, Holds, Matches
<1>18. ASSUME NEW s \in Slots, RequestTakeover(s) PROVE ExpiredReads'
  BY <1>18 DEF RequestTakeover, Pause, RenewFor, Renew, Goto, Holds, Matches
<1>19. ASSUME NEW s \in Slots, FinishTurn(s) PROVE ExpiredReads'
  BY <1>19 DEF FinishTurn, RenewFor, Renew, Goto, Holds, Matches
<1>20. ASSUME NEW s \in Slots, WorkFails(s) PROVE ExpiredReads'
  BY <1>20 DEF WorkFails, Goto, KeepLocals
<1>21. ASSUME NEW s \in Slots, PollRow(s) PROVE ExpiredReads'
  BY <1>21 DEF PollRow, Goto, Matches
<1>22. ASSUME NEW s \in Slots, Heartbeat(s) PROVE ExpiredReads'
  BY <1>22 DEF Heartbeat, Renew, Holds, Matches
<1>23. ASSUME NEW s \in Slots, RequeueBusy(s) PROVE ExpiredReads'
  BY <1>23 DEF RequeueBusy, Fault, Park, Goto, KeepLocals, Return, Holds,
     Matches
<1>24. ASSUME NEW s \in Slots, CallFails(s) PROVE ExpiredReads'
  BY <1>24 DEF CallFails, Fault, Return, Goto
<1>25. ASSUME NEW s \in Slots, SetupFails(s) PROVE ExpiredReads'
  BY <1>25 DEF SetupFails, Fault, Goto, KeepLocals
<1>26. ASSUME NEW s \in Slots, HeartbeatFails(s) PROVE ExpiredReads'
  BY <1>26 DEF HeartbeatFails, Abort, Renew, Holds, Matches, Fault
<1>27. CASE AnswerRunInput
  BY <1>27 DEF AnswerRunInput, Enqueued
<1>28. ASSUME NEW how \in {"takeover", "takeover-skipped"}, ReleaseTakeover(how)
      PROVE  ExpiredReads'
  BY <1>28 DEF ReleaseTakeover, Enqueued
<1>29. CASE StopRun
  BY <1>29 DEF StopRun
<1>30. CASE ClearThread
  BY <1>30 DEF ClearThread, Park
<1>31. CASE LeaseExpires
  BY <1>31 DEF LeaseExpires, Lapse
<1>32. CASE HolderStalls
  BY <1>32 DEF HolderStalls, Lapse, Fault
<1>33. CASE ReconcileScan
  BY <1>33 DEF ReconcileScan
<1>34. CASE ReconcileEnqueue
  BY <1>34 DEF ReconcileEnqueue
<1>35. ASSUME NEW w \in Workers, Crash(w) PROVE ExpiredReads'
  BY <1>35 DEF Crash, Fault
<1>36. CASE UNCHANGED vars
  BY <1>36 DEF vars
<1> QED
  BY <1>1, <1>2, <1>3, <1>4, <1>5, <1>6, <1>7, <1>8, <1>9, <1>10,
     <1>11, <1>12, <1>13, <1>14, <1>15, <1>16, <1>17, <1>18, <1>19, <1>20,
     <1>21, <1>22, <1>23, <1>24, <1>25, <1>26, <1>27, <1>28, <1>29, <1>30,
     <1>31, <1>32, <1>33, <1>34, <1>35, <1>36
     DEF Next, Advance, Agent, Disturb, User

\* No step writes the row of a finished run.
LEMMA TerminalStep ==
  ASSUME TypeOK, status \in Terminal, [Next]_vars
  PROVE  row' = row
<1> USE DEF TypeOK, row, queue, local, history, bounds
<1> USE DEF RunStatus, Active, Parked, Held, Terminal
<1>1. ASSUME NEW s \in Slots, PickJob(s) PROVE row' = row
  BY <1>1 DEF PickJob, Goto
<1>2. ASSUME NEW s \in Slots, ReadRun(s) PROVE row' = row
  BY <1>2 DEF ReadRun, Return, Goto
<1>3. ASSUME NEW s \in Slots, ClaimRun(s) PROVE row' = row
  BY <1>3 DEF ClaimRun, Claimable, Return, Goto
<1>4. ASSUME NEW s \in Slots, RereadRun(s) PROVE row' = row
  BY <1>4 DEF RereadRun, Return, Goto, KeepLocals
<1>5. ASSUME NEW s \in Slots, StartRun(s) PROVE row' = row
  BY <1>5 DEF StartRun, Return, Goto, KeepLocals, Matches
<1>6. ASSUME NEW s \in Slots, AcquireComputer(s) PROVE row' = row
  BY <1>6 DEF AcquireComputer, Goto, KeepLocals
<1>7. ASSUME NEW s \in Slots, EnqueueRetry(s) PROVE row' = row
  BY <1>7 DEF EnqueueRetry, Return, Goto
<1>8. ASSUME NEW s \in Slots, CreateAttempt(s) PROVE row' = row
  BY <1>8 DEF CreateAttempt, Goto
<1>9. ASSUME NEW s \in Slots, FinishSetup(s) PROVE row' = row
  BY <1>9 DEF FinishSetup, Goto, KeepLocals
<1>10. ASSUME NEW s \in Slots, RequeueFailedSetup(s) PROVE row' = row
  BY <1>10 DEF RequeueFailedSetup, Goto, Park, Holds, Matches
<1>11. ASSUME NEW s \in Slots, LeaveLostLease(s) PROVE row' = row
  BY <1>11 DEF LeaveLostLease, Goto, KeepLocals
<1>12. ASSUME NEW s \in Slots, PauseRunForInput(s) PROVE row' = row
  BY <1>12 DEF PauseRunForInput, Commit, Goto, Park, Holds, Matches
<1>13. ASSUME NEW s \in Slots, PauseRunForTakeover(s) PROVE row' = row
  BY <1>13 DEF PauseRunForTakeover, Commit, Goto, Park, Holds, Matches
<1>14. ASSUME NEW s \in Slots, FinalizeCompleted(s) PROVE row' = row
  BY <1>14 DEF FinalizeCompleted, FinalizeRun, Commit, Goto, Park, Holds,
     Matches
<1>15. ASSUME NEW s \in Slots, FinalizeFailed(s) PROVE row' = row
  BY <1>15 DEF FinalizeFailed, FinalizeRun, Commit, Goto, Park, Holds, Matches
<1>16. ASSUME NEW s \in Slots, Finally(s) PROVE row' = row
  BY <1>16 DEF Finally, Return, Goto
<1>17. ASSUME NEW s \in Slots, AskUser(s) PROVE row' = row
  BY <1>17 DEF AskUser, Pause, RenewFor, Renew, Goto, Holds, Matches
<1>18. ASSUME NEW s \in Slots, RequestTakeover(s) PROVE row' = row
  BY <1>18 DEF RequestTakeover, Pause, RenewFor, Renew, Goto, Holds, Matches
<1>19. ASSUME NEW s \in Slots, FinishTurn(s) PROVE row' = row
  BY <1>19 DEF FinishTurn, RenewFor, Renew, Goto, Holds, Matches
<1>20. ASSUME NEW s \in Slots, WorkFails(s) PROVE row' = row
  BY <1>20 DEF WorkFails, Goto, KeepLocals
<1>21. ASSUME NEW s \in Slots, PollRow(s) PROVE row' = row
  BY <1>21 DEF PollRow, Goto, Matches
<1>22. ASSUME NEW s \in Slots, Heartbeat(s) PROVE row' = row
  BY <1>22 DEF Heartbeat, Renew, Holds, Matches
<1>23. ASSUME NEW s \in Slots, RequeueBusy(s) PROVE row' = row
  BY <1>23 DEF RequeueBusy, Fault, Park, Goto, KeepLocals, Return, Holds,
     Matches
<1>24. ASSUME NEW s \in Slots, CallFails(s) PROVE row' = row
  BY <1>24 DEF CallFails, Fault, Return, Goto
<1>25. ASSUME NEW s \in Slots, SetupFails(s) PROVE row' = row
  BY <1>25 DEF SetupFails, Fault, Goto, KeepLocals
<1>26. ASSUME NEW s \in Slots, HeartbeatFails(s) PROVE row' = row
  BY <1>26 DEF HeartbeatFails, Abort, Renew, Holds, Matches, Fault
<1>27. CASE AnswerRunInput
  BY <1>27 DEF AnswerRunInput, Enqueued
<1>28. ASSUME NEW how \in {"takeover", "takeover-skipped"}, ReleaseTakeover(how)
      PROVE  row' = row
  BY <1>28 DEF ReleaseTakeover, Enqueued
<1>29. CASE StopRun
  BY <1>29 DEF StopRun
<1>30. CASE ClearThread
  BY <1>30 DEF ClearThread, Park
<1>31. CASE LeaseExpires
  BY <1>31 DEF LeaseExpires, Lapse
<1>32. CASE HolderStalls
  BY <1>32 DEF HolderStalls, Lapse, Fault
<1>33. CASE ReconcileScan
  BY <1>33 DEF ReconcileScan
<1>34. CASE ReconcileEnqueue
  BY <1>34 DEF ReconcileEnqueue
<1>35. ASSUME NEW w \in Workers, Crash(w) PROVE row' = row
  BY <1>35 DEF Crash, Fault
<1>36. CASE UNCHANGED vars
  BY <1>36 DEF vars
<1> QED
  BY <1>1, <1>2, <1>3, <1>4, <1>5, <1>6, <1>7, <1>8, <1>9, <1>10,
     <1>11, <1>12, <1>13, <1>14, <1>15, <1>16, <1>17, <1>18, <1>19, <1>20,
     <1>21, <1>22, <1>23, <1>24, <1>25, <1>26, <1>27, <1>28, <1>29, <1>30,
     <1>31, <1>32, <1>33, <1>34, <1>35, <1>36
     DEF Next, Advance, Agent, Disturb, User

\* Only ClaimRun moves a slot from "claim" to "reread".
LEMMA ClaimsIsClaimRun ==
  ASSUME TypeOK, [Next]_vars, NEW c \in Slots, Claims(c)
  PROVE  ClaimRun(c) /\ Claimable(c)
<1> USE DEF TypeOK, Claims, row, queue, local, history, bounds
<1>1. ASSUME NEW s \in Slots, PickJob(s) PROVE ClaimRun(c) /\ Claimable(c)
  BY <1>1 DEF PickJob, Goto
<1>2. ASSUME NEW s \in Slots, ReadRun(s) PROVE ClaimRun(c) /\ Claimable(c)
  BY <1>2 DEF ReadRun, Return, Goto
<1>3. ASSUME NEW s \in Slots, ClaimRun(s) PROVE ClaimRun(c) /\ Claimable(c)
  BY <1>3 DEF ClaimRun, Claimable, Return, Goto
<1>4. ASSUME NEW s \in Slots, RereadRun(s) PROVE ClaimRun(c) /\ Claimable(c)
  BY <1>4 DEF RereadRun, Return, Goto, KeepLocals
<1>5. ASSUME NEW s \in Slots, StartRun(s) PROVE ClaimRun(c) /\ Claimable(c)
  BY <1>5 DEF StartRun, Return, Goto, KeepLocals, Matches
<1>6. ASSUME NEW s \in Slots, AcquireComputer(s) PROVE ClaimRun(c) /\ Claimable(c)
  BY <1>6 DEF AcquireComputer, Goto, KeepLocals
<1>7. ASSUME NEW s \in Slots, EnqueueRetry(s) PROVE ClaimRun(c) /\ Claimable(c)
  BY <1>7 DEF EnqueueRetry, Return, Goto
<1>8. ASSUME NEW s \in Slots, CreateAttempt(s) PROVE ClaimRun(c) /\ Claimable(c)
  BY <1>8 DEF CreateAttempt, Goto
<1>9. ASSUME NEW s \in Slots, FinishSetup(s) PROVE ClaimRun(c) /\ Claimable(c)
  BY <1>9 DEF FinishSetup, Goto, KeepLocals
<1>10. ASSUME NEW s \in Slots, RequeueFailedSetup(s) PROVE ClaimRun(c) /\ Claimable(c)
  BY <1>10 DEF RequeueFailedSetup, Goto, Park, Holds, Matches
<1>11. ASSUME NEW s \in Slots, LeaveLostLease(s) PROVE ClaimRun(c) /\ Claimable(c)
  BY <1>11 DEF LeaveLostLease, Goto, KeepLocals
<1>12. ASSUME NEW s \in Slots, PauseRunForInput(s) PROVE ClaimRun(c) /\ Claimable(c)
  BY <1>12 DEF PauseRunForInput, Commit, Goto, Park, Holds, Matches
<1>13. ASSUME NEW s \in Slots, PauseRunForTakeover(s) PROVE ClaimRun(c) /\ Claimable(c)
  BY <1>13 DEF PauseRunForTakeover, Commit, Goto, Park, Holds, Matches
<1>14. ASSUME NEW s \in Slots, FinalizeCompleted(s) PROVE ClaimRun(c) /\ Claimable(c)
  BY <1>14 DEF FinalizeCompleted, FinalizeRun, Commit, Goto, Park, Holds,
     Matches
<1>15. ASSUME NEW s \in Slots, FinalizeFailed(s) PROVE ClaimRun(c) /\ Claimable(c)
  BY <1>15 DEF FinalizeFailed, FinalizeRun, Commit, Goto, Park, Holds, Matches
<1>16. ASSUME NEW s \in Slots, Finally(s) PROVE ClaimRun(c) /\ Claimable(c)
  BY <1>16 DEF Finally, Return, Goto
<1>17. ASSUME NEW s \in Slots, AskUser(s) PROVE ClaimRun(c) /\ Claimable(c)
  BY <1>17 DEF AskUser, Pause, RenewFor, Renew, Goto, Holds, Matches
<1>18. ASSUME NEW s \in Slots, RequestTakeover(s) PROVE ClaimRun(c) /\ Claimable(c)
  BY <1>18 DEF RequestTakeover, Pause, RenewFor, Renew, Goto, Holds, Matches
<1>19. ASSUME NEW s \in Slots, FinishTurn(s) PROVE ClaimRun(c) /\ Claimable(c)
  BY <1>19 DEF FinishTurn, RenewFor, Renew, Goto, Holds, Matches
<1>20. ASSUME NEW s \in Slots, WorkFails(s) PROVE ClaimRun(c) /\ Claimable(c)
  BY <1>20 DEF WorkFails, Goto, KeepLocals
<1>21. ASSUME NEW s \in Slots, PollRow(s) PROVE ClaimRun(c) /\ Claimable(c)
  BY <1>21 DEF PollRow, Goto, Matches
<1>22. ASSUME NEW s \in Slots, Heartbeat(s) PROVE ClaimRun(c) /\ Claimable(c)
  BY <1>22 DEF Heartbeat, Renew, Holds, Matches
<1>23. ASSUME NEW s \in Slots, RequeueBusy(s) PROVE ClaimRun(c) /\ Claimable(c)
  BY <1>23 DEF RequeueBusy, Fault, Park, Goto, KeepLocals, Return, Holds,
     Matches
<1>24. ASSUME NEW s \in Slots, CallFails(s) PROVE ClaimRun(c) /\ Claimable(c)
  BY <1>24 DEF CallFails, Fault, Return, Goto
<1>25. ASSUME NEW s \in Slots, SetupFails(s) PROVE ClaimRun(c) /\ Claimable(c)
  BY <1>25 DEF SetupFails, Fault, Goto, KeepLocals
<1>26. ASSUME NEW s \in Slots, HeartbeatFails(s) PROVE ClaimRun(c) /\ Claimable(c)
  BY <1>26 DEF HeartbeatFails, Abort, Renew, Holds, Matches, Fault
<1>27. CASE AnswerRunInput
  BY <1>27 DEF AnswerRunInput, Enqueued
<1>28. ASSUME NEW how \in {"takeover", "takeover-skipped"}, ReleaseTakeover(how)
      PROVE  ClaimRun(c) /\ Claimable(c)
  BY <1>28 DEF ReleaseTakeover, Enqueued
<1>29. CASE StopRun
  BY <1>29 DEF StopRun
<1>30. CASE ClearThread
  BY <1>30 DEF ClearThread, Park
<1>31. CASE LeaseExpires
  BY <1>31 DEF LeaseExpires, Lapse
<1>32. CASE HolderStalls
  BY <1>32 DEF HolderStalls, Lapse, Fault
<1>33. CASE ReconcileScan
  BY <1>33 DEF ReconcileScan
<1>34. CASE ReconcileEnqueue
  BY <1>34 DEF ReconcileEnqueue
<1>35. ASSUME NEW w \in Workers, Crash(w) PROVE ClaimRun(c) /\ Claimable(c)
  BY <1>35 DEF Crash, Fault
<1>36. CASE UNCHANGED vars
  BY <1>36 DEF vars
<1> QED
  BY <1>1, <1>2, <1>3, <1>4, <1>5, <1>6, <1>7, <1>8, <1>9, <1>10,
     <1>11, <1>12, <1>13, <1>14, <1>15, <1>16, <1>17, <1>18, <1>19, <1>20,
     <1>21, <1>22, <1>23, <1>24, <1>25, <1>26, <1>27, <1>28, <1>29, <1>30,
     <1>31, <1>32, <1>33, <1>34, <1>35, <1>36
     DEF Next, Advance, Agent, Disturb, User

-----------------------------------------------------------------------------
(* The inductive invariant.                                                *)

IInv ==
  /\ TypeOK /\ LeaseMatchesStatus /\ OneOutcome
  /\ AttemptsRun /\ FencesDistinct /\ ExpiredReads

LEMMA InitIInv == Init => IInv
<1> SUFFICES ASSUME Init PROVE IInv
  OBVIOUS
<1> USE WorkerAssumption DEF Init
<1>1. TypeOK
  BY DEF TypeOK, RunStatus, Active, Parked, Held, Terminal, Resumes, Expiries,
         AttemptStatus, Places, Unclaimed
<1>2. LeaseMatchesStatus /\ OneOutcome
  BY DEF LeaseMatchesStatus, OneOutcome, Parked, Held
<1>3. AttemptsRun /\ FencesDistinct /\ ExpiredReads
  BY DEF AttemptsRun, FencesDistinct, ExpiredReads, Beating, Attempting,
         Committing, Unclaimed
<1> QED
  BY <1>1, <1>2, <1>3 DEF IInv

LEMMA NextIInv == IInv /\ [Next]_vars => IInv'
<1> SUFFICES ASSUME IInv, [Next]_vars PROVE IInv'
  OBVIOUS
<1>1. TypeOK'
  BY TypeStep DEF IInv
<1>2. LeaseMatchesStatus' /\ OneOutcome'
  BY LeaseStep, OutcomeStep DEF IInv
<1>3. AttemptsRun' /\ FencesDistinct' /\ ExpiredReads'
  BY AttemptStep, FenceStep, ExpiredStep DEF IInv
<1> QED
  BY <1>1, <1>2, <1>3 DEF IInv

\* IInv holds in every reachable state: the induction that the theorems share.
THEOREM Inductive == Spec => []IInv
<1> QED
  BY InitIInv, NextIInv, PTL DEF Spec

-----------------------------------------------------------------------------
(* The properties.                                                         *)

\* Every variable keeps its type.
THEOREM TypeCorrect == Spec => []TypeOK
<1>1. IInv => TypeOK
  BY DEF IInv
<1> QED
  BY Inductive, <1>1, PTL

\* At most one outcome is committed however many slots reach finalizeRun.
THEOREM OutcomeOnce == Spec => []OneOutcome
<1>1. IInv => OneOutcome
  BY DEF IInv
<1> QED
  BY Inductive, <1>1, PTL

\* A held row can be found when it lapses; a parked one matches no slot.
THEOREM LeaseInLine == Spec => []LeaseMatchesStatus
<1>1. IInv => LeaseMatchesStatus
  BY DEF IInv
<1> QED
  BY Inductive, <1>1, PTL

\* pauseRunForInput, pauseRunForTakeover and finalizeRun never throw because
\* the attempt is not available: a slot that still holds the row has it.
THEOREM AttemptsAvailable == Spec => []AttemptAvailable
<1>1. IInv => AttemptAvailable
  BY DEF IInv, AttemptsRun, AttemptAvailable, Holds, Beating, Attempting
<1> QED
  BY Inductive, <1>1, PTL

\* While no claim has reused a fence, the where-clause (leaseOwner, leaseFence)
\* singles out one slot, even among slots with the same owner.
THEOREM OneHolder == Spec => []SoleHolder
<1>1. IInv => SoleHolder
  <2> SUFFICES ASSUME IInv, ~regressed,
                      NEW s \in Slots, NEW t \in Slots, s # t,
                      pc[s] \notin Unclaimed, pc[t] \notin Unclaimed
               PROVE  ~(Matches(s) /\ Matches(t))
    BY DEF SoleHolder
  <2>1. fence[s] # fence[t]
    BY DEF IInv, FencesDistinct
  <2> QED
    BY <2>1 DEF Matches
<1> QED
  BY Inductive, <1>1, PTL

\* No late write changes the row of a finished or cancelled run.
THEOREM TerminalKept == Spec => TerminalIsFinal
<1>1. IInv /\ [Next]_vars => [(status \in Terminal) => (row' = row)]_vars
  BY TerminalStep DEF IInv
<1> QED
  BY Inductive, <1>1, PTL DEF Spec, TerminalIsFinal

\* A claim that takes a held row over raises the fence: the claim only
\* compares the expiry, but whoever saw the lease expired read its fence.
THEOREM ReclaimFences == Spec => ReclaimRaisesFence
<1>1. ASSUME IInv, [Next]_vars, NEW s \in Slots, status \in Held, Claims(s)
      PROVE  leaseFence' > leaseFence
  <2>1. ClaimRun(s) /\ Claimable(s)
    BY <1>1, ClaimsIsClaimRun DEF IInv
  <2>2. s \in sawExpired
    BY <1>1, <2>1 DEF Claimable, Held, Parked
  <2>3. fence[s] = leaseFence + 1 /\ leaseFence \in Nat
    BY <1>1, <2>2 DEF IInv, ExpiredReads, TypeOK
  <2>4. leaseFence' = fence[s]
    BY <2>1 DEF ClaimRun
  <2> QED
    BY <2>3, <2>4
<1>2. IInv /\ [Next]_vars
      => [\A s \in Slots :
            status \in Held /\ Claims(s) => leaseFence' > leaseFence]_vars
  BY <1>1
<1> QED
  BY Inductive, <1>2, PTL DEF Spec, ReclaimRaisesFence

=============================================================================
