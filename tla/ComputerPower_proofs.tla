-------------------------- MODULE ComputerPower_proofs --------------------------
(***************************************************************************)
(* No process acts on a sandbox that another is booting, stopping or       *)
(* destroying, no run loses its sandbox but to its owner, and every        *)
(* transition has a process that ends it: for any set of bots, on a Team   *)
(* computer and a dedicated one, and any number of runs, requests and      *)
(* faults.                                                                 *)
(***************************************************************************)
EXTENDS ComputerPower, TLAPS

-----------------------------------------------------------------------------
(* The invariant.                                                          *)

RowTypeOK ==
  /\ scope \in {"team", "dedicated"} /\ power \in PowerStates
  /\ hasRef \in BOOLEAN /\ box \in {"none", "down", "up"}
  /\ written \in BOOLEAN /\ background \in BOOLEAN
LeaseTypeOK == lease \in [Bots -> Callers \cup {Free}] /\ lapsed \in SUBSET Bots
RunTypeOK == botRun \in [Bots -> {"none", "queued", "running"}] /\ halted \in SUBSET Bots
FlagTypeOK ==
  /\ overtaken \in BOOLEAN /\ putBack \in BOOLEAN /\ died \in BOOLEAN
  /\ turns \in Nat /\ requests \in Nat /\ powerFaults \in Nat

\* Each process has its own stations.
Booting == {"boot", "activate", "rollback", "record"}
CallStations == {"idle", "create", "validate", "provision", "claim", "reconnect",
                 "retry", "release"} \cup Booting
EarlyOwner == {"stopRun", "replaceRun"}
LateOwner == {"stopBox", "stopped", "destroy", "destroyed", "abandon"}
PlaceInv ==
  /\ at \in [Callers \cup {Sleeper} -> Stations]
  /\ \A b \in Bots : at[b] \in CallStations \cup {"work"}
  /\ at[Owner] \in CallStations \cup EarlyOwner \cup LateOwner \cup {"stop", "replace"}
  /\ at[Sleeper] \in {"idle", "sleepCheck", "sleep", "sleepRun", "sleepBox", "asleep"}

\* A bot whose executor is busy has an active run row, until it is finished.
RunInv == \A b \in Bots : at[b] \notin {"idle", "release"} => botRun[b] # "none"

\* The state that would be put back is never a transition of the owner's own.
RequestInv ==
  /\ request \in Requests
  /\ at[Owner] = "stopRun" => request.took # "suspending"
  /\ at[Owner] = "replaceRun" => request.read \notin Transitional

\* A booting row has a boot, a suspending one what will end that.
Suspending == Claimed \ Booting
OwnedInv ==
  /\ power = "booting" =>
       died \/ putBack \/ \E c \in Callers \cup {Sleeper} : at[c] \in Booting
  /\ power = "suspending" =>
       died \/ putBack \/ \E c \in Callers \cup {Sleeper} : at[c] \in Suspending

\* Who is between a claim and its end is alone, and the row says which it is.
AloneInv ==
  ~overtaken /\ ~putBack =>
    /\ \A c \in Callers \cup {Sleeper} :
         /\ at[c] \in Booting => power = "booting"
         /\ at[c] \in Suspending => power = "suspending"
    /\ \A c, d \in Callers \cup {Sleeper} :
         at[c] \in Claimed /\ at[d] \in Claimed => c = d

\* A run that works, and was not stopped by the owner, has a computer that
\* runs, or one that a process has taken and will give back when it looks for
\* active runs, as the state it took was running.
WorkInv ==
  ~overtaken /\ ~putBack =>
    /\ \A b \in Bots :
         at[b] \in {"reconnect", "work"} /\ b \notin halted =>
           \/ power = "running"
           \/ /\ power = "suspending"
              /\ at[Owner] \notin LateOwner /\ at[Sleeper] \notin {"sleepBox", "asleep"}
              /\ at[Owner] = "stopRun" => request.took = "running"
              /\ at[Owner] = "replaceRun" => request.read = "running"
    /\ at[Sleeper] = "sleepBox" =>
         /\ ~background
         /\ \A b \in Bots : at[b] \notin {"reconnect", "work"}

PowerInv ==
  /\ RowTypeOK /\ LeaseTypeOK /\ RunTypeOK /\ FlagTypeOK
  /\ PlaceInv /\ RunInv /\ RequestInv /\ OwnedInv /\ AloneInv /\ WorkInv

-----------------------------------------------------------------------------
(* Each part is kept by every step.                                        *)

LEMMA RequestFields ==
  ASSUME request \in Requests
  PROVE  /\ request.op \in {"boot", "stop", "replace"} /\ request.bot \in Bots
         /\ request.read \in PowerStates /\ request.took \in PowerStates
  BY DEF Requests

LEMMA AskingType == Asking \in BOOLEAN
  BY DEF Asking

LEMMA RowTypeStep ==
  ASSUME RowTypeOK, request \in Requests, FlagTypeOK, [PowerNext]_powerVars
  PROVE  RowTypeOK'
<1> USE PowerAssumption DEF RowTypeOK, PowerStates, Transitional, KeepAllButRow,
    KeepRow, SetPower, SetPowerIf, PowerFault, To, computer, leases, powerHistory,
    powerBounds
<1>1. CASE UNCHANGED <<scope, power, hasRef, box, written, background>>
  BY <1>1
<1>2. ASSUME NEW b \in Bots, StartBackground(b) PROVE RowTypeOK'
  BY <1>2 DEF StartBackground
<1>3. ASSUME NEW c \in Callers, ClaimBoot(c) PROVE RowTypeOK'
  BY <1>3, AskingType DEF ClaimBoot
<1>4. ASSUME NEW c \in Callers, BootBox(c) PROVE RowTypeOK'
  BY <1>4 DEF BootBox
<1>5. ASSUME NEW c \in Callers, Activate(c) PROVE RowTypeOK'
  BY <1>5, AskingType DEF Activate
<1>6. ASSUME NEW c \in Callers, Rollback(c) PROVE RowTypeOK'
  BY <1>6 DEF Rollback
<1>7. ASSUME NEW c \in Callers, RecordFailedBoot(c) PROVE RowTypeOK'
  BY <1>7, AskingType DEF RecordFailedBoot
<1>8. ASSUME NEW c \in Callers, Reconnect(c) PROVE RowTypeOK'
  BY <1>8 DEF Reconnect
<1>9. CASE ClaimStop
  BY <1>9, AskingType DEF ClaimStop
<1>10. CASE StopUnlessOtherRun
  BY <1>10, RequestFields, AskingType, ZenonT(60) DEF StopUnlessOtherRun
<1>11. CASE StopBox
  BY <1>11, AskingType DEF StopBox
<1>12. CASE RecordStopped
  BY <1>12, AskingType DEF RecordStopped
<1>13. CASE ClaimReplace
  BY <1>13, AskingType DEF ClaimReplace
<1>14. CASE ReplaceUnlessRun
  BY <1>14, RequestFields, AskingType DEF ReplaceUnlessRun
<1>15. CASE DestroyBox
  BY <1>15 DEF DestroyBox
<1>16. CASE RecordDestroyed
  BY <1>16, AskingType DEF RecordDestroyed
<1>17. CASE AbandonReplace
  BY <1>17, AskingType DEF AbandonReplace
<1>18. CASE SleepLoads
  BY <1>18 DEF SleepLoads
<1>19. CASE SleepChecks
  BY <1>19 DEF SleepChecks
<1>20. CASE ClaimSleep
  BY <1>20 DEF ClaimSleep
<1>21. CASE SleepUnlessActive
  BY <1>21 DEF SleepUnlessActive, ResumeRow
<1>22. CASE SleepBox
  BY <1>22, AskingType DEF SleepBox
<1>23. CASE RecordAsleep
  BY <1>23, AskingType DEF RecordAsleep
<1>24. CASE BackgroundEnds
  BY <1>24 DEF BackgroundEnds
<1>25. CASE UNCHANGED powerVars
  BY <1>1, <1>25 DEF powerVars, computer, leases, powerHistory, powerBounds
<1> QED
  BY <1>1, <1>2, <1>3, <1>4, <1>5, <1>6, <1>7, <1>8, <1>9, <1>10, <1>11, <1>12,
     <1>13, <1>14, <1>15, <1>16, <1>17, <1>18, <1>19, <1>20, <1>21, <1>22, <1>23,
     <1>24, <1>25 DEF PowerNext, RunStep, CallerStep, OwnerStep, SleepStep,
     KeepAllButRow, KeepRow, SetPower, SetPowerIf, PowerFault, To, Release,
     computer, leases, powerHistory, powerBounds, TakeTurn, RetryTurn, FinishTurn,
     LoseTurn, RenewLease, StartTurn, LeaseExpires, LeaseLapses, CreateLease,
     ValidateLease, ReleaseLease, Provision, OwnerRequests, Dies

LEMMA LeaseTypeStep ==
  ASSUME LeaseTypeOK, request \in Requests, [PowerNext]_powerVars
  PROVE  LeaseTypeOK'
<1> USE PowerAssumption DEF LeaseTypeOK, Callers, BotOf, Release, KeepAllButRow,
    KeepRow, SetPower, SetPowerIf, PowerFault, To, computer, leases, powerHistory,
    powerBounds
<1>1. CASE UNCHANGED <<lease, lapsed>>
  BY <1>1
<1>2. ASSUME NEW b \in Bots, RetryTurn(b) PROVE LeaseTypeOK'
  BY <1>2, RequestFields DEF RetryTurn
<1>3. ASSUME NEW b \in Bots, RenewLease(b) PROVE LeaseTypeOK'
  BY <1>3 DEF RenewLease
<1>4. ASSUME NEW b \in Bots, LeaseExpires(b) PROVE LeaseTypeOK'
  BY <1>4 DEF LeaseExpires
<1>5. ASSUME NEW b \in Bots, LeaseLapses(b) PROVE LeaseTypeOK'
  BY <1>5 DEF LeaseLapses
<1>6. ASSUME NEW c \in Callers, CreateLease(c) PROVE LeaseTypeOK'
  BY <1>6, RequestFields DEF CreateLease
<1>7. ASSUME NEW c \in Callers, ReleaseLease(c) PROVE LeaseTypeOK'
  BY <1>7, RequestFields DEF ReleaseLease
<1>8. CASE StopUnlessOtherRun
  BY <1>8, RequestFields DEF StopUnlessOtherRun
<1>9. CASE UNCHANGED powerVars
  BY <1>1, <1>9 DEF powerVars, computer, leases, powerHistory, powerBounds
<1> QED
  BY <1>1, <1>2, <1>3, <1>4, <1>5, <1>6, <1>7, <1>8, <1>9 DEF PowerNext, RunStep,
     CallerStep, OwnerStep, SleepStep, KeepAllButRow, KeepRow, SetPower, SetPowerIf,
     PowerFault, To, Release, computer, leases, powerHistory, powerBounds, TakeTurn,
     FinishTurn, LoseTurn, StartTurn, StartBackground, ValidateLease, Provision,
     ClaimBoot, BootBox, Activate, Rollback, RecordFailedBoot, Reconnect,
     OwnerRequests, ClaimStop, StopBox, RecordStopped, ClaimReplace,
     ReplaceUnlessRun, DestroyBox, RecordDestroyed, AbandonReplace, SleepLoads,
     SleepChecks, ClaimSleep, SleepUnlessActive, SleepBox, RecordAsleep,
     BackgroundEnds, Dies

LEMMA RunTypeStep ==
  ASSUME RunTypeOK, request \in Requests, [PowerNext]_powerVars
  PROVE  RunTypeOK'
<1> USE PowerAssumption DEF RunTypeOK, KeepAllButRow, KeepRow, SetPower, SetPowerIf,
    PowerFault, To, computer, leases, powerHistory, powerBounds
<1>1. CASE UNCHANGED <<botRun, halted>>
  BY <1>1
<1>2. ASSUME NEW b \in Bots, TakeTurn(b) PROVE RunTypeOK'
  BY <1>2 DEF TakeTurn
<1>3. ASSUME NEW b \in Bots, RetryTurn(b) PROVE RunTypeOK'
  BY <1>3 DEF RetryTurn
<1>4. ASSUME NEW b \in Bots, FinishTurn(b) PROVE RunTypeOK'
  BY <1>4 DEF FinishTurn
<1>5. ASSUME NEW b \in Bots, StartTurn(b) PROVE RunTypeOK'
  BY <1>5 DEF StartTurn
<1>6. CASE StopUnlessOtherRun
  BY <1>6, RequestFields DEF StopUnlessOtherRun
<1>7. CASE UNCHANGED powerVars
  BY <1>1, <1>7 DEF powerVars, computer, leases, powerHistory, powerBounds
<1> QED
  BY <1>1, <1>2, <1>3, <1>4, <1>5, <1>6, <1>7 DEF PowerNext, RunStep, CallerStep,
     OwnerStep, SleepStep, KeepAllButRow, KeepRow, SetPower, SetPowerIf, PowerFault,
     To, Release, computer, leases, powerHistory, powerBounds, LoseTurn, RenewLease,
     StartBackground, LeaseExpires, LeaseLapses, CreateLease, ValidateLease,
     ReleaseLease, Provision, ClaimBoot, BootBox, Activate, Rollback,
     RecordFailedBoot, Reconnect, OwnerRequests, ClaimStop, StopBox, RecordStopped,
     ClaimReplace, ReplaceUnlessRun, DestroyBox, RecordDestroyed, AbandonReplace,
     SleepLoads, SleepChecks, ClaimSleep, SleepUnlessActive, SleepBox, RecordAsleep,
     BackgroundEnds, Dies

LEMMA FlagTypeStep ==
  ASSUME FlagTypeOK, [PowerNext]_powerVars
  PROVE  FlagTypeOK'
<1> USE PowerAssumption DEF FlagTypeOK, KeepAllButRow, KeepRow, SetPower,
    SetPowerIf, PowerFault, To, computer, leases, powerHistory, powerBounds
<1>1. CASE UNCHANGED <<overtaken, putBack, died, turns, requests, powerFaults>>
  BY <1>1
<1>2. ASSUME NEW b \in Bots, StartTurn(b) PROVE FlagTypeOK'
  BY <1>2 DEF StartTurn
<1>3. ASSUME NEW b \in Bots, LeaseLapses(b) PROVE FlagTypeOK'
  BY <1>3 DEF LeaseLapses
<1>4. ASSUME NEW c \in Callers, Provision(c) PROVE FlagTypeOK'
  BY <1>4 DEF Provision
<1>5. ASSUME NEW c \in Callers, BootBox(c) PROVE FlagTypeOK'
  BY <1>5 DEF BootBox
<1>6. ASSUME NEW c \in Callers, Reconnect(c) PROVE FlagTypeOK'
  BY <1>6 DEF Reconnect
<1>7. ASSUME NEW op \in {"boot", "stop", "replace"}, NEW b \in Bots, OwnerRequests(op, b)
      PROVE  FlagTypeOK'
  BY <1>7 DEF OwnerRequests
<1>8. CASE ClaimStop
  BY <1>8 DEF ClaimStop
<1>9. CASE StopUnlessOtherRun
  BY <1>9 DEF StopUnlessOtherRun
<1>10. CASE StopBox
  BY <1>10 DEF StopBox
<1>11. CASE DestroyBox
  BY <1>11 DEF DestroyBox
<1>12. CASE SleepBox
  BY <1>12 DEF SleepBox
<1>13. ASSUME NEW c \in Callers \cup {Sleeper}, Dies(c) PROVE FlagTypeOK'
  BY <1>13 DEF Dies
<1>14. CASE UNCHANGED powerVars
  BY <1>1, <1>14 DEF powerVars, computer, leases, powerHistory, powerBounds
<1> QED
  BY <1>1, <1>2, <1>3, <1>4, <1>5, <1>6, <1>7, <1>8, <1>9, <1>10, <1>11, <1>12,
     <1>13, <1>14 DEF PowerNext, RunStep, CallerStep, OwnerStep, SleepStep,
     KeepAllButRow, KeepRow, SetPower, SetPowerIf, PowerFault, To, Release,
     computer, leases, powerHistory, powerBounds, TakeTurn, RetryTurn, FinishTurn,
     LoseTurn, RenewLease, StartBackground, LeaseExpires, CreateLease,
     ValidateLease, ReleaseLease, ClaimBoot, Activate, Rollback, RecordFailedBoot,
     RecordStopped, ClaimReplace, ReplaceUnlessRun, RecordDestroyed, AbandonReplace,
     SleepLoads, SleepChecks, ClaimSleep, SleepUnlessActive, RecordAsleep,
     BackgroundEnds

LEMMA PlaceStep ==
  ASSUME PlaceInv, [PowerNext]_powerVars
  PROVE  PlaceInv'
<1> USE PowerAssumption DEF PlaceInv, CallStations, EarlyOwner, LateOwner, Booting,
    Callers, Stations, Claimed, To, Look
<1>1. CASE UNCHANGED <<at>>
  BY <1>1
<1>2. ASSUME NEW b \in Bots, TakeTurn(b) PROVE PlaceInv'
  BY <1>2 DEF TakeTurn
<1>3. ASSUME NEW b \in Bots, RetryTurn(b) PROVE PlaceInv'
  BY <1>3 DEF RetryTurn
<1>4. ASSUME NEW b \in Bots, FinishTurn(b) PROVE PlaceInv'
  BY <1>4 DEF FinishTurn
<1>5. ASSUME NEW b \in Bots, LoseTurn(b) PROVE PlaceInv'
  BY <1>5 DEF LoseTurn
<1>6. ASSUME NEW c \in Callers, CreateLease(c) PROVE PlaceInv'
  BY <1>6 DEF CreateLease
<1>7. ASSUME NEW c \in Callers, ValidateLease(c) PROVE PlaceInv'
  BY <1>7 DEF ValidateLease
<1>8. ASSUME NEW c \in Callers, ReleaseLease(c) PROVE PlaceInv'
  BY <1>8 DEF ReleaseLease
<1>9. ASSUME NEW c \in Callers, Provision(c) PROVE PlaceInv'
  BY <1>9 DEF Provision
<1>10. ASSUME NEW c \in Callers, ClaimBoot(c) PROVE PlaceInv'
  BY <1>10 DEF ClaimBoot
<1>11. ASSUME NEW c \in Callers, BootBox(c) PROVE PlaceInv'
  BY <1>11 DEF BootBox
<1>12. ASSUME NEW c \in Callers, Activate(c) PROVE PlaceInv'
  BY <1>12 DEF Activate
<1>13. ASSUME NEW c \in Callers, Rollback(c) PROVE PlaceInv'
  BY <1>13 DEF Rollback
<1>14. ASSUME NEW c \in Callers, RecordFailedBoot(c) PROVE PlaceInv'
  BY <1>14 DEF RecordFailedBoot
<1>15. ASSUME NEW c \in Callers, Reconnect(c) PROVE PlaceInv'
  BY <1>15 DEF Reconnect
<1>16. ASSUME NEW op \in {"boot", "stop", "replace"}, NEW b \in Bots, OwnerRequests(op, b)
      PROVE  PlaceInv'
  BY <1>16 DEF OwnerRequests
<1>17. CASE ClaimStop
  BY <1>17 DEF ClaimStop
<1>18. CASE StopUnlessOtherRun
  BY <1>18 DEF StopUnlessOtherRun
<1>19. CASE StopBox
  BY <1>19 DEF StopBox
<1>20. CASE RecordStopped
  BY <1>20 DEF RecordStopped
<1>21. CASE ClaimReplace
  BY <1>21 DEF ClaimReplace
<1>22. CASE ReplaceUnlessRun
  BY <1>22 DEF ReplaceUnlessRun
<1>23. CASE DestroyBox
  BY <1>23 DEF DestroyBox
<1>24. CASE RecordDestroyed
  BY <1>24 DEF RecordDestroyed
<1>25. CASE AbandonReplace
  BY <1>25 DEF AbandonReplace
<1>26. CASE SleepLoads
  BY <1>26 DEF SleepLoads
<1>27. CASE SleepChecks
  BY <1>27 DEF SleepChecks
<1>28. CASE ClaimSleep
  BY <1>28 DEF ClaimSleep
<1>29. CASE SleepUnlessActive
  BY <1>29 DEF SleepUnlessActive
<1>30. CASE SleepBox
  BY <1>30 DEF SleepBox
<1>31. CASE RecordAsleep
  BY <1>31 DEF RecordAsleep
<1>32. ASSUME NEW c \in Callers \cup {Sleeper}, Dies(c) PROVE PlaceInv'
  BY <1>32 DEF Dies
<1>33. CASE UNCHANGED powerVars
  BY <1>1, <1>33 DEF powerVars, computer, leases, powerHistory, powerBounds
<1> QED
  BY <1>1, <1>2, <1>3, <1>4, <1>5, <1>6, <1>7, <1>8, <1>9, <1>10, <1>11, <1>12,
     <1>13, <1>14, <1>15, <1>16, <1>17, <1>18, <1>19, <1>20, <1>21, <1>22, <1>23,
     <1>24, <1>25, <1>26, <1>27, <1>28, <1>29, <1>30, <1>31, <1>32, <1>33 DEF
     PowerNext, RunStep, CallerStep, OwnerStep, SleepStep, KeepAllButRow, KeepRow,
     SetPower, SetPowerIf, PowerFault, To, Release, computer, leases, powerHistory,
     powerBounds, RenewLease, StartTurn, StartBackground, LeaseExpires, LeaseLapses,
     BackgroundEnds

LEMMA RunInvStep ==
  ASSUME RunInv, PlaceInv, RunTypeOK, [PowerNext]_powerVars
  PROVE  RunInv'
<1> USE PowerAssumption DEF RunInv, PlaceInv, RunTypeOK, Callers, KeepAllButRow,
    KeepRow, SetPower, SetPowerIf, PowerFault, To, computer, leases, powerHistory,
    powerBounds
<1>1. CASE UNCHANGED <<at, botRun>>
  BY <1>1
<1>2. ASSUME NEW b \in Bots, TakeTurn(b) PROVE RunInv'
  BY <1>2 DEF TakeTurn
<1>3. ASSUME NEW b \in Bots, RetryTurn(b) PROVE RunInv'
  BY <1>3 DEF RetryTurn
<1>4. ASSUME NEW b \in Bots, FinishTurn(b) PROVE RunInv'
  BY <1>4 DEF FinishTurn
<1>5. ASSUME NEW b \in Bots, LoseTurn(b) PROVE RunInv'
  BY <1>5 DEF LoseTurn
<1>6. ASSUME NEW b \in Bots, StartTurn(b) PROVE RunInv'
  BY <1>6 DEF StartTurn
<1>7. ASSUME NEW c \in Callers, CreateLease(c) PROVE RunInv'
  BY <1>7 DEF CreateLease
<1>8. ASSUME NEW c \in Callers, ValidateLease(c) PROVE RunInv'
  BY <1>8 DEF ValidateLease
<1>9. ASSUME NEW c \in Callers, ReleaseLease(c) PROVE RunInv'
  BY <1>9 DEF ReleaseLease
<1>10. ASSUME NEW c \in Callers, Provision(c) PROVE RunInv'
  BY <1>10 DEF Provision
<1>11. ASSUME NEW c \in Callers, ClaimBoot(c) PROVE RunInv'
  BY <1>11 DEF ClaimBoot
<1>12. ASSUME NEW c \in Callers, BootBox(c) PROVE RunInv'
  BY <1>12 DEF BootBox
<1>13. ASSUME NEW c \in Callers, Activate(c) PROVE RunInv'
  BY <1>13 DEF Activate
<1>14. ASSUME NEW c \in Callers, Rollback(c) PROVE RunInv'
  BY <1>14 DEF Rollback
<1>15. ASSUME NEW c \in Callers, RecordFailedBoot(c) PROVE RunInv'
  BY <1>15 DEF RecordFailedBoot
<1>16. ASSUME NEW c \in Callers, Reconnect(c) PROVE RunInv'
  BY <1>16 DEF Reconnect
<1>17. ASSUME NEW op \in {"boot", "stop", "replace"}, NEW b \in Bots, OwnerRequests(op, b)
      PROVE  RunInv'
  BY <1>17 DEF OwnerRequests
<1>18. CASE ClaimStop
  BY <1>18 DEF ClaimStop
<1>19. CASE StopUnlessOtherRun
  BY <1>19 DEF StopUnlessOtherRun
<1>20. CASE StopBox
  BY <1>20 DEF StopBox
<1>21. CASE RecordStopped
  BY <1>21 DEF RecordStopped
<1>22. CASE ClaimReplace
  BY <1>22 DEF ClaimReplace
<1>23. CASE ReplaceUnlessRun
  BY <1>23 DEF ReplaceUnlessRun
<1>24. CASE DestroyBox
  BY <1>24 DEF DestroyBox
<1>25. CASE RecordDestroyed
  BY <1>25 DEF RecordDestroyed
<1>26. CASE AbandonReplace
  BY <1>26 DEF AbandonReplace
<1>27. CASE SleepLoads
  BY <1>27 DEF SleepLoads
<1>28. CASE SleepChecks
  BY <1>28 DEF SleepChecks
<1>29. CASE ClaimSleep
  BY <1>29 DEF ClaimSleep
<1>30. CASE SleepUnlessActive
  BY <1>30 DEF SleepUnlessActive
<1>31. CASE SleepBox
  BY <1>31 DEF SleepBox
<1>32. CASE RecordAsleep
  BY <1>32 DEF RecordAsleep
<1>33. ASSUME NEW c \in Callers \cup {Sleeper}, Dies(c) PROVE RunInv'
  BY <1>33 DEF Dies
<1>34. CASE UNCHANGED powerVars
  BY <1>1, <1>34 DEF powerVars, computer, leases, powerHistory, powerBounds
<1> QED
  BY <1>1, <1>2, <1>3, <1>4, <1>5, <1>6, <1>7, <1>8, <1>9, <1>10, <1>11, <1>12,
     <1>13, <1>14, <1>15, <1>16, <1>17, <1>18, <1>19, <1>20, <1>21, <1>22, <1>23,
     <1>24, <1>25, <1>26, <1>27, <1>28, <1>29, <1>30, <1>31, <1>32, <1>33, <1>34 DEF
     PowerNext, RunStep, CallerStep, OwnerStep, SleepStep, KeepAllButRow, KeepRow,
     SetPower, SetPowerIf, PowerFault, To, Release, computer, leases, powerHistory,
     powerBounds, RenewLease, StartBackground, LeaseExpires, LeaseLapses,
     BackgroundEnds

LEMMA RequestStep ==
  ASSUME RequestInv, PlaceInv, RowTypeOK, [PowerNext]_powerVars
  PROVE  RequestInv'
<1> USE PowerAssumption DEF RequestInv, PlaceInv, RowTypeOK, PowerStates,
    Transitional, Callers, KeepAllButRow, KeepRow, SetPower, SetPowerIf, PowerFault,
    To, computer, leases, powerHistory, powerBounds
<1>1. CASE UNCHANGED <<at, request>>
  BY <1>1
<1>2. ASSUME NEW b \in Bots, TakeTurn(b) PROVE RequestInv'
  BY <1>2 DEF TakeTurn, Look
<1>3. ASSUME NEW b \in Bots, RetryTurn(b) PROVE RequestInv'
  BY <1>3 DEF RetryTurn
<1>4. ASSUME NEW b \in Bots, FinishTurn(b) PROVE RequestInv'
  BY <1>4 DEF FinishTurn
<1>5. ASSUME NEW b \in Bots, LoseTurn(b) PROVE RequestInv'
  BY <1>5 DEF LoseTurn
<1>6. ASSUME NEW c \in Callers, CreateLease(c) PROVE RequestInv'
  BY <1>6 DEF CreateLease
<1>7. ASSUME NEW c \in Callers, ValidateLease(c) PROVE RequestInv'
  BY <1>7 DEF ValidateLease
<1>8. ASSUME NEW c \in Callers, ReleaseLease(c) PROVE RequestInv'
  BY <1>8 DEF ReleaseLease
<1>9. ASSUME NEW c \in Callers, Provision(c) PROVE RequestInv'
  BY <1>9 DEF Provision
<1>10. ASSUME NEW c \in Callers, ClaimBoot(c) PROVE RequestInv'
  BY <1>10 DEF ClaimBoot
<1>11. ASSUME NEW c \in Callers, BootBox(c) PROVE RequestInv'
  BY <1>11 DEF BootBox
<1>12. ASSUME NEW c \in Callers, Activate(c) PROVE RequestInv'
  BY <1>12 DEF Activate
<1>13. ASSUME NEW c \in Callers, Rollback(c) PROVE RequestInv'
  BY <1>13 DEF Rollback
<1>14. ASSUME NEW c \in Callers, RecordFailedBoot(c) PROVE RequestInv'
  BY <1>14 DEF RecordFailedBoot
<1>15. ASSUME NEW c \in Callers, Reconnect(c) PROVE RequestInv'
  BY <1>15 DEF Reconnect
<1>16. ASSUME NEW op \in {"boot", "stop", "replace"}, NEW b \in Bots, OwnerRequests(op, b)
      PROVE  RequestInv'
  <2>1. request' \in Requests
    BY <1>16 DEF OwnerRequests, Requests
  <2> QED
    BY <1>16, <2>1 DEF OwnerRequests, Look
<1>17. CASE ClaimStop
  <2>1. request' \in Requests /\ (at'[Owner] = "stopRun" => request'.took # "suspending")
    BY <1>17 DEF ClaimStop, Requests
  <2> QED
    BY <1>17, <2>1 DEF ClaimStop
<1>18. CASE StopUnlessOtherRun
  BY <1>18 DEF StopUnlessOtherRun
<1>19. CASE StopBox
  BY <1>19 DEF StopBox
<1>20. CASE RecordStopped
  BY <1>20 DEF RecordStopped
<1>21. CASE ClaimReplace
  <2>1. /\ request' \in Requests
        /\ at'[Owner] = "replaceRun" => request'.read \notin {"booting", "suspending"}
    BY <1>21 DEF ClaimReplace, Requests
  <2> QED
    BY <1>21, <2>1 DEF ClaimReplace
<1>22. CASE ReplaceUnlessRun
  BY <1>22 DEF ReplaceUnlessRun
<1>23. CASE DestroyBox
  BY <1>23 DEF DestroyBox
<1>24. CASE RecordDestroyed
  BY <1>24 DEF RecordDestroyed
<1>25. CASE AbandonReplace
  BY <1>25 DEF AbandonReplace
<1>26. CASE SleepLoads
  BY <1>26 DEF SleepLoads
<1>27. CASE SleepChecks
  BY <1>27 DEF SleepChecks
<1>28. CASE ClaimSleep
  BY <1>28 DEF ClaimSleep
<1>29. CASE SleepUnlessActive
  BY <1>29 DEF SleepUnlessActive
<1>30. CASE SleepBox
  BY <1>30 DEF SleepBox
<1>31. CASE RecordAsleep
  BY <1>31 DEF RecordAsleep
<1>32. ASSUME NEW c \in Callers \cup {Sleeper}, Dies(c) PROVE RequestInv'
  BY <1>32 DEF Dies
<1>33. CASE UNCHANGED powerVars
  BY <1>1, <1>33 DEF powerVars, computer, leases, powerHistory, powerBounds
<1> QED
  BY <1>1, <1>2, <1>3, <1>4, <1>5, <1>6, <1>7, <1>8, <1>9, <1>10, <1>11, <1>12,
     <1>13, <1>14, <1>15, <1>16, <1>17, <1>18, <1>19, <1>20, <1>21, <1>22, <1>23,
     <1>24, <1>25, <1>26, <1>27, <1>28, <1>29, <1>30, <1>31, <1>32, <1>33 DEF
     PowerNext, RunStep, CallerStep, OwnerStep, SleepStep, KeepAllButRow, KeepRow,
     SetPower, SetPowerIf, PowerFault, To, Release, computer, leases, powerHistory,
     powerBounds, RenewLease, StartTurn, StartBackground, LeaseExpires, LeaseLapses,
     BackgroundEnds

LEMMA OwnedStep ==
  ASSUME OwnedInv, PlaceInv, RequestInv, RowTypeOK, FlagTypeOK, [PowerNext]_powerVars
  PROVE  OwnedInv'
<1> USE PowerAssumption DEF OwnedInv, PlaceInv, RequestInv, RowTypeOK, FlagTypeOK,
    PowerStates, Transitional, Suspending, Claimed, Booting, CallStations,
    EarlyOwner, LateOwner, Callers, KeepAllButRow, KeepRow, SetPower, SetPowerIf,
    PowerFault, To, computer, leases, powerHistory, powerBounds
<1>1. CASE UNCHANGED <<at, power, died, putBack>>
  BY <1>1
<1>2. ASSUME NEW b \in Bots, TakeTurn(b) PROVE OwnedInv'
  BY <1>2 DEF TakeTurn
<1>3. ASSUME NEW b \in Bots, RetryTurn(b) PROVE OwnedInv'
  BY <1>3 DEF RetryTurn
<1>4. ASSUME NEW b \in Bots, FinishTurn(b) PROVE OwnedInv'
  BY <1>4 DEF FinishTurn
<1>5. ASSUME NEW b \in Bots, LoseTurn(b) PROVE OwnedInv'
  BY <1>5 DEF LoseTurn
<1>6. ASSUME NEW c \in Callers, CreateLease(c) PROVE OwnedInv'
  BY <1>6 DEF CreateLease
<1>7. ASSUME NEW c \in Callers, ValidateLease(c) PROVE OwnedInv'
  BY <1>7 DEF ValidateLease
<1>8. ASSUME NEW c \in Callers, ReleaseLease(c) PROVE OwnedInv'
  BY <1>8 DEF ReleaseLease
<1>9. ASSUME NEW c \in Callers, Provision(c) PROVE OwnedInv'
  BY <1>9 DEF Provision
<1>10. ASSUME NEW c \in Callers, ClaimBoot(c) PROVE OwnedInv'
  BY <1>10 DEF ClaimBoot
<1>11. ASSUME NEW c \in Callers, BootBox(c) PROVE OwnedInv'
  BY <1>11 DEF BootBox
<1>12. ASSUME NEW c \in Callers, Activate(c) PROVE OwnedInv'
  BY <1>12 DEF Activate
<1>13. ASSUME NEW c \in Callers, Rollback(c) PROVE OwnedInv'
  BY <1>13 DEF Rollback
<1>14. ASSUME NEW c \in Callers, RecordFailedBoot(c) PROVE OwnedInv'
  BY <1>14 DEF RecordFailedBoot
<1>15. ASSUME NEW c \in Callers, Reconnect(c) PROVE OwnedInv'
  BY <1>15 DEF Reconnect
<1>16. ASSUME NEW op \in {"boot", "stop", "replace"}, NEW b \in Bots, OwnerRequests(op, b)
      PROVE  OwnedInv'
  BY <1>16 DEF OwnerRequests
<1>17. CASE ClaimStop
  BY <1>17 DEF ClaimStop
<1>18. CASE StopUnlessOtherRun
  BY <1>18 DEF StopUnlessOtherRun
<1>19. CASE StopBox
  BY <1>19 DEF StopBox
<1>20. CASE RecordStopped
  BY <1>20 DEF RecordStopped
<1>21. CASE ClaimReplace
  BY <1>21 DEF ClaimReplace
<1>22. CASE ReplaceUnlessRun
  BY <1>22 DEF ReplaceUnlessRun
<1>23. CASE DestroyBox
  BY <1>23 DEF DestroyBox
<1>24. CASE RecordDestroyed
  BY <1>24 DEF RecordDestroyed
<1>25. CASE AbandonReplace
  BY <1>25 DEF AbandonReplace
<1>26. CASE SleepLoads
  BY <1>26 DEF SleepLoads
<1>27. CASE SleepChecks
  BY <1>27 DEF SleepChecks
<1>28. CASE ClaimSleep
  BY <1>28 DEF ClaimSleep
<1>29. CASE SleepUnlessActive
  BY <1>29 DEF SleepUnlessActive, ResumeRow
<1>30. CASE SleepBox
  BY <1>30 DEF SleepBox
<1>31. CASE RecordAsleep
  BY <1>31 DEF RecordAsleep
<1>32. ASSUME NEW c \in Callers \cup {Sleeper}, Dies(c) PROVE OwnedInv'
  BY <1>32 DEF Dies
<1>33. CASE UNCHANGED powerVars
  BY <1>1, <1>33 DEF powerVars, computer, leases, powerHistory, powerBounds
<1> QED
  BY <1>1, <1>2, <1>3, <1>4, <1>5, <1>6, <1>7, <1>8, <1>9, <1>10, <1>11, <1>12,
     <1>13, <1>14, <1>15, <1>16, <1>17, <1>18, <1>19, <1>20, <1>21, <1>22, <1>23,
     <1>24, <1>25, <1>26, <1>27, <1>28, <1>29, <1>30, <1>31, <1>32, <1>33 DEF
     PowerNext, RunStep, CallerStep, OwnerStep, SleepStep, KeepAllButRow, KeepRow,
     SetPower, SetPowerIf, PowerFault, To, Release, computer, leases, powerHistory,
     powerBounds, RenewLease, StartTurn, StartBackground, LeaseExpires, LeaseLapses,
     BackgroundEnds

LEMMA AloneStep ==
  ASSUME AloneInv, PlaceInv, RequestInv, RowTypeOK, FlagTypeOK, [PowerNext]_powerVars
  PROVE  AloneInv'
<1> USE PowerAssumption DEF AloneInv, PlaceInv, RequestInv, RowTypeOK, FlagTypeOK,
    PowerStates, Transitional, Suspending, Claimed, Booting, CallStations,
    EarlyOwner, LateOwner, Callers, KeepAllButRow, KeepRow, SetPower, SetPowerIf,
    PowerFault, To, computer, leases, powerHistory, powerBounds
<1>1. CASE UNCHANGED <<at, power, overtaken, putBack>>
  BY <1>1
<1>2. ASSUME NEW b \in Bots, TakeTurn(b) PROVE AloneInv'
  BY <1>2 DEF TakeTurn, Look
<1>3. ASSUME NEW b \in Bots, RetryTurn(b) PROVE AloneInv'
  BY <1>3 DEF RetryTurn
<1>4. ASSUME NEW b \in Bots, FinishTurn(b) PROVE AloneInv'
  BY <1>4 DEF FinishTurn
<1>5. ASSUME NEW b \in Bots, LoseTurn(b) PROVE AloneInv'
  BY <1>5 DEF LoseTurn
<1>6. ASSUME NEW c \in Callers, CreateLease(c) PROVE AloneInv'
  BY <1>6 DEF CreateLease
<1>7. ASSUME NEW c \in Callers, ValidateLease(c) PROVE AloneInv'
  BY <1>7 DEF ValidateLease
<1>8. ASSUME NEW c \in Callers, ReleaseLease(c) PROVE AloneInv'
  BY <1>8 DEF ReleaseLease
<1>9. ASSUME NEW c \in Callers, Provision(c) PROVE AloneInv'
  BY <1>9 DEF Provision
<1>10. ASSUME NEW c \in Callers, ClaimBoot(c) PROVE AloneInv'
  BY <1>10 DEF ClaimBoot
<1>11. ASSUME NEW c \in Callers, BootBox(c) PROVE AloneInv'
  BY <1>11 DEF BootBox
<1>12. ASSUME NEW c \in Callers, Activate(c) PROVE AloneInv'
  BY <1>12 DEF Activate
<1>13. ASSUME NEW c \in Callers, Rollback(c) PROVE AloneInv'
  BY <1>13 DEF Rollback
<1>14. ASSUME NEW c \in Callers, RecordFailedBoot(c) PROVE AloneInv'
  BY <1>14 DEF RecordFailedBoot
<1>15. ASSUME NEW c \in Callers, Reconnect(c) PROVE AloneInv'
  BY <1>15 DEF Reconnect
<1>16. ASSUME NEW op \in {"boot", "stop", "replace"}, NEW b \in Bots, OwnerRequests(op, b)
      PROVE  AloneInv'
  BY <1>16 DEF OwnerRequests, Look
<1>17. CASE ClaimStop
  <2>1. CASE at'[Owner] = "stopRun"
    <3>1. /\ power' = "suspending" /\ putBack' = putBack
          /\ ~overtaken' => ~overtaken /\ power # "booting" /\ power # "suspending"
      BY <1>17, <2>1 DEF ClaimStop
    <3>2. \A c \in Callers \cup {Sleeper} : c # Owner => at'[c] = at[c]
      BY <1>17 DEF ClaimStop
    <3> QED
      BY <2>1, <3>1, <3>2
  <2>2. CASE at'[Owner] # "stopRun"
    BY <1>17, <2>2 DEF ClaimStop
  <2> QED
    BY <2>1, <2>2
<1>18. CASE StopUnlessOtherRun
  <2>1. CASE at'[Owner] = "idle"
    <3>1. /\ overtaken' = overtaken /\ at[Owner] = "stopRun"
          /\ power' = IF power = "suspending" THEN request.read ELSE power
      BY <1>18, <2>1 DEF StopUnlessOtherRun
    <3>2. ~putBack' => ~putBack /\ request.read \notin {"booting", "suspending"}
      BY <1>18, <2>1 DEF StopUnlessOtherRun
    <3>3. \A c \in Callers \cup {Sleeper} : c # Owner => at'[c] = at[c]
      BY <1>18 DEF StopUnlessOtherRun
    <3> QED
      BY <2>1, <3>1, <3>2, <3>3
  <2>2. CASE at'[Owner] # "idle"
    BY <1>18, <2>2, ZenonT(60) DEF StopUnlessOtherRun
  <2> QED
    BY <2>1, <2>2
<1>19. CASE StopBox
  BY <1>19 DEF StopBox
<1>20. CASE RecordStopped
  BY <1>20 DEF RecordStopped
<1>21. CASE ClaimReplace
  BY <1>21 DEF ClaimReplace
<1>22. CASE ReplaceUnlessRun
  BY <1>22 DEF ReplaceUnlessRun
<1>23. CASE DestroyBox
  BY <1>23 DEF DestroyBox
<1>24. CASE RecordDestroyed
  BY <1>24 DEF RecordDestroyed
<1>25. CASE AbandonReplace
  BY <1>25 DEF AbandonReplace
<1>26. CASE SleepLoads
  BY <1>26 DEF SleepLoads
<1>27. CASE SleepChecks
  BY <1>27 DEF SleepChecks
<1>28. CASE ClaimSleep
  BY <1>28 DEF ClaimSleep
<1>29. CASE SleepUnlessActive
  BY <1>29 DEF SleepUnlessActive, ResumeRow
<1>30. CASE SleepBox
  BY <1>30 DEF SleepBox
<1>31. CASE RecordAsleep
  BY <1>31 DEF RecordAsleep
<1>32. ASSUME NEW c \in Callers \cup {Sleeper}, Dies(c) PROVE AloneInv'
  BY <1>32 DEF Dies
<1>33. CASE UNCHANGED powerVars
  BY <1>1, <1>33 DEF powerVars, computer, leases, powerHistory, powerBounds
<1> QED
  BY <1>1, <1>2, <1>3, <1>4, <1>5, <1>6, <1>7, <1>8, <1>9, <1>10, <1>11, <1>12,
     <1>13, <1>14, <1>15, <1>16, <1>17, <1>18, <1>19, <1>20, <1>21, <1>22, <1>23,
     <1>24, <1>25, <1>26, <1>27, <1>28, <1>29, <1>30, <1>31, <1>32, <1>33 DEF
     PowerNext, RunStep, CallerStep, OwnerStep, SleepStep, KeepAllButRow, KeepRow,
     SetPower, SetPowerIf, PowerFault, To, Release, computer, leases, powerHistory,
     powerBounds, RenewLease, StartTurn, StartBackground, LeaseExpires, LeaseLapses,
     BackgroundEnds

LEMMA WorkStep ==
  ASSUME PowerInv, [PowerNext]_powerVars
  PROVE  WorkInv'
<1> USE PowerAssumption DEF PowerInv, AloneInv, WorkInv, RunInv, RunTypeOK,
    PlaceInv, RequestInv, RowTypeOK, FlagTypeOK, PowerStates, Transitional,
    Suspending, Claimed, Booting, CallStations, EarlyOwner, LateOwner, Callers,
    KeepAllButRow, KeepRow, SetPower, SetPowerIf, PowerFault, To, computer, leases,
    powerHistory, powerBounds
<1>1. CASE UNCHANGED <<at, power, overtaken, putBack, halted, background, request>>
  BY <1>1
<1>2. ASSUME NEW b \in Bots, TakeTurn(b) PROVE WorkInv'
  BY <1>2 DEF TakeTurn, Look
<1>3. ASSUME NEW b \in Bots, RetryTurn(b) PROVE WorkInv'
  BY <1>3 DEF RetryTurn
<1>4. ASSUME NEW b \in Bots, FinishTurn(b) PROVE WorkInv'
  BY <1>4 DEF FinishTurn
<1>5. ASSUME NEW b \in Bots, LoseTurn(b) PROVE WorkInv'
  BY <1>5 DEF LoseTurn
<1>6. ASSUME NEW b \in Bots, StartBackground(b) PROVE WorkInv'
  BY <1>6 DEF StartBackground
<1>7. ASSUME NEW c \in Callers, CreateLease(c) PROVE WorkInv'
  BY <1>7 DEF CreateLease
<1>8. ASSUME NEW c \in Callers, ValidateLease(c) PROVE WorkInv'
  BY <1>8 DEF ValidateLease
<1>9. ASSUME NEW c \in Callers, ReleaseLease(c) PROVE WorkInv'
  BY <1>9 DEF ReleaseLease
<1>10. ASSUME NEW c \in Callers, Provision(c) PROVE WorkInv'
  BY <1>10 DEF Provision
<1>11. ASSUME NEW c \in Callers, ClaimBoot(c) PROVE WorkInv'
  BY <1>11 DEF ClaimBoot
<1>12. ASSUME NEW c \in Callers, BootBox(c) PROVE WorkInv'
  BY <1>12 DEF BootBox
<1>13. ASSUME NEW c \in Callers, Activate(c) PROVE WorkInv'
  BY <1>13 DEF Activate
<1>14. ASSUME NEW c \in Callers, Rollback(c) PROVE WorkInv'
  BY <1>14 DEF Rollback
<1>15. ASSUME NEW c \in Callers, RecordFailedBoot(c) PROVE WorkInv'
  BY <1>15 DEF RecordFailedBoot
<1>16. ASSUME NEW c \in Callers, Reconnect(c) PROVE WorkInv'
  BY <1>16 DEF Reconnect
<1>17. ASSUME NEW op \in {"boot", "stop", "replace"}, NEW b \in Bots, OwnerRequests(op, b)
      PROVE  WorkInv'
  BY <1>17 DEF OwnerRequests, Look
<1>18. CASE ClaimStop
  <2>1. CASE at'[Owner] = "stopRun"
    <3>1. /\ UNCHANGED <<halted, putBack, background>> /\ at' = [at EXCEPT ![Owner] = "stopRun"]
          /\ ~overtaken' => ~overtaken /\ power # "booting"
          /\ power # "suspending" /\ power' = "suspending"
      BY <1>18, <2>1 DEF ClaimStop
    <3>2. request'.took = power
      BY <1>18, <2>1 DEF ClaimStop, Requests
    <3> HIDE DEF RowTypeOK, FlagTypeOK, RunTypeOK
    <3>3. ~overtaken' /\ ~putBack' => at[Sleeper] \notin {"sleepBox", "asleep"}
      BY <3>1
    <3>4. ~overtaken' /\ ~putBack' =>
            \A b \in Bots : at[b] \in {"reconnect", "work"} /\ b \notin halted =>
                            power = "running"
      BY <3>1
    <3> QED
      BY <3>1, <3>2, <3>3, <3>4
  <2>2. CASE at'[Owner] # "stopRun"
    BY <1>18, <2>2 DEF ClaimStop
  <2> QED
    BY <2>1, <2>2
<1>19. CASE StopUnlessOtherRun
  <2>0. /\ at[Owner] = "stopRun" /\ UNCHANGED <<overtaken, background, botRun, request>>
        /\ \A c \in Bots \cup {Sleeper} : at'[c] = at[c]
    BY <1>19 DEF StopUnlessOtherRun
  <2>1. CASE at'[Owner] = "idle"
    <3>1. /\ UNCHANGED halted
          /\ power' = IF power = "suspending" THEN request.read ELSE power
      BY <1>19, <2>1 DEF StopUnlessOtherRun
    <3>2. ~putBack' => ~putBack /\ request.read = request.took
      BY <1>19, <2>1 DEF StopUnlessOtherRun
    <3> HIDE DEF RowTypeOK, FlagTypeOK, RunTypeOK
    <3> QED
      BY <2>0, <2>1, <3>1, <3>2
  <2>2. CASE at'[Owner] # "idle"
    <3>1. /\ UNCHANGED <<putBack, power>> /\ halted' = halted \cup {request.bot}
          /\ \A b \in Bots \ {request.bot} : botRun[b] = "none"
      BY <1>19, <2>2 DEF StopUnlessOtherRun, ActiveTurn
    <3>2. \A b \in Bots : at'[b] \in {"reconnect", "work"} => b \in halted'
      BY <2>0, <3>1
    <3> HIDE DEF RowTypeOK, FlagTypeOK, RunTypeOK
    <3>3. ~overtaken' /\ ~putBack' => at'[Sleeper] # "sleepBox"
      BY <2>0, <3>1
    <3> QED
      BY <3>2, <3>3
  <2> QED
    BY <2>1, <2>2
<1>20. CASE StopBox
  BY <1>20 DEF StopBox
<1>21. CASE RecordStopped
  BY <1>21 DEF RecordStopped
<1>22. CASE ClaimReplace
  <2>1. CASE at'[Owner] = "replaceRun"
    <3>1. /\ UNCHANGED <<halted, putBack, overtaken, background>>
          /\ at' = [at EXCEPT ![Owner] = "replaceRun"]
          /\ power \notin {"booting", "suspending"} /\ power' = "suspending"
      BY <1>22, <2>1 DEF ClaimReplace
    <3>2. request'.read = power
      BY <1>22, <2>1 DEF ClaimReplace, Requests
    <3> HIDE DEF RowTypeOK, FlagTypeOK, RunTypeOK
    <3>3. ~overtaken' /\ ~putBack' => at[Sleeper] \notin {"sleepBox", "asleep"}
      BY <3>1
    <3>4. ~overtaken' /\ ~putBack' =>
            \A b \in Bots : at[b] \in {"reconnect", "work"} /\ b \notin halted =>
                            power = "running"
      BY <3>1
    <3> QED
      BY <3>1, <3>2, <3>3, <3>4
  <2>2. CASE at'[Owner] # "replaceRun"
    BY <1>22, <2>2 DEF ClaimReplace
  <2> QED
    BY <2>1, <2>2
<1>23. CASE ReplaceUnlessRun
  BY <1>23 DEF ReplaceUnlessRun, ActiveTurn
<1>24. CASE DestroyBox
  BY <1>24 DEF DestroyBox
<1>25. CASE RecordDestroyed
  BY <1>25 DEF RecordDestroyed
<1>26. CASE AbandonReplace
  BY <1>26 DEF AbandonReplace
<1>27. CASE SleepLoads
  BY <1>27 DEF SleepLoads
<1>28. CASE SleepChecks
  BY <1>28 DEF SleepChecks
<1>29. CASE ClaimSleep
  BY <1>29 DEF ClaimSleep
<1>30. CASE SleepUnlessActive
  BY <1>30 DEF SleepUnlessActive, ResumeRow, ActiveTurn
<1>31. CASE SleepBox
  BY <1>31 DEF SleepBox
<1>32. CASE RecordAsleep
  BY <1>32 DEF RecordAsleep
<1>33. CASE BackgroundEnds
  BY <1>33 DEF BackgroundEnds
<1>34. ASSUME NEW c \in Callers \cup {Sleeper}, Dies(c) PROVE WorkInv'
  BY <1>34 DEF Dies
<1>35. CASE UNCHANGED powerVars
  BY <1>1, <1>35 DEF powerVars, computer, leases, powerHistory, powerBounds
<1> QED
  BY <1>1, <1>2, <1>3, <1>4, <1>5, <1>6, <1>7, <1>8, <1>9, <1>10, <1>11, <1>12,
     <1>13, <1>14, <1>15, <1>16, <1>17, <1>18, <1>19, <1>20, <1>21, <1>22, <1>23,
     <1>24, <1>25, <1>26, <1>27, <1>28, <1>29, <1>30, <1>31, <1>32, <1>33, <1>34,
     <1>35 DEF PowerNext, RunStep, CallerStep, OwnerStep, SleepStep, KeepAllButRow,
     KeepRow, SetPower, SetPowerIf, PowerFault, To, Release, computer, leases,
     powerHistory, powerBounds, RenewLease, StartTurn, LeaseExpires, LeaseLapses

-----------------------------------------------------------------------------
(* The invariant.                                                          *)

LEMMA PowerInvStart == PowerInit => PowerInv
<1> SUFFICES ASSUME PowerInit PROVE PowerInv
  OBVIOUS
<1> USE PowerAssumption DEF PowerInit
<1>1. RowTypeOK /\ RunTypeOK
  BY DEF RowTypeOK, PowerStates, RunTypeOK
<1>2. LeaseTypeOK /\ FlagTypeOK
  BY DEF LeaseTypeOK, FlagTypeOK
<1>3. PlaceInv
  BY DEF PlaceInv, CallStations, Callers, Stations
<1>4. request \in Requests
  BY DEF Requests, PowerStates
<1>5. RunInv /\ RequestInv
  BY <1>4 DEF RunInv, RequestInv, Callers
<1>6. OwnedInv
  BY DEF OwnedInv
<1>7. AloneInv /\ WorkInv
  BY DEF AloneInv, WorkInv, Callers, Suspending, Claimed, Booting
<1> QED
  BY <1>1, <1>2, <1>3, <1>5, <1>6, <1>7 DEF PowerInv

LEMMA PowerInvStep == PowerInv /\ [PowerNext]_powerVars => PowerInv'
<1> SUFFICES ASSUME PowerInv, [PowerNext]_powerVars PROVE PowerInv'
  OBVIOUS
<1>1. request \in Requests
  BY DEF PowerInv, RequestInv
<1>2. RowTypeOK' /\ LeaseTypeOK' /\ RunTypeOK' /\ FlagTypeOK'
  BY <1>1, RowTypeStep, LeaseTypeStep, RunTypeStep, FlagTypeStep DEF PowerInv
<1>3. PlaceInv' /\ RunInv' /\ RequestInv'
  BY PlaceStep, RunInvStep, RequestStep DEF PowerInv
<1>4. OwnedInv' /\ AloneInv'
  BY OwnedStep, AloneStep DEF PowerInv
<1> QED
  BY <1>2, <1>3, <1>4, WorkStep DEF PowerInv

LEMMA PowerInvHolds == PowerInit /\ [][PowerNext]_powerVars => []PowerInv
  BY PowerInvStart, PowerInvStep, PTL

-----------------------------------------------------------------------------
(* The theorems.                                                           *)

\* Every variable has its type, a process's station included.
THEOREM PowerTypeCorrect == PowerSpec => []PowerTypeOK
<1>1. PowerInv => PowerTypeOK
  BY DEF PowerInv, PowerTypeOK, RowTypeOK, LeaseTypeOK, RunTypeOK, FlagTypeOK, PlaceInv,
         RequestInv
<1> QED
  BY <1>1, PowerInvHolds, PTL DEF PowerSpec

\* A booting or suspending row always has the process that will move it on,
\* unless one died or a stop put back a state it had not taken.
THEOREM TransitionsAreOwned == PowerSpec => []TransitionOwned
<1>1. PowerInv => TransitionOwned
  BY DEF PowerInv, OwnedInv, TransitionOwned, Transitional, Suspending, Booting, Claimed
<1> QED
  BY <1>1, PowerInvHolds, PTL DEF PowerSpec

\* The state column is a lock: two processes are never both between a claim
\* and its end, unless a stop overtook a boot or put back another's state.
OneTransition ==
  ~overtaken /\ ~putBack =>
    \A c, d \in Callers \cup {Sleeper} :
      at[c] \in Claimed /\ at[d] \in Claimed => c = d
THEOREM TransitionsAreAlone == PowerSpec => []OneTransition
<1>1. PowerInv => OneTransition
  BY DEF PowerInv, AloneInv, OneTransition
<1> QED
  BY <1>1, PowerInvHolds, PTL DEF PowerSpec

\* Whatever stops or destroys the sandbox, no run works on it that the owner
\* did not stop: the four steps that do it each follow a look at the active
\* runs, and no run comes to work while the row is suspending or booting.
THEOREM WorkIsUndisturbed == PowerSpec => WorkUndisturbed
<1>1. ASSUME PowerInv, [PowerNext]_powerVars, box = "up", box' # "up", ~overtaken, ~putBack
      PROVE  /\ \A b \in Bots : at[b] = "work" => b \in halted
             /\ at[Sleeper] = "sleepBox" => ~background
  <2> USE DEF PowerInv
  <2>1. \/ \E c \in Callers : Rollback(c)
        \/ StopBox \/ DestroyBox \/ SleepBox
    BY <1>1
    DEF PowerNext, RunStep, CallerStep, OwnerStep, SleepStep, powerVars, computer,
        KeepAllButRow, TakeTurn, RetryTurn, FinishTurn, LoseTurn, RenewLease, StartTurn,
        StartBackground, LeaseExpires, LeaseLapses, CreateLease, ValidateLease,
        ReleaseLease, Provision, ClaimBoot, BootBox, Activate, RecordFailedBoot,
        Reconnect, OwnerRequests, ClaimStop, StopUnlessOtherRun, RecordStopped,
        ClaimReplace, ReplaceUnlessRun, RecordDestroyed, AbandonReplace, SleepLoads,
        SleepChecks, ClaimSleep, SleepUnlessActive, RecordAsleep, BackgroundEnds, Dies
  <2>2. \/ \E c \in Callers : at[c] = "rollback"
        \/ at[Owner] \in LateOwner
        \/ at[Sleeper] = "sleepBox"
    BY <2>1 DEF Rollback, StopBox, DestroyBox, SleepBox, LateOwner
  <2>3. at[Sleeper] = "sleepBox" => ~background /\ \A b \in Bots : at[b] # "work"
    BY <1>1 DEF WorkInv
  <2>4. ASSUME NEW c \in Callers, at[c] = "rollback"
        PROVE  \A b \in Bots : at[b] = "work" => b \in halted
    <3>1. power = "booting"
      BY <1>1, <2>4 DEF AloneInv, Booting
    <3> QED
      BY <1>1, <3>1 DEF WorkInv
  <2>5. ASSUME at[Owner] \in LateOwner
        PROVE  \A b \in Bots : at[b] = "work" => b \in halted
    <3>1. power = "suspending"
      BY <1>1, <2>5 DEF AloneInv, Suspending, Claimed, Booting, LateOwner, Callers
    <3> QED
      BY <1>1, <2>5, <3>1 DEF WorkInv
  <2> QED
    BY <2>2, <2>3, <2>4, <2>5
<1>2. PowerInv /\ [PowerNext]_powerVars =>
        [ (box = "up" /\ box' # "up" /\ ~overtaken /\ ~putBack) =>
            /\ \A b \in Bots : at[b] = "work" => b \in halted
            /\ at[Sleeper] = "sleepBox" => ~background ]_powerVars
  BY <1>1
<1> QED
  BY <1>2, PowerInvHolds, PTL DEF PowerSpec, WorkUndisturbed
===============================================================================
