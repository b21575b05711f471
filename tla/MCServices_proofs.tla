--------------------------- MODULE MCServices_proofs ---------------------------
(***************************************************************************)
(* The composition that the runs of the services explore: whatever is      *)
(* proved of a service alone holds there.                                  *)
(***************************************************************************)
EXTENDS MCServices, Conversation_proofs, ComputerPower_proofs,
        MessagingOutbox_proofs, Services_proofs

\* A step of one service is a step of it and leaves the others as they are.
LEMMA StepsOfAll ==
  ASSUME [MCNext]_mcVars
  PROVE  /\ [ConvNext]_convVars /\ [FollowNext]_followVars
         /\ [RoutineNext]_routineVars /\ [PowerNext]_powerVars
         /\ [QueueNext]_queueVars /\ [LeadNext]_leadVars
         /\ [OutboxNext]_outboxVars /\ [DelegationNext]_delegationVars
         /\ [GroupNext]_groupVars
         /\ service' = service
BY DEF MCNext, mcVars, InConversation, InFollowers, InRoutines, InPower,
   InQueue, InLeadership, InOutbox, InDelegation, InGroups

\* Every behaviour of the composition is one of each service, its fairness
\* aside: no service disturbs another.
THEOREM ServicesAreApart ==
  MCSafety => /\ ConvInit /\ [][ConvNext]_convVars
              /\ FollowInit /\ [][FollowNext]_followVars
              /\ RoutineInit /\ [][RoutineNext]_routineVars
              /\ PowerInit /\ [][PowerNext]_powerVars
              /\ QueueSpec
              /\ LeadInit /\ [][LeadNext]_leadVars
              /\ OutboxInit /\ [][OutboxNext]_outboxVars
              /\ DelegationSafety
              /\ GroupSpec
<1>1. MCInit => /\ ConvInit /\ FollowInit /\ RoutineInit /\ PowerInit
                /\ QueueInit /\ LeadInit /\ OutboxInit /\ DelegationInit
                /\ GroupInit
  BY DEF MCInit
<1> QED
  BY <1>1, StepsOfAll, PTL DEF MCSafety, QueueSpec, DelegationSafety, GroupSpec

\* So the invariants of all of them hold together.
THEOREM ServicesInvariant ==
  MCSafety => [](/\ ConvInv /\ FollowInv /\ RoutineInv /\ PowerInv
                 /\ QueueInv /\ LockInv /\ OutboxInv /\ DelegationInv
                 /\ GroupInd)
BY ServicesAreApart, ConvInvHolds, FollowInvariant, RoutineInvHolds,
   PowerInvHolds, QueueInvariant, LockInvHolds, OutboxInvariant,
   DelegationInvariant, GroupInductive, PTL

\* And the variables of each keep their types.
THEOREM ServicesTypeCorrect == MCSafety => []ServicesTypeOK
<1>1. MCInit => service \in Services
  BY DEF MCInit
<1>2. service \in Services /\ [MCNext]_mcVars => (service \in Services)'
  BY StepsOfAll
<1>3. ConvInv => ConvTypeOK
  BY DEF ConvInv, ConvTypeOK, RunsTypeOK, SteeringTypeOK, AttemptTypeOK,
     TalkTypeOK
<1>4. PowerInv => PowerTypeOK
  BY DEF PowerInv, PowerTypeOK, RowTypeOK, LeaseTypeOK, RunTypeOK, FlagTypeOK,
     PlaceInv, RequestInv
<1>5. /\ FollowInv => FollowTypeOK
      /\ QueueInv => QueueTypeOK
      /\ LockInv => LeadTypeOK
      /\ OutboxInv => OutboxTypeOK
      /\ DelegationInv => DelegationTypeOK
      /\ GroupInd => GroupTypeOK
  BY DEF FollowInv, QueueInv, LockInv, OutboxInv, DelegationInv, GroupInd
<1>6. /\ service \in Services
      /\ ConvTypeOK /\ FollowTypeOK /\ RoutineTypeOK /\ PowerTypeOK
      /\ QueueTypeOK /\ LeadTypeOK /\ OutboxTypeOK /\ DelegationTypeOK
      /\ GroupTypeOK
      => ServicesTypeOK
  BY DEF Services, ServicesTypeOK
<1> QED
  BY <1>1, <1>2, <1>3, <1>4, <1>5, <1>6, RoutineInvTyped, ServicesInvariant,
     PTL DEF MCSafety
================================================================================
