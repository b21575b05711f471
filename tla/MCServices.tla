------------------------------ MODULE MCServices ------------------------------
(* What goes on around the execution of a run, on small instances: the        *)
(* conversation of a bot, the followers of a thread, routines, the power of a *)
(* computer, the in-memory job queue, the leadership of the reconcilers, the  *)
(* messaging outbox, the work that bots give each other and the chat of a     *)
(* group of them.                                                             *)
(*                                                                            *)
(* The modules share no state, so a behaviour is one of a single service,     *)
(* picked at the start, while the others stay as they began: a run explores   *)
(* the sum of the state spaces, not their product.                            *)
EXTENDS Conversation, ThreadFollowers, Routines, ComputerPower,
        InMemoryJobQueue, Leadership, MessagingOutbox, Delegation, GroupChat

CONSTANTS j1, j2, j3, j4, k1

\* Three jobs share a key, one of them with a later run time; one has no key.
KeyOfJob == [j \in {j1, j2, j3, j4} |-> IF j = j3 THEN NoKey ELSE k1]

VARIABLE service

mcVars == <<service, convVars, followVars, routineVars, powerVars, queueVars,
            leadVars, outboxVars, delegationVars, groupVars>>

InConversation ==
  /\ service = "conversation"
  /\ UNCHANGED <<service, followVars, routineVars, powerVars, queueVars,
                 leadVars, outboxVars, delegationVars, groupVars>>
InFollowers ==
  /\ service = "followers"
  /\ UNCHANGED <<service, convVars, routineVars, powerVars, queueVars,
                 leadVars, outboxVars, delegationVars, groupVars>>
InRoutines ==
  /\ service = "routines"
  /\ UNCHANGED <<service, convVars, followVars, powerVars, queueVars,
                 leadVars, outboxVars, delegationVars, groupVars>>
InPower ==
  /\ service = "power"
  /\ UNCHANGED <<service, convVars, followVars, routineVars, queueVars,
                 leadVars, outboxVars, delegationVars, groupVars>>
InQueue ==
  /\ service = "queue"
  /\ UNCHANGED <<service, convVars, followVars, routineVars, powerVars,
                 leadVars, outboxVars, delegationVars, groupVars>>
InLeadership ==
  /\ service = "leadership"
  /\ UNCHANGED <<service, convVars, followVars, routineVars, powerVars,
                 queueVars, outboxVars, delegationVars, groupVars>>
InOutbox ==
  /\ service = "outbox"
  /\ UNCHANGED <<service, convVars, followVars, routineVars, powerVars,
                 queueVars, leadVars, delegationVars, groupVars>>
InDelegation ==
  /\ service = "delegation"
  /\ UNCHANGED <<service, convVars, followVars, routineVars, powerVars,
                 queueVars, leadVars, outboxVars, groupVars>>
InGroups ==
  /\ service = "groups"
  /\ UNCHANGED <<service, convVars, followVars, routineVars, powerVars,
                 queueVars, leadVars, outboxVars, delegationVars>>

Services == {"conversation", "followers", "routines", "power", "queue",
             "leadership", "outbox", "delegation", "groups"}

\* The initial states of a module with several are those of its own service.
MCInit ==
  /\ service \in Services
  /\ ConvInit /\ FollowInit /\ RoutineInit /\ PowerInit
  /\ QueueInit /\ LeadInit /\ OutboxInit /\ DelegationInit
  /\ GroupInit
  /\ service # "power" => scope = "team"
  /\ service # "routines" => ~once

MCNext ==
  \/ InConversation /\ ConvNext
  \/ InFollowers /\ FollowNext
  \/ InRoutines /\ RoutineNext
  \/ InPower /\ PowerNext
  \/ InQueue /\ QueueNext
  \/ InLeadership /\ LeadNext
  \/ InOutbox /\ OutboxNext
  \/ InDelegation /\ DelegationNext
  \/ InGroups /\ GroupNext

\* What a state of the run is told apart by: the variables of its service, the
\* others being as they began.
ServiceView ==
  <<service,
    IF service = "conversation" THEN convVars
    ELSE IF service = "followers" THEN followVars
    ELSE IF service = "routines" THEN routineVars
    ELSE IF service = "power" THEN powerVars
    ELSE IF service = "queue" THEN queueVars
    ELSE IF service = "leadership" THEN leadVars
    ELSE IF service = "outbox" THEN outboxVars
    ELSE IF service = "delegation" THEN delegationVars
    ELSE groupVars>>

\* The fairness of each module's own specification.  Only one service runs
\* and it never changes, so the weak fairness of one action in each of several
\* services is that of their disjunction; who acts is named alike in them all.
\* With one request that a bot makes of another no outcome waits behind one
\* that cannot be returned, and weak fairness of the reconciler is enough.
Actors == Slots \cup Followers \cup Handlers \cup Bots \cup Replicas
            \cup Drains \cup Couriers

Works(a) ==
  \/ InConversation /\ a \in Slots /\ Progress(a)
  \/ InFollowers /\ a \in Followers /\ Reads(a)
  \/ InRoutines /\ a \in Handlers /\ Handle(a)
  \/ InPower /\ a \in Bots /\ RunStep(a)
  \/ InLeadership /\ a \in Replicas /\ FinishRelease(a)
  \/ InOutbox /\ a \in Drains /\ DrainStep(a)
  \/ InDelegation /\ a \in Couriers /\ Reconciles(a)
TimesOut(a) ==
  \/ InFollowers /\ a \in Followers /\ CatchUp(a)
  \/ InRoutines /\ a \in Handlers /\ TakeDue(a)
  \/ InPower /\ a \in Bots /\ LeaseExpires(a)
Background1 ==
  \/ InConversation /\ RoutineJob
  \/ InRoutines /\ Tick
  \/ InPower /\ OwnerStep
  \/ InLeadership /\ \E p \in Replicas : TryAcquire(p)
  \/ InOutbox /\ BackoffEnds("dm")
Background2 ==
  \/ InPower /\ SleepStep
  \/ InOutbox /\ BackoffEnds("invite")

MCFairness ==
  /\ \A a \in Actors : WF_mcVars(Works(a)) /\ WF_mcVars(TimesOut(a))
  /\ \A p \in Reconcilers : WF_mcVars(InRoutines /\ Reconcile(p))
  /\ \A c \in Callers : WF_mcVars(InPower /\ CallerStep(c))
  /\ WF_mcVars(Background1) /\ WF_mcVars(Background2)

MCSafety == MCInit /\ [][MCNext]_mcVars
MCSpec == MCSafety /\ MCFairness

\* The type invariants of the nine modules, one property for the run: that of
\* the service picked, as the variables of the others stay as they began.
ServicesTypeOK ==
  \/ service = "conversation" /\ ConvTypeOK
  \/ service = "followers" /\ FollowTypeOK
  \/ service = "routines" /\ RoutineTypeOK
  \/ service = "power" /\ PowerTypeOK
  \/ service = "queue" /\ QueueTypeOK
  \/ service = "leadership" /\ LeadTypeOK
  \/ service = "outbox" /\ OutboxTypeOK
  \/ service = "delegation" /\ DelegationTypeOK
  \/ service = "groups" /\ GroupTypeOK

\* LedAgain, for the service it is about: it does not hold where no replica
\* takes a step.
SomeoneLeads == service = "leadership" => LedAgain
===============================================================================
