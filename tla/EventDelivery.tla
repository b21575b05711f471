----------------------------- MODULE EventDelivery -----------------------------
(***************************************************************************)
(* What a thread promises to those who follow it: its events come one      *)
(* after the other, and each follower is given them in that order, none    *)
(* skipped but those that were deleted meanwhile.                          *)
(***************************************************************************)
EXTENDS Naturals

CONSTANTS Readers, Positions

VARIABLES
  log,      \* positions of the events that were ever appended
  deleted,  \* those deleted since
  reached   \* the position each reader has reached

deliveryVars == <<log, deleted, reached>>

DeliveryInit ==
  /\ log = {} /\ deleted = {}
  /\ reached = [f \in Readers |-> 0]

\* An event comes after every other; events may be deleted with it.
AppendEvent ==
  \E e \in Positions :
    /\ log' = log \cup {e} /\ \A d \in log : d < e
    /\ deleted \subseteq deleted' /\ deleted' \subseteq log
    /\ UNCHANGED reached

\* A reader is given the next event that still exists, or one deleted just
\* before it was given: whatever lies between is deleted.
GiveNext(f) ==
  \E e \in log :
    /\ reached[f] < e
    /\ \A d \in log : reached[f] < d /\ d < e => d \in deleted
    /\ reached' = [reached EXCEPT ![f] = e]
    /\ UNCHANGED <<log, deleted>>

DeliveryNext == AppendEvent \/ \E f \in Readers : GiveNext(f)

DeliverySpec == DeliveryInit /\ [][DeliveryNext]_deliveryVars
===============================================================================
