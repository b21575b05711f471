-------------------------- MODULE MCTakeoverControl --------------------------
(* TakeoverControl on small instances: slots of one worker, which share the *)
(* leaseOwner.                                                              *)
EXTENDS TakeoverControl, TLC

CONSTANTS s1, s2, s3, w1

OneSlot == {s1}
TwoSlots == {s1, s2}
OneWorker == {w1}
SharedOwner == [s \in Slots |-> w1]

SlotSymmetry == Permutations(Slots)
==============================================================================
