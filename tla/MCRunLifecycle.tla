--------------------------- MODULE MCRunLifecycle ---------------------------
(* RunLifecycle on small instances.  All slots run in one worker process,  *)
(* the compose default of one worker with a concurrency above one, so that *)
(* leaseOwner never tells two slots apart; or each in its own.             *)
EXTENDS RunLifecycle, TLC

CONSTANTS s1, s2, s3, w1, w2

TwoSlots == {s1, s2}
ThreeSlots == {s1, s2, s3}
OneWorker == {w1}
TwoWorkers == {w1, w2}
SharedOwner == [s \in Slots |-> w1]
SplitOwner == [s \in Slots |-> IF s = s1 THEN w1 ELSE w2]

SlotSymmetry == Permutations(Slots)
=============================================================================
