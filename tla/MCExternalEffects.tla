-------------------------- MODULE MCExternalEffects --------------------------
(* ExternalEffects on small instances: two slots with a call each, one of   *)
(* which may belong to a stale attempt.                                     *)
EXTENDS ExternalEffects, TLC

CONSTANTS r1, r2, s1, s2, c1, c2

Both == {r1, r2}
TwoSlots == {s1, s2}
TwoCallers == {c1, c2}
OneEach == [c \in Callers |-> IF c = c1 THEN s1 ELSE s2]

ToolNames == {"send", "post", "look"}
SendAndPost == (r1 :> "send") @@ (r2 :> "post")
LookAndSend == (r1 :> "look") @@ (r2 :> "send")
Gates == [t \in Tools |-> IF t = "post" THEN "judge" ELSE "ask"]
Needing == {"send", "post"}
==============================================================================
