---------------------------- MODULE EffectPromise ----------------------------
(***************************************************************************)
(* What a bot's external effects promise their user: a request is carried  *)
(* out only after somebody with the authority has allowed it, at most      *)
(* once, never after it was refused, and what is recorded of it is true.   *)
(***************************************************************************)
EXTENDS Naturals

CONSTANT Requests

VARIABLES
  authorized,  \* requests that the user, a rule or the reviewer has allowed
  times,       \* how often each request was carried out
  record       \* what the books say: open, done, refused or unknown

promise == <<authorized, times, record>>

PromiseInit ==
  /\ authorized = {}
  /\ times = [r \in Requests |-> 0]
  /\ record = [r \in Requests |-> "open"]

Authorize ==
  /\ authorized' \in SUBSET Requests
  /\ authorized \subseteq authorized'
  /\ UNCHANGED <<times, record>>

CarryOut(r) ==
  /\ r \in authorized /\ record[r] # "refused"
  /\ times[r] = 0
  /\ times' = [times EXCEPT ![r] = 1]
  /\ UNCHANGED <<authorized, record>>

\* "unknown" may be recorded before or after the request is carried out.
Book(r, what) ==
  /\ record[r] = "open"
  /\ what = "done" => times[r] = 1
  /\ what = "refused" => times[r] = 0
  /\ record' = [record EXCEPT ![r] = what]
  /\ UNCHANGED <<authorized, times>>

PromiseNext ==
  \/ Authorize
  \/ \E r \in Requests :
       \/ CarryOut(r)
       \/ \E what \in {"done", "refused", "unknown"} : Book(r, what)

PromiseSpec == PromiseInit /\ [][PromiseNext]_promise
==============================================================================
