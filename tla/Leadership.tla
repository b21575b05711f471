------------------------------ MODULE Leadership ------------------------------
(***************************************************************************)
(* Which replica reconciles: the one whose database session holds the      *)
(* advisory lock.  A session belongs to a connection of the replica's      *)
(* pool; the server frees the lock when the session ends, which the        *)
(* replica may notice later.                                               *)
(***************************************************************************)
EXTENDS Naturals

CONSTANTS
  Replicas,
  MaxBreaks   \* bound: sessions that break, and stops

ASSUME LeadershipAssumption == MaxBreaks \in Nat

VARIABLES
  leaderClient,  \* replicas with a client that holds the lock, they think
  releasing,     \* replicas about to unlock
  locking,       \* replicas with a live session that holds the lock
  breaks

leadVars == <<leaderClient, releasing, locking, breaks>>

LeadTypeOK ==
  /\ leaderClient \subseteq Replicas /\ releasing \subseteq Replicas
  /\ locking \subseteq Replicas /\ breaks \in Nat

LeadInit ==
  leaderClient = {} /\ releasing = {} /\ locking = {} /\ breaks = 0

Break == breaks < MaxBreaks /\ breaks' = breaks + 1

\* pg_try_advisory_lock answers at once; without the lock the connection
\* goes back to the pool.
TryAcquire(p) ==
  /\ p \notin leaderClient \cup releasing /\ locking = {}
  /\ leaderClient' = leaderClient \cup {p}
  /\ locking' = {p}
  /\ UNCHANGED <<releasing, breaks>>

\* The session ends on the server; the client has not heard of it yet.
SessionBreaks(p) ==
  /\ p \in locking /\ Break
  /\ locking' = locking \ {p}
  /\ UNCHANGED <<leaderClient, releasing>>

\* The error event: the client is destroyed.
LoseClient(p) ==
  /\ p \in leaderClient \ locking
  /\ leaderClient' = leaderClient \ {p}
  /\ UNCHANGED <<releasing, locking, breaks>>

\* The replica stops leading, and unlocks.
BeginRelease(p) ==
  /\ p \in leaderClient /\ Break
  /\ leaderClient' = leaderClient \ {p}
  /\ releasing' = releasing \cup {p}
  /\ UNCHANGED locking

\* Mutant: a connection whose unlock failed goes back to the pool.
ReturnUncertain(p) ==
  /\ p \in releasing
  /\ releasing' = releasing \ {p}
  /\ UNCHANGED <<leaderClient, locking, breaks>>

\* Unlocked, or destroyed if the unlock failed or said no: either way the
\* session holds the lock no more.
FinishRelease(p) ==
  /\ p \in releasing
  /\ releasing' = releasing \ {p}
  /\ locking' = locking \ {p}
  /\ UNCHANGED <<leaderClient, breaks>>

LeadNext ==
  \E p \in Replicas :
    \/ TryAcquire(p) \/ SessionBreaks(p) \/ LoseClient(p)
    \/ BeginRelease(p) \/ FinishRelease(p)

\* A replica tries at every interval, and a query answers.
LeadSpec ==
  /\ LeadInit /\ [][LeadNext]_leadVars
  /\ WF_leadVars(\E p \in Replicas : TryAcquire(p))
  /\ \A p \in Replicas : WF_leadVars(FinishRelease(p))

\* The lock is held by a replica that leads, or is about to unlock: it is
\* never left behind in a pool, where it would keep every replica from
\* leading.
LockNotLeftBehind == locking \subseteq leaderClient \cup releasing

\* Whatever breaks, some replica comes to reconcile again.  It may be one
\* that lost its session and has not heard of it, next to the one that holds
\* the lock: two may reconcile at once, and Routines bears it.
LedAgain == []<>(leaderClient # {})
===============================================================================
