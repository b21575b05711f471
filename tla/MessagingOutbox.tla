-------------------------- MODULE MessagingOutbox --------------------------
(***************************************************************************)
(* The outbox of the messaging surface, and the connection request that    *)
(* travels through it.                                                     *)
(*                                                                         *)
(* Everything a bot says on a messaging channel is a row of                *)
(* messaging_outbound.  Any number of drains may run at once: each reads   *)
(* the pending rows, claims one at a time (pending to sent) and only then  *)
(* calls the provider, whose answer may be lost.  A mirrored message that  *)
(* failed goes back to pending; the request of one agent to connect to     *)
(* another, which its owner answers with YES or NO, does not, and is sent  *)
(* under the lock of the agent_connections row, because the connection may *)
(* be revoked and requested again while the request is on its way.  A row  *)
(* is held back, without a send or an attempt, while its addressee, who is *)
(* the same for both, has been sent as much as the provider takes without  *)
(* a reply (sendblue: for other providers the cap is never reached).       *)
(***************************************************************************)
EXTENDS Naturals

CONSTANTS
  Drains,          \* concurrent messaging.deliver handlers
  NoDrain,         \* the connection row is not locked
  MaxAttempts,     \* MESSAGING_OUTBOUND_MAX_ATTEMPTS
  OutboundCap,     \* MESSAGING_DM_OUTBOUND_CAP
  MaxCycles,       \* bound: times the connection is requested
  MaxOutboxFaults  \* bound: lost answers, failed calls, timeouts, crashes, unlinkings

ASSUME OutboxAssumption ==
  /\ NoDrain \notin Drains /\ MaxAttempts \in Nat \ {0}
  /\ MaxCycles \in Nat \ {0} /\ MaxOutboxFaults \in Nat
  /\ OutboundCap \in Nat \ {0}

VARIABLES
  connection,  \* agent_connections.status
  cycle,       \* which request of the connection is the current one
  connectionLock, \* the transaction that holds the row FOR UPDATE
  outbox,      \* the row of a mirrored message and the row of the request
  linked,      \* the rows for the identity that the addressee has now
  sinceInbound, \* outboundSinceInbound of that identity, as far as the cap
  drainAt,     \* where each drain is
  listed,      \* the rows a drain read and has not come to yet
  task,        \* the row it is at, as it read it
  dmSent,      \* history: times the provider accepted the message
  inviteSent,  \* history: times it accepted each request
  ambiguous,   \* history: accepted sends that went back to pending
  untimely,    \* history: a transaction ended before the send in it
  stranded,    \* history: claimed rows whose drain is gone
  outboxFaults

outboxHistory == <<dmSent, inviteSent, ambiguous, untimely, stranded>>
drains == <<drainAt, listed, task>>
addressees == <<linked, sinceInbound>>
outboxVars == <<connection, cycle, connectionLock, outbox, addressees, drains,
                outboxHistory, outboxFaults>>

Kinds == {"dm", "invite"}
Ids == 0 .. MaxCycles              \* of the row: the message has 0
DrainPlaces == {"idle", "listed", "claimed", "send", "locked", "sendInvite",
                "record", "count", "catch"}
Tasks == [kind : Kinds, id : Ids, attempts : Nat]

OutboxTypeOK ==
  /\ connection \in {"none", "pending", "approved", "declined", "revoked"}
  /\ cycle \in Ids
  /\ connectionLock \in Drains \cup {NoDrain}
  /\ outbox \in [Kinds -> [status : {"absent", "pending", "sent", "failed"},
                           id : Ids, handle : BOOLEAN, attempts : Nat,
                           backoff : BOOLEAN]]
  /\ linked \subseteq Kinds /\ sinceInbound \in 0 .. OutboundCap
  /\ drainAt \in [Drains -> DrainPlaces]
  /\ listed \in [Drains -> SUBSET Tasks] /\ task \in [Drains -> Tasks]
  /\ dmSent \in Nat /\ ambiguous \in Nat /\ inviteSent \in [Ids -> Nat]
  /\ untimely \in BOOLEAN /\ stranded \in SUBSET Kinds /\ outboxFaults \in Nat

Row(status, id) == [status |-> status, id |-> id, handle |-> FALSE,
                    attempts |-> 0, backoff |-> FALSE]
NoTask == [kind |-> "dm", id |-> 0, attempts |-> 0]

OutboxInit ==
  /\ connection = "none" /\ cycle = 0 /\ connectionLock = NoDrain
  /\ outbox = [k \in Kinds |-> Row("absent", 0)]
  /\ linked = {} /\ sinceInbound = 0
  /\ drainAt = [d \in Drains |-> "idle"]
  /\ listed = [d \in Drains |-> {}] /\ task = [d \in Drains |-> NoTask]
  /\ dmSent = 0 /\ inviteSent = [i \in Ids |-> 0] /\ ambiguous = 0
  /\ untimely = FALSE /\ stranded = {} /\ outboxFaults = 0

-----------------------------------------------------------------------------
(* Helpers.                                                                *)

Turns(d, place) == drainAt' = [drainAt EXCEPT ![d] = place]
\* Back to the loop over the rows that were read.
NextRow(d) ==
  /\ Turns(d, IF listed[d] = {} THEN "idle" ELSE "listed")
  /\ task' = [task EXCEPT ![d] = NoTask]
KeepTasks == UNCHANGED <<listed, task>>

Exists(t) == outbox[t.kind].status # "absent" /\ outbox[t.kind].id = t.id
OutboxFault == outboxFaults < MaxOutboxFaults /\ outboxFaults' = outboxFaults + 1

\* updateMany({where: {id: row.id}, data}): nothing if the row was deleted.
Update(t, row) == outbox' = IF Exists(t) THEN [outbox EXCEPT ![t.kind] = row] ELSE outbox
With(t, status) == [outbox[t.kind] EXCEPT !.status = status]
WithHandle(t) == [outbox[t.kind] EXCEPT !.handle = TRUE]

Unlocked == connectionLock = NoDrain
KeepConnection == UNCHANGED <<connection, cycle>>

AtCap == sinceInbound = OutboundCap
Capped(k) == k \in linked /\ AtCap
OneMore == sinceInbound' = IF AtCap THEN sinceInbound ELSE sinceInbound + 1

-----------------------------------------------------------------------------
(* What fills the outbox.                                                  *)

\* mirrorRun, after the run and again by the reconciler: createMany skips the
\* row of a message that was mirrored before.
Mirror ==
  /\ outbox["dm"].status = "absent"
  /\ outbox' = [outbox EXCEPT !["dm"] = Row("pending", 0)] /\ linked' = linked \cup {"dm"}
  /\ UNCHANGED <<connection, cycle, connectionLock, sinceInbound, drains, outboxHistory,
                 outboxFaults>>

\* connectAgent: a new request, with a new row in place of an earlier one.
Connect ==
  /\ connection \in {"none", "declined", "revoked"} /\ Unlocked /\ cycle < MaxCycles
  /\ connection' = "pending" /\ cycle' = cycle + 1
  /\ outbox' = [outbox EXCEPT !["invite"] = Row("pending", cycle + 1)]
  /\ linked' = linked \cup {"invite"}
  /\ stranded' = stranded \ {"invite"}
  /\ UNCHANGED <<connectionLock, sinceInbound, drains, dmSent, inviteSent, ambiguous,
                 untimely, outboxFaults>>

\* The owner answers, in the app or with YES or NO; the update waits for the lock.
Answer ==
  /\ connection = "pending" /\ Unlocked
  /\ connection' \in {"approved", "declined"}
  /\ UNCHANGED <<cycle, connectionLock, outbox, addressees, drains, outboxHistory,
                 outboxFaults>>

\* connections.revoke: with it goes a request that was not sent, a claimed
\* one included.
Revoke ==
  /\ connection \notin {"none", "revoked"} /\ Unlocked /\ connection' = "revoked"
  /\ outbox' = [outbox EXCEPT !["invite"] =
                 IF @.status = "pending" \/ (@.status = "sent" /\ ~@.handle)
                 THEN Row("absent", 0) ELSE @]
  /\ UNCHANGED <<cycle, connectionLock, addressees, drains, outboxHistory, outboxFaults>>

\* nextAttemptAt passes.
BackoffEnds(k) ==
  /\ outbox[k].backoff
  /\ outbox' = [outbox EXCEPT ![k].backoff = FALSE]
  /\ UNCHANGED <<connection, cycle, connectionLock, addressees, drains, outboxHistory,
                 outboxFaults>>

\* applyMessagingOutboundStatus: the provider reports on what has a handle.
StatusWebhook(k) ==
  /\ outbox[k].status # "absent" /\ outbox[k].handle
  /\ \/ outbox[k].status # "sent" /\ outbox' = [outbox EXCEPT ![k].status = "sent"]
     \/ outbox[k].status # "failed" /\ outbox' = [outbox EXCEPT ![k].status = "failed"]
  /\ UNCHANGED <<connection, cycle, connectionLock, addressees, drains, outboxHistory,
                 outboxFaults>>

-----------------------------------------------------------------------------
(* The identity that the rows are for.                                     *)

\* Other rows are sent to it.
OthersSent ==
  /\ ~AtCap /\ OneMore
  /\ UNCHANGED <<connection, cycle, connectionLock, outbox, linked, drains,
                 outboxHistory, outboxFaults>>

\* Whatever comes from the owner ends the streak.
Inbound ==
  /\ sinceInbound # 0 /\ sinceInbound' = 0
  /\ UNCHANGED <<connection, cycle, connectionLock, outbox, linked, drains,
                 outboxHistory, outboxFaults>>

\* It is unlinked, or goes with its account or space; an address that is linked
\* again is another identity, and the rows stay without.
Unlink ==
  /\ linked # {} /\ OutboxFault /\ linked' = {} /\ sinceInbound' = 0
  /\ UNCHANGED <<connection, cycle, connectionLock, outbox, drains, outboxHistory>>

-----------------------------------------------------------------------------
(* drain.                                                                  *)

Due == {k \in Kinds : outbox[k].status = "pending" /\ ~outbox[k].backoff}

ListPending(d) ==
  /\ drainAt[d] = "idle" /\ Due # {} /\ Turns(d, "listed")
  /\ listed' = [listed EXCEPT ![d] = {[kind |-> k, id |-> outbox[k].id,
                                       attempts |-> outbox[k].attempts] : k \in Due}]
  /\ UNCHANGED <<connection, cycle, connectionLock, outbox, addressees, task,
                 outboxHistory, outboxFaults>>

\* Mutant: the row is marked whatever its status is.
ClaimAnyRow(d) ==
  /\ drainAt[d] = "listed"
  /\ \E t \in listed[d] :
       /\ listed' = [listed EXCEPT ![d] = @ \ {t}]
       /\ IF Exists(t)
            THEN /\ outbox' = [outbox EXCEPT ![t.kind] =
                                [With(t, "sent") EXCEPT !.backoff = FALSE]]
                 /\ task' = [task EXCEPT ![d] = t] /\ Turns(d, "claimed")
            ELSE /\ Turns(d, IF listed[d] = {t} THEN "idle" ELSE "listed")
                 /\ UNCHANGED <<outbox, task>>
  /\ UNCHANGED <<connection, cycle, connectionLock, addressees, outboxHistory,
                 outboxFaults>>

ClaimRow(d) ==
  /\ drainAt[d] = "listed"
  /\ \E t \in listed[d] :
       /\ listed' = [listed EXCEPT ![d] = @ \ {t}]
       /\ IF Exists(t) /\ outbox[t.kind].status = "pending"
            THEN /\ outbox' = [outbox EXCEPT ![t.kind] =
                                [With(t, "sent") EXCEPT !.backoff = FALSE]]
                 /\ task' = [task EXCEPT ![d] = t] /\ Turns(d, "claimed")
            ELSE /\ Turns(d, IF listed[d] = {t} THEN "idle" ELSE "listed")
                 /\ UNCHANGED <<outbox, task>>
  /\ UNCHANGED <<connection, cycle, connectionLock, addressees, outboxHistory,
                 outboxFaults>>

\* The identity, the cap and the thread: the row of an identity that is gone
\* fails, one at the cap is let go without an attempt (each an update that
\* throws if the row was deleted), and resolveDirectThread may have to ask the
\* provider.
LetGo(d, status) ==
  LET t == task[d]
  IN \/ /\ Exists(t) /\ outbox' = [outbox EXCEPT ![t.kind] = With(t, status)]
        /\ NextRow(d) /\ UNCHANGED <<listed, outboxFaults>>
     \/ ~Exists(t) /\ Turns(d, "catch") /\ UNCHANGED <<outbox, outboxFaults>> /\ KeepTasks

ToThread(d) ==
  /\ \/ task[d].kind = "dm" /\ Turns(d, "send") /\ UNCHANGED outboxFaults
     \/ task[d].kind = "invite" /\ Turns(d, "locked") /\ UNCHANGED outboxFaults
     \/ Turns(d, "catch") /\ OutboxFault
  /\ UNCHANGED outbox /\ KeepTasks

\* Mutant: a row held at the cap is left claimed.
ResolveKeepsClaim(d) ==
  /\ drainAt[d] = "claimed"
  /\ \/ task[d].kind \notin linked /\ LetGo(d, "failed")
     \/ Capped(task[d].kind) /\ LetGo(d, "sent")
     \/ task[d].kind \in linked /\ ~AtCap /\ ToThread(d)
  /\ KeepConnection
  /\ UNCHANGED <<connectionLock, addressees, outboxHistory>>

Resolve(d) ==
  /\ drainAt[d] = "claimed"
  /\ \/ task[d].kind \notin linked /\ LetGo(d, "failed")
     \/ Capped(task[d].kind) /\ LetGo(d, "pending")
     \/ task[d].kind \in linked /\ ~AtCap /\ ToThread(d)
  /\ KeepConnection
  /\ UNCHANGED <<connectionLock, addressees, outboxHistory>>

\* sendToThread for a mirrored message: accepted, refused, or accepted with
\* the answer lost.
SendMessage(d) ==
  /\ drainAt[d] = "send"
  /\ \/ dmSent' = dmSent + 1 /\ Turns(d, "record") /\ UNCHANGED <<ambiguous, outboxFaults>>
     \/ Turns(d, "catch") /\ OutboxFault /\ UNCHANGED <<dmSent, ambiguous>>
     \/ /\ dmSent' = dmSent + 1 /\ ambiguous' = ambiguous + 1
        /\ Turns(d, "catch") /\ OutboxFault
  /\ KeepConnection /\ KeepTasks
  /\ UNCHANGED <<connectionLock, outbox, addressees, inviteSent, untimely, stranded>>

\* The handle; the database may fail after the provider accepted.
RecordHandle(d) ==
  /\ drainAt[d] = "record"
  /\ \/ /\ Update(task[d], WithHandle(task[d])) /\ Turns(d, "count")
        /\ UNCHANGED <<ambiguous, outboxFaults>>
     \/ /\ ambiguous' = ambiguous + 1 /\ Turns(d, "catch") /\ OutboxFault
        /\ UNCHANGED outbox
  /\ KeepConnection /\ KeepTasks
  /\ UNCHANGED <<connectionLock, addressees, dmSent, inviteSent, untimely, stranded>>

\* outboundSinceInbound; a failure here, as when the identity is gone, comes to
\* the same catch block, for a request too.
CountOutbound(d) ==
  /\ drainAt[d] = "count"
  /\ \/ /\ task[d].kind \in linked /\ OneMore /\ NextRow(d)
        /\ UNCHANGED <<listed, ambiguous, outboxFaults>>
     \/ /\ ambiguous' = ambiguous + 1 /\ Turns(d, "catch") /\ KeepTasks
        /\ IF task[d].kind \in linked THEN OutboxFault ELSE UNCHANGED outboxFaults
        /\ UNCHANGED sinceInbound
  /\ KeepConnection
  /\ UNCHANGED <<connectionLock, outbox, linked, dmSent, inviteSent, untimely, stranded>>

\* The catch block: back to pending for a while, or failed for good, counted
\* from the attempts the drain had read.
Catch(d) ==
  /\ drainAt[d] = "catch" /\ NextRow(d)
  /\ LET t == task[d]
         spent == t.attempts + 1 >= MaxAttempts
     IN Update(t, [outbox[t.kind] EXCEPT
                     !.attempts = t.attempts + 1,
                     !.status = IF spent THEN "failed" ELSE "pending",
                     !.backoff = ~spent])
  /\ KeepConnection
  /\ UNCHANGED <<connectionLock, addressees, listed, outboxHistory, outboxFaults>>

\* Mutant: the row is not looked up again under the lock.
LockWithoutRow(d) ==
  /\ drainAt[d] = "locked" /\ Unlocked
  /\ \/ /\ connection # "pending"
        /\ Update(task[d], With(task[d], "failed")) /\ NextRow(d)
        /\ UNCHANGED <<connectionLock, listed>>
     \/ /\ connection = "pending"
        /\ connectionLock' = d /\ Turns(d, "sendInvite") /\ UNCHANGED outbox /\ KeepTasks
  /\ KeepConnection /\ UNCHANGED <<addressees, outboxHistory, outboxFaults>>

\* sendConnectInvite, up to the call: lock the connection, which must still be
\* asked for, and find the row, which a revocation may have deleted.
LockConnection(d) ==
  /\ drainAt[d] = "locked" /\ Unlocked
  /\ \/ /\ connection # "pending"
        /\ Update(task[d], With(task[d], "failed")) /\ NextRow(d)
        /\ UNCHANGED <<connectionLock, listed>>
     \/ /\ connection = "pending" /\ ~Exists(task[d]) /\ NextRow(d)
        /\ UNCHANGED <<connectionLock, outbox, listed>>
     \/ /\ connection = "pending" /\ Exists(task[d])
        /\ connectionLock' = d /\ Turns(d, "sendInvite") /\ UNCHANGED outbox /\ KeepTasks
  /\ KeepConnection /\ UNCHANGED <<addressees, outboxHistory, outboxFaults>>

\* The transaction times out around a slow call, which goes on without the lock.
TransactionEnds(d) ==
  /\ drainAt[d] = "sendInvite" /\ connectionLock = d /\ OutboxFault
  /\ connectionLock' = NoDrain /\ untimely' = TRUE
  /\ KeepConnection
  /\ UNCHANGED <<outbox, addressees, drains, dmSent, inviteSent, ambiguous, stranded>>

\* The call in the transaction and its commit: delivered, or held, which leaves
\* the row claimed, whether the provider accepted or not.
SendInvite(d) ==
  /\ drainAt[d] = "sendInvite"
  /\ connectionLock' = IF connectionLock = d THEN NoDrain ELSE connectionLock
  /\ \/ /\ connectionLock = d
        /\ inviteSent' = [inviteSent EXCEPT ![task[d].id] = @ + 1]
        /\ Update(task[d], WithHandle(task[d])) /\ Turns(d, "count")
        /\ KeepTasks /\ UNCHANGED <<stranded, outboxFaults>>
     \/ /\ inviteSent' = [inviteSent EXCEPT ![task[d].id] = @ + 1]
        /\ NextRow(d) /\ UNCHANGED <<outbox, listed>> /\ stranded' = stranded \cup {"invite"}
        /\ IF connectionLock = d THEN OutboxFault ELSE UNCHANGED outboxFaults
     \/ /\ OutboxFault /\ NextRow(d) /\ UNCHANGED <<outbox, listed, inviteSent>>
        /\ stranded' = stranded \cup {"invite"}
  /\ KeepConnection /\ UNCHANGED <<addressees, dmSent, ambiguous, untimely>>

\* The process dies: what it had claimed stays sent; its transaction is undone.
DrainDies(d) ==
  /\ drainAt[d] \notin {"idle", "listed"} /\ OutboxFault
  /\ Turns(d, "idle") /\ listed' = [listed EXCEPT ![d] = {}]
  /\ task' = [task EXCEPT ![d] = NoTask]
  /\ stranded' = stranded \cup {task[d].kind}
  /\ connectionLock' = IF connectionLock = d THEN NoDrain ELSE connectionLock
  /\ KeepConnection
  /\ UNCHANGED <<outbox, addressees, dmSent, inviteSent, ambiguous, untimely>>

DrainStep(d) ==
  \/ ListPending(d) \/ ClaimRow(d) \/ Resolve(d) \/ SendMessage(d) \/ RecordHandle(d)
  \/ CountOutbound(d) \/ Catch(d) \/ LockConnection(d) \/ SendInvite(d)

OutboxNext ==
  \/ Mirror \/ Connect \/ Answer \/ Revoke
  \/ \E k \in Kinds : BackoffEnds(k) \/ StatusWebhook(k)
  \/ OthersSent \/ Inbound \/ Unlink
  \/ \E d \in Drains : DrainStep(d) \/ TransactionEnds(d) \/ DrainDies(d)

\* The reconciler enqueues a drain for as long as a row is due; handlers that
\* run go on; time passes.
OutboxFairness ==
  /\ \A d \in Drains : WF_outboxVars(DrainStep(d))
  /\ \A k \in Kinds : WF_outboxVars(BackoffEnds(k))

OutboxSpec == OutboxInit /\ [][OutboxNext]_outboxVars /\ OutboxFairness

-----------------------------------------------------------------------------
(* Properties.                                                             *)

\* "Claim before sending": whatever drains run at once, a mirrored message
\* reaches the provider once, and once more only for each time an accepted
\* send was taken for a failure (its answer lost, or the database down).
MessageOnce == dmSent <= 1 + ambiguous

\* A request to connect goes out at most once, whatever answer is lost and
\* whoever revokes and asks again meanwhile.  (A failed update of the owner's
\* counter after the send is taken for a failure of the send: not claimed.)
RequestOnce == ambiguous = 0 => \A i \in Ids : inviteSent[i] <= 1

SentOnce == MessageOnce /\ RequestOnce

\* A request only goes out while it is the one being asked for: never after the
\* connection was revoked, answered, or asked for anew.  (Unless the call
\* outlasts the transaction that holds the lock.)
RequestIsCurrent ==
  [][ (inviteSent' # inviteSent /\ ~untimely) =>
        connection = "pending" /\ inviteSent'[cycle] # inviteSent[cycle] ]_outboxVars

\* Every mirrored message is delivered or declared lost after the attempts it
\* has, or as its addressee is gone, and the request of a connection still asked
\* for goes out or fails; unless the drain that had claimed the row died or held
\* it, or the owner leaves the identity at the cap: "mirror rows stay pending
\* until the next inbound resets the counter".  A reply lets them go on.
EverythingSettles ==
  /\ []<>(outbox["dm"].status # "absent" =>
            \/ dmSent > 0 \/ outbox["dm"].status = "failed"
            \/ "dm" \in stranded \/ Capped("dm"))
  /\ \A i \in Ids \ {0} :
       []<>(cycle = i /\ connection = "pending" =>
              \/ inviteSent[i] > 0 \/ outbox["invite"].status = "failed"
              \/ "invite" \in stranded \/ Capped("invite"))
=============================================================================
