------------------------ MODULE MessagingOutbox_proofs ------------------------
(***************************************************************************)
(* What MessagingOutbox promises of the messages and requests it sends,    *)
(* for every number of drains, attempts, requests and faults.              *)
(***************************************************************************)
EXTENDS MessagingOutbox, TLAPS

-----------------------------------------------------------------------------
(* The invariant.                                                          *)

\* A drain that claimed the row of its task and has not let go of it.
Holds(d) == drainAt[d] \notin {"idle", "listed"}

\* The kind of a row decides which way its drain goes.
WaysInv ==
  \A d \in Drains :
    /\ drainAt[d] \in {"send", "record"} => task[d].kind = "dm"
    /\ drainAt[d] \in {"locked", "sendInvite"} => task[d].kind = "invite"

\* A row of the request is the current one's; what drains hold or have read
\* is of this or of an earlier one.
IdsInv ==
  /\ outbox["dm"].id = 0
  /\ outbox["invite"].status # "absent" => outbox["invite"].id = cycle
  /\ \A d \in Drains : task[d].id <= cycle
  /\ \A d \in Drains : \A t \in listed[d] : t.id <= cycle
  /\ \A d \in Drains : task[d].kind = "dm" => task[d].id = 0
  /\ \A d \in Drains : \A t \in listed[d] : t.kind = "dm" => t.id = 0

\* No two drains hold a row, and none holds a row that is pending.
HoldersInv ==
  /\ \A d, e \in Drains :
       Holds(d) /\ Holds(e) /\ task[d].kind = task[e].kind
         /\ task[d].id = task[e].id => d = e
  /\ \A d \in Drains :
       Holds(d) /\ outbox[task[d].kind].id = task[d].id
         => outbox[task[d].kind].status # "pending"
  /\ outbox["dm"].status = "absent" =>
       \A d \in Drains : task[d].kind = "dm" => ~Holds(d)

\* Until the provider has been asked, everything it accepted before was taken
\* for a failure.
MessagesInv ==
  /\ outbox["dm"].status \in {"absent", "pending"} => dmSent <= ambiguous
  /\ \A d \in Drains :
       drainAt[d] \in {"claimed", "send", "catch"} /\ task[d].kind = "dm"
         => dmSent <= ambiguous
  /\ MessageOnce

RequestsInv ==
  ambiguous = 0 =>
    /\ outbox["invite"].status = "pending" => inviteSent[cycle] = 0
    /\ \A d \in Drains :
         drainAt[d] \in {"claimed", "locked", "sendInvite", "catch"}
           /\ task[d].kind = "invite" => inviteSent[task[d].id] = 0
    /\ \A i \in Ids : i > cycle => inviteSent[i] = 0
    /\ \A i \in Ids : inviteSent[i] <= 1

\* A drain at the provider holds the lock of a connection that is asked for.
ConnectionLockInv ==
  ~untimely =>
    \A d \in Drains : drainAt[d] = "sendInvite" =>
      connectionLock = d /\ connection = "pending" /\ task[d].id = cycle

OutboxInv ==
  /\ OutboxTypeOK /\ WaysInv /\ IdsInv /\ HoldersInv /\ MessagesInv
  /\ RequestsInv /\ ConnectionLockInv

-----------------------------------------------------------------------------
(* What each action does to the rows and the drains.                       *)

Rows == [status : {"absent", "pending", "sent", "failed"}, id : Ids,
         handle : BOOLEAN, attempts : Nat, backoff : BOOLEAN]

RowsOK == outbox \in [Kinds -> Rows]
DrainsOK ==
  /\ drainAt \in [Drains -> DrainPlaces]
  /\ listed \in [Drains -> SUBSET Tasks] /\ task \in [Drains -> Tasks]

\* Only the status of the rows in K may change.
Keeps(K) ==
  /\ RowsOK'
  /\ \A k \in Kinds : outbox'[k].id = outbox[k].id
  /\ \A k \in Kinds \ K : outbox'[k].status = outbox[k].status

\* Only the drain d takes a step, and reads no new rows.
Alone(d) ==
  /\ DrainsOK'
  /\ \A e \in Drains \ {d} : /\ drainAt'[e] = drainAt[e]
                             /\ task'[e] = task[e] /\ listed'[e] = listed[e]
Acts(d) == Alone(d) /\ listed'[d] \subseteq listed[d]
Moves(d, place) == Acts(d) /\ drainAt'[d] = place /\ task'[d] = task[d]
LetsGo(d) == Acts(d) /\ drainAt'[d] \in {"idle", "listed"} /\ task'[d] = NoTask

LEMMA RowsTyped == OutboxTypeOK => RowsOK /\ DrainsOK
BY DEF OutboxTypeOK, RowsOK, DrainsOK, Rows

LEMMA NoTaskTyped == NoTask \in Tasks /\ NoTask.kind = "dm" /\ NoTask.id = 0
BY OutboxAssumption DEF NoTask, Tasks, Kinds, Ids

LEMMA StatusSet ==
  ASSUME NEW r \in Rows, NEW s \in {"absent", "pending", "sent", "failed"}
  PROVE  /\ [r EXCEPT !.status = s] \in Rows
         /\ [r EXCEPT !.status = s].id = r.id
         /\ [r EXCEPT !.status = s].status = s
BY DEF Rows

LEMMA HandleSet ==
  ASSUME NEW r \in Rows
  PROVE  /\ [r EXCEPT !.handle = TRUE] \in Rows
         /\ [r EXCEPT !.handle = TRUE].id = r.id
         /\ [r EXCEPT !.handle = TRUE].status = r.status
BY DEF Rows

LEMMA BackoffSet ==
  ASSUME NEW r \in Rows
  PROVE  /\ [r EXCEPT !.backoff = FALSE] \in Rows
         /\ [r EXCEPT !.backoff = FALSE].id = r.id
         /\ [r EXCEPT !.backoff = FALSE].status = r.status
BY DEF Rows

\* A row is written in place of the one of the same kind.
LEMMA RowWritten ==
  ASSUME RowsOK, NEW k \in Kinds, NEW r \in Rows,
         outbox' = [outbox EXCEPT ![k] = r]
  PROVE  /\ RowsOK' /\ outbox'[k] = r
         /\ \A x \in Kinds \ {k} : outbox'[x] = outbox[x]
         /\ r.id = outbox[k].id => Keeps({k})
BY DEF RowsOK, Keeps

LEMMA Untouched == RowsOK /\ outbox' = outbox => Keeps({})
BY DEF RowsOK, Keeps

LEMMA RowUpdated ==
  ASSUME RowsOK, NEW t \in Tasks, NEW r \in Rows, r.id = outbox[t.kind].id,
         Update(t, r)
  PROVE  /\ Keeps({t.kind})
         /\ Exists(t) => outbox'[t.kind].status = r.status
         /\ ~Exists(t) => outbox' = outbox
<1>1. t.kind \in Kinds
  BY DEF Tasks
<1>2. CASE Exists(t)
  BY <1>1, <1>2, RowWritten DEF Update
<1>3. CASE ~Exists(t)
  BY <1>1, <1>3, Untouched DEF Update, Keeps
<1> QED
  BY <1>2, <1>3

LEMMA RowOfTask ==
  ASSUME RowsOK, DrainsOK, NEW d \in Drains
  PROVE  task[d] \in Tasks /\ task[d].kind \in Kinds /\ outbox[task[d].kind] \in Rows
BY DEF RowsOK, DrainsOK, Tasks

LEMMA NewRowFields ==
  ASSUME NEW s \in {"absent", "pending", "sent", "failed"}, NEW i \in Ids
  PROVE  Row(s, i) \in Rows /\ Row(s, i).status = s /\ Row(s, i).id = i
BY DEF Row, Rows

LEMMA BackoffEffect ==
  ASSUME RowsOK, NEW k \in Kinds, BackoffEnds(k) PROVE Keeps({})
<1> DEFINE r == [outbox[k] EXCEPT !.backoff = FALSE]
<1>1. outbox' = [outbox EXCEPT ![k] = r]
  BY DEF BackoffEnds, RowsOK
<1>2. outbox[k] \in Rows
  BY DEF RowsOK
<1>3. r \in Rows /\ r.id = outbox[k].id /\ r.status = outbox[k].status
  BY <1>2, BackoffSet
<1> HIDE DEF r
<1> QED
  BY <1>1, <1>3, RowWritten DEF Keeps

LEMMA WebhookEffect ==
  ASSUME RowsOK, NEW k \in Kinds, StatusWebhook(k)
  PROVE  Keeps({k}) /\ outbox[k].status # "absent" /\ outbox'[k].status \in {"sent", "failed"}
<1>1. PICK s \in {"sent", "failed"} :
        outbox' = [outbox EXCEPT ![k] = [outbox[k] EXCEPT !.status = s]]
  BY DEF StatusWebhook, RowsOK
<1> DEFINE r == [outbox[k] EXCEPT !.status = s]
<1>2. outbox[k] \in Rows /\ outbox[k].status # "absent"
      /\ s \in {"absent", "pending", "sent", "failed"}
  BY DEF RowsOK, StatusWebhook
<1>3. r \in Rows /\ r.id = outbox[k].id /\ r.status = s
  BY <1>2, StatusSet
<1>4. outbox' = [outbox EXCEPT ![k] = r]
  BY <1>1
<1> HIDE DEF r
<1> QED
  BY <1>2, <1>3, <1>4, RowWritten

LEMMA MirrorEffect ==
  ASSUME RowsOK, Mirror
  PROVE  /\ RowsOK' /\ outbox["dm"].status = "absent" /\ outbox'["invite"] = outbox["invite"]
         /\ outbox'["dm"].id = 0 /\ outbox'["dm"].status = "pending"
<1>1. "dm" \in Kinds /\ "invite" \in Kinds /\ 0 \in Ids
  BY OutboxAssumption DEF Kinds, Ids
<1> DEFINE r == Row("pending", 0)
<1>2. r \in Rows /\ r.id = 0 /\ r.status = "pending"
  BY <1>1, NewRowFields
<1>3. outbox["dm"].status = "absent" /\ outbox' = [outbox EXCEPT !["dm"] = r]
  BY DEF Mirror
<1> HIDE DEF r
<1> QED
  BY <1>1, <1>2, <1>3, RowWritten

LEMMA ConnectEffect ==
  ASSUME RowsOK, cycle \in Ids, Connect
  PROVE  /\ RowsOK' /\ outbox'["dm"] = outbox["dm"] /\ cycle + 1 \in Ids
         /\ outbox'["invite"].id = cycle + 1 /\ outbox'["invite"].status = "pending"
<1>1. "dm" \in Kinds /\ "invite" \in Kinds /\ cycle + 1 \in Ids
  BY OutboxAssumption DEF Kinds, Ids, Connect
<1> DEFINE r == Row("pending", cycle + 1)
<1>2. r \in Rows /\ r.id = cycle + 1 /\ r.status = "pending"
  BY <1>1, NewRowFields
<1>3. outbox' = [outbox EXCEPT !["invite"] = r]
  BY DEF Connect
<1> HIDE DEF r
<1> QED
  BY <1>1, <1>2, <1>3, RowWritten

LEMMA RevokeEffect ==
  ASSUME RowsOK, Revoke
  PROVE  /\ RowsOK' /\ outbox'["dm"] = outbox["dm"]
         /\ outbox'["invite"] = outbox["invite"] \/ outbox'["invite"].status = "absent"
<1>1. "dm" \in Kinds /\ "invite" \in Kinds /\ 0 \in Ids
  BY OutboxAssumption DEF Kinds, Ids
<1>2. PICK r \in {outbox["invite"], Row("absent", 0)} :
        outbox' = [outbox EXCEPT !["invite"] = r]
  BY DEF Revoke
<1>3. r \in Rows /\ (r = outbox["invite"] \/ r.status = "absent")
  BY <1>1, <1>2, NewRowFields DEF RowsOK
<1> QED
  BY <1>1, <1>2, <1>3, RowWritten

LEMMA ListEffect ==
  ASSUME RowsOK, DrainsOK, NEW d \in Drains, ListPending(d)
  PROVE  /\ Alone(d) /\ drainAt[d] = "idle" /\ drainAt'[d] = "listed" /\ task' = task
         /\ outbox' = outbox
         /\ \A t \in listed'[d] : /\ t.kind \in Kinds /\ t.id = outbox[t.kind].id
                                 /\ outbox[t.kind].status = "pending"
<1>1. \A k \in Kinds : [kind |-> k, id |-> outbox[k].id, attempts |-> outbox[k].attempts] \in Tasks
  BY DEF RowsOK, Rows, Tasks
<1>2. listed' = [listed EXCEPT ![d] = {[kind |-> k, id |-> outbox[k].id,
                                        attempts |-> outbox[k].attempts] : k \in Due}]
  BY DEF ListPending
<1>3. Due \subseteq Kinds /\ \A k \in Due : outbox[k].status = "pending"
  BY DEF Due
<1>4. /\ DrainsOK' /\ drainAt'[d] = "listed" /\ drainAt[d] = "idle" /\ task' = task
      /\ outbox' = outbox
  BY <1>1, <1>2, <1>3 DEF DrainsOK, ListPending, Turns, DrainPlaces
<1>5. listed'[d] = {[kind |-> k, id |-> outbox[k].id,
                     attempts |-> outbox[k].attempts] : k \in Due}
  BY <1>2 DEF DrainsOK
<1>6. \A e \in Drains \ {d} : drainAt'[e] = drainAt[e] /\ listed'[e] = listed[e]
  BY <1>2 DEF DrainsOK, ListPending, Turns
<1> QED
  BY <1>3, <1>4, <1>5, <1>6 DEF Alone

LEMMA ClaimTaskEffect ==
  ASSUME RowsOK, DrainsOK, NEW d \in Drains, ClaimRow(d)
  PROVE  /\ Acts(d) /\ drainAt[d] = "listed"
         /\ \/ \E t \in listed[d] :
                 /\ drainAt'[d] = "claimed" /\ task'[d] = t /\ t \in Tasks
                 /\ outbox[t.kind].status = "pending" /\ outbox[t.kind].id = t.id
                 /\ Keeps({t.kind}) /\ outbox'[t.kind].status = "sent"
            \/ drainAt'[d] \in {"idle", "listed"} /\ task' = task /\ outbox' = outbox
<1>1. PICK t \in listed[d] :
        /\ listed' = [listed EXCEPT ![d] = @ \ {t}]
        /\ IF Exists(t) /\ outbox[t.kind].status = "pending"
             THEN /\ outbox' = [outbox EXCEPT ![t.kind] =
                                 [With(t, "sent") EXCEPT !.backoff = FALSE]]
                  /\ task' = [task EXCEPT ![d] = t] /\ Turns(d, "claimed")
             ELSE /\ Turns(d, IF listed[d] = {t} THEN "idle" ELSE "listed")
                  /\ UNCHANGED <<outbox, task>>
  BY DEF ClaimRow
<1>2. drainAt[d] = "listed" /\ t \in Tasks /\ t.kind \in Kinds /\ outbox[t.kind] \in Rows
  BY DEF ClaimRow, DrainsOK, RowsOK, Tasks
<1>3. CASE Exists(t) /\ outbox[t.kind].status = "pending"
  <2> DEFINE q == With(t, "sent")
             r == [q EXCEPT !.backoff = FALSE]
  <2>1. /\ outbox' = [outbox EXCEPT ![t.kind] = r]
        /\ task' = [task EXCEPT ![d] = t]
        /\ drainAt' = [drainAt EXCEPT ![d] = "claimed"]
    BY <1>1, <1>3 DEF Turns
  <2>2. q \in Rows /\ q.id = outbox[t.kind].id /\ q.status = "sent"
    BY <1>2, StatusSet DEF With
  <2> HIDE DEF q
  <2>5. r \in Rows /\ r.id = q.id /\ r.status = q.status
    BY <2>2, BackoffSet
  <2> HIDE DEF r
  <2>3. Keeps({t.kind}) /\ outbox'[t.kind].status = "sent"
    BY <1>2, <2>1, <2>2, <2>5, RowWritten
  <2>4. Acts(d) /\ drainAt'[d] = "claimed" /\ task'[d] = t
    BY <1>1, <1>2, <2>1 DEF DrainsOK, DrainPlaces, Acts, Alone
  <2> QED
    BY <1>2, <1>3, <2>3, <2>4 DEF Exists
<1>4. CASE ~(Exists(t) /\ outbox[t.kind].status = "pending")
  <2>1. /\ outbox' = outbox /\ task' = task
        /\ drainAt' = [drainAt EXCEPT ![d] = IF listed[d] = {t} THEN "idle" ELSE "listed"]
    BY <1>1, <1>4 DEF Turns
  <2>2. Acts(d) /\ drainAt'[d] \in {"idle", "listed"}
    BY <1>1, <2>1 DEF DrainsOK, DrainPlaces, Acts, Alone
  <2> QED
    BY <1>2, <2>1, <2>2
<1> QED
  BY <1>3, <1>4

LEMMA Moving ==
  ASSUME DrainsOK, NEW d \in Drains, NEW place \in DrainPlaces,
         Turns(d, place), KeepTasks
  PROVE  Moves(d, place)
BY DEF DrainsOK, Turns, KeepTasks, Moves, Acts, Alone

LEMMA LettingGo ==
  ASSUME DrainsOK, NEW d \in Drains, NextRow(d), listed' = listed
  PROVE  LetsGo(d)
<1>1. drainAt' = [drainAt EXCEPT ![d] = IF listed[d] = {} THEN "idle" ELSE "listed"]
      /\ task' = [task EXCEPT ![d] = NoTask]
  BY DEF NextRow, Turns
<1> QED
  BY <1>1, NoTaskTyped DEF DrainsOK, LetsGo, Acts, Alone, DrainPlaces

LEMMA ResolveEffect ==
  ASSUME RowsOK, DrainsOK, NEW d \in Drains, Resolve(d)
  PROVE  /\ drainAt[d] = "claimed" /\ Keeps({task[d].kind})
         /\ \/ /\ outbox' = outbox
               /\ \/ task[d].kind = "dm" /\ Moves(d, "send")
                  \/ task[d].kind = "invite" /\ Moves(d, "locked")
                  \/ Moves(d, "catch")
            \/ /\ LetsGo(d) /\ Exists(task[d])
               /\ outbox'[task[d].kind].status \in {"pending", "failed"}
<1>1. ASSUME NEW s \in {"pending", "failed"}, LetGo(d, s), Exists(task[d])
      PROVE  LetsGo(d) /\ Keeps({task[d].kind}) /\ outbox'[task[d].kind].status = s
  <2> DEFINE r == [outbox[task[d].kind] EXCEPT !.status = s]
  <2>1. outbox' = [outbox EXCEPT ![task[d].kind] = r] /\ LetsGo(d)
    BY <1>1, LettingGo DEF LetGo, With
  <2>2. task[d].kind \in Kinds /\ r \in Rows /\ r.id = outbox[task[d].kind].id
        /\ r.status = s
    <3>1. task[d].kind \in Kinds /\ outbox[task[d].kind] \in Rows
      BY RowOfTask
    <3>2. s \in {"absent", "pending", "sent", "failed"}
      OBVIOUS
    <3> QED
      BY <3>1, <3>2, StatusSet
  <2> HIDE DEF r
  <2> QED
    BY <2>1, <2>2, RowWritten
<1>2. ASSUME NEW s \in {"pending", "failed"}, LetGo(d, s), ~Exists(task[d])
      PROVE  outbox' = outbox /\ Moves(d, "catch")
  BY <1>2, Moving DEF LetGo, DrainPlaces
<1>3. ToThread(d) =>
        \/ task[d].kind = "dm" /\ Moves(d, "send")
        \/ task[d].kind = "invite" /\ Moves(d, "locked")
        \/ Moves(d, "catch")
  BY Moving DEF ToThread, DrainPlaces
<1>4. outbox' = outbox => Keeps({task[d].kind})
  BY Untouched DEF Keeps
<1>5. drainAt[d] = "claimed" /\ (LetGo(d, "failed") \/ LetGo(d, "pending") \/ ToThread(d))
  BY DEF Resolve
<1>6. CASE LetGo(d, "failed")
  BY <1>1, <1>2, <1>4, <1>5, <1>6
<1>7. CASE LetGo(d, "pending")
  BY <1>1, <1>2, <1>4, <1>5, <1>7
<1> QED
  BY <1>3, <1>4, <1>5, <1>6, <1>7 DEF ToThread

LEMMA SendTaskEffect ==
  ASSUME DrainsOK, NEW d \in Drains, SendMessage(d)
  PROVE  /\ drainAt[d] = "send" /\ outbox' = outbox
         /\ \/ Moves(d, "record") /\ dmSent' = dmSent + 1 /\ ambiguous' = ambiguous
            \/ Moves(d, "catch") /\ dmSent' = dmSent /\ ambiguous' = ambiguous
            \/ Moves(d, "catch") /\ dmSent' = dmSent + 1 /\ ambiguous' = ambiguous + 1
BY Moving DEF SendMessage, DrainPlaces

LEMMA RecordEffect ==
  ASSUME RowsOK, DrainsOK, NEW d \in Drains, RecordHandle(d)
  PROVE  /\ drainAt[d] = "record" /\ Keeps({})
         /\ \/ Moves(d, "count") /\ ambiguous' = ambiguous
            \/ Moves(d, "catch") /\ ambiguous' = ambiguous + 1
<1>1. /\ drainAt[d] = "record" /\ KeepTasks
      /\ \/ Update(task[d], WithHandle(task[d])) /\ Turns(d, "count") /\ ambiguous' = ambiguous
         \/ outbox' = outbox /\ Turns(d, "catch") /\ ambiguous' = ambiguous + 1
  BY DEF RecordHandle
<1>2. Update(task[d], WithHandle(task[d])) => Keeps({})
  <2> HAVE Update(task[d], WithHandle(task[d]))
  <2>1. WithHandle(task[d]) \in Rows /\ WithHandle(task[d]).id = outbox[task[d].kind].id
        /\ WithHandle(task[d]).status = outbox[task[d].kind].status
    BY RowOfTask, HandleSet DEF WithHandle
  <2>2. /\ Keeps({task[d].kind})
        /\ ~Exists(task[d]) => outbox' = outbox
        /\ Exists(task[d]) => outbox'[task[d].kind].status = outbox[task[d].kind].status
    BY <2>1, RowOfTask, RowUpdated
  <2> QED
    <3>1. CASE Exists(task[d])
      BY <2>2, <3>1 DEF Keeps
    <3>2. CASE ~Exists(task[d])
      BY <2>2, <3>2, Untouched
    <3> QED
      BY <3>1, <3>2
<1> QED
  BY <1>1, <1>2, Moving, Untouched DEF DrainPlaces

LEMMA CountEffect ==
  ASSUME DrainsOK, NEW d \in Drains, CountOutbound(d)
  PROVE  /\ drainAt[d] = "count" /\ outbox' = outbox
         /\ \/ LetsGo(d) /\ ambiguous' = ambiguous
            \/ Moves(d, "catch") /\ ambiguous' = ambiguous + 1
BY Moving, LettingGo DEF CountOutbound, DrainPlaces

LEMMA CatchEffect ==
  ASSUME RowsOK, DrainsOK, NEW d \in Drains, Catch(d)
  PROVE  /\ drainAt[d] = "catch" /\ LetsGo(d) /\ Keeps({task[d].kind})
         /\ Exists(task[d]) => outbox'[task[d].kind].status \in {"pending", "failed"}
         /\ ~Exists(task[d]) => outbox' = outbox
<1> DEFINE t == task[d]
<1>1. t \in Tasks /\ outbox[t.kind] \in Rows
  BY RowOfTask
<1>2. t.attempts + 1 \in Nat
  BY <1>1 DEF Tasks
<1>3. PICK s \in {"pending", "failed"}, b \in BOOLEAN :
        Update(t, [outbox[t.kind] EXCEPT !.attempts = t.attempts + 1, !.status = s,
                                         !.backoff = b])
  <2>1. CASE t.attempts + 1 >= MaxAttempts
    BY <2>1 DEF Catch
  <2>2. CASE ~(t.attempts + 1 >= MaxAttempts)
    BY <2>2 DEF Catch
  <2> QED
    BY <2>1, <2>2
<1> DEFINE r == [outbox[t.kind] EXCEPT !.attempts = t.attempts + 1, !.status = s,
                                       !.backoff = b]
<1>4. s \in {"absent", "pending", "sent", "failed"}
  OBVIOUS
<1>5. r \in Rows /\ r.id = outbox[t.kind].id /\ r.status = s
  BY <1>1, <1>2, <1>4 DEF Rows
<1>6. drainAt[d] = "catch" /\ LetsGo(d) /\ Update(t, r)
  BY <1>3, LettingGo DEF Catch
<1> HIDE DEF r
<1> QED
  BY <1>1, <1>5, <1>6, RowUpdated

LEMMA LockEffect ==
  ASSUME RowsOK, DrainsOK, NEW d \in Drains, LockConnection(d)
  PROVE  /\ drainAt[d] = "locked"
         /\ \/ /\ LetsGo(d) /\ Keeps({task[d].kind}) /\ connectionLock' = connectionLock
               /\ outbox'[task[d].kind].status \in {outbox[task[d].kind].status, "failed"}
               /\ ~Exists(task[d]) => outbox' = outbox
            \/ /\ Moves(d, "sendInvite") /\ outbox' = outbox /\ connection = "pending"
               /\ Exists(task[d]) /\ connectionLock' = d /\ connectionLock = NoDrain
<1>1. task[d] \in Tasks /\ outbox[task[d].kind] \in Rows
  BY RowOfTask
<1>2. CASE Update(task[d], With(task[d], "failed")) /\ NextRow(d)
           /\ UNCHANGED <<connectionLock, listed>>
  <2>1. With(task[d], "failed") \in Rows /\ With(task[d], "failed").id = outbox[task[d].kind].id
        /\ With(task[d], "failed").status = "failed"
    BY <1>1, StatusSet DEF With
  <2> QED
    BY <1>1, <1>2, <2>1, RowUpdated, LettingGo DEF LockConnection
<1>3. CASE NextRow(d) /\ UNCHANGED <<connectionLock, outbox, listed>>
  BY <1>1, <1>3, Untouched, LettingGo DEF LockConnection, Keeps
<1>4. CASE /\ connection = "pending" /\ Exists(task[d]) /\ connectionLock' = d
           /\ Turns(d, "sendInvite") /\ UNCHANGED outbox /\ KeepTasks
  BY <1>4, Moving DEF LockConnection, DrainPlaces, Unlocked
<1> QED
  BY <1>2, <1>3, <1>4 DEF LockConnection

LEMMA InviteEffect ==
  ASSUME RowsOK, DrainsOK, NEW d \in Drains, SendInvite(d)
  PROVE  /\ drainAt[d] = "sendInvite" /\ Keeps({})
         /\ connectionLock' = IF connectionLock = d THEN NoDrain ELSE connectionLock
         /\ \/ Moves(d, "count") /\ inviteSent' = [inviteSent EXCEPT ![task[d].id] = @ + 1]
            \/ LetsGo(d) /\ inviteSent' = [inviteSent EXCEPT ![task[d].id] = @ + 1]
            \/ LetsGo(d) /\ inviteSent' = inviteSent
<1>1. CASE /\ inviteSent' = [inviteSent EXCEPT ![task[d].id] = @ + 1]
           /\ Update(task[d], WithHandle(task[d])) /\ Turns(d, "count") /\ KeepTasks
  <2>1. WithHandle(task[d]) \in Rows /\ WithHandle(task[d]).id = outbox[task[d].kind].id
        /\ WithHandle(task[d]).status = outbox[task[d].kind].status
    BY RowOfTask, HandleSet DEF WithHandle
  <2>2. /\ Keeps({task[d].kind})
        /\ ~Exists(task[d]) => outbox' = outbox
        /\ Exists(task[d]) => outbox'[task[d].kind].status = outbox[task[d].kind].status
    BY <1>1, <2>1, RowOfTask, RowUpdated
  <2>3. Keeps({})
    <3>1. CASE Exists(task[d])
      BY <2>2, <3>1 DEF Keeps
    <3>2. CASE ~Exists(task[d])
      BY <2>2, <3>2, Untouched
    <3> QED
      BY <3>1, <3>2
  <2> QED
    BY <1>1, <2>3, Moving DEF SendInvite, DrainPlaces
<1>2. CASE /\ inviteSent' = [inviteSent EXCEPT ![task[d].id] = @ + 1] \/ inviteSent' = inviteSent
           /\ NextRow(d) /\ UNCHANGED <<outbox, listed>>
  BY <1>2, LettingGo, Untouched DEF SendInvite
<1> QED
  BY <1>1, <1>2 DEF SendInvite

LEMMA DeathEffect ==
  ASSUME DrainsOK, NEW d \in Drains, DrainDies(d)
  PROVE  LetsGo(d) /\ outbox' = outbox
<1>1. /\ drainAt' = [drainAt EXCEPT ![d] = "idle"] /\ listed' = [listed EXCEPT ![d] = {}]
      /\ task' = [task EXCEPT ![d] = NoTask] /\ outbox' = outbox
  BY DEF DrainDies, Turns
<1> QED
  BY <1>1, NoTaskTyped DEF DrainsOK, DrainPlaces, LetsGo, Acts, Alone

\* What else the actions change.
SmallTypes ==
  /\ cycle \in Ids /\ dmSent \in Nat /\ ambiguous \in Nat /\ inviteSent \in [Ids -> Nat]
  /\ Ids \subseteq Nat /\ 0 \in Ids /\ NoDrain \notin Drains
  /\ \A d \in Drains : task[d].kind \in Kinds /\ task[d].id \in Ids
  /\ \A d \in Drains : \A t \in listed[d] : t.kind \in Kinds /\ t.id \in Ids

LEMMA SmallTyped == OutboxTypeOK => SmallTypes
<1>1. Ids \subseteq Nat /\ 0 \in Ids
  BY OutboxAssumption DEF Ids
<1>2. \A t \in Tasks : t.kind \in Kinds /\ t.id \in Ids
  BY DEF Tasks
<1> QED
  BY <1>1, <1>2, OutboxAssumption DEF SmallTypes, OutboxTypeOK

LEMMA MirrorFrame ==
  ASSUME Mirror
  PROVE  UNCHANGED <<drainAt, listed, task, dmSent, inviteSent, ambiguous, untimely,
                      connectionLock, connection, cycle>>
BY DEF Mirror, KeepConnection, drains, outboxHistory, Unlocked

LEMMA ConnectFrame ==
  ASSUME Connect
  PROVE  /\ UNCHANGED <<drainAt, listed, task, dmSent, inviteSent, ambiguous, untimely,
                         connectionLock>>
         /\ connection # "pending" /\ connection' = "pending" /\ cycle' = cycle + 1
BY DEF Connect, KeepConnection, drains, outboxHistory, Unlocked

LEMMA AnswerFrame ==
  ASSUME Answer
  PROVE  /\ UNCHANGED <<drainAt, listed, task, dmSent, inviteSent, ambiguous, untimely,
                         connectionLock, cycle, outbox>>
         /\ connectionLock = NoDrain
BY DEF Answer, KeepConnection, drains, outboxHistory, Unlocked

LEMMA RevokeFrame ==
  ASSUME Revoke
  PROVE  /\ UNCHANGED <<drainAt, listed, task, dmSent, inviteSent, ambiguous, untimely,
                         connectionLock, cycle>>
         /\ connectionLock = NoDrain
BY DEF Revoke, KeepConnection, drains, outboxHistory, Unlocked

LEMMA BackoffEndsFrame ==
  ASSUME NEW k \in Kinds, BackoffEnds(k)
  PROVE  UNCHANGED <<drainAt, listed, task, dmSent, inviteSent, ambiguous, untimely,
                      connectionLock, connection, cycle>>
BY DEF BackoffEnds, KeepConnection, drains, outboxHistory, Unlocked

LEMMA StatusWebhookFrame ==
  ASSUME NEW k \in Kinds, StatusWebhook(k)
  PROVE  UNCHANGED <<drainAt, listed, task, dmSent, inviteSent, ambiguous, untimely,
                      connectionLock, connection, cycle>>
BY DEF StatusWebhook, KeepConnection, drains, outboxHistory, Unlocked

LEMMA ListPendingFrame ==
  ASSUME NEW d \in Drains, ListPending(d)
  PROVE  UNCHANGED <<connection, cycle, connectionLock, dmSent, inviteSent, ambiguous,
                      untimely>>
BY DEF ListPending, KeepConnection, drains, outboxHistory, Unlocked

LEMMA ClaimRowFrame ==
  ASSUME NEW d \in Drains, ClaimRow(d)
  PROVE  UNCHANGED <<connection, cycle, connectionLock, dmSent, inviteSent, ambiguous,
                      untimely>>
BY DEF ClaimRow, KeepConnection, drains, outboxHistory, Unlocked

LEMMA ResolveFrame ==
  ASSUME NEW d \in Drains, Resolve(d)
  PROVE  UNCHANGED <<connection, cycle, connectionLock, dmSent, inviteSent, ambiguous,
                      untimely>>
BY DEF Resolve, KeepConnection, drains, outboxHistory, Unlocked

LEMMA SendMessageFrame ==
  ASSUME NEW d \in Drains, SendMessage(d)
  PROVE  UNCHANGED <<connection, cycle, connectionLock, inviteSent, untimely>>
BY DEF SendMessage, KeepConnection, drains, outboxHistory, Unlocked

LEMMA RecordHandleFrame ==
  ASSUME NEW d \in Drains, RecordHandle(d)
  PROVE  UNCHANGED <<connection, cycle, connectionLock, inviteSent, dmSent, untimely>>
BY DEF RecordHandle, KeepConnection, drains, outboxHistory, Unlocked

LEMMA CountOutboundFrame ==
  ASSUME NEW d \in Drains, CountOutbound(d)
  PROVE  UNCHANGED <<connection, cycle, connectionLock, inviteSent, dmSent, untimely>>
BY DEF CountOutbound, KeepConnection, drains, outboxHistory, Unlocked

LEMMA CatchFrame ==
  ASSUME NEW d \in Drains, Catch(d)
  PROVE  UNCHANGED <<connection, cycle, connectionLock, dmSent, inviteSent, ambiguous,
                      untimely>>
BY DEF Catch, KeepConnection, drains, outboxHistory, Unlocked

LEMMA LockConnectionFrame ==
  ASSUME NEW d \in Drains, LockConnection(d)
  PROVE  UNCHANGED <<connection, cycle, dmSent, inviteSent, ambiguous, untimely>>
BY DEF LockConnection, KeepConnection, drains, outboxHistory, Unlocked

LEMMA SendInviteFrame ==
  ASSUME NEW d \in Drains, SendInvite(d)
  PROVE  UNCHANGED <<connection, cycle, dmSent, ambiguous, untimely>>
BY DEF SendInvite, KeepConnection, drains, outboxHistory, Unlocked

LEMMA TransactionEndsFrame ==
  ASSUME NEW d \in Drains, TransactionEnds(d)
  PROVE  /\ UNCHANGED <<connection, cycle, outbox, drainAt, listed, task, dmSent,
                         inviteSent, ambiguous>>
         /\ untimely' = TRUE
BY DEF TransactionEnds, KeepConnection, drains, outboxHistory, Unlocked

LEMMA AddresseeFrame ==
  ASSUME OthersSent \/ Inbound \/ Unlink
  PROVE  UNCHANGED <<connection, cycle, connectionLock, outbox, drainAt, listed, task,
                      dmSent, inviteSent, ambiguous, untimely>>
BY DEF OthersSent, Inbound, Unlink, drains, outboxHistory

LEMMA DrainDiesFrame ==
  ASSUME NEW d \in Drains, DrainDies(d)
  PROVE  /\ UNCHANGED <<connection, cycle, dmSent, inviteSent, ambiguous, untimely>>
         /\ connectionLock' = IF connectionLock = d THEN NoDrain ELSE connectionLock
BY DEF DrainDies, KeepConnection, drains, outboxHistory, Unlocked

-----------------------------------------------------------------------------
(* Each part is kept by every step.                                        *)

LEMMA RowsStep ==
  ASSUME OutboxTypeOK, [OutboxNext]_outboxVars
  PROVE  RowsOK'
<1>0. RowsOK /\ DrainsOK
  BY RowsTyped
<1>00. SmallTypes
  BY SmallTyped
<1> USE <1>0, <1>00 DEF SmallTypes, RowsOK, Acts, Alone, Moves, LetsGo, Keeps
<1>1. CASE Mirror
  BY <1>1, MirrorEffect, MirrorFrame
<1>2. CASE Connect
  BY <1>2, ConnectEffect, ConnectFrame
<1>3. CASE Answer
  BY <1>3, AnswerFrame
<1>4. CASE Revoke
  BY <1>4, RevokeEffect, RevokeFrame
<1>5. ASSUME NEW k \in Kinds, BackoffEnds(k) PROVE RowsOK'
  BY <1>5, BackoffEffect, BackoffEndsFrame
<1>6. ASSUME NEW k \in Kinds, StatusWebhook(k) PROVE RowsOK'
  BY <1>6, WebhookEffect, StatusWebhookFrame
<1>7. ASSUME NEW d \in Drains, ListPending(d) PROVE RowsOK'
  BY <1>7, ListEffect, ListPendingFrame
<1>8. ASSUME NEW d \in Drains, ClaimRow(d) PROVE RowsOK'
  BY <1>8, ClaimTaskEffect, ClaimRowFrame
<1>9. ASSUME NEW d \in Drains, Resolve(d) PROVE RowsOK'
  BY <1>9, ResolveEffect, ResolveFrame
<1>10. ASSUME NEW d \in Drains, SendMessage(d) PROVE RowsOK'
  BY <1>10, SendTaskEffect, SendMessageFrame
<1>11. ASSUME NEW d \in Drains, RecordHandle(d) PROVE RowsOK'
  BY <1>11, RecordEffect, RecordHandleFrame
<1>12. ASSUME NEW d \in Drains, CountOutbound(d) PROVE RowsOK'
  BY <1>12, CountEffect, CountOutboundFrame
<1>13. ASSUME NEW d \in Drains, Catch(d) PROVE RowsOK'
  BY <1>13, CatchEffect, CatchFrame
<1>14. ASSUME NEW d \in Drains, LockConnection(d) PROVE RowsOK'
  BY <1>14, LockEffect, LockConnectionFrame
<1>15. ASSUME NEW d \in Drains, SendInvite(d) PROVE RowsOK'
  BY <1>15, InviteEffect, SendInviteFrame
<1>16. ASSUME NEW d \in Drains, TransactionEnds(d) PROVE RowsOK'
  BY <1>16, TransactionEndsFrame
<1>17. ASSUME NEW d \in Drains, DrainDies(d) PROVE RowsOK'
  BY <1>17, DeathEffect, DrainDiesFrame
<1>18. CASE UNCHANGED outboxVars
  BY <1>18 DEF outboxVars, drains, outboxHistory
<1>19. CASE OthersSent \/ Inbound \/ Unlink
  BY <1>19, AddresseeFrame
<1> QED
  BY <1>1, <1>2, <1>3, <1>4, <1>5, <1>6, <1>7, <1>8, <1>9, <1>10, <1>11, <1>12, <1>13, <1>14, <1>15, <1>16, <1>17, <1>18, <1>19
  DEF OutboxNext, DrainStep

LEMMA DrainsStep ==
  ASSUME OutboxTypeOK, [OutboxNext]_outboxVars
  PROVE  DrainsOK'
<1>0. RowsOK /\ DrainsOK
  BY RowsTyped
<1>00. SmallTypes
  BY SmallTyped
<1> USE <1>0, <1>00 DEF DrainsOK, Acts, Alone, Moves, LetsGo, Keeps
<1>1. CASE Mirror
  BY <1>1, MirrorEffect, MirrorFrame
<1>2. CASE Connect
  BY <1>2, ConnectEffect, ConnectFrame
<1>3. CASE Answer
  BY <1>3, AnswerFrame
<1>4. CASE Revoke
  BY <1>4, RevokeEffect, RevokeFrame
<1>5. ASSUME NEW k \in Kinds, BackoffEnds(k) PROVE DrainsOK'
  BY <1>5, BackoffEffect, BackoffEndsFrame
<1>6. ASSUME NEW k \in Kinds, StatusWebhook(k) PROVE DrainsOK'
  BY <1>6, WebhookEffect, StatusWebhookFrame
<1>7. ASSUME NEW d \in Drains, ListPending(d) PROVE DrainsOK'
  BY <1>7, ListEffect, ListPendingFrame
<1>8. ASSUME NEW d \in Drains, ClaimRow(d) PROVE DrainsOK'
  BY <1>8, ClaimTaskEffect, ClaimRowFrame
<1>9. ASSUME NEW d \in Drains, Resolve(d) PROVE DrainsOK'
  BY <1>9, ResolveEffect, ResolveFrame
<1>10. ASSUME NEW d \in Drains, SendMessage(d) PROVE DrainsOK'
  BY <1>10, SendTaskEffect, SendMessageFrame
<1>11. ASSUME NEW d \in Drains, RecordHandle(d) PROVE DrainsOK'
  BY <1>11, RecordEffect, RecordHandleFrame
<1>12. ASSUME NEW d \in Drains, CountOutbound(d) PROVE DrainsOK'
  BY <1>12, CountEffect, CountOutboundFrame
<1>13. ASSUME NEW d \in Drains, Catch(d) PROVE DrainsOK'
  BY <1>13, CatchEffect, CatchFrame
<1>14. ASSUME NEW d \in Drains, LockConnection(d) PROVE DrainsOK'
  BY <1>14, LockEffect, LockConnectionFrame
<1>15. ASSUME NEW d \in Drains, SendInvite(d) PROVE DrainsOK'
  BY <1>15, InviteEffect, SendInviteFrame
<1>16. ASSUME NEW d \in Drains, TransactionEnds(d) PROVE DrainsOK'
  BY <1>16, TransactionEndsFrame
<1>17. ASSUME NEW d \in Drains, DrainDies(d) PROVE DrainsOK'
  BY <1>17, DeathEffect, DrainDiesFrame
<1>18. CASE UNCHANGED outboxVars
  BY <1>18 DEF outboxVars, drains, outboxHistory
<1>19. CASE OthersSent \/ Inbound \/ Unlink
  BY <1>19, AddresseeFrame
<1> QED
  BY <1>1, <1>2, <1>3, <1>4, <1>5, <1>6, <1>7, <1>8, <1>9, <1>10, <1>11, <1>12, <1>13, <1>14, <1>15, <1>16, <1>17, <1>18, <1>19
  DEF OutboxNext, DrainStep

LEMMA WaysStep ==
  ASSUME OutboxTypeOK, WaysInv, [OutboxNext]_outboxVars
  PROVE  WaysInv'
<1>0. RowsOK /\ DrainsOK
  BY RowsTyped
<1>00. SmallTypes
  BY SmallTyped
<1> USE <1>0, <1>00 DEF WaysInv, NoTask, Acts, Alone, Moves, LetsGo, Keeps
<1>1. CASE Mirror
  BY <1>1, MirrorEffect, MirrorFrame
<1>2. CASE Connect
  BY <1>2, ConnectEffect, ConnectFrame
<1>3. CASE Answer
  BY <1>3, AnswerFrame
<1>4. CASE Revoke
  BY <1>4, RevokeEffect, RevokeFrame
<1>5. ASSUME NEW k \in Kinds, BackoffEnds(k) PROVE WaysInv'
  BY <1>5, BackoffEffect, BackoffEndsFrame
<1>6. ASSUME NEW k \in Kinds, StatusWebhook(k) PROVE WaysInv'
  BY <1>6, WebhookEffect, StatusWebhookFrame
<1>7. ASSUME NEW d \in Drains, ListPending(d) PROVE WaysInv'
  BY <1>7, ListEffect, ListPendingFrame
<1>8. ASSUME NEW d \in Drains, ClaimRow(d) PROVE WaysInv'
  BY <1>8, ClaimTaskEffect, ClaimRowFrame
<1>9. ASSUME NEW d \in Drains, Resolve(d) PROVE WaysInv'
  BY <1>9, ResolveEffect, ResolveFrame
<1>10. ASSUME NEW d \in Drains, SendMessage(d) PROVE WaysInv'
  BY <1>10, SendTaskEffect, SendMessageFrame
<1>11. ASSUME NEW d \in Drains, RecordHandle(d) PROVE WaysInv'
  BY <1>11, RecordEffect, RecordHandleFrame
<1>12. ASSUME NEW d \in Drains, CountOutbound(d) PROVE WaysInv'
  BY <1>12, CountEffect, CountOutboundFrame
<1>13. ASSUME NEW d \in Drains, Catch(d) PROVE WaysInv'
  BY <1>13, CatchEffect, CatchFrame
<1>14. ASSUME NEW d \in Drains, LockConnection(d) PROVE WaysInv'
  BY <1>14, LockEffect, LockConnectionFrame
<1>15. ASSUME NEW d \in Drains, SendInvite(d) PROVE WaysInv'
  BY <1>15, InviteEffect, SendInviteFrame
<1>16. ASSUME NEW d \in Drains, TransactionEnds(d) PROVE WaysInv'
  BY <1>16, TransactionEndsFrame
<1>17. ASSUME NEW d \in Drains, DrainDies(d) PROVE WaysInv'
  BY <1>17, DeathEffect, DrainDiesFrame
<1>18. CASE UNCHANGED outboxVars
  BY <1>18 DEF outboxVars, drains, outboxHistory
<1>19. CASE OthersSent \/ Inbound \/ Unlink
  BY <1>19, AddresseeFrame
<1> QED
  BY <1>1, <1>2, <1>3, <1>4, <1>5, <1>6, <1>7, <1>8, <1>9, <1>10, <1>11, <1>12, <1>13, <1>14, <1>15, <1>16, <1>17, <1>18, <1>19
  DEF OutboxNext, DrainStep

LEMMA IdsStep ==
  ASSUME OutboxTypeOK, IdsInv, [OutboxNext]_outboxVars
  PROVE  IdsInv'
<1>0. RowsOK /\ DrainsOK
  BY RowsTyped
<1>00. SmallTypes
  BY SmallTyped
<1> USE <1>0, <1>00 DEF SmallTypes, IdsInv, NoTask, Exists, Kinds, Acts, Alone, Moves, LetsGo, Keeps
<1>1. CASE Mirror
  BY <1>1, MirrorEffect, MirrorFrame
<1>2. CASE Connect
  <2>1. outbox'["dm"].id = 0 /\ outbox'["invite"].id = cycle' /\ cycle' = cycle + 1
    BY <1>2, ConnectEffect, ConnectFrame
  <2>2. listed' = listed /\ task' = task
    BY <1>2, ConnectFrame
  <2>3. \A i \in Ids : i <= cycle => i <= cycle'
    BY <2>1
  <2> QED
    BY <2>1, <2>2, <2>3
<1>3. CASE Answer
  BY <1>3, AnswerFrame
<1>4. CASE Revoke
  BY <1>4, RevokeEffect, RevokeFrame
<1>5. ASSUME NEW k \in Kinds, BackoffEnds(k) PROVE IdsInv'
  BY <1>5, BackoffEffect, BackoffEndsFrame
<1>6. ASSUME NEW k \in Kinds, StatusWebhook(k) PROVE IdsInv'
  BY <1>6, WebhookEffect, StatusWebhookFrame
<1>7. ASSUME NEW d \in Drains, ListPending(d) PROVE IdsInv'
  BY <1>7, ListEffect, ListPendingFrame
<1>8. ASSUME NEW d \in Drains, ClaimRow(d) PROVE IdsInv'
  BY <1>8, ClaimTaskEffect, ClaimRowFrame
<1>9. ASSUME NEW d \in Drains, Resolve(d) PROVE IdsInv'
  BY <1>9, ResolveEffect, ResolveFrame
<1>10. ASSUME NEW d \in Drains, SendMessage(d) PROVE IdsInv'
  BY <1>10, SendTaskEffect, SendMessageFrame
<1>11. ASSUME NEW d \in Drains, RecordHandle(d) PROVE IdsInv'
  BY <1>11, RecordEffect, RecordHandleFrame
<1>12. ASSUME NEW d \in Drains, CountOutbound(d) PROVE IdsInv'
  BY <1>12, CountEffect, CountOutboundFrame
<1>13. ASSUME NEW d \in Drains, Catch(d) PROVE IdsInv'
  BY <1>13, CatchEffect, CatchFrame
<1>14. ASSUME NEW d \in Drains, LockConnection(d) PROVE IdsInv'
  BY <1>14, LockEffect, LockConnectionFrame
<1>15. ASSUME NEW d \in Drains, SendInvite(d) PROVE IdsInv'
  BY <1>15, InviteEffect, SendInviteFrame
<1>16. ASSUME NEW d \in Drains, TransactionEnds(d) PROVE IdsInv'
  BY <1>16, TransactionEndsFrame
<1>17. ASSUME NEW d \in Drains, DrainDies(d) PROVE IdsInv'
  BY <1>17, DeathEffect, DrainDiesFrame
<1>18. CASE UNCHANGED outboxVars
  BY <1>18 DEF outboxVars, drains, outboxHistory
<1>19. CASE OthersSent \/ Inbound \/ Unlink
  BY <1>19, AddresseeFrame
<1> QED
  BY <1>1, <1>2, <1>3, <1>4, <1>5, <1>6, <1>7, <1>8, <1>9, <1>10, <1>11, <1>12, <1>13, <1>14, <1>15, <1>16, <1>17, <1>18, <1>19
  DEF OutboxNext, DrainStep

LEMMA HoldersStep ==
  ASSUME OutboxTypeOK, WaysInv, IdsInv, HoldersInv, [OutboxNext]_outboxVars
  PROVE  HoldersInv'
<1>0. RowsOK /\ DrainsOK
  BY RowsTyped
<1>00. SmallTypes
  BY SmallTyped
<1> USE <1>0, <1>00 DEF SmallTypes, WaysInv, IdsInv, HoldersInv, Holds, Exists, NoTask, Kinds, Acts, Alone, Moves, LetsGo, Keeps
<1>1. CASE Mirror
  BY <1>1, MirrorEffect, MirrorFrame
<1>2. CASE Connect
  BY <1>2, ConnectEffect, ConnectFrame
<1>3. CASE Answer
  BY <1>3, AnswerFrame
<1>4. CASE Revoke
  BY <1>4, RevokeEffect, RevokeFrame
<1>5. ASSUME NEW k \in Kinds, BackoffEnds(k) PROVE HoldersInv'
  BY <1>5, BackoffEffect, BackoffEndsFrame
<1>6. ASSUME NEW k \in Kinds, StatusWebhook(k) PROVE HoldersInv'
  BY <1>6, WebhookEffect, StatusWebhookFrame
<1>7. ASSUME NEW d \in Drains, ListPending(d) PROVE HoldersInv'
  BY <1>7, ListEffect, ListPendingFrame
<1>8. ASSUME NEW d \in Drains, ClaimRow(d) PROVE HoldersInv'
  BY <1>8, ClaimTaskEffect, ClaimRowFrame
<1>9. ASSUME NEW d \in Drains, Resolve(d) PROVE HoldersInv'
  BY <1>9, ResolveEffect, ResolveFrame
<1>10. ASSUME NEW d \in Drains, SendMessage(d) PROVE HoldersInv'
  BY <1>10, SendTaskEffect, SendMessageFrame
<1>11. ASSUME NEW d \in Drains, RecordHandle(d) PROVE HoldersInv'
  BY <1>11, RecordEffect, RecordHandleFrame
<1>12. ASSUME NEW d \in Drains, CountOutbound(d) PROVE HoldersInv'
  BY <1>12, CountEffect, CountOutboundFrame
<1>13. ASSUME NEW d \in Drains, Catch(d) PROVE HoldersInv'
  BY <1>13, CatchEffect, CatchFrame
<1>14. ASSUME NEW d \in Drains, LockConnection(d) PROVE HoldersInv'
  BY <1>14, LockEffect, LockConnectionFrame
<1>15. ASSUME NEW d \in Drains, SendInvite(d) PROVE HoldersInv'
  BY <1>15, InviteEffect, SendInviteFrame
<1>16. ASSUME NEW d \in Drains, TransactionEnds(d) PROVE HoldersInv'
  BY <1>16, TransactionEndsFrame
<1>17. ASSUME NEW d \in Drains, DrainDies(d) PROVE HoldersInv'
  BY <1>17, DeathEffect, DrainDiesFrame
<1>18. CASE UNCHANGED outboxVars
  BY <1>18 DEF outboxVars, drains, outboxHistory
<1>19. CASE OthersSent \/ Inbound \/ Unlink
  BY <1>19, AddresseeFrame
<1> QED
  BY <1>1, <1>2, <1>3, <1>4, <1>5, <1>6, <1>7, <1>8, <1>9, <1>10, <1>11, <1>12, <1>13, <1>14, <1>15, <1>16, <1>17, <1>18, <1>19
  DEF OutboxNext, DrainStep

LEMMA MessagesStep ==
  ASSUME OutboxTypeOK, WaysInv, IdsInv, HoldersInv, MessagesInv, [OutboxNext]_outboxVars
  PROVE  MessagesInv'
<1>0. RowsOK /\ DrainsOK
  BY RowsTyped
<1>00. SmallTypes
  BY SmallTyped
<1> USE <1>0, <1>00 DEF SmallTypes, WaysInv, IdsInv, HoldersInv, Holds, Exists, NoTask, Kinds, MessagesInv, MessageOnce, Acts, Alone, Moves, LetsGo, Keeps
<1>1. CASE Mirror
  BY <1>1, MirrorEffect, MirrorFrame
<1>2. CASE Connect
  BY <1>2, ConnectEffect, ConnectFrame
<1>3. CASE Answer
  BY <1>3, AnswerFrame
<1>4. CASE Revoke
  BY <1>4, RevokeEffect, RevokeFrame
<1>5. ASSUME NEW k \in Kinds, BackoffEnds(k) PROVE MessagesInv'
  BY <1>5, BackoffEffect, BackoffEndsFrame
<1>6. ASSUME NEW k \in Kinds, StatusWebhook(k) PROVE MessagesInv'
  BY <1>6, WebhookEffect, StatusWebhookFrame
<1>7. ASSUME NEW d \in Drains, ListPending(d) PROVE MessagesInv'
  BY <1>7, ListEffect, ListPendingFrame
<1>8. ASSUME NEW d \in Drains, ClaimRow(d) PROVE MessagesInv'
  BY <1>8, ClaimTaskEffect, ClaimRowFrame
<1>9. ASSUME NEW d \in Drains, Resolve(d) PROVE MessagesInv'
  BY <1>9, ResolveEffect, ResolveFrame
<1>10. ASSUME NEW d \in Drains, SendMessage(d) PROVE MessagesInv'
  BY <1>10, SendTaskEffect, SendMessageFrame
<1>11. ASSUME NEW d \in Drains, RecordHandle(d) PROVE MessagesInv'
  BY <1>11, RecordEffect, RecordHandleFrame
<1>12. ASSUME NEW d \in Drains, CountOutbound(d) PROVE MessagesInv'
  BY <1>12, CountEffect, CountOutboundFrame
<1>13. ASSUME NEW d \in Drains, Catch(d) PROVE MessagesInv'
  BY <1>13, CatchEffect, CatchFrame
<1>14. ASSUME NEW d \in Drains, LockConnection(d) PROVE MessagesInv'
  BY <1>14, LockEffect, LockConnectionFrame
<1>15. ASSUME NEW d \in Drains, SendInvite(d) PROVE MessagesInv'
  BY <1>15, InviteEffect, SendInviteFrame
<1>16. ASSUME NEW d \in Drains, TransactionEnds(d) PROVE MessagesInv'
  BY <1>16, TransactionEndsFrame
<1>17. ASSUME NEW d \in Drains, DrainDies(d) PROVE MessagesInv'
  BY <1>17, DeathEffect, DrainDiesFrame
<1>18. CASE UNCHANGED outboxVars
  BY <1>18 DEF outboxVars, drains, outboxHistory
<1>19. CASE OthersSent \/ Inbound \/ Unlink
  BY <1>19, AddresseeFrame
<1> QED
  BY <1>1, <1>2, <1>3, <1>4, <1>5, <1>6, <1>7, <1>8, <1>9, <1>10, <1>11, <1>12, <1>13, <1>14, <1>15, <1>16, <1>17, <1>18, <1>19
  DEF OutboxNext, DrainStep

LEMMA RequestsStep ==
  ASSUME OutboxTypeOK, WaysInv, IdsInv, HoldersInv, RequestsInv, [OutboxNext]_outboxVars
  PROVE  RequestsInv'
<1>0. RowsOK /\ DrainsOK
  BY RowsTyped
<1>00. SmallTypes
  BY SmallTyped
<1> USE <1>0, <1>00 DEF SmallTypes, RequestsInv, NoTask, Kinds, Acts, Alone, Moves, LetsGo, Keeps
<1>1. CASE Mirror
  BY <1>1, MirrorEffect, MirrorFrame
<1>2. CASE Connect
  BY <1>2, ConnectEffect, ConnectFrame DEF IdsInv
<1>3. CASE Answer
  BY <1>3, AnswerFrame
<1>4. CASE Revoke
  BY <1>4, RevokeEffect, RevokeFrame
<1>5. ASSUME NEW k \in Kinds, BackoffEnds(k) PROVE RequestsInv'
  BY <1>5, BackoffEffect, BackoffEndsFrame
<1>6. ASSUME NEW k \in Kinds, StatusWebhook(k) PROVE RequestsInv'
  BY <1>6, WebhookEffect, StatusWebhookFrame
<1>7. ASSUME NEW d \in Drains, ListPending(d) PROVE RequestsInv'
  BY <1>7, ListEffect, ListPendingFrame DEF Kinds
<1>8. ASSUME NEW d \in Drains, ClaimRow(d) PROVE RequestsInv'
  BY <1>8, ClaimTaskEffect, ClaimRowFrame DEF IdsInv
<1>9. ASSUME NEW d \in Drains, Resolve(d) PROVE RequestsInv'
  BY <1>9, ResolveEffect, ResolveFrame DEF IdsInv, Exists
<1>10. ASSUME NEW d \in Drains, SendMessage(d) PROVE RequestsInv'
  BY <1>10, SendTaskEffect, SendMessageFrame DEF WaysInv
<1>11. ASSUME NEW d \in Drains, RecordHandle(d) PROVE RequestsInv'
  BY <1>11, RecordEffect, RecordHandleFrame DEF WaysInv
<1>12. ASSUME NEW d \in Drains, CountOutbound(d) PROVE RequestsInv'
  BY <1>12, CountEffect, CountOutboundFrame
<1>13. ASSUME NEW d \in Drains, Catch(d) PROVE RequestsInv'
  BY <1>13, CatchEffect, CatchFrame DEF IdsInv, Exists
<1>14. ASSUME NEW d \in Drains, LockConnection(d) PROVE RequestsInv'
  BY <1>14, LockEffect, LockConnectionFrame DEF IdsInv, WaysInv
<1>15. ASSUME NEW d \in Drains, SendInvite(d) PROVE RequestsInv'
  <2> SUFFICES ASSUME ambiguous = 0 PROVE RequestsInv'
    BY <1>15, SendInviteFrame
  <2> DEFINE i0 == task[d].id
  <2>1. /\ drainAt[d] = "sendInvite" /\ Keeps({}) /\ Alone(d) /\ cycle' = cycle
        /\ drainAt'[d] \in {"count", "idle", "listed"}
        /\ \/ inviteSent' = [inviteSent EXCEPT ![i0] = inviteSent[i0] + 1]
           \/ inviteSent' = inviteSent
    BY <1>15, InviteEffect, SendInviteFrame
  <2>2. task[d].kind = "invite" /\ inviteSent[i0] = 0 /\ i0 \in Ids
    BY <2>1 DEF WaysInv
  <2>3. /\ \A i \in Ids : i # i0 => inviteSent'[i] = inviteSent[i]
        /\ inviteSent'[i0] <= 1
    BY <2>1, <2>2
  <2>4. outbox'["invite"].status = "pending" =>
          outbox["invite"].status = "pending" /\ cycle # i0
    BY <2>1, <2>2 DEF HoldersInv, Holds, IdsInv
  <2>5. \A e \in Drains \ {d} :
          drainAt[e] \in {"claimed", "locked", "sendInvite", "catch"}
            /\ task[e].kind = "invite" => task[e].id # i0
    BY <2>1, <2>2 DEF HoldersInv, Holds
  <2>6. i0 <= cycle
    BY DEF IdsInv
  <2>7. outbox'["invite"].status = "pending" => inviteSent'[cycle] = 0
    BY <2>3, <2>4
  <2>8. \A e \in Drains :
          drainAt'[e] \in {"claimed", "locked", "sendInvite", "catch"}
            /\ task'[e].kind = "invite" => inviteSent'[task'[e].id] = 0
    BY <2>1, <2>3, <2>5, ZenonT(150)
  <2>9. /\ \A i \in Ids : i > cycle => inviteSent'[i] = 0
        /\ \A i \in Ids : inviteSent'[i] <= 1
    BY <2>2, <2>3, <2>6
  <2> QED
    BY <2>1, <2>7, <2>8, <2>9
<1>16. ASSUME NEW d \in Drains, TransactionEnds(d) PROVE RequestsInv'
  BY <1>16, TransactionEndsFrame
<1>17. ASSUME NEW d \in Drains, DrainDies(d) PROVE RequestsInv'
  <2>1. UNCHANGED <<inviteSent, ambiguous, cycle, outbox>> /\ LetsGo(d)
    BY <1>17, DeathEffect, DrainDiesFrame
  <2> QED
    BY <2>1
<1>18. CASE UNCHANGED outboxVars
  BY <1>18 DEF outboxVars, drains, outboxHistory
<1>19. CASE OthersSent \/ Inbound \/ Unlink
  BY <1>19, AddresseeFrame
<1> QED
  BY <1>1, <1>2, <1>3, <1>4, <1>5, <1>6, <1>7, <1>8, <1>9, <1>10, <1>11, <1>12, <1>13, <1>14, <1>15, <1>16, <1>17, <1>18, <1>19
  DEF OutboxNext, DrainStep

LEMMA LockStep ==
  ASSUME OutboxTypeOK, WaysInv, IdsInv, ConnectionLockInv, [OutboxNext]_outboxVars
  PROVE  ConnectionLockInv'
<1>0. RowsOK /\ DrainsOK
  BY RowsTyped
<1>00. SmallTypes
  BY SmallTyped
<1> USE <1>0, <1>00 DEF SmallTypes, WaysInv, IdsInv, ConnectionLockInv, NoTask, Exists, Kinds, Acts, Alone, Moves, LetsGo, Keeps
<1>1. CASE Mirror
  BY <1>1, MirrorEffect, MirrorFrame
<1>2. CASE Connect
  BY <1>2, ConnectEffect, ConnectFrame
<1>3. CASE Answer
  BY <1>3, AnswerFrame
<1>4. CASE Revoke
  BY <1>4, RevokeEffect, RevokeFrame
<1>5. ASSUME NEW k \in Kinds, BackoffEnds(k) PROVE ConnectionLockInv'
  BY <1>5, BackoffEffect, BackoffEndsFrame
<1>6. ASSUME NEW k \in Kinds, StatusWebhook(k) PROVE ConnectionLockInv'
  BY <1>6, WebhookEffect, StatusWebhookFrame
<1>7. ASSUME NEW d \in Drains, ListPending(d) PROVE ConnectionLockInv'
  BY <1>7, ListEffect, ListPendingFrame
<1>8. ASSUME NEW d \in Drains, ClaimRow(d) PROVE ConnectionLockInv'
  BY <1>8, ClaimTaskEffect, ClaimRowFrame
<1>9. ASSUME NEW d \in Drains, Resolve(d) PROVE ConnectionLockInv'
  BY <1>9, ResolveEffect, ResolveFrame
<1>10. ASSUME NEW d \in Drains, SendMessage(d) PROVE ConnectionLockInv'
  BY <1>10, SendTaskEffect, SendMessageFrame
<1>11. ASSUME NEW d \in Drains, RecordHandle(d) PROVE ConnectionLockInv'
  BY <1>11, RecordEffect, RecordHandleFrame
<1>12. ASSUME NEW d \in Drains, CountOutbound(d) PROVE ConnectionLockInv'
  BY <1>12, CountEffect, CountOutboundFrame
<1>13. ASSUME NEW d \in Drains, Catch(d) PROVE ConnectionLockInv'
  BY <1>13, CatchEffect, CatchFrame
<1>14. ASSUME NEW d \in Drains, LockConnection(d) PROVE ConnectionLockInv'
  BY <1>14, LockEffect, LockConnectionFrame
<1>15. ASSUME NEW d \in Drains, SendInvite(d) PROVE ConnectionLockInv'
  BY <1>15, InviteEffect, SendInviteFrame
<1>16. ASSUME NEW d \in Drains, TransactionEnds(d) PROVE ConnectionLockInv'
  BY <1>16, TransactionEndsFrame
<1>17. ASSUME NEW d \in Drains, DrainDies(d) PROVE ConnectionLockInv'
  BY <1>17, DeathEffect, DrainDiesFrame
<1>18. CASE UNCHANGED outboxVars
  BY <1>18 DEF outboxVars, drains, outboxHistory
<1>19. CASE OthersSent \/ Inbound \/ Unlink
  BY <1>19, AddresseeFrame
<1> QED
  BY <1>1, <1>2, <1>3, <1>4, <1>5, <1>6, <1>7, <1>8, <1>9, <1>10, <1>11, <1>12, <1>13, <1>14, <1>15, <1>16, <1>17, <1>18, <1>19
  DEF OutboxNext, DrainStep

LEMMA OutboxTypeStep ==
  ASSUME OutboxTypeOK, [OutboxNext]_outboxVars PROVE OutboxTypeOK'
<1> DEFINE Rest == /\ connection \in {"none", "pending", "approved", "declined", "revoked"}
                   /\ cycle \in Ids /\ connectionLock \in Drains \cup {NoDrain}
                   /\ dmSent \in Nat /\ ambiguous \in Nat
                   /\ inviteSent \in [Ids -> Nat] /\ untimely \in BOOLEAN
                   /\ stranded \in SUBSET Kinds /\ outboxFaults \in Nat
                   /\ linked \in SUBSET Kinds /\ sinceInbound \in 0 .. OutboundCap
<1>1. RowsOK' /\ DrainsOK'
  BY RowsStep, DrainsStep
<1>2. Rest /\ (\A d \in Drains : task[d].kind \in Kinds) /\ "invite" \in Kinds
  BY SmallTyped DEF OutboxTypeOK, SmallTypes, Kinds
<1>3. Rest'
  <2> USE <1>2, OutboxAssumption
      DEF Ids, OutboxFault, KeepConnection, drains, addressees, outboxHistory
  <2>1. CASE Mirror
    BY <2>1 DEF Mirror, Kinds
  <2>2. CASE Connect
    BY <2>2 DEF Connect
  <2>3. CASE Answer
    BY <2>3 DEF Answer
  <2>4. CASE Revoke
    BY <2>4 DEF Revoke
  <2>5. ASSUME NEW k \in Kinds, BackoffEnds(k) PROVE Rest'
    BY <2>5 DEF BackoffEnds
  <2>6. ASSUME NEW k \in Kinds, StatusWebhook(k) PROVE Rest'
    BY <2>6 DEF StatusWebhook
  <2>7. ASSUME NEW d \in Drains, ListPending(d) PROVE Rest'
    BY <2>7 DEF ListPending
  <2>8. ASSUME NEW d \in Drains, ClaimRow(d) PROVE Rest'
    BY <2>8 DEF ClaimRow
  <2>9. ASSUME NEW d \in Drains, Resolve(d) PROVE Rest'
    BY <2>9 DEF Resolve, LetGo, ToThread
  <2>10. ASSUME NEW d \in Drains, SendMessage(d) PROVE Rest'
    BY <2>10 DEF SendMessage
  <2>11. ASSUME NEW d \in Drains, RecordHandle(d) PROVE Rest'
    BY <2>11 DEF RecordHandle
  <2>12. ASSUME NEW d \in Drains, CountOutbound(d) PROVE Rest'
    BY <2>12 DEF CountOutbound, OneMore, AtCap
  <2>13. ASSUME NEW d \in Drains, Catch(d) PROVE Rest'
    BY <2>13 DEF Catch
  <2>14. ASSUME NEW d \in Drains, LockConnection(d) PROVE Rest'
    BY <2>14 DEF LockConnection
  <2>15. ASSUME NEW d \in Drains, SendInvite(d) PROVE Rest'
    BY <2>15, SMTT(60) DEF SendInvite
  <2>16. ASSUME NEW d \in Drains, TransactionEnds(d) PROVE Rest'
    BY <2>16 DEF TransactionEnds
  <2>17. ASSUME NEW d \in Drains, DrainDies(d) PROVE Rest'
    BY <2>17 DEF DrainDies
  <2>18. CASE UNCHANGED outboxVars
    BY <2>18 DEF outboxVars
  <2>19. CASE OthersSent \/ Inbound \/ Unlink
    BY <2>19 DEF OthersSent, Inbound, Unlink, OneMore, AtCap
  <2> QED
    BY <2>1, <2>2, <2>3, <2>4, <2>5, <2>6, <2>7, <2>8, <2>9, <2>10, <2>11, <2>12, <2>13, <2>14, <2>15, <2>16, <2>17, <2>18, <2>19
       DEF OutboxNext, DrainStep
<1> QED
  BY <1>1, <1>3 DEF OutboxTypeOK, RowsOK, DrainsOK, Rows

-----------------------------------------------------------------------------
(* The theorems.                                                           *)

LEMMA OutboxInvariant == OutboxInit /\ [][OutboxNext]_outboxVars => []OutboxInv
<1>1. OutboxInit => OutboxInv
  <2> HAVE OutboxInit
  <2> USE DEF OutboxInit
  <2>1. 0 \in Ids /\ Ids \subseteq Nat
    BY OutboxAssumption DEF Ids
  <2>2. RowsOK /\ \A k \in Kinds : outbox[k].status = "absent" /\ outbox[k].id = 0
    BY <2>1, NewRowFields DEF RowsOK
  <2>3. DrainsOK
    BY NoTaskTyped DEF DrainsOK, DrainPlaces
  <2>4. OutboxTypeOK
    <3>1. linked \subseteq Kinds /\ sinceInbound \in 0 .. OutboundCap
      BY OutboxAssumption
    <3>2. inviteSent \in [Ids -> Nat] /\ cycle \in Ids /\ dmSent \in Nat
          /\ ambiguous \in Nat /\ outboxFaults \in Nat
      BY <2>1
    <3> QED
      BY <2>2, <2>3, <3>1, <3>2 DEF OutboxTypeOK, RowsOK, DrainsOK, Rows
  <2>5. WaysInv /\ ConnectionLockInv
    BY DEF WaysInv, ConnectionLockInv
  <2>6. IdsInv
    BY <2>2, NoTaskTyped DEF IdsInv, Kinds
  <2>7. HoldersInv
    BY DEF HoldersInv, Holds
  <2>8. MessagesInv /\ RequestsInv
    BY <2>2 DEF MessagesInv, RequestsInv, MessageOnce, Kinds
  <2> QED
    BY <2>4, <2>5, <2>6, <2>7, <2>8 DEF OutboxInv
<1>2. OutboxInv /\ [OutboxNext]_outboxVars => OutboxInv'
  BY OutboxTypeStep, WaysStep, IdsStep, HoldersStep, MessagesStep, RequestsStep,
     LockStep
  DEF OutboxInv
<1> QED
  BY <1>1, <1>2, PTL

\* The variables of the outbox keep their types.
THEOREM OutboxTypeCorrect == OutboxSpec => []OutboxTypeOK
BY OutboxInvariant, PTL DEF OutboxSpec, OutboxInv

\* However many drains race for a row, a message is accepted once more only for
\* each answer that was lost, and a request to connect once.
THEOREM SentAtMostOnce == OutboxSpec => []SentOnce
<1>1. OutboxInv => SentOnce
  BY DEF OutboxInv, MessagesInv, RequestsInv, SentOnce, RequestOnce
<1> QED
  BY <1>1, OutboxInvariant, PTL DEF OutboxSpec

\* The lock of the connection keeps a request from going out once it was revoked,
\* answered or asked for anew.
THEOREM RequestsAreCurrent == OutboxSpec => RequestIsCurrent
<1>1. ASSUME OutboxInv, [OutboxNext]_outboxVars
      PROVE  (inviteSent' # inviteSent /\ ~untimely) =>
               connection = "pending" /\ inviteSent'[cycle] # inviteSent[cycle]
  <2> SUFFICES ASSUME inviteSent' # inviteSent, ~untimely
               PROVE  connection = "pending" /\ inviteSent'[cycle] # inviteSent[cycle]
    OBVIOUS
  <2> USE <1>1 DEF OutboxInv, OutboxTypeOK, WaysInv, ConnectionLockInv, outboxHistory
  <2>1. PICK d \in Drains : SendInvite(d)
    BY DEF OutboxNext, DrainStep, outboxVars, Mirror, Connect, Answer, Revoke,
       BackoffEnds, StatusWebhook, OthersSent, Inbound, Unlink, ListPending, ClaimRow,
       Resolve, SendMessage,
       RecordHandle, CountOutbound, Catch, LockConnection, TransactionEnds, DrainDies
  <2>2. connection = "pending" /\ task[d].id = cycle
    BY <2>1 DEF SendInvite
  <2>3. inviteSent' = [inviteSent EXCEPT ![cycle] = @ + 1]
    BY <2>1, <2>2 DEF SendInvite
  <2> QED
    BY <2>2, <2>3
<1> QED
  BY <1>1, OutboxInvariant, PTL DEF OutboxSpec, RequestIsCurrent
===============================================================================
