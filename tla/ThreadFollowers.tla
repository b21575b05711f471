---------------------------- MODULE ThreadFollowers ----------------------------
(***************************************************************************)
(* A thread's event log and those who follow it: writers append events in  *)
(* transactions that lock the thread's row and publish a signal after the  *)
(* commit; the followers of an API process are woken through its one       *)
(* listening connection to the database, or poll after a while.            *)
(***************************************************************************)
EXTENDS FiniteSets, Naturals

CONSTANTS
  Writers, Followers,
  Nobody,      \* the thread's row is not locked
  Positions,   \* 1 .. the number of events explored
  BatchSize,   \* EVENT_BATCH_SIZE
  MaxDrops     \* bound: lost signals, broken connections, readers that leave

ASSUME FollowersAssumption ==
  /\ Positions \subseteq Nat \ {0}
  /\ BatchSize \in Nat \ {0} /\ MaxDrops \in Nat
  /\ Nobody \notin Writers

VARIABLES
  nextSeq, lock,       \* of the thread's row
  writing, seqOf,      \* of a writer: where it is, the seq it was given
  events, purged,      \* events ever committed, and those deleted since
  progress,            \* the committed progress events
  client, candidate,   \* the listening connection, and the one being made
  connecting, timer,   \* the promise of a connection; the reconnect timer
  inflight,            \* a signal is on its way on the connection
  stirred,           \* of a follower: its latch's generation has changed
                     \* since it was observed,
  follower, cursor,  \* where it is, the last event it gave its reader,
  rest, full,        \* the events it read, and if the batch was full
  lost,                 \* history: events whose signal was never sent
  drops

threadRow == <<nextSeq, lock, writing, seqOf>>
eventRows == <<events, purged, progress>>
fanout == <<client, candidate, connecting, timer, inflight>>
readers == <<follower, cursor, rest, full>>
followVars == <<threadRow, eventRows, fanout, stirred, readers, lost, drops>>

FollowTypeOK ==
  /\ nextSeq \in Nat /\ lock \in Writers \cup {Nobody}
  /\ writing \in [Writers -> {"idle", "open", "publish"}]
  /\ seqOf \in [Writers -> Nat]
  /\ events \subseteq Positions /\ purged \subseteq events
  /\ progress \subseteq events
  /\ client \in {"none", "up", "deaf"}
  /\ candidate \in {"none", "open", "listening", "disposing"}
  /\ connecting \in BOOLEAN /\ timer \in BOOLEAN /\ inflight \in BOOLEAN
  /\ stirred \subseteq Followers
  /\ follower \in [Followers -> {"off", "top", "read", "give", "wait"}]
  /\ cursor \in [Followers -> Nat]
  /\ rest \in [Followers -> SUBSET Positions]
  /\ full \in [Followers -> BOOLEAN]
  /\ lost \subseteq Positions /\ drops \in Nat

FollowInit ==
  /\ nextSeq = 1 /\ lock = Nobody
  /\ writing = [w \in Writers |-> "idle"]
  /\ seqOf = [w \in Writers |-> 0]
  /\ events = {} /\ purged = {} /\ progress = {}
  /\ client = "none" /\ candidate = "none"
  /\ connecting = FALSE /\ timer = FALSE /\ inflight = FALSE
  /\ stirred = {}
  /\ follower = [f \in Followers |-> "off"]
  /\ cursor = [f \in Followers |-> 0]
  /\ rest = [f \in Followers |-> {}]
  /\ full = [f \in Followers |-> FALSE]
  /\ lost = {} /\ drops = 0

Drop == drops < MaxDrops /\ drops' = drops + 1

-----------------------------------------------------------------------------
(* Writers.                                                                *)

Allocate(w) ==
  /\ writing[w] = "idle" /\ nextSeq \in Positions
  /\ writing' = [writing EXCEPT ![w] = "open"]
  /\ seqOf' = [seqOf EXCEPT ![w] = nextSeq]
  /\ nextSeq' = nextSeq + 1

\* Mutant: the seq comes from a sequence, which locks no row.
OpenWithoutLock(w) ==
  /\ Allocate(w) /\ lock' = Nobody
  /\ UNCHANGED <<eventRows, fanout, stirred, readers, lost, drops>>

\* thread.update increments nextEventSeq and holds the row until the commit.
OpenAppend(w) ==
  /\ lock = Nobody /\ lock' = w
  /\ Allocate(w)
  /\ UNCHANGED <<eventRows, fanout, stirred, readers, lost, drops>>

\* The transaction rolls back, and with it the increment.
RollBack(w) ==
  /\ writing[w] = "open" /\ Drop
  /\ writing' = [writing EXCEPT ![w] = "idle"]
  /\ lock' = Nobody /\ nextSeq' = seqOf[w]
  /\ seqOf' = [seqOf EXCEPT ![w] = 0]
  /\ UNCHANGED <<eventRows, fanout, stirred, readers, lost>>

\* An event, a progress event, the end of a run, which deletes those, or a
\* clear, which deletes all before it.
CommitAppend(w, kind) ==
  /\ writing[w] = "open"
  /\ writing' = [writing EXCEPT ![w] = "publish"]
  /\ lock' = Nobody
  /\ events' = events \cup {seqOf[w]}
  /\ progress' = IF kind = "progress" THEN progress \cup {seqOf[w]}
                 ELSE progress
  /\ purged' = CASE kind = "final" -> purged \cup progress
                 [] kind = "cleared" -> purged \cup events
                 [] OTHER -> purged
  /\ UNCHANGED <<nextSeq, seqOf, fanout, stirred, readers, lost, drops>>

\* notifyRealtime: whoever listens at that moment is signalled.
Publish(w) ==
  /\ writing[w] = "publish"
  /\ writing' = [writing EXCEPT ![w] = "idle"]
  /\ seqOf' = [seqOf EXCEPT ![w] = 0]
  /\ inflight' = (inflight \/ client = "up" \/ candidate = "listening")
  /\ UNCHANGED <<nextSeq, lock, eventRows, client, candidate,
                 connecting, timer, stirred, readers, lost, drops>>

\* The writer dies first, or its publish fails and is swallowed.
PublishLost(w) ==
  /\ writing[w] = "publish" /\ Drop
  /\ writing' = [writing EXCEPT ![w] = "idle"]
  /\ lost' = lost \cup {seqOf[w]}
  /\ seqOf' = [seqOf EXCEPT ![w] = 0]
  /\ UNCHANGED <<nextSeq, lock, eventRows, fanout, stirred, readers>>

-----------------------------------------------------------------------------
(* The process's listening connection (PostgresRealtimeFanout).            *)

Subscribed == {f \in Followers : follower[f] # "off"}

\* ensureConnected, when there is no connection yet and S subscribe.
EnsureConnected(S) ==
  IF client = "none" /\ S # {} /\ ~connecting
  THEN connecting' = TRUE /\ candidate' = "open"
  ELSE UNCHANGED <<connecting, candidate>>

ScheduleReconnect == timer' = (timer \/ Subscribed # {})

Listen ==
  /\ candidate = "open" /\ candidate' = "listening"
  /\ UNCHANGED <<threadRow, eventRows, client, connecting, timer, inflight,
                 stirred, readers, lost, drops>>

\* The connection stands, and whoever subscribed meanwhile catches up.
Connected ==
  /\ candidate = "listening" /\ Subscribed # {}
  /\ candidate' = "none" /\ client' = "up" /\ connecting' = FALSE
  /\ stirred' = Subscribed
  /\ UNCHANGED <<threadRow, eventRows, timer, inflight, readers,
                 lost, drops>>

\* Nobody is left to listen for, or the connection fails while it is made;
\* its error event may have scheduled another before the promise settles.
ConnectAbandoned ==
  /\ candidate \in {"open", "listening"}
  /\ \/ candidate = "listening" /\ Subscribed = {} /\ UNCHANGED <<timer, drops>>
     \/ Drop /\ (UNCHANGED timer \/ ScheduleReconnect)
  /\ candidate' = "disposing" /\ inflight' = FALSE
  /\ UNCHANGED <<threadRow, eventRows, client, connecting, stirred, readers,
                 lost>>

\* Mutant: the settled promise does not look at who subscribed meanwhile.
SettleQuietly ==
  /\ candidate = "disposing"
  /\ candidate' = "none" /\ connecting' = FALSE
  /\ UNCHANGED <<threadRow, eventRows, client, timer, inflight, stirred,
                 readers, lost, drops>>

ConnectSettles ==
  /\ candidate = "disposing"
  /\ candidate' = "none" /\ connecting' = FALSE
  /\ IF client = "none" THEN ScheduleReconnect ELSE UNCHANGED timer
  /\ UNCHANGED <<threadRow, eventRows, client, inflight, stirred, readers,
                 lost, drops>>

\* The session breaks; the client hears of it later, or never.
GoDeaf ==
  /\ client = "up" /\ Drop
  /\ client' = "deaf" /\ inflight' = FALSE
  /\ UNCHANGED <<threadRow, eventRows, candidate, connecting, timer, stirred,
                 readers, lost>>

HandleDisconnect ==
  /\ client = "deaf" /\ client' = "none"
  /\ ScheduleReconnect
  /\ UNCHANGED <<threadRow, eventRows, candidate, connecting, inflight,
                 stirred, readers, lost, drops>>

ReconnectTimer ==
  /\ timer /\ timer' = FALSE
  /\ EnsureConnected(Subscribed)
  /\ UNCHANGED <<threadRow, eventRows, client, inflight, stirred, readers,
                 lost, drops>>

HandleNotification ==
  /\ inflight /\ inflight' = FALSE
  /\ stirred' = Subscribed
  /\ UNCHANGED <<threadRow, eventRows, client, candidate, connecting, timer,
                 readers, lost, drops>>

-----------------------------------------------------------------------------
(* Followers (followThreadEvents).                                         *)

Follow(f) ==
  /\ follower[f] = "off"
  /\ follower' = [follower EXCEPT ![f] = "top"]
  /\ EnsureConnected({f})
  /\ UNCHANGED <<threadRow, eventRows, client, timer, inflight, stirred,
                 cursor, rest, full, lost, drops>>

\* The reader leaves, and may come back with the last event it was given.
Unfollow(f) ==
  /\ follower[f] # "off" /\ Drop
  /\ follower' = [follower EXCEPT ![f] = "off"]
  /\ stirred' = stirred \ {f}
  /\ rest' = [rest EXCEPT ![f] = {}]
  /\ full' = [full EXCEPT ![f] = FALSE]
  /\ UNCHANGED <<threadRow, eventRows, fanout, cursor, lost>>

Observe(f) ==
  /\ follower[f] = "top"
  /\ follower' = [follower EXCEPT ![f] = "read"]
  /\ stirred' = stirred \ {f}
  /\ UNCHANGED <<threadRow, eventRows, fanout, cursor, rest, full,
                 lost, drops>>

Standing == events \ purged
Unread(f) == {e \in Standing : cursor[f] < e}

\* The first of the unread events, a batch of them at most.
ReadBatch(f) ==
  LET batch == {e \in Unread(f) :
                  Cardinality({d \in Unread(f) : d < e}) < BatchSize}
  IN  /\ follower[f] = "read"
      /\ follower' = [follower EXCEPT ![f] = "give"]
      /\ rest' = [rest EXCEPT ![f] = batch]
      /\ full' = [full EXCEPT ![f] = Cardinality(batch) = BatchSize]
      /\ UNCHANGED <<threadRow, eventRows, fanout, stirred, cursor,
                     lost, drops>>

GiveEvent(f) ==
  \E e \in rest[f] :
    /\ \A d \in rest[f] : e <= d
    /\ cursor' = [cursor EXCEPT ![f] = e]
    /\ rest' = [rest EXCEPT ![f] = @ \ {e}]
    /\ UNCHANGED <<threadRow, eventRows, fanout, stirred, follower,
                   full, lost, drops>>

EndBatch(f) ==
  /\ follower[f] = "give" /\ rest[f] = {}
  /\ follower' = [follower EXCEPT ![f] = IF full[f] THEN "read" ELSE "wait"]
  /\ UNCHANGED <<threadRow, eventRows, fanout, stirred, cursor,
                 rest, full, lost, drops>>

\* The latch has changed since it was observed.
Wake(f) ==
  /\ follower[f] = "wait" /\ f \in stirred
  /\ follower' = [follower EXCEPT ![f] = "top"]
  /\ UNCHANGED <<threadRow, eventRows, fanout, stirred, cursor,
                 rest, full, lost, drops>>

\* Mutant: no polling while the connection seems to stand.
PollOffline(f) ==
  /\ follower[f] = "wait" /\ f \notin stirred /\ client = "none"
  /\ follower' = [follower EXCEPT ![f] = "top"]
  /\ UNCHANGED <<threadRow, eventRows, fanout, stirred, cursor, rest, full,
                 lost, drops>>

\* The catch-up delay has passed.
CatchUp(f) ==
  /\ follower[f] = "wait" /\ f \notin stirred
  /\ follower' = [follower EXCEPT ![f] = "top"]
  /\ UNCHANGED <<threadRow, eventRows, fanout, stirred, cursor,
                 rest, full, lost, drops>>

-----------------------------------------------------------------------------
EventKinds == {"event", "progress", "final", "cleared"}

Write(w) ==
  \/ OpenAppend(w) \/ RollBack(w) \/ Publish(w) \/ PublishLost(w)
  \/ \E kind \in EventKinds : CommitAppend(w, kind)

Connection ==
  \/ Listen \/ Connected \/ ConnectAbandoned \/ ConnectSettles
  \/ GoDeaf \/ HandleDisconnect \/ ReconnectTimer \/ HandleNotification

Reads(f) ==
  Observe(f) \/ ReadBatch(f) \/ GiveEvent(f) \/ EndBatch(f) \/ Wake(f)

FollowNext ==
  \/ \E w \in Writers : Write(w)
  \/ Connection
  \/ \E f \in Followers : Follow(f) \/ Unfollow(f) \/ Reads(f) \/ CatchUp(f)

\* A follower goes on, and its catch-up timer fires; nothing is assumed of
\* writers or of the connection.
FollowSpec ==
  /\ FollowInit /\ [][FollowNext]_followVars
  /\ \A f \in Followers : WF_followVars(Reads(f)) /\ WF_followVars(CatchUp(f))

-----------------------------------------------------------------------------
(* Properties.                                                             *)

\* Every follower is given the thread's events in order, with no event
\* skipped that still stands: two transactions cannot commit their seqs in
\* the wrong order, since the thread's row is locked from one to the other.
Delivery == INSTANCE EventDelivery
  WITH Readers <- Followers, log <- events, deleted <- purged,
       reached <- cursor

InOrderDelivery == Delivery!DeliverySpec

\* While someone follows, the process is connected, or connecting, or about
\* to try again: no order of subscriptions, errors and departures leaves it
\* without a connection for good.
NeverOffline ==
  Subscribed # {} => client # "none" \/ connecting \/ timer

\* No event is kept for ever from a reader that stays, unless it is deleted
\* first: whatever signals and connections are lost, the reader catches up.
EventuallyGiven ==
  \A f \in Followers, e \in Positions :
    []<>(e \in events /\ follower[f] # "off" =>
           cursor[f] >= e \/ e \in purged)
===============================================================================
