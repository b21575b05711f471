------------------------------- MODULE GroupChat -------------------------------
(***************************************************************************)
(* One group: bots that share a thread, the person who writes to them, and *)
(* the stages of work they hand to each other there.                       *)
(*                                                                         *)
(* What changes the group, sends to it or hands a stage on locks its row;  *)
(* what ends, stops or clears runs locks the thread's.  A transaction that *)
(* reads under the one lock and writes under the other is two steps.  The  *)
(* archiving of a bot and the firing of a routine lock neither.            *)
(***************************************************************************)
EXTENDS FiniteSets, Naturals

CONSTANTS
  Crew,          \* the bots of the person
  Founders,      \* those the group was created with
  Outsider,      \* who handed on the work that no bot did
  StageIds,      \* 1 .. the number of runs explored
  GroupMin,      \* GROUP_MEMBER_MIN
  MaxChain,      \* BOT_MESSAGE_MAX_HOPS
  MaxSends,      \* bound: messages of the person, and firings
  MaxChanges     \* bound: changes of the group, of its bots, stops and clears

ASSUME GroupAssumption ==
  /\ IsFiniteSet(Crew) /\ Outsider \notin Crew
  /\ Founders \subseteq Crew /\ Cardinality(Founders) >= GroupMin
  /\ StageIds \subseteq Nat \ {0}
  /\ GroupMin \in Nat \ {0} /\ MaxChain \in Nat
  /\ MaxSends \in Nat /\ MaxChanges \in Nat

VARIABLES
  group,              \* "open", "archived" or "gone"
  members,            \* its rows of chat_group_members
  resting, erased,    \* bots with archivedAt; bots deleted
  stage,              \* status of each run of the thread
  bearer,             \* its bot
  giver, chain,       \* of the handoff it was started by: fromBotId, hop
  maker,              \* and the run that sent it (0: none)
  posted,             \* runs whose handoff is still a message of the thread
  steered, floating,  \* runs with unheard steering; bots with some unbound
  resolved,           \* the members found before a request's transaction
  routed,              \* bots whose routine has found the group
  handing,            \* a handoff that has read, and has yet to write
  changing,           \* a change of the group in the same state
  leaving,            \* a bot being archived or deleted, its runs as read
  slipped,            \* history: runs started behind a change of the group
  belated,            \* history: a handoff outlived the end of its run
  wave, waves,        \* history: stops and clears before the chain of a run
  sends, changes

outliers == <<slipped, belated>>
stageRows == <<stage, bearer, giver, chain, maker, wave>>
thread == <<posted, steered, floating>>
crewRows == <<resting, erased, leaving>>
underway == <<resolved, routed>>
locks == <<handing, changing>>
groupVars == <<group, members, crewRows, stageRows, thread, underway, locks,
               outliers, waves, sends, changes>>

InProgress == {"queued", "running", "waiting"}
\* Completed or failed: nothing that comes later tells them apart.
StageStatus == {"absent", "ended", "cancelled", "deleted"} \cup InProgress
Unchanging == [kind |-> "none", members |-> {}, runs |-> {}]
Staying == [bot |-> Outsider, runs |-> {}, cancelled |-> FALSE]

GroupTypeOK ==
  /\ group \in {"open", "archived", "gone"}
  /\ members \subseteq Crew \ erased
  /\ resting \subseteq Crew /\ erased \subseteq Crew
  /\ stage \in [StageIds -> StageStatus]
  /\ bearer \in [StageIds -> Crew \cup {Outsider}]
  /\ giver \in [StageIds -> Crew \cup {Outsider}]
  /\ chain \in [StageIds -> Nat] /\ wave \in [StageIds -> Nat]
  /\ maker \in [StageIds -> StageIds \cup {0}]
  /\ posted \subseteq StageIds /\ steered \subseteq StageIds
  /\ floating \subseteq Crew
  /\ resolved \subseteq Crew /\ routed \subseteq Crew
  /\ handing \subseteq StageIds \X Crew
  /\ changing \in [kind : {"none", "update", "archive"},
                   members : SUBSET Crew, runs : SUBSET StageIds]
  /\ leaving \in [bot : Crew \cup {Outsider}, runs : SUBSET StageIds,
                  cancelled : BOOLEAN]
  /\ slipped \subseteq StageIds /\ belated \in BOOLEAN
  /\ waves \in Nat /\ sends \in Nat /\ changes \in Nat

GroupInit ==
  /\ group = "open" /\ members = Founders /\ resting = {} /\ erased = {}
  /\ stage = [r \in StageIds |-> "absent"]
  /\ bearer = [r \in StageIds |-> Outsider]
  /\ giver = [r \in StageIds |-> Outsider]
  /\ chain = [r \in StageIds |-> 0] /\ wave = [r \in StageIds |-> 0]
  /\ maker = [r \in StageIds |-> 0]
  /\ posted = {} /\ steered = {} /\ floating = {}
  /\ resolved = {} /\ routed = {} /\ handing = {}
  /\ changing = Unchanging /\ leaving = Staying
  /\ slipped = {} /\ belated = FALSE /\ waves = 0 /\ sends = 0 /\ changes = 0

\* The members that requests see: those of the group that are not archived.
Awake == members \ resting
StagesOf(b) == {r \in StageIds : bearer[r] = b /\ stage[r] \in InProgress}
AllStages == {r \in StageIds : stage[r] \in InProgress}

GroupRowFree == handing = {} /\ changing = Unchanging
Change == changes < MaxChanges /\ changes' = changes + 1
Send == sends < MaxSends /\ sends' = sends + 1

\* The ids in order, so that runs are told apart by age alone.
NextStage(status, v) ==
  /\ status[v] = "absent"
  /\ \A u \in StageIds : u < v => status[u] # "absent"

\* A run for b; "status" is the column before it.
AddStage(status, v, b, from, hop, by, when) ==
  /\ NextStage(status, v)
  /\ stage' = [status EXCEPT ![v] = "queued"]
  /\ bearer' = [bearer EXCEPT ![v] = b]
  /\ giver' = [giver EXCEPT ![v] = from]
  /\ chain' = [chain EXCEPT ![v] = hop]
  /\ maker' = [maker EXCEPT ![v] = by]
  /\ wave' = [wave EXCEPT ![v] = when]

\* A run started with no look at the group: one that a change of the group
\* has not read, or comes too late for.
Slips(b) == changing # Unchanging \/ group # "open" \/ b \notin members
Slipping(v, b) == IF Slips(b) THEN slipped \cup {v} ELSE slipped

-----------------------------------------------------------------------------
(* The person.                                                             *)

\* resolveThreadTarget, before the transaction of a request.
ResolveTarget ==
  /\ resolved = {} /\ group = "open" /\ Cardinality(Awake) >= GroupMin
  /\ resolved' = Awake
  /\ UNCHANGED <<group, members, crewRows, stageRows, thread, routed, locks,
                 outliers, waves, sends, changes>>

\* Mutant: the members found before the transaction are trusted.
FoundBefore == resolved

\* lockAndLoadGroupMembers: read again under the lock.
LoadedMembers ==
  IF group = "open" /\ Cardinality(Awake) >= GroupMin THEN Awake ELSE {}

\* A message for some members: busy ones are steered, the others get a run.
\* If a bot has several active runs, the read of them keeps one.
StartsOrSteers(named) ==
  LET idle == {b \in named : StagesOf(b) = {}}
      new == {r \in StageIds :
                /\ stage[r] = "absent"
                /\ Cardinality({u \in StageIds : u < r /\ stage[u] = "absent"})
                     < Cardinality(idle)}
  IN  /\ Cardinality(new) = Cardinality(idle)
      /\ \E b \in [new -> idle] :
           /\ \A u, v \in new : b[u] = b[v] => u = v
           /\ stage' = [r \in StageIds |->
                          IF r \in new THEN "queued" ELSE stage[r]]
           /\ bearer' = [r \in StageIds |->
                           IF r \in new THEN b[r] ELSE bearer[r]]
           /\ wave' = [r \in StageIds |->
                         IF r \in new THEN waves ELSE wave[r]]
      /\ \E r \in [named \ idle -> StageIds] :
           /\ \A b \in named \ idle : r[b] \in StagesOf(b)
           /\ steered' = steered \cup {r[b] : b \in named \ idle}
      /\ UNCHANGED <<giver, chain, maker, posted, floating>>

\* sendThreadMessage: those it mentions, or the first member.
SendToGroup(named) ==
  /\ resolved # {} /\ GroupRowFree /\ Send
  /\ named # {} /\ named \subseteq LoadedMembers
  /\ StartsOrSteers(named)
  /\ resolved' = {}
  /\ UNCHANGED <<group, members, crewRows, routed, locks, outliers, waves,
                 changes>>

\* threads.followUp: the first member, archived or not.  The members were
\* created at one time, so any of them may be the first.
FollowUp(b) ==
  /\ resolved # {} /\ GroupRowFree /\ Send
  /\ group = "open" /\ b \in members
  /\ StartsOrSteers({b})
  /\ resolved' = {}
  /\ UNCHANGED <<group, members, crewRows, routed, locks, outliers, waves,
                 changes>>

\* The target is gone, and the request fails; or nothing was asked.
GiveUp ==
  /\ resolved # {} /\ GroupRowFree
  /\ resolved' = {}
  /\ UNCHANGED <<group, members, crewRows, stageRows, thread, routed, locks,
                 outliers, waves, sends, changes>>

CancelStages(runs) ==
  /\ stage' = [r \in StageIds |-> IF r \in runs THEN "cancelled" ELSE stage[r]]
  /\ UNCHANGED <<bearer, giver, chain, maker, wave>>

\* stopThreadRuns: the steering of the members it found goes.
StopGroup ==
  /\ resolved # {} /\ Change
  /\ CancelStages(AllStages)
  /\ steered' = {r \in steered : bearer[r] \notin resolved}
  /\ floating' = floating \ resolved
  /\ resolved' = {} /\ waves' = waves + 1
  /\ UNCHANGED <<group, members, crewRows, posted, routed, locks, outliers,
                 sends>>

\* clearThread of a group: all bots' runs, and with the messages what hangs
\* on them.  It locks the thread and then the group's row.
ClearGroup ==
  /\ resolved # {} /\ GroupRowFree /\ Change
  /\ CancelStages(AllStages)
  /\ posted' = {} /\ steered' = {} /\ floating' = {}
  /\ resolved' = {} /\ waves' = waves + 1
  /\ UNCHANGED <<group, members, crewRows, routed, locks, outliers, sends>>

AnswerStage(r) ==
  /\ stage[r] = "waiting"
  /\ stage' = [stage EXCEPT ![r] = "queued"]
  /\ UNCHANGED <<group, members, crewRows, bearer, giver, chain, maker, wave,
                 thread, underway, locks, outliers, waves, sends, changes>>

-----------------------------------------------------------------------------
(* The runs.                                                               *)

StartStage(r) ==
  /\ stage[r] = "queued"
  /\ stage' = [stage EXCEPT ![r] = "running"]
  /\ UNCHANGED <<group, members, crewRows, bearer, giver, chain, maker, wave,
                 thread, underway, locks, outliers, waves, sends, changes>>

PauseStage(r) ==
  /\ stage[r] = "running" /\ Change
  /\ stage' = [stage EXCEPT ![r] = "waiting"]
  /\ UNCHANGED <<group, members, crewRows, bearer, giver, chain, maker, wave,
                 thread, underway, locks, outliers, waves, sends>>

\* finalizeRun.  What the run was given while it worked is answered with it
\* if it completes; what is left starts a continuation, unless another run of
\* the bot will find it.
FinishStage(r, answered) ==
  LET b == bearer[r]
      over == [stage EXCEPT ![r] = "ended"]
      left == ~answered /\ (r \in steered \/ b \in floating)
      alone == StagesOf(b) = {r}
  IN  /\ stage[r] = "running"
      /\ IF left /\ alone
         THEN \E v \in StageIds :
                /\ AddStage(over, v, b, Outsider, 0, 0, wave[r])
                /\ steered' = (steered \ {r}) \cup {v}
                /\ slipped' = Slipping(v, b)
         ELSE /\ stage' = over
              /\ steered' = steered \ {r}
              /\ UNCHANGED <<bearer, giver, chain, maker, wave, slipped>>
      /\ floating' = IF left /\ ~alone THEN floating \cup {b}
                                       ELSE floating \ {b}
      /\ UNCHANGED <<group, members, crewRows, posted, underway, locks, belated,
                     waves, sends, changes>>

\* The message of the handoff, by its nonce: one for each run that hands on.
Recorded(r) == \E v \in posted : maker[v] = r

\* handoffToGroupBot under the group's lock.  A call that finds its handoff
\* recorded changes nothing.
ReadHandoff(r, b) ==
  /\ stage[r] = "running" /\ GroupRowFree
  /\ group = "open" /\ {bearer[r], b} \subseteq Awake
  /\ ~Recorded(r)
  /\ b \notin {bearer[r], giver[r]}
  /\ chain[r] + 1 <= MaxChain
  /\ handing' = {<<r, b>>}
  /\ UNCHANGED <<group, members, crewRows, stageRows, thread, underway,
                 changing, outliers, waves, sends, changes>>

\* Mutant: any run that is there may write.
StillThere(r) == stage[r] # "deleted"

\* assertRunCanWriteHistory.
MayWrite(r) == stage[r] \notin {"cancelled", "deleted"}

\* The same transaction under the thread's lock: the message and the run.
WriteHandoff(r, b) ==
  /\ <<r, b>> \in handing /\ MayWrite(r)
  /\ \E v \in StageIds :
       /\ AddStage(stage, v, b, bearer[r], chain[r] + 1, r, wave[r])
       /\ posted' = posted \cup {v}
  /\ handing' = {}
  /\ belated' = (belated \/ stage[r] = "ended")
  /\ UNCHANGED <<group, members, crewRows, steered, floating, underway,
                 changing, slipped, waves, sends, changes>>

\* The run was cancelled meanwhile; or a clear, which takes the two locks the
\* other way round, made the transaction the victim of a deadlock.
HandoffAborted ==
  /\ \E r \in StageIds, b \in Crew :
       <<r, b>> \in handing /\ (~MayWrite(r) \/ resolved # {})
  /\ handing' = {}
  /\ UNCHANGED <<group, members, crewRows, stageRows, thread, underway,
                 changing, outliers, waves, sends, changes>>

\* wakeRoutine for a routine of the group: the thread is found while the
\* group is open and has the bot, and the run is created afterwards.
RouteRoutine(b) ==
  /\ routed = {} /\ Send
  /\ group = "open" /\ b \in members
  /\ routed' = {b}
  /\ UNCHANGED <<group, members, crewRows, stageRows, thread, resolved, locks,
                 outliers, waves, changes>>
FireInGroup(b) ==
  /\ b \in routed
  /\ routed' = {}
  /\ \/ /\ group # "gone" /\ b \notin erased
        /\ \E v \in StageIds :
             /\ AddStage(stage, v, b, Outsider, 0, 0, waves)
             /\ slipped' = Slipping(v, b)
     \/ /\ group = "gone" \/ b \in erased
        /\ UNCHANGED <<stageRows, slipped>>
  /\ UNCHANGED <<group, members, crewRows, thread, resolved, locks, belated,
                 waves, sends, changes>>

-----------------------------------------------------------------------------
(* The group.                                                              *)

\* updateGroup: the runs of those that leave, read under the group's lock,
ReadForNewMembers(ms) ==
  /\ group = "open" /\ GroupRowFree /\ Change
  /\ ms \subseteq Crew \ (resting \cup erased) /\ Cardinality(ms) >= GroupMin
  /\ changing' = [kind |-> "update", members |-> ms,
                  runs |-> UNION {StagesOf(b) : b \in members \ ms}]
  /\ UNCHANGED <<group, members, crewRows, stageRows, thread, underway,
                 handing, outliers, waves, sends>>

\* archiveGroup: all active runs of its thread,
ReadForArchiving ==
  /\ group = "open" /\ GroupRowFree /\ Change
  /\ changing' = [kind |-> "archive", members |-> {}, runs |-> AllStages]
  /\ UNCHANGED <<group, members, crewRows, stageRows, thread, underway,
                 handing, outliers, waves, sends>>

\* and the writes: what was read is cancelled whatever has become of it.
ChangeGroup ==
  /\ changing # Unchanging
  /\ CancelStages(changing.runs)
  /\ members' = IF changing.kind = "update" THEN changing.members ELSE members
  /\ group' = IF changing.kind = "archive" THEN "archived" ELSE group
  /\ changing' = Unchanging
  /\ UNCHANGED <<crewRows, thread, underway, handing, outliers, waves, sends,
                 changes>>

RestoreGroup ==
  /\ group = "archived" /\ GroupRowFree
  /\ group' = "open"
  /\ UNCHANGED <<members, crewRows, stageRows, thread, underway, locks,
                 outliers, waves, sends, changes>>

\* The group is deleted, and with it its thread, messages and runs.
Dissolve ==
  /\ group' = "gone" /\ members' = {}
  /\ stage' = [r \in StageIds |->
                 IF stage[r] = "absent" THEN "absent" ELSE "deleted"]
  /\ posted' = {} /\ steered' = {} /\ floating' = {}

RemoveGroup ==
  /\ group # "gone" /\ members # {} /\ GroupRowFree /\ Change
  /\ Dissolve
  /\ UNCHANGED <<crewRows, bearer, giver, chain, maker, wave, underway, locks,
                 outliers, waves, sends>>

-----------------------------------------------------------------------------
(* Its bots.                                                               *)

\* archiveBot and destroyBot read the bot's active runs before they cancel
\* them.
ReadBotRuns(b) ==
  /\ leaving = Staying /\ b \notin erased /\ Change
  /\ leaving' = [bot |-> b, runs |-> StagesOf(b), cancelled |-> FALSE]
  /\ UNCHANGED <<group, members, resting, erased, stageRows, thread, underway,
                 locks, outliers, waves, sends>>

RestBot ==
  /\ leaving # Staying /\ ~leaving.cancelled
  /\ CancelStages(leaving.runs)
  /\ resting' = resting \cup {leaving.bot}
  /\ leaving' = Staying
  /\ UNCHANGED <<group, members, erased, thread, underway, locks, outliers,
                 waves, sends, changes>>

WakeBot(b) ==
  /\ b \in resting
  /\ resting' = resting \ {b}
  /\ UNCHANGED <<group, members, erased, leaving, stageRows, thread, underway,
                 locks, outliers, waves, sends, changes>>

CancelForErasing ==
  /\ leaving # Staying /\ ~leaving.cancelled
  /\ CancelStages(leaving.runs)
  /\ leaving' = [leaving EXCEPT !.cancelled = TRUE]
  /\ UNCHANGED <<group, members, resting, erased, thread, underway, locks,
                 outliers, waves, sends, changes>>

\* The transaction of destroyBot, with detachBotFromGroups: a group that is
\* left with too few members is dissolved.
EraseBot ==
  LET b == leaving.bot
      others == Awake \ {b}
      his == {r \in StageIds : bearer[r] = b /\ stage[r] # "absent"}
  IN  /\ leaving # Staying /\ leaving.cancelled /\ GroupRowFree
      /\ erased' = erased \cup {b} /\ resting' = resting \ {b}
      /\ leaving' = Staying
      /\ IF b \in members /\ Cardinality(others) < GroupMin
         THEN Dissolve
         ELSE /\ members' = members \ {b}
              /\ stage' = [r \in StageIds |->
                             IF r \in his THEN "deleted" ELSE stage[r]]
              /\ steered' = steered \ his /\ floating' = floating \ {b}
              /\ UNCHANGED <<group, posted>>
      /\ UNCHANGED <<bearer, giver, chain, maker, wave, underway, locks,
                     outliers, waves, sends, changes>>

-----------------------------------------------------------------------------
GroupNext ==
  \/ ResolveTarget \/ GiveUp
  \/ \E named \in SUBSET Crew : SendToGroup(named)
  \/ StopGroup \/ ClearGroup
  \/ \E b \in Crew :
       \/ FollowUp(b)
       \/ RouteRoutine(b) \/ FireInGroup(b)
       \/ ReadBotRuns(b) \/ WakeBot(b)
  \/ \E r \in StageIds :
       \/ StartStage(r) \/ PauseStage(r) \/ AnswerStage(r)
       \/ \E answered \in BOOLEAN : FinishStage(r, answered)
       \/ \E b \in Crew : ReadHandoff(r, b) \/ WriteHandoff(r, b)
  \/ HandoffAborted
  \/ \E ms \in SUBSET Crew : ReadForNewMembers(ms)
  \/ ReadForArchiving \/ ChangeGroup \/ RestoreGroup \/ RemoveGroup
  \/ RestBot \/ CancelForErasing \/ EraseBot

GroupSpec == GroupInit /\ [][GroupNext]_groupVars

-----------------------------------------------------------------------------
(* Properties.                                                             *)

\* Whoever works in the thread is a member of a group that is open: a message
\* or a handoff that races an archiving, a removal or a new list of members
\* is refused or cancelled.  Only a continuation or a routine's run, which
\* do not look at the group's row, may slip by.
OnlyMembersWork ==
  \A r \in StageIds \ slipped :
    stage[r] \in InProgress => group = "open" /\ bearer[r] \in members

\* A stop or a clear ends all that was going on in the group: no stage that
\* was being handed on when it came goes on after it.  (The handoff of a
\* stale attempt whose run another attempt has completed since is not found
\* cancelled, and gets through.)
StopEndsRelay ==
  ~belated => \A r \in StageIds : stage[r] \in InProgress => wave[r] = waves

\* A run hands its stage on once, however often its tool call is repeated,
\* by a second attempt or after the next bot has finished.
HandedOnce ==
  \A u, v \in StageIds : maker[u] # 0 /\ maker[u] = maker[v] => u = v
===============================================================================
