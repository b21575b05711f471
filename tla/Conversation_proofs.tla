-------------------------- MODULE Conversation_proofs --------------------------
(***************************************************************************)
(* The conversation of a bot, and its thread's followers.                  *)
(*                                                                         *)
(* No message sent to a busy bot is stranded or lost by a run that was not *)
(* given it, and no run from before a clear answers after it: for any      *)
(* number of messages, runs, attempts, clears, stops and faults.           *)
(* ThreadFollowers delivers what EventDelivery promises, and never leaves  *)
(* its followers without a connection for good: for every set of writers,  *)
(* followers and positions, and every batch size.                          *)
(***************************************************************************)
EXTENDS Conversation, ThreadFollowers, FiniteSetTheorems, TLAPS

-----------------------------------------------------------------------------
(* The conversation: the invariant.                                        *)

RunsTypeOK ==
  /\ run \in [RunIds -> ThreadRunStatus]
  /\ claims \in [RunIds -> Nat] /\ born \in [RunIds -> Nat] /\ era \in Nat
  /\ source \in [RunIds -> SUBSET Messages]
SteeringTypeOK ==
  /\ rows \subseteq sent /\ sent \subseteq Messages /\ claimed \subseteq rows
  /\ bound \in [Messages -> RunIds \cup {0}]
AttemptTypeOK ==
  /\ turn \in [Slots -> {"idle", "begin", "turn"}]
  /\ of \in [Slots -> RunIds \cup {0}]
  /\ fence \in [Slots -> Nat]
  /\ seen \in [Slots -> SUBSET Messages]
  /\ \A s \in Slots : turn[s] = "idle" <=> of[s] = 0
TalkTypeOK ==
  /\ firing \in RunIds \cup {0} /\ due \in BOOLEAN
  /\ dropped \subseteq Messages /\ heard \in [Messages -> SUBSET RunIds]
  /\ beside \in BOOLEAN /\ extra \in Nat /\ misses \in Nat
  /\ answers \subseteq RunIds

\* The fences of the attempts of one run differ, and none is ahead of it.
FenceInv ==
  /\ \A s \in Slots : of[s] # 0 => fence[s] <= claims[of[s]]
  /\ \A s, t \in Slots :
       of[s] # 0 /\ of[s] = of[t] /\ fence[s] = fence[t] => s = t

\* A run that may still answer was born since the last clear.
BornInv ==
  /\ \A r \in RunIds : run[r] \in Busy => born[r] = era
  /\ NothingFromBefore

\* The holder of a run was given every row that is claimed for it.
GivenInv ==
  \A s \in Slots :
    turn[s] = "turn" /\ Mine(s) =>
      \A m \in claimed : bound[m] = of[s] => m \in seen[s]

\* Answers are of completed runs, attempts of runs that were created; a
\* message that started a run is heard by that run alone, and has no row.
SourceInv ==
  /\ \A r \in answers : run[r] = "completed"
  /\ \A s \in Slots : of[s] # 0 => run[of[s]] # "absent"
  /\ \A m \in Messages :
       /\ \A r \in heard[m] : run[r] # "absent"
       /\ m \notin sent => heard[m] = {}
       /\ \A r \in RunIds :
            m \in source[r] =>
              /\ m \in sent /\ m \notin rows /\ heard[m] \subseteq {r}
              /\ run[r] # "absent"
              /\ \A q \in RunIds : m \in source[q] => q = r

\* Unless one was started beside another, one run at most is active.
OneActive ==
  ~beside => \A p, q \in RunIds : run[p] \in Busy /\ run[q] \in Busy => p = q

\* A message that steered the active run has its row claimed for that run, and
\* loses it with the answer.
HeardInv ==
  ~beside =>
    \A m \in Messages :
      /\ m \in claimed => bound[m] # 0
      /\ m \in rows => heard[m] \cap answers = {}
      /\ (\A q \in RunIds : m \notin source[q]) =>
           \A r \in heard[m] : run[r] \in Busy => m \in claimed /\ bound[m] = r
      /\ \A a, b \in heard[m] \cap answers : a = b

ConvInv ==
  /\ RunsTypeOK /\ SteeringTypeOK /\ AttemptTypeOK /\ TalkTypeOK
  /\ FenceInv /\ BornInv /\ GivenInv /\ NoStranded
  /\ SourceInv /\ OneActive /\ HeardInv

-----------------------------------------------------------------------------
(* Each part is kept by every step.                                        *)

LEMMA AddRunEffect ==
  ASSUME RunsTypeOK, NEW status \in [RunIds -> ThreadRunStatus], NEW r \in RunIds,
         NEW for \in SUBSET Messages, AddRun(status, r, for)
  PROVE  /\ run' \in [RunIds -> ThreadRunStatus] /\ source' \in [RunIds -> SUBSET Messages]
         /\ born' \in [RunIds -> Nat] /\ claims' = claims
         /\ run[r] = "absent" /\ run'[r] = "queued" /\ born'[r] = era
         /\ \A q \in RunIds : q # r => run'[q] = status[q] /\ born'[q] = born[q]
  BY DEF AddRun, NextRun, RunsTypeOK, ThreadRunStatus, Busy

\* What the end of an attempt does to the runs and their steering.
LEMMA FinalizeEffect ==
  ASSUME RunsTypeOK, AttemptTypeOK, SteeringTypeOK, NEW s \in Slots,
         NEW outcome \in {"completed", "failed"}, FinalizeTurn(s, outcome)
  PROVE  /\ turn[s] = "turn" /\ Mine(s) /\ of[s] \in RunIds /\ Idle(s)
         /\ UNCHANGED <<claims, era, sent, dropped>> /\ rows' = RowsAfter(s, outcome)
         /\ answers' \subseteq answers \cup {of[s]}
         /\ claimed' \subseteq claimed \cap rows'
         /\ run'[of[s]] = outcome
         /\ \E q \in RunIds \cup {0} :
              /\ q # 0 => /\ run[q] = "absent" /\ run'[q] = "queued" /\ born'[q] = era
              /\ \A p \in RunIds \ {q, of[s]} : run'[p] = run[p]
              /\ \A p \in RunIds \ {q} : born'[p] = born[p]
              /\ \A m \in rows' :
                   IF bound[m] \in {0, of[s]}
                   THEN bound'[m] = q /\ (q # 0 => m \notin claimed')
                   ELSE bound'[m] = bound[m]
              /\ \A m \in Messages \ rows' : bound'[m] \in {0, bound[m]}
              /\ q = 0 =>
                   \/ \E p \in RunIds \ {of[s]} : run[p] \in Busy
                   \/ \A m \in rows' : bound[m] \notin {0, of[s]}
         /\ RunsTypeOK' /\ SteeringTypeOK'
<1> DEFINE r == of[s]
           over == [run EXCEPT ![r] = outcome]
           left == RowsAfter(s, outcome)
           pending == {m \in left : bound[m] \in {0, r}}
<1>1. /\ turn[s] = "turn" /\ Mine(s) /\ Idle(s) /\ rows' = left
      /\ UNCHANGED <<claims, era, sent, dropped>> /\ answers' \subseteq answers \cup {r}
  BY DEF FinalizeTurn, AddRun, talk
<1>2. r \in RunIds /\ run[r] = "running"
  BY <1>1 DEF Mine, AttemptTypeOK
<1>3. /\ over \in [RunIds -> ThreadRunStatus] /\ over[r] = outcome
      /\ \A p \in RunIds \ {r} : over[p] = run[p]
  BY <1>2 DEF RunsTypeOK, ThreadRunStatus
<1>4. left \subseteq rows /\ left \subseteq Messages
  BY DEF RowsAfter, SteeringTypeOK
<1>5. CASE NeedsContinuation(over) /\ pending # {}
  <2>1. PICK q \in RunIds :
          /\ AddRun(over, q, {})
          /\ bound' = [m \in Messages |->
                         IF m \in pending \/ m \notin left
                         THEN IF m \in pending THEN q ELSE 0 ELSE bound[m]]
          /\ claimed' = (claimed \cap left) \ pending
    BY <1>5 DEF FinalizeTurn
  <2>2. /\ run' \in [RunIds -> ThreadRunStatus] /\ source' \in [RunIds -> SUBSET Messages]
        /\ born' \in [RunIds -> Nat]
        /\ run[q] = "absent" /\ run'[q] = "queued" /\ born'[q] = era
        /\ \A p \in RunIds : p # q => run'[p] = over[p] /\ born'[p] = born[p]
    <3>1. {} \in SUBSET Messages
      OBVIOUS
    <3> QED
      BY <1>3, <2>1, <3>1, AddRunEffect, ZenonT(60)
  <2>3. RunsTypeOK'
    BY <1>1, <2>2 DEF RunsTypeOK
  <2>4. q # r /\ q # 0
    BY <1>2, <2>2, ConversationAssumption
  <2>5. claimed' \subseteq claimed \cap left
    BY <2>1
  <2>6. \A m \in left :
          IF bound[m] \in {0, r}
          THEN bound'[m] = q /\ m \notin claimed' ELSE bound'[m] = bound[m]
    BY <1>4, <2>1
  <2>7. \A m \in Messages \ left : bound'[m] \in {0, bound[m]}
    BY <2>1
  <2>8. run'[r] = outcome /\ \A p \in RunIds \ {q, r} : run'[p] = run[p]
    BY <1>2, <1>3, <2>2, <2>4
  <2>9. SteeringTypeOK'
    BY <1>1, <1>4, <2>1 DEF SteeringTypeOK
  <2> HIDE DEF left, r, over, pending
  <2> QED
    BY <1>1, <1>2, <2>2, <2>3, <2>4, <2>5, <2>6, <2>7, <2>8, <2>9 DEF left, r
<1>6. CASE ~(NeedsContinuation(over) /\ pending # {})
  <2>1. /\ run' = over /\ claimed' = claimed \cap left /\ UNCHANGED <<source, born>>
        /\ bound' = [m \in Messages |->
                       IF m \in pending \/ m \notin left THEN 0 ELSE bound[m]]
    BY <1>6 DEF FinalizeTurn
  <2>2. RunsTypeOK'
    BY <1>1, <1>3, <2>1 DEF RunsTypeOK
  <2>3. \/ \E p \in RunIds \ {r} : run[p] \in Busy
        \/ \A m \in left : bound[m] \notin {0, r}
    BY <1>3, <1>6 DEF NeedsContinuation, ActiveIn, Busy
  <2>4. \A m \in left : bound'[m] = IF bound[m] \in {0, r} THEN 0 ELSE bound[m]
    BY <1>4, <2>1
  <2>5. \A m \in Messages \ left : bound'[m] \in {0, bound[m]}
    BY <2>1
  <2>6. run'[r] = outcome /\ \A p \in RunIds \ {r} : run'[p] = run[p]
    BY <1>3, <2>1
  <2>7. born' = born /\ claimed' \subseteq claimed \cap left
    BY <2>1
  <2>8. SteeringTypeOK'
    BY <1>1, <1>4, <2>1 DEF SteeringTypeOK
  <2> HIDE DEF left, r, over, pending
  <2> QED
    BY <1>1, <1>2, <2>2, <2>3, <2>4, <2>5, <2>6, <2>7, <2>8 DEF left, r
<1> QED
  BY <1>5, <1>6

LEMMA FinalizeEnds ==
  ASSUME RunsTypeOK, AttemptTypeOK, SteeringTypeOK, NEW s \in Slots,
         NEW outcome \in {"completed", "failed"}, FinalizeTurn(s, outcome)
  PROVE  /\ of[s] \in RunIds /\ run[of[s]] = "running" /\ run'[of[s]] = outcome
         /\ rows' = RowsAfter(s, outcome) /\ rows' \subseteq rows
         /\ claimed' \subseteq claimed \cap rows'
         /\ UNCHANGED <<heard, beside, sent>>
         /\ answers' = IF outcome = "completed" THEN answers \cup {of[s]} ELSE answers
         /\ answers' \subseteq answers \cup {of[s]} /\ Idle(s)
<1>1. /\ of[s] \in RunIds /\ Mine(s) /\ run'[of[s]] = outcome /\ Idle(s)
      /\ rows' = RowsAfter(s, outcome) /\ claimed' \subseteq claimed \cap rows'
  BY FinalizeEffect
<1>2. UNCHANGED <<heard, beside, sent>>
  BY DEF FinalizeTurn, talk
<1>3. answers' = IF outcome = "completed" THEN answers \cup {of[s]} ELSE answers
  BY DEF FinalizeTurn
<1>4. run[of[s]] = "running"
  BY <1>1 DEF Mine
<1>5. RowsAfter(s, outcome) \subseteq rows
  BY DEF RowsAfter
<1> QED
  BY <1>1, <1>2, <1>3, <1>4, <1>5

\* What claimSteering does, which is nothing unless the attempt holds its run.
LEMMA ClaimEffect ==
  ASSUME SteeringTypeOK, AttemptTypeOK, NEW s \in Slots,
         BeginTurns(s) \/ NextTurn(s)
  PROVE  /\ UNCHANGED <<run, claims, source, born, rows, of, fence, sent, dropped, era,
                        answers, due>>
         /\ turn' = [turn EXCEPT ![s] = "turn"] /\ of[s] # 0
         /\ SteeringTypeOK'
         /\ seen' \in [Slots -> SUBSET Messages]
         /\ \A t \in Slots : seen[t] \subseteq seen'[t]
         /\ \A m \in Messages :
              bound'[m] # bound[m] => bound'[m] = of[s] /\ Mine(s) /\ m \in seen'[s]
         /\ \A m \in claimed' \ claimed : Mine(s) /\ m \in seen'[s] /\ bound'[m] = of[s]
         /\ turn[s] = "begin" /\ Mine(s) =>
              \A m \in rows : bound'[m] = of[s] => m \in seen'[s]
<1> DEFINE found == IF turn[s] = "turn" \/ Mine(s) THEN Steering(s) ELSE {}
<1>1. /\ ClaimSteering(s, found)
      /\ turn' = [turn EXCEPT ![s] = "turn"] /\ turn[s] # "idle"
      /\ found # {} => Mine(s)
      /\ UNCHANGED <<run, claims, source, born, rows, of, fence, sent, dropped, era,
                     answers, due>>
  BY DEF BeginTurns, NextTurn, runRows, routine, AttemptTypeOK
<1>2. /\ found \subseteq rows /\ found \subseteq Messages
      /\ \A m \in found : bound[m] \in {0, of[s]}
  BY DEF Steering, SteeringTypeOK
<1>3. Mine(s) => \A m \in rows : bound[m] \in {0, of[s]} => m \in seen[s] \cup found
  BY DEF Steering
<1> HIDE DEF found
<1>4. of[s] \in RunIds
  BY <1>1 DEF AttemptTypeOK
<1>5. /\ claimed' = claimed \cup found
      /\ bound' = [m \in Messages |-> IF m \in found \ claimed THEN of[s] ELSE bound[m]]
      /\ seen' = [seen EXCEPT ![s] = @ \cup found]
  BY <1>1 DEF ClaimSteering
<1>6. /\ seen'[s] = seen[s] \cup found /\ \A t \in Slots : seen[t] \subseteq seen'[t]
      /\ seen' \in [Slots -> SUBSET Messages]
  BY <1>2, <1>5 DEF AttemptTypeOK
<1>7. SteeringTypeOK'
  BY <1>1, <1>2, <1>4, <1>5 DEF SteeringTypeOK
<1>8. \A m \in Messages : bound'[m] # bound[m] => bound'[m] = of[s] /\ m \in found
  BY <1>5
<1>9. \A m \in claimed' \ claimed : m \in found /\ bound'[m] = of[s]
  BY <1>2, <1>5
<1>10. Mine(s) => \A m \in rows : bound'[m] = of[s] => m \in seen'[s]
  <2> SUFFICES ASSUME Mine(s), NEW m \in rows, bound'[m] = of[s] PROVE m \in seen'[s]
    OBVIOUS
  <2>1. m \in Messages
    BY DEF SteeringTypeOK
  <2>2. m \in found \/ bound[m] = of[s]
    BY <1>8, <2>1
  <2> QED
    BY <1>3, <1>6, <2>2
<1> QED
  BY <1>1, <1>4, <1>6, <1>7, <1>8, <1>9, <1>10, ConversationAssumption

LEMMA RunsTypeStep ==
  ASSUME RunsTypeOK, SteeringTypeOK, AttemptTypeOK, TalkTypeOK, [ConvNext]_convVars
  PROVE  RunsTypeOK'
<1> USE ConversationAssumption DEF RunsTypeOK, ThreadRunStatus, Busy, runRows,
    steering, attempts, routine, talk
<1>1. CASE UNCHANGED <<run, claims, born, era, source>>
  BY <1>1
<1>2. ASSUME NEW m \in Messages, SendUserMessage(m)
      PROVE  RunsTypeOK'
  <2>1. CASE UNCHANGED runRows
    BY <1>2, <2>1 DEF SendUserMessage
  <2>2. CASE \E r \in RunIds : AddRun(run, r, {m})
    <3>1. /\ run' \in [RunIds -> ThreadRunStatus] /\ source' \in [RunIds -> SUBSET Messages]
          /\ born' \in [RunIds -> Nat] /\ claims' = claims
      BY <2>2, AddRunEffect
    <3> QED
      BY <1>2, <3>1 DEF SendUserMessage
  <2> QED
    BY <1>2, <2>1, <2>2 DEF SendUserMessage
<1>3. ASSUME NEW r \in RunIds, AnswerRun(r)
      PROVE  RunsTypeOK'
  BY <1>3 DEF AnswerRun
<1>4. CASE ReactToMessage
  <2>1. /\ run' \in [RunIds -> ThreadRunStatus] /\ source' \in [RunIds -> SUBSET Messages]
        /\ born' \in [RunIds -> Nat] /\ claims' = claims
    BY <1>4, AddRunEffect DEF ReactToMessage
  <2> QED
    BY <1>4, <2>1 DEF ReactToMessage
<1>5. CASE PeerMessage
  <2>1. /\ run' \in [RunIds -> ThreadRunStatus] /\ source' \in [RunIds -> SUBSET Messages]
        /\ born' \in [RunIds -> Nat] /\ claims' = claims
    BY <1>5, AddRunEffect DEF PeerMessage
  <2> QED
    BY <1>5, <2>1 DEF PeerMessage
<1>6. CASE RoutineFires
  <2>1. /\ run' \in [RunIds -> ThreadRunStatus] /\ source' \in [RunIds -> SUBSET Messages]
        /\ born' \in [RunIds -> Nat] /\ claims' = claims
    BY <1>6, AddRunEffect DEF RoutineFires
  <2> QED
    BY <1>6, <2>1 DEF RoutineFires
<1>7. CASE RoutineWithdrawn
  BY <1>7 DEF RoutineWithdrawn
<1>8. CASE StopThread
  BY <1>8 DEF StopThread, Cancelled
<1>9. CASE ClearConversation
  BY <1>9 DEF ClearConversation, Cancelled
<1>10. CASE StartLesson
  BY <1>10 DEF StartLesson, Cancelled
<1>11. ASSUME NEW s \in Slots, NEW r \in RunIds, StartAttemptOf(s, r)
      PROVE  RunsTypeOK'
  BY <1>11 DEF StartAttemptOf
<1>12. ASSUME NEW s \in Slots, NEW outcome \in {"completed", "failed"}, FinalizeTurn(s, outcome)
      PROVE  RunsTypeOK'
  BY <1>12, FinalizeEffect
<1>13. ASSUME NEW s \in Slots, PauseTurn(s)
      PROVE  RunsTypeOK'
  BY <1>13 DEF PauseTurn, Mine
<1>14. CASE UNCHANGED convVars
  BY <1>1, <1>14 DEF convVars, runRows, steering, attempts, routine, talk
<1> QED
  BY <1>1, <1>2, <1>3, <1>4, <1>5, <1>6, <1>7, <1>8, <1>9, <1>10, <1>11, <1>12,
     <1>13, <1>14 DEF ConvNext, Attempt, Finish, runRows, steering, attempts,
     routine, talk, RoutineEnqueued, BeginTurns, NextTurn, AbandonTurn, AttemptDies

LEMMA SteeringTypeStep ==
  ASSUME RunsTypeOK, SteeringTypeOK, AttemptTypeOK, TalkTypeOK, [ConvNext]_convVars
  PROVE  SteeringTypeOK'
<1> USE ConversationAssumption DEF SteeringTypeOK, runRows, steering, attempts,
    routine, talk
<1>1. CASE UNCHANGED <<rows, sent, claimed, bound>>
  BY <1>1
<1>2. ASSUME NEW m \in Messages, SendUserMessage(m)
      PROVE  SteeringTypeOK'
  BY <1>2 DEF SendUserMessage, ActiveRuns, ActiveIn
<1>3. CASE RoutineWithdrawn
  BY <1>3 DEF RoutineWithdrawn
<1>4. CASE StopThread
  BY <1>4 DEF StopThread
<1>5. CASE ClearConversation
  BY <1>5 DEF ClearConversation
<1>6. ASSUME NEW s \in Slots, BeginTurns(s)
      PROVE  SteeringTypeOK'
  BY <1>6, ClaimEffect
<1>7. ASSUME NEW s \in Slots, NextTurn(s)
      PROVE  SteeringTypeOK'
  BY <1>7, ClaimEffect
<1>8. ASSUME NEW s \in Slots, NEW outcome \in {"completed", "failed"}, FinalizeTurn(s, outcome)
      PROVE  SteeringTypeOK'
  BY <1>8, FinalizeEffect
<1>9. CASE UNCHANGED convVars
  BY <1>1, <1>9 DEF convVars, runRows, steering, attempts, routine, talk
<1> QED
  BY <1>1, <1>2, <1>3, <1>4, <1>5, <1>6, <1>7, <1>8, <1>9 DEF ConvNext, Attempt,
     Finish, runRows, steering, attempts, routine, talk, AnswerRun, ReactToMessage,
     PeerMessage, RoutineFires, RoutineEnqueued, StartLesson, StartAttemptOf,
     PauseTurn, AbandonTurn, AttemptDies

LEMMA AttemptTypeStep ==
  ASSUME RunsTypeOK, SteeringTypeOK, AttemptTypeOK, TalkTypeOK, [ConvNext]_convVars
  PROVE  AttemptTypeOK'
<1> USE ConversationAssumption DEF AttemptTypeOK, RunsTypeOK, Idle, runRows,
    steering, attempts, routine, talk
<1>1. CASE UNCHANGED <<turn, of, fence, seen>>
  BY <1>1
<1>2. ASSUME NEW s \in Slots, NEW r \in RunIds, StartAttemptOf(s, r)
      PROVE  AttemptTypeOK'
  BY <1>2 DEF StartAttemptOf
<1>3. ASSUME NEW s \in Slots, BeginTurns(s)
      PROVE  AttemptTypeOK'
  BY <1>3, ClaimEffect
<1>4. ASSUME NEW s \in Slots, NextTurn(s)
      PROVE  AttemptTypeOK'
  BY <1>4, ClaimEffect
<1>5. ASSUME NEW s \in Slots, NEW outcome \in {"completed", "failed"}, FinalizeTurn(s, outcome)
      PROVE  AttemptTypeOK'
  BY <1>5 DEF FinalizeTurn
<1>6. ASSUME NEW s \in Slots, PauseTurn(s)
      PROVE  AttemptTypeOK'
  BY <1>6 DEF PauseTurn
<1>7. ASSUME NEW s \in Slots, AbandonTurn(s)
      PROVE  AttemptTypeOK'
  BY <1>7 DEF AbandonTurn
<1>8. ASSUME NEW s \in Slots, AttemptDies(s)
      PROVE  AttemptTypeOK'
  BY <1>8 DEF AttemptDies
<1>9. CASE UNCHANGED convVars
  BY <1>1, <1>9 DEF convVars, runRows, steering, attempts, routine, talk
<1> QED
  BY <1>1, <1>2, <1>3, <1>4, <1>5, <1>6, <1>7, <1>8, <1>9 DEF ConvNext, Attempt,
     Finish, runRows, steering, attempts, routine, talk, SendUserMessage, AnswerRun,
     ReactToMessage, PeerMessage, RoutineFires, RoutineEnqueued, RoutineWithdrawn,
     StopThread, ClearConversation, StartLesson

LEMMA TalkTypeStep ==
  ASSUME RunsTypeOK, SteeringTypeOK, AttemptTypeOK, TalkTypeOK, [ConvNext]_convVars
  PROVE  TalkTypeOK'
<1> USE ConversationAssumption DEF TalkTypeOK, Extra, Miss, runRows, steering,
    attempts, routine, talk
<1>1. CASE UNCHANGED <<firing, due, dropped, heard, beside, extra, misses, answers>>
  BY <1>1
<1>2. ASSUME NEW m \in Messages, SendUserMessage(m)
      PROVE  TalkTypeOK'
  BY <1>2 DEF SendUserMessage
<1>3. ASSUME NEW r \in RunIds, AnswerRun(r)
      PROVE  TalkTypeOK'
  BY <1>3 DEF AnswerRun
<1>4. CASE ReactToMessage
  BY <1>4 DEF ReactToMessage
<1>5. CASE PeerMessage
  BY <1>5 DEF PeerMessage
<1>6. CASE RoutineFires
  <2>1. UNCHANGED <<talk, misses, answers>> /\ firing' \in RunIds /\ extra' \in Nat
    BY <1>6 DEF RoutineFires
  <2>2. due' \in BOOLEAN /\ beside' \in BOOLEAN
    BY <1>6, Zenon DEF RoutineFires
  <2> QED
    BY <2>1, <2>2
<1>7. CASE RoutineEnqueued
  BY <1>7 DEF RoutineEnqueued
<1>8. CASE RoutineWithdrawn
  <2>1. UNCHANGED <<talk, extra, answers>> /\ firing' = 0 /\ misses' \in Nat
    BY <1>8 DEF RoutineWithdrawn
  <2>2. due' \in BOOLEAN /\ beside' \in BOOLEAN
    BY <1>8 DEF RoutineWithdrawn
  <2> QED
    BY <2>1, <2>2
<1>9. CASE StopThread
  BY <1>9 DEF StopThread, SteeringTypeOK, Unheard
<1>10. CASE ClearConversation
  BY <1>10 DEF ClearConversation, SteeringTypeOK, Unheard
<1>11. CASE StartLesson
  BY <1>11 DEF StartLesson, SteeringTypeOK, Unheard
<1>12. ASSUME NEW s \in Slots, NEW r \in RunIds, StartAttemptOf(s, r)
      PROVE  TalkTypeOK'
  BY <1>12 DEF StartAttemptOf
<1>13. ASSUME NEW s \in Slots, BeginTurns(s)
      PROVE  TalkTypeOK'
  BY <1>13 DEF BeginTurns, AttemptTypeOK
<1>14. ASSUME NEW s \in Slots, NextTurn(s)
      PROVE  TalkTypeOK'
  BY <1>14 DEF NextTurn, AttemptTypeOK
<1>15. ASSUME NEW s \in Slots, NEW outcome \in {"completed", "failed"}, FinalizeTurn(s, outcome)
      PROVE  TalkTypeOK'
  <2>1. /\ UNCHANGED <<routine, talk, beside, extra>> /\ misses' \in Nat
    BY <1>15 DEF FinalizeTurn
  <2>2. answers' \subseteq RunIds
    <3> HIDE DEF TalkTypeOK
    <3>1. answers' \subseteq answers \cup {of[s]} /\ of[s] \in RunIds
      BY <1>15, FinalizeEffect
    <3> QED
      BY <3>1 DEF TalkTypeOK
  <2> QED
    BY <2>1, <2>2
<1>16. ASSUME NEW s \in Slots, PauseTurn(s)
      PROVE  TalkTypeOK'
  BY <1>16 DEF PauseTurn
<1>17. ASSUME NEW s \in Slots, AbandonTurn(s)
      PROVE  TalkTypeOK'
  BY <1>17 DEF AbandonTurn
<1>18. ASSUME NEW s \in Slots, AttemptDies(s)
      PROVE  TalkTypeOK'
  BY <1>18 DEF AttemptDies
<1>19. CASE UNCHANGED convVars
  BY <1>1, <1>19 DEF convVars, runRows, steering, attempts, routine, talk
<1> QED
  BY <1>1, <1>2, <1>3, <1>4, <1>5, <1>6, <1>7, <1>8, <1>9, <1>10, <1>11, <1>12,
     <1>13, <1>14, <1>15, <1>16, <1>17, <1>18, <1>19 DEF ConvNext, Attempt, Finish,
     runRows, steering, attempts, routine, talk

LEMMA FenceStep ==
  ASSUME RunsTypeOK, SteeringTypeOK, AttemptTypeOK, TalkTypeOK, FenceInv, [ConvNext]_convVars
  PROVE  FenceInv'
<1> USE ConversationAssumption DEF FenceInv, AttemptTypeOK, RunsTypeOK, Idle,
    runRows, steering, attempts, routine, talk
<1>1. CASE UNCHANGED <<of, fence, claims>>
  BY <1>1
<1>2. ASSUME NEW m \in Messages, SendUserMessage(m)
      PROVE  FenceInv'
  BY <1>2 DEF SendUserMessage, AddRun
<1>3. ASSUME NEW r \in RunIds, AnswerRun(r)
      PROVE  FenceInv'
  BY <1>3 DEF AnswerRun
<1>4. CASE ReactToMessage
  BY <1>4 DEF ReactToMessage, AddRun
<1>5. CASE PeerMessage
  BY <1>5 DEF PeerMessage, AddRun
<1>6. CASE RoutineFires
  BY <1>6 DEF RoutineFires, AddRun
<1>7. CASE RoutineWithdrawn
  BY <1>7 DEF RoutineWithdrawn
<1>8. CASE StopThread
  BY <1>8 DEF StopThread
<1>9. CASE ClearConversation
  BY <1>9 DEF ClearConversation
<1>10. CASE StartLesson
  BY <1>10 DEF StartLesson
<1>11. ASSUME NEW s \in Slots, NEW r \in RunIds, StartAttemptOf(s, r)
      PROVE  FenceInv'
  BY <1>11 DEF StartAttemptOf
<1>12. ASSUME NEW s \in Slots, BeginTurns(s)
      PROVE  FenceInv'
  BY <1>12 DEF BeginTurns
<1>13. ASSUME NEW s \in Slots, NextTurn(s)
      PROVE  FenceInv'
  BY <1>13 DEF NextTurn
<1>14. ASSUME NEW s \in Slots, NEW outcome \in {"completed", "failed"}, FinalizeTurn(s, outcome)
      PROVE  FenceInv'
  BY <1>14 DEF FinalizeTurn, AddRun
<1>15. ASSUME NEW s \in Slots, PauseTurn(s)
      PROVE  FenceInv'
  BY <1>15 DEF PauseTurn
<1>16. ASSUME NEW s \in Slots, AbandonTurn(s)
      PROVE  FenceInv'
  BY <1>16 DEF AbandonTurn
<1>17. ASSUME NEW s \in Slots, AttemptDies(s)
      PROVE  FenceInv'
  BY <1>17 DEF AttemptDies
<1>18. CASE UNCHANGED convVars
  BY <1>1, <1>18 DEF convVars, runRows, steering, attempts, routine, talk
<1> QED
  BY <1>1, <1>2, <1>3, <1>4, <1>5, <1>6, <1>7, <1>8, <1>9, <1>10, <1>11, <1>12,
     <1>13, <1>14, <1>15, <1>16, <1>17, <1>18 DEF ConvNext, Attempt, Finish,
     runRows, steering, attempts, routine, talk, RoutineEnqueued

LEMMA BornStep ==
  ASSUME ConvInv, [ConvNext]_convVars
  PROVE  BornInv'
<1> USE ConversationAssumption DEF ConvInv, BornInv, NothingFromBefore, RunsTypeOK,
    TalkTypeOK, AttemptTypeOK, SteeringTypeOK, Busy, runRows, steering, attempts,
    routine, talk
<1>1. CASE UNCHANGED <<run, born, era, answers>>
  BY <1>1
<1>2. ASSUME NEW m \in Messages, SendUserMessage(m)
      PROVE  BornInv'
  BY <1>2 DEF SendUserMessage, AddRun
<1>3. ASSUME NEW r \in RunIds, AnswerRun(r)
      PROVE  BornInv'
  BY <1>3 DEF AnswerRun
<1>4. CASE ReactToMessage
  BY <1>4 DEF ReactToMessage, AddRun
<1>5. CASE PeerMessage
  BY <1>5 DEF PeerMessage, AddRun
<1>6. CASE RoutineFires
  BY <1>6 DEF RoutineFires, AddRun
<1>7. CASE RoutineWithdrawn
  BY <1>7 DEF RoutineWithdrawn
<1>8. CASE StopThread
  BY <1>8 DEF StopThread, Cancelled
<1>9. CASE ClearConversation
  BY <1>9 DEF ClearConversation, Cancelled
<1>10. CASE StartLesson
  BY <1>10 DEF StartLesson, Cancelled
<1>11. ASSUME NEW s \in Slots, NEW r \in RunIds, StartAttemptOf(s, r)
      PROVE  BornInv'
  BY <1>11 DEF StartAttemptOf, Cancelled
<1>12. ASSUME NEW s \in Slots, BeginTurns(s)
      PROVE  BornInv'
  BY <1>12, ClaimEffect
<1>13. ASSUME NEW s \in Slots, NextTurn(s)
      PROVE  BornInv'
  BY <1>13, ClaimEffect
<1>14. ASSUME NEW s \in Slots, NEW outcome \in {"completed", "failed"}, FinalizeTurn(s, outcome)
      PROVE  BornInv'
  <2> HIDE DEF RunsTypeOK, AttemptTypeOK, SteeringTypeOK, TalkTypeOK
  <2>0. /\ run[of[s]] = "running" /\ run'[of[s]] = outcome /\ era' = era
        /\ of[s] \in RunIds /\ answers' \subseteq answers \cup {of[s]}
    <3> HIDE DEF BornInv
    <3>1. era' = era
      BY <1>14 DEF FinalizeTurn
    <3> QED
      BY <1>14, <3>1, FinalizeEnds
  <2>1. born[of[s]] = era
    BY <2>0 DEF Busy
  <2>2. PICK q \in RunIds \cup {0} :
          /\ q # 0 => run[q] = "absent" /\ run'[q] = "queued" /\ born'[q] = era
          /\ \A p \in RunIds \ {q, of[s]} : run'[p] = run[p]
          /\ \A p \in RunIds \ {q} : born'[p] = born[p]
    <3> HIDE DEF BornInv, NothingFromBefore, Busy
    <3> QED
      BY <1>14, FinalizeEffect
  <2>3. \A p \in RunIds : run'[p] \in Busy => born'[p] = era
    BY <2>0, <2>1, <2>2, ConversationAssumption DEF Busy
  <2>5. \A p \in answers' : born'[p] = era
    BY <2>0, <2>1, <2>2 DEF TalkTypeOK
  <2> QED
    BY <2>0, <2>3, <2>5
<1>15. ASSUME NEW s \in Slots, PauseTurn(s)
      PROVE  BornInv'
  BY <1>15 DEF PauseTurn, Mine
<1>16. CASE UNCHANGED convVars
  BY <1>1, <1>16 DEF convVars, runRows, steering, attempts, routine, talk
<1> QED
  BY <1>1, <1>2, <1>3, <1>4, <1>5, <1>6, <1>7, <1>8, <1>9, <1>10, <1>11, <1>12,
     <1>13, <1>14, <1>15, <1>16 DEF ConvNext, Attempt, Finish, runRows, steering,
     attempts, routine, talk, RoutineEnqueued, AbandonTurn, AttemptDies

LEMMA GivenStep ==
  ASSUME ConvInv, [ConvNext]_convVars
  PROVE  GivenInv'
<1> USE ConversationAssumption DEF ConvInv, GivenInv, RunsTypeOK, TalkTypeOK,
    AttemptTypeOK, SteeringTypeOK, runRows, steering, attempts, routine, talk
<1>1. CASE UNCHANGED <<run, claims, bound, claimed, turn, of, fence, seen>>
  BY <1>1 DEF Mine
<1>2. ASSUME NEW m \in Messages, SendUserMessage(m)
      PROVE  GivenInv'
  <2> SUFFICES ASSUME NEW t \in Slots, turn'[t] = "turn", Mine(t)', NEW x \in claimed',
                      bound'[x] = of'[t]
               PROVE  x \in seen'[t]
    OBVIOUS
  <2>1. UNCHANGED <<claimed, turn, of, fence, seen, claims>>
    BY <1>2 DEF SendUserMessage, AddRun
  <2>2. x # m /\ bound'[x] = bound[x]
    BY <1>2, <2>1 DEF SendUserMessage
  <2>3. \A r \in RunIds : run'[r] = "running" => run[r] = "running"
    BY <1>2 DEF SendUserMessage, AddRun
  <2>4. Mine(t)
    BY <2>1, <2>3 DEF Mine
  <2> QED
    BY <2>1, <2>2, <2>4
<1>3. ASSUME NEW r \in RunIds, AnswerRun(r)
      PROVE  GivenInv'
  BY <1>3 DEF AnswerRun, Mine
<1>4. CASE ReactToMessage
  BY <1>4 DEF ReactToMessage, AddRun, NextRun, Mine, ActiveRuns, ActiveIn
<1>5. CASE PeerMessage
  BY <1>5 DEF PeerMessage, AddRun, NextRun, Mine, ActiveRuns, ActiveIn
<1>6. CASE RoutineFires
  BY <1>6 DEF RoutineFires, AddRun, NextRun, Mine, ActiveRuns, ActiveIn
<1>7. CASE RoutineWithdrawn
  <2> SUFFICES ASSUME NEW t \in Slots, turn'[t] = "turn", Mine(t)', NEW x \in claimed',
                      bound'[x] = of'[t]
               PROVE  x \in seen'[t]
    OBVIOUS
  <2>1. UNCHANGED <<claimed, turn, of, fence, seen, claims>> /\ x \in Messages /\ of[t] # 0
    BY <1>7 DEF RoutineWithdrawn, Mine
  <2>2. CASE run[firing] = "queued"
    <3>1. /\ run' = [run EXCEPT ![firing] = "deleted"]
          /\ bound' = [z \in Messages |-> IF bound[z] = firing THEN 0 ELSE bound[z]]
      BY <1>7, <2>2 DEF RoutineWithdrawn
    <3>2. bound[x] = of[t]
      BY <2>1, <3>1
    <3>3. \A r \in RunIds : run'[r] = "running" => run[r] = "running"
      BY <3>1
    <3>4. Mine(t)
      BY <2>1, <3>3 DEF Mine
    <3> QED
      BY <2>1, <3>2, <3>4
  <2>3. CASE run[firing] # "queued"
    BY <1>7, <2>3 DEF RoutineWithdrawn, Mine
  <2> QED
    BY <2>2, <2>3
<1>8. CASE StopThread
  BY <1>8 DEF StopThread, Cancelled, Busy, Mine
<1>9. CASE ClearConversation
  BY <1>9 DEF ClearConversation, Cancelled, Busy, Mine
<1>10. CASE StartLesson
  BY <1>10 DEF StartLesson, Cancelled, Busy, Mine
<1>11. ASSUME NEW s \in Slots, NEW r \in RunIds, StartAttemptOf(s, r)
      PROVE  GivenInv'
  BY <1>11 DEF StartAttemptOf, Mine, FenceInv
<1>12. ASSUME NEW s \in Slots, BeginTurns(s)
      PROVE  GivenInv'
  <2> SUFFICES ASSUME NEW t \in Slots, turn'[t] = "turn", Mine(t)', NEW m \in claimed',
                      bound'[m] = of'[t]
               PROVE  m \in seen'[t]
    OBVIOUS
  <2>1. /\ UNCHANGED <<run, claims, rows, of, fence>> /\ Mine(t) /\ m \in rows
        /\ m \in Messages /\ of[t] # 0 /\ of[s] # 0
    BY <1>12, ClaimEffect DEF Mine
  <2>2. CASE t # s
    <3>1. of[t] # of[s] \/ ~Mine(s)
      BY <2>1, <2>2 DEF FenceInv, Mine
    <3>2. turn[t] = "turn" /\ m \in claimed /\ bound[m] = of[t]
      BY <1>12, <2>1, <2>2, <3>1, ClaimEffect
    <3> QED
      BY <1>12, <2>1, <3>2, ClaimEffect
  <2>3. CASE t = s /\ turn[s] = "begin"
    BY <1>12, <2>1, <2>3, ClaimEffect
  <2>4. CASE t = s /\ turn[s] # "begin"
    <3>1. turn[s] = "turn"
      BY <1>12, <2>1, <2>4 DEF BeginTurns, NextTurn
    <3>2. CASE m \in claimed /\ bound[m] = of[s]
      BY <1>12, <2>1, <2>4, <3>1, <3>2, ClaimEffect
    <3>3. CASE ~(m \in claimed /\ bound[m] = of[s])
      BY <1>12, <2>1, <2>4, <3>3, ClaimEffect
    <3> QED
      BY <3>2, <3>3
  <2> QED
    BY <2>2, <2>3, <2>4
<1>13. ASSUME NEW s \in Slots, NextTurn(s)
      PROVE  GivenInv'
  <2> SUFFICES ASSUME NEW t \in Slots, turn'[t] = "turn", Mine(t)', NEW m \in claimed',
                      bound'[m] = of'[t]
               PROVE  m \in seen'[t]
    OBVIOUS
  <2>1. /\ UNCHANGED <<run, claims, rows, of, fence>> /\ Mine(t) /\ m \in rows
        /\ m \in Messages /\ of[t] # 0 /\ of[s] # 0
    BY <1>13, ClaimEffect DEF Mine
  <2>2. CASE t # s
    <3>1. of[t] # of[s] \/ ~Mine(s)
      BY <2>1, <2>2 DEF FenceInv, Mine
    <3>2. turn[t] = "turn" /\ m \in claimed /\ bound[m] = of[t]
      BY <1>13, <2>1, <2>2, <3>1, ClaimEffect
    <3> QED
      BY <1>13, <2>1, <3>2, ClaimEffect
  <2>3. CASE t = s /\ turn[s] = "begin"
    BY <1>13, <2>1, <2>3, ClaimEffect
  <2>4. CASE t = s /\ turn[s] # "begin"
    <3>1. turn[s] = "turn"
      BY <1>13, <2>1, <2>4 DEF BeginTurns, NextTurn
    <3>2. CASE m \in claimed /\ bound[m] = of[s]
      BY <1>13, <2>1, <2>4, <3>1, <3>2, ClaimEffect
    <3>3. CASE ~(m \in claimed /\ bound[m] = of[s])
      BY <1>13, <2>1, <2>4, <3>3, ClaimEffect
    <3> QED
      BY <3>2, <3>3
  <2> QED
    BY <2>2, <2>3, <2>4
<1>14. ASSUME NEW s \in Slots, NEW outcome \in {"completed", "failed"}, FinalizeTurn(s, outcome)
      PROVE  GivenInv'
  <2> SUFFICES ASSUME NEW t \in Slots, turn'[t] = "turn", Mine(t)', NEW m \in claimed',
                      bound'[m] = of'[t]
               PROVE  m \in seen'[t]
    OBVIOUS
  <2>1. /\ Idle(s) /\ UNCHANGED claims /\ run'[of[s]] = outcome /\ of[s] \in RunIds
        /\ m \in claimed /\ m \in rows' /\ m \in Messages
    BY <1>14, FinalizeEffect
  <2>2. t # s /\ of'[t] = of[t] /\ of[t] # 0 /\ of[t] \in RunIds /\ seen'[t] = seen[t]
        /\ turn[t] = "turn" /\ fence'[t] = fence[t] /\ run'[of[t]] = "running"
    BY <2>1 DEF Idle, Mine
  <2>3. of[t] # of[s]
    BY <2>1, <2>2
  <2>4. PICK q \in RunIds \cup {0} :
          /\ q # 0 => run'[q] = "queued"
          /\ \A p \in RunIds \ {q, of[s]} : run'[p] = run[p]
          /\ \A x \in rows' : IF bound[x] \in {0, of[s]}
                               THEN bound'[x] = q ELSE bound'[x] = bound[x]
    BY <1>14, FinalizeEffect
  <2>5. of[t] # q
    BY <2>2, <2>4
  <2>6. Mine(t) /\ bound[m] = of[t]
    BY <2>1, <2>2, <2>3, <2>4, <2>5 DEF Mine
  <2> QED
    BY <2>1, <2>2, <2>6
<1>15. ASSUME NEW s \in Slots, PauseTurn(s)
      PROVE  GivenInv'
  BY <1>15 DEF PauseTurn, Mine, Idle
<1>16. ASSUME NEW s \in Slots, AbandonTurn(s)
      PROVE  GivenInv'
  BY <1>16 DEF AbandonTurn, Mine, Idle
<1>17. ASSUME NEW s \in Slots, AttemptDies(s)
      PROVE  GivenInv'
  BY <1>17 DEF AttemptDies, Mine, Idle
<1>18. CASE UNCHANGED convVars
  BY <1>1, <1>18 DEF convVars, runRows, steering, attempts, routine, talk
<1> QED
  BY <1>1, <1>2, <1>3, <1>4, <1>5, <1>6, <1>7, <1>8, <1>9, <1>10, <1>11, <1>12,
     <1>13, <1>14, <1>15, <1>16, <1>17, <1>18 DEF ConvNext, Attempt, Finish,
     runRows, steering, attempts, routine, talk, RoutineEnqueued

LEMMA StrandedStep ==
  ASSUME ConvInv, [ConvNext]_convVars
  PROVE  NoStranded'
<1> USE ConversationAssumption DEF ConvInv, NoStranded, RunsTypeOK, TalkTypeOK,
    AttemptTypeOK, SteeringTypeOK, runRows, steering, attempts, routine, talk
<1>1. CASE UNCHANGED <<run, rows, bound, dropped, due>>
  BY <1>1 DEF ActiveRuns, ActiveIn
<1>2. ASSUME NEW m \in Messages, SendUserMessage(m)
      PROVE  NoStranded'
  BY <1>2 DEF SendUserMessage, AddRun, NextRun, ActiveRuns, ActiveIn, Busy
<1>3. ASSUME NEW r \in RunIds, AnswerRun(r)
      PROVE  NoStranded'
  BY <1>3 DEF AnswerRun, ActiveRuns, ActiveIn, Busy, Cancelled
<1>4. CASE ReactToMessage
  BY <1>4 DEF ReactToMessage, AddRun, NextRun, ActiveRuns, ActiveIn, Busy
<1>5. CASE PeerMessage
  BY <1>5 DEF PeerMessage, AddRun, NextRun, ActiveRuns, ActiveIn, Busy
<1>6. CASE RoutineFires
  BY <1>6 DEF RoutineFires, AddRun, NextRun, ActiveRuns, ActiveIn, Busy
<1>7. CASE RoutineWithdrawn
  <2>1. UNCHANGED <<rows, dropped>> /\ due'
    BY <1>7 DEF RoutineWithdrawn
  <2>2. CASE run[firing] = "queued"
    <3>1. /\ run' = [run EXCEPT ![firing] = "deleted"]
          /\ bound' = [z \in Messages |-> IF bound[z] = firing THEN 0 ELSE bound[z]]
      BY <1>7, <2>2 DEF RoutineWithdrawn
    <3>2. ASSUME NEW x \in rows \ dropped, bound'[x] # 0
          PROVE  bound'[x] \in ActiveRuns'
      <4>1. x \in Messages /\ bound[x] # firing /\ bound'[x] = bound[x]
        BY <3>1, <3>2
      <4>2. bound[x] \in RunIds /\ run[bound[x]] \in Busy
        BY <3>2, <4>1 DEF ActiveRuns, ActiveIn
      <4>3. run'[bound[x]] \in Busy
        BY <3>1, <4>1, <4>2
      <4> QED
        BY <4>1, <4>2, <4>3 DEF ActiveRuns, ActiveIn
    <3> QED
      BY <2>1, <3>2
  <2>3. CASE run[firing] # "queued"
    BY <1>7, <2>1, <2>3 DEF RoutineWithdrawn, ActiveRuns, ActiveIn
  <2> QED
    BY <2>2, <2>3
<1>8. CASE StopThread
  BY <1>8 DEF StopThread, ActiveRuns, ActiveIn, Busy, Cancelled
<1>9. CASE ClearConversation
  BY <1>9 DEF ClearConversation, ActiveRuns, ActiveIn, Busy, Cancelled
<1>10. CASE StartLesson
  BY <1>10 DEF StartLesson, ActiveRuns, ActiveIn, Busy, Cancelled
<1>11. ASSUME NEW s \in Slots, NEW r \in RunIds, StartAttemptOf(s, r)
      PROVE  NoStranded'
  BY <1>11 DEF StartAttemptOf, ActiveRuns, ActiveIn, Busy, Cancelled
<1>12. ASSUME NEW s \in Slots, BeginTurns(s)
      PROVE  NoStranded'
  <2> SUFFICES ASSUME NEW m \in rows \ dropped
               PROVE  IF bound'[m] = 0 THEN ActiveRuns' # {} \/ due' ELSE bound'[m] \in ActiveRuns'
    BY <1>12, ClaimEffect
  <2>1. ActiveRuns' = ActiveRuns /\ due' = due /\ m \in Messages
    BY <1>12, ClaimEffect DEF ActiveRuns, ActiveIn
  <2>2. CASE bound'[m] = bound[m]
    BY <2>1, <2>2
  <2>3. CASE bound'[m] # bound[m]
    <3>1. bound'[m] = of[s] /\ Mine(s) /\ of[s] # 0 /\ of[s] \in RunIds
      BY <1>12, <2>1, <2>3, ClaimEffect DEF Mine
    <3> QED
      BY <2>1, <3>1 DEF Mine, ActiveRuns, ActiveIn, Busy
  <2> QED
    BY <2>2, <2>3
<1>13. ASSUME NEW s \in Slots, NextTurn(s)
      PROVE  NoStranded'
  <2> SUFFICES ASSUME NEW m \in rows \ dropped
               PROVE  IF bound'[m] = 0 THEN ActiveRuns' # {} \/ due' ELSE bound'[m] \in ActiveRuns'
    BY <1>13, ClaimEffect
  <2>1. ActiveRuns' = ActiveRuns /\ due' = due /\ m \in Messages
    BY <1>13, ClaimEffect DEF ActiveRuns, ActiveIn
  <2>2. CASE bound'[m] = bound[m]
    BY <2>1, <2>2
  <2>3. CASE bound'[m] # bound[m]
    <3>1. bound'[m] = of[s] /\ Mine(s) /\ of[s] # 0 /\ of[s] \in RunIds
      BY <1>13, <2>1, <2>3, ClaimEffect DEF Mine
    <3> QED
      BY <2>1, <3>1 DEF Mine, ActiveRuns, ActiveIn, Busy
  <2> QED
    BY <2>2, <2>3
<1>14. ASSUME NEW s \in Slots, NEW outcome \in {"completed", "failed"}, FinalizeTurn(s, outcome)
      PROVE  NoStranded'
  <2> SUFFICES ASSUME NEW m \in rows' \ dropped'
               PROVE  IF bound'[m] = 0 THEN ActiveRuns' # {} \/ due' ELSE bound'[m] \in ActiveRuns'
    OBVIOUS
  <2>0. due' = due /\ dropped' = dropped /\ m \in rows /\ m \in Messages
    BY <1>14, FinalizeEffect DEF FinalizeTurn, RowsAfter
  <2>1. PICK q \in RunIds \cup {0} :
          /\ q # 0 => run'[q] = "queued"
          /\ \A p \in RunIds \ {q, of[s]} : run'[p] = run[p]
          /\ IF bound[m] \in {0, of[s]}
             THEN bound'[m] = q ELSE bound'[m] = bound[m]
          /\ q = 0 => \/ \E p \in RunIds \ {of[s]} : run[p] \in Busy
                      \/ bound[m] \notin {0, of[s]}
    BY <1>14, FinalizeEffect
  <2>2. CASE bound[m] \in {0, of[s]} /\ q # 0
    BY <2>1, <2>2 DEF ActiveRuns, ActiveIn, Busy
  <2>3. CASE bound[m] \in {0, of[s]} /\ q = 0
    <3>1. PICK p \in RunIds \ {of[s]} : run[p] \in Busy
      BY <2>1, <2>3
    <3>2. run'[p] = run[p]
      BY <2>1, <2>3, <3>1, ConversationAssumption
    <3> QED
      BY <2>1, <2>3, <3>1, <3>2 DEF ActiveRuns, ActiveIn
  <2>4. CASE bound[m] \notin {0, of[s]}
    <3>1. bound[m] \in ActiveRuns /\ bound'[m] = bound[m]
      BY <2>0, <2>1, <2>4
    <3>2. run'[bound[m]] \in Busy
      BY <2>1, <2>4, <3>1 DEF ActiveRuns, ActiveIn, Busy
    <3> QED
      BY <2>4, <3>1, <3>2 DEF ActiveRuns, ActiveIn
  <2> QED
    BY <2>2, <2>3, <2>4
<1>15. ASSUME NEW s \in Slots, PauseTurn(s)
      PROVE  NoStranded'
  BY <1>15 DEF PauseTurn, Mine, ActiveRuns, ActiveIn, Busy
<1>16. CASE UNCHANGED convVars
  BY <1>1, <1>16 DEF convVars, runRows, steering, attempts, routine, talk
<1> QED
  BY <1>1, <1>2, <1>3, <1>4, <1>5, <1>6, <1>7, <1>8, <1>9, <1>10, <1>11, <1>12,
     <1>13, <1>14, <1>15, <1>16 DEF ConvNext, Attempt, Finish, runRows, steering,
     attempts, routine, talk, RoutineEnqueued, AbandonTurn, AttemptDies

LEMMA OneStep ==
  ASSUME ConvInv, [ConvNext]_convVars
  PROVE  OneActive'
<1> USE ConversationAssumption DEF ConvInv, OneActive, RunsTypeOK, AttemptTypeOK,
    SteeringTypeOK, Busy, runRows, steering, attempts, routine, talk
<1>1. CASE UNCHANGED <<run, beside>>
  BY <1>1
<1>2. ASSUME NEW m \in Messages, SendUserMessage(m)
      PROVE  OneActive'
  BY <1>2 DEF SendUserMessage, AddRun, ActiveRuns, ActiveIn
<1>3. ASSUME NEW r \in RunIds, AnswerRun(r)
      PROVE  OneActive'
  BY <1>3 DEF AnswerRun
<1>4. CASE ReactToMessage
  <2>1. ~beside' => ~beside /\ ActiveRuns = {}
    BY <1>4 DEF ReactToMessage
  <2>2. PICK r \in RunIds : AddRun(run, r, {})
    BY <1>4 DEF ReactToMessage
  <2>3. \A p \in RunIds \ {r} : run'[p] = run[p]
    BY <2>2 DEF AddRun
  <2> QED
    BY <2>1, <2>3 DEF ActiveRuns, ActiveIn
<1>5. CASE PeerMessage
  <2>1. ~beside' => ~beside /\ ActiveRuns = {}
    BY <1>5 DEF PeerMessage
  <2>2. PICK r \in RunIds : AddRun(run, r, {})
    BY <1>5 DEF PeerMessage
  <2>3. \A p \in RunIds \ {r} : run'[p] = run[p]
    BY <2>2 DEF AddRun
  <2> QED
    BY <2>1, <2>3 DEF ActiveRuns, ActiveIn
<1>6. CASE RoutineFires
  <2>1. ~beside' => ~beside /\ ActiveRuns = {}
    BY <1>6 DEF RoutineFires
  <2>2. PICK r \in RunIds : AddRun(run, r, {})
    BY <1>6 DEF RoutineFires
  <2>3. \A p \in RunIds \ {r} : run'[p] = run[p]
    BY <2>2 DEF AddRun
  <2> QED
    BY <2>1, <2>3 DEF ActiveRuns, ActiveIn
<1>7. CASE RoutineWithdrawn
  BY <1>7 DEF RoutineWithdrawn
<1>8. CASE StopThread
  BY <1>8 DEF StopThread, Cancelled
<1>9. CASE ClearConversation
  BY <1>9 DEF ClearConversation, Cancelled
<1>10. CASE StartLesson
  BY <1>10 DEF StartLesson, Cancelled
<1>11. ASSUME NEW s \in Slots, NEW r \in RunIds, StartAttemptOf(s, r)
      PROVE  OneActive'
  BY <1>11 DEF StartAttemptOf, Cancelled
<1>12. ASSUME NEW s \in Slots, BeginTurns(s)
      PROVE  OneActive'
  BY <1>12 DEF BeginTurns
<1>13. ASSUME NEW s \in Slots, NextTurn(s)
      PROVE  OneActive'
  BY <1>13 DEF NextTurn
<1>14. ASSUME NEW s \in Slots, NEW outcome \in {"completed", "failed"}, FinalizeTurn(s, outcome)
      PROVE  OneActive'
  <2> HIDE DEF RunsTypeOK, AttemptTypeOK, SteeringTypeOK
  <2>1. /\ of[s] \in RunIds /\ run[of[s]] \in Busy /\ run'[of[s]] \notin Busy
        /\ beside' = beside
    <3>1. /\ of[s] \in RunIds /\ run[of[s]] = "running" /\ run'[of[s]] = outcome
          /\ beside' = beside
      BY <1>14, FinalizeEnds
    <3> QED
      BY <1>14, <3>1 DEF Busy
  <2>2. PICK q \in RunIds \cup {0} :
          \A p \in RunIds \ {q, of[s]} : run'[p] = run[p]
    BY <1>14, FinalizeEffect
  <2>3. ~beside' => \A p \in RunIds : run'[p] \in Busy => p = q
    BY <2>1, <2>2
  <2> QED
    BY <2>3
<1>15. ASSUME NEW s \in Slots, PauseTurn(s)
      PROVE  OneActive'
  BY <1>15 DEF PauseTurn, Mine
<1>16. CASE UNCHANGED convVars
  BY <1>1, <1>16 DEF convVars, runRows, steering, attempts, routine, talk
<1> QED
  BY <1>1, <1>2, <1>3, <1>4, <1>5, <1>6, <1>7, <1>8, <1>9, <1>10, <1>11, <1>12,
     <1>13, <1>14, <1>15, <1>16 DEF ConvNext, Attempt, Finish, runRows, steering,
     attempts, routine, talk, RoutineEnqueued, AbandonTurn, AttemptDies

LEMMA SourceStep ==
  ASSUME ConvInv, [ConvNext]_convVars
  PROVE  SourceInv'
<1> USE ConversationAssumption DEF ConvInv, SourceInv, RunsTypeOK, TalkTypeOK,
    AttemptTypeOK, SteeringTypeOK, runRows, steering, attempts, routine, talk
<1>1. CASE UNCHANGED <<run, source, rows, of, sent, heard, answers>>
  BY <1>1
<1>2. ASSUME NEW m \in Messages, SendUserMessage(m)
      PROVE  SourceInv'
  <2>1. /\ UNCHANGED <<of, heard, answers>> /\ sent' = sent \cup {m} /\ m \notin sent
    BY <1>2 DEF SendUserMessage
  <2>2. CASE rows' = rows /\ \E r \in RunIds : AddRun(run, r, {m})
    <3>1. PICK r \in RunIds : AddRun(run, r, {m})
      BY <2>2
    <3>2. /\ run[r] = "absent" /\ run' = [run EXCEPT ![r] = "queued"]
          /\ source' = [source EXCEPT ![r] = {m}]
      BY <3>1 DEF AddRun, NextRun
    <3>3. \A p \in RunIds : run[p] # "absent" => run'[p] = run[p]
      BY <3>2
    <3>4. \A x \in Messages, p \in RunIds :
            x \in source'[p] => (x = m /\ p = r) \/ (x # m /\ x \in source[p])
      <4>1. source'[r] = {m} /\ \A p \in RunIds \ {r} : source'[p] = source[p]
        BY <3>2
      <4>2. \A p \in RunIds : m \notin source[p]
        BY <2>1
      <4> HIDE DEF SourceInv, RunsTypeOK, AttemptTypeOK, SteeringTypeOK, TalkTypeOK
      <4> SUFFICES ASSUME NEW x \in Messages, NEW p \in RunIds, x \in source'[p]
                   PROVE  (x = m /\ p = r) \/ (x # m /\ x \in source[p])
        OBVIOUS
      <4>3. CASE p = r
        BY <4>1, <4>3
      <4>4. CASE p # r
        BY <4>1, <4>2, <4>4
      <4> QED
        BY <4>3, <4>4
    <3>5. m \notin rows /\ heard[m] = {} /\ run'[r] # "absent"
      BY <2>1, <3>2
    <3>6. (\A p \in answers : run'[p] = "completed") /\ \A t \in Slots : of[t] # 0 => run'[of[t]] # "absent"
      BY <3>3, ZenonT(60)
    <3>7. \A x \in Messages : \A p \in heard[x] : run'[p] # "absent"
      BY <3>3
    <3> QED
      BY <2>1, <2>2, <3>3, <3>4, <3>5, <3>6, <3>7
  <2>3. CASE rows' = rows \cup {m} /\ UNCHANGED runRows
    BY <2>1, <2>3
  <2> QED
    BY <1>2, <2>2, <2>3 DEF SendUserMessage
<1>3. ASSUME NEW r \in RunIds, AnswerRun(r)
      PROVE  SourceInv'
  BY <1>3 DEF AnswerRun
<1>4. CASE ReactToMessage
  <2>1. UNCHANGED <<of, heard, answers, sent, rows>>
    BY <1>4 DEF ReactToMessage
  <2>2. PICK r \in RunIds : AddRun(run, r, {})
    BY <1>4 DEF ReactToMessage
  <2>3. /\ run[r] = "absent" /\ run' = [run EXCEPT ![r] = "queued"]
        /\ source' = [source EXCEPT ![r] = {}]
    BY <2>2 DEF AddRun, NextRun
  <2>4. \A p \in RunIds : run[p] # "absent" => run'[p] = run[p]
    BY <2>3
  <2>5. \A x \in Messages, p \in RunIds : x \in source'[p] => x \in source[p]
    BY <2>3
  <2>6. (\A p \in answers : run'[p] = "completed") /\ \A t \in Slots : of[t] # 0 => run'[of[t]] # "absent"
    BY <2>4, ZenonT(60)
  <2>7. \A x \in Messages : \A p \in heard[x] : run'[p] # "absent"
    BY <2>4
  <2> QED
    BY <2>1, <2>4, <2>5, <2>6, <2>7
<1>5. CASE PeerMessage
  <2>1. UNCHANGED <<of, heard, answers, sent, rows>>
    BY <1>5 DEF PeerMessage
  <2>2. PICK r \in RunIds : AddRun(run, r, {})
    BY <1>5 DEF PeerMessage
  <2>3. /\ run[r] = "absent" /\ run' = [run EXCEPT ![r] = "queued"]
        /\ source' = [source EXCEPT ![r] = {}]
    BY <2>2 DEF AddRun, NextRun
  <2>4. \A p \in RunIds : run[p] # "absent" => run'[p] = run[p]
    BY <2>3
  <2>5. \A x \in Messages, p \in RunIds : x \in source'[p] => x \in source[p]
    BY <2>3
  <2>6. (\A p \in answers : run'[p] = "completed") /\ \A t \in Slots : of[t] # 0 => run'[of[t]] # "absent"
    BY <2>4, ZenonT(60)
  <2>7. \A x \in Messages : \A p \in heard[x] : run'[p] # "absent"
    BY <2>4
  <2> QED
    BY <2>1, <2>4, <2>5, <2>6, <2>7
<1>6. CASE RoutineFires
  <2>1. UNCHANGED <<of, heard, answers, sent, rows>>
    BY <1>6 DEF RoutineFires
  <2>2. PICK r \in RunIds : AddRun(run, r, {})
    BY <1>6 DEF RoutineFires
  <2>3. /\ run[r] = "absent" /\ run' = [run EXCEPT ![r] = "queued"]
        /\ source' = [source EXCEPT ![r] = {}]
    BY <2>2 DEF AddRun, NextRun
  <2>4. \A p \in RunIds : run[p] # "absent" => run'[p] = run[p]
    BY <2>3
  <2>5. \A x \in Messages, p \in RunIds : x \in source'[p] => x \in source[p]
    BY <2>3
  <2>6. (\A p \in answers : run'[p] = "completed") /\ \A t \in Slots : of[t] # 0 => run'[of[t]] # "absent"
    BY <2>4, ZenonT(60)
  <2>7. \A x \in Messages : \A p \in heard[x] : run'[p] # "absent"
    BY <2>4
  <2> QED
    BY <2>1, <2>4, <2>5, <2>6, <2>7
<1>7. CASE RoutineWithdrawn
  <2>1. UNCHANGED <<source, rows, of, sent, heard, answers>>
    BY <1>7 DEF RoutineWithdrawn
  <2>2. \A r \in RunIds :
          /\ run[r] # "absent" => run'[r] # "absent"
          /\ run[r] = "completed" => run'[r] = "completed"
    BY <1>7 DEF RoutineWithdrawn
  <2>3. \A r \in answers' : run'[r] = "completed"
    BY <2>1, <2>2
  <2>5. ASSUME NEW s \in Slots, of'[s] # 0 PROVE run'[of'[s]] # "absent"
    <3>1. of[s] \in RunIds /\ run[of[s]] # "absent" /\ of'[s] = of[s]
      BY <2>1, <2>5
    <3> QED
      BY <2>2, <3>1
  <2>4. \A m \in Messages : \A r \in heard'[m] : run'[r] # "absent"
    BY <2>1, <2>2
  <2> HIDE DEF RunsTypeOK, SteeringTypeOK, AttemptTypeOK, TalkTypeOK
  <2> QED
    BY <2>1, <2>2, <2>3, <2>4, <2>5
<1>8. CASE StopThread
  BY <1>8 DEF StopThread, Cancelled, Busy
<1>9. CASE ClearConversation
  BY <1>9 DEF ClearConversation, Cancelled, Busy
<1>10. CASE StartLesson
  BY <1>10 DEF StartLesson, Cancelled, Busy
<1>11. ASSUME NEW s \in Slots, NEW r \in RunIds, StartAttemptOf(s, r)
      PROVE  SourceInv'
  BY <1>11 DEF StartAttemptOf, Cancelled
<1>12. ASSUME NEW s \in Slots, BeginTurns(s)
      PROVE  SourceInv'
  <2>1. /\ UNCHANGED <<run, source, rows, of, sent, answers>> /\ of[s] \in RunIds
        /\ run[of[s]] # "absent"
    BY <1>12, ClaimEffect
  <2>2. \A m \in Messages :
          /\ heard[m] \subseteq heard'[m] /\ heard'[m] \subseteq heard[m] \cup {of[s]}
          /\ heard'[m] # heard[m] => m \in rows \/ m \in source[of[s]]
    BY <1>12 DEF BeginTurns, NextTurn, Steering
  <2> HIDE DEF RunsTypeOK, AttemptTypeOK, TalkTypeOK
  <2>3. \A m \in Messages :
          /\ \A r \in heard'[m] : run[r] # "absent"
          /\ m \notin sent => heard'[m] = {}
    BY <2>1, <2>2
  <2>4. ASSUME NEW m \in Messages, NEW r \in RunIds, m \in source[r]
        PROVE  heard'[m] \subseteq {r}
    BY <2>1, <2>2, <2>4
  <2> QED
    BY <2>1, <2>3, <2>4
<1>13. ASSUME NEW s \in Slots, NextTurn(s)
      PROVE  SourceInv'
  <2>1. /\ UNCHANGED <<run, source, rows, of, sent, answers>> /\ of[s] \in RunIds
        /\ run[of[s]] # "absent"
    BY <1>13, ClaimEffect
  <2>2. \A m \in Messages :
          /\ heard[m] \subseteq heard'[m] /\ heard'[m] \subseteq heard[m] \cup {of[s]}
          /\ heard'[m] # heard[m] => m \in rows \/ m \in source[of[s]]
    BY <1>13 DEF BeginTurns, NextTurn, Steering
  <2> HIDE DEF RunsTypeOK, AttemptTypeOK, TalkTypeOK
  <2>3. \A m \in Messages :
          /\ \A r \in heard'[m] : run[r] # "absent"
          /\ m \notin sent => heard'[m] = {}
    BY <2>1, <2>2
  <2>4. ASSUME NEW m \in Messages, NEW r \in RunIds, m \in source[r]
        PROVE  heard'[m] \subseteq {r}
    BY <2>1, <2>2, <2>4
  <2> QED
    BY <2>1, <2>3, <2>4
<1>14. ASSUME NEW s \in Slots, NEW outcome \in {"completed", "failed"}, FinalizeTurn(s, outcome)
      PROVE  SourceInv'
  <2>1. /\ UNCHANGED <<sent, heard>> /\ rows' \subseteq rows /\ of[s] \in RunIds /\ Idle(s)
        /\ run'[of[s]] = outcome /\ run[of[s]] = "running"
    <3> HIDE DEF SourceInv, RunsTypeOK, AttemptTypeOK, SteeringTypeOK, TalkTypeOK
    <3> QED
      BY <1>14, FinalizeEnds
  <2>2. answers' = IF outcome = "completed" THEN answers \cup {of[s]} ELSE answers
    BY <1>14 DEF FinalizeTurn
  <2>3. PICK q \in RunIds \cup {0} :
          /\ q # 0 => run[q] = "absent" /\ run'[q] = "queued"
          /\ \A p \in RunIds \ {q, of[s]} : run'[p] = run[p]
    BY <1>14, FinalizeEffect
  <2>4. \A p \in RunIds : run[p] # "absent" => run'[p] # "absent" /\ p # q
    BY <1>14, <2>1, <2>3, ConversationAssumption
  <2>5. \A m \in Messages, r \in RunIds : m \in source'[r] => m \in source[r]
    BY <1>14 DEF FinalizeTurn, AddRun
  <2>6. \A t \in Slots : of'[t] = of[t] \/ of'[t] = 0
    BY <2>1 DEF Idle
  <2>7. \A r \in answers' : run'[r] = "completed"
    BY <2>1, <2>2, <2>3, <2>4
  <2>8. \A t \in Slots : of'[t] # 0 => run'[of'[t]] # "absent"
    BY <2>4, <2>6, ZenonT(60)
  <2> QED
    BY <2>1, <2>4, <2>5, <2>7, <2>8
<1>15. ASSUME NEW s \in Slots, PauseTurn(s)
      PROVE  SourceInv'
  BY <1>15 DEF PauseTurn, Mine, Idle
<1>16. ASSUME NEW s \in Slots, AbandonTurn(s)
      PROVE  SourceInv'
  BY <1>16 DEF AbandonTurn, Idle
<1>17. ASSUME NEW s \in Slots, AttemptDies(s)
      PROVE  SourceInv'
  BY <1>17 DEF AttemptDies, Idle
<1>18. CASE UNCHANGED convVars
  BY <1>1, <1>18 DEF convVars, runRows, steering, attempts, routine, talk
<1> QED
  BY <1>1, <1>2, <1>3, <1>4, <1>5, <1>6, <1>7, <1>8, <1>9, <1>10, <1>11, <1>12,
     <1>13, <1>14, <1>15, <1>16, <1>17, <1>18 DEF ConvNext, Attempt, Finish,
     runRows, steering, attempts, routine, talk, RoutineEnqueued

LEMMA HeardStep ==
  ASSUME ConvInv, [ConvNext]_convVars
  PROVE  HeardInv'
<1> USE ConversationAssumption DEF ConvInv, HeardInv, RunsTypeOK, TalkTypeOK,
    AttemptTypeOK, SteeringTypeOK, runRows, steering, attempts, routine, talk
<1>1. CASE UNCHANGED <<run, source, rows, claimed, bound, heard, answers, beside>>
  BY <1>1
<1>2. ASSUME NEW m \in Messages, SendUserMessage(m)
      PROVE  HeardInv'
  <2>1. /\ UNCHANGED <<heard, answers, claimed, beside>> /\ m \notin sent /\ heard[m] = {}
        /\ m \notin rows /\ m \notin claimed
    BY <1>2 DEF SendUserMessage, SourceInv
  <2>2. CASE ActiveRuns = {} /\ UNCHANGED steering /\ \E r \in RunIds : AddRun(run, r, {m})
    <3>1. PICK r \in RunIds : AddRun(run, r, {m})
      BY <2>2
    <3>2. /\ run[r] = "absent" /\ run' = [run EXCEPT ![r] = "queued"]
          /\ source' = [source EXCEPT ![r] = {m}]
      BY <3>1 DEF AddRun, NextRun
    <3>3. \A x \in Messages : \A p \in heard[x] : p # r /\ run'[p] = run[p]
      BY <3>2 DEF SourceInv
    <3>4. \A x \in Messages : x # m => \A p \in RunIds : x \in source[p] => x \in source'[p]
      BY <3>2 DEF SourceInv
    <3> HIDE DEF RunsTypeOK, AttemptTypeOK, TalkTypeOK, SteeringTypeOK
    <3> QED
      BY <2>1, <2>2, <3>3, <3>4
  <2>3. CASE /\ UNCHANGED <<runRows, claimed>> /\ rows' = rows \cup {m}
             /\ \E busy \in ActiveRuns : bound' = [bound EXCEPT ![m] = busy]
    BY <2>1, <2>3
  <2> QED
    BY <1>2, <2>2, <2>3 DEF SendUserMessage
<1>3. ASSUME NEW r \in RunIds, AnswerRun(r)
      PROVE  HeardInv'
  <2>1. /\ UNCHANGED <<heard, source, answers, beside, rows, claimed, bound>>
        /\ \A p \in RunIds : run'[p] \in Busy => run[p] \in Busy
    BY <1>3 DEF AnswerRun, Busy, Cancelled, Mine
  <2> HIDE DEF RunsTypeOK, AttemptTypeOK, SteeringTypeOK
  <2> QED
    BY <2>1
<1>4. CASE ReactToMessage
  <2>1. /\ UNCHANGED <<heard, answers, claimed, rows, bound>> /\ (~beside' => ~beside)
    BY <1>4 DEF ReactToMessage
  <2>2. PICK r \in RunIds : AddRun(run, r, {})
    BY <1>4 DEF ReactToMessage
  <2>3. /\ run[r] = "absent" /\ run' = [run EXCEPT ![r] = "queued"]
        /\ source' = [source EXCEPT ![r] = {}]
    BY <2>2 DEF AddRun, NextRun
  <2>4. \A x \in Messages : \A p \in heard[x] : p # r /\ run'[p] = run[p]
    BY <2>3 DEF SourceInv
  <2>5. \A x \in Messages, p \in RunIds : x \in source[p] => x \in source'[p]
    BY <2>3 DEF SourceInv
  <2> HIDE DEF RunsTypeOK, AttemptTypeOK, TalkTypeOK, SteeringTypeOK
  <2> QED
    BY <2>1, <2>4, <2>5
<1>5. CASE PeerMessage
  <2>1. /\ UNCHANGED <<heard, answers, claimed, rows, bound>> /\ (~beside' => ~beside)
    BY <1>5 DEF PeerMessage
  <2>2. PICK r \in RunIds : AddRun(run, r, {})
    BY <1>5 DEF PeerMessage
  <2>3. /\ run[r] = "absent" /\ run' = [run EXCEPT ![r] = "queued"]
        /\ source' = [source EXCEPT ![r] = {}]
    BY <2>2 DEF AddRun, NextRun
  <2>4. \A x \in Messages : \A p \in heard[x] : p # r /\ run'[p] = run[p]
    BY <2>3 DEF SourceInv
  <2>5. \A x \in Messages, p \in RunIds : x \in source[p] => x \in source'[p]
    BY <2>3 DEF SourceInv
  <2> HIDE DEF RunsTypeOK, AttemptTypeOK, TalkTypeOK, SteeringTypeOK
  <2> QED
    BY <2>1, <2>4, <2>5
<1>6. CASE RoutineFires
  <2>1. /\ UNCHANGED <<heard, answers, claimed, rows, bound>> /\ (~beside' => ~beside)
    BY <1>6 DEF RoutineFires
  <2>2. PICK r \in RunIds : AddRun(run, r, {})
    BY <1>6 DEF RoutineFires
  <2>3. /\ run[r] = "absent" /\ run' = [run EXCEPT ![r] = "queued"]
        /\ source' = [source EXCEPT ![r] = {}]
    BY <2>2 DEF AddRun, NextRun
  <2>4. \A x \in Messages : \A p \in heard[x] : p # r /\ run'[p] = run[p]
    BY <2>3 DEF SourceInv
  <2>5. \A x \in Messages, p \in RunIds : x \in source[p] => x \in source'[p]
    BY <2>3 DEF SourceInv
  <2> HIDE DEF RunsTypeOK, AttemptTypeOK, TalkTypeOK, SteeringTypeOK
  <2> QED
    BY <2>1, <2>4, <2>5
<1>7. CASE RoutineWithdrawn
  BY <1>7 DEF RoutineWithdrawn
<1>8. CASE StopThread
  BY <1>8 DEF StopThread, Cancelled, Busy
<1>9. CASE ClearConversation
  BY <1>9 DEF ClearConversation, Cancelled, Busy
<1>10. CASE StartLesson
  <2>1. /\ UNCHANGED <<heard, source, answers, beside, rows, claimed, bound>>
        /\ \A p \in RunIds : run'[p] \in Busy => run[p] \in Busy
    BY <1>10 DEF StartLesson, Busy, Cancelled, Mine
  <2> HIDE DEF RunsTypeOK, AttemptTypeOK, SteeringTypeOK
  <2> QED
    BY <2>1
<1>11. ASSUME NEW s \in Slots, NEW r \in RunIds, StartAttemptOf(s, r)
      PROVE  HeardInv'
  <2>1. /\ UNCHANGED <<heard, source, answers, beside, rows, claimed, bound>>
        /\ \A p \in RunIds : run'[p] \in Busy => run[p] \in Busy
    BY <1>11 DEF StartAttemptOf, Busy, Cancelled, Mine
  <2> HIDE DEF RunsTypeOK, AttemptTypeOK, SteeringTypeOK
  <2> QED
    BY <2>1
<1>12. ASSUME NEW s \in Slots, BeginTurns(s)
      PROVE  HeardInv'
  <2> SUFFICES ASSUME ~beside, NEW m \in Messages
               PROVE  /\ m \in claimed' => bound'[m] # 0
                      /\ m \in rows' => heard'[m] \cap answers' = {}
                      /\ (\A q \in RunIds : m \notin source'[q]) =>
                           \A r \in heard'[m] : run'[r] \in Busy => m \in claimed' /\ bound'[m] = r
                      /\ \A a, b \in heard'[m] \cap answers' : a = b
    BY <1>12 DEF BeginTurns, NextTurn
  <2>1. UNCHANGED <<run, source, rows, of, sent, answers>> /\ of[s] \in RunIds
    BY <1>12, ClaimEffect
  <2> DEFINE found == IF turn[s] = "turn" \/ Mine(s) THEN Steering(s) ELSE {}
  <2>2. /\ claimed' = claimed \cup found
        /\ bound'[m] = IF m \in found \ claimed THEN of[s] ELSE bound[m]
        /\ heard'[m] = IF m \in found \cup (IF turn[s] = "begin" THEN source[of[s]] ELSE {})
                      THEN heard[m] \cup {of[s]} ELSE heard[m]
        /\ m \in found => Mine(s)
    BY <1>12 DEF BeginTurns, NextTurn, ClaimSteering
  <2>3. m \in found => m \in rows /\ bound[m] \in {0, of[s]}
    BY DEF Steering
  <2> HIDE DEF found, RunsTypeOK, AttemptTypeOK, TalkTypeOK, SteeringTypeOK
  <2>4. CASE m \in found
    <3>1. run[of[s]] = "running" /\ of[s] # 0 /\ of[s] \notin answers
      BY <2>2, <2>4 DEF Mine, SourceInv
    <3>2. m \in claimed' /\ bound'[m] = of[s] /\ heard'[m] = heard[m] \cup {of[s]}
      BY <2>2, <2>3, <2>4
    <3>3. heard[m] \cap answers = {}
      BY <2>3, <2>4
    <3>4. \A r \in heard'[m] : run[r] \in Busy => r = of[s]
      BY <2>1, <3>1, <3>2 DEF OneActive, Busy, TalkTypeOK
    <3> QED
      BY <2>1, <3>1, <3>2, <3>3, <3>4
  <2>5. CASE m \notin found /\ m \in source[of[s]]
    <3>1. heard'[m] \subseteq {of[s]} /\ m \notin rows /\ m \notin claimed'
      <4>1. m \notin rows /\ heard[m] \subseteq {of[s]}
        BY <2>1, <2>5 DEF SourceInv
      <4> HIDE DEF HeardInv
      <4>2. m \notin claimed'
        BY <2>2, <2>5, <4>1 DEF SteeringTypeOK
      <4> QED
        BY <2>2, <4>1, <4>2
    <3> QED
      BY <2>1, <2>5, <3>1
  <2>6. CASE m \notin found /\ m \notin source[of[s]]
    BY <2>1, <2>2, <2>6
  <2> QED
    BY <2>4, <2>5, <2>6
<1>13. ASSUME NEW s \in Slots, NextTurn(s)
      PROVE  HeardInv'
  <2> SUFFICES ASSUME ~beside, NEW m \in Messages
               PROVE  /\ m \in claimed' => bound'[m] # 0
                      /\ m \in rows' => heard'[m] \cap answers' = {}
                      /\ (\A q \in RunIds : m \notin source'[q]) =>
                           \A r \in heard'[m] : run'[r] \in Busy => m \in claimed' /\ bound'[m] = r
                      /\ \A a, b \in heard'[m] \cap answers' : a = b
    BY <1>13 DEF BeginTurns, NextTurn
  <2>1. UNCHANGED <<run, source, rows, of, sent, answers>> /\ of[s] \in RunIds
    BY <1>13, ClaimEffect
  <2> DEFINE found == IF turn[s] = "turn" \/ Mine(s) THEN Steering(s) ELSE {}
  <2>2. /\ claimed' = claimed \cup found
        /\ bound'[m] = IF m \in found \ claimed THEN of[s] ELSE bound[m]
        /\ heard'[m] = IF m \in found \cup (IF turn[s] = "begin" THEN source[of[s]] ELSE {})
                      THEN heard[m] \cup {of[s]} ELSE heard[m]
        /\ m \in found => Mine(s)
    BY <1>13 DEF BeginTurns, NextTurn, ClaimSteering
  <2>3. m \in found => m \in rows /\ bound[m] \in {0, of[s]}
    BY DEF Steering
  <2> HIDE DEF found, RunsTypeOK, AttemptTypeOK, TalkTypeOK, SteeringTypeOK
  <2>4. CASE m \in found
    <3>1. run[of[s]] = "running" /\ of[s] # 0 /\ of[s] \notin answers
      BY <2>2, <2>4 DEF Mine, SourceInv
    <3>2. m \in claimed' /\ bound'[m] = of[s] /\ heard'[m] = heard[m] \cup {of[s]}
      BY <2>2, <2>3, <2>4
    <3>3. heard[m] \cap answers = {}
      BY <2>3, <2>4
    <3>4. \A r \in heard'[m] : run[r] \in Busy => r = of[s]
      BY <2>1, <3>1, <3>2 DEF OneActive, Busy, TalkTypeOK
    <3> QED
      BY <2>1, <3>1, <3>2, <3>3, <3>4
  <2>5. CASE m \notin found /\ m \in source[of[s]]
    <3>1. heard'[m] \subseteq {of[s]} /\ m \notin rows /\ m \notin claimed'
      <4>1. m \notin rows /\ heard[m] \subseteq {of[s]}
        BY <2>1, <2>5 DEF SourceInv
      <4> HIDE DEF HeardInv
      <4>2. m \notin claimed'
        BY <2>2, <2>5, <4>1 DEF SteeringTypeOK
      <4> QED
        BY <2>2, <4>1, <4>2
    <3> QED
      BY <2>1, <2>5, <3>1
  <2>6. CASE m \notin found /\ m \notin source[of[s]]
    BY <2>1, <2>2, <2>6
  <2> QED
    BY <2>4, <2>5, <2>6
<1>14. ASSUME NEW s \in Slots, NEW outcome \in {"completed", "failed"}, FinalizeTurn(s, outcome)
      PROVE  HeardInv'
  <2> SUFFICES ASSUME ~beside, NEW m \in Messages
               PROVE  /\ m \in claimed' => bound'[m] # 0
                      /\ m \in rows' => heard'[m] \cap answers' = {}
                      /\ (\A q \in RunIds : m \notin source'[q]) =>
                           \A r \in heard'[m] : run'[r] \in Busy => m \in claimed' /\ bound'[m] = r
                      /\ \A a, b \in heard'[m] \cap answers' : a = b
    BY <1>14 DEF FinalizeTurn
  <2>1. /\ UNCHANGED heard /\ of[s] \in RunIds /\ run'[of[s]] = outcome
        /\ run[of[s]] = "running" /\ rows' = RowsAfter(s, outcome)
        /\ claimed' \subseteq claimed \cap rows'
    <3> HIDE DEF HeardInv, RunsTypeOK, AttemptTypeOK, SteeringTypeOK, TalkTypeOK
    <3> QED
      BY <1>14, FinalizeEnds
  <2>2. answers' = IF outcome = "completed" THEN answers \cup {of[s]} ELSE answers
    BY <1>14 DEF FinalizeTurn
  <2>3. PICK q \in RunIds \cup {0} :
          /\ q # 0 => run[q] = "absent"
          /\ \A p \in RunIds \ {q, of[s]} : run'[p] = run[p]
          /\ m \in rows' => IF bound[m] \in {0, of[s]}
                           THEN bound'[m] = q /\ (q # 0 => m \notin claimed')
                           ELSE bound'[m] = bound[m]
          /\ q = 0 => \/ \E p \in RunIds \ {of[s]} : run[p] \in Busy
                      \/ m \in rows' => bound[m] \notin {0, of[s]}
    BY <1>14, FinalizeEffect
  <2> HIDE DEF RunsTypeOK, AttemptTypeOK, TalkTypeOK, SteeringTypeOK
  <2>4. \A p \in RunIds \ {of[s]} : run[p] \notin Busy
    BY <2>1 DEF OneActive, Busy
  <2>5. m \in claimed' => bound'[m] # 0
    BY <2>1, <2>3, <2>4
  <2>6. heard[m] \subseteq RunIds /\ \A r \in heard[m] : run[r] # "absent"
    BY DEF SourceInv, TalkTypeOK
  <2>7. \A r \in heard[m] : run'[r] \notin Busy
    <3> SUFFICES ASSUME NEW r \in heard[m] PROVE run'[r] \notin Busy
      OBVIOUS
    <3>1. r \in RunIds /\ (r = of[s] \/ run'[r] = run[r])
      BY <2>3, <2>6, ConversationAssumption
    <3> QED
      BY <1>14, <2>1, <2>4, <3>1 DEF Busy
  <2>8. of[s] \in heard[m] =>
          (m \in claimed /\ bound[m] = of[s]) \/ \E r \in RunIds : m \in source[r]
    BY <2>1 DEF Busy
  <2>9. m \in rows' => heard[m] \cap answers' = {}
    <3> SUFFICES ASSUME m \in rows' PROVE heard[m] \cap answers' = {}
      OBVIOUS
    <3>1. m \in rows /\ \A r \in RunIds : m \notin source[r]
      BY <2>1 DEF RowsAfter, SourceInv
    <3>2. outcome = "completed" => of[s] \notin heard[m]
      BY <2>1, <2>8, <3>1 DEF RowsAfter
    <3> QED
      BY <2>2, <3>1, <3>2
  <2>10. \A a, b \in heard[m] \cap answers' : a = b
    <3>1. CASE \E r \in RunIds : m \in source[r]
      BY <3>1 DEF SourceInv
    <3>2. CASE of[s] \notin heard[m]
      BY <2>2, <3>2
    <3>3. CASE m \in claimed
      BY <2>2, <3>3 DEF SteeringTypeOK
    <3> QED
      BY <2>8, <3>1, <3>2, <3>3
  <2> QED
    BY <2>1, <2>5, <2>7, <2>9, <2>10
<1>15. ASSUME NEW s \in Slots, PauseTurn(s)
      PROVE  HeardInv'
  <2>1. /\ UNCHANGED <<heard, source, answers, beside, rows, claimed, bound>>
        /\ \A p \in RunIds : run'[p] \in Busy => run[p] \in Busy
    BY <1>15 DEF PauseTurn, Busy, Cancelled, Mine
  <2> HIDE DEF RunsTypeOK, AttemptTypeOK, SteeringTypeOK
  <2> QED
    BY <2>1
<1>16. CASE UNCHANGED convVars
  BY <1>1, <1>16 DEF convVars, runRows, steering, attempts, routine, talk
<1> QED
  BY <1>1, <1>2, <1>3, <1>4, <1>5, <1>6, <1>7, <1>8, <1>9, <1>10, <1>11, <1>12,
     <1>13, <1>14, <1>15, <1>16 DEF ConvNext, Attempt, Finish, runRows, steering,
     attempts, routine, talk, RoutineEnqueued, AbandonTurn, AttemptDies

-----------------------------------------------------------------------------
(* The invariant.                                                          *)

LEMMA ConvInvStart == ConvInit => ConvInv
<1> SUFFICES ASSUME ConvInit PROVE ConvInv
  OBVIOUS
<1> USE ConversationAssumption DEF ConvInit
<1>1. RunsTypeOK
  BY DEF RunsTypeOK, ThreadRunStatus
<1>2. SteeringTypeOK /\ AttemptTypeOK
  BY DEF SteeringTypeOK, AttemptTypeOK
<1>3. TalkTypeOK
  BY DEF TalkTypeOK
<1>4. FenceInv /\ GivenInv
  BY DEF FenceInv, GivenInv
<1>5. BornInv
  BY DEF BornInv, NothingFromBefore, Busy
<1>6. NoStranded
  BY DEF NoStranded
<1>7. SourceInv /\ OneActive /\ HeardInv
  BY DEF SourceInv, OneActive, HeardInv, Busy
<1> QED
  BY <1>1, <1>2, <1>3, <1>4, <1>5, <1>6, <1>7 DEF ConvInv

LEMMA ConvInvStep == ConvInv /\ [ConvNext]_convVars => ConvInv'
<1> SUFFICES ASSUME ConvInv, [ConvNext]_convVars PROVE ConvInv'
  OBVIOUS
<1>1. RunsTypeOK' /\ SteeringTypeOK' /\ AttemptTypeOK' /\ TalkTypeOK'
  BY RunsTypeStep, SteeringTypeStep, AttemptTypeStep, TalkTypeStep DEF ConvInv
<1>2. FenceInv' /\ BornInv' /\ GivenInv' /\ NoStranded'
  BY FenceStep, BornStep, GivenStep, StrandedStep DEF ConvInv
<1>3. SourceInv' /\ OneActive' /\ HeardInv'
  BY SourceStep, OneStep, HeardStep DEF ConvInv
<1> QED
  BY <1>1, <1>2, <1>3 DEF ConvInv

LEMMA ConvInvHolds == ConvInit /\ [][ConvNext]_convVars => []ConvInv
  BY ConvInvStart, ConvInvStep, PTL

-----------------------------------------------------------------------------
(* The theorems.                                                           *)

\* Every variable has its type.
THEOREM ConvTypeCorrect == ConvSpec => []ConvTypeOK
<1>1. ConvInv => ConvTypeOK
  BY DEF ConvInv, ConvTypeOK, RunsTypeOK, SteeringTypeOK, AttemptTypeOK, TalkTypeOK
<1> QED
  BY <1>1, ConvInvHolds, PTL DEF ConvSpec

\* A run that is busy was born after the last clear, so no answer is older.
THEOREM NothingComesBack == ConvSpec => []NothingFromBefore
<1>1. ConvInv => NothingFromBefore
  BY DEF ConvInv, BornInv
<1> QED
  BY <1>1, ConvInvHolds, PTL DEF ConvSpec

\* Whatever ends, withdraws or takes over a run, the messages sent to it are
\* bound to a run that will hear them, or float where one is there to.
THEOREM NobodyStranded == ConvSpec => []NoStranded
<1>1. ConvInv => NoStranded
  BY DEF ConvInv
<1> QED
  BY <1>1, ConvInvHolds, PTL DEF ConvSpec

\* A row is deleted with a completed run, whose holder was given every row
\* that was claimed for the run, by itself or by one that died.
THEOREM RowsGoWhenGiven == ConvSpec => GoneOnlyIfGiven
<1>1. ASSUME ConvInv, [ConvNext]_convVars, NEW m \in rows \ rows'
      PROVE  \/ m \in dropped'
             \/ \E s \in Slots : turn[s] = "turn" /\ turn'[s] = "idle" /\ m \in seen[s]
  <2> USE DEF ConvInv
  <2>1. \/ StopThread \/ ClearConversation
        \/ \E s \in Slots, outcome \in {"completed", "failed"} : FinalizeTurn(s, outcome)
    <3>1. rows' # rows
      BY <1>1
    <3> QED
      BY <1>1, <3>1
      DEF ConvNext, Attempt, Finish, convVars, steering, SendUserMessage, AnswerRun,
          ReactToMessage, PeerMessage, RoutineFires, RoutineEnqueued, RoutineWithdrawn,
          StartLesson, StartAttemptOf, BeginTurns, NextTurn, PauseTurn, AbandonTurn,
          AttemptDies
  <2>2. CASE StopThread \/ ClearConversation
    BY <1>1, <2>2 DEF StopThread, ClearConversation
  <2>3. ASSUME NEW s \in Slots, NEW outcome \in {"completed", "failed"},
               FinalizeTurn(s, outcome)
        PROVE  turn[s] = "turn" /\ turn'[s] = "idle" /\ m \in seen[s]
    <3>1. turn[s] = "turn" /\ Mine(s) /\ Idle(s) /\ rows' = RowsAfter(s, outcome)
      BY <1>1, <2>3, FinalizeEffect
    <3>2. bound[m] = of[s] /\ m \in claimed
      BY <1>1, <3>1 DEF RowsAfter
    <3>3. turn'[s] = "idle"
      BY <1>1, <3>1 DEF Idle, AttemptTypeOK
    <3> QED
      BY <1>1, <3>1, <3>2, <3>3 DEF GivenInv
  <2> QED
    BY <2>1, <2>2, <2>3
<1>2. ConvInv /\ [ConvNext]_convVars =>
        [\A m \in rows \ rows' :
           \/ m \in dropped'
           \/ \E s \in Slots : turn[s] = "turn" /\ turn'[s] = "idle"
                                 /\ m \in seen[s]]_convVars
  BY <1>1
<1> QED
  BY <1>2, ConvInvHolds, PTL DEF ConvSpec, GoneOnlyIfGiven

\* A message is answered by one run: the row that makes a run hear it goes in
\* the transaction in which that run's answer is written, and only then.
THEOREM MessagesAnsweredOnce == ConvSpec => []AnsweredOnce
<1>1. ConvInv => AnsweredOnce
  <2> SUFFICES ASSUME ConvInv, ~beside, NEW m \in Messages
               PROVE  Cardinality(heard[m] \cap answers) <= 1
    BY DEF AnsweredOnce
  <2>1. \A a, b \in heard[m] \cap answers : a = b
    BY DEF ConvInv, HeardInv
  <2>2. CASE heard[m] \cap answers = {}
    BY <2>2, FS_EmptySet
  <2>3. CASE heard[m] \cap answers # {}
    <3>1. PICK a : heard[m] \cap answers = {a}
      BY <2>1, <2>3
    <3> QED
      BY <3>1, FS_Singleton
  <2> QED
    BY <2>2, <2>3
<1> QED
  BY <1>1, ConvInvHolds, PTL DEF ConvSpec

-----------------------------------------------------------------------------
(* The followers of the thread: the invariant.                             *)

\* The seq of an open transaction is the last one given out, it alone is
\* open, and every committed event comes before it.
WritersInv ==
  /\ \A w \in Writers : writing[w] # "idle" => seqOf[w] \in Positions
  /\ \A w \in Writers : writing[w] = "open" =>
       /\ lock = w /\ nextSeq = seqOf[w] + 1
       /\ \A e \in events : e < seqOf[w]
  /\ \A e \in events : e < nextSeq

\* What a follower still has to give its reader are committed events past
\* its cursor, and between the cursor and any of them lie only others that
\* it has to give or that were deleted.
ReadersInv ==
  \A f \in Followers :
    /\ rest[f] \subseteq events
    /\ \A e \in rest[f] : cursor[f] < e
    /\ \A e \in rest[f], d \in events :
         cursor[f] < d /\ d < e => d \in rest[f] \cup purged

\* The steps of a follower, one of which is all that Next has of it.
FollowerStep(f) == Follow(f) \/ Unfollow(f) \/ Reads(f) \/ CatchUp(f)

-----------------------------------------------------------------------------
(* What the actions leave alone.                                           *)

LEMMA ConnectionLeaves ==
  ASSUME Connection
  PROVE  UNCHANGED <<threadRow, eventRows, readers, lost>>
BY DEF Connection, Listen, Connected, ConnectAbandoned, ConnectSettles, GoDeaf,
   HandleDisconnect, ReconnectTimer, HandleNotification

LEMMA FollowerLeaves ==
  ASSUME NEW f \in Followers, FollowerStep(f)
  PROVE  UNCHANGED <<threadRow, eventRows, lost>>
BY DEF FollowerStep, Follow, Unfollow, Reads, Observe, ReadBatch, GiveEvent,
   EndBatch, Wake, CatchUp

\* The events a batch skips are not before those it takes.
LEMMA BatchIsPrefix ==
  ASSUME NEW U, U \subseteq Nat, NEW N \in Nat,
         NEW e \in U, NEW d \in U, d < e,
         Cardinality({x \in U : x < e}) < N
  PROVE  Cardinality({x \in U : x < d}) < N
<1> DEFINE Before(y) == {x \in U : x < y}
<1>0. e \in Nat /\ d \in Nat /\ \A x \in U : x \in Nat
  OBVIOUS
<1>1. IsFiniteSet(Before(e))
  <2>1. IsFiniteSet(0 .. e)
    BY <1>0, FS_Interval
  <2>2. ASSUME NEW x \in U, x < e PROVE x \in 0 .. e
    BY <1>0, <2>2
  <2> QED
    BY ONLY <2>1, <2>2, FS_Subset
<1>2. Before(d) \subseteq Before(e)
  <2>1. ASSUME NEW x \in U, x < d PROVE x < e
    BY <1>0, <2>1
  <2> QED
    BY <2>1
<1>3. /\ IsFiniteSet(Before(d))
      /\ Cardinality(Before(d)) <= Cardinality(Before(e))
  BY <1>1, <1>2, FS_Subset
<1>4. Cardinality(Before(d)) \in Nat /\ Cardinality(Before(e)) \in Nat
  BY <1>1, <1>3, FS_CardinalityType
<1> QED
  BY <1>3, <1>4

-----------------------------------------------------------------------------
(* The type invariant.                                                     *)

LEMMA FollowTypeStep ==
  ASSUME FollowTypeOK, WritersInv, [FollowNext]_followVars
  PROVE  FollowTypeOK'
<1> USE FollowersAssumption
    DEF FollowTypeOK, WritersInv, threadRow, eventRows, fanout, readers, Drop,
        Subscribed, EnsureConnected, ScheduleReconnect
<1>1. ASSUME NEW w \in Writers, OpenAppend(w) PROVE FollowTypeOK'
  BY <1>1 DEF OpenAppend, Allocate
<1>2. ASSUME NEW w \in Writers, RollBack(w) PROVE FollowTypeOK'
  BY <1>2 DEF RollBack
<1>3. ASSUME NEW w \in Writers, NEW kind \in EventKinds, CommitAppend(w, kind)
      PROVE  FollowTypeOK'
  <2>1. UNCHANGED <<nextSeq, seqOf, fanout, stirred, readers, lost, drops>>
    BY <1>3 DEF CommitAppend
  <2>2. writing' \in [Writers -> {"idle", "open", "publish"}] /\ lock' = Nobody
    BY <1>3 DEF CommitAppend
  <2>3. /\ events' \subseteq Positions /\ purged' \subseteq events'
        /\ progress' \subseteq events'
    BY <1>3 DEF CommitAppend
  <2> QED
    BY <2>1, <2>2, <2>3
<1>4. ASSUME NEW w \in Writers, Publish(w) PROVE FollowTypeOK'
  BY <1>4 DEF Publish
<1>5. ASSUME NEW w \in Writers, PublishLost(w) PROVE FollowTypeOK'
  <2>1. /\ writing[w] = "publish" /\ lost' = lost \cup {seqOf[w]}
        /\ writing' = [writing EXCEPT ![w] = "idle"]
        /\ seqOf' = [seqOf EXCEPT ![w] = 0] /\ drops' = drops + 1
        /\ UNCHANGED <<nextSeq, lock, eventRows, fanout, stirred, readers>>
    BY <1>5 DEF PublishLost
  <2>2. lost' \subseteq Positions
    BY <2>1
  <2>3. drops' \in Nat
    BY <2>1
  <2> QED
    BY <2>1, <2>2, <2>3
<1>6. CASE Listen
  BY <1>6 DEF Listen
<1>7. CASE Connected
  BY <1>7 DEF Connected
<1>8. CASE ConnectAbandoned
  <2>1. /\ candidate' = "disposing" /\ inflight' = FALSE
        /\ timer' \in BOOLEAN
    BY <1>8 DEF ConnectAbandoned
  <2>2. drops' = drops \/ drops' = drops + 1
    BY <1>8 DEF ConnectAbandoned
  <2>4. drops' \in Nat
    BY <2>2
  <2>5. UNCHANGED <<threadRow, eventRows, client, connecting, stirred, readers,
                    lost>>
    BY <1>8 DEF ConnectAbandoned
  <2> QED
    BY <2>1, <2>4, <2>5
<1>9. CASE ConnectSettles
  BY <1>9 DEF ConnectSettles
<1>10. CASE GoDeaf
  <2>1. client' = "deaf" /\ inflight' = FALSE /\ drops' \in Nat
    BY <1>10 DEF GoDeaf
  <2>2. UNCHANGED <<threadRow, eventRows, candidate, connecting, timer,
                    stirred, readers, lost>>
    BY <1>10 DEF GoDeaf
  <2> QED
    BY <2>1, <2>2
<1>11. CASE HandleDisconnect
  BY <1>11 DEF HandleDisconnect
<1>12. CASE ReconnectTimer
  BY <1>12 DEF ReconnectTimer
<1>13. CASE HandleNotification
  BY <1>13 DEF HandleNotification
<1>14. ASSUME NEW f \in Followers, Follow(f) PROVE FollowTypeOK'
  BY <1>14 DEF Follow
<1>15. ASSUME NEW f \in Followers, Unfollow(f) PROVE FollowTypeOK'
  BY <1>15 DEF Unfollow
<1>16. ASSUME NEW f \in Followers, Observe(f) PROVE FollowTypeOK'
  BY <1>16 DEF Observe
<1>17. ASSUME NEW f \in Followers, ReadBatch(f) PROVE FollowTypeOK'
  BY <1>17 DEF ReadBatch, Unread, Standing
<1>18. ASSUME NEW f \in Followers, GiveEvent(f) PROVE FollowTypeOK'
  BY <1>18 DEF GiveEvent
<1>19. ASSUME NEW f \in Followers, EndBatch(f) PROVE FollowTypeOK'
  BY <1>19 DEF EndBatch
<1>20. ASSUME NEW f \in Followers, Wake(f) PROVE FollowTypeOK'
  BY <1>20 DEF Wake
<1>21. ASSUME NEW f \in Followers, CatchUp(f) PROVE FollowTypeOK'
  BY <1>21 DEF CatchUp
<1>22. CASE UNCHANGED followVars
  BY <1>22 DEF followVars
<1> QED
  BY <1>1, <1>2, <1>3, <1>4, <1>5, <1>6, <1>7, <1>8, <1>9, <1>10, <1>11,
     <1>12, <1>13, <1>14, <1>15, <1>16, <1>17, <1>18, <1>19, <1>20, <1>21,
     <1>22
     DEF FollowNext, Write, Connection, Reads

-----------------------------------------------------------------------------
(* The parts of the invariant.                                             *)

LEMMA WritersStep ==
  ASSUME FollowTypeOK, WritersInv, [FollowNext]_followVars
  PROVE  WritersInv'
<1> USE FollowersAssumption DEF FollowTypeOK, WritersInv, threadRow, eventRows
<1>1. ASSUME NEW w \in Writers, OpenAppend(w) PROVE WritersInv'
  <2>1. \A v \in Writers : writing[v] # "open"
    BY <1>1 DEF OpenAppend
  <2> QED
    BY <1>1, <2>1 DEF OpenAppend, Allocate
<1>2. ASSUME NEW w \in Writers, RollBack(w) PROVE WritersInv'
  <2>1. \A v \in Writers : writing[v] = "open" => v = w
    BY <1>2 DEF RollBack
  <2> QED
    BY <1>2, <2>1 DEF RollBack
<1>3. ASSUME NEW w \in Writers, NEW kind \in EventKinds, CommitAppend(w, kind)
      PROVE  WritersInv'
  <2>1. \A v \in Writers : writing[v] = "open" => v = w
    BY <1>3 DEF CommitAppend
  <2> QED
    BY <1>3, <2>1 DEF CommitAppend
<1>4. ASSUME NEW w \in Writers, Publish(w) PROVE WritersInv'
  BY <1>4 DEF Publish
<1>5. ASSUME NEW w \in Writers, PublishLost(w) PROVE WritersInv'
  BY <1>5 DEF PublishLost
<1>6. CASE Connection
  BY <1>6, ConnectionLeaves
<1>7. ASSUME NEW f \in Followers, FollowerStep(f) PROVE WritersInv'
  BY <1>7, FollowerLeaves
<1>8. CASE UNCHANGED followVars
  BY <1>8 DEF followVars
<1> QED
  BY <1>1, <1>2, <1>3, <1>4, <1>5, <1>6, <1>7, <1>8
     DEF FollowNext, Write, FollowerStep

LEMMA ReadersStep ==
  ASSUME FollowTypeOK, WritersInv, ReadersInv, [FollowNext]_followVars
  PROVE  ReadersInv'
<1> USE FollowersAssumption DEF FollowTypeOK, ReadersInv, eventRows, readers
<1>1. ASSUME NEW w \in Writers, OpenAppend(w) \/ RollBack(w) \/ Publish(w)
                                  \/ PublishLost(w)
      PROVE  ReadersInv'
  <2>1. UNCHANGED <<eventRows, readers>>
    BY <1>1 DEF OpenAppend, Allocate, RollBack, Publish, PublishLost
  <2> QED
    BY <2>1
<1>2. ASSUME NEW w \in Writers, NEW kind \in EventKinds, CommitAppend(w, kind)
      PROVE  ReadersInv'
  <2>1. events' = events \cup {seqOf[w]} /\ UNCHANGED <<rest, cursor>>
    BY <1>2 DEF CommitAppend
  <2>2. purged \subseteq purged'
    BY <1>2 DEF CommitAppend
  <2>3. \A e \in events : e < seqOf[w] /\ e \in Nat /\ seqOf[w] \in Nat
    BY <1>2 DEF CommitAppend, WritersInv
  <2> QED
    BY <2>1, <2>2, <2>3
<1>3. CASE Connection
  BY <1>3, ConnectionLeaves
<1>4. ASSUME NEW f \in Followers, Follow(f) \/ Observe(f) \/ EndBatch(f)
                                    \/ Wake(f) \/ CatchUp(f)
      PROVE  ReadersInv'
  <2>1. UNCHANGED <<eventRows, rest, cursor>>
    BY <1>4 DEF Follow, Observe, EndBatch, Wake, CatchUp
  <2> QED
    BY <2>1
<1>5. ASSUME NEW f \in Followers, Unfollow(f) PROVE ReadersInv'
  BY <1>5 DEF Unfollow
<1>6. ASSUME NEW f \in Followers, ReadBatch(f) PROVE ReadersInv'
  <2> DEFINE U == Unread(f)
             batch == {e \in U : Cardinality({d \in U : d < e}) < BatchSize}
  <2>1. /\ rest' = [rest EXCEPT ![f] = batch]
        /\ UNCHANGED <<eventRows, cursor>>
    BY <1>6 DEF ReadBatch
  <2>2. U = {e \in events : e \notin purged /\ cursor[f] < e} /\ U \subseteq Nat
    BY DEF Unread, Standing
  <2>3. ASSUME NEW e \in batch, NEW d \in events, cursor[f] < d, d < e
        PROVE  d \in batch \cup purged
    <3> HIDE DEF U
    <3>1. CASE d \in U
      BY <2>2, <2>3, <3>1, BatchIsPrefix
    <3> QED
      BY <2>2, <2>3, <3>1
  <2> HIDE DEF batch
  <2>4. \A e \in batch : e \in events /\ cursor[f] < e
    BY <2>2 DEF batch
  <2> QED
    BY <2>1, <2>3, <2>4
<1>7. ASSUME NEW f \in Followers, GiveEvent(f) PROVE ReadersInv'
  <2>1. PICK e \in rest[f] :
          /\ \A d \in rest[f] : e <= d
          /\ cursor' = [cursor EXCEPT ![f] = e]
          /\ rest' = [rest EXCEPT ![f] = @ \ {e}]
          /\ UNCHANGED eventRows
    BY <1>7 DEF GiveEvent
  <2>2. rest[f] \subseteq Nat /\ events \subseteq Nat
    OBVIOUS
  <2>3. ASSUME NEW x \in rest[f] \ {e}, NEW d \in events, e < d, d < x
        PROVE  d \in (rest[f] \ {e}) \cup purged
    BY <2>1, <2>2, <2>3
  <2> QED
    BY <2>1, <2>2, <2>3
<1>8. CASE UNCHANGED followVars
  BY <1>8 DEF followVars
<1> QED
  BY <1>1, <1>2, <1>3, <1>4, <1>5, <1>6, <1>7, <1>8
     DEF FollowNext, Write, Reads

FollowInv == FollowTypeOK /\ WritersInv /\ ReadersInv

LEMMA FollowInvariant == FollowInit /\ [][FollowNext]_followVars => []FollowInv
<1>1. FollowInit => FollowInv
  <2> SUFFICES ASSUME FollowInit PROVE FollowInv
    OBVIOUS
  <2>1. FollowTypeOK
    BY DEF FollowInit, FollowTypeOK
  <2>2. WritersInv /\ ReadersInv
    BY DEF FollowInit, WritersInv, ReadersInv
  <2> QED
    BY <2>1, <2>2 DEF FollowInv
<1>2. FollowInv /\ [FollowNext]_followVars => FollowInv'
  BY FollowTypeStep, WritersStep, ReadersStep DEF FollowInv
<1> QED
  BY <1>1, <1>2, PTL

\* The variables of the thread, the connection and the followers keep their
\* types; in particular what is deleted was committed before.
THEOREM FollowTypeCorrect == FollowSpec => []FollowTypeOK
BY FollowInvariant, PTL DEF FollowSpec, FollowInv

-----------------------------------------------------------------------------
(* The connection.                                                         *)

\* While someone follows, the process is connected, connecting or about to
\* try again, whatever the order of subscriptions, errors and departures.
THEOREM FollowersAreNeverOffline == FollowSpec => []NeverOffline
<1>1. FollowInit => NeverOffline
  BY DEF FollowInit, NeverOffline, Subscribed
<1>2. ASSUME FollowTypeOK, NeverOffline, [FollowNext]_followVars
      PROVE  NeverOffline'
  <2> USE <1>2 DEF FollowTypeOK, NeverOffline, Subscribed, fanout, readers,
               EnsureConnected, ScheduleReconnect
  <2>1. ASSUME NEW w \in Writers, Write(w) PROVE NeverOffline'
    BY <2>1 DEF Write, OpenAppend, Allocate, RollBack, CommitAppend, Publish,
       PublishLost
  <2>2. CASE Connection
    BY <2>2 DEF Connection, Listen, Connected, ConnectAbandoned,
       ConnectSettles, GoDeaf, HandleDisconnect, ReconnectTimer,
       HandleNotification
  <2>3. ASSUME NEW f \in Followers, Follow(f) PROVE NeverOffline'
    BY <2>3 DEF Follow
  <2>4. ASSUME NEW f \in Followers, Unfollow(f) PROVE NeverOffline'
    BY <2>4 DEF Unfollow
  <2>5. ASSUME NEW f \in Followers, Reads(f) \/ CatchUp(f) PROVE NeverOffline'
    <3>1. UNCHANGED fanout
      BY <2>5 DEF Reads, Observe, ReadBatch, GiveEvent, EndBatch, Wake, CatchUp
    <3>2. \A g \in Followers : follower'[g] # "off" <=> follower[g] # "off"
      BY <2>5 DEF Reads, Observe, ReadBatch, GiveEvent, EndBatch, Wake, CatchUp
    <3> QED
      BY <3>1, <3>2
  <2>6. CASE UNCHANGED followVars
    BY <2>6 DEF followVars
  <2> QED
    BY <2>1, <2>2, <2>3, <2>4, <2>5, <2>6 DEF FollowNext
<1>3. FollowInv => FollowTypeOK
  BY DEF FollowInv
<1> QED
  BY <1>1, <1>2, <1>3, FollowInvariant, PTL DEF FollowSpec

-----------------------------------------------------------------------------
(* The refinement.                                                         *)

LEMMA DeliveryStep ==
  FollowInv /\ [FollowNext]_followVars
    => [Delivery!DeliveryNext]_(Delivery!deliveryVars)
<1> SUFFICES ASSUME FollowInv, [FollowNext]_followVars
             PROVE  Delivery!DeliveryNext \/ UNCHANGED Delivery!deliveryVars
  OBVIOUS
<1> USE DEF FollowInv, FollowTypeOK, Delivery!deliveryVars, eventRows, readers
<1>1. ASSUME NEW w \in Writers, NEW kind \in EventKinds, CommitAppend(w, kind)
      PROVE  Delivery!DeliveryNext
  <2>1. /\ events' = events \cup {seqOf[w]} /\ UNCHANGED cursor
        /\ seqOf[w] \in Positions
        /\ \A d \in events : d < seqOf[w]
    BY <1>1 DEF CommitAppend, WritersInv
  <2>2. purged \subseteq purged' /\ purged' \subseteq events
    BY <1>1 DEF CommitAppend
  <2>3. Delivery!AppendEvent
    BY <2>1, <2>2 DEF Delivery!AppendEvent
  <2> QED
    BY <2>3 DEF Delivery!DeliveryNext
<1>2. ASSUME NEW f \in Followers, GiveEvent(f) PROVE Delivery!DeliveryNext
  <2>1. PICK e \in rest[f] :
          /\ \A d \in rest[f] : e <= d
          /\ cursor' = [cursor EXCEPT ![f] = e]
          /\ UNCHANGED eventRows
    BY <1>2 DEF GiveEvent
  <2>2. /\ e \in events /\ cursor[f] < e
        /\ \A d \in events : cursor[f] < d /\ d < e => d \in purged
    BY <2>1, FollowersAssumption DEF ReadersInv
  <2>3. Delivery!GiveNext(f)
    BY <2>1, <2>2 DEF Delivery!GiveNext
  <2> QED
    BY <2>3 DEF Delivery!DeliveryNext
<1>3. CASE ~ \/ \E w \in Writers, kind \in EventKinds : CommitAppend(w, kind)
             \/ \E f \in Followers : GiveEvent(f)
  <2>1. CASE UNCHANGED followVars
    BY <2>1 DEF followVars
  <2>2. ASSUME NEW w \in Writers, Write(w)
        PROVE  UNCHANGED Delivery!deliveryVars
    BY <1>3, <2>2 DEF Write, OpenAppend, Allocate, RollBack, Publish,
       PublishLost
  <2>3. CASE Connection
    BY <2>3, ConnectionLeaves
  <2>4. ASSUME NEW f \in Followers, FollowerStep(f)
        PROVE  UNCHANGED Delivery!deliveryVars
    BY <1>3, <2>4 DEF FollowerStep, Follow, Unfollow, Reads, Observe,
       ReadBatch, EndBatch, Wake, CatchUp
  <2> QED
    BY <2>1, <2>2, <2>3, <2>4 DEF FollowNext, FollowerStep
<1> QED
  BY <1>1, <1>2, <1>3

\* Every follower is given the thread's events in order with none skipped
\* that still stands: the log and its followers implement EventDelivery.
THEOREM Delivers == FollowSpec => InOrderDelivery
<1>1. FollowInit => Delivery!DeliveryInit
  BY DEF FollowInit, Delivery!DeliveryInit
<1> QED
  BY <1>1, DeliveryStep, FollowInvariant, PTL
     DEF FollowSpec, InOrderDelivery, Delivery!DeliverySpec
===============================================================================
