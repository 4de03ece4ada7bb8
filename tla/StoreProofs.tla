----------------------------- MODULE StoreProofs -----------------------------
(***************************************************************************)
(* The safety of TurnStore for every set of agents, Turns and attempts and *)
(* every queue limit, and of AssistantHost, whose rows are in the same store,*)
(* for any number of posts, brains and commands.  The two share no state, and*)
(* each is proved by itself.                                               *)
(*                                                                         *)
(* StoreInvariant is inductive: each of the properties the runs check is one*)
(* of its conjuncts, and AttemptsAgree and CursorsCoverAttempts are what it*)
(* needs besides them.  From it follow that TurnStore implements TurnProtocol*)
(* (the Turns the protocol calls prompted are those with an attempt whose  *)
(* prompt was invoked) and that no lane exceeds limits.queuePerAgent.      *)
(***************************************************************************)
EXTENDS TurnStore, AssistantHost, FiniteSetTheorems, TLAPS

----------------------------------------------------------------------------
(* TurnStore                                                                *)

----------------------------------------------------------------------------
(* Facts about the maximum of a set of sequence numbers *)

\* The maximum of two numbers is one of them and no smaller than either.
LEMMA MaxOfTwo ==
    ASSUME NEW m \in Nat, NEW n \in Nat
    PROVE  /\ Max({m, n}) \in {m, n}
           /\ m <= Max({m, n}) /\ n <= Max({m, n})
<1>1. \E k \in {m, n} : \A j \in {m, n} : k >= j
  <2>1. CASE m >= n  BY <2>1
  <2>2. CASE n >= m  BY <2>2
  <2> QED  BY <2>1, <2>2
<1> QED  BY <1>1 DEF Max

\* A number that bounds a set it belongs to is the set's maximum.
LEMMA MaxOfBounded ==
    ASSUME NEW S \in SUBSET Nat, NEW m \in S, \A k \in S : k <= m
    PROVE  Max(S) = m
<1>1. \A j \in S : m >= j  OBVIOUS
<1>2. Max(S) \in S /\ \A j \in S : Max(S) >= j  BY <1>1 DEF Max
<1>3. Max(S) \in Nat /\ m \in Nat  BY <1>2
<1>4. Max(S) <= m /\ Max(S) >= m  BY <1>2
<1> QED  BY <1>3, <1>4

----------------------------------------------------------------------------
(* Types *)

LEMMA RowType == NoAttempt \in AttemptRow
BY DEF NoAttempt, AttemptRow

LEMMA CursorStepType ==
    ASSUME TypeOK, NEW x \in Attempt, attempts[x].turn # NoTurn,
           AdvanceDeliveryCursor(attempts[x])
    PROVE  cursor' \in [Actor -> Nat] /\ cursorSummary' \in [Actor -> Nat]
<1>1. /\ attempts[x].turn \in Turn
      /\ attempts[x].context \in Nat /\ attempts[x].summary \in Nat
  BY DEF TypeOK, AttemptRow
<1>2. TargetOf[attempts[x].turn] \in Actor  BY <1>1, StoreAssumption
<1> DEFINE a == TargetOf[attempts[x].turn]
<1>3. cursor[a] \in Nat /\ cursorSummary[a] \in Nat  BY <1>2 DEF TypeOK
<1>4. /\ Max({cursor[a], attempts[x].context}) \in Nat
      /\ Max({cursorSummary[a], attempts[x].summary}) \in Nat
  BY <1>1, <1>3, MaxOfTwo
<1> QED  BY <1>2, <1>4 DEF TypeOK, AdvanceDeliveryCursor

LEMMA TypeInit == Init => TypeOK
BY RowType, StoreAssumption DEF Init, TypeOK, TurnStatus

\* Recovery counts nothing as delivered that the native start had not counted
\* already: it leaves the cursors where they are.
LEMMA RecoveryKeepsCursors ==
    ASSUME TypeOK, AttemptsAgree, CursorsCoverAttempts, RecoverAfterRestart
    PROVE  UNCHANGED cursorVars
<1> USE StoreAssumption
<1>1. ASSUME NEW a \in Actor, NEW x \in DeliveredOpenAttempts(a)
      PROVE  /\ attempts[x].context \in Nat /\ attempts[x].context <= cursor[a]
             /\ attempts[x].summary \in Nat /\ attempts[x].summary <= cursorSummary[a]
  BY DEF DeliveredOpenAttempts, AttemptsAgree, AttemptAgrees, CursorsCoverAttempts, TypeOK,
     AttemptRow
<1>2. ASSUME NEW a \in Actor
      PROVE  Max({cursor[a]} \cup {attempts[x].context : x \in DeliveredOpenAttempts(a)})
               = cursor[a]
  BY <1>1, MaxOfBounded,
     {cursor[a]} \cup {attempts[x].context : x \in DeliveredOpenAttempts(a)} \in SUBSET Nat
  DEF TypeOK
<1>3. ASSUME NEW a \in Actor
      PROVE  Max({cursorSummary[a]} \cup {attempts[x].summary : x \in DeliveredOpenAttempts(a)})
               = cursorSummary[a]
  BY <1>1, MaxOfBounded,
     {cursorSummary[a]} \cup {attempts[x].summary : x \in DeliveredOpenAttempts(a)} \in SUBSET Nat
  DEF TypeOK
<1>4. cursor' = cursor
  BY <1>2 DEF RecoverAfterRestart, TypeOK
<1>5. cursorSummary' = cursorSummary
  BY <1>3 DEF RecoverAfterRestart, TypeOK
<1> QED  BY <1>4, <1>5 DEF cursorVars

\* A step keeps the type invariant.
LEMMA TypeStep == StoreInvariant /\ [Next]_vars => TypeOK'
<1> SUFFICES ASSUME TypeOK, AttemptsAgree, CursorsCoverAttempts, [Next]_vars PROVE TypeOK'
  BY DEF StoreInvariant
<1> USE StoreAssumption
<1>1. CASE Stop \/ Start
  BY <1>1 DEF Stop, Start, TypeOK, roomVars, turnVars, cursorVars
<1>2. CASE RecoverAfterRestart
  <2>1. UNCHANGED cursorVars  BY <1>2, RecoveryKeepsCursors
  <2>2. attempts' \in [Attempt -> AttemptRow]
    BY <1>2 DEF RecoverAfterRestart, TypeOK, AttemptRow
  <2>3. status' \in [Turn -> TurnStatus]
    BY <1>2 DEF RecoverAfterRestart, TypeOK, TurnStatus, TerminalStatus
  <2> QED  BY <1>2, <2>1, <2>2, <2>3 DEF RecoverAfterRestart, TypeOK, roomVars, cursorVars
<1>3. ASSUME NEW a \in Actor, OpenSession(a) \/ CloseSession(a) PROVE TypeOK'
  BY <1>3 DEF OpenSession, CloseSession, TypeOK, roomVars, turnVars, cursorVars
<1>4. ASSUME NEW S \in SUBSET Turn, NEW source \in 0..highSeq', EnqueueTurns(S, source),
             highSeq' \in highSeq..MaxSeq,
             UNCHANGED <<runtimeVars, summary, attempts, cursorVars>>
      PROVE  TypeOK'
  <2>1. queuedSeq' \in Nat /\ queuedSeq' = queuedSeq + 1
    BY <1>4 DEF EnqueueTurns, TypeOK
  <2>2. status' \in [Turn -> TurnStatus]  BY <1>4 DEF EnqueueTurns, TypeOK, TurnStatus
  <2>3. sourceSeq' \in [Turn -> 0..highSeq']  BY <1>4 DEF EnqueueTurns, TypeOK
  <2>4. enqueueSeq' \in [Turn -> 0..queuedSeq']  BY <1>4, <2>1 DEF EnqueueTurns, TypeOK
  <2> QED  BY <1>4, <2>1, <2>2, <2>3, <2>4 DEF TypeOK, runtimeVars, cursorVars
<1>5. ASSUME NEW S \in SUBSET Turn, AcceptMessage(S) PROVE TypeOK'
  <2>1. highSeq + 1 \in 0..highSeq' /\ highSeq' \in highSeq..MaxSeq
    BY <1>5 DEF AcceptMessage, TypeOK
  <2> QED  BY <1>4, <1>5, <2>1 DEF AcceptMessage
<1>6. ASSUME NEW S \in SUBSET Turn, NEW m \in 1..highSeq, AcceptExistingMessage(S, m)
      PROVE  TypeOK'
  <2>1. m \in 0..highSeq' /\ highSeq' \in highSeq..MaxSeq
    BY <1>6 DEF AcceptExistingMessage, TypeOK
  <2> QED  BY <1>4, <1>6, <2>1 DEF AcceptExistingMessage
<1>7. CASE Publish
  BY <1>7 DEF Publish, TypeOK, runtimeVars, turnVars, cursorVars
<1>8. ASSUME NEW m \in 1..highSeq, ReplaceActiveSummary(summary, m) PROVE TypeOK'
  BY <1>8 DEF ReplaceActiveSummary, TypeOK, runtimeVars, turnVars, cursorVars
<1>9. ASSUME NEW t \in Turn, NEW x \in Attempt, NEW c \in 0..highSeq, NEW s \in {0, summary},
             ClaimNextQueuedTurn(t, x, c, s)
      PROVE  TypeOK'
  <2>1. c \in Nat /\ s \in Nat  BY DEF TypeOK
  <2>2. attempts' \in [Attempt -> AttemptRow]
    BY <1>9, <2>1 DEF ClaimNextQueuedTurn, TypeOK, AttemptRow
  <2>3. status' \in [Turn -> TurnStatus]
    BY <1>9 DEF ClaimNextQueuedTurn, TypeOK, TurnStatus, ActiveStatus
  <2> QED  BY <1>9, <2>2, <2>3 DEF ClaimNextQueuedTurn, TypeOK, runtimeVars, roomVars, cursorVars
<1>10. ASSUME NEW x \in Attempt, MarkPromptInvoked(x) PROVE TypeOK'
  <2>1. attempts' \in [Attempt -> AttemptRow]
    BY <1>10 DEF MarkPromptInvoked, TypeOK, AttemptRow
  <2> QED  BY <1>10, <2>1 DEF MarkPromptInvoked, TypeOK, runtimeVars, roomVars, turnVars, cursorVars
<1>11. ASSUME NEW x \in Attempt, MarkAttemptRunning(x) PROVE TypeOK'
  <2>0. attempts' = [attempts EXCEPT ![x].phase = "native_started",
                                     ![x].certainty = "delivered", ![x].started = TRUE]
    BY <1>11 DEF MarkAttemptRunning
  <2>1. attempts' \in [Attempt -> AttemptRow]
    <3>1. attempts[x] \in AttemptRow  BY DEF TypeOK
    <3>2. [attempts[x] EXCEPT !.phase = "native_started", !.certainty = "delivered",
                              !.started = TRUE] \in AttemptRow
      BY <3>1 DEF AttemptRow
    <3>3. attempts' = [attempts EXCEPT ![x] =
            [attempts[x] EXCEPT !.phase = "native_started", !.certainty = "delivered",
                                !.started = TRUE]]
      BY <2>0
    <3> QED  BY <3>2, <3>3 DEF TypeOK
  <2>2. status' \in [Turn -> TurnStatus]
    BY <1>11 DEF MarkAttemptRunning, TypeOK, TurnStatus, ActiveStatus
  <2>3. cursor' \in [Actor -> Nat] /\ cursorSummary' \in [Actor -> Nat]
    BY <1>11, CursorStepType DEF MarkAttemptRunning, Open
  <2> QED  BY <1>11, <2>1, <2>2, <2>3 DEF MarkAttemptRunning, TypeOK, runtimeVars, roomVars
<1>12. ASSUME NEW t \in Turn, RequestTurnCancellation(t) PROVE TypeOK'
  BY <1>12 DEF RequestTurnCancellation, TypeOK, TurnStatus, ActiveStatus,
               runtimeVars, roomVars, cursorVars
<1>13. ASSUME NEW t \in Turn, NEW o \in {"cancelled", "failed"}, EndQueuedTurn(t, o)
       PROVE  TypeOK'
  BY <1>13 DEF EndQueuedTurn, TypeOK, TurnStatus, TerminalStatus,
               runtimeVars, roomVars, cursorVars
<1>14. ASSUME NEW x \in Attempt, NEW o \in TerminalStatus, TerminalizeTurn(x, o)
       PROVE  TypeOK'
  <2>1. attempts' \in [Attempt -> AttemptRow]
    BY <1>14 DEF TerminalizeTurn, TypeOK, AttemptRow
  <2>2. status' \in [Turn -> TurnStatus]
    BY <1>14 DEF TerminalizeTurn, TypeOK, TurnStatus
  <2>3. highSeq' \in highSeq..MaxSeq  BY <1>14 DEF TerminalizeTurn, TypeOK
  <2>4. sourceSeq' \in [Turn -> 0..highSeq'] /\ summary' \in 0..highSeq'
    BY <1>14, <2>3 DEF TerminalizeTurn, TypeOK
  <2> QED  BY <1>14, <2>1, <2>2, <2>3, <2>4 DEF TerminalizeTurn, TypeOK, runtimeVars, cursorVars
<1>15. CASE UNCHANGED vars
  BY <1>15 DEF TypeOK, vars, runtimeVars, roomVars, turnVars, cursorVars
<1> QED
  BY <1>1, <1>2, <1>3, <1>5, <1>6, <1>7, <1>8, <1>9, <1>10, <1>11, <1>12, <1>13, <1>14, <1>15
  DEF Next, Dispatch

----------------------------------------------------------------------------
(* The inductive invariant *)

\* A message is accepted with its Turns: attempts and cursors stay as they are.
Accepting ==
    \E S \in SUBSET Turn, m \in {highSeq'} \cup 1..highSeq :
        EnqueueTurns(S, m) /\ UNCHANGED <<attempts, cursor, cursorSummary>>

\* What a step can be, as far as Turns, attempts and cursors can tell.
LEMMA StepCases ==
    ASSUME [Next]_vars
    PROVE  \/ UNCHANGED <<status, enqueueSeq, attempts, cursor, cursorSummary>>
           \/ Accepting
           \/ \E t \in Turn, x \in Attempt, c \in 0..highSeq, s \in {0, summary} :
                 ClaimNextQueuedTurn(t, x, c, s)
           \/ \E x \in Attempt : MarkPromptInvoked(x)
           \/ \E x \in Attempt : MarkAttemptRunning(x)
           \/ \E t \in Turn : RequestTurnCancellation(t)
           \/ \E t \in Turn, o \in {"cancelled", "failed"} : EndQueuedTurn(t, o)
           \/ \E x \in Attempt, o \in TerminalStatus : TerminalizeTurn(x, o)
           \/ RecoverAfterRestart
<1>1. ASSUME NEW S \in SUBSET Turn, AcceptMessage(S)
      PROVE  EnqueueTurns(S, highSeq') /\ UNCHANGED <<attempts, cursor, cursorSummary>>
  BY <1>1 DEF AcceptMessage, cursorVars
<1>2. ASSUME NEW S \in SUBSET Turn, NEW m \in 1..highSeq, AcceptExistingMessage(S, m)
      PROVE  EnqueueTurns(S, m) /\ UNCHANGED <<attempts, cursor, cursorSummary>>
  BY <1>2 DEF AcceptExistingMessage, cursorVars
<1>3. ASSUME \/ Stop \/ Start \/ Publish \/ UNCHANGED vars
             \/ \E a \in Actor : OpenSession(a) \/ CloseSession(a)
             \/ \E m \in 1..highSeq : ReplaceActiveSummary(summary, m)
      PROVE  UNCHANGED <<status, enqueueSeq, attempts, cursor, cursorSummary>>
  BY <1>3 DEF Stop, Start, OpenSession, CloseSession, Publish, ReplaceActiveSummary,
     vars, turnVars, cursorVars
<1> QED  BY <1>1, <1>2, <1>3 DEF Next, Dispatch, Accepting

LEMMA AgreeStep ==
    ASSUME StoreInvariant, [Next]_vars PROVE AttemptsAgree'
<1> USE StoreAssumption DEF StoreInvariant
<1> TypeOK'  BY TypeStep
<1> SUFFICES ASSUME NEW y \in Attempt PROVE AttemptAgrees(y)'
  BY DEF AttemptsAgree
<1>0. /\ AttemptAgrees(y)
      /\ attempts[y] \in AttemptRow
  BY DEF AttemptsAgree, TypeOK
<1>1. CASE UNCHANGED <<status, enqueueSeq, attempts, cursor, cursorSummary>>
  BY <1>0, <1>1 DEF AttemptAgrees, Open
<1>2. ASSUME NEW S \in SUBSET Turn, NEW m, EnqueueTurns(S, m), UNCHANGED attempts
      PROVE  AttemptAgrees(y)'
  <2>1. attempts[y].turn \in Turn => status'[attempts[y].turn] = status[attempts[y].turn]
    BY <1>0, <1>2 DEF EnqueueTurns, AttemptAgrees
  <2> QED  BY <1>0, <1>2, <2>1 DEF AttemptAgrees, Open, AttemptRow, NoAttempt
<1>3. ASSUME NEW t \in Turn, NEW x \in Attempt, NEW c \in 0..highSeq, NEW s \in {0, summary},
             ClaimNextQueuedTurn(t, x, c, s)
      PROVE  AttemptAgrees(y)'
  <2>1. status'[t] = "dispatching"  BY <1>3 DEF ClaimNextQueuedTurn, TypeOK
  <2>2. CASE y = x
    <3>1. attempts'[x] = [turn |-> t, phase |-> "prepared", certainty |-> "not_delivered",
                          context |-> c, summary |-> s, prompted |-> FALSE, started |-> FALSE]
      BY <1>3 DEF ClaimNextQueuedTurn, TypeOK
    <3>2. s <= c /\ t # NoTurn  BY <1>3 DEF ClaimNextQueuedTurn, ValidContext
    <3>3. /\ attempts'[x].turn = t /\ attempts'[x].phase = "prepared"
          /\ attempts'[x].certainty = "not_delivered"
          /\ attempts'[x].context = c /\ attempts'[x].summary = s
          /\ ~attempts'[x].prompted /\ ~attempts'[x].started
      BY <3>1
    <3> QED  BY <2>1, <2>2, <3>2, <3>3 DEF AttemptAgrees, Open, ActiveStatus
  <2>3. CASE y # x
    <3>1. attempts'[y] = attempts[y]  BY <1>3, <2>3 DEF ClaimNextQueuedTurn, TypeOK
    <3>2. status[t] = "queued"  BY <1>3 DEF ClaimNextQueuedTurn, LaneHead
    <3> QED  BY <1>0, <1>3, <3>1, <3>2 DEF ClaimNextQueuedTurn, AttemptAgrees, Open, TypeOK,
       AttemptRow, ActiveStatus, TerminalStatus
  <2> QED  BY <2>2, <2>3
<1>4. ASSUME NEW x \in Attempt, MarkPromptInvoked(x) PROVE AttemptAgrees(y)'
  <2>1. CASE y = x
    <3>1. attempts'[x] = [attempts[x] EXCEPT !.phase = "prompt_invoked",
                                             !.certainty = "unknown", !.prompted = TRUE]
      BY <1>4 DEF MarkPromptInvoked, TypeOK
    <3>2. /\ attempts'[x].turn = attempts[x].turn /\ attempts'[x].phase = "prompt_invoked"
          /\ attempts'[x].certainty = "unknown" /\ attempts'[x].prompted
          /\ attempts'[x].context = attempts[x].context
          /\ attempts'[x].summary = attempts[x].summary
          /\ attempts'[x].started = attempts[x].started
      BY <1>0, <2>1, <3>1 DEF AttemptRow
    <3>3. Open(x) /\ attempts[x].phase = "prepared" /\ status[attempts[x].turn] = "dispatching"
          /\ status' = status
      BY <1>4 DEF MarkPromptInvoked, turnVars
    <3> QED  BY <1>0, <2>1, <3>2, <3>3 DEF AttemptAgrees, Open, ActiveStatus
  <2>2. CASE y # x
    BY <1>0, <1>4, <2>2 DEF MarkPromptInvoked, turnVars, AttemptAgrees, Open, TypeOK
  <2> QED  BY <2>1, <2>2
<1>5. ASSUME NEW x \in Attempt, MarkAttemptRunning(x) PROVE AttemptAgrees(y)'
  <2> DEFINE t == attempts[x].turn
  <2>1. /\ Open(x) /\ t \in Turn /\ attempts[x] \in AttemptRow
        /\ status[t] \in ActiveStatus /\ attempts[x].phase = "prompt_invoked"
    BY <1>5 DEF MarkAttemptRunning, Open, TypeOK, AttemptRow
  <2>2. /\ status'[t] \in ActiveStatus /\ status'[t] # "absent"
        /\ \A u \in Turn \ {t} : status'[u] = status[u]
    BY <1>5, <2>1 DEF MarkAttemptRunning, TypeOK, ActiveStatus
  <2>3. CASE y = x
    <3>1. attempts' = [attempts EXCEPT ![x].phase = "native_started",
                                       ![x].certainty = "delivered", ![x].started = TRUE]
      BY <1>5 DEF MarkAttemptRunning
    <3>2. attempts'[x] = [attempts[x] EXCEPT !.phase = "native_started",
                                             !.certainty = "delivered", !.started = TRUE]
      BY <3>1 DEF TypeOK
    <3>3. /\ attempts'[x].turn = t /\ attempts'[x].phase = "native_started"
          /\ attempts'[x].certainty = "delivered" /\ attempts'[x].started
          /\ attempts'[x].prompted = attempts[x].prompted
          /\ attempts'[x].context = attempts[x].context
          /\ attempts'[x].summary = attempts[x].summary
      BY <2>1, <3>2 DEF AttemptRow
    <3> QED  BY <1>0, <2>1, <2>2, <2>3, <3>3, NoTurn \notin Turn DEF AttemptAgrees, Open
  <2>4. CASE y # x
    <3>1. attempts'[y] = attempts[y]  BY <1>5, <2>4 DEF MarkAttemptRunning, TypeOK
    <3>2. ~(Open(y) /\ attempts[y].turn = t)
      BY <2>1, <2>4 DEF OpenAttemptIsTheActiveTurns, OpenAttempts
    <3>3. CASE attempts[y].turn = t
      <4>1. ~Open(y) /\ ~attempts[y].prompted
        BY <1>0, <2>1, <3>2, <3>3 DEF AttemptAgrees, ActiveStatus, TerminalStatus
      <4> QED  BY <1>0, <2>1, <2>2, <3>1, <3>3, <4>1 DEF AttemptAgrees, Open
    <3>4. CASE attempts[y].turn # t
      BY <1>0, <2>1, <2>2, <3>1, <3>4 DEF AttemptAgrees, Open, AttemptRow, NoAttempt
    <3> QED  BY <3>3, <3>4
  <2> QED  BY <2>3, <2>4
<1>6. ASSUME NEW t \in Turn, RequestTurnCancellation(t) PROVE AttemptAgrees(y)'
  BY <1>0, <1>6 DEF RequestTurnCancellation, AttemptAgrees, Open, TypeOK, AttemptRow,
     ActiveStatus, TerminalStatus
<1>7. ASSUME NEW t \in Turn, NEW o \in {"cancelled", "failed"}, EndQueuedTurn(t, o)
      PROVE  AttemptAgrees(y)'
  BY <1>0, <1>7 DEF EndQueuedTurn, AttemptAgrees, Open, TypeOK, AttemptRow,
     ActiveStatus, TerminalStatus
<1>8. ASSUME NEW x \in Attempt, NEW o \in TerminalStatus, TerminalizeTurn(x, o)
      PROVE  AttemptAgrees(y)'
  <2>1. Open(x) /\ attempts[x].turn \in Turn /\ attempts[x] \in AttemptRow
    BY <1>8 DEF TerminalizeTurn, CanTerminalize, Open, TypeOK, AttemptRow
  <2>2. status' = [status EXCEPT ![attempts[x].turn] = o]  BY <1>8 DEF TerminalizeTurn
  <2>3. CASE y = x
    <3>1. attempts'[x] = [attempts[x] EXCEPT !.phase = "terminal"]
      BY <1>8 DEF TerminalizeTurn, TypeOK
    <3> QED  BY <1>0, <2>1, <2>2, <2>3, <3>1
             DEF AttemptAgrees, Open, TypeOK, AttemptRow, TerminalStatus, ActiveStatus
  <2>4. CASE y # x
    <3>1. attempts'[y] = attempts[y]  BY <1>8, <2>4 DEF TerminalizeTurn, TypeOK
    <3>2. ~(Open(y) /\ attempts[y].turn = attempts[x].turn)
      BY <2>1, <2>4 DEF OpenAttemptIsTheActiveTurns, OpenAttempts
    <3> QED  BY <1>0, <2>1, <2>2, <3>1, <3>2
             DEF AttemptAgrees, Open, TypeOK, AttemptRow, TerminalStatus, ActiveStatus
  <2> QED  BY <2>3, <2>4
<1>9. CASE RecoverAfterRestart
  <2> DEFINE t == attempts[y].turn
  <2>1. CASE ~Open(y)
    <3>1. attempts'[y] = attempts[y]  BY <1>9, <2>1 DEF RecoverAfterRestart
    <3>2. CASE t = NoTurn  BY <1>0, <3>1, <3>2 DEF AttemptAgrees, Open, NoAttempt
    <3>3. CASE t \in Turn
      <4>1. /\ status[t] \in TerminalStatus => status'[t] = status[t]
            /\ status[t] # "absent" => status'[t] # "absent"
        BY <1>9, <3>3 DEF RecoverAfterRestart, TerminalStatus, ActiveStatus
      <4> QED  BY <1>0, <2>1, <3>1, <3>3, <4>1 DEF AttemptAgrees, Open
    <3> QED  BY <1>0, <3>2, <3>3 DEF AttemptRow
  <2>2. CASE Open(y)
    <3>1. t \in Turn /\ status[t] \in ActiveStatus
      BY <1>0, <2>2 DEF AttemptAgrees, Open, AttemptRow
    <3>2. SafeToRequeue(t) => attempts[y].phase = "prepared"
      BY <2>2, <3>1 DEF SafeToRequeue, OpenAttempts, OpenAttemptIsTheActiveTurns
    <3>3. status'[t] = IF SafeToRequeue(t) THEN "queued" ELSE "interrupted"
      BY <1>9, <3>1 DEF RecoverAfterRestart
    <3>4. attempts'[y] = IF SafeToRequeue(t) THEN [attempts[y] EXCEPT !.phase = "terminal"]
                         ELSE [attempts[y] EXCEPT !.phase = "terminal", !.certainty = "unknown"]
      BY <1>9, <2>2, <3>1 DEF RecoverAfterRestart
    <3> QED  BY <1>0, <2>2, <3>1, <3>2, <3>3, <3>4
             DEF AttemptAgrees, Open, AttemptRow, TerminalStatus
  <2> QED  BY <2>1, <2>2
<1> QED  BY StepCases, <1>1, <1>2, <1>3, <1>4, <1>5, <1>6, <1>7, <1>8, <1>9 DEF Accepting

\* Only a claim makes a Turn active, and it needs a free lane.
LEMMA OneActiveStep ==
    ASSUME StoreInvariant, [Next]_vars PROVE OneActiveTurnPerActor'
<1> USE StoreAssumption DEF StoreInvariant
<1>1. CASE UNCHANGED <<status, enqueueSeq, attempts, cursor, cursorSummary>>
  BY <1>1 DEF OneActiveTurnPerActor
<1>2. ASSUME NEW S \in SUBSET Turn, NEW m, EnqueueTurns(S, m) PROVE OneActiveTurnPerActor'
  BY <1>2 DEF EnqueueTurns, OneActiveTurnPerActor, ActiveStatus
<1>3. ASSUME NEW t \in Turn, NEW x \in Attempt, NEW c, NEW s, ClaimNextQueuedTurn(t, x, c, s)
      PROVE  OneActiveTurnPerActor'
  BY <1>3 DEF ClaimNextQueuedTurn, LaneFree, TurnsOf, TypeOK, OneActiveTurnPerActor
<1>4. ASSUME NEW x \in Attempt, MarkPromptInvoked(x) PROVE OneActiveTurnPerActor'
  BY <1>4 DEF MarkPromptInvoked, turnVars, OneActiveTurnPerActor
<1>5. ASSUME NEW x \in Attempt, MarkAttemptRunning(x) PROVE OneActiveTurnPerActor'
  BY <1>5 DEF MarkAttemptRunning, TypeOK, OneActiveTurnPerActor
<1>6. ASSUME NEW t \in Turn, RequestTurnCancellation(t) PROVE OneActiveTurnPerActor'
  BY <1>6 DEF RequestTurnCancellation, TypeOK, OneActiveTurnPerActor, ActiveStatus
<1>7. ASSUME NEW t \in Turn, NEW o \in {"cancelled", "failed"}, EndQueuedTurn(t, o)
      PROVE  OneActiveTurnPerActor'
  BY <1>7 DEF EndQueuedTurn, TypeOK, OneActiveTurnPerActor, ActiveStatus
<1>8. ASSUME NEW x \in Attempt, NEW o \in TerminalStatus, TerminalizeTurn(x, o)
      PROVE  OneActiveTurnPerActor'
  BY <1>8 DEF TerminalizeTurn, TypeOK, OneActiveTurnPerActor, ActiveStatus, TerminalStatus
<1>9. CASE RecoverAfterRestart
  BY <1>9 DEF RecoverAfterRestart, OneActiveTurnPerActor, ActiveStatus
<1> QED  BY StepCases, <1>1, <1>2, <1>3, <1>4, <1>5, <1>6, <1>7, <1>8, <1>9 DEF Accepting

\* Turns become active together with an open attempt and inactive together with it.
LEMMA OpenAttemptStep ==
    ASSUME StoreInvariant, [Next]_vars PROVE OpenAttemptIsTheActiveTurns'
<1> USE StoreAssumption DEF StoreInvariant
<1> SUFFICES ASSUME NEW u \in Turn
             PROVE  /\ status'[u] \in ActiveStatus <=> OpenAttempts(u)' # {}
                    /\ \A y, z \in OpenAttempts(u)' : y = z
  BY DEF OpenAttemptIsTheActiveTurns
<1>0. /\ status[u] \in ActiveStatus <=> OpenAttempts(u) # {}
      /\ \A y, z \in OpenAttempts(u) : y = z
  BY DEF OpenAttemptIsTheActiveTurns
<1>a. ASSUME OpenAttempts(u)' = OpenAttempts(u),
             status'[u] \in ActiveStatus <=> status[u] \in ActiveStatus
      PROVE  /\ status'[u] \in ActiveStatus <=> OpenAttempts(u)' # {}
             /\ \A y, z \in OpenAttempts(u)' : y = z
  BY <1>0, <1>a
<1>1. CASE UNCHANGED <<status, enqueueSeq, attempts, cursor, cursorSummary>>
  BY <1>0, <1>1 DEF OpenAttempts, Open
<1>2. ASSUME NEW S \in SUBSET Turn, NEW m, EnqueueTurns(S, m), UNCHANGED attempts
      PROVE  /\ status'[u] \in ActiveStatus <=> OpenAttempts(u)' # {}
             /\ \A y, z \in OpenAttempts(u)' : y = z
  BY <1>a, <1>2 DEF EnqueueTurns, ActiveStatus, OpenAttempts, Open
<1>3. ASSUME NEW t \in Turn, NEW x \in Attempt, NEW c, NEW s, ClaimNextQueuedTurn(t, x, c, s)
      PROVE  /\ status'[u] \in ActiveStatus <=> OpenAttempts(u)' # {}
             /\ \A y, z \in OpenAttempts(u)' : y = z
  <2>1. /\ status[t] = "queued" /\ attempts[x].turn = NoTurn
        /\ status' = [status EXCEPT ![t] = "dispatching"]
    BY <1>3 DEF ClaimNextQueuedTurn, LaneHead
  <2>2. /\ attempts'[x].turn = t /\ attempts'[x].phase = "prepared"
        /\ \A y \in Attempt \ {x} : attempts'[y] = attempts[y]
    BY <1>3 DEF ClaimNextQueuedTurn, TypeOK
  <2>3. CASE u = t
    <3>1. OpenAttempts(u) = {}  BY <1>0, <2>1, <2>3 DEF ActiveStatus
    <3>2. OpenAttempts(u)' = {x}
      BY <2>2, <2>3, <3>1, NoTurn \notin Turn DEF OpenAttempts, Open
    <3>3. status'[u] \in ActiveStatus  BY <2>1, <2>3 DEF ActiveStatus, TypeOK
    <3> QED  BY <3>2, <3>3
  <2>4. CASE u # t
    <3>1. OpenAttempts(u)' = OpenAttempts(u)
      BY <2>1, <2>2, <2>4 DEF OpenAttempts, Open
    <3> QED  BY <1>a, <2>1, <2>4, <3>1 DEF TypeOK
  <2> QED  BY <2>3, <2>4
<1>4. ASSUME NEW x \in Attempt, MarkPromptInvoked(x)
      PROVE  /\ status'[u] \in ActiveStatus <=> OpenAttempts(u)' # {}
             /\ \A y, z \in OpenAttempts(u)' : y = z
  <2>1. \A y \in Attempt : attempts'[y].turn = attempts[y].turn /\ (Open(y)' <=> Open(y))
    BY <1>4 DEF MarkPromptInvoked, Open, TypeOK, AttemptRow
  <2> QED  BY <1>a, <1>4, <2>1 DEF MarkPromptInvoked, turnVars, OpenAttempts
<1>5. ASSUME NEW x \in Attempt, MarkAttemptRunning(x)
      PROVE  /\ status'[u] \in ActiveStatus <=> OpenAttempts(u)' # {}
             /\ \A y, z \in OpenAttempts(u)' : y = z
  <2>1. \A y \in Attempt : attempts'[y].turn = attempts[y].turn /\ (Open(y)' <=> Open(y))
    BY <1>5 DEF MarkAttemptRunning, Open, TypeOK, AttemptRow
  <2>2. status'[u] \in ActiveStatus <=> status[u] \in ActiveStatus
    BY <1>5 DEF MarkAttemptRunning, TypeOK, ActiveStatus
  <2> QED  BY <1>a, <2>1, <2>2 DEF OpenAttempts
<1>6. ASSUME NEW t \in Turn, RequestTurnCancellation(t)
      PROVE  /\ status'[u] \in ActiveStatus <=> OpenAttempts(u)' # {}
             /\ \A y, z \in OpenAttempts(u)' : y = z
  BY <1>a, <1>6 DEF RequestTurnCancellation, TypeOK, ActiveStatus, OpenAttempts, Open
<1>7. ASSUME NEW t \in Turn, NEW o \in {"cancelled", "failed"}, EndQueuedTurn(t, o)
      PROVE  /\ status'[u] \in ActiveStatus <=> OpenAttempts(u)' # {}
             /\ \A y, z \in OpenAttempts(u)' : y = z
  BY <1>a, <1>7 DEF EndQueuedTurn, TypeOK, ActiveStatus, OpenAttempts, Open
<1>8. ASSUME NEW x \in Attempt, NEW o \in TerminalStatus, TerminalizeTurn(x, o)
      PROVE  /\ status'[u] \in ActiveStatus <=> OpenAttempts(u)' # {}
             /\ \A y, z \in OpenAttempts(u)' : y = z
  <2> DEFINE t == attempts[x].turn
  <2>1. /\ Open(x) /\ t \in Turn /\ status' = [status EXCEPT ![t] = o]
        /\ attempts' = [attempts EXCEPT ![x].phase = "terminal"]
    BY <1>8 DEF TerminalizeTurn, CanTerminalize, Open, TypeOK, AttemptRow
  <2>2. /\ ~Open(x)' /\ attempts'[x].turn = t
        /\ \A y \in Attempt \ {x} : attempts'[y] = attempts[y]
    BY <2>1 DEF Open, TypeOK, AttemptRow
  <2>3. CASE u = t
    <3>1. x \in OpenAttempts(u)  BY <2>1, <2>3 DEF OpenAttempts
    <3>2. OpenAttempts(u)' = {}  BY <1>0, <2>2, <3>1 DEF OpenAttempts, Open
    <3>3. status'[u] \notin ActiveStatus
      BY <2>1, <2>3 DEF TypeOK, ActiveStatus, TerminalStatus
    <3> QED  BY <3>2, <3>3
  <2>4. CASE u # t
    <3>1. OpenAttempts(u)' = OpenAttempts(u)  BY <2>2, <2>4 DEF OpenAttempts, Open
    <3> QED  BY <1>a, <2>1, <2>4, <3>1 DEF TypeOK
  <2> QED  BY <2>3, <2>4
<1>9. CASE RecoverAfterRestart
  <2>1. \A y \in Attempt : ~Open(y)'
    <3> TAKE y \in Attempt
    <3>1. CASE Open(y)
      <4>1. attempts'[y].phase = "terminal"
        BY <1>9, <3>1 DEF RecoverAfterRestart, TypeOK, AttemptRow
      <4> QED  BY <4>1 DEF Open
    <3>2. CASE ~Open(y)  BY <1>9, <3>2 DEF RecoverAfterRestart, Open
    <3> QED  BY <3>1, <3>2
  <2>2. status'[u] \notin ActiveStatus  BY <1>9 DEF RecoverAfterRestart, ActiveStatus
  <2> QED  BY <2>1, <2>2 DEF OpenAttempts
<1> QED  BY StepCases, <1>1, <1>2, <1>3, <1>4, <1>5, <1>6, <1>7, <1>8, <1>9 DEF Accepting

\* Apart from a claim, which adds one, attempts keep their Turn and what their
\* packet carried; apart from the two markers, they keep their flags as well.
LEMMA AttemptSteps ==
    ASSUME StoreInvariant, [Next]_vars,
           NEW y \in Attempt,
           ~ \E t \in Turn, c \in 0..highSeq, s \in {0, summary} : ClaimNextQueuedTurn(t, y, c, s)
    PROVE  /\ attempts'[y].turn = attempts[y].turn
           /\ attempts'[y].context = attempts[y].context
           /\ attempts'[y].summary = attempts[y].summary
           /\ MarkPromptInvoked(y) \/ attempts'[y].prompted = attempts[y].prompted
           /\ MarkAttemptRunning(y) \/ attempts'[y].started = attempts[y].started
<1> USE StoreAssumption DEF StoreInvariant
<1>0. attempts \in [Attempt -> AttemptRow] /\ attempts[y] \in AttemptRow  BY DEF TypeOK
<1>1. CASE UNCHANGED attempts  BY <1>1
<1>2. ASSUME NEW t \in Turn, NEW x \in Attempt, NEW c \in 0..highSeq, NEW s \in {0, summary},
             ClaimNextQueuedTurn(t, x, c, s)
      PROVE  attempts'[y] = attempts[y]
  BY <1>0, <1>2 DEF ClaimNextQueuedTurn
<1>3. ASSUME NEW x \in Attempt, MarkPromptInvoked(x)
      PROVE  \/ attempts'[y] = attempts[y]
             \/ /\ x = y
                /\ attempts'[y] = [attempts[y] EXCEPT !.phase = "prompt_invoked",
                                     !.certainty = "unknown", !.prompted = TRUE]
  BY <1>0, <1>3 DEF MarkPromptInvoked
<1>4. ASSUME NEW x \in Attempt, MarkAttemptRunning(x)
      PROVE  \/ attempts'[y] = attempts[y]
             \/ /\ x = y
                /\ attempts'[y] = [attempts[y] EXCEPT !.phase = "native_started",
                                     !.certainty = "delivered", !.started = TRUE]
  <2>1. attempts' = [attempts EXCEPT ![x].phase = "native_started",
                                     ![x].certainty = "delivered", ![x].started = TRUE]
    BY <1>4 DEF MarkAttemptRunning
  <2> QED  BY <1>0, <2>1
<1>5. ASSUME NEW x \in Attempt, NEW o \in TerminalStatus, TerminalizeTurn(x, o)
      PROVE  \/ attempts'[y] = attempts[y]
             \/ attempts'[y] = [attempts[y] EXCEPT !.phase = "terminal"]
  BY <1>0, <1>5 DEF TerminalizeTurn
<1>6. ASSUME RecoverAfterRestart
      PROVE  \/ attempts'[y] = attempts[y]
             \/ attempts'[y] = [attempts[y] EXCEPT !.phase = "terminal"]
             \/ attempts'[y] = [attempts[y] EXCEPT !.phase = "terminal", !.certainty = "unknown"]
  BY <1>0, <1>6 DEF RecoverAfterRestart
<1>7. ASSUME NEW t \in Turn, RequestTurnCancellation(t) \/ \E o \in {"cancelled", "failed"} :
                                                            EndQueuedTurn(t, o)
      PROVE  UNCHANGED attempts
  BY <1>7 DEF RequestTurnCancellation, EndQueuedTurn
<1>8. \/ attempts'[y] = attempts[y]
      \/ /\ MarkPromptInvoked(y)
         /\ attempts'[y] = [attempts[y] EXCEPT !.phase = "prompt_invoked",
                              !.certainty = "unknown", !.prompted = TRUE]
      \/ /\ MarkAttemptRunning(y)
         /\ attempts'[y] = [attempts[y] EXCEPT !.phase = "native_started",
                              !.certainty = "delivered", !.started = TRUE]
      \/ attempts'[y] = [attempts[y] EXCEPT !.phase = "terminal"]
      \/ attempts'[y] = [attempts[y] EXCEPT !.phase = "terminal", !.certainty = "unknown"]
  BY StepCases, <1>1, <1>2, <1>3, <1>4, <1>5, <1>6, <1>7 DEF Accepting
<1> QED  BY <1>0, <1>8 DEF AttemptRow

\* A prompt is invoked on the open attempt of a Turn that has none invoked.
LEMMA PromptOnceStep ==
    ASSUME StoreInvariant, [Next]_vars PROVE PromptAtMostOnce'
<1> USE StoreAssumption DEF StoreInvariant
<1>1. SUFFICES ASSUME NEW x \in Attempt, NEW y \in Attempt,
                      attempts'[x].prompted, attempts'[y].prompted,
                      attempts'[x].turn = attempts'[y].turn
               PROVE  x = y
  BY DEF PromptAtMostOnce
<1>2. ASSUME NEW z \in Attempt, attempts'[z].prompted
      PROVE  /\ attempts'[z].turn = attempts[z].turn
             /\ MarkPromptInvoked(z) \/ attempts[z].prompted
  <2>1. ASSUME NEW t \in Turn, NEW c \in 0..highSeq, NEW s \in {0, summary},
               ClaimNextQueuedTurn(t, z, c, s)
        PROVE  FALSE
    <3>1. ~attempts'[z].prompted  BY <2>1 DEF ClaimNextQueuedTurn, TypeOK
    <3> QED  BY <1>2, <3>1
  <2> QED  BY <1>2, <2>1, AttemptSteps
<1>3. ASSUME NEW z \in Attempt, NEW w \in Attempt, MarkPromptInvoked(z), attempts[w].prompted,
             attempts[z].turn = attempts[w].turn
      PROVE  FALSE
  <2>1. /\ Open(z) /\ attempts[z].phase = "prepared" /\ attempts[z].turn \in Turn
        /\ status[attempts[z].turn] = "dispatching"
    BY <1>3 DEF MarkPromptInvoked, Open, TypeOK, AttemptRow
  <2>2. Open(w)  BY <1>3, <2>1 DEF AttemptsAgree, AttemptAgrees, TerminalStatus
  <2>3. z = w  BY <1>3, <2>1, <2>2 DEF OpenAttemptIsTheActiveTurns, OpenAttempts
  <2> QED  BY <1>3, <2>1, <2>3 DEF AttemptsAgree, AttemptAgrees
<1>4. ASSUME NEW z \in Attempt, NEW w \in Attempt, MarkPromptInvoked(z), MarkPromptInvoked(w)
      PROVE  z = w
  <2>1. attempts'[z].phase = "prompt_invoked" /\ attempts[w].phase = "prepared"
    BY <1>4 DEF MarkPromptInvoked, TypeOK, AttemptRow
  <2>2. w # z => attempts'[z] = attempts[z]  BY <1>4 DEF MarkPromptInvoked, TypeOK
  <2>3. attempts[z].phase = "prepared"  BY <1>4 DEF MarkPromptInvoked
  <2> QED  BY <2>1, <2>2, <2>3
<1>5. CASE attempts[x].prompted /\ attempts[y].prompted
  BY <1>1, <1>2, <1>5 DEF PromptAtMostOnce
<1> QED  BY <1>1, <1>2, <1>3, <1>4, <1>5

\* A Turn that is over stays as it ended, and only accepting a message creates one.
LEMMA StatusSteps ==
    ASSUME StoreInvariant, [Next]_vars, NEW t \in Turn
    PROVE  /\ status[t] \in TerminalStatus => status'[t] = status[t]
           /\ \/ Accepting
              \/ /\ status[t] = "absent" => status'[t] = "absent"
                 /\ enqueueSeq' = enqueueSeq
<1> USE StoreAssumption DEF StoreInvariant
<1>1. ASSUME NEW S \in SUBSET Turn, NEW m, EnqueueTurns(S, m)
      PROVE  status[t] \in TerminalStatus => status'[t] = status[t]
  BY <1>1 DEF EnqueueTurns, TerminalStatus
<1>2. ASSUME NEW u \in Turn, NEW x \in Attempt, NEW c, NEW s, ClaimNextQueuedTurn(u, x, c, s)
      PROVE  /\ status[t] \in TerminalStatus \cup {"absent"} => status'[t] = status[t]
             /\ enqueueSeq' = enqueueSeq
  BY <1>2 DEF ClaimNextQueuedTurn, LaneHead, TypeOK, TerminalStatus
<1>3. ASSUME NEW x \in Attempt, MarkPromptInvoked(x)
      PROVE  status' = status /\ enqueueSeq' = enqueueSeq
  BY <1>3 DEF MarkPromptInvoked, turnVars
<1>4. ASSUME NEW x \in Attempt, MarkAttemptRunning(x)
      PROVE  /\ status[t] \in TerminalStatus \cup {"absent"} => status'[t] = status[t]
             /\ enqueueSeq' = enqueueSeq
  BY <1>4 DEF MarkAttemptRunning, TypeOK, ActiveStatus, TerminalStatus
<1>5. ASSUME NEW u \in Turn, RequestTurnCancellation(u)
      PROVE  /\ status[t] \in TerminalStatus \cup {"absent"} => status'[t] = status[t]
             /\ enqueueSeq' = enqueueSeq
  BY <1>5 DEF RequestTurnCancellation, TypeOK, TerminalStatus
<1>6. ASSUME NEW u \in Turn, NEW o \in {"cancelled", "failed"}, EndQueuedTurn(u, o)
      PROVE  /\ status[t] \in TerminalStatus \cup {"absent"} => status'[t] = status[t]
             /\ enqueueSeq' = enqueueSeq
  BY <1>6 DEF EndQueuedTurn, TypeOK, TerminalStatus
<1>7. ASSUME NEW x \in Attempt, NEW o \in TerminalStatus, TerminalizeTurn(x, o)
      PROVE  /\ status[t] \in TerminalStatus \cup {"absent"} => status'[t] = status[t]
             /\ enqueueSeq' = enqueueSeq
  BY <1>7 DEF TerminalizeTurn, CanTerminalize, TypeOK, ActiveStatus, TerminalStatus
<1>8. ASSUME RecoverAfterRestart
      PROVE  /\ status[t] \in TerminalStatus \cup {"absent"} => status'[t] = status[t]
             /\ enqueueSeq' = enqueueSeq
  BY <1>8 DEF RecoverAfterRestart, ActiveStatus, TerminalStatus
<1>9. CASE UNCHANGED <<status, enqueueSeq, attempts, cursor, cursorSummary>>  BY <1>9
<1> QED  BY StepCases, <1>1, <1>2, <1>3, <1>4, <1>5, <1>6, <1>7, <1>8, <1>9 DEF Accepting

\* A claim takes the head of a free lane, and numbers only grow.
LEMMA FifoStep ==
    ASSUME StoreInvariant, [Next]_vars PROVE FifoPerActor'
<1> USE StoreAssumption DEF StoreInvariant
<1>1. SUFFICES ASSUME NEW t \in Turn, NEW u \in Turn, NEW x \in Attempt,
                      TargetOf[t] = TargetOf[u], status'[t] # "absent",
                      attempts'[x].turn = u, enqueueSeq'[t] < enqueueSeq'[u]
               PROVE  status'[t] \in TerminalStatus
  BY DEF FifoPerActor
<1>2. /\ enqueueSeq[t] \in Nat /\ enqueueSeq[u] \in Nat /\ queuedSeq \in Nat
      /\ enqueueSeq[t] <= queuedSeq /\ enqueueSeq[u] <= queuedSeq
      /\ status[t] \in TurnStatus
  BY DEF TypeOK
<1>3. CASE Accepting
  <2>1. PICK S \in SUBSET Turn, m \in {highSeq'} \cup 1..highSeq :
               EnqueueTurns(S, m) /\ UNCHANGED attempts
    BY <1>3 DEF Accepting
  <2>2. status[u] # "absent"
    BY <1>1, <2>1, NoTurn \notin Turn DEF AttemptsAgree, AttemptAgrees
  <2>3. u \notin S  BY <2>1, <2>2 DEF EnqueueTurns
  <2>4. t \notin S  BY <1>1, <1>2, <2>1, <2>3 DEF EnqueueTurns
  <2>5. /\ status'[t] = status[t] /\ enqueueSeq'[t] = enqueueSeq[t]
        /\ enqueueSeq'[u] = enqueueSeq[u]
    BY <2>1, <2>3, <2>4 DEF EnqueueTurns
  <2> QED  BY <1>1, <2>1, <2>5 DEF FifoPerActor
<1>4. CASE ~Accepting
  <2>1. status[t] # "absent" /\ enqueueSeq[t] < enqueueSeq[u]
    BY <1>1, <1>4, StatusSteps
  <2>2. CASE \E v \in Turn, c \in 0..highSeq, s \in {0, summary} :
               ClaimNextQueuedTurn(v, x, c, s)
    <3>1. PICK c \in 0..highSeq, s \in {0, summary} : ClaimNextQueuedTurn(u, x, c, s)
      <4>1. PICK v \in Turn, c \in 0..highSeq, s \in {0, summary} :
                   ClaimNextQueuedTurn(v, x, c, s)
        BY <2>2
      <4>2. attempts'[x].turn = v  BY <4>1 DEF ClaimNextQueuedTurn, TypeOK
      <4> QED  BY <1>1, <4>1, <4>2
    <3>2. status[t] # "queued"
      BY <1>1, <1>2, <2>1, <3>1 DEF ClaimNextQueuedTurn, LaneHead, TurnsOf
    <3>3. status[t] \notin ActiveStatus
      BY <1>1, <3>1 DEF ClaimNextQueuedTurn, LaneFree, TurnsOf
    <3>4. status[t] \in TerminalStatus
      BY <1>2, <2>1, <3>2, <3>3 DEF TurnStatus
    <3> QED  BY <3>4, StatusSteps
  <2>3. CASE ~ \E v \in Turn, c \in 0..highSeq, s \in {0, summary} :
                 ClaimNextQueuedTurn(v, x, c, s)
    <3>1. attempts[x].turn = u  BY <1>1, <2>3, AttemptSteps
    <3>2. status[t] \in TerminalStatus  BY <1>1, <2>1, <3>1 DEF FifoPerActor
    <3> QED  BY <3>2, StatusSteps
  <2> QED  BY <2>2, <2>3
<1> QED  BY <1>3, <1>4

\* The cursors move only when a native start is confirmed.
LEMMA CursorSteps ==
    ASSUME StoreInvariant, [Next]_vars
    PROVE  UNCHANGED <<cursor, cursorSummary>> \/ \E x \in Attempt : MarkAttemptRunning(x)
<1> USE DEF StoreInvariant
<1>1. CASE RecoverAfterRestart
  BY <1>1, RecoveryKeepsCursors DEF cursorVars
<1> QED  BY <1>1, StepCases DEF Accepting, ClaimNextQueuedTurn, MarkPromptInvoked,
            RequestTurnCancellation, EndQueuedTurn, TerminalizeTurn, cursorVars

\* Confirming a native start moves its actor's cursors just far enough.
LEMMA CursorAdvance ==
    ASSUME StoreInvariant, NEW x \in Attempt, MarkAttemptRunning(x),
           NEW a \in Actor
    PROVE  LET row == attempts[x] IN
           /\ TargetOf[row.turn] \in Actor
           /\ attempts'[x].started
           /\ attempts'[x].turn = row.turn /\ attempts'[x].context = row.context
           /\ attempts'[x].summary = row.summary
           /\ a # TargetOf[row.turn] =>
                cursor'[a] = cursor[a] /\ cursorSummary'[a] = cursorSummary[a]
           /\ a = TargetOf[row.turn] =>
                /\ cursor'[a] \in {cursor[a], row.context}
                /\ cursor[a] <= cursor'[a] /\ row.context <= cursor'[a]
                /\ cursorSummary'[a] \in {cursorSummary[a], row.summary}
                /\ cursorSummary[a] <= cursorSummary'[a] /\ row.summary <= cursorSummary'[a]
<1> USE StoreAssumption DEF StoreInvariant
<1>1. /\ attempts[x] \in AttemptRow /\ attempts[x].turn \in Turn
      /\ AdvanceDeliveryCursor(attempts[x])
      /\ attempts' = [attempts EXCEPT ![x].phase = "native_started",
                                      ![x].certainty = "delivered", ![x].started = TRUE]
  BY DEF MarkAttemptRunning, Open, TypeOK, AttemptRow
<1> DEFINE b == TargetOf[attempts[x].turn]
<1>2. /\ attempts[x].context \in Nat /\ attempts[x].summary \in Nat
      /\ b \in Actor /\ cursor[b] \in Nat /\ cursorSummary[b] \in Nat
  BY <1>1 DEF AttemptRow, TypeOK
<1>3. attempts'[x] = [attempts[x] EXCEPT !.phase = "native_started",
                                         !.certainty = "delivered", !.started = TRUE]
  BY <1>1 DEF TypeOK
<1>4. /\ attempts'[x].started
      /\ attempts'[x].turn = attempts[x].turn /\ attempts'[x].context = attempts[x].context
      /\ attempts'[x].summary = attempts[x].summary
  <2>1. attempts[x] \in AttemptRow  BY <1>1
  <2> HIDE DEF StoreInvariant
  <2> QED  BY <1>3, <2>1 DEF AttemptRow
<1>5. a # b => cursor'[a] = cursor[a] /\ cursorSummary'[a] = cursorSummary[a]
  BY <1>1 DEF AdvanceDeliveryCursor, TypeOK
<1>6. cursor'[b] = Max({cursor[b], attempts[x].context})
  <2>1. cursor' = [cursor EXCEPT ![b] = Max({cursor[b], attempts[x].context})]
    BY <1>1 DEF AdvanceDeliveryCursor
  <2> QED  BY <1>2, <2>1 DEF TypeOK
<1>7. cursorSummary'[b] = Max({cursorSummary[b], attempts[x].summary})
  <2>1. cursorSummary' = [cursorSummary EXCEPT ![b] =
                            Max({cursorSummary[b], attempts[x].summary})]
    BY <1>1 DEF AdvanceDeliveryCursor
  <2> QED  BY <1>2, <2>1 DEF TypeOK
<1> QED  BY <1>2, <1>4, <1>5, <1>6, <1>7, MaxOfTwo

\* What was started before a step is started after it, with the same packet; what
\* is started only after it is the attempt whose native start is being confirmed.
LEMMA StartedSteps ==
    ASSUME StoreInvariant, [Next]_vars, NEW y \in Attempt
    PROVE  /\ attempts[y].started =>
                /\ attempts'[y].started
                /\ attempts'[y].turn = attempts[y].turn
                /\ attempts'[y].context = attempts[y].context
                /\ attempts'[y].summary = attempts[y].summary
           /\ attempts'[y].started =>
                MarkAttemptRunning(y) \/ attempts[y].started
<1> USE StoreAssumption DEF StoreInvariant
<1>1. ASSUME NEW t \in Turn, NEW c \in 0..highSeq, NEW s \in {0, summary},
             ClaimNextQueuedTurn(t, y, c, s)
      PROVE  ~attempts[y].started /\ ~attempts'[y].started
  <2>1. ~attempts'[y].started  BY <1>1 DEF ClaimNextQueuedTurn, TypeOK
  <2>2. attempts[y] = NoAttempt
    BY <1>1 DEF ClaimNextQueuedTurn, AttemptsAgree, AttemptAgrees
  <2> QED  BY <2>1, <2>2 DEF NoAttempt
<1>2. CASE ~ \E t \in Turn, c \in 0..highSeq, s \in {0, summary} :
               ClaimNextQueuedTurn(t, y, c, s)
  <2>1. MarkAttemptRunning(y) => attempts'[y].started
    <3>1. SUFFICES ASSUME MarkAttemptRunning(y) PROVE attempts'[y].started
      OBVIOUS
    <3>2. TargetOf[attempts[y].turn] \in Actor
      BY <3>1 DEF MarkAttemptRunning, Open, TypeOK, AttemptRow
    <3> QED  BY <3>1, <3>2, CursorAdvance
  <2> QED  BY <1>2, <2>1, AttemptSteps
<1> QED  BY <1>1, <1>2

LEMMA CursorsCoverStep ==
    ASSUME StoreInvariant, [Next]_vars PROVE CursorsCoverAttempts'
<1> USE StoreAssumption DEF StoreInvariant
<1>1. SUFFICES ASSUME NEW y \in Attempt, attempts'[y].started
               PROVE  /\ attempts'[y].context <= cursor'[TargetOf[attempts'[y].turn]]
                      /\ attempts'[y].summary <= cursorSummary'[TargetOf[attempts'[y].turn]]
  BY DEF CursorsCoverAttempts
<1> DEFINE a == TargetOf[attempts[y].turn]
<1>2. CASE MarkAttemptRunning(y)
  <2>1. a \in Actor  BY <1>2 DEF MarkAttemptRunning, Open, TypeOK, AttemptRow
  <2> QED  BY <1>2, <2>1, CursorAdvance
<1>3. CASE attempts[y].started
  <2>1. /\ attempts[y] \in AttemptRow /\ attempts[y] # NoAttempt
        /\ attempts[y].context <= cursor[a] /\ attempts[y].summary <= cursorSummary[a]
    BY <1>3 DEF CursorsCoverAttempts, TypeOK, NoAttempt
  <2>2. a \in Actor /\ attempts[y].context \in Nat /\ attempts[y].summary \in Nat
    BY <2>1 DEF AttemptsAgree, AttemptAgrees, AttemptRow
  <2>3. /\ cursor[a] \in Nat /\ cursorSummary[a] \in Nat
        /\ cursor'[a] \in Nat /\ cursorSummary'[a] \in Nat
    BY <2>2, TypeStep DEF TypeOK
  <2>4. cursor[a] <= cursor'[a] /\ cursorSummary[a] <= cursorSummary'[a]
    BY <2>2, <2>3, CursorSteps, CursorAdvance
  <2>5. /\ attempts'[y].turn = attempts[y].turn
        /\ attempts'[y].context = attempts[y].context
        /\ attempts'[y].summary = attempts[y].summary
    BY <1>3, StartedSteps
  <2> QED  BY <2>1, <2>2, <2>3, <2>4, <2>5
<1> QED  BY <1>1, <1>2, <1>3, StartedSteps

\* The cursor stands where some started attempt put it.
LEMMA CursorStep ==
    ASSUME StoreInvariant, [Next]_vars PROVE CursorIsWhatWasDelivered'
<1> USE StoreAssumption DEF StoreInvariant
<1>1. SUFFICES ASSUME NEW a \in Actor
               PROVE  /\ \A y \in Attempt : attempts'[y].started /\ TargetOf[attempts'[y].turn] = a
                            => attempts'[y].context <= cursor'[a]
                      /\ cursor'[a] # 0 => \E y \in Attempt : /\ attempts'[y].started
                                                           /\ TargetOf[attempts'[y].turn] = a
                                                           /\ attempts'[y].context = cursor'[a]
  BY DEF CursorIsWhatWasDelivered
<1>2. \A y \in Attempt : attempts'[y].started /\ TargetOf[attempts'[y].turn] = a
        => attempts'[y].context <= cursor'[a]
  BY CursorsCoverStep DEF CursorsCoverAttempts
<1>3. ASSUME cursor'[a] # 0, cursor'[a] = cursor[a]
      PROVE  \E y \in Attempt : /\ attempts'[y].started /\ TargetOf[attempts'[y].turn] = a
                                /\ attempts'[y].context = cursor'[a]
  <2>1. PICK y \in Attempt : /\ attempts[y].started /\ TargetOf[attempts[y].turn] = a
                             /\ attempts[y].context = cursor[a]
    BY <1>3 DEF CursorIsWhatWasDelivered
  <2> WITNESS y \in Attempt
  <2> QED  BY <1>3, <2>1, StartedSteps
<1>4. ASSUME cursor'[a] # cursor[a]
      PROVE  \E y \in Attempt : /\ attempts'[y].started /\ TargetOf[attempts'[y].turn] = a
                                /\ attempts'[y].context = cursor'[a]
  <2>1. PICK y \in Attempt : MarkAttemptRunning(y)  BY <1>4, CursorSteps
  <2> WITNESS y \in Attempt
  <2> QED  BY <1>4, <2>1, CursorAdvance
<1> QED  BY <1>2, <1>3, <1>4

LEMMA SummaryStep ==
    ASSUME StoreInvariant, [Next]_vars PROVE SummaryWithinDelivered'
<1> USE DEF StoreInvariant
<1>1. SUFFICES ASSUME NEW a \in Actor PROVE cursorSummary'[a] <= cursor'[a]
  BY DEF SummaryWithinDelivered
<1>2. /\ cursor[a] \in Nat /\ cursorSummary[a] \in Nat /\ cursorSummary[a] <= cursor[a]
      /\ cursor'[a] \in Nat /\ cursorSummary'[a] \in Nat
  BY TypeStep DEF SummaryWithinDelivered, TypeOK
<1>3. ASSUME NEW x \in Attempt, MarkAttemptRunning(x)
      PROVE  cursorSummary'[a] <= cursor'[a]
  <2>1. /\ attempts[x].summary <= attempts[x].context
        /\ attempts[x].summary \in Nat /\ attempts[x].context \in Nat
    BY DEF AttemptsAgree, AttemptAgrees, TypeOK, AttemptRow
  <2> QED  BY <1>2, <1>3, <2>1, CursorAdvance
<1> QED  BY <1>2, <1>3, CursorSteps

----------------------------------------------------------------------------
(* The invariant, and what follows from it *)

LEMMA InvariantInit == Init => StoreInvariant
<1> SUFFICES ASSUME Init PROVE StoreInvariant
  OBVIOUS
<1>1. TypeOK  BY TypeInit
<1>2. AttemptsAgree  BY DEF Init, AttemptsAgree, AttemptAgrees, Open, NoAttempt
<1>3. OneActiveTurnPerActor  BY DEF Init, OneActiveTurnPerActor, ActiveStatus
<1>4. OpenAttemptIsTheActiveTurns
  BY DEF Init, OpenAttemptIsTheActiveTurns, OpenAttempts, Open, NoAttempt, ActiveStatus
<1>5. PromptAtMostOnce  BY DEF Init, PromptAtMostOnce, NoAttempt
<1>6. FifoPerActor  BY DEF Init, FifoPerActor
<1>7. CursorsCoverAttempts  BY DEF Init, CursorsCoverAttempts, NoAttempt
<1>8. CursorIsWhatWasDelivered  BY DEF Init, CursorIsWhatWasDelivered, NoAttempt
<1>9. SummaryWithinDelivered  BY DEF Init, SummaryWithinDelivered
<1> QED  BY <1>1, <1>2, <1>3, <1>4, <1>5, <1>6, <1>7, <1>8, <1>9 DEF StoreInvariant

LEMMA InvariantStep == StoreInvariant /\ [Next]_vars => StoreInvariant'
BY TypeStep, AgreeStep, OneActiveStep, OpenAttemptStep, PromptOnceStep, FifoStep,
   CursorsCoverStep, CursorStep, SummaryStep DEF StoreInvariant

\* The inductive invariant holds in every reachable state of the store.
THEOREM Invariance == Spec => []StoreInvariant
BY InvariantInit, InvariantStep, PTL DEF Spec

\* The store's columns keep their types (schema and column checks).
THEOREM TypeCorrect == Spec => []TypeOK
<1>1. StoreInvariant => TypeOK  BY DEF StoreInvariant
<1> QED  BY <1>1, Invariance, PTL

\* No agent ever has two active Turns (claimNextQueuedTurn).
THEOREM OneActive == Spec => []OneActiveTurnPerActor
<1>1. StoreInvariant => OneActiveTurnPerActor  BY DEF StoreInvariant
<1> QED  BY <1>1, Invariance, PTL

\* No Turn is prompted in two of its attempts (markPromptInvoked, recoverAfterRestart).
THEOREM PromptOnce == Spec => []PromptAtMostOnce
<1>1. StoreInvariant => PromptAtMostOnce  BY DEF StoreInvariant
<1> QED  BY <1>1, Invariance, PTL

\* A claimed Turn has overtaken nobody (enqueue_seq, recoverAfterRestart).
THEOREM Fifo == Spec => []FifoPerActor
<1>1. StoreInvariant => FifoPerActor  BY DEF StoreInvariant
<1> QED  BY <1>1, Invariance, PTL

\* Active Turns and open attempts go together (terminalizeTurn, recoverAfterRestart).
THEOREM OneOpenAttempt == Spec => []OpenAttemptIsTheActiveTurns
<1>1. StoreInvariant => OpenAttemptIsTheActiveTurns  BY DEF StoreInvariant
<1> QED  BY <1>1, Invariance, PTL

\* The delivery cursor is the furthest delivered context (advanceDeliveryCursor).
THEOREM CursorExact == Spec => []CursorIsWhatWasDelivered
<1>1. StoreInvariant => CursorIsWhatWasDelivered  BY DEF StoreInvariant
<1> QED  BY <1>1, Invariance, PTL

\* A summary is never counted as delivered beyond the context it came with.
THEOREM SummaryBounded == Spec => []SummaryWithinDelivered
<1>1. StoreInvariant => SummaryWithinDelivered  BY DEF StoreInvariant
<1> QED  BY <1>1, Invariance, PTL

----------------------------------------------------------------------------
(* TurnStore implements TurnProtocol *)

Prompted == {attempts[x].turn : x \in {y \in Attempt : attempts[y].prompted}}

\* Only markPromptInvoked adds to the prompted Turns.
LEMMA PromptedSteps ==
    ASSUME StoreInvariant, [Next]_vars, ~ \E x \in Attempt : MarkPromptInvoked(x)
    PROVE  Prompted' = Prompted
<1> USE StoreAssumption DEF StoreInvariant
<1>1. ASSUME NEW y \in Attempt
      PROVE  /\ attempts'[y].prompted <=> attempts[y].prompted
             /\ attempts[y].prompted => attempts'[y].turn = attempts[y].turn
  <2>1. ASSUME NEW t \in Turn, NEW c \in 0..highSeq, NEW s \in {0, summary},
               ClaimNextQueuedTurn(t, y, c, s)
        PROVE  ~attempts[y].prompted /\ ~attempts'[y].prompted
    <3>1. ~attempts'[y].prompted  BY <2>1 DEF ClaimNextQueuedTurn, TypeOK
    <3>2. attempts[y] = NoAttempt
      BY <2>1 DEF ClaimNextQueuedTurn, AttemptsAgree, AttemptAgrees
    <3> QED  BY <3>1, <3>2 DEF NoAttempt
  <2> QED  BY <2>1, AttemptSteps
<1> QED  BY <1>1 DEF Prompted

\* The Turn of an attempt that has been started was prompted; one that recovery
\* queues again was not.
LEMMA PromptedFacts ==
    ASSUME StoreInvariant
    PROVE  /\ \A x \in Attempt : Open(x) /\ attempts[x].certainty = "delivered"
                => attempts[x].turn \in Prompted
           /\ \A x \in Attempt : Open(x) /\ attempts[x].phase = "prompt_invoked"
                => attempts[x].turn \in Prompted
           /\ \A t \in Turn : \A x \in OpenAttempts(t) : attempts[x].phase = "prepared"
                => t \notin Prompted
<1> USE DEF StoreInvariant
<1>1. ASSUME NEW x \in Attempt, Open(x),
             attempts[x].certainty = "delivered" \/ attempts[x].phase = "prompt_invoked"
      PROVE  attempts[x].turn \in Prompted
  <2>1. attempts[x].prompted  BY <1>1 DEF AttemptsAgree, AttemptAgrees
  <2> QED  BY <2>1 DEF Prompted
<1>2. ASSUME NEW t \in Turn, NEW x \in OpenAttempts(t), attempts[x].phase = "prepared",
             t \in Prompted
      PROVE  FALSE
  <2>1. /\ x \in Attempt /\ Open(x) /\ attempts[x].turn = t /\ ~attempts[x].prompted
        /\ status[t] \in ActiveStatus
    BY <1>2 DEF OpenAttempts, AttemptsAgree, AttemptAgrees
  <2>2. PICK y \in Attempt : attempts[y].prompted /\ attempts[y].turn = t
    BY <1>2 DEF Prompted
  <2>3. Open(y)
    BY <2>1, <2>2 DEF AttemptsAgree, AttemptAgrees, ActiveStatus, TerminalStatus
  <2>4. x = y  BY <2>1, <2>2, <2>3 DEF OpenAttemptIsTheActiveTurns, OpenAttempts
  <2> QED  BY <2>1, <2>2, <2>4
<1> QED  BY <1>1, <1>2

LEMMA RefinesInit == Init => Protocol!Init
BY DEF Init, Protocol!Init, NoAttempt

LEMMA RefinesStep ==
    ASSUME StoreInvariant, [Next]_vars PROVE [Protocol!Next]_(Protocol!vars)
<1> USE StoreAssumption DEF StoreInvariant
<1> DEFINE marked == \E x \in Attempt : MarkPromptInvoked(x)
<1>a. ~marked => Prompted' = Prompted  BY PromptedSteps
<1>b. ASSUME status' = status, Prompted' = Prompted PROVE UNCHANGED Protocol!vars
  BY <1>b DEF Protocol!vars, Prompted
<1>1. CASE UNCHANGED <<status, enqueueSeq, attempts, cursor, cursorSummary>>
  BY <1>1 DEF Protocol!vars
<1>2. CASE Accepting
  <2>1. PICK S \in SUBSET Turn, m \in {highSeq'} \cup 1..highSeq :
               EnqueueTurns(S, m) /\ UNCHANGED attempts
    BY <1>2 DEF Accepting
  <2>2. Protocol!Accept(S)  BY <2>1 DEF EnqueueTurns, Protocol!Accept
  <2> QED  BY <2>2 DEF Protocol!Next
<1>3. ASSUME NEW t \in Turn, NEW x \in Attempt, NEW c, NEW s, ClaimNextQueuedTurn(t, x, c, s)
      PROVE  Protocol!Next
  <2>1. ~marked
    <3>1. status[t] = "queued" /\ status' # status
      BY <1>3 DEF ClaimNextQueuedTurn, LaneHead, TypeOK
    <3> QED  BY <3>1 DEF MarkPromptInvoked, turnVars
  <2>2. \A u \in Turn : TargetOf[u] = TargetOf[t] => status[u] \notin ActiveStatus
    BY <1>3 DEF ClaimNextQueuedTurn, LaneFree, TurnsOf
  <2>3. Protocol!Dispatch(t)
    BY <1>a, <1>3, <2>1, <2>2
    DEF ClaimNextQueuedTurn, LaneHead, Prompted, Protocol!Dispatch, ActiveStatus,
        Protocol!ActiveStatus
  <2> QED  BY <2>3 DEF Protocol!Next
<1>4. ASSUME NEW x \in Attempt, MarkPromptInvoked(x) PROVE Protocol!Next
  <2>1. PICK t \in Turn : t = attempts[x].turn
    BY <1>4 DEF MarkPromptInvoked, Open, TypeOK, AttemptRow
  <2>2. /\ x \in OpenAttempts(t) /\ attempts[x].phase = "prepared"
        /\ status[t] = "dispatching" /\ status' = status
    BY <1>4, <2>1 DEF MarkPromptInvoked, OpenAttempts, turnVars
  <2>3. t \notin Prompted /\ ~attempts[x].prompted
    BY <2>2, PromptedFacts DEF AttemptsAgree, AttemptAgrees
  <2>4. /\ attempts'[x].prompted /\ attempts'[x].turn = t
        /\ \A y \in Attempt \ {x} : attempts'[y] = attempts[y]
    BY <1>4, <2>1 DEF MarkPromptInvoked, TypeOK, AttemptRow
  <2>5. Prompted' = Prompted \cup {t}  BY <2>3, <2>4 DEF Prompted
  <2>6. Protocol!Prompt(t)  BY <2>2, <2>3, <2>5 DEF Protocol!Prompt, Prompted
  <2> QED  BY <2>6 DEF Protocol!Next
<1>5. ASSUME NEW x \in Attempt, MarkAttemptRunning(x), ~marked
      PROVE  [Protocol!Next]_(Protocol!vars)
  <2> DEFINE t == attempts[x].turn
  <2>1. /\ Open(x) /\ t \in Turn /\ attempts[x].phase = "prompt_invoked"
        /\ status' = [status EXCEPT ![t] = IF status[t] = "dispatching" THEN "running" ELSE @]
    BY <1>5 DEF MarkAttemptRunning, Open, TypeOK, AttemptRow
  <2>2. t \in Prompted  BY <2>1, PromptedFacts
  <2>3. CASE status[t] = "dispatching"
    <3>1. Protocol!Run(t)
      BY <1>a, <1>5, <2>1, <2>2, <2>3 DEF Protocol!Run, Prompted
    <3> QED  BY <2>1, <3>1 DEF Protocol!Next
  <2>4. CASE status[t] # "dispatching"
    <3>1. status' = status  BY <2>1, <2>4 DEF TypeOK
    <3> QED  BY <1>a, <1>b, <1>5, <3>1
  <2> QED  BY <2>3, <2>4
<1>6. ASSUME NEW t \in Turn, RequestTurnCancellation(t) PROVE Protocol!Next
  <2>1. Protocol!RequestCancel(t)
    BY <1>6 DEF RequestTurnCancellation, Protocol!RequestCancel
  <2> QED  BY <2>1 DEF Protocol!Next
<1>7. ASSUME NEW t \in Turn, NEW o \in {"cancelled", "failed"}, EndQueuedTurn(t, o)
      PROVE  Protocol!Next
  <2>1. Protocol!Drop(t, o)  BY <1>7 DEF EndQueuedTurn, Protocol!Drop
  <2> QED  BY <2>1 DEF Protocol!Next
<1>8. ASSUME NEW x \in Attempt, NEW o \in TerminalStatus, TerminalizeTurn(x, o), ~marked
      PROVE  Protocol!Next
  <2> DEFINE t == attempts[x].turn
  <2>1. /\ Open(x) /\ t \in Turn /\ status[t] \in ActiveStatus
        /\ status' = [status EXCEPT ![t] = o]
        /\ o = "completed" => attempts[x].certainty = "delivered"
    BY <1>8 DEF TerminalizeTurn, CanTerminalize, Open, TypeOK, AttemptRow
  <2>2. o = "completed" => t \in Prompted  BY <2>1, PromptedFacts
  <2>3. Protocol!Finish(t, o)
    BY <1>a, <1>8, <2>1, <2>2
    DEF Protocol!Finish, Prompted, ActiveStatus, Protocol!ActiveStatus
  <2> QED  BY <2>1, <2>3 DEF Protocol!Next, TerminalStatus, Protocol!TerminalStatus
<1>9. ASSUME RecoverAfterRestart, ~marked PROVE Protocol!Next
  <2> DEFINE requeued == {t \in Turn : status[t] \in ActiveStatus /\ SafeToRequeue(t)}
  <2>1. \A t \in requeued : status[t] = "dispatching" /\ t \notin Prompted
    BY PromptedFacts DEF SafeToRequeue
  <2>2. status' = [t \in Turn |-> IF status[t] \notin ActiveStatus THEN status[t]
                                  ELSE IF t \in requeued THEN "queued" ELSE "interrupted"]
    BY <1>9 DEF RecoverAfterRestart
  <2>3. Protocol!Recover(requeued)
    BY <1>a, <1>9, <2>1, <2>2
    DEF Protocol!Recover, Prompted, ActiveStatus, Protocol!ActiveStatus
  <2>4. requeued \in SUBSET Turn  OBVIOUS
  <2> QED  BY <2>3, <2>4 DEF Protocol!Next
<1> QED
  BY StepCases, <1>1, <1>2, <1>3, <1>4, <1>5, <1>6, <1>7, <1>8, <1>9

\* The store implements the protocol: every behaviour of TurnStore is one of
\* TurnProtocol, crashes, restarts and requeues included.
THEOREM StoreImplementsProtocol == Spec => ImplementsTurnProtocol
<1>1. StoreInvariant /\ [Next]_vars => [Protocol!Next]_(Protocol!vars)
  BY RefinesStep
<1> QED  BY <1>1, RefinesInit, Invariance, PTL
         DEF Spec, ImplementsTurnProtocol, Protocol!Spec

----------------------------------------------------------------------------
(* The queue limit *)

Live(a) == TurnsOf(a, {"queued"} \cup ActiveStatus)

LEMMA LiveIsFinite ==
    ASSUME NEW a \in Actor
    PROVE  IsFiniteSet(Live(a)) /\ Cardinality(Live(a)) \in Nat
<1>1. Live(a) \in SUBSET Turn  BY DEF Live, TurnsOf
<1>2. IsFiniteSet(Live(a))  BY <1>1, StoreAssumption, FS_Subset
<1> QED  BY <1>2, FS_CardinalityType

\* A message adds at most one Turn to a lane, and only while there is room; no
\* other step adds any.
LEMMA QueueStep ==
    ASSUME StoreInvariant, QueueWithinLimit, [Next]_vars PROVE QueueWithinLimit'
<1> USE StoreAssumption
<1>0. TypeOK  BY DEF StoreInvariant
<1>1. SUFFICES ASSUME NEW a \in Actor PROVE Cardinality(Live(a)') <= QueuePerActor
  BY DEF QueueWithinLimit, Live, TurnsOf
<1>2. /\ IsFiniteSet(Live(a)) /\ Cardinality(Live(a)) \in Nat
      /\ Cardinality(Live(a)) <= QueuePerActor
  BY LiveIsFinite DEF QueueWithinLimit, Live
<1>3. CASE Accepting
  <2>1. PICK S \in SUBSET Turn, m \in {highSeq'} \cup 1..highSeq : EnqueueTurns(S, m)
    BY <1>3 DEF Accepting
  <2>2. CASE \E t \in S : TargetOf[t] = a
    <3>1. PICK t \in S : TargetOf[t] = a  BY <2>2
    <3>2. \A u \in S : TargetOf[u] = a => u = t  BY <2>1, <3>1 DEF EnqueueTurns
    <3>3. Live(a)' = Live(a) \cup {t}
      BY <2>1, <3>1, <3>2 DEF EnqueueTurns, Live, TurnsOf, ActiveStatus
    <3>4. t \notin Live(a)
      BY <2>1, <3>1 DEF EnqueueTurns, Live, TurnsOf, ActiveStatus
    <3>5. Cardinality(Live(a)') = Cardinality(Live(a)) + 1
      BY <1>2, <3>3, <3>4, FS_AddElement
    <3>6. Cardinality(Live(a)) + 1 <= QueuePerActor
      BY <2>1, <3>1 DEF EnqueueTurns, WithinQueueLimit, Live
    <3> QED  BY <3>5, <3>6
  <2>3. CASE ~ \E t \in S : TargetOf[t] = a
    <3>1. Live(a)' = Live(a)  BY <2>1, <2>3 DEF EnqueueTurns, Live, TurnsOf
    <3> QED  BY <1>2, <3>1
  <2> QED  BY <2>2, <2>3
<1>4. CASE ~Accepting
  <2>1. ASSUME NEW t \in Live(a)' PROVE t \in Live(a)
    <3>1. t \in Turn /\ TargetOf[t] = a /\ status'[t] \in {"queued"} \cup ActiveStatus
      BY <2>1 DEF Live, TurnsOf
    <3>2. status[t] \notin TerminalStatus \cup {"absent"}
      BY <1>4, <3>1, StatusSteps DEF TerminalStatus, ActiveStatus
    <3>3. status[t] \in TurnStatus  BY <1>0, <3>1 DEF TypeOK
    <3> QED  BY <3>1, <3>2, <3>3 DEF TurnStatus, Live, TurnsOf
  <2>2. Live(a)' \in SUBSET Live(a)  BY <2>1
  <2>3. Cardinality(Live(a)') <= Cardinality(Live(a)) /\ IsFiniteSet(Live(a)')
    BY <1>2, <2>2, FS_Subset
  <2>4. Cardinality(Live(a)') \in Nat  BY <2>3, FS_CardinalityType
  <2> QED  BY <1>2, <2>3, <2>4
<1> QED  BY <1>3, <1>4

\* No lane ever holds more than limits.queuePerAgent Turns that are not over.
THEOREM QueueBounded == Spec => []QueueWithinLimit
<1>1. Init => QueueWithinLimit
  <2> SUFFICES ASSUME Init, NEW a \in Actor PROVE Cardinality(Live(a)) <= QueuePerActor
    BY DEF QueueWithinLimit, Live
  <2>1. Live(a) = {}  BY DEF Init, Live, TurnsOf, ActiveStatus
  <2> QED  BY <2>1, FS_EmptySet, StoreAssumption
<1>2. StoreInvariant /\ QueueWithinLimit /\ [Next]_vars => QueueWithinLimit'
  BY QueueStep
<1> QED  BY <1>1, <1>2, Invariance, PTL DEF Spec

----------------------------------------------------------------------------
(* AssistantHost                                                            *)

Stage == {"none", "joined", "prompting", "closing", "starting", "done"}
Work == [pc : Stage, cmd : Command \cup {None}, try : {0, 1, 2}, brain : Brain \cup {0}]

AssistantTypeOK ==
    /\ work \in [Opener -> Work]
    /\ adapter \in Brain \cup {0}
    /\ inflight \in Post \cup {None}
    /\ aborted \subseteq Post

\* The controller of the host is that of every post that is still heard: whatever
\* took its place has aborted it.
HeardIsInflight == \A p \in Post : Active(p) /\ p \notin aborted => inflight = p

AssistantInvariant == AssistantTypeOK /\ HeardIsInflight /\ StatusIsLive

----------------------------------------------------------------------------
(* What the parts of a step do to the posts                                  *)

\* Work that goes on with another brain is work.
LEMMA OtherBrain ==
    ASSUME NEW w \in Work, NEW s \in Stage, NEW b \in Brain \cup {0}
    PROVE  [w EXCEPT !.pc = s, !.brain = b] \in Work
<1> DEFINE Id == Brain \cup {0}
<1> HIDE DEF Id
<1>1. b \in Id /\ w \in [pc : Stage, cmd : Command \cup {None}, try : {0, 1, 2}, brain : Id]
  BY DEF Work, Id
<1>2. [w EXCEPT !.pc = s, !.brain = b]
        \in [pc : Stage, cmd : Command \cup {None}, try : {0, 1, 2}, brain : Id]
  BY <1>1
<1> QED BY <1>2 DEF Work, Id

\* Ends finishes p and those that joined it, and lets go of no one else's signal.
LEMMA EndsIsOver ==
    ASSUME AssistantTypeOK, NEW p \in Opener, work[p].pc \in {"prompting", "closing", "starting"}, Ends(p)
    PROVE  /\ work' \in [Opener -> Work] /\ inflight' \in Post \cup {None}
           /\ work'[p].pc = "done"
           /\ \A q \in Opener \ {p} :
                \/ work'[q] = work[q]
                \/ work[q].pc = "joined" /\ work'[q].pc = "done"
           /\ inflight # p => inflight' = inflight
<1>1. work \in [Opener -> Work] BY DEF AssistantTypeOK
<1>2. \A q \in Opener : [work[q] EXCEPT !.pc = "done"] \in Work
  BY <1>1 DEF Work, Stage
<1>3. \A q \in Opener : [work[q] EXCEPT !.pc = "done"].pc = "done"
  BY <1>1 DEF Work
<1>4. work' \in [Opener -> Work] BY <1>1, <1>2 DEF Ends
<1>5. inflight' \in Post \cup {None} BY DEF Ends, AssistantTypeOK
<1>6. \A q \in Opener : work'[q] = IF q = p \/ (work[q].pc = "joined" /\ work[q].cmd = work[p].cmd)
                                   THEN [work[q] EXCEPT !.pc = "done"] ELSE work[q]
  BY DEF Ends
<1> QED BY <1>3, <1>4, <1>5, <1>6 DEF Ends

\* A reopening leaves p under way, closing a brain or starting one.
LEMMA ReopenIsUnderway ==
    ASSUME AssistantTypeOK, NEW p \in Opener, NEW c \in Command \cup {None}, NEW try \in {0, 1, 2},
           NEW seen, Reopen(p, c, try, seen)
    PROVE  /\ work' \in [Opener -> Work]
           /\ \A q \in Opener \ {p} : work'[q] = work[q]
           /\ \/ work'[p].pc = "closing" /\ state' = seen
              \/ work'[p].pc = "starting" /\ state' = "starting"
<1>1. CASE adapter # 0
  <2>1. [pc |-> "closing", cmd |-> c, try |-> try, brain |-> adapter] \in Work
    BY DEF Work, Stage, AssistantTypeOK
  <2> QED BY <1>1, <2>1 DEF Reopen, AssistantTypeOK
<1>2. CASE adapter = 0
  <2>1. PICK b \in NextBrain :
          work' = [work EXCEPT ![p] = [pc |-> "starting", cmd |-> c, try |-> try, brain |-> b]]
    BY <1>2 DEF Reopen, StartHarness
  <2>2. b \in Brain BY DEF NextBrain, Fresh
  <2>3. [pc |-> "starting", cmd |-> c, try |-> try, brain |-> b] \in Work
    BY <2>2 DEF Work, Stage
  <2>4. state' = "starting" BY <1>2 DEF Reopen, StartHarness
  <2> QED BY <2>1, <2>3, <2>4 DEF AssistantTypeOK
<1> QED BY <1>1, <1>2

\* An adapter that takes the prompt leaves p prompting.
LEMMA TakesIsUnderway ==
    ASSUME AssistantTypeOK, NEW p \in Opener, NEW c \in Command \cup {None}, NEW try \in {0, 1, 2},
           NEW b \in Brain \cup {0}, Takes(p, c, try, b)
    PROVE  /\ work' \in [Opener -> Work]
           /\ \A q \in Opener \ {p} : work'[q] = work[q]
           /\ work'[p].pc = "prompting" /\ state' = "busy"
<1>1. [pc |-> "prompting", cmd |-> c, try |-> try, brain |-> b] \in Work
  BY DEF Work, Stage
<1> QED BY <1>1 DEF Takes, AssistantTypeOK

----------------------------------------------------------------------------
(* The invariant                                                             *)

LEMMA AssistantStarts == AssistantInit => AssistantInvariant
<1> SUFFICES ASSUME AssistantInit PROVE AssistantInvariant OBVIOUS
<1>1. NoWork \in Work BY DEF NoWork, Work, Stage
<1>2. \A p \in Opener : work[p].pc = "none" BY DEF AssistantInit, NoWork
<1>3. AssistantTypeOK BY <1>1 DEF AssistantInit, AssistantTypeOK
<1>4. HeardIsInflight BY <1>2 DEF HeardIsInflight, Active, Opener
<1>5. StatusIsLive BY DEF StatusIsLive, AssistantInit
<1> QED BY <1>3, <1>4, <1>5 DEF AssistantInvariant

\* A post that is refused, joins one that is under way or is answered at once.
LEMMA PostStep ==
    ASSUME AssistantInvariant, NEW p \in Post, NEW c \in Command,
           Repeats(p, c) \/ Accepts(p, c) \/ Fails(p, c)
    PROVE  AssistantInvariant'
<1> USE DEF AssistantInvariant, AssistantTypeOK
<1>o. p \in Opener /\ p # None BY AssistantAssumption DEF Opener
<1>1. CASE Repeats(p, c)
  <2>1. \A s \in Stage : [NoWork EXCEPT !.pc = s, !.cmd = c] \in Work
    BY DEF NoWork, Work, Stage
  <2>2. /\ work' \in [Opener -> Work]
        /\ work[p].pc = "none" /\ work'[p].pc \in {"joined", "done"}
        /\ \A q \in Opener \ {p} : work'[q] = work[q]
    BY <1>1, <1>o, <2>1 DEF Repeats, NoWork, Stage
  <2>3. UNCHANGED <<hostVars, brainVars, up>> BY <1>1 DEF Repeats
  <2>4. HeardIsInflight' BY <2>2, <2>3 DEF HeardIsInflight, Active, hostVars, Opener
  <2>5. StatusIsLive' BY <2>2, <2>3, <1>o DEF StatusIsLive, brainVars, Opener
  <2> QED BY <2>2, <2>3, <2>4, <2>5 DEF hostVars, brainVars
<1>2. CASE Accepts(p, c)
  <2>1. /\ work[p].pc = "none" /\ inflight' = p /\ up' = up
        /\ aborted' = aborted \cup ({inflight} \ {None}) /\ adapter' = adapter
        /\ state # "starting" /\ up = "serving"
    BY <1>2 DEF Accepts
  <2>2. /\ work' \in [Opener -> Work]
        /\ \A q \in Opener \ {p} : work'[q] = work[q]
        /\ \/ work'[p].pc = "closing" /\ state' \in {state, "ready"}
           \/ work'[p].pc = "starting" /\ state' = "starting"
           \/ work'[p].pc = "prompting" /\ state' = "busy"
    BY <1>2, <1>o, ReopenIsUnderway, TakesIsUnderway DEF Accepts
  <2>3. HeardIsInflight' BY <2>1, <2>2, AssistantAssumption DEF HeardIsInflight, Active, Opener
  <2>4. StatusIsLive' BY <2>1, <2>2, <1>o DEF StatusIsLive, Opener
  <2>5. AssistantTypeOK' BY <2>1, <2>2
  <2> QED BY <2>3, <2>4, <2>5
<1>3. CASE Fails(p, c)
  <2>1. [NoWork EXCEPT !.pc = "done", !.cmd = c] \in Work
    BY DEF NoWork, Work, Stage
  <2>2. /\ work' \in [Opener -> Work]
        /\ work[p].pc = "none" /\ work'[p].pc = "done"
        /\ \A q \in Opener \ {p} : work'[q] = work[q]
    BY <1>3, <1>o, <2>1 DEF Fails, NoWork
  <2>3. /\ aborted' = aborted \cup ({inflight} \ {None}) /\ inflight' = None
        /\ adapter' = adapter /\ up' = up /\ state' \in {state, "ready"}
    BY <1>3 DEF Fails
  <2>4. HeardIsInflight' BY <2>2, <2>3, AssistantAssumption DEF HeardIsInflight, Active, Opener
  <2>5. StatusIsLive' BY <2>2, <2>3, <1>o DEF StatusIsLive, Opener
  <2>6. AssistantTypeOK' BY <2>2, <2>3
  <2> QED BY <2>4, <2>5, <2>6
<1> QED BY <1>1, <1>2, <1>3

\* The end of p leaves the others heard as they were, and the state describes
\* them if it did.
LEMMA EndStep ==
    ASSUME AssistantInvariant, NEW p \in Opener, work[p].pc \in {"prompting", "starting"},
           Ends(p), UNCHANGED <<aborted, adapter, up>>,
           \/ state' \in {"ready", "failed"}
           \/ work[p].pc = "prompting" /\ state' = Idle
    PROVE  AssistantInvariant'
<1> USE DEF AssistantInvariant, AssistantTypeOK
<1>1. /\ work' \in [Opener -> Work] /\ inflight' \in Post \cup {None}
      /\ work'[p].pc = "done"
      /\ \A q \in Opener \ {p} :
           \/ work'[q] = work[q]
           \/ work[q].pc = "joined" /\ work'[q].pc = "done"
      /\ inflight # p => inflight' = inflight
  BY EndsIsOver
<1>2. HeardIsInflight' BY <1>1 DEF HeardIsInflight, Active, Opener
<1>3. state' = "starting" => state = "starting" /\ work[p].pc = "prompting"
  BY DEF Idle
<1>4. state' # "busy" BY DEF Idle
<1>5. StatusIsLive' BY <1>1, <1>3, <1>4 DEF StatusIsLive
<1> QED BY <1>1, <1>2, <1>5

LEMMA BrainStep ==
    ASSUME AssistantInvariant, NEW p \in Opener, BrainNext(p)
    PROVE  AssistantInvariant'
<1> USE DEF AssistantInvariant
<1>1. CASE Answers(p) BY <1>1, EndStep DEF Answers
<1>2. CASE Interacts(p) BY <1>2, EndStep DEF Interacts
<1>3. CASE Interrupted(p) BY <1>3, EndStep DEF Interrupted
<1>4. CASE Broken(p)
  <2>1. CASE work[p].try = 1 /\ ~fatal
    <3>1. /\ Reopen(p, work[p].cmd, 2, Idle) /\ work[p].pc = "prompting"
          /\ UNCHANGED <<inflight, aborted, adapter, up>>
      BY <1>4, <2>1 DEF Broken
    <3>2. work[p].cmd \in Command \cup {None} BY DEF AssistantTypeOK, Work
    <3>3. /\ work' \in [Opener -> Work]
          /\ \A q \in Opener \ {p} : work'[q] = work[q]
          /\ \/ work'[p].pc = "closing" /\ state' = Idle
             \/ work'[p].pc = "starting" /\ state' = "starting"
      BY <3>1, <3>2, ReopenIsUnderway
    <3>4. HeardIsInflight' BY <3>1, <3>3 DEF HeardIsInflight, Active, Opener
    <3>5. StatusIsLive' BY <3>1, <3>3 DEF StatusIsLive, Idle
    <3> QED BY <3>1, <3>3, <3>4, <3>5 DEF AssistantTypeOK
  <2>2. CASE ~(work[p].try = 1 /\ ~fatal)
    BY <1>4, <2>2, EndStep DEF Broken
  <2> QED BY <2>1, <2>2
<1>5. CASE Closes(p)
  <2>1. PICK b \in NextBrain :
          work' = [work EXCEPT ![p].pc = "starting", ![p].brain = b]
    BY <1>5 DEF Closes
  <2>2. b \in Brain BY DEF NextBrain, Fresh
  <2>3. [work[p] EXCEPT !.pc = "starting", !.brain = b] \in Work
    BY <2>2, OtherBrain DEF AssistantTypeOK, Stage
  <2>4. /\ work' \in [Opener -> Work] /\ work'[p].pc = "starting"
        /\ \A q \in Opener \ {p} : work'[q] = work[q]
    BY <2>1, <2>3 DEF AssistantTypeOK, Work
  <2>5. /\ work[p].pc = "closing" /\ state' = "starting" /\ adapter' = 0
        /\ UNCHANGED <<inflight, aborted, up>>
    BY <1>5 DEF Closes, hostVars
  <2>6. HeardIsInflight' BY <2>4, <2>5 DEF HeardIsInflight, Active, Opener
  <2>7. StatusIsLive' BY <2>4, <2>5 DEF StatusIsLive
  <2> QED BY <2>4, <2>5, <2>6, <2>7 DEF AssistantTypeOK
<1>6. CASE Started(p)
  <2>1. /\ work[p].pc = "starting" /\ adapter' = work[p].brain
        /\ UNCHANGED <<inflight, aborted, up>>
    BY <1>6 DEF Started, hostVars
  <2>2. work[p].brain \in Brain \cup {0} /\ work[p].cmd \in Command \cup {None}
        /\ work[p].try \in {0, 1, 2}
    BY DEF AssistantTypeOK, Work
  <2>3. CASE p = Host
    <3>1. NoWork \in Work /\ NoWork.pc = "none" BY DEF NoWork, Work, Stage
    <3>2. /\ work' \in [Opener -> Work] /\ work'[p].pc = "none" /\ state' = "ready"
          /\ \A q \in Opener \ {p} : work'[q] = work[q]
      BY <1>6, <2>3, <3>1 DEF Started, AssistantTypeOK
    <3>3. HeardIsInflight' BY <2>1, <3>2 DEF HeardIsInflight, Active, Opener
    <3>4. StatusIsLive' BY <3>2 DEF StatusIsLive
    <3> QED BY <2>1, <2>2, <3>2, <3>3, <3>4 DEF AssistantTypeOK
  <2>4. CASE p # Host
    <3>1. Takes(p, work[p].cmd, work[p].try, work[p].brain)
      BY <1>6, <2>4 DEF Started
    <3>2. /\ work' \in [Opener -> Work]
          /\ \A q \in Opener \ {p} : work'[q] = work[q]
          /\ work'[p].pc = "prompting" /\ state' = "busy"
      BY <2>2, <3>1, TakesIsUnderway
    <3>3. HeardIsInflight' BY <2>1, <3>2 DEF HeardIsInflight, Active, Opener
    <3>4. StatusIsLive' BY <2>4, <3>2 DEF StatusIsLive, Opener
    <3> QED BY <2>1, <2>2, <3>2, <3>3, <3>4 DEF AssistantTypeOK
  <2> QED BY <2>3, <2>4
<1>7. CASE StartFails(p)
  <2>1. CASE p = Host
    <3>1. NoWork \in Work /\ NoWork.pc = "none" BY DEF NoWork, Work, Stage
    <3>2. /\ work' \in [Opener -> Work] /\ work'[p].pc = "none" /\ state' = "failed"
          /\ \A q \in Opener \ {p} : work'[q] = work[q]
          /\ UNCHANGED <<inflight, aborted, adapter, up>>
      BY <1>7, <2>1, <3>1 DEF StartFails, AssistantTypeOK
    <3>3. HeardIsInflight' BY <3>2 DEF HeardIsInflight, Active, Opener
    <3>4. StatusIsLive' BY <3>2 DEF StatusIsLive
    <3> QED BY <3>2, <3>3, <3>4 DEF AssistantTypeOK
  <2>2. CASE p # Host BY <1>7, <2>2, EndStep DEF StartFails
  <2> QED BY <2>1, <2>2
<1> QED BY <1>1, <1>2, <1>3, <1>4, <1>5, <1>6, <1>7 DEF BrainNext

\* Cancels, and the start, close and crash of the runtime.
LEMMA HostStep ==
    ASSUME AssistantInvariant,
           \/ \E b \in Brain : BrainDies(b)
           \/ Cancel \/ (\E p \in Post : Leaves(p))
           \/ Boot \/ Drains \/ ClosesHost \/ HostClosed \/ Exits
    PROVE  AssistantInvariant'
<1> USE DEF AssistantInvariant
<1>h. Host \in Opener /\ Host \notin Post BY AssistantAssumption DEF Opener
<1>1. CASE (\E b \in Brain : BrainDies(b)) \/ Cancel \/ (\E p \in Post : Leaves(p)) \/ Drains
  <2>1. UNCHANGED <<work, adapter, inflight, state>> /\ (up' # "down" => up # "down")
    BY <1>1 DEF BrainDies, Cancel, Leaves, Drains, hostVars, brainVars
  <2>2. aborted \subseteq aborted' /\ aborted' \subseteq Post
    BY <1>1 DEF BrainDies, Cancel, Leaves, Drains, hostVars, brainVars, AssistantTypeOK
  <2>3. HeardIsInflight' BY <2>1, <2>2 DEF HeardIsInflight, Active
  <2>4. StatusIsLive' BY <2>1 DEF StatusIsLive
  <2> QED BY <2>1, <2>2, <2>3, <2>4 DEF AssistantTypeOK
<1>2. CASE Boot
  <2>1. PICK b \in NextBrain :
          work' = [work EXCEPT ![Host] = [pc |-> "starting", cmd |-> None, try |-> 0, brain |-> b]]
    BY <1>2 DEF Boot, StartHarness
  <2>2. b \in Brain BY DEF NextBrain, Fresh
  <2>3. [pc |-> "starting", cmd |-> None, try |-> 0, brain |-> b] \in Work
    BY <2>2 DEF Work, Stage
  <2>4. /\ work' \in [Opener -> Work] /\ work'[Host].pc = "starting"
        /\ \A q \in Opener \ {Host} : work'[q] = work[q]
    BY <1>h, <2>1, <2>3 DEF AssistantTypeOK
  <2>5. state' = "starting" /\ UNCHANGED <<inflight, aborted, adapter>>
    BY <1>2 DEF Boot, StartHarness, hostVars
  <2>6. HeardIsInflight' BY <1>h, <2>4, <2>5 DEF HeardIsInflight, Active, Opener
  <2>7. StatusIsLive' BY <1>h, <2>4, <2>5 DEF StatusIsLive
  <2> QED BY <2>4, <2>5, <2>6, <2>7 DEF AssistantTypeOK
<1>3. CASE ClosesHost
  <2>1. /\ work[Host].pc = "none" /\ up # "down"
        /\ UNCHANGED <<inflight, aborted, adapter>>
        /\ state' \in {state, "failed"}
    BY <1>3 DEF ClosesHost, hostVars
  <2>2. [work[Host] EXCEPT !.pc = "closing", !.brain = adapter] \in Work
    BY <1>h, OtherBrain DEF AssistantTypeOK, Stage
  <2>3. /\ work' \in [Opener -> Work]
        /\ \A q \in Opener \ {Host} : work'[q] = work[q]
    BY <1>3, <1>h, <2>2 DEF ClosesHost, AssistantTypeOK
  <2>4. HeardIsInflight' BY <1>h, <2>1, <2>3 DEF HeardIsInflight, Active, Opener
  <2>5. StatusIsLive' BY <1>h, <2>1, <2>3 DEF StatusIsLive, Opener
  <2> QED BY <2>1, <2>3, <2>4, <2>5 DEF AssistantTypeOK
<1>4. CASE HostClosed
  <2>1. NoWork \in Work BY DEF NoWork, Work, Stage
  <2>2. /\ work' \in [Opener -> Work] /\ state' = "failed" /\ adapter' = 0
        /\ \A q \in Opener \ {Host} : work'[q] = work[q]
        /\ UNCHANGED <<inflight, aborted>>
    BY <1>4, <1>h, <2>1 DEF HostClosed, AssistantTypeOK, hostVars
  <2>3. HeardIsInflight' BY <1>h, <2>2 DEF HeardIsInflight, Active, Opener
  <2>4. StatusIsLive' BY <2>2 DEF StatusIsLive
  <2> QED BY <2>2, <2>3, <2>4 DEF AssistantTypeOK
<1>5. CASE Exits
  <2>1. NoWork \in Work BY DEF NoWork, Work, Stage
  <2>2. \A q \in Opener : [work[q] EXCEPT !.pc = "done"] \in Work
                          /\ [work[q] EXCEPT !.pc = "done"].pc = "done"
    BY DEF AssistantTypeOK, Work, Stage
  <2>3. /\ work' \in [Opener -> Work]
        /\ \A q \in Post : work'[q].pc \in {"none", "done"}
    BY <1>5, <1>h, <2>1, <2>2 DEF Exits, AssistantTypeOK, Opener
  <2>4. inflight' = None /\ adapter' = 0 /\ up' = "down" /\ aborted' = aborted
    BY <1>5 DEF Exits
  <2>5. HeardIsInflight' BY <2>3 DEF HeardIsInflight, Active
  <2>6. StatusIsLive' BY <2>4 DEF StatusIsLive
  <2> QED BY <2>3, <2>4, <2>5, <2>6 DEF AssistantTypeOK
<1> QED BY <1>1, <1>2, <1>3, <1>4, <1>5

LEMMA AssistantStep == AssistantInvariant /\ [AssistantNext]_assistantVars => AssistantInvariant'
<1> SUFFICES ASSUME AssistantInvariant, [AssistantNext]_assistantVars PROVE AssistantInvariant' OBVIOUS
<1>1. ASSUME NEW p \in Post, NEW c \in Command, Repeats(p, c) \/ Accepts(p, c) \/ Fails(p, c)
      PROVE  AssistantInvariant'
  BY <1>1, PostStep
<1>2. ASSUME NEW p \in Opener, BrainNext(p) PROVE AssistantInvariant'
  BY <1>2, BrainStep
<1>3. ASSUME \/ \E b \in Brain : BrainDies(b)
             \/ Cancel \/ (\E p \in Post : Leaves(p))
             \/ Boot \/ Drains \/ ClosesHost \/ HostClosed \/ Exits
      PROVE  AssistantInvariant'
  BY <1>3, HostStep
<1>4. CASE UNCHANGED assistantVars
  BY <1>4 DEF assistantVars, hostVars, brainVars, AssistantInvariant, AssistantTypeOK, HeardIsInflight, Active,
              StatusIsLive
<1> QED BY <1>1, <1>2, <1>3, <1>4 DEF AssistantNext

\* The invariant holds in every reachable state of the assistant
\* (GroupXAssistantHost and CliOperatorBrain), for any number of posts and brains.
THEOREM AssistantInvariance == AssistantSpec => []AssistantInvariant
BY AssistantStarts, AssistantStep, PTL DEF AssistantSpec

\* Posts that overtake each other never leave two of them waiting for an answer
\* (#postMessageOnce: the new controller aborts and replaces the old one).
THEOREM OnePostIsHeard == AssistantSpec => []OnePostListens
<1>1. AssistantInvariant => OnePostListens
  <2> SUFFICES ASSUME HeardIsInflight PROVE OnePostListens BY DEF AssistantInvariant
  <2> DEFINE heard == {p \in Post : Active(p) /\ p \notin aborted}
  <2>1. heard \subseteq {inflight} BY DEF HeardIsInflight
  <2>2. heard = {} \/ heard = {inflight} BY <2>1
  <2>3. Cardinality({}) = 0 /\ Cardinality({inflight}) = 1 BY FS_EmptySet, FS_Singleton
  <2>4. Cardinality(heard) <= 1
    <3> HIDE DEF heard
    <3> QED BY <2>2, <2>3
  <2> QED BY <2>4 DEF OnePostListens
<1> QED BY <1>1, AssistantInvariance, PTL

\* The state that makes #postMessageOnce refuse a post always has someone behind it
\* who will change it (CliOperatorBrain.#state).
THEOREM StatusHasAnOwner == AssistantSpec => []StatusIsLive
<1>1. AssistantInvariant => StatusIsLive BY DEF AssistantInvariant
<1> QED BY <1>1, AssistantInvariance, PTL

==============================================================================
