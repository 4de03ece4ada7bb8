--------------------------- MODULE BrokerLaneProofs ---------------------------
(***************************************************************************)
(* The safety of one dispatch lane for any finite number of Turns: the      *)
(* inductive invariant of BrokerLane, and that the lane implements          *)
(* TurnProtocol.                                                            *)
(***************************************************************************)
EXTENDS BrokerLane, FiniteSetTheorems, TLAPS

Dispatches == [cancelRequested : BOOLEAN, aborted : BOOLEAN, started : BOOLEAN,
               bound : BOOLEAN, terminal : BOOLEAN, recovery : BOOLEAN]

\* The number of accepted Turns is a number, and grows by one with a new Turn.
LEMMA Accepted ==
    /\ Cardinality({u \in Turn : status[u] # "absent"}) \in Nat
    /\ Cardinality({u \in Turn : status'[u] # "absent"}) \in Nat
<1>1. /\ IsFiniteSet({u \in Turn : status[u] # "absent"})
      /\ IsFiniteSet({u \in Turn : status'[u] # "absent"})
  BY LaneAssumption, FS_Subset
<1> QED  BY <1>1, FS_CardinalityType

\* The first end of a Turn writes a terminal status and closes its dispatch.
LEMMA EndedOnce ==
    ASSUME TypeOK, head \in Turn, NEW o \in TerminalStatus, NEW r \in BOOLEAN, TerminalOnce(o, r)
    PROVE  /\ active' \in Dispatches /\ active'.terminal
           /\ status' \in [Turn -> TurnStatus]
           /\ \A t \in Turn : t # head => status'[t] = status[t]
           /\ IF active.terminal \/ fenced THEN status' = status ELSE status'[head] = o
<1> USE DEF TypeOK
<1>1. \A c \in Dispatches :
        [c EXCEPT !.terminal = TRUE] \in Dispatches /\ [c EXCEPT !.terminal = TRUE].terminal
  BY DEF Dispatches
<1>6. ASSUME NEW c \in Dispatches
      PROVE  /\ [c EXCEPT !.terminal = TRUE, !.recovery = @ \/ r] \in Dispatches
             /\ [c EXCEPT !.terminal = TRUE, !.recovery = @ \/ r].terminal
  BY DEF Dispatches
<1>2. active \in Dispatches  BY DEF Dispatches
<1>3. o \in TurnStatus  BY DEF TurnStatus
<1>4. CASE active.terminal \/ fenced
  <2>1. active' = [active EXCEPT !.terminal = TRUE] /\ status' = status
    BY <1>4 DEF TerminalOnce
  <2>2. active' \in Dispatches /\ active'.terminal  BY <1>1, <1>2, <2>1
  <2> QED  BY <1>4, <2>1, <2>2
<1>5. CASE ~(active.terminal \/ fenced)
  <2>1. /\ active' = [active EXCEPT !.terminal = TRUE, !.recovery = @ \/ r]
        /\ status' = [status EXCEPT ![head] = o]
    BY <1>5 DEF TerminalOnce
  <2>2. active' \in Dispatches /\ active'.terminal  BY <1>6, <1>2, <2>1
  <2> QED  BY <1>3, <1>5, <2>1, <2>2
<1> QED  BY <1>4, <1>5

LEMMA InitHolds == Init => LaneInvariant
<1> SUFFICES ASSUME Init PROVE LaneInvariant  OBVIOUS
<1> USE LaneAssumption DEF Init
<1>1. TypeOK  BY DEF TypeOK, TurnStatus, NoDispatch
<1>2. PumpAgrees  BY DEF PumpAgrees, Executing
<1>3. LaneIsOrdered
  <2>1. {u \in Turn : status[u] # "absent"} = {}  OBVIOUS
  <2> QED  BY <2>1, FS_EmptySet DEF LaneIsOrdered
<1>4. RestartAgrees /\ MarksAreSeen  BY DEF RestartAgrees, MarksAreSeen
<1>5. ActiveTurnIsExecuted  BY DEF ActiveTurnIsExecuted, ActiveStatus
<1>6. RecoveryFindsNoLiveTurn /\ NoLostWakeup  BY DEF RecoveryFindsNoLiveTurn, NoLostWakeup
<1> QED  BY <1>1, <1>2, <1>3, <1>4, <1>5, <1>6 DEF LaneInvariant

----------------------------------------------------------------------------
(* The executing pump.  Its actions and the answer of a native cancellation  *)
(* have the same effect on the Turn and its dispatch.                        *)

\* From the prompt to the end of a Turn.
StreamStep ==
    \/ StopBeforePrompt \/ TransportError \/ StartedPublished \/ CancelAwaited
    \/ \E kind \in NativeOutcome \cup {"progress"}, id \in BOOLEAN : FirstNativeEvent(kind, id)
    \/ \E kind \in NativeOutcome : NativeEvent(kind)
    \/ \E threw \in BOOLEAN : StreamEnds(threw)
    \/ \E observed \in BOOLEAN : NativeCancelResult(observed)

\* What such a step does to status and active: nothing, the start of the Turn, or
\* its first end.
Progress ==
    /\ status' \in [Turn -> TurnStatus] /\ active' \in Dispatches
    /\ \A t \in Turn : t # head => status'[t] = status[t]
    /\ \/ status' = status /\ active'.terminal = active.terminal
       \/ status' = status /\ active'.terminal /\ (active.terminal \/ fenced)
       \/ /\ status[head] = "dispatching" /\ status'[head] = "running"
          /\ head \in prompted /\ ~active.terminal /\ ~active'.terminal /\ ~fenced
       \/ /\ status'[head] \in TerminalStatus /\ active'.terminal
          /\ ~active.terminal /\ ~fenced
          /\ status'[head] = "completed" => head \in prompted

\* The head is a Turn while it is executed.
LEMMA HeadIsTurn ==
    ASSUME TypeOK, PumpAgrees, pc \in Executing \cup {"context", "claimed"} PROVE head \in Turn
BY DEF TypeOK, PumpAgrees, Executing

LEMMA EndIsProgress ==
    ASSUME TypeOK, head \in Turn, NEW o \in TerminalStatus, NEW r \in BOOLEAN,
           o = "completed" => head \in prompted, TerminalOnce(o, r)
    PROVE  Progress /\ active'.terminal
<1>1. /\ active' \in Dispatches /\ active'.terminal
      /\ status' \in [Turn -> TurnStatus]
      /\ \A t \in Turn : t # head => status'[t] = status[t]
      /\ IF active.terminal \/ fenced THEN status' = status ELSE status'[head] = o
  BY EndedOnce
<1> QED  BY <1>1 DEF Progress

LEMMA StreamSteps ==
    ASSUME TypeOK, PumpAgrees, StreamStep
    PROVE  /\ UNCHANGED <<order, prompted, server, unscheduled, sessions, dirty, head, heldOpen>>
           /\ pc \in Executing /\ pc' \in Executing \ {"publishing"}
           /\ Progress
           /\ pc' = "finishing" => active'.terminal
           /\ pc' # "finishing" => head \in prompted
           /\ event' \in NativeOutcome \cup {"none", "progress"}
           /\ nativeCancel' \in {"none", "sent", "acked", "observed"}
<1>h. head \in Turn  BY HeadIsTurn DEF StreamStep, StopBeforePrompt, TransportError, StartedPublished, CancelAwaited,
         FirstNativeEvent, NativeEvent, StreamEnds, NativeCancelResult, Executing
<1>s. ASSUME NEW kind \in NativeOutcome \cup {"none", "progress"}, Settle(kind), head \in prompted
      PROVE  /\ Progress /\ pc' \in {"finishing", "streaming"}
             /\ pc' = "finishing" => active'.terminal
  <2>1. CASE kind \in NativeOutcome
    <3>1. PICK r \in BOOLEAN : TerminalOnce(kind, r /\ kind = "failed")  BY <1>s, <2>1 DEF Settle
    <3>2. kind \in TerminalStatus  BY <2>1 DEF NativeOutcome, TerminalStatus
    <3>3. (r /\ kind = "failed") \in BOOLEAN  OBVIOUS
    <3>4. Progress /\ active'.terminal  BY <1>h, <1>s, <3>1, <3>2, <3>3, EndIsProgress
    <3> QED  BY <1>s, <2>1, <3>4 DEF Settle
  <2>2. CASE kind \notin NativeOutcome
    BY <1>s, <2>2 DEF Settle, Progress, TypeOK, Dispatches
  <2> QED  BY <2>1, <2>2
<1>1. ASSUME StopBeforePrompt PROVE Progress /\ active'.terminal
  <2>1. CASE fenced
    <3>1. active.terminal  BY <1>1, <2>1 DEF StopBeforePrompt, PumpAgrees, Executing
    <3>2. active' = [active EXCEPT !.terminal = TRUE] /\ status' = status
      BY <1>1, <3>1 DEF StopBeforePrompt, TerminalOnce
    <3>3. active' \in Dispatches /\ active'.terminal  BY <3>2 DEF TypeOK, Dispatches
    <3> QED  BY <3>1, <3>2, <3>3 DEF Progress, TypeOK
  <2>2. CASE ~fenced
    <3>1. OutcomeBeforePrompt \in TerminalStatus /\ OutcomeBeforePrompt # "completed"
      BY <1>1, <2>2 DEF StopBeforePrompt, OutcomeBeforePrompt, TerminalStatus
    <3>2. TerminalOnce(OutcomeBeforePrompt, FALSE)  BY <1>1 DEF StopBeforePrompt
    <3> HIDE DEF OutcomeBeforePrompt
    <3> QED  BY <1>h, <3>1, <3>2, EndIsProgress
  <2> QED  BY <2>1, <2>2
<1>2. ASSUME TransportError PROVE Progress /\ active'.terminal
  <2>1. PICK r \in BOOLEAN : TerminalOnce("failed", r)  BY <1>2 DEF TransportError
  <2>2. "failed" \in TerminalStatus /\ "failed" # "completed"  BY DEF TerminalStatus
  <2> QED  BY <1>h, <2>1, <2>2, EndIsProgress
<1>i. "interrupted" \in TerminalStatus /\ "cancelled" \in TerminalStatus /\ "failed" \in TerminalStatus
  BY DEF TerminalStatus
<1>3. ASSUME CancelAwaited PROVE Progress /\ active'.terminal
  <2>1. TerminalOnce("interrupted", FALSE)  BY <1>3 DEF CancelAwaited
  <2> QED  BY <1>h, <1>i, <2>1, EndIsProgress
<1>4. ASSUME NEW threw \in BOOLEAN, StreamEnds(threw)
      PROVE  Progress /\ (pc' = "finishing" => active'.terminal) /\ pc' \in {"awaitCancel", "finishing"}
  <2>1. CASE pc' = "awaitCancel"
    BY <1>4, <2>1 DEF StreamEnds, Progress, TypeOK, Dispatches
  <2>2. CASE pc' # "awaitCancel"
    <3>1. pc' = "finishing"  BY <1>4, <2>2 DEF StreamEnds
    <3>2. TerminalOnce("interrupted", FALSE) \/ \E r \in BOOLEAN : TerminalOnce("failed", r)
      BY <1>4, <2>2 DEF StreamEnds
    <3> QED  BY <1>h, <1>i, <3>1, <3>2, EndIsProgress
  <2> QED  BY <2>1, <2>2
<1>5. ASSUME StartedPublished
      PROVE  Progress /\ (pc' = "finishing" => active'.terminal) /\ pc' \in {"streaming", "finishing"}
  <2>1. CASE active.terminal \/ fenced
    <3>1. active.terminal  BY <1>5, <2>1 DEF StartedPublished, PumpAgrees, Executing
    <3> QED  BY <1>5, <3>1, <2>1 DEF StartedPublished, Progress, TypeOK, Dispatches
  <2>2. CASE ~(active.terminal \/ fenced)
    <3>1. Settle(event) /\ head \in prompted  BY <1>5, <2>2 DEF StartedPublished, PumpAgrees
    <3>2. event \in NativeOutcome \cup {"none", "progress"}  BY DEF TypeOK
    <3> QED  BY <1>s, <3>1, <3>2
  <2> QED  BY <2>1, <2>2
<1>6. ASSUME NEW kind \in NativeOutcome \cup {"progress"}, NEW id \in BOOLEAN,
             FirstNativeEvent(kind, id)
      PROVE  /\ Progress /\ pc' = "handling" /\ head \in prompted
             /\ nativeCancel' \in {"none", "sent", "acked", "observed"}
  <2>1. active' \in Dispatches /\ active'.terminal = active.terminal
    BY <1>6 DEF FirstNativeEvent, TypeOK, Dispatches
  <2>2. head \in prompted  BY <1>6 DEF FirstNativeEvent, PumpAgrees
  <2>3. /\ status' \in [Turn -> TurnStatus]
        /\ \A t \in Turn : t # head => status'[t] = status[t]
        /\ status' = status \/ (status[head] = "dispatching" /\ status'[head] = "running")
    BY <1>6, <1>h DEF FirstNativeEvent, TypeOK, TurnStatus, ActiveStatus
  <2>4. nativeCancel' \in {"none", "sent", "acked", "observed"}
    BY <1>6 DEF FirstNativeEvent, BindNativeTurnId, TypeOK
  <2> QED  BY <1>6, <2>1, <2>2, <2>3, <2>4 DEF FirstNativeEvent, Progress
<1>7. ASSUME NEW kind \in NativeOutcome, NativeEvent(kind)
      PROVE  /\ Progress /\ pc' \in {"finishing", "streaming"} /\ head \in prompted
             /\ pc' = "finishing" => active'.terminal
  <2>1. Settle(kind) /\ head \in prompted  BY <1>7 DEF NativeEvent, PumpAgrees
  <2> QED  BY <1>s, <2>1
<1>8. ASSUME NEW observed \in BOOLEAN, NativeCancelResult(observed)
      PROVE  /\ Progress /\ pc' = pc /\ pc \in Executing \ {"publishing"}
             /\ pc = "finishing" => active'.terminal
  <2>1. pc \in Executing \ {"publishing"} /\ pc' = pc
    BY <1>8 DEF NativeCancelResult, PumpAgrees, pump
  <2>2. CASE observed
    <3>1. TerminalOnce("cancelled", FALSE)  BY <1>8, <2>2 DEF NativeCancelResult
    <3>2. Progress /\ active'.terminal  BY <1>h, <1>i, <3>1, EndIsProgress
    <3> QED  BY <2>1, <3>2
  <2>3. CASE ~observed
    <3>1. UNCHANGED <<status, active>>  BY <1>8, <2>3 DEF NativeCancelResult
    <3>2. Progress  BY <3>1 DEF Progress, TypeOK, Dispatches
    <3>3. pc = "finishing" => active'.terminal  BY <3>1 DEF PumpAgrees
    <3> QED  BY <2>1, <3>2, <3>3
  <2> QED  BY <2>1, <2>2, <2>3
<1>p. pc \in {"streaming", "handling", "awaitCancel"} => head \in prompted  BY DEF PumpAgrees
<1> USE DEF TypeOK, Executing
<1>9. CASE StopBeforePrompt  BY <1>1, <1>9 DEF StopBeforePrompt
<1>10. CASE TransportError  BY <1>2, <1>10 DEF TransportError
<1>11. CASE StartedPublished  BY <1>5, <1>p, <1>11 DEF StartedPublished
<1>12. CASE CancelAwaited  BY <1>3, <1>12 DEF CancelAwaited
<1>13. ASSUME NEW kind \in NativeOutcome \cup {"progress"}, NEW id \in BOOLEAN,
              FirstNativeEvent(kind, id)
       PROVE  /\ UNCHANGED <<order, prompted, server, unscheduled, sessions, dirty, head, heldOpen>>
              /\ pc = "streaming" /\ event' = kind
  BY <1>13 DEF FirstNativeEvent
<1>14. ASSUME NEW kind \in NativeOutcome, NativeEvent(kind)
       PROVE  /\ UNCHANGED <<order, prompted, server, unscheduled, sessions, dirty, head, heldOpen,
                             event, nativeCancel>>
              /\ pc = "streaming"
  BY <1>14 DEF NativeEvent
<1>15. ASSUME NEW threw \in BOOLEAN, StreamEnds(threw)
       PROVE  /\ UNCHANGED <<order, prompted, server, unscheduled, sessions, dirty, head, heldOpen,
                             event, nativeCancel>>
              /\ pc = "streaming"
  BY <1>15 DEF StreamEnds
<1>16. ASSUME NEW observed \in BOOLEAN, NativeCancelResult(observed)
       PROVE  /\ UNCHANGED <<order, prompted, server, unscheduled, sessions, dirty, head, heldOpen,
                             event>>
              /\ nativeCancel' \in {"acked", "observed"}
  BY <1>16 DEF NativeCancelResult, pump
<1>17. CASE \E kind \in NativeOutcome \cup {"progress"}, id \in BOOLEAN : FirstNativeEvent(kind, id)
  BY <1>6, <1>13, <1>17
<1>18. CASE \E kind \in NativeOutcome : NativeEvent(kind)  BY <1>7, <1>14, <1>18
<1>19. CASE \E threw \in BOOLEAN : StreamEnds(threw)  BY <1>4, <1>15, <1>p, <1>19
<1>20. CASE \E observed \in BOOLEAN : NativeCancelResult(observed)
  BY <1>8, <1>16, <1>p, <1>20
<1> QED
  BY <1>9, <1>10, <1>11, <1>12, <1>17, <1>18, <1>19, <1>20 DEF StreamStep

----------------------------------------------------------------------------
(* The invariant is inductive. *)

\* The steps of the lane, those of StreamStep taken together.
LEMMA Steps ==
    ASSUME Next
    PROVE  \/ \E t \in Turn : \/ AcceptMessage(t) \/ QueuedPublished(t)
                              \/ ObserveHead(t) \/ ContextRefused(t)
                              \/ CancelQueued(t) \/ CancelExecuting(t) \/ CancelElsewhere(t)
           \/ LookAndFindNothing \/ ContextRejected \/ ClaimHead \/ HeadGone
           \/ PreparationAbandoned \/ SummaryChanged
           \/ ExecuteClosed \/ Execute \/ InvokePrompt \/ StreamStep
           \/ LateNativeTurnId \/ LeaveExecute \/ PumpSettles \/ NativeCancelFails
           \/ RestartAgent \/ RestartForReset \/ SessionStopped \/ SessionOpened \/ RestartCompletes \/ RestartFails
           \/ Start \/ RecoverAfterRestart \/ BeginShutdown \/ CloseBroker
           \/ FenceStoreWrites \/ Exit
BY DEF Next, Look, Prepare, BeforePrompt, Stream, AfterStream, Cancel, Restart, Process, StreamStep

\* Type correctness, one step per action.
LEMMA TypeStep ==
    ASSUME TypeOK, PumpAgrees, [Next]_vars PROVE TypeOK'
<1>e. /\ ScheduleActor => pc' \in {pc, "look"} /\ dirty' \in BOOLEAN /\ unwoken' \in BOOLEAN
      /\ EndLoop => pc' \in {"look", "ended"} /\ dirty' \in BOOLEAN
      /\ RestartSession => /\ session' \in BOOLEAN /\ unwoken' \in BOOLEAN
                           /\ restart' \in {"none", "stopping", "opening", "opened"}
  <2>1. /\ dirty \in BOOLEAN /\ session \in BOOLEAN /\ unwoken \in BOOLEAN
        /\ restart \in {"none", "stopping", "opening", "opened"}
    BY DEF TypeOK
  <2> QED  BY <2>1 DEF ScheduleActor, EndLoop, RestartSession
<1>f. ASSUME NEW t \in Turn, FailQueuedContext(t) PROVE status' \in [Turn -> TurnStatus]
  BY <1>f DEF FailQueuedContext, TypeOK, TurnStatus, TerminalStatus
<1> USE DEF TypeOK, Executing, durable, sessions, dispatch, pump
<1>s. TerminalStatus \subseteq TurnStatus /\ ActiveStatus \subseteq TurnStatus
      /\ {"queued", "failed", "cancelled", "dispatching", "cancelling", "interrupted"} \subseteq TurnStatus
  BY DEF TurnStatus, TerminalStatus, ActiveStatus
<1>d. ASSUME NEW c \in Dispatches
      PROVE  /\ [c EXCEPT !.bound = TRUE] \in Dispatches
             /\ [c EXCEPT !.aborted = TRUE] \in Dispatches
             /\ [c EXCEPT !.terminal = TRUE] \in Dispatches
             /\ \A b \in BOOLEAN : [c EXCEPT !.cancelRequested = TRUE, !.aborted = @ \/ b] \in Dispatches
             /\ NoDispatch \in Dispatches
             /\ [NoDispatch EXCEPT !.cancelRequested = TRUE, !.terminal = TRUE] \in Dispatches
  BY DEF Dispatches, NoDispatch
<1>a. active \in Dispatches  BY DEF Dispatches
<1>h. pc \in Executing \cup {"context", "claimed"} => head \in Turn  BY HeadIsTurn
<1>1. ASSUME NEW t \in Turn, AcceptMessage(t) PROVE TypeOK'
  <2>1. 1 + Cardinality({u \in Turn : status[u] # "absent"}) \in Nat  BY Accepted
  <2> QED  BY <1>s, <1>1, <2>1 DEF AcceptMessage
<1>2. ASSUME NEW t \in Turn, QueuedPublished(t) PROVE TypeOK'
  BY <1>2, <1>e DEF QueuedPublished
<1>3. ASSUME NEW t \in Turn, ObserveHead(t) PROVE TypeOK'
  <2>1. unwoken' \in BOOLEAN /\ heldOpen' \in BOOLEAN  BY <1>3 DEF ObserveHead
  <2> QED  BY <1>3, <2>1 DEF ObserveHead
<1>4. ASSUME NEW t \in Turn, ContextRefused(t) PROVE TypeOK'
  BY <1>4, <1>f DEF ContextRefused
<1>5. ASSUME NEW t \in Turn, CancelQueued(t) PROVE TypeOK'
  BY <1>s, <1>5, <1>e DEF CancelQueued
<1>6. ASSUME NEW t \in Turn, CancelExecuting(t) PROVE TypeOK'
  <2>1. active' \in Dispatches  BY <1>6, <1>a, <1>d DEF CancelExecuting
  <2> QED  BY <1>s, <1>6, <2>1 DEF CancelExecuting, Dispatches
<1>7. ASSUME NEW t \in Turn, CancelElsewhere(t) PROVE TypeOK'
  BY <1>s, <1>7 DEF CancelElsewhere
<1>8. CASE LookAndFindNothing  BY <1>8, <1>e DEF LookAndFindNothing
<1>9. CASE ContextRejected
  <2>1. FailQueuedContext(head) /\ head \in Turn  BY <1>h, <1>9 DEF ContextRejected
  <2>2. status' \in [Turn -> TurnStatus]  BY <1>f, <2>1
  <2>3. heldOpen' \in BOOLEAN  BY <1>9 DEF ContextRejected, Forget
  <2> QED  BY <1>9, <2>2, <2>3 DEF ContextRejected, Forget
<1>10. CASE ClaimHead
  <2>1. head \in Turn /\ status' = [status EXCEPT ![head] = "dispatching"]
    BY <1>h, <1>10 DEF ClaimHead
  <2>2. status' \in [Turn -> TurnStatus]  BY <1>s, <2>1
  <2>3. heldOpen' \in BOOLEAN  BY <1>10 DEF ClaimHead
  <2> QED  BY <1>10, <2>2, <2>3 DEF ClaimHead
<1>11. CASE HeadGone
  <2>1. dirty' \in BOOLEAN /\ pc' \in {"look", "ended"}  BY <1>11, <1>e DEF HeadGone
  <2>2. heldOpen' \in BOOLEAN  BY <1>11 DEF HeadGone, Forget
  <2> QED  BY <1>11, <2>1, <2>2 DEF HeadGone, Forget
<1>12. CASE PreparationAbandoned \/ SummaryChanged \/ ExecuteClosed
  <2>1. /\ pc' \in {"look", "ended"} /\ head' = NoTurn /\ heldOpen' \in BOOLEAN
        /\ UNCHANGED <<durable, server, unscheduled, sessions, dirty, dispatch>>
    BY <1>12 DEF PreparationAbandoned, SummaryChanged, ExecuteClosed, Forget
  <2> QED BY <2>1
<1>13. CASE Execute
  <2>1. active' \in Dispatches  BY <1>13, <1>a, <1>d DEF Execute
  <2>2. status' \in [Turn -> TurnStatus]  BY <1>s, <1>h, <1>13 DEF Execute
  <2> QED  BY <1>13, <2>1, <2>2 DEF Execute, Dispatches
<1>14. CASE InvokePrompt  BY <1>h, <1>14 DEF InvokePrompt
<1>15. CASE StreamStep
  <2>1. /\ UNCHANGED <<order, prompted, server, unscheduled, sessions, dirty, head, heldOpen>>
        /\ pc' \in Executing
        /\ status' \in [Turn -> TurnStatus] /\ active' \in Dispatches
        /\ event' \in NativeOutcome \cup {"none", "progress"}
        /\ nativeCancel' \in {"none", "sent", "acked", "observed"}
    BY <1>15, StreamSteps DEF Progress
  <2> QED  BY <2>1 DEF Dispatches
<1>16. CASE LateNativeTurnId
  <2>1. active' \in Dispatches  BY <1>16, <1>a, <1>d DEF LateNativeTurnId
  <2> QED  BY <1>16, <2>1 DEF LateNativeTurnId, BindNativeTurnId, Dispatches
<1>17. CASE LeaveExecute
  <2>1. active' \in Dispatches  BY <1>17, <1>a, <1>d DEF LeaveExecute
  <2>2. /\ session' \in BOOLEAN /\ unwoken' \in BOOLEAN
        /\ restart' \in {"none", "stopping", "opening", "opened"}
    BY <1>17, <1>e DEF LeaveExecute
  <2> QED  BY <1>17, <2>1, <2>2 DEF LeaveExecute, NextTurn, Forget, Dispatches
<1>18. CASE PumpSettles
  <2>1. dirty' \in BOOLEAN /\ pc' \in {"look", "idle"}  BY <1>18 DEF PumpSettles
  <2> QED  BY <1>18, <2>1 DEF PumpSettles
<1>19. CASE NativeCancelFails  BY <1>19 DEF NativeCancelFails
<1>20. CASE RestartAgent \/ RestartForReset \/ SessionStopped \/ SessionOpened
  <2>1. /\ session' \in BOOLEAN /\ notify' \in BOOLEAN /\ unwoken' \in BOOLEAN
        /\ restart' \in {"none", "stopping", "opening", "opened"}
    BY <1>20, <1>e DEF RestartAgent, RestartForReset, SessionStopped, SessionOpened
  <2>2. /\ UNCHANGED <<durable, server, unscheduled, pc, dirty, head, dispatch>>
        /\ heldOpen' \in BOOLEAN
    BY <1>20 DEF RestartAgent, RestartForReset, SessionStopped, SessionOpened
  <2> QED  BY <2>1, <2>2
<1>21. CASE RestartCompletes \/ RestartFails
  <2>1. /\ dirty' \in BOOLEAN /\ notify' \in BOOLEAN /\ heldOpen' \in BOOLEAN
        /\ unwoken' \in BOOLEAN
    BY <1>21, <1>e DEF RestartCompletes, RestartFails
  <2>2. pc' \in {pc, "look", "ended"}
    BY <1>21, <1>e DEF RestartCompletes, RestartFails, NextTurn
  <2> QED  BY <1>21, <2>1, <2>2 DEF RestartCompletes, RestartFails
<1>22. CASE Start \/ BeginShutdown  BY <1>22 DEF Start, BeginShutdown
<1>23. CASE RecoverAfterRestart
  BY <1>s, <1>23 DEF RecoverAfterRestart, RecoveredStatus
<1>24. CASE CloseBroker \/ FenceStoreWrites
  <2>1. active' \in Dispatches  BY <1>24, <1>a, <1>d DEF CloseBroker, FenceStoreWrites
  <2> QED  BY <1>24, <2>1 DEF CloseBroker, FenceStoreWrites, Dispatches
<1>25. CASE Exit
  <2>1. active' \in Dispatches  BY <1>25, <1>a, <1>d DEF Exit
  <2> QED  BY <1>25, <2>1 DEF Exit, Dispatches
<1>26. CASE UNCHANGED vars  BY <1>26 DEF vars
<1> QED
  BY <1>1, <1>2, <1>3, <1>4, <1>5, <1>6, <1>7, <1>8, <1>9, <1>10, <1>11, <1>12, <1>13, <1>14,
     <1>15, <1>16, <1>17, <1>18, <1>19, <1>20, <1>21, <1>22, <1>23, <1>24, <1>25, <1>26, Steps

\* What the pump holds agrees with where it is.
LEMMA PumpStep ==
    ASSUME TypeOK, PumpAgrees, LaneIsOrdered, RecoveryFindsNoLiveTurn, [Next]_vars
    PROVE  PumpAgrees'
<1>t. status \in [Turn -> TurnStatus] /\ head \in Turn \cup {NoTurn}  BY DEF TypeOK
<1>h. pc \in Executing \cup {"context", "claimed"} => head \in Turn  BY HeadIsTurn
<1>e. /\ ScheduleActor => pc' = pc \/ (pc = "idle" /\ pc' = "look")
      /\ EndLoop => pc' \in {"look", "ended"}
  BY DEF ScheduleActor, EndLoop
<1>d. /\ ActiveStatus \cap (TerminalStatus \cup {"absent", "queued"}) = {}
      /\ TerminalStatus \cap {"absent", "queued"} = {}
  BY DEF ActiveStatus, TerminalStatus
<1>c. /\ {"dispatching", "running", "cancelling"} \subseteq ActiveStatus
      /\ {"completed", "failed", "cancelled", "interrupted"} \subseteq TerminalStatus
  BY DEF ActiveStatus, TerminalStatus
<1> USE LaneAssumption DEF PumpAgrees, Executing, durable, sessions, dispatch, pump, fenced
<1>1. ASSUME NEW t \in Turn, AcceptMessage(t) PROVE PumpAgrees'
  <2>1. status[t] = "absent" /\ status' = [status EXCEPT ![t] = "queued"]  BY <1>1 DEF AcceptMessage
  <2>2. pc \in {"context", "claimed"} => head # t  BY <1>h, <1>c, <1>d, <2>1
  <2>3. pc \in Executing /\ (~fenced \/ ~active.terminal) => head # t  BY <1>h, <1>c, <1>d, <2>1
  <2>4. \A u \in Turn : u # t => status'[u] = status[u]  BY <1>t, <2>1
  <2> QED  BY <1>1, <1>h, <1>t, <2>2, <2>3, <2>4 DEF AcceptMessage
<1>2. ASSUME NEW t \in Turn, QueuedPublished(t) PROVE PumpAgrees'
  BY <1>2, <1>e DEF QueuedPublished
<1>3. ASSUME NEW t \in Turn, ObserveHead(t) PROVE PumpAgrees'
  BY <1>3, <1>d DEF ObserveHead, IsHead, Queued
<1>4. ASSUME NEW t \in Turn, ContextRefused(t) PROVE PumpAgrees'  BY <1>4 DEF ContextRefused
<1>5. ASSUME NEW t \in Turn, CancelQueued(t) PROVE PumpAgrees'
  <2>1. status[t] = "queued" /\ status' = [status EXCEPT ![t] = "cancelled"]  BY <1>5 DEF CancelQueued
  <2>2. \A u \in Turn : status'[u] = IF u = t THEN "cancelled" ELSE status[u]  BY <1>t, <2>1
  <2>3. pc \in Executing \cup {"claimed"} /\ (~fenced \/ ~active.terminal) => head # t
    BY <1>h, <1>c, <1>d, <2>1
  <2>4. "cancelled" \notin ActiveStatus \cup {"absent"}  BY <1>c, <1>d
  <2>5. pc' = pc \/ (pc = "idle" /\ pc' = "look")  BY <1>5, <1>e DEF CancelQueued
  <2> QED  BY <1>5, <1>h, <2>2, <2>3, <2>4, <2>5 DEF CancelQueued
<1>6. ASSUME NEW t \in Turn, CancelExecuting(t) PROVE PumpAgrees'
  <2>1. /\ head = t /\ pc \in Executing /\ status[t] \in ActiveStatus /\ ~fenced
        /\ status'[t] = "cancelling"
        /\ UNCHANGED <<prompted, pc, head>> /\ ~fenced'
    BY <1>6, <1>t DEF CancelExecuting
  <2>2. ~active.terminal  BY <1>d, <2>1
  <2>3. ~active'.terminal /\ active'.bound = active.bound  BY <1>6, <2>2 DEF CancelExecuting, TypeOK
  <2>4. pc = "publishing" => nativeCancel' = "none"  BY <1>6 DEF CancelExecuting
  <2> QED  BY <1>c, <2>1, <2>2, <2>3, <2>4
<1>7. ASSUME NEW t \in Turn, CancelElsewhere(t) PROVE PumpAgrees'
  <2>1. \A u \in Turn : status'[u] = IF u = t THEN "cancelling" ELSE status[u]
    BY <1>7, <1>t DEF CancelElsewhere
  <2>2. pc \in Executing => head # t  BY <1>7 DEF CancelElsewhere
  <2>3. pc = "context" => head # t  BY <1>7, <1>c DEF CancelElsewhere
  <2> QED  BY <1>7, <1>h, <2>1, <2>2, <2>3 DEF CancelElsewhere
<1>8. CASE LookAndFindNothing  BY <1>8, <1>e DEF LookAndFindNothing
<1>9. CASE ContextRejected  BY <1>9 DEF ContextRejected, Forget
<1>10. CASE ClaimHead
  <2>1. head \in Turn /\ status[head] = "queued"  BY <1>h, <1>10 DEF ClaimHead, Claimable, IsHead, Queued
  <2>2. head \notin prompted  BY <2>1 DEF LaneIsOrdered
  <2> QED  BY <1>10, <1>t, <2>1, <2>2 DEF ClaimHead
<1>11. CASE HeadGone
  <2>1. pc' \in {"look", "ended"}  BY <1>11, <1>e DEF HeadGone
  <2> QED  BY <1>11, <2>1 DEF HeadGone, Forget
<1>12. CASE PreparationAbandoned \/ SummaryChanged \/ ExecuteClosed
  BY <1>12 DEF PreparationAbandoned, SummaryChanged, ExecuteClosed, Forget
<1>13. CASE Execute
  <2>1. CASE status[head] = "cancelling"
    <3>1. /\ active'.terminal /\ status'[head] = "cancelled" /\ pc' = "finishing"
          /\ UNCHANGED <<head, prompted, server>>
      BY <1>13, <1>t, <1>h, <2>1 DEF Execute, NoDispatch
    <3> QED  BY <1>13, <1>h, <1>c, <3>1 DEF Execute
  <2>2. CASE status[head] # "cancelling"
    <3>1. /\ ~active'.terminal /\ ~active'.bound /\ status' = status /\ pc' = "publishing"
          /\ nativeCancel' = "none" /\ UNCHANGED <<head, prompted, server>>
      BY <1>13, <2>2 DEF Execute, NoDispatch
    <3>2. ~fenced  BY <1>13 DEF Execute, closed
    <3> QED  BY <1>13, <1>h, <1>c, <3>1, <3>2 DEF Execute
  <2> QED  BY <2>1, <2>2
<1>14. CASE InvokePrompt  BY <1>14 DEF InvokePrompt
<1>15. CASE StreamStep
  <2>1. /\ UNCHANGED <<order, prompted, server, unscheduled, sessions, dirty, head, heldOpen>>
        /\ pc \in Executing /\ pc' \in Executing \ {"publishing"}
        /\ Progress
        /\ pc' = "finishing" => active'.terminal
        /\ pc' # "finishing" => head \in prompted
    BY <1>15, StreamSteps
  <2> QED  BY <1>c, <1>h, <2>1 DEF Progress
<1>16. CASE LateNativeTurnId
  <2>1. active'.terminal = active.terminal  BY <1>16 DEF LateNativeTurnId, TypeOK
  <2> QED  BY <1>16, <2>1 DEF LateNativeTurnId
<1>17. CASE LeaveExecute  BY <1>17 DEF LeaveExecute, NextTurn, Forget
<1>18. CASE PumpSettles  BY <1>18 DEF PumpSettles
<1>19. CASE NativeCancelFails  BY <1>19 DEF NativeCancelFails
<1>20. CASE RestartAgent \/ RestartForReset \/ SessionStopped \/ SessionOpened
  BY <1>20 DEF RestartAgent, RestartForReset, SessionStopped, SessionOpened
<1>21. CASE RestartCompletes \/ RestartFails
  <2>1. \/ pc' = pc
        \/ pc \in {"idle", "look", "recovering", "ended"} /\ pc' \in {"idle", "look", "recovering", "ended"}
    BY <1>21, <1>e DEF RestartCompletes, RestartFails, NextTurn
  <2> QED  BY <1>21, <2>1 DEF RestartCompletes, RestartFails
<1>22. CASE Start \/ BeginShutdown  BY <1>22 DEF Start, BeginShutdown
<1>23. CASE RecoverAfterRestart
  <2>1. pc \in {"idle", "look", "ended"}  BY <1>23 DEF RecoverAfterRestart, RecoveryFindsNoLiveTurn
  <2> QED  BY <1>23, <2>1 DEF RecoverAfterRestart
<1>24. CASE CloseBroker
  <2>1. active'.terminal = active.terminal /\ active'.bound = active.bound
    BY <1>24 DEF CloseBroker, TypeOK
  <2> QED  BY <1>24, <2>1 DEF CloseBroker
<1>27. CASE FenceStoreWrites
  <2>1. (pc \in Executing => active'.terminal) /\ active'.bound = active.bound
    BY <1>27 DEF FenceStoreWrites, TypeOK
  <2> QED  BY <1>27, <2>1 DEF FenceStoreWrites
<1>25. CASE Exit  BY <1>25 DEF Exit
<1>26. CASE UNCHANGED vars  BY <1>26 DEF vars
<1> QED
  BY <1>1, <1>2, <1>3, <1>4, <1>5, <1>6, <1>7, <1>8, <1>9, <1>10, <1>11, <1>12, <1>13, <1>14,
     <1>15, <1>16, <1>17, <1>18, <1>19, <1>20, <1>21, <1>22, <1>23, <1>24, <1>25, <1>26, <1>27, Steps

\* What a step does to the statuses and the order of the Turns, but for a new message
\* and the recovery: no Turn joins the lane, and only a claim makes one active.
OrdinaryStep ==
    /\ order' = order
    /\ \A u \in Turn :
        /\ status'[u] = "absent" <=> status[u] = "absent"
        /\ status'[u] = "queued" => status[u] = "queued"
        /\ status'[u] \in ActiveStatus => status[u] \in ActiveStatus \/ (ClaimHead /\ u = head)

LEMMA StatusSteps ==
    ASSUME TypeOK, PumpAgrees, [Next]_vars
    PROVE  \/ \E t \in Turn : AcceptMessage(t)
           \/ RecoverAfterRestart
           \/ OrdinaryStep
<1>t. status \in [Turn -> TurnStatus]  BY DEF TypeOK
<1>h. pc \in Executing \cup {"context", "claimed"} => head \in Turn  BY HeadIsTurn
<1>d. /\ ActiveStatus \cap (TerminalStatus \cup {"absent", "queued"}) = {}
      /\ TerminalStatus \cap {"absent", "queued"} = {}
      /\ {"dispatching", "running", "cancelling"} \subseteq ActiveStatus
      /\ {"completed", "failed", "cancelled", "interrupted"} \subseteq TerminalStatus
  BY DEF ActiveStatus, TerminalStatus
<1>0. ASSUME status' = status, order' = order PROVE OrdinaryStep  BY <1>0 DEF OrdinaryStep
<1>9. ASSUME NEW t \in Turn, status[t] # "absent", order' = order, NEW o \in TerminalStatus,
             status' = [status EXCEPT ![t] = o]
      PROVE  OrdinaryStep
  BY <1>9, <1>t, <1>d DEF OrdinaryStep
<1>10. ASSUME NEW t \in Turn, status[t] \in ActiveStatus, order' = order, NEW o \in ActiveStatus,
              status' = [status EXCEPT ![t] = o]
       PROVE  OrdinaryStep
  BY <1>10, <1>t, <1>d DEF OrdinaryStep
<1>f. ASSUME NEW t \in Turn, FailQueuedContext(t), order' = order, status[t] # "absent"
      PROVE  OrdinaryStep
  BY <1>f, <1>t, <1>d DEF FailQueuedContext, OrdinaryStep
<1>1. ASSUME NEW t \in Turn, ContextRefused(t) PROVE OrdinaryStep
  BY <1>1, <1>f DEF ContextRefused, IsHead, Queued
<1>2. ASSUME NEW t \in Turn, CancelQueued(t) PROVE OrdinaryStep
  BY <1>2, <1>9, <1>d DEF CancelQueued
<1>3. ASSUME NEW t \in Turn, CancelExecuting(t) \/ CancelElsewhere(t) PROVE OrdinaryStep
  BY <1>3, <1>10, <1>d DEF CancelExecuting, CancelElsewhere
<1>4. CASE ContextRejected
  BY <1>4, <1>f, <1>h DEF ContextRejected, PumpAgrees
<1>5. CASE ClaimHead
  BY <1>5, <1>h, <1>t, <1>d DEF ClaimHead, Claimable, IsHead, Queued, OrdinaryStep
<1>6. CASE Execute
  <2>1. CASE status[head] = "cancelling"
    <3>1. /\ status' = [status EXCEPT ![head] = "cancelled"] /\ order' = order
          /\ head \in Turn /\ status[head] # "absent"
      BY <1>6, <1>h, <2>1 DEF Execute
    <3> QED  BY <1>9, <1>d, <3>1
  <2>2. CASE status[head] # "cancelling"  BY <1>6, <1>0, <2>2 DEF Execute
  <2> QED  BY <2>1, <2>2
<1>7. CASE StreamStep
  <2>1. order' = order /\ pc \in Executing /\ Progress  BY <1>7, StreamSteps
  <2>2. CASE status' = status  BY <1>0, <2>1, <2>2
  <2>3. CASE status' # status
    <3>1. /\ head \in Turn /\ \A t \in Turn : t # head => status'[t] = status[t]
          /\ status[head] \in ActiveStatus
          /\ status'[head] \in TerminalStatus \cup {"running"}
      BY <1>h, <1>d, <2>1, <2>3 DEF Progress, PumpAgrees
    <3> QED  BY <1>d, <2>1, <3>1 DEF OrdinaryStep
  <2> QED  BY <2>2, <2>3
<1>8. CASE UNCHANGED durable  BY <1>0, <1>8 DEF durable
<1>11. CASE InvokePrompt  BY <1>0, <1>11 DEF InvokePrompt
<1>12. CASE \/ \E t \in Turn : QueuedPublished(t) \/ ObserveHead(t)
            \/ LookAndFindNothing \/ HeadGone \/ PreparationAbandoned \/ SummaryChanged
            \/ ExecuteClosed \/ LateNativeTurnId \/ LeaveExecute \/ PumpSettles \/ NativeCancelFails
  BY <1>8, <1>12 DEF QueuedPublished, ObserveHead, LookAndFindNothing, HeadGone, PreparationAbandoned,
     SummaryChanged, ExecuteClosed, LateNativeTurnId, LeaveExecute, PumpSettles, NativeCancelFails
<1>13. CASE \/ RestartAgent \/ RestartForReset \/ SessionStopped \/ SessionOpened \/ RestartCompletes \/ RestartFails
            \/ Start \/ BeginShutdown \/ CloseBroker \/ FenceStoreWrites \/ Exit
  BY <1>8, <1>13 DEF RestartAgent, RestartForReset, SessionStopped, SessionOpened, RestartCompletes, RestartFails,
     Start, BeginShutdown, CloseBroker, FenceStoreWrites, Exit
<1>14. CASE UNCHANGED vars  BY <1>8, <1>14 DEF vars
<1> QED
  BY <1>1, <1>2, <1>3, <1>4, <1>5, <1>6, <1>7, <1>11, <1>12, <1>13, <1>14, Steps

\* Where the pump may go: it observes a head only where it looks, and keeps a Turn it
\* has claimed until it leaves it or dies.
LEMMA PumpMoves ==
    ASSUME TypeOK, PumpAgrees, [Next]_vars
    PROVE  /\ pc' = "context" => \/ pc = "context" /\ head' = head
                                 \/ \E t \in Turn : ObserveHead(t) /\ head' = t
           /\ pc \in Executing \cup {"claimed"} =>
                 \/ pc' \in Executing \cup {"claimed"} /\ head' = head
                 \/ LeaveExecute \/ ExecuteClosed \/ Exit
<1>e. /\ ScheduleActor => pc' = pc \/ (pc = "idle" /\ pc' = "look")
      /\ EndLoop => pc' \in {"look", "ended"}
  BY DEF ScheduleActor, EndLoop
<1> USE DEF Executing, pump
<1>0. ASSUME UNCHANGED pump PROVE head' = head /\ pc' = pc  BY <1>0
<1>1. ASSUME NEW t \in Turn, AcceptMessage(t) \/ ContextRefused(t) \/ CancelExecuting(t) \/ CancelElsewhere(t)
      PROVE  UNCHANGED pump
  BY <1>1 DEF AcceptMessage, ContextRefused, CancelExecuting, CancelElsewhere
<1>2. ASSUME NEW t \in Turn, QueuedPublished(t) \/ CancelQueued(t)
      PROVE  head' = head /\ (pc' = pc \/ (pc = "idle" /\ pc' = "look"))
  BY <1>2, <1>e DEF QueuedPublished, CancelQueued
<1>3. ASSUME NEW t \in Turn, ObserveHead(t) PROVE head' = t /\ pc = "look"  BY <1>3 DEF ObserveHead
<1>4. CASE LookAndFindNothing \/ HeadGone
  BY <1>4, <1>e DEF LookAndFindNothing, HeadGone
<1>5. CASE ContextRejected \/ PreparationAbandoned \/ SummaryChanged
  BY <1>5 DEF ContextRejected, PreparationAbandoned, SummaryChanged
<1>6. CASE ClaimHead \/ Execute \/ InvokePrompt
  BY <1>6 DEF ClaimHead, Execute, InvokePrompt
<1>7. CASE StreamStep
  <2>1. head' = head /\ pc \in Executing /\ pc' \in Executing  BY <1>7, StreamSteps
  <2> QED  BY <2>1
<1>8. CASE LateNativeTurnId \/ NativeCancelFails \/ RestartAgent \/ RestartForReset \/ SessionOpened
           \/ SessionStopped
           \/ Start \/ RecoverAfterRestart \/ BeginShutdown \/ CloseBroker \/ FenceStoreWrites
  BY <1>8 DEF LateNativeTurnId, NativeCancelFails, RestartAgent, RestartForReset, SessionOpened, SessionStopped,
     Start, RecoverAfterRestart, BeginShutdown, CloseBroker, FenceStoreWrites
<1>9. CASE LeaveExecute \/ ExecuteClosed \/ Exit
  BY <1>9 DEF LeaveExecute, NextTurn, ExecuteClosed, Exit
<1>10. CASE PumpSettles  BY <1>10 DEF PumpSettles
<1>11. CASE RestartCompletes \/ RestartFails
  BY <1>11, <1>e DEF RestartCompletes, RestartFails, NextTurn
<1>12. CASE UNCHANGED vars  BY <1>12 DEF vars
<1> QED
  BY <1>0, <1>1, <1>2, <1>3, <1>4, <1>5, <1>6, <1>7, <1>8, <1>9, <1>10, <1>11, <1>12, Steps

\* The prompt is marked by one action only, for a claimed Turn.
LEMMA PromptMoves ==
    ASSUME TypeOK, PumpAgrees, [Next]_vars
    PROVE  prompted' = prompted \/ (InvokePrompt /\ prompted' = prompted \cup {head})
<1>1. CASE StreamStep  BY <1>1, StreamSteps
<1>2. CASE \E t \in Turn : \/ AcceptMessage(t) \/ QueuedPublished(t) \/ ObserveHead(t) \/ ContextRefused(t)
                           \/ CancelQueued(t) \/ CancelExecuting(t) \/ CancelElsewhere(t)
  BY <1>2 DEF AcceptMessage, QueuedPublished, ObserveHead, ContextRefused, CancelQueued,
     CancelExecuting, CancelElsewhere, durable
<1>3. CASE \/ LookAndFindNothing \/ ContextRejected \/ ClaimHead \/ HeadGone \/ PreparationAbandoned
           \/ SummaryChanged \/ ExecuteClosed \/ Execute \/ LateNativeTurnId \/ LeaveExecute
           \/ PumpSettles \/ NativeCancelFails
  BY <1>3 DEF LookAndFindNothing, ContextRejected, ClaimHead, HeadGone, PreparationAbandoned,
     SummaryChanged, ExecuteClosed, Execute, LateNativeTurnId, LeaveExecute, PumpSettles,
     NativeCancelFails, durable
<1>4. CASE \/ RestartAgent \/ RestartForReset \/ SessionStopped \/ SessionOpened \/ RestartCompletes \/ RestartFails
           \/ Start \/ RecoverAfterRestart \/ BeginShutdown \/ CloseBroker \/ FenceStoreWrites \/ Exit
  BY <1>4 DEF RestartAgent, RestartForReset, SessionStopped, SessionOpened, RestartCompletes, RestartFails, Start,
     RecoverAfterRestart, BeginShutdown, CloseBroker, FenceStoreWrites, Exit, durable
<1>5. CASE InvokePrompt  BY <1>5 DEF InvokePrompt
<1>6. CASE UNCHANGED vars  BY <1>6 DEF vars, durable
<1> QED  BY <1>1, <1>2, <1>3, <1>4, <1>5, <1>6, Steps

\* A new Turn is behind all others, and nothing overtakes the head.
LEMMA OrderStep ==
    ASSUME TypeOK, PumpAgrees, LaneIsOrdered, RecoveryFindsNoLiveTurn, [Next]_vars
    PROVE  LaneIsOrdered'
<1> DEFINE Known == {u \in Turn : status[u] # "absent"}
<1>t. status \in [Turn -> TurnStatus] /\ order \in [Turn -> Nat]  BY DEF TypeOK
<1>c. Cardinality(Known) \in Nat  BY Accepted
<1>1. ASSUME NEW t \in Turn, AcceptMessage(t) PROVE LaneIsOrdered'
  <2>1. /\ status[t] = "absent" /\ status' = [status EXCEPT ![t] = "queued"]
        /\ order' = [order EXCEPT ![t] = 1 + Cardinality(Known)]
        /\ prompted' = prompted /\ pc' = pc /\ head' = head
    BY <1>1 DEF AcceptMessage, pump
  <2>2. Known' = Known \cup {t} /\ t \notin Known  BY <1>t, <2>1
  <2>3. Cardinality(Known') = Cardinality(Known) + 1
    <3>1. IsFiniteSet(Known)  BY LaneAssumption, FS_Subset
    <3> QED  BY <2>2, <3>1, FS_AddElement
  <2>4. \A u \in Turn : order[u] <= Cardinality(Known)  BY DEF LaneIsOrdered
  <2> HIDE DEF Known
  <2>5. \A u \in Turn : order'[u] <= Cardinality(Known')  BY <1>t, <1>c, <2>1, <2>3, <2>4
  <2>6. \A u \in Turn : status'[u] \in {"absent", "queued"} => u \notin prompted'
    BY <1>t, <2>1 DEF LaneIsOrdered
  <2>7. ASSUME pc' = "context", head' \in Queued' PROVE IsHead(head)'
    <3>1. head \in Turn /\ head # t  BY <2>1, <2>7 DEF PumpAgrees, Queued
    <3>2. IsHead(head)  BY <1>t, <2>1, <2>7, <3>1 DEF LaneIsOrdered, Queued
    <3>3. order'[head] = order[head] /\ order'[t] = 1 + Cardinality(Known)  BY <1>t, <2>1, <3>1
    <3>4. order'[head] <= order'[t]  BY <1>t, <1>c, <2>4, <3>1, <3>3
    <3>5. \A u \in Turn : u # t => order'[u] = order[u] /\ status'[u] = status[u]  BY <1>t, <2>1
    <3> QED  BY <2>1, <2>7, <3>2, <3>3, <3>4, <3>5 DEF IsHead, Queued
  <2> QED  BY <2>5, <2>6, <2>7 DEF LaneIsOrdered, Known
<1>2. CASE RecoverAfterRestart
  <2>1. order' = order /\ prompted' = prompted /\ pc' = pc /\ pc # "context"
    BY <1>2 DEF RecoverAfterRestart, RecoveryFindsNoLiveTurn, pump
  <2>2. \A u \in Turn : status'[u] = RecoveredStatus(u)  BY <1>2 DEF RecoverAfterRestart
  <2>3. \A u \in Turn : /\ status'[u] = "absent" <=> status[u] = "absent"
                        /\ status'[u] = "queued" => status[u] = "queued" \/ u \notin prompted
    BY <2>2 DEF RecoveredStatus, ActiveStatus
  <2>4. Known' = Known  BY <2>3
  <2> QED  BY <2>1, <2>3, <2>4 DEF LaneIsOrdered
<1>3. CASE OrdinaryStep
  <2>1. Known' = Known /\ order' = order  BY <1>3 DEF OrdinaryStep
  <2>2. \A u \in Turn : order'[u] <= Cardinality(Known')  BY <2>1 DEF LaneIsOrdered
  <2>3. ASSUME NEW u \in Turn, status'[u] \in {"absent", "queued"} PROVE u \notin prompted'
    <3>1. status[u] \in {"absent", "queued"} /\ u \notin prompted
      BY <1>3, <2>3 DEF OrdinaryStep, LaneIsOrdered
    <3>2. InvokePrompt => u # head  BY <3>1 DEF InvokePrompt, PumpAgrees
    <3> QED  BY <3>1, <3>2, PromptMoves
  <2>4. ASSUME pc' = "context", head' \in Queued' PROVE IsHead(head)'
    <3>1. Queued' \subseteq Queued  BY <1>3 DEF OrdinaryStep, Queued
    <3>2. IsHead(head')
      <4>1. CASE pc = "context" /\ head' = head  BY <2>4, <3>1, <4>1 DEF LaneIsOrdered
      <4>2. CASE \E t \in Turn : ObserveHead(t) /\ head' = t  BY <4>2 DEF ObserveHead
      <4> QED  BY <2>4, <4>1, <4>2, PumpMoves
    <3> QED  BY <2>1, <2>4, <3>1, <3>2 DEF IsHead
  <2> QED  BY <2>2, <2>3, <2>4 DEF LaneIsOrdered
<1> QED  BY <1>1, <1>2, <1>3, StatusSteps

\* No active Turn is left behind by the pump.
LEMMA ActiveStep ==
    ASSUME TypeOK, PumpAgrees, ActiveTurnIsExecuted, [Next]_vars
    PROVE  ActiveTurnIsExecuted'
<1> SUFFICES ASSUME NEW t \in Turn, status'[t] \in ActiveStatus,
                    server' \in {"open", "draining"} \/ (server' = "closing" /\ t \in prompted')
             PROVE  head' = t /\ pc' \in Executing \cup {"claimed"}
  BY DEF ActiveTurnIsExecuted, Executing
<1>d. ActiveStatus \cap (TerminalStatus \cup {"absent", "queued", "interrupted"}) = {}
  BY DEF ActiveStatus, TerminalStatus
<1>t. status \in [Turn -> TurnStatus]
      /\ pc \in {"idle", "look", "context", "claimed", "recovering", "ended"} \cup Executing
  BY DEF TypeOK
<1>1. ~RecoverAfterRestart
  <2>1. RecoverAfterRestart => status'[t] = RecoveredStatus(t)  BY DEF RecoverAfterRestart
  <2> QED  BY <1>d, <2>1 DEF RecoveredStatus
<1>2. CASE ClaimHead
  <2>1. LaneFree /\ head \in Turn /\ status' = [status EXCEPT ![head] = "dispatching"]
        /\ head' = head /\ pc' = "claimed"
    BY <1>2 DEF ClaimHead, Claimable, IsHead, Queued
  <2> QED  BY <1>t, <2>1 DEF LaneFree
<1>3. CASE ~ClaimHead
  <2>1. status[t] \in ActiveStatus
    <3>1. ASSUME NEW u \in Turn, AcceptMessage(u) PROVE status[t] \in ActiveStatus
      BY <1>t, <1>d, <3>1 DEF AcceptMessage
    <3> QED  BY <1>1, <1>3, <3>1, StatusSteps DEF OrdinaryStep
  <2>2. ~Exit /\ ~FenceStoreWrites /\ ~Start  BY DEF Exit, FenceStoreWrites, Start
  <2>3. \/ server \in {"open", "draining"} \/ (server = "closing" /\ t \in prompted')
    <3>1. server' = server \/ (server = "open" /\ server' = "draining") \/ (server = "draining" /\ server' = "closing")
      <4>1. CASE BeginShutdown \/ CloseBroker  BY <4>1 DEF BeginShutdown, CloseBroker
      <4>2. CASE \E u \in Turn : \/ AcceptMessage(u) \/ QueuedPublished(u) \/ ObserveHead(u) \/ ContextRefused(u)
                                 \/ CancelQueued(u) \/ CancelExecuting(u) \/ CancelElsewhere(u)
        BY <4>2 DEF AcceptMessage, QueuedPublished, ObserveHead, ContextRefused, CancelQueued,
           CancelExecuting, CancelElsewhere
      <4>3. CASE \/ LookAndFindNothing \/ ContextRejected \/ ClaimHead \/ HeadGone \/ PreparationAbandoned
                 \/ SummaryChanged \/ ExecuteClosed \/ Execute \/ InvokePrompt \/ LateNativeTurnId
                 \/ LeaveExecute \/ PumpSettles \/ NativeCancelFails
        BY <4>3 DEF LookAndFindNothing, ContextRejected, ClaimHead, HeadGone, PreparationAbandoned,
           SummaryChanged, ExecuteClosed, Execute, InvokePrompt, LateNativeTurnId, LeaveExecute,
           PumpSettles, NativeCancelFails
      <4>4. CASE RestartAgent \/ RestartForReset \/ SessionStopped \/ SessionOpened \/ RestartCompletes \/ RestartFails
        BY <4>4 DEF RestartAgent, RestartForReset, SessionStopped, SessionOpened, RestartCompletes, RestartFails
      <4>5. CASE StreamStep  BY <4>5, StreamSteps
      <4>6. CASE UNCHANGED vars  BY <4>6 DEF vars
      <4> QED  BY <1>1, <2>2, <4>1, <4>2, <4>3, <4>4, <4>5, <4>6, Steps
    <3> QED  BY <3>1
  <2>4. head = t /\ pc \in Executing \cup {"claimed"}
    <3>1. CASE t \in prompted \/ server # "closing"
      BY <1>t, <2>1, <2>3, <3>1 DEF ActiveTurnIsExecuted
    <3>2. CASE t \notin prompted /\ server = "closing"
      <4>1. InvokePrompt /\ t = head  BY <2>3, <3>2, PromptMoves
      <4> QED  BY <4>1 DEF InvokePrompt, Executing
    <3> QED  BY <3>1, <3>2
  <2>5. ~LeaveExecute
    <3>1. LeaveExecute => /\ pc = "finishing" /\ server' = server /\ status' = status
      BY DEF LeaveExecute, durable
    <3> QED  BY <1>d, <2>1, <2>3, <2>4, <3>1 DEF PumpAgrees, Executing, fenced
  <2>6. ~ExecuteClosed
    <3>1. ExecuteClosed => /\ pc = "claimed" /\ server' = server /\ prompted' = prompted /\ closed
      BY DEF ExecuteClosed, durable
    <3> QED  BY <2>3, <2>4, <3>1 DEF PumpAgrees, closed
  <2> QED  BY <2>2, <2>4, <2>5, <2>6, PumpMoves
<1> QED  BY <1>2, <1>3

\* What ScheduleActor, EndLoop and NextTurn do to the pump, and a restart to the session.
LEMMA Schedules ==
    /\ ScheduleActor => IF closed THEN pc' = pc /\ dirty' = dirty /\ unwoken' = unwoken
                        ELSE IF pc = "idle" THEN pc' = "look" /\ ~dirty'
                        ELSE pc' = pc /\ dirty'
    /\ EndLoop => pc' = "look" \/ (pc' = "ended" /\ (closed \/ ~dirty))
    /\ NextTurn => pc' = IF closed THEN "ended" ELSE "look"
    /\ RestartSession =>
          \/ restart = "none" /\ restart' = "stopping" /\ ~session' /\ ~unwoken'
          \/ restart # "none" /\ UNCHANGED <<restart, session, unwoken>>
BY DEF ScheduleActor, EndLoop, NextTurn, RestartSession

\* There is no session while a restart works, and the recovery meets a pump that has
\* claimed nothing.
LEMMA RestartStep ==
    ASSUME TypeOK, PumpAgrees, RestartAgrees, RecoveryFindsNoLiveTurn, [Next]_vars
    PROVE  RestartAgrees' /\ RecoveryFindsNoLiveTurn'
<1>t. session \in BOOLEAN /\ notify \in BOOLEAN  BY DEF TypeOK
<1> USE DEF RestartAgrees, RecoveryFindsNoLiveTurn, sessions, pump
<1>1. ASSUME NEW t \in Turn, AcceptMessage(t) PROVE RestartAgrees' /\ RecoveryFindsNoLiveTurn'
  BY <1>1 DEF AcceptMessage
<1>2. ASSUME NEW t \in Turn, QueuedPublished(t) \/ CancelQueued(t)
      PROVE  RestartAgrees' /\ RecoveryFindsNoLiveTurn'
  <2>1. UNCHANGED <<server, session, restart, notify>> /\ server # "down"
    BY <1>2 DEF QueuedPublished, CancelQueued
  <2>2. pc' = pc \/ (pc = "idle" /\ pc' = "look")
    BY <1>2, Schedules DEF QueuedPublished, CancelQueued
  <2> QED  BY <2>1, <2>2
<1>3. ASSUME NEW t \in Turn, ObserveHead(t) PROVE RestartAgrees' /\ RecoveryFindsNoLiveTurn'
  BY <1>3 DEF ObserveHead, SessionResolves
<1>4. CASE UNCHANGED <<server, unscheduled, sessions, pump>>  BY <1>4
<1>5. ASSUME NEW t \in Turn, ContextRefused(t) \/ CancelExecuting(t) \/ CancelElsewhere(t)
      PROVE  UNCHANGED <<server, unscheduled, sessions, pump>>
  BY <1>5 DEF ContextRefused, CancelExecuting, CancelElsewhere
<1>6. CASE LateNativeTurnId \/ NativeCancelFails
  BY <1>4, <1>6 DEF LateNativeTurnId, NativeCancelFails
<1>7. CASE LookAndFindNothing \/ HeadGone \/ PumpSettles
  <2>1. /\ pc \in {"look", "context", "ended"} /\ pc' \in {"look", "ended", "idle"}
        /\ UNCHANGED <<server, unscheduled, sessions>>
    BY <1>7, Schedules DEF LookAndFindNothing, HeadGone, PumpSettles
  <2> QED  BY <2>1
<1>8. CASE ContextRejected \/ ClaimHead \/ PreparationAbandoned \/ SummaryChanged \/ ExecuteClosed
           \/ Execute \/ InvokePrompt
  <2>1. /\ pc \in {"context", "claimed", "publishing"} /\ pc' # "recovering"
        /\ UNCHANGED <<server, unscheduled, sessions>>
    BY <1>8 DEF ContextRejected, ClaimHead, PreparationAbandoned, SummaryChanged, ExecuteClosed,
       Execute, InvokePrompt
  <2> QED  BY <2>1
<1>10. CASE LeaveExecute
  <2>1. pc = "finishing" /\ UNCHANGED <<server, unscheduled, notify>>  BY <1>10 DEF LeaveExecute
  <2>2. \/ pc' = "recovering" /\ restart = "none" /\ restart' = "stopping" /\ ~session'
        \/ pc' = "recovering" /\ UNCHANGED <<restart, session>>
        \/ pc' \in {"look", "ended"} /\ UNCHANGED <<restart, session>>
    BY <1>10, Schedules DEF LeaveExecute
  <2> QED  BY <2>1, <2>2
<1>11. CASE RestartAgent \/ RestartForReset
  <2>1. UNCHANGED <<server, unscheduled, pc>> /\ server \in {"open", "draining", "closing"}
    BY <1>11 DEF RestartAgent, RestartForReset
  <2>2. (restart' = "stopping" /\ ~session') \/ UNCHANGED <<restart, session>>
    BY <1>11, Schedules DEF RestartAgent, RestartForReset
  <2> QED  BY <2>1, <2>2
<1>12. CASE SessionStopped \/ SessionOpened  BY <1>12, <1>t DEF SessionStopped, SessionOpened
<1>13. CASE RestartCompletes \/ RestartFails
  <2>1. restart # "none" /\ restart' = "none" /\ UNCHANGED <<server, unscheduled>>
    BY <1>13 DEF RestartCompletes, RestartFails
  <2> QED  BY <2>1
<1>14. CASE Start \/ RecoverAfterRestart \/ BeginShutdown \/ CloseBroker \/ FenceStoreWrites
  BY <1>14, <1>t DEF Start, RecoverAfterRestart, BeginShutdown, CloseBroker, FenceStoreWrites
<1>15. CASE Exit  BY <1>15 DEF Exit
<1>16. CASE UNCHANGED vars  BY <1>4, <1>16 DEF vars
<1>17. CASE StreamStep
  <2>1. /\ UNCHANGED <<order, prompted, server, unscheduled, sessions, dirty, head, heldOpen>>
        /\ pc \in Executing /\ pc' \in Executing
    BY <1>17, StreamSteps
  <2> QED  BY <2>1 DEF Executing
<1> QED
  BY <1>1, <1>2, <1>3, <1>4, <1>5, <1>6, <1>7, <1>8, <1>10, <1>11, <1>12, <1>13, <1>14,
     <1>15, <1>16, <1>17, Steps

\* No mark stays at a pump that is over, and a preparation that will be abandoned has
\* one or gets one.
LEMMA MarksStep ==
    ASSUME TypeOK, PumpAgrees, RestartAgrees, RecoveryFindsNoLiveTurn, MarksAreSeen, [Next]_vars
    PROVE  MarksAreSeen'
<1>t. /\ session \in BOOLEAN /\ notify \in BOOLEAN /\ dirty \in BOOLEAN /\ heldOpen \in BOOLEAN
      /\ restart \in {"none", "stopping", "opening", "opened"}
  BY DEF TypeOK
<1> USE DEF MarksAreSeen, sessions, pump, closed
<1>1. ASSUME NEW t \in Turn, \/ AcceptMessage(t) \/ ContextRefused(t)
                             \/ CancelExecuting(t) \/ CancelElsewhere(t)
      PROVE  UNCHANGED <<server, sessions, pump>>
  BY <1>1 DEF AcceptMessage, ContextRefused, CancelExecuting, CancelElsewhere
<1>2. CASE UNCHANGED <<server, sessions, pump>>  BY <1>2
<1>3. ASSUME NEW t \in Turn, QueuedPublished(t) \/ CancelQueued(t) PROVE MarksAreSeen'
  <2>1. UNCHANGED <<server, session, restart, notify, heldOpen>> /\ ScheduleActor
    BY <1>3 DEF QueuedPublished, CancelQueued
  <2> QED  BY <1>t, <2>1, Schedules
<1>4. ASSUME NEW t \in Turn, ObserveHead(t) PROVE MarksAreSeen'  BY <1>4 DEF ObserveHead
<1>5. CASE LateNativeTurnId \/ NativeCancelFails
  BY <1>2, <1>5 DEF LateNativeTurnId, NativeCancelFails
<1>6. CASE LookAndFindNothing \/ HeadGone
  <2>1. UNCHANGED <<server, sessions>> /\ pc' \in {"look", "ended"}
    BY <1>6, Schedules DEF LookAndFindNothing, HeadGone
  <2> QED  BY <2>1
<1>7. CASE PumpSettles
  <2>1. UNCHANGED <<server, sessions>> /\ (pc' = "look" \/ (pc' = "idle" /\ dirty' = dirty /\ (closed \/ ~dirty)))
    BY <1>7 DEF PumpSettles
  <2> QED  BY <2>1
<1>8. CASE ContextRejected \/ ClaimHead \/ PreparationAbandoned \/ SummaryChanged \/ ExecuteClosed
           \/ Execute \/ InvokePrompt
  <2>1. UNCHANGED <<server, sessions>> /\ pc' \notin {"idle", "context"}
    BY <1>8 DEF ContextRejected, ClaimHead, PreparationAbandoned, SummaryChanged, ExecuteClosed,
       Execute, InvokePrompt
  <2> QED  BY <2>1
<1>9. CASE StreamStep
  <2>1. UNCHANGED server /\ pc' \in Executing  BY <1>9, StreamSteps
  <2> QED  BY <2>1 DEF Executing
<1>10. CASE LeaveExecute
  <2>1. pc' \in {"look", "ended", "recovering"}  BY <1>10, Schedules DEF LeaveExecute
  <2> QED  BY <2>1
<1>11. CASE RestartAgent \/ RestartForReset
  <2>1. UNCHANGED <<server, pump>> /\ (notify' \/ notify' = notify)
    BY <1>11 DEF RestartAgent, RestartForReset
  <2>2. ~session' \/ UNCHANGED <<restart, session, unwoken>>
    BY <1>11, Schedules DEF RestartAgent, RestartForReset
  <2> QED  BY <2>1, <2>2
<1>12. CASE SessionStopped \/ RestartFails
  <2>1. session' = session /\ ~session /\ server' = server /\ dirty' = dirty
    BY <1>12 DEF SessionStopped, RestartFails, RestartAgrees
  <2>2. pc' = "idle" => pc = "idle"  BY <1>12, Schedules DEF SessionStopped, RestartFails
  <2> QED  BY <2>1, <2>2
<1>13. CASE SessionOpened
  <2>1. /\ UNCHANGED <<server, pump, notify>> /\ restart' = "opened"
        /\ pc = "context" => notify \/ unwoken'
    BY <1>13 DEF SessionOpened
  <2> QED  BY <2>1
<1>14. CASE RestartCompletes
  <2>1. UNCHANGED <<server, session, heldOpen>>  BY <1>14 DEF RestartCompletes
  <2>2. CASE pc = "recovering"
    <3>1. pc' \in {"look", "ended"}  BY <1>14, <2>2, Schedules DEF RestartCompletes
    <3> QED  BY <3>1
  <2>3. CASE pc # "recovering" /\ notify
    <3>1. ScheduleActor  BY <1>14, <2>3 DEF RestartCompletes
    <3> QED  BY <1>t, <2>1, <3>1, Schedules
  <2>4. CASE pc # "recovering" /\ ~notify
    <3>1. UNCHANGED <<pc, dirty, unwoken>>  BY <1>14, <2>4 DEF RestartCompletes
    <3> QED  BY <2>1, <2>4, <3>1
  <2> QED  BY <2>2, <2>3, <2>4
<1>15. CASE Start \/ RecoverAfterRestart
  <2>1. UNCHANGED pump /\ pc \in {"idle", "look", "ended"} /\ ~closed
    BY <1>15 DEF Start, RecoverAfterRestart, RestartAgrees, RecoveryFindsNoLiveTurn
  <2> QED  BY <2>1
<1>16. CASE BeginShutdown \/ CloseBroker \/ FenceStoreWrites
  BY <1>16 DEF BeginShutdown, CloseBroker, FenceStoreWrites
<1>17. CASE Exit  BY <1>17 DEF Exit
<1>18. CASE UNCHANGED vars  BY <1>2, <1>18 DEF vars
<1> QED
  BY <1>1, <1>2, <1>3, <1>4, <1>5, <1>6, <1>7, <1>8, <1>9, <1>10, <1>11, <1>12, <1>13, <1>14,
     <1>15, <1>16, <1>17, <1>18, Steps

\* A pump ends only when there is nothing to do, and what comes later starts or marks it,
\* but for the restart of a context reset.
LEMMA WakeupStep ==
    ASSUME LaneInvariant, [Next]_vars
    PROVE  NoLostWakeup'
<1>i. TypeOK /\ PumpAgrees /\ LaneIsOrdered /\ RestartAgrees /\ MarksAreSeen
      /\ ActiveTurnIsExecuted /\ RecoveryFindsNoLiveTurn /\ NoLostWakeup
  BY DEF LaneInvariant
<1>t. /\ session \in BOOLEAN /\ notify \in BOOLEAN /\ dirty \in BOOLEAN /\ heldOpen \in BOOLEAN
      /\ restart \in {"none", "stopping", "opening", "opened"}
  BY <1>i DEF TypeOK
<1> SUFFICES ASSUME server' \in {"open", "draining"}, session', Queued' # {}, pc' \in {"idle", "ended"}
             PROVE  dirty' \/ unscheduled' # {} \/ (restart' = "opened" /\ notify') \/ unwoken'
  BY DEF NoLostWakeup
<1> USE DEF sessions, pump, closed
<1>q. (OrdinaryStep \/ status' = status) => Queued # {}
  BY DEF OrdinaryStep, Queued
<1>0. ASSUME OrdinaryStep \/ status' = status, UNCHANGED <<sessions, unscheduled, dirty>>,
             server \in {"open", "draining"}, pc \in {"idle", "ended"}
      PROVE  dirty' \/ unscheduled' # {} \/ (restart' = "opened" /\ notify') \/ unwoken'
  BY <1>0, <1>i, <1>q DEF NoLostWakeup
<1>1. ASSUME NEW t \in Turn, AcceptMessage(t) PROVE unscheduled' # {}
  BY <1>1 DEF AcceptMessage
<1>2. CASE RecoverAfterRestart
  BY <1>2 DEF RecoverAfterRestart, Queued
<1>3. CASE OrdinaryStep
  <2>q. Queued # {}  BY <1>3, <1>q
  <2>1. ASSUME NEW t \in Turn, QueuedPublished(t) \/ CancelQueued(t) PROVE dirty'
    <3>1. ScheduleActor /\ server' = server  BY <2>1 DEF QueuedPublished, CancelQueued
    <3> QED  BY <3>1, Schedules
  <2>2. ASSUME NEW t \in Turn, ContextRefused(t) \/ CancelExecuting(t) \/ CancelElsewhere(t)
        PROVE  dirty' \/ unscheduled' # {} \/ (restart' = "opened" /\ notify') \/ unwoken'
    <3>1. UNCHANGED <<server, sessions, unscheduled, dirty, pc>>
      BY <2>2 DEF ContextRefused, CancelExecuting, CancelElsewhere
    <3> QED  BY <1>0, <1>3, <3>1
  <2>3. ~LookAndFindNothing
    <3>1. ASSUME LookAndFindNothing PROVE ~closed /\ session /\ FALSE
      <4>1. UNCHANGED <<server, sessions>>  BY <3>1 DEF LookAndFindNothing
      <4>2. ~closed /\ session  BY <4>1
      <4>3. FALSE  BY <2>q, <3>1, <4>2 DEF LookAndFindNothing, SessionResolves
      <4> QED  BY <4>3
    <3> QED  BY <3>1
  <2>4. ~HeadGone
    <3>1. ASSUME HeadGone PROVE FALSE
      <4>1. server' = server /\ pc = "context" /\ ~Claimable(head)  BY <3>1 DEF HeadGone
      <4>2. head \in Queued  BY <2>q, <3>1 DEF HeadGone
      <4>3. IsHead(head)  BY <1>i, <4>1, <4>2 DEF LaneIsOrdered
      <4>4. LaneFree  BY <1>i, <4>1 DEF LaneFree, ActiveTurnIsExecuted
      <4> QED  BY <4>1, <4>3, <4>4 DEF Claimable
    <3> QED  BY <3>1
  <2>5. CASE PreparationAbandoned
    <3>1. /\ UNCHANGED <<server, sessions, dirty>>
          /\ pc = "context" /\ ~heldOpen
      BY <2>5 DEF PreparationAbandoned
    <3> QED  BY <1>i, <3>1 DEF MarksAreSeen
  <2>6. CASE PumpSettles
    <3>1. UNCHANGED <<server, sessions, unscheduled, dirty>> /\ pc = "ended"
      BY <2>6 DEF PumpSettles
    <3> QED  BY <1>0, <1>3, <3>1
  <2>7. ~(ContextRejected \/ ClaimHead \/ SummaryChanged \/ Execute \/ InvokePrompt
          \/ \E t \in Turn : ObserveHead(t))
    BY DEF ContextRejected, ClaimHead, SummaryChanged, Execute, InvokePrompt, ObserveHead
  <2>8. ~ExecuteClosed  BY DEF ExecuteClosed
  <2>9. ~LeaveExecute  BY Schedules DEF LeaveExecute
  <2>10. ~StreamStep
    <3>1. StreamStep => pc' \in Executing  BY <1>i, StreamSteps
    <3> QED  BY <3>1 DEF Executing
  <2>11. CASE LateNativeTurnId \/ NativeCancelFails
    <3>1. UNCHANGED <<server, sessions, unscheduled, dirty, pc>>
      BY <2>11 DEF LateNativeTurnId, NativeCancelFails
    <3> QED  BY <1>0, <1>3, <3>1
  <2>12. CASE RestartAgent \/ RestartForReset
    <3>1. UNCHANGED <<server, unscheduled, dirty, pc>> /\ (notify' \/ notify' = notify)
      BY <2>12 DEF RestartAgent, RestartForReset
    <3>2. UNCHANGED <<restart, session, unwoken>>
      BY <2>12, Schedules DEF RestartAgent, RestartForReset
    <3> QED  BY <1>i, <2>q, <3>1, <3>2 DEF NoLostWakeup
  <2>13. ~(SessionStopped \/ RestartFails)
    BY <1>i DEF SessionStopped, RestartFails, RestartAgrees
  <2>14. CASE SessionOpened
    <3>1. /\ restart' = "opened" /\ UNCHANGED <<notify, pc>>
          /\ unwoken' = (~notify /\ pc \in {"idle", "context", "ended"})
      BY <2>14 DEF SessionOpened
    <3> QED  BY <3>1
  <2>15. CASE RestartCompletes
    <3>1. UNCHANGED <<server, session, unscheduled>>  BY <2>15 DEF RestartCompletes
    <3>2. pc # "recovering"  BY <2>15, <3>1, Schedules DEF RestartCompletes
    <3>3. CASE notify
      <4>1. ScheduleActor  BY <2>15, <3>2, <3>3 DEF RestartCompletes
      <4> QED  BY <3>1, <4>1, Schedules
    <3>4. CASE ~notify
      <4>1. UNCHANGED <<pc, dirty, unwoken>>  BY <2>15, <3>2, <3>4 DEF RestartCompletes
      <4> QED  BY <1>i, <2>q, <3>1, <3>4, <4>1 DEF NoLostWakeup
    <3> QED  BY <3>3, <3>4
  <2>16. ~(Start \/ CloseBroker \/ FenceStoreWrites \/ Exit)
    BY DEF Start, CloseBroker, FenceStoreWrites, Exit
  <2>17. CASE BeginShutdown
    <3>1. UNCHANGED <<sessions, unscheduled, dirty, pc>> /\ server = "open"
      BY <2>17 DEF BeginShutdown
    <3> QED  BY <1>0, <1>3, <3>1
  <2>18. CASE UNCHANGED vars
    <3>1. UNCHANGED <<server, sessions, unscheduled, dirty, pc>>  BY <2>18 DEF vars
    <3> QED  BY <1>0, <1>3, <3>1
  <2>19. ASSUME NEW t \in Turn, AcceptMessage(t) PROVE unscheduled' # {}  BY <1>1, <2>19
  <2> QED
    BY <1>2, <2>1, <2>2, <2>3, <2>4, <2>5, <2>6, <2>7, <2>8, <2>9, <2>10, <2>11, <2>12, <2>13,
       <2>14, <2>15, <2>16, <2>17, <2>18, <2>19, Steps
<1> QED  BY <1>1, <1>2, <1>3, <1>i, StatusSteps

\* The invariant of the lane holds for any finite number of Turns.
THEOREM LaneInvariance == Spec => []LaneInvariant
<1>1. LaneInvariant /\ [Next]_vars => LaneInvariant'
  <2> SUFFICES ASSUME LaneInvariant, [Next]_vars PROVE LaneInvariant'  OBVIOUS
  <2>1. TypeOK /\ PumpAgrees /\ LaneIsOrdered /\ RestartAgrees /\ MarksAreSeen
        /\ ActiveTurnIsExecuted /\ RecoveryFindsNoLiveTurn
    BY DEF LaneInvariant
  <2>2. TypeOK' /\ PumpAgrees'  BY <2>1, TypeStep, PumpStep
  <2>3. LaneIsOrdered' /\ ActiveTurnIsExecuted'  BY <2>1, OrderStep, ActiveStep
  <2>4. RestartAgrees' /\ RecoveryFindsNoLiveTurn' /\ MarksAreSeen'  BY <2>1, RestartStep, MarksStep
  <2>5. NoLostWakeup'  BY WakeupStep
  <2> QED  BY <2>2, <2>3, <2>4, <2>5 DEF LaneInvariant
<1> QED  BY <1>1, InitHolds, PTL DEF Spec

\* No lane is blocked by a Turn that is active without a pump that works on it
\* (#pumps and #active of GroupXBroker against turns.status).
THEOREM ActiveTurnsAreExecuted == Spec => []ActiveTurnIsExecuted
<1>1. LaneInvariant => ActiveTurnIsExecuted  BY DEF LaneInvariant
<1> QED  BY <1>1, LaneInvariance, PTL

\* recoverAfterRestart never meets a Turn of its own process, although the operator's
\* endpoint accepts messages before it has run.
THEOREM RecoveryMeetsNoLiveTurn == Spec => []RecoveryFindsNoLiveTurn
<1>1. LaneInvariant => RecoveryFindsNoLiveTurn  BY DEF LaneInvariant
<1> QED  BY <1>1, LaneInvariance, PTL

\* While there is a session and a queued Turn, a pump that is over or about to be has a
\* callback pending that starts it again (#scheduleActor, #dirtyActors, onSessionReady),
\* unless the session came back with the restart of a context reset, after which nothing
\* schedules the lane (#completeResetCommand).
THEOREM NoWakeupIsLost == Spec => []NoLostWakeup
<1>1. LaneInvariant => NoLostWakeup  BY DEF LaneInvariant
<1> QED  BY <1>1, LaneInvariance, PTL

----------------------------------------------------------------------------
(* The lane implements TurnProtocol. *)

LEMMA RefinesInit == Init => Protocol!Init
BY DEF Init, Protocol!Init

LEMMA RefinesStep ==
    ASSUME LaneInvariant, [Next]_vars PROVE [Protocol!Next]_(Protocol!vars)
<1>i. TypeOK /\ PumpAgrees /\ LaneIsOrdered  BY DEF LaneInvariant
<1>t. status \in [Turn -> TurnStatus]  BY <1>i DEF TypeOK
<1>h. pc \in Executing \cup {"context", "claimed"} => head \in Turn  BY <1>i, HeadIsTurn
<1>0. ASSUME status' = status, prompted' = prompted PROVE UNCHANGED Protocol!vars
  BY <1>0 DEF Protocol!vars
<1>f. ASSUME NEW t \in Turn, NEW o \in TerminalStatus, status[t] \in ActiveStatus,
             o = "completed" => t \in prompted,
             status' = [status EXCEPT ![t] = o], prompted' = prompted
      PROVE  Protocol!Next
  <2>1. Protocol!Finish(t, o)  BY <1>f DEF Protocol!Finish, ActiveStatus, Protocol!ActiveStatus
  <2> QED  BY <2>1 DEF Protocol!Next, TerminalStatus, Protocol!TerminalStatus
<1>c. ASSUME NEW t \in Turn, status[t] \in ActiveStatus,
             status' = [status EXCEPT ![t] = "cancelling"], prompted' = prompted
      PROVE  [Protocol!Next]_(Protocol!vars)
  <2>1. CASE status[t] = "cancelling"
    <3>1. status' = status  BY <1>t, <1>c, <2>1
    <3> QED  BY <1>0, <1>c, <3>1
  <2>2. CASE status[t] # "cancelling"
    <3>1. Protocol!RequestCancel(t)  BY <1>c, <2>2 DEF Protocol!RequestCancel, ActiveStatus
    <3> QED  BY <3>1 DEF Protocol!Next
  <2> QED  BY <2>1, <2>2
<1>d. ASSUME NEW t \in Turn, NEW o \in {"cancelled", "failed"}, status[t] = "queued",
             status' = [status EXCEPT ![t] = o], prompted' = prompted
      PROVE  Protocol!Next
  <2>1. Protocol!Drop(t, o)  BY <1>d DEF Protocol!Drop
  <2> QED  BY <2>1 DEF Protocol!Next
<1>q. ASSUME NEW t \in Turn, FailQueuedContext(t), prompted' = prompted
      PROVE  [Protocol!Next]_(Protocol!vars)
  <2>1. CASE status[t] = "queued"
    <3>1. status' = [status EXCEPT ![t] = "failed"]  BY <1>q, <2>1 DEF FailQueuedContext
    <3> QED  BY <1>d, <1>q, <2>1, <3>1
  <2>2. CASE status[t] # "queued"
    <3>1. status' = status  BY <1>t, <1>q, <2>2 DEF FailQueuedContext
    <3> QED  BY <1>0, <1>q, <3>1
  <2> QED  BY <2>1, <2>2
<1>1. ASSUME NEW t \in Turn, AcceptMessage(t) PROVE Protocol!Next
  <2>1. status' = [u \in Turn |-> IF u \in {t} THEN "queued" ELSE status[u]]
    BY <1>t, <1>1 DEF AcceptMessage
  <2>2. Protocol!Accept({t})  BY <1>1, <2>1 DEF AcceptMessage, Protocol!Accept
  <2> QED  BY <2>2 DEF Protocol!Next
<1>2. ASSUME NEW t \in Turn, ContextRefused(t) PROVE [Protocol!Next]_(Protocol!vars)
  BY <1>q, <1>2 DEF ContextRefused
<1>3. CASE ContextRejected  BY <1>h, <1>q, <1>3 DEF ContextRejected
<1>4. ASSUME NEW t \in Turn, CancelQueued(t) PROVE Protocol!Next
  BY <1>d, <1>4 DEF CancelQueued
<1>5. ASSUME NEW t \in Turn, CancelExecuting(t) \/ CancelElsewhere(t)
      PROVE  [Protocol!Next]_(Protocol!vars)
  <2>1. /\ status[t] \in ActiveStatus /\ prompted' = prompted
        /\ status' = [status EXCEPT ![t] = "cancelling"]
    BY <1>5 DEF CancelExecuting, CancelElsewhere, ActiveStatus
  <2> QED  BY <1>c, <2>1
<1>6. CASE ClaimHead
  <2>1. /\ head \in Turn /\ status[head] = "queued" /\ LaneFree /\ prompted' = prompted
        /\ status' = [status EXCEPT ![head] = "dispatching"]
    BY <1>6 DEF ClaimHead, Claimable, IsHead, Queued
  <2>2. Protocol!Dispatch(head)
    BY <2>1 DEF Protocol!Dispatch, LaneFree, ActiveStatus, Protocol!ActiveStatus
  <2> QED  BY <2>1, <2>2 DEF Protocol!Next
<1>7. CASE Execute
  <2>1. CASE status[head] = "cancelling"
    <3>1. /\ head \in Turn /\ status' = [status EXCEPT ![head] = "cancelled"] /\ prompted' = prompted
      BY <1>h, <1>7, <2>1 DEF Execute
    <3>2. status[head] \in ActiveStatus /\ "cancelled" \in TerminalStatus
      BY <2>1 DEF ActiveStatus, TerminalStatus
    <3> QED  BY <1>f, <3>1, <3>2
  <2>2. CASE status[head] # "cancelling"  BY <1>0, <1>7, <2>2 DEF Execute
  <2> QED  BY <2>1, <2>2
<1>8. CASE InvokePrompt
  <2>1. /\ head \in Turn /\ status[head] = "dispatching" /\ head \notin prompted
        /\ prompted' = prompted \cup {head} /\ status' = status
    BY <1>i, <1>h, <1>8 DEF InvokePrompt, OutcomeBeforePrompt, PumpAgrees, Executing
  <2>2. Protocol!Prompt(head)  BY <2>1 DEF Protocol!Prompt
  <2> QED  BY <2>1, <2>2 DEF Protocol!Next
<1>9. CASE StreamStep
  <2>1. prompted' = prompted /\ pc \in Executing /\ Progress /\ head \in Turn
    BY <1>i, <1>h, <1>9, StreamSteps
  <2>2. CASE status' = status  BY <1>0, <2>1, <2>2
  <2>3. CASE status' # status
    <3>1. status' = [status EXCEPT ![head] = status'[head]]  BY <1>t, <2>1 DEF Progress
    <3>2. CASE /\ status[head] = "dispatching" /\ status'[head] = "running" /\ head \in prompted
      <4>1. Protocol!Run(head)  BY <2>1, <3>1, <3>2 DEF Protocol!Run
      <4> QED  BY <2>1, <4>1 DEF Protocol!Next
    <3>3. CASE /\ status'[head] \in TerminalStatus /\ ~active.terminal
               /\ status'[head] = "completed" => head \in prompted
      <4>1. status[head] \in ActiveStatus  BY <1>i, <2>1, <3>3 DEF PumpAgrees
      <4> QED  BY <1>f, <2>1, <3>1, <3>3, <4>1
    <3> QED  BY <2>1, <2>3, <3>2, <3>3 DEF Progress
  <2> QED  BY <2>2, <2>3
<1>10. CASE RecoverAfterRestart
  <2> DEFINE requeued == {t \in Turn : status[t] = "dispatching" /\ t \notin prompted}
  <2>1. status' = [t \in Turn |-> IF status[t] \notin ActiveStatus THEN status[t]
                                  ELSE IF t \in requeued THEN "queued" ELSE "interrupted"]
    BY <1>10 DEF RecoverAfterRestart, RecoveredStatus
  <2>2. Protocol!Recover(requeued)
    BY <1>10, <2>1 DEF RecoverAfterRestart, Protocol!Recover, ActiveStatus, Protocol!ActiveStatus
  <2> QED  BY <2>2 DEF Protocol!Next
<1>11. CASE UNCHANGED durable  BY <1>0, <1>11 DEF durable
<1>12. CASE \/ \E t \in Turn : QueuedPublished(t) \/ ObserveHead(t)
            \/ LookAndFindNothing \/ HeadGone \/ PreparationAbandoned \/ SummaryChanged
            \/ ExecuteClosed \/ LateNativeTurnId \/ LeaveExecute \/ PumpSettles \/ NativeCancelFails
  BY <1>11, <1>12 DEF QueuedPublished, ObserveHead, LookAndFindNothing, HeadGone, PreparationAbandoned,
     SummaryChanged, ExecuteClosed, LateNativeTurnId, LeaveExecute, PumpSettles, NativeCancelFails
<1>13. CASE \/ RestartAgent \/ RestartForReset \/ SessionStopped \/ SessionOpened \/ RestartCompletes \/ RestartFails
            \/ Start \/ BeginShutdown \/ CloseBroker \/ FenceStoreWrites \/ Exit
  BY <1>11, <1>13 DEF RestartAgent, RestartForReset, SessionStopped, SessionOpened, RestartCompletes, RestartFails,
     Start, BeginShutdown, CloseBroker, FenceStoreWrites, Exit
<1>14. CASE UNCHANGED vars  BY <1>11, <1>14 DEF vars
<1> QED
  BY <1>1, <1>2, <1>3, <1>4, <1>5, <1>6, <1>7, <1>8, <1>9, <1>10, <1>12, <1>13, <1>14, Steps

\* Every step of the broker's lane, whatever messages, cancellations, restarts, shutdown
\* and crashes come between, is a step in the life of a Turn or leaves it alone: one end
\* per Turn, one prompt per Turn (#terminalOnce, #finishBeforePromptIfStopped).
THEOREM LaneImplementsProtocol == Spec => ImplementsTurnProtocol
<1>1. LaneInvariant /\ [Next]_vars => [Protocol!Next]_(Protocol!vars)  BY RefinesStep
<1> QED
  BY <1>1, RefinesInit, LaneInvariance, PTL DEF Spec, Protocol!Spec, ImplementsTurnProtocol
===============================================================================
