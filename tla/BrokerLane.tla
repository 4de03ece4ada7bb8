----------------------------- MODULE BrokerLane -----------------------------
(***************************************************************************)
(* One dispatch lane of GroupXBroker: the pump that takes the queued Turns *)
(* of one agent through the native CLI, with what can happen around it     *)
(* while it awaits: messages, cancellations, restarts of the agent's       *)
(* session, a graceful stop, a crash and the recovery after it.            *)
(*                                                                         *)
(* JavaScript runs one callback at a time, so a step is the code between   *)
(* two awaits; pc names the await the pump is at.  The store is reduced to *)
(* the status of the Turns and to which of them were prompted: TurnStore   *)
(* has the rest.  Awaits that only take a microtask are left out where no  *)
(* other callback can tell; startAll's last step and recoverAfterRestart   *)
(* are one step for that reason.  Store and publisher errors are not       *)
(* modelled (the publisher's are swallowed by #safePublish).               *)
(***************************************************************************)
EXTENDS Naturals, FiniteSets

CONSTANTS
    Turn,       \* identifiers of the Turns addressed to this agent
    NoTurn      \* what the pump holds before it has observed a head

ASSUME LaneAssumption ==
    /\ IsFiniteSet(Turn)
    /\ NoTurn \notin Turn

VARIABLES
    \* durable
    status,     \* turns.status
    order,      \* turns.enqueue_seq
    prompted,   \* Turns with an attempt whose prompt_invoked_at is set
    \* the runtime
    server,     \* "down", "starting" (HTTP listens, no sessions), "open",
                \* "draining" (context engine closed), "closing" and "fenced"
                \* (#closed, #storeWritesFenced)
    unscheduled,\* Turns whose turn.queued event is being published, after
                \* which the lane is scheduled
    \* the session manager
    session,    \* #sessions has a session for the agent
    restart,    \* the restart flight: "none", "stopping", "opening", "opened"
    notify,     \* a restart command waits for the flight
    unwoken,    \* history: the agent has its session from the restart of a context
                \* reset, no pump was to look for it, and the lane was not
                \* scheduled since
    \* the pump
    pc,         \* where it awaits; "idle" when #pumps has no entry
    dirty,      \* #dirtyActors has the agent
    head,       \* the Turn it prepares or executes
    heldOpen,   \* while it prepares: the binding of its session is still open
    active,     \* the ActiveDispatch of head
    event,      \* the native event handled once turn.started is published
    nativeCancel\* "none", "sent", "acked" (not terminal yet) or "observed"

durable == <<status, order, prompted>>
sessions == <<session, restart, notify, unwoken>>
dispatch == <<active, event, nativeCancel>>
pump == <<pc, dirty, head, heldOpen>>
vars == <<durable, server, unscheduled, sessions, pump, dispatch>>

ActiveStatus   == {"dispatching", "running", "cancelling"}
TerminalStatus == {"completed", "failed", "cancelled", "interrupted"}
TurnStatus     == {"absent", "queued"} \cup ActiveStatus \cup TerminalStatus

\* The awaits of #execute at which #active has an entry for the Turn.
Executing == {"publishing", "streaming", "handling", "awaitCancel", "finishing"}

NoDispatch == [cancelRequested |-> FALSE, aborted |-> FALSE, started |-> FALSE,
               bound |-> FALSE, terminal |-> FALSE, recovery |-> FALSE]

closed == server \in {"closing", "fenced"}
fenced == server = "fenced"

Queued == {t \in Turn : status[t] = "queued"}
IsHead(t) == t \in Queued /\ \A u \in Queued : order[t] <= order[u]
LaneFree == \A t \in Turn : status[t] \notin ActiveStatus

Init ==
    /\ status = [t \in Turn |-> "absent"]
    /\ order = [t \in Turn |-> 0]
    /\ prompted = {}
    /\ server = "down" /\ unscheduled = {}
    /\ session = FALSE /\ restart = "none" /\ notify = FALSE /\ unwoken = FALSE
    /\ pc = "idle" /\ dirty = FALSE /\ head = NoTurn /\ heldOpen = FALSE
    /\ active = NoDispatch /\ event = "none" /\ nativeCancel = "none"

----------------------------------------------------------------------------
(* Scheduling *)

\* Mutant: a lane that already has a pump is not marked dirty.
ScheduleActorIfIdle ==
    IF ~closed /\ pc = "idle" THEN pc' = "look" /\ unwoken' = FALSE /\ UNCHANGED dirty
    ELSE UNCHANGED <<pc, dirty, unwoken>>

\* AgentSessionManager.restart: join the flight there is, or begin one.
RestartSession ==
    IF restart = "none"
    THEN restart' = "stopping" /\ session' = FALSE /\ unwoken' = FALSE
    ELSE UNCHANGED <<restart, session, unwoken>>

\* The pump's local variables go out of scope.
Forget == head' = NoTurn /\ heldOpen' = FALSE

\* #scheduleActor: start the pump, or leave a mark for the one that runs.  The
\* new pump clears the mark at once.
ScheduleActor ==
    IF closed THEN UNCHANGED <<pc, dirty, unwoken>>
    ELSE /\ unwoken' = FALSE
         /\ IF pc = "idle" THEN pc' = "look" /\ dirty' = FALSE
            ELSE dirty' = TRUE /\ UNCHANGED pc

\* prepareNext found nothing to do: the pump goes round again if it was marked
\* meanwhile, otherwise its promise resolves.
EndLoop ==
    IF dirty /\ ~closed THEN pc' = "look" /\ dirty' = FALSE
    ELSE pc' = "ended" /\ UNCHANGED dirty

\* The finally callback of the pump.  Its queueMicrotask is part of the step: a
\* pump started before the microtask runs would only be marked once more.
PumpSettles ==
    /\ pc = "ended"
    /\ IF dirty /\ ~closed THEN pc' = "look" /\ dirty' = FALSE
       ELSE pc' = "idle" /\ UNCHANGED dirty
    /\ UNCHANGED <<durable, server, unscheduled, sessions, head, heldOpen, dispatch>>

\* acceptMessage: the message and the Turn commit, then the events are published.
\* The operator's MCP endpoint does not wait for the runtime to be ready.
AcceptMessage(t) ==
    /\ server \in {"starting", "open"}
    /\ status[t] = "absent"
    /\ status' = [status EXCEPT ![t] = "queued"]
    /\ order' = [order EXCEPT ![t] =
                   1 + Cardinality({u \in Turn : status[u] # "absent"})]
    /\ unscheduled' = unscheduled \cup {t}
    /\ UNCHANGED <<prompted, server, sessions, pump, dispatch>>

\* turn.queued is published (or, after a restart, the interrupted Turns' events).
QueuedPublished(t) ==
    /\ t \in unscheduled
    /\ unscheduled' = unscheduled \ {t}
    /\ ScheduleActor
    /\ UNCHANGED <<durable, server, session, restart, notify, head, heldOpen, dispatch>>

----------------------------------------------------------------------------
(* #prepareNext *)

\* Mutant: sessions are resolved before the session manager is ready.
SessionResolvesEarly == session \/ server = "starting"

\* sessions.resolve: the manager is ready and has a session for the agent.
SessionResolves == session

LookAndFindNothing ==
    /\ pc = "look"
    /\ closed \/ Queued = {} \/ ~SessionResolves
    /\ EndLoop
    /\ UNCHANGED <<durable, server, unscheduled, sessions, head, heldOpen, dispatch>>

\* The head and a session are held across the preparation of the context.
ObserveHead(t) ==
    /\ pc = "look" /\ ~closed /\ server # "draining"
    /\ IsHead(t) /\ SessionResolves
    /\ head' = t /\ heldOpen' = TRUE
    /\ pc' = "context" /\ unwoken' = FALSE
    /\ UNCHANGED <<durable, server, unscheduled, session, restart, notify, dirty, dispatch>>

\* #failQueuedContext, with no look at #closed or #storeWritesFenced.  A Turn
\* cancelled meanwhile stays cancelled.
FailQueuedContext(t) ==
    status' = [status EXCEPT ![t] = IF @ = "queued" THEN "failed" ELSE @]

\* A closed context engine refuses at once (SESSION_NOT_AVAILABLE), and the pump
\* goes on with the next Turn.
ContextRefused(t) ==
    /\ pc = "look" /\ server = "draining"
    /\ IsHead(t) /\ SessionResolves
    /\ FailQueuedContext(t)
    /\ UNCHANGED <<order, prompted, server, unscheduled, sessions, pump, dispatch>>

\* RoomContextEngine.prepare rejects: no budget, a failed or aborted compaction.
ContextRejected ==
    /\ pc = "context"
    /\ FailQueuedContext(head)
    /\ pc' = "look"
    /\ Forget
    /\ UNCHANGED <<order, prompted, server, unscheduled, sessions, dirty, dispatch>>

\* claimNextQueuedTurn finds the observed head still at the head of a free lane.
Claimable(t) == IsHead(t) /\ LaneFree

ClaimHead ==
    /\ pc = "context" /\ ~closed
    /\ heldOpen /\ Claimable(head)
    /\ status' = [status EXCEPT ![head] = "dispatching"]
    /\ pc' = "claimed" /\ heldOpen' = FALSE
    /\ UNCHANGED <<order, prompted, server, unscheduled, sessions, dirty, head, dispatch>>

\* The room's summary was replaced while the context was built: build it again.
SummaryChanged ==
    /\ pc = "context" /\ ~closed
    /\ heldOpen /\ Claimable(head)
    /\ pc' = "look"
    /\ Forget
    /\ UNCHANGED <<durable, server, unscheduled, sessions, dirty, dispatch>>

\* The head was cancelled meanwhile: go on with the next one, if there is one.
HeadGone ==
    /\ pc = "context" /\ ~closed
    /\ heldOpen /\ ~Claimable(head)
    /\ IF Queued # {} /\ head \notin Queued
       THEN pc' = "look" /\ UNCHANGED dirty
       ELSE EndLoop
    /\ Forget
    /\ UNCHANGED <<durable, server, unscheduled, sessions, dispatch>>

\* The broker closed, or the session's binding did and the claim throws.
PreparationAbandoned ==
    /\ pc = "context"
    /\ closed \/ ~heldOpen
    /\ pc' = "ended"
    /\ Forget
    /\ UNCHANGED <<durable, server, unscheduled, sessions, dirty, dispatch>>

----------------------------------------------------------------------------
(* #execute, up to the prompt *)

\* Mutant: a second writer is not stopped by the active.terminal flag.
TerminalAgain(outcome, recover) ==
    IF fenced
    THEN /\ active' = [active EXCEPT !.terminal = TRUE]
         /\ UNCHANGED status
    ELSE /\ status' = [status EXCEPT ![head] = outcome]
         /\ active' = [active EXCEPT !.terminal = TRUE, !.recovery = @ \/ recover]

\* #terminalOnce: the first caller ends the Turn; after the fence nobody does.
\* recover: the failure poisons the session (PROTOCOL_INVALID_MESSAGE).
TerminalOnce(outcome, recover) ==
    IF active.terminal \/ fenced
    THEN /\ active' = [active EXCEPT !.terminal = TRUE]
         /\ UNCHANGED status
    ELSE /\ status' = [status EXCEPT ![head] = outcome]
         /\ active' = [active EXCEPT !.terminal = TRUE, !.recovery = @ \/ recover]

\* #finishBeforePromptIfStopped: how the Turn must end instead of being prompted.
OutcomeBeforePrompt ==
    IF status[head] = "cancelling" THEN "cancelled"
    ELSE IF active.aborted THEN "interrupted" ELSE "none"

\* A Turn claimed just before the broker closed is left for the recovery.
ExecuteClosed ==
    /\ pc = "claimed" /\ closed
    /\ pc' = "ended"
    /\ Forget
    /\ UNCHANGED <<durable, server, unscheduled, sessions, dirty, dispatch>>

\* #execute enters the Turn in #active; a Turn cancelled since the claim ends.
Execute ==
    /\ pc = "claimed" /\ ~closed
    /\ event' = "none" /\ nativeCancel' = "none"
    /\ IF status[head] = "cancelling"
       THEN /\ status' = [status EXCEPT ![head] = "cancelled"]
            /\ active' = [NoDispatch EXCEPT !.cancelRequested = TRUE, !.terminal = TRUE]
            /\ pc' = "finishing"
       ELSE /\ active' = NoDispatch
            /\ pc' = "publishing"
            /\ UNCHANGED status
    /\ UNCHANGED <<order, prompted, server, unscheduled, sessions, dirty, head, heldOpen>>

\* turn.dispatched is published: the last look before the prompt.
StopBeforePrompt ==
    /\ pc = "publishing"
    /\ fenced \/ OutcomeBeforePrompt # "none"
    /\ TerminalOnce(OutcomeBeforePrompt, FALSE)
    /\ pc' = "finishing"
    /\ UNCHANGED <<order, prompted, server, unscheduled, sessions, dirty, head, heldOpen,
                   event, nativeCancel>>

\* markPromptInvoked, and the prompt goes to the adapter.
InvokePrompt ==
    /\ pc = "publishing" /\ ~fenced
    /\ OutcomeBeforePrompt = "none"
    /\ prompted' = prompted \cup {head}
    /\ pc' = "streaming"
    /\ UNCHANGED <<status, order, server, unscheduled, sessions, dirty, head, heldOpen, dispatch>>

----------------------------------------------------------------------------
(* The native event stream.  What the CLI does is external: it reports        *)
(* progress, an end or an error, or its stream just ends.                     *)

NativeOutcome == {"completed", "failed", "cancelled"}

\* What a native event other than transport.error does to a Turn that started.
Settle(kind) ==
    IF kind \in NativeOutcome
    THEN /\ \E recover \in BOOLEAN : TerminalOnce(kind, recover /\ kind = "failed")
         /\ pc' = "finishing"
    ELSE /\ pc' = "streaming"
         /\ UNCHANGED <<status, active>>

\* #bindNativeTurnId: with the first id, a cancellation asked for earlier is sent.
BindNativeTurnId(id) ==
    nativeCancel' =
        IF id /\ ~active.bound /\ active.cancelRequested /\ nativeCancel = "none"
        THEN "sent" ELSE nativeCancel

\* The first event confirms delivery (#markStarted) before it is handled; a
\* Turn being cancelled stays "cancelling".
FirstNativeEvent(kind, id) ==
    /\ pc = "streaming" /\ ~active.terminal /\ ~fenced /\ ~active.started
    /\ BindNativeTurnId(id)
    /\ status' = [status EXCEPT ![head] = IF @ = "dispatching" THEN "running" ELSE @]
    /\ active' = [active EXCEPT !.started = TRUE, !.bound = @ \/ id]
    /\ event' = kind
    /\ pc' = "handling"
    /\ UNCHANGED <<order, prompted, server, unscheduled, sessions, dirty, head, heldOpen>>

\* turn.started is published; the Turn may have ended or the fence fallen since.
StartedPublished ==
    /\ pc = "handling"
    /\ IF active.terminal \/ fenced
       THEN pc' = "finishing" /\ UNCHANGED <<status, active>>
       ELSE Settle(event)
    /\ event' = "none"
    /\ UNCHANGED <<order, prompted, server, unscheduled, sessions, dirty, head, heldOpen,
                   nativeCancel>>

NativeEvent(kind) ==
    /\ pc = "streaming" /\ ~active.terminal /\ ~fenced /\ active.started
    /\ Settle(kind)
    /\ UNCHANGED <<order, prompted, server, unscheduled, sessions, dirty, head, heldOpen,
                   event, nativeCancel>>

\* An event that gives the id late binds it after the Turn started.
LateNativeTurnId ==
    /\ pc = "streaming" /\ ~active.terminal /\ ~fenced /\ active.started /\ ~active.bound
    /\ BindNativeTurnId(TRUE)
    /\ active' = [active EXCEPT !.bound = TRUE]
    /\ UNCHANGED <<durable, server, unscheduled, sessions, pump, event>>

\* transport.error ends the Turn whether or not it started.
TransportError ==
    /\ pc = "streaming" /\ ~active.terminal /\ ~fenced
    /\ \E recover \in BOOLEAN : TerminalOnce("failed", recover)
    /\ pc' = "finishing"
    /\ UNCHANGED <<order, prompted, server, unscheduled, sessions, dirty, head, heldOpen,
                   event, nativeCancel>>

\* The stream ends or throws without an event that ends the Turn.  It waits for
\* the result of a native cancellation that is under way, unless it threw.
StreamEnds(threw) ==
    /\ pc = "streaming"
    /\ IF ~active.terminal /\ ~fenced /\ ~threw /\ active.cancelRequested /\ nativeCancel = "sent"
       THEN pc' = "awaitCancel" /\ UNCHANGED <<status, active>>
       ELSE /\ pc' = "finishing"
            /\ IF active.cancelRequested \/ active.aborted
               THEN TerminalOnce("interrupted", FALSE)
               ELSE \E recover \in BOOLEAN : TerminalOnce("failed", recover)
    /\ UNCHANGED <<order, prompted, server, unscheduled, sessions, dirty, head, heldOpen,
                   event, nativeCancel>>

\* Mutant: the wait for the result has no deadline.
CancelAwaitedForever ==
    /\ pc = "awaitCancel" /\ nativeCancel # "sent"
    /\ TerminalOnce("interrupted", FALSE)
    /\ pc' = "finishing"
    /\ UNCHANGED <<order, prompted, server, unscheduled, sessions, dirty, head, heldOpen,
                   event, nativeCancel>>

\* The result arrived, the cancellation failed or its deadline elapsed.
CancelAwaited ==
    /\ pc = "awaitCancel"
    /\ TerminalOnce("interrupted", FALSE)
    /\ pc' = "finishing"
    /\ UNCHANGED <<order, prompted, server, unscheduled, sessions, dirty, head, heldOpen,
                   event, nativeCancel>>

\* Mutant: a finished Turn ends the pump.
NextTurnNone == pc' = "ended"

\* After a Turn the pump looks for the next one; the mark is not cleared.
NextTurn == pc' = IF closed THEN "ended" ELSE "look"

\* The terminal events are published and #active loses the Turn.
LeaveExecute ==
    /\ pc = "finishing"
    /\ active' = NoDispatch /\ nativeCancel' = "none"
    /\ IF active.recovery /\ ~closed
       THEN pc' = "recovering" /\ RestartSession
       ELSE NextTurn /\ UNCHANGED <<restart, session, unwoken>>
    /\ Forget
    /\ UNCHANGED <<durable, server, unscheduled, notify, dirty, event>>

----------------------------------------------------------------------------
(* Cancellation *)

\* cancelTurn of a Turn that was not claimed; the lane is scheduled again.
CancelQueued(t) ==
    /\ server \in {"starting", "open"}
    /\ status[t] = "queued"
    /\ status' = [status EXCEPT ![t] = "cancelled"]
    /\ ScheduleActor
    /\ UNCHANGED <<order, prompted, server, unscheduled, session, restart, notify, head, heldOpen,
                   dispatch>>

\* cancelTurn of a Turn the pump executes: before the CLI gave it an id the
\* prompt is aborted, afterwards the adapter is asked to cancel it.
CancelExecuting(t) ==
    /\ server \in {"starting", "open"}
    /\ status[t] \in ActiveStatus
    /\ head = t /\ pc \in Executing
    /\ status' = [status EXCEPT ![t] = "cancelling"]
    /\ active' = [active EXCEPT !.cancelRequested = TRUE, !.aborted = @ \/ ~active.bound]
    /\ nativeCancel' = IF active.bound /\ nativeCancel = "none" THEN "sent" ELSE nativeCancel
    /\ UNCHANGED <<order, prompted, server, unscheduled, sessions, pump, event>>

\* cancelTurn of a Turn with no ActiveDispatch: just claimed, or left active by
\* the process before and not recovered yet.
CancelElsewhere(t) ==
    /\ server \in {"starting", "open"}
    /\ status[t] \in {"dispatching", "running"}
    /\ ~(head = t /\ pc \in Executing)
    /\ status' = [status EXCEPT ![t] = "cancelling"]
    /\ UNCHANGED <<order, prompted, server, unscheduled, sessions, pump, dispatch>>

\* The adapter's answer; if it saw the end, that ends the Turn and the stream is
\* aborted (after the end is published, which nothing here tells apart).
NativeCancelResult(observed) ==
    /\ nativeCancel = "sent" /\ pc \in Executing
    /\ nativeCancel' = IF observed THEN "observed" ELSE "acked"
    /\ IF observed THEN TerminalOnce("cancelled", FALSE) ELSE UNCHANGED <<status, active>>
    /\ UNCHANGED <<order, prompted, server, unscheduled, sessions, pump, event>>

\* A rejected cancellation is forgotten, so that a later request sends another.
NativeCancelFails ==
    /\ nativeCancel = "sent" /\ pc \in Executing
    /\ nativeCancel' = "none"
    /\ UNCHANGED <<durable, server, unscheduled, sessions, pump, active, event>>

----------------------------------------------------------------------------
(* Restarts of the session: what asks for them, and their flight *)

\* A restart command schedules the lane when the flight it began or joined is over.
RestartAgent ==
    /\ server = "open"
    /\ notify' = TRUE
    /\ RestartSession
    /\ UNCHANGED <<durable, server, unscheduled, pump, dispatch>>

\* A context reset with resetNativeSessions restarts the agents one after the
\* other, the last of them perhaps while the broker closes, and schedules no lane
\* when a restart is over.
RestartForReset ==
    /\ server \in {"open", "draining", "closing"}
    /\ RestartSession
    /\ UNCHANGED <<durable, server, unscheduled, notify, pump, dispatch>>

\* The adapter has stopped: only now is the binding closed in the store.
SessionStopped ==
    /\ restart = "stopping"
    /\ restart' = "opening" /\ heldOpen' = FALSE
    /\ UNCHANGED <<durable, server, unscheduled, session, notify, unwoken, pc, dirty, head, dispatch>>

SessionOpened ==
    /\ restart = "opening"
    /\ restart' = "opened" /\ session' = TRUE
    /\ unwoken' = (~notify /\ pc \in {"idle", "context", "ended"})
    /\ UNCHANGED <<durable, server, unscheduled, notify, pump, dispatch>>

\* The flight resolves: a pump that waited for it goes on, and a restart command
\* schedules the lane (onSessionReady; notifySessionReady throws once closed).  A
\* reset that waited for it does neither.
RestartCompletes ==
    /\ restart = "opened"
    /\ restart' = "none" /\ notify' = FALSE
    /\ IF pc = "recovering"
       THEN NextTurn /\ dirty' = (dirty \/ (notify /\ ~closed)) /\ UNCHANGED unwoken
       ELSE IF notify THEN ScheduleActor ELSE UNCHANGED <<pc, dirty, unwoken>>
    /\ UNCHANGED <<durable, server, unscheduled, session, head, heldOpen, dispatch>>

\* The adapter did not stop cleanly or did not start again: no session is left.
RestartFails ==
    /\ restart \in {"stopping", "opening"}
    /\ restart' = "none" /\ notify' = FALSE /\ heldOpen' = FALSE
    /\ IF pc = "recovering" THEN NextTurn ELSE UNCHANGED pc
    /\ UNCHANGED <<durable, server, unscheduled, session, unwoken, dirty, head, dispatch>>

----------------------------------------------------------------------------
(* The process *)

Start ==
    /\ server = "down"
    /\ server' = "starting"
    /\ UNCHANGED <<durable, unscheduled, sessions, pump, dispatch>>

\* Mutant: a Turn that was being cancelled is left alone.
RecoveredStatusUnlessCancelling(t) ==
    IF status[t] \notin {"dispatching", "running"} THEN status[t]
    ELSE IF status[t] = "dispatching" /\ t \notin prompted THEN "queued"
    ELSE "interrupted"

\* Only a Turn whose prompt was certainly not invoked is queued again.
RecoveredStatus(t) ==
    IF status[t] \notin ActiveStatus THEN status[t]
    ELSE IF status[t] = "dispatching" /\ t \notin prompted THEN "queued"
    ELSE "interrupted"

\* startAll has opened the sessions; the store recovers, and lanes with queued
\* Turns are scheduled once the events of the interrupted Turns are published.
RecoverAfterRestart ==
    /\ server = "starting"
    /\ server' = "open" /\ session' = TRUE
    /\ status' = [t \in Turn |-> RecoveredStatus(t)]
    /\ unscheduled' = unscheduled \cup {t \in Turn : status'[t] = "queued"}
    /\ UNCHANGED <<order, prompted, restart, notify, unwoken, pump, dispatch>>

\* GroupXRuntime.#performClose: HTTP has drained, the context engine is closed.
\* A preparation under way may still succeed; a new one is refused.
BeginShutdown ==
    /\ server = "open"
    /\ server' = "draining"
    /\ UNCHANGED <<durable, unscheduled, sessions, pump, dispatch>>

\* broker.close(): every active dispatch is aborted.
CloseBroker ==
    /\ server = "draining"
    /\ server' = "closing"
    /\ active' = IF pc \in Executing THEN [active EXCEPT !.aborted = TRUE] ELSE active
    /\ UNCHANGED <<durable, unscheduled, sessions, pump, event, nativeCancel>>

\* Everything settled or the close deadline elapsed; what still runs is fenced.
FenceStoreWrites ==
    /\ server = "closing"
    /\ server' = "fenced"
    /\ active' = IF pc \in Executing THEN [active EXCEPT !.terminal = TRUE] ELSE active
    /\ UNCHANGED <<durable, unscheduled, sessions, pump, event, nativeCancel>>

\* The end of a graceful stop, or a crash at any time.
Exit ==
    /\ server # "down"
    /\ server' = "down"
    /\ pc' = "idle" /\ dirty' = FALSE /\ head' = NoTurn /\ heldOpen' = FALSE
    /\ active' = NoDispatch /\ event' = "none" /\ nativeCancel' = "none"
    /\ session' = FALSE /\ restart' = "none" /\ notify' = FALSE /\ unwoken' = FALSE
    /\ unscheduled' = {}
    /\ UNCHANGED durable

----------------------------------------------------------------------------

Prepare ==
    \/ ContextRejected \/ ClaimHead \/ HeadGone \/ PreparationAbandoned

Look == LookAndFindNothing \/ \E t \in Turn : ObserveHead(t) \/ ContextRefused(t)

BeforePrompt == ExecuteClosed \/ Execute \/ StopBeforePrompt \/ InvokePrompt

Stream ==
    \/ \E kind \in NativeOutcome \cup {"progress"}, id \in BOOLEAN : FirstNativeEvent(kind, id)
    \/ \E kind \in NativeOutcome : NativeEvent(kind)
    \/ TransportError
    \/ \E threw \in BOOLEAN : StreamEnds(threw)

AfterStream == StartedPublished \/ CancelAwaited \/ LeaveExecute \/ PumpSettles

Cancel ==
    \/ \E t \in Turn : CancelQueued(t) \/ CancelExecuting(t) \/ CancelElsewhere(t)
    \/ \E observed \in BOOLEAN : NativeCancelResult(observed)
    \/ NativeCancelFails

Restart == SessionStopped \/ SessionOpened \/ RestartCompletes \/ RestartFails

Process ==
    \/ Start \/ RecoverAfterRestart \/ BeginShutdown \/ CloseBroker
    \/ FenceStoreWrites \/ Exit

Next ==
    \/ \E t \in Turn : AcceptMessage(t) \/ QueuedPublished(t)
    \/ Look \/ Prepare \/ SummaryChanged \/ BeforePrompt
    \/ Stream \/ LateNativeTurnId \/ AfterStream
    \/ Cancel \/ RestartAgent \/ RestartForReset \/ Restart
    \/ Process

Spec == Init /\ [][Next]_vars

\* A callback that is due is run, an await is resumed.  Of what is outside the
\* runtime, a stream ends sooner or later and so does a restart.  The summary
\* cannot be replaced for ever while a context is built: each new one reaches
\* further into a room that gets no more messages.
Fairness ==
    /\ \A t \in Turn : WF_vars(QueuedPublished(t))
    /\ WF_vars(Look) /\ SF_vars(Prepare) /\ WF_vars(BeforePrompt)
    /\ WF_vars(Stream) /\ WF_vars(AfterStream)
    /\ WF_vars(SessionStopped) /\ WF_vars(SessionOpened) /\ WF_vars(RestartCompletes)

FairSpec == Spec /\ Fairness

----------------------------------------------------------------------------
(* Properties.  The operators marked "Mutant" above are wrong variants of the *)
(* definition that follows them; no action uses them.                         *)

TypeOK ==
    /\ status \in [Turn -> TurnStatus]
    /\ order \in [Turn -> Nat]
    /\ prompted \subseteq Turn
    /\ server \in {"down", "starting", "open", "draining", "closing", "fenced"}
    /\ unscheduled \subseteq Turn
    /\ session \in BOOLEAN /\ notify \in BOOLEAN /\ unwoken \in BOOLEAN
    /\ restart \in {"none", "stopping", "opening", "opened"}
    /\ pc \in {"idle", "look", "context", "claimed", "recovering", "ended"} \cup Executing
    /\ dirty \in BOOLEAN /\ heldOpen \in BOOLEAN
    /\ head \in Turn \cup {NoTurn}
    /\ active \in [cancelRequested : BOOLEAN, aborted : BOOLEAN, started : BOOLEAN,
                   bound : BOOLEAN, terminal : BOOLEAN, recovery : BOOLEAN]
    /\ event \in NativeOutcome \cup {"none", "progress"}
    /\ nativeCancel \in {"none", "sent", "acked", "observed"}

\* No Turn is active without a pump that works on it, so that no lane is blocked
\* for good; a broker that is closing may leave a Turn that was not prompted.
ActiveTurnIsExecuted ==
    \A t \in Turn :
        /\ status[t] \in ActiveStatus
        /\ \/ server \in {"open", "draining"}
           \/ server = "closing" /\ t \in prompted
        => head = t /\ pc \notin {"idle", "look", "context", "recovering", "ended"}

\* The recovery, which interrupts every active Turn, never meets one of its own
\* process, although the operator may send messages before it has run.
RecoveryFindsNoLiveTurn ==
    server = "starting" => pc \in {"idle", "look", "ended"}

\* No wakeup is lost but one: while there is a session and a queued Turn, a pump
\* that is over or about to be has a callback pending that starts it again, unless
\* the session came back with the restart of a context reset, which wakes nobody,
\* and the lane was not scheduled since.
NoLostWakeup ==
    /\ server \in {"open", "draining"} /\ session /\ Queued # {}
    /\ pc \in {"idle", "ended"}
    => dirty \/ unscheduled # {} \/ (restart = "opened" /\ notify) \/ unwoken

\* Where the pump is says what it holds: a Turn that is prepared is the head of the
\* lane or was ended meanwhile; one that is executed is active until its first end.
PumpAgrees ==
    /\ head = NoTurn <=> pc \in {"idle", "look", "recovering", "ended"}
    /\ pc = "context" => status[head] \notin ActiveStatus \cup {"absent"}
    /\ pc \in {"claimed", "publishing"} =>
          status[head] \in {"dispatching", "cancelling"} /\ head \notin prompted
    /\ pc = "publishing" => ~active.bound /\ nativeCancel = "none"
    /\ pc \in {"streaming", "handling", "awaitCancel"} => head \in prompted
    /\ pc = "finishing" => active.terminal
    /\ pc \in Executing /\ ~active.terminal => status[head] \in ActiveStatus
    /\ pc \in Executing /\ fenced => active.terminal
    /\ pc \in Executing /\ active.terminal /\ ~fenced => status[head] \in TerminalStatus

\* Turns enter the lane in the order they are accepted, so none comes before the
\* head the pump observed; and only what was claimed is prompted.
LaneIsOrdered ==
    /\ \A t \in Turn : order[t] <= Cardinality({u \in Turn : status[u] # "absent"})
    /\ \A t \in Turn : status[t] \in {"absent", "queued"} => t \notin prompted
    /\ pc = "context" /\ head \in Queued => IsHead(head)

\* There is no session before the first one is opened or while a restart works, and
\* no pump before the process runs.
RestartAgrees ==
    /\ restart \in {"stopping", "opening"} => ~session
    /\ server \in {"down", "starting"} => ~session /\ restart = "none"
    /\ server = "down" => pc = "idle" /\ unscheduled = {}

\* A mark at a pump that is over would be a wakeup nobody takes, and a preparation
\* whose session was replaced has been marked or will be, but by a reset's restart.
MarksAreSeen ==
    /\ pc = "idle" /\ ~closed => ~dirty
    /\ server \in {"open", "draining"} /\ session /\ pc = "context" /\ ~heldOpen
       => dirty \/ (restart = "opened" /\ notify) \/ unwoken

\* The inductive invariant of the proofs.
LaneInvariant ==
    /\ TypeOK
    /\ PumpAgrees
    /\ LaneIsOrdered
    /\ RestartAgrees
    /\ MarksAreSeen
    /\ ActiveTurnIsExecuted
    /\ RecoveryFindsNoLiveTurn
    /\ NoLostWakeup

\* While the runtime stays up with a session, every queued Turn ends, unless the
\* session came back with the restart of a context reset and nothing schedules the
\* lane since: then the Turn waits for the next message or command.
QueuedTurnsEnd ==
    <>[](server = "open" /\ session /\ ~unwoken) =>
        \A t \in Turn : status[t] = "queued" ~> status[t] \in TerminalStatus

\* A cancellation that was accepted ends the Turn, even if the CLI never answers
\* the native cancellation.
CancelledTurnsEnd ==
    <>[](server = "open") =>
        \A t \in Turn : status[t] = "cancelling" ~> status[t] \in TerminalStatus

\* What the documentation says of a graceful stop: queued work is recovered by
\* the next process, so the stop does not end it.
QueuedTurnsSurviveShutdown ==
    [][\A t \in Turn :
         server = "draining" /\ status[t] = "queued" => status'[t] # "failed"]_vars

\* The lane keeps the promises of TurnProtocol, with one actor.
Protocol == INSTANCE TurnProtocol WITH
    Actor <- {"agent"}, TargetOf <- [t \in Turn |-> "agent"]

ImplementsTurnProtocol == Protocol!Spec
============================================================================
