----------------------------- MODULE TurnStore -----------------------------
(***************************************************************************)
(* The durable half of dispatch: the turns, turn_attempts, delivery_cursors *)
(* and summaries tables of SqliteGroupXStore, one action per operation the  *)
(* broker calls.  Each operation is one IMMEDIATE transaction, so it is one *)
(* step; a call whose guard fails throws and changes nothing.  The room is  *)
(* the default room: cursors and summaries are per room and rooms do not    *)
(* interact.  Durable events share one sequence in the code; here messages  *)
(* are numbered 1..highSeq and turn.queued events 1..queuedSeq, because     *)
(* cursors and sources are only compared with messages and enqueue_seq only *)
(* with enqueue_seq.  The other events only widen the gaps.  A Turn whose   *)
(* recorded transport is not the runtime's is never claimed: the broker     *)
(* fails it when it becomes the head, which is EndQueuedTurn here.          *)
(***************************************************************************)
EXTENDS Naturals, FiniteSets, FiniteSetsExt

CONSTANTS
    Actor,          \* agents, the targets of Turns
    Turn,           \* Turn identifiers, each used at most once (createId)
    Attempt,        \* attempt identifiers, each used at most once (createId)
    TargetOf,       \* TargetOf[t]: the actor Turn t will be addressed to
    QueuePerActor,  \* limits.queuePerAgent: most non-terminal Turns of an actor
    MaxSeq,         \* bound on the number of messages
    NoTurn          \* the turn of an attempt identifier not in use

ASSUME StoreAssumption ==
    /\ IsFiniteSet(Turn)
    /\ TargetOf \in [Turn -> Actor]
    /\ NoTurn \notin Turn
    /\ QueuePerActor \in Nat
    /\ MaxSeq \in Nat

VARIABLES
    process,    \* the runtime: "down", "starting" (before recovery) or "serving"
    ready,      \* actors whose session binding and instance are open and ready
    highSeq,    \* sequence of the newest message of the room
    queuedSeq,  \* sequence of the newest turn.queued event
    status,     \* turns.status; "absent" when there is no row
    sourceSeq,  \* sequence of the Turn's source message
    enqueueSeq, \* turns.enqueue_seq
    attempts,   \* turn_attempts rows
    cursor,     \* delivery_cursors.last_delivered_seq, 0 when there is no row
    cursorSummary, \* delivery_cursors.last_summary_seq, 0 for NULL
    summary     \* through_seq of the room's active summary, 0 when there is none

turnVars == <<status, sourceSeq, enqueueSeq>>
cursorVars == <<cursor, cursorSummary>>
roomVars == <<highSeq, queuedSeq, summary>>
runtimeVars == <<process, ready>>
vars == <<runtimeVars, roomVars, turnVars, attempts, cursorVars>>

ActiveStatus   == {"dispatching", "running", "cancelling"}
TerminalStatus == {"completed", "failed", "cancelled", "interrupted"}
TurnStatus     == {"absent", "queued"} \cup ActiveStatus \cup TerminalStatus

\* prompted and started stand for prompt_invoked_at and started_at being set;
\* terminal_at is set exactly when the phase becomes "terminal".
AttemptRow ==
    [turn      : Turn \cup {NoTurn},
     phase     : {"prepared", "prompt_invoked", "native_started", "terminal"},
     certainty : {"not_delivered", "unknown", "delivered"},
     context   : Nat,
     summary   : Nat,
     prompted  : BOOLEAN,
     started   : BOOLEAN]

NoAttempt == [turn |-> NoTurn, phase |-> "terminal", certainty |-> "not_delivered",
              context |-> 0, summary |-> 0, prompted |-> FALSE, started |-> FALSE]

Open(x) == attempts[x].turn # NoTurn /\ attempts[x].phase # "terminal"

Init ==
    /\ process = "down" /\ ready = {}
    /\ highSeq = 0 /\ queuedSeq = 0 /\ summary = 0
    /\ status = [t \in Turn |-> "absent"]
    /\ sourceSeq = [t \in Turn |-> 0]
    /\ enqueueSeq = [t \in Turn |-> 0]
    /\ attempts = [x \in Attempt |-> NoAttempt]
    /\ cursor = [a \in Actor |-> 0]
    /\ cursorSummary = [a \in Actor |-> 0]

----------------------------------------------------------------------------
(* The runtime process and its sessions *)

\* A crash, or a close that has finished: nothing durable changes.
Stop ==
    /\ process # "down"
    /\ process' = "down"
    /\ UNCHANGED <<ready, roomVars, turnVars, attempts, cursorVars>>

\* A new process closes the bindings and instances the last one left behind
\* (recoverStaleRuntimeRecords).
Start ==
    /\ process = "down"
    /\ process' = "starting" /\ ready' = {}
    /\ UNCHANGED <<roomVars, turnVars, attempts, cursorVars>>

\* createAgentInstance .. markSessionBindingReady
OpenSession(a) ==
    /\ process # "down" /\ a \notin ready
    /\ ready' = ready \cup {a}
    /\ UNCHANGED <<process, roomVars, turnVars, attempts, cursorVars>>

\* closeSessionBinding and finishAgentInstance
CloseSession(a) ==
    /\ process # "down" /\ a \in ready
    /\ ready' = ready \ {a}
    /\ UNCHANGED <<process, roomVars, turnVars, attempts, cursorVars>>

----------------------------------------------------------------------------
(* Accepting work.  The operator's endpoint takes messages and cancellations   *)
(* as soon as HTTP listens, before recovery; dispatch waits for the sessions.  *)

TurnsOf(a, statuses) == {t \in Turn : TargetOf[t] = a /\ status[t] \in statuses}

\* Mutant: the limit is compared with the Turns already there.
QueueLimitOffByOne(a) ==
    Cardinality(TurnsOf(a, {"queued"} \cup ActiveStatus)) <= QueuePerActor

WithinQueueLimit(a) ==
    Cardinality(TurnsOf(a, {"queued"} \cup ActiveStatus)) + 1 <= QueuePerActor

\* Mutant: turn.queued events do not take a number of their own.
EnqueueTurnsWithoutNumber(S, source) ==
    /\ \A t \in S : status[t] = "absent" /\ WithinQueueLimit(TargetOf[t])
    /\ queuedSeq' = queuedSeq
    /\ status' = [t \in Turn |-> IF t \in S THEN "queued" ELSE status[t]]
    /\ sourceSeq' = [t \in Turn |-> IF t \in S THEN source ELSE sourceSeq[t]]
    /\ enqueueSeq' = [t \in Turn |-> IF t \in S THEN queuedSeq + 1 ELSE enqueueSeq[t]]

\* One queued Turn for each target of a message.  The targets are different
\* actors and only Turns of one actor are ordered, so they may share a number.
EnqueueTurns(S, source) ==
    /\ \A t \in S : status[t] = "absent" /\ WithinQueueLimit(TargetOf[t])
    /\ \A t, u \in S : TargetOf[t] = TargetOf[u] => t = u
    /\ queuedSeq' = queuedSeq + 1
    /\ status' = [t \in Turn |-> IF t \in S THEN "queued" ELSE status[t]]
    /\ sourceSeq' = [t \in Turn |-> IF t \in S THEN source ELSE sourceSeq[t]]
    /\ enqueueSeq' = [t \in Turn |-> IF t \in S THEN queuedSeq + 1 ELSE enqueueSeq[t]]

\* A new message and the Turns it asks for commit together.
AcceptMessage(S) ==
    /\ process # "down"
    /\ S # {} /\ highSeq < MaxSeq
    /\ highSeq' = highSeq + 1
    /\ EnqueueTurns(S, highSeq + 1)
    /\ UNCHANGED <<runtimeVars, summary, attempts, cursorVars>>

\* mcp.publish: a message without targets.
Publish ==
    /\ process # "down"
    /\ highSeq < MaxSeq
    /\ highSeq' = highSeq + 1
    /\ UNCHANGED <<runtimeVars, queuedSeq, summary, turnVars, attempts, cursorVars>>

\* dispatch_event: Turns whose source is a message already in the room.
AcceptExistingMessage(S, source) ==
    /\ process # "down"
    /\ S # {}
    /\ EnqueueTurns(S, source)
    /\ UNCHANGED <<runtimeVars, highSeq, summary, attempts, cursorVars>>

----------------------------------------------------------------------------
(* Dispatch *)

\* Mutant: a Turn that is being cancelled no longer holds the lane.
LaneFreeOnceCancelling(a) == TurnsOf(a, {"dispatching", "running"}) = {}

\* No Turn of the actor is active: one native prompt at a time for an agent.
LaneFree(a) == TurnsOf(a, ActiveStatus) = {}

\* Mutant: the lane takes any queued Turn.
LaneUnordered(t) == status[t] = "queued"

\* The queued Turn of lowest enqueue_seq: lanes are FIFO.
LaneHead(t) ==
    /\ status[t] = "queued"
    /\ \A u \in TurnsOf(TargetOf[t], {"queued"}) : enqueueSeq[t] <= enqueueSeq[u]

\* The packet must reach the source message and what was already delivered, and
\* stay within the room; a summary in it must be the active one.
ValidContext(t, context, summarySeq) ==
    /\ Max({sourceSeq[t], cursor[TargetOf[t]]}) <= context
    /\ context <= highSeq
    /\ summarySeq <= context
    /\ summarySeq # 0 => summarySeq = summary

\* claimNextQueuedTurn: the head becomes dispatching with a prepared attempt.
ClaimNextQueuedTurn(t, x, context, summarySeq) ==
    /\ process = "serving" /\ TargetOf[t] \in ready
    /\ LaneFree(TargetOf[t])
    /\ LaneHead(t)
    /\ ValidContext(t, context, summarySeq)
    /\ attempts[x].turn = NoTurn
    /\ status' = [status EXCEPT ![t] = "dispatching"]
    /\ attempts' = [attempts EXCEPT ![x] =
                      [turn |-> t, phase |-> "prepared", certainty |-> "not_delivered",
                       context |-> context, summary |-> summarySeq,
                       prompted |-> FALSE, started |-> FALSE]]
    /\ UNCHANGED <<runtimeVars, roomVars, sourceSeq, enqueueSeq, cursorVars>>

\* The write-ahead marker: committed before the adapter is given the prompt.
MarkPromptInvoked(x) ==
    /\ process = "serving" /\ Open(x)
    /\ status[attempts[x].turn] = "dispatching"
    /\ attempts[x].phase = "prepared" /\ attempts[x].certainty = "not_delivered"
    /\ attempts' = [attempts EXCEPT ![x].phase = "prompt_invoked",
                                    ![x].certainty = "unknown",
                                    ![x].prompted = TRUE]
    /\ UNCHANGED <<runtimeVars, roomVars, turnVars, cursorVars>>

\* Both columns only move forward.
AdvanceDeliveryCursor(row) ==
    LET a == TargetOf[row.turn] IN
    /\ cursor' = [cursor EXCEPT ![a] = Max({cursor[a], row.context})]
    /\ cursorSummary' = [cursorSummary EXCEPT ![a] = Max({cursorSummary[a], row.summary})]

\* The first native event: what the packet carried is now delivered.  A Turn
\* being cancelled stays "cancelling".
MarkAttemptRunning(x) ==
    LET t == attempts[x].turn IN
    /\ process = "serving" /\ Open(x)
    /\ status[t] \in ActiveStatus
    /\ attempts[x].phase = "prompt_invoked"
    /\ status' = [status EXCEPT ![t] = IF status[t] = "dispatching" THEN "running" ELSE @]
    /\ attempts' = [attempts EXCEPT ![x].phase = "native_started",
                                    ![x].certainty = "delivered",
                                    ![x].started = TRUE]
    /\ AdvanceDeliveryCursor(attempts[x])
    /\ UNCHANGED <<runtimeVars, roomVars, sourceSeq, enqueueSeq>>

\* Mutant: native cancellation may be requested for a Turn still queued.
RequestCancellationOfQueued(t) ==
    /\ process # "down"
    /\ status[t] \in {"queued", "dispatching", "running"}
    /\ status' = [status EXCEPT ![t] = "cancelling"]
    /\ UNCHANGED <<runtimeVars, roomVars, sourceSeq, enqueueSeq, attempts, cursorVars>>

RequestTurnCancellation(t) ==
    /\ process # "down"
    /\ status[t] \in {"dispatching", "running"}
    /\ status' = [status EXCEPT ![t] = "cancelling"]
    /\ UNCHANGED <<runtimeVars, roomVars, sourceSeq, enqueueSeq, attempts, cursorVars>>

\* cancelQueuedTurn and failQueuedTurn: a Turn that was never claimed ends.
EndQueuedTurn(t, outcome) ==
    /\ process # "down"
    /\ status[t] = "queued"
    /\ status' = [status EXCEPT ![t] = outcome]
    /\ UNCHANGED <<runtimeVars, roomVars, sourceSeq, enqueueSeq, attempts, cursorVars>>

\* Mutant: the attempt named by a terminal write may be an earlier one.
CanTerminalizeByAnyAttempt(x, outcome) ==
    /\ attempts[x].turn # NoTurn
    /\ status[attempts[x].turn] \in ActiveStatus
    /\ outcome = "completed" => attempts[x].certainty = "delivered"

CanTerminalize(x, outcome) ==
    /\ Open(x)
    /\ status[attempts[x].turn] \in ActiveStatus
    /\ outcome = "completed" => attempts[x].certainty = "delivered"

\* The Turn and its attempt end together; a completed Turn leaves its answer
\* in the room as a new message.
TerminalizeTurn(x, outcome) ==
    /\ process = "serving"
    /\ CanTerminalize(x, outcome)
    /\ status' = [status EXCEPT ![attempts[x].turn] = outcome]
    /\ attempts' = [attempts EXCEPT ![x].phase = "terminal"]
    /\ IF outcome = "completed"
       THEN highSeq < MaxSeq /\ highSeq' = highSeq + 1
       ELSE UNCHANGED highSeq
    /\ UNCHANGED <<runtimeVars, queuedSeq, summary, sourceSeq, enqueueSeq, cursorVars>>

\* A compaction replaces the summary it was built on by one that reaches
\* further (compare-and-set on the previous summary's id).
ReplaceActiveSummary(previous, throughSeq) ==
    /\ process = "serving"
    /\ previous = summary
    /\ previous < throughSeq /\ throughSeq <= highSeq
    /\ summary' = throughSeq
    /\ UNCHANGED <<runtimeVars, highSeq, queuedSeq, turnVars, attempts, cursorVars>>

----------------------------------------------------------------------------
(* Recovery after a restart *)

OpenAttempts(t) == {x \in Attempt : attempts[x].turn = t /\ Open(x)}

\* Mutant: the write-ahead marker is ignored.
RequeueWhileDispatching(t) == status[t] = "dispatching"

\* Only a Turn whose prompt was certainly not invoked is queued again.
SafeToRequeue(t) ==
    /\ status[t] = "dispatching"
    /\ \E x \in OpenAttempts(t) : /\ attempts[x].phase = "prepared"
                                  /\ attempts[x].certainty = "not_delivered"

\* Mutant: a prompt that may have arrived counts as delivered.
InvokedOpenAttempts(a) ==
    {x \in Attempt : /\ Open(x) /\ attempts[x].certainty # "not_delivered"
                     /\ TargetOf[attempts[x].turn] = a}

\* The attempts whose context recovery counts as delivered.  A requeued Turn's
\* open attempt is not_delivered, so none of these is one.
DeliveredOpenAttempts(a) ==
    {x \in Attempt : /\ Open(x) /\ attempts[x].certainty = "delivered"
                     /\ TargetOf[attempts[x].turn] = a}

\* Every other active Turn is interrupted, and its attempt's certainty becomes
\* unknown; a delivered attempt has its context counted as delivered first.
RecoverAfterRestart ==
    LET active    == {t \in Turn : status[t] \in ActiveStatus}
        requeued  == {t \in active : SafeToRequeue(t)}
        cut       == active \ requeued
    IN
    /\ process = "starting"
    /\ process' = "serving"
    /\ status' = [t \in Turn |-> IF t \in requeued THEN "queued"
                                 ELSE IF t \in cut THEN "interrupted" ELSE status[t]]
    /\ attempts' = [x \in Attempt |->
         IF ~Open(x) THEN attempts[x]
         ELSE IF attempts[x].turn \in requeued THEN [attempts[x] EXCEPT !.phase = "terminal"]
         ELSE [attempts[x] EXCEPT !.phase = "terminal", !.certainty = "unknown"]]
    /\ cursor' = [a \in Actor |->
                    Max({cursor[a]} \cup {attempts[x].context : x \in DeliveredOpenAttempts(a)})]
    /\ cursorSummary' = [a \in Actor |->
                    Max({cursorSummary[a]} \cup {attempts[x].summary : x \in DeliveredOpenAttempts(a)})]
    /\ UNCHANGED <<ready, roomVars, sourceSeq, enqueueSeq>>

----------------------------------------------------------------------------

Dispatch ==
    \/ \E t \in Turn, x \in Attempt, c \in 0..highSeq, s \in {0, summary} :
         ClaimNextQueuedTurn(t, x, c, s)
    \/ \E x \in Attempt : MarkPromptInvoked(x) \/ MarkAttemptRunning(x)
    \/ \E x \in Attempt, o \in TerminalStatus : TerminalizeTurn(x, o)
    \/ \E t \in Turn : RequestTurnCancellation(t)
    \/ \E t \in Turn, o \in {"cancelled", "failed"} : EndQueuedTurn(t, o)

Next ==
    \/ Stop \/ Start \/ RecoverAfterRestart
    \/ \E a \in Actor : OpenSession(a) \/ CloseSession(a)
    \/ \E S \in SUBSET Turn : AcceptMessage(S)
    \/ Publish
    \/ \E S \in SUBSET Turn, m \in 1..highSeq : AcceptExistingMessage(S, m)
    \/ \E m \in 1..highSeq : ReplaceActiveSummary(summary, m)
    \/ Dispatch

Spec == Init /\ [][Next]_vars

----------------------------------------------------------------------------
(* Properties.  The operators marked "Mutant" above are wrong variants of the *)
(* definition that follows them; no action uses them.                         *)

TypeOK ==
    /\ process \in {"down", "starting", "serving"}
    /\ ready \subseteq Actor
    /\ highSeq \in 0..MaxSeq /\ queuedSeq \in Nat
    /\ summary \in 0..highSeq
    /\ status \in [Turn -> TurnStatus]
    /\ sourceSeq \in [Turn -> 0..highSeq]
    /\ enqueueSeq \in [Turn -> 0..queuedSeq]
    /\ attempts \in [Attempt -> AttemptRow]
    /\ cursor \in [Actor -> Nat]
    /\ cursorSummary \in [Actor -> Nat]

\* An agent never works on two Turns at once, whatever the interleaving of
\* claims, cancellations, failures and restarts (claimNextQueuedTurn).
OneActiveTurnPerActor ==
    \A t, u \in Turn :
        /\ TargetOf[t] = TargetOf[u]
        /\ status[t] \in ActiveStatus /\ status[u] \in ActiveStatus
        => t = u

\* An active Turn has one attempt that is not terminal, and no other Turn has
\* any: recovery and terminal writes never leave an attempt dangling.
OpenAttemptIsTheActiveTurns ==
    \A t \in Turn :
        /\ status[t] \in ActiveStatus <=> OpenAttempts(t) # {}
        /\ \A x, y \in OpenAttempts(t) : x = y

\* A prompt is handed to the CLI in at most one attempt of a Turn: neither a
\* restart nor a requeue replays what may have been delivered.
PromptAtMostOnce ==
    \A x, y \in Attempt :
        /\ attempts[x].prompted /\ attempts[y].prompted
        /\ attempts[x].turn = attempts[y].turn
        => x = y

\* Lanes are FIFO: once a Turn has been claimed, every Turn the same actor was
\* sent earlier is over, also when a restart put a claimed Turn back in the lane.
FifoPerActor ==
    \A t, u \in Turn, x \in Attempt :
        /\ TargetOf[t] = TargetOf[u]
        /\ status[t] # "absent"
        /\ attempts[x].turn = u /\ enqueueSeq[t] < enqueueSeq[u]
        => status[t] \in TerminalStatus

\* The delivery cursor is exactly the furthest context of an attempt the CLI
\* started on: a packet that never arrived does not hide room history from the
\* next one, and what did arrive is not sent again.
CursorIsWhatWasDelivered ==
    \A a \in Actor :
        LET delivered == {x \in Attempt : /\ attempts[x].started
                                          /\ TargetOf[attempts[x].turn] = a}
        IN /\ \A x \in delivered : attempts[x].context <= cursor[a]
           /\ cursor[a] # 0 => \E x \in delivered : attempts[x].context = cursor[a]

\* A summary is never counted as delivered beyond the delivered context.
SummaryWithinDelivered == \A a \in Actor : cursorSummary[a] <= cursor[a]

\* A lane holds at most QueuePerActor Turns that are not over; putting a
\* claimed Turn back after a restart does not exceed it.
QueueWithinLimit ==
    \A a \in Actor :
        Cardinality(TurnsOf(a, {"queued"} \cup ActiveStatus)) <= QueuePerActor

\* How an attempt's phase, its flags and the status of its Turn go together.
AttemptAgrees(x) ==
    LET row == attempts[x] IN
    /\ row.turn = NoTurn => row = NoAttempt
    /\ row.turn # NoTurn => status[row.turn] # "absent"
    /\ Open(x) => status[row.turn] \in ActiveStatus
    /\ row.phase = "prepared" => ~row.prompted
    /\ row.phase \in {"prompt_invoked", "native_started"} => row.prompted
    /\ row.phase = "native_started" => row.certainty = "delivered"
    /\ row.certainty = "delivered" => row.started
    /\ Open(x) /\ row.started => row.phase = "native_started"
    /\ Open(x) /\ status[row.turn] = "running" => row.started
    /\ row.prompted /\ status[row.turn] \notin TerminalStatus => Open(x)
    /\ row.summary <= row.context

AttemptsAgree == \A x \in Attempt : AttemptAgrees(x)

\* Nothing an attempt delivered is beyond the actor's cursor.
CursorsCoverAttempts ==
    \A x \in Attempt : attempts[x].started =>
        /\ attempts[x].context <= cursor[TargetOf[attempts[x].turn]]
        /\ attempts[x].summary <= cursorSummary[TargetOf[attempts[x].turn]]

\* The inductive invariant of the proofs.
StoreInvariant ==
    /\ TypeOK
    /\ OneActiveTurnPerActor
    /\ OpenAttemptIsTheActiveTurns
    /\ AttemptsAgree
    /\ PromptAtMostOnce
    /\ FifoPerActor
    /\ CursorsCoverAttempts
    /\ CursorIsWhatWasDelivered
    /\ SummaryWithinDelivered

\* The store keeps the promises of TurnProtocol: a Turn is prompted once one of
\* its attempts is.
Protocol == INSTANCE TurnProtocol WITH
    prompted <- {attempts[x].turn : x \in {y \in Attempt : attempts[y].prompted}}

ImplementsTurnProtocol == Protocol!Spec
============================================================================
