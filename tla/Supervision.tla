----------------------------- MODULE Supervision -----------------------------
(***************************************************************************)
(* What the callers of GroupXBroker see of Turns they wait for: the waits   *)
(* of ask and collect (waitForCorrelation), the watches of observers        *)
(* (watchSubject) and the steering of a watched worker (steerSubject) with  *)
(* the receipts that make commands idempotent.                              *)
(*                                                                          *)
(* One supervision pair with the lane of its worker: Turn First is the task *)
(* and the other Turns are guidance.  The lane is BrokerLane reduced to     *)
(* what callers can tell apart; steps are again the code between awaits.    *)
(* A crash ends every caller, so there is none here.                        *)
(***************************************************************************)
EXTENDS Naturals, FiniteSets

CONSTANTS
    Turn,       \* Turns of the worker's lane
    First,      \* the worker Turn the pair was created with
    NoTurn,
    Waiter,     \* calls of waitForCorrelation
    Watcher,    \* calls of watchSubject, by one or several observers
    Flight,     \* calls of steerSubject
    Command,    \* clientCommandIds of steers; a retry uses the same one
    SteerLimit, \* limits.steersPerSubjectTurn
    MaxCursor   \* bound: no milestones but ends once a Turn has had so many

ASSUME SupervisionAssumption ==
    /\ IsFiniteSet(Turn) /\ First \in Turn /\ NoTurn \notin Turn
    /\ Command # {}
    /\ SteerLimit \in Nat /\ MaxCursor \in Nat

VARIABLES
    \* the lane and the store
    status,     \* turns.status
    order,      \* turns.enqueue_seq
    members,    \* worker rows of supervision_pair_turns
    steerCount, \* supervision_steer_counts
    receipt,    \* the Turn of the client_commands row of a steer
    \* the broker
    closed,     \* #closed and closingController
    unnotified, \* ended Turns whose event is published before the waiters are told
    cursor,     \* #watchCursors
    turnWaiters,     \* #turnWaiters: pairs of a Turn and a wait subscribed to it
    milestoneWaiters,\* #milestoneWaiters: pairs of a Turn and a watch
    \* the calls
    waits,      \* "idle", "waiting" or "settled", for which Turns, how it settled
    watches,    \* the same, with the subject and what was read before waiting
    steers      \* "idle", "cancelling", "attaching", with the Turn to attach

lane == <<status, order, unnotified>>
pair == <<members, steerCount, receipt>>
waiting == <<turnWaiters, waits>>
watching == <<cursor, milestoneWaiters, watches>>
supervisionVars == <<lane, pair, closed, waiting, watching, steers>>

ActiveStatus   == {"dispatching", "running", "cancelling"}
TerminalStatus == {"completed", "failed", "cancelled", "interrupted"}
TurnStatus     == {"absent", "queued"} \cup ActiveStatus \cup TerminalStatus

Terminal(t) == status[t] \in TerminalStatus

IdleWait  == [pc |-> "idle", turns |-> {}, result |-> "none"]
IdleWatch == [pc |-> "idle", subject |-> NoTurn, seen |-> "live", start |-> 0,
              result |-> "none"]
IdleSteer == [pc |-> "idle", command |-> CHOOSE k \in Command : TRUE, next |-> NoTurn]

SupervisionInit ==
    /\ status = [t \in Turn |-> IF t = First THEN "queued" ELSE "absent"]
    /\ order = [t \in Turn |-> IF t = First THEN 1 ELSE 0]
    /\ members = {First}
    /\ steerCount = [t \in Turn |-> 0]
    /\ receipt = [k \in Command |-> NoTurn]
    /\ closed = FALSE /\ unnotified = {}
    /\ cursor = [t \in Turn |-> 0]
    /\ turnWaiters = {} /\ milestoneWaiters = {}
    /\ waits = [w \in Waiter |-> IdleWait]
    /\ watches = [w \in Watcher |-> IdleWatch]
    /\ steers = [f \in Flight |-> IdleSteer]

----------------------------------------------------------------------------
(* Notification *)

\* Mutant: a wait that is over takes every listener of its Turns with it.
ForgetAllListeners(S) ==
    turnWaiters' = {p \in turnWaiters : \A w \in S : p[1] \notin waits[w].turns}

\* cleanup of waitForCorrelation: the waits in S unsubscribe.
ForgetWaits(S) ==
    turnWaiters' = {p \in turnWaiters : p[2] \notin S}

SettleWaits(S, result) ==
    /\ waits' = [w \in Waiter |-> IF w \in S
                   THEN [waits[w] EXCEPT !.pc = "settled", !.result = result] ELSE waits[w]]
    /\ ForgetWaits(S)

\* finish of watchSubject: the watches in S unsubscribe.
SettleWatches(S, result) ==
    /\ watches' = [w \in Watcher |-> IF w \in S
                     THEN [watches[w] EXCEPT !.pc = "settled", !.result = result]
                     ELSE watches[w]]
    /\ milestoneWaiters' = {p \in milestoneWaiters : p[2] \notin S}

\* Mutant: the milestone is counted and nobody is woken.
EmitMilestoneUnheard(t) ==
    /\ cursor' = [cursor EXCEPT ![t] = @ + 1]
    /\ UNCHANGED <<watches, milestoneWaiters>>

\* #nextWatchCursor and #emitMilestone
EmitMilestone(t) ==
    /\ cursor' = [cursor EXCEPT ![t] = @ + 1]
    /\ SettleWatches({w \in Watcher : <<t, w>> \in milestoneWaiters}, "milestone")

\* Mutant: a wait is over with the first of its Turns.
WokenByAny(t) == {w \in Waiter : <<t, w>> \in turnWaiters}

\* The waits subscribed to t whose Turns are all over now.
WokenBy(t) ==
    {w \in Waiter : /\ <<t, w>> \in turnWaiters
                    /\ \A u \in waits[w].turns : status'[u] \in TerminalStatus}

\* #notifyTurnTerminal
NotifyTurnTerminal(t) ==
    /\ EmitMilestone(t)
    /\ SettleWaits(WokenBy(t), "terminal")

----------------------------------------------------------------------------
(* The worker's lane *)

Claim(t) ==
    /\ ~closed /\ status[t] = "queued"
    /\ \A u \in Turn : /\ status[u] \notin ActiveStatus
                       /\ status[u] = "queued" => order[t] <= order[u]
    /\ status' = [status EXCEPT ![t] = "dispatching"]
    /\ UNCHANGED <<order, unnotified, pair, closed, waiting, watching, steers>>

\* The first native event (#markStarted).
Start(t) ==
    /\ status[t] = "dispatching"
    /\ status' = [status EXCEPT ![t] = "running"]
    /\ UNCHANGED <<order, unnotified, pair, closed, waiting, watching, steers>>

\* turn.started once it is published, a tool call or a flush of content.
Milestone(t) ==
    /\ status[t] \in {"running", "cancelling"}
    /\ \A u \in Turn : cursor[u] < MaxCursor
    /\ EmitMilestone(t)
    /\ UNCHANGED <<lane, pair, closed, waiting, steers>>

\* #terminalOnce: the store and the waiters change in one step.
Finish(t, outcome) ==
    /\ status[t] \in ActiveStatus
    /\ outcome = "completed" => status[t] # "dispatching"
    /\ status' = [status EXCEPT ![t] = outcome]
    /\ NotifyTurnTerminal(t)
    /\ UNCHANGED <<order, unnotified, pair, closed, steers>>

\* #failQueuedContext: the Turn has failed, its event is being published.
FailQueued(t) ==
    /\ status[t] = "queued"
    /\ status' = [status EXCEPT ![t] = "failed"]
    /\ unnotified' = unnotified \cup {t}
    /\ UNCHANGED <<order, pair, closed, waiting, watching, steers>>

FailurePublished(t) ==
    /\ t \in unnotified
    /\ unnotified' = unnotified \ {t}
    /\ UNCHANGED <<status, order>>
    /\ NotifyTurnTerminal(t)
    /\ UNCHANGED <<pair, closed, steers>>

\* The synchronous part of cancelTurn.
RequestCancel(t) ==
    IF status[t] = "queued"
    THEN /\ status' = [status EXCEPT ![t] = "cancelled"]
         /\ NotifyTurnTerminal(t)
    ELSE /\ status' = [status EXCEPT ![t] =
                         IF @ \in {"dispatching", "running"} THEN "cancelling" ELSE @]
         /\ UNCHANGED <<waiting, watching>>

\* A user cancels the worker.
CancelTurn(t) ==
    /\ ~closed
    /\ status[t] \in {"queued", "dispatching", "running"}
    /\ RequestCancel(t)
    /\ UNCHANGED <<order, unnotified, pair, closed, steers>>

\* broker.close(): every wait and every watch is aborted.
Close ==
    /\ ~closed
    /\ closed' = TRUE
    /\ SettleWaits({w \in Waiter : waits[w].pc = "waiting"}, "aborted")
    /\ SettleWatches({w \in Watcher : watches[w].pc = "waiting"}, "aborted")
    /\ UNCHANGED <<lane, pair, cursor, steers>>

----------------------------------------------------------------------------
(* waitForCorrelation *)

\* A wait for Turns that are all over does not wait; the others subscribe to
\* those that are not.
WaitForCorrelation(w, S) ==
    /\ ~closed /\ waits[w].pc = "idle"
    /\ S # {} /\ \A t \in S : status[t] # "absent"
    /\ IF \A t \in S : Terminal(t)
       THEN /\ waits' = [waits EXCEPT ![w] = [pc |-> "settled", turns |-> S, result |-> "terminal"]]
            /\ UNCHANGED turnWaiters
       ELSE /\ waits' = [waits EXCEPT ![w] = [pc |-> "waiting", turns |-> S, result |-> "none"]]
            /\ turnWaiters' = turnWaiters \cup {<<t, w>> : t \in {u \in S : ~Terminal(u)}}
    /\ UNCHANGED <<lane, pair, closed, watching, steers>>

\* The timeout, or the caller's own abort signal.
WaitEnds(w, result) ==
    /\ waits[w].pc = "waiting"
    /\ SettleWaits({w}, result)
    /\ UNCHANGED <<lane, pair, closed, watching, steers>>

WaitReturns(w) ==
    /\ waits[w].pc = "settled"
    /\ waits' = [waits EXCEPT ![w] = IdleWait]
    /\ UNCHANGED <<lane, pair, closed, turnWaiters, watching, steers>>

----------------------------------------------------------------------------
(* watchSubject and steerSubject *)

\* #resolveWatchedWorker: any worker of the pair that the caller names.  Without
\* a name it is the liveliest one, the rows being in the order of random ids.
Watched(t) == t \in members

\* A subject that is over is reported at once; otherwise the watch waits.  The
\* row of the subject is read here and kept until the snapshot is built; which
\* of the live statuses it has makes no difference.
WatchSubject(w, t) ==
    /\ ~closed /\ watches[w].pc = "idle"
    /\ Watched(t)
    /\ watches' = [watches EXCEPT ![w] =
                     [pc |-> IF Terminal(t) THEN "settled" ELSE "waiting", subject |-> t,
                      seen |-> IF Terminal(t) THEN status[t] ELSE "live",
                      start |-> cursor[t],
                      result |-> IF Terminal(t) THEN "milestone" ELSE "none"]]
    /\ milestoneWaiters' = milestoneWaiters \cup (IF Terminal(t) THEN {} ELSE {<<t, w>>})
    /\ UNCHANGED <<lane, pair, closed, waiting, cursor, steers>>

WatchEnds(w, result) ==
    /\ watches[w].pc = "waiting"
    /\ SettleWatches({w}, result)
    /\ UNCHANGED <<lane, pair, closed, waiting, cursor, steers>>

\* #buildSupervisionSnapshot reports the status of the row it is given.
SnapshotStatus(w) == watches[w].seen

\* The snapshot is recorded and returned; an aborted watch throws instead.
WatchReturns(w) ==
    /\ watches[w].pc = "settled"
    /\ watches' = [watches EXCEPT ![w] = IdleWatch]
    /\ UNCHANGED <<lane, pair, closed, waiting, cursor, milestoneWaiters, steers>>

\* Mutant: the receipt of a command that was accepted before is overlooked.
AcceptGuidanceAgain(f, k, t) ==
    /\ status[t] = "absent"
    /\ status' = [status EXCEPT ![t] = "queued"]
    /\ order' = [order EXCEPT ![t] = 1 + Cardinality({u \in Turn : status[u] # "absent"})]
    /\ receipt' = [receipt EXCEPT ![k] = t]
    /\ steers' = [steers EXCEPT ![f] = [pc |-> "attaching", command |-> k, next |-> t]]

\* acceptMessage for a steer: a repeated command gets the Turn of its receipt.
AcceptGuidance(f, k, t) ==
    /\ IF receipt[k] # NoTurn
       THEN t = receipt[k] /\ UNCHANGED <<status, order, receipt>>
       ELSE /\ status[t] = "absent"
            /\ status' = [status EXCEPT ![t] = "queued"]
            /\ order' = [order EXCEPT ![t] = 1 + Cardinality({u \in Turn : status[u] # "absent"})]
            /\ receipt' = [receipt EXCEPT ![k] = t]
    /\ steers' = [steers EXCEPT ![f] = [pc |-> "attaching", command |-> k, next |-> t]]

\* incrementSteerCount comes first, whatever becomes of the steer.
SpendSteer(t) ==
    /\ ~closed /\ Watched(t)
    /\ steerCount[t] < SteerLimit
    /\ steerCount' = [steerCount EXCEPT ![t] = @ + 1]

\* The guidance is queued behind the worker's Turn.
Nudge(f, k, t) ==
    /\ steers[f].pc = "idle"
    /\ SpendSteer(t)
    /\ \E u \in Turn : AcceptGuidance(f, k, u)
    /\ UNCHANGED <<members, unnotified, closed, waiting, watching>>

\* A limit of the lane rejects the guidance.
NudgeRejected(t) ==
    /\ SpendSteer(t)
    /\ UNCHANGED <<members, receipt, lane, closed, waiting, watching, steers>>

\* The worker's Turn is cancelled first, which may await its adapter.
Interrupt(f, k, t) ==
    /\ steers[f].pc = "idle"
    /\ ~Terminal(t) /\ SpendSteer(t)
    /\ RequestCancel(t)
    /\ steers' = [steers EXCEPT ![f] = [pc |-> "cancelling", command |-> k, next |-> NoTurn]]
    /\ UNCHANGED <<members, receipt, order, unnotified, closed>>

InterruptAccepted(f) ==
    /\ steers[f].pc = "cancelling" /\ ~closed
    /\ \E u \in Turn : AcceptGuidance(f, steers[f].command, u)
    /\ UNCHANGED <<members, steerCount, unnotified, closed, waiting, watching>>

\* The broker closed, or a limit of the lane rejects the guidance.
InterruptRejected(f) ==
    /\ steers[f].pc = "cancelling"
    /\ steers' = [steers EXCEPT ![f] = IdleSteer]
    /\ UNCHANGED <<lane, pair, closed, waiting, watching>>

\* Mutant: like acceptMessage, the steer gives up once the broker closed.
AttachUnlessClosed(t) ==
    members' = IF closed THEN members ELSE members \cup {t}

\* attachSupervisionWorkerTurn; a Turn that has a row already makes it throw.
Attach(t) == members' = members \cup {t}

\* The events of the guidance are published; the steer attaches its Turn and
\* ends, with an error if another flight of the command was first.
SteerReturns(f) ==
    /\ steers[f].pc = "attaching"
    /\ Attach(steers[f].next)
    /\ steers' = [steers EXCEPT ![f] = IdleSteer]
    /\ UNCHANGED <<lane, steerCount, receipt, closed, waiting, watching>>

----------------------------------------------------------------------------

Lane ==
    \E t \in Turn :
        \/ Claim(t) \/ Start(t) \/ Milestone(t)
        \/ \E o \in TerminalStatus : Finish(t, o)
        \/ FailQueued(t) \/ FailurePublished(t) \/ CancelTurn(t)

Wait ==
    \E w \in Waiter :
        \/ \E S \in SUBSET Turn : WaitForCorrelation(w, S)
        \/ \E result \in {"timeout", "aborted"} : WaitEnds(w, result)
        \/ WaitReturns(w)

Watch ==
    \E w \in Watcher :
        \/ \E t \in Turn : WatchSubject(w, t)
        \/ \E result \in {"timeout", "aborted"} : WatchEnds(w, result)
        \/ WatchReturns(w)

Steer ==
    \/ \E t \in Turn : NudgeRejected(t)
    \/ \E f \in Flight :
        \/ \E k \in Command, t \in Turn : Nudge(f, k, t) \/ Interrupt(f, k, t)
        \/ InterruptAccepted(f) \/ InterruptRejected(f) \/ SteerReturns(f)

SupervisionNext == Lane \/ Close \/ Wait \/ Watch \/ Steer

SupervisionSpec == SupervisionInit /\ [][SupervisionNext]_supervisionVars

----------------------------------------------------------------------------
(* Properties.  The operators marked "Mutant" above are wrong variants of the *)
(* definition that follows them; no action uses them.                         *)

WaitState ==
    [pc : {"idle", "waiting", "settled"}, turns : SUBSET Turn,
     result : {"none", "terminal", "timeout", "aborted"}]
WatchState ==
    [pc : {"idle", "waiting", "settled"}, subject : Turn \cup {NoTurn},
     seen : TerminalStatus \cup {"live"}, start : Nat,
     result : {"none", "milestone", "timeout", "aborted"}]
SteerState ==
    [pc : {"idle", "cancelling", "attaching"}, command : Command, next : Turn \cup {NoTurn}]

SupervisionTypeOK ==
    /\ status \in [Turn -> TurnStatus]
    /\ order \in [Turn -> Nat]
    /\ members \subseteq Turn
    /\ steerCount \in [Turn -> 0..SteerLimit]
    /\ receipt \in [Command -> Turn \cup {NoTurn}]
    /\ closed \in BOOLEAN
    /\ unnotified \subseteq Turn
    /\ cursor \in [Turn -> Nat]
    /\ turnWaiters \subseteq Turn \X Waiter
    /\ milestoneWaiters \subseteq Turn \X Watcher
    /\ waits \in [Waiter -> WaitState]
    /\ watches \in [Watcher -> WatchState]
    /\ steers \in [Flight -> SteerState]
    /\ \A f \in Flight : steers[f].pc = "attaching" => steers[f].next \in Turn

\* A wait never misses the end of its Turns: while it waits it is subscribed to
\* all that are not over, and one of them has not told its listeners yet.
NoMissedEnd ==
    \A w \in Waiter : waits[w].pc = "waiting" =>
        /\ \A t \in waits[w].turns : ~Terminal(t) => <<t, w>> \in turnWaiters
        /\ \E t \in waits[w].turns :
             <<t, w>> \in turnWaiters /\ (~Terminal(t) \/ t \in unnotified)

\* A wait that says "terminal" waited for every one of its Turns.
TerminalWaitIsTrue ==
    \A w \in Waiter :
        waits[w].result = "terminal" => \A t \in waits[w].turns : Terminal(t)

\* A watch misses neither a milestone of its subject nor its end.
WatchMissesNothing ==
    \A w \in Watcher : watches[w].pc = "waiting" =>
        LET t == watches[w].subject IN
        /\ <<t, w>> \in milestoneWaiters
        /\ cursor[t] = watches[w].start
        /\ ~Terminal(t) \/ t \in unnotified

\* However often a steer is sent, one Turn at most comes of it.
OneTurnPerSteer ==
    /\ \A t \in Turn \ {First} : status[t] # "absent" => \E k \in Command : receipt[k] = t
    /\ \A j, k \in Command : receipt[j] = receipt[k] /\ receipt[k] # NoTurn => j = k

\* Guidance is in the pair, or a steer is about to attach it: no Turn is left
\* that its observer can neither watch nor steer.
GuidanceReachesPair ==
    \A k \in Command : receipt[k] \notin members \cup {NoTurn} =>
        \E f \in Flight : steers[f].pc = "attaching" /\ steers[f].next = receipt[k]

\* What the protocol asks of a watch whose worker is cancelled: it ends with the
\* cancellation.
CancelledSubjectIsReported ==
    [][\A w \in Watcher :
         /\ watches[w].pc = "settled" /\ watches'[w].pc = "idle"
         /\ watches[w].result = "milestone"
         /\ status[watches[w].subject] = "cancelled"
         => SnapshotStatus(w) = "cancelled"]_supervisionVars
============================================================================
