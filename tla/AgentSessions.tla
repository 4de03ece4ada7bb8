---------------------------- MODULE AgentSessions ----------------------------
(***************************************************************************)
(* One native session for each agent: the rows that record its process and  *)
(* its binding, the MCP registry that lets the binding call tools, the      *)
(* adapter's CLI behind it, and the start, the restarts and the end of it.  *)
(* Rows outlive the runtime; everything else dies with it.  A launch is     *)
(* named by its row, and a native session by the launch that created it.    *)
(***************************************************************************)
EXTENDS Naturals, Sequences, FiniteSets, SequencesExt

CONSTANTS
    AgentOrder,       \* the enabled agents, in the configuration's order
    Several,          \* agents whose adapter holds several processes (Codex)
    StartAttempts,
    MaxLaunches,      \* bound
    MaxEvents         \* bound: faults, Turns and commands together

ASSUME OrderAssumption == AgentOrder \in Seq(ToSet(AgentOrder)) /\ IsInjective(AgentOrder)
ASSUME AttemptsAssumption == StartAttempts \in Nat \ {0}
ASSUME BoundAssumption == MaxLaunches \in Nat

Agent == ToSet(AgentOrder)
Launch == 1..MaxLaunches

VARIABLES
    rows,      \* agent_instances and session_bindings: [agent, instance, binding, native]
    registry,  \* McpBindingRegistry: launch -> status
    calling,   \* bindings with an activeGroupxTurnId
    causal,    \* ActiveTurnCoordinator.#active: bindings with an active Turn
    cli,       \* launch -> the process of its adapter
    session,   \* AgentSessionManager.#sessions: agent -> launch, 0 if none
    op,        \* agent -> what the manager awaits for it
    phase,     \* how far the runtime is between start and close
    next,      \* startAll: how many agents it has begun to start
    plan,      \* SessionResumePlan: agent -> native session, 0 if none
    lane,      \* agent -> the Turn its lane executes: [launch, pc]
    events,
    broken     \* history: agents whose last stop or start failed

rowVars == <<rows, registry>>
turnVars == <<calling, causal, lane>>
managerVars == <<session, op, phase, next, plan>>
sessionVars == <<rowVars, turnVars, cli, managerVars, broken>>

Open(r) == r.instance \in {"starting", "ready"} \/ r.binding \in {"starting", "ready"}
NoOp == [pc |-> "none", launch |-> 0, resume |-> 0, attempt |-> 0, by |-> "none"]
NoLane == [launch |-> 0, pc |-> "idle"]
Started == {a \in Agent : session[a] # 0}
Busy == {a \in Agent : op[a].pc # "none"}
ManagerReady == phase \in {"started", "ready", "draining"}

SessionInit ==
    /\ rows = <<>> /\ registry = [l \in Launch |-> "none"] /\ cli = [l \in Launch |-> "none"]
    /\ calling = {} /\ causal = {} /\ lane = [a \in Agent |-> NoLane]
    /\ session = [a \in Agent |-> 0] /\ op = [a \in Agent |-> NoOp] /\ phase = "down"
    /\ next = 0 /\ plan = [a \in Agent |-> 0] /\ events = 0 /\ broken = {}

----------------------------------------------------------------------------
(* The adapter, as the manager sees it                                       *)

\* A step that the bound counts.
Happens == events < MaxEvents /\ events' = events + 1

Holds(a) == {l \in Launch : l <= Len(rows) /\ rows[l].agent = a
                            /\ cli[l] \in {"live", "failed", "closing", "stuck"}}

\* All but Codex refuse to start beside a process they still hold.
MayOpen(a, l) == a \in Several \/ Holds(a) \subseteq {l}

CliDies(l) ==
    /\ cli[l] = "live"
    /\ cli' = [cli EXCEPT ![l] = "failed"] /\ Happens
    /\ UNCHANGED <<rowVars, turnVars, managerVars, broken>>

\* The process of a close that timed out ends after all.
ClosesLate(l) ==
    /\ cli[l] = "closing" /\ \A a \in Agent : op[a].pc = "stopping" => op[a].launch # l
    /\ cli' = [cli EXCEPT ![l] = "gone"]
    /\ UNCHANGED <<rowVars, turnVars, managerVars, events, broken>>

----------------------------------------------------------------------------
(* startAgent                                                                *)

\* createAgentInstance, createSessionBinding and the registration, up to the
\* first start or resume of the adapter, which Opens, OpenFails or OpensAnother end.
StartAgent(a, native, by) ==
    LET l == Len(rows) + 1 IN
    /\ l \in Launch
    /\ rows' = Append(rows, [agent |-> a, instance |-> "starting", binding |-> "starting", native |-> 0])
    /\ registry' = [registry EXCEPT ![l] = "reserved"]
    /\ op' = [op EXCEPT ![a] = [pc |-> "opening", launch |-> l, resume |-> native, attempt |-> 1, by |-> by]]

\* A failed start leaves rows that say so and a binding that calls no tool.
FailedRow(l) == [rows[l] EXCEPT !.instance = "failed", !.binding = "failed"]

StartFails(a) ==
    LET l == op[a].launch IN
    /\ rows' = [rows EXCEPT ![l] = FailedRow(l)]
    /\ registry' = [registry EXCEPT ![l] = "closed"]
    /\ op' = [op EXCEPT ![a] = NoOp] /\ broken' = broken \cup {a}
    /\ phase' = IF phase = "starting" THEN "unwinding" ELSE phase
    /\ UNCHANGED <<turnVars, session, next, plan>>

\* The adapter returned a session: markSessionBindingReady, markReady, the maps.
Opens(a) ==
    LET l == op[a].launch
        native == IF op[a].resume # 0 THEN op[a].resume ELSE l IN
    /\ op[a].pc = "opening" /\ MayOpen(a, l)
    /\ cli' = [cli EXCEPT ![l] = "live"]
    /\ rows' = [rows EXCEPT ![l] = [@ EXCEPT !.instance = "ready", !.binding = "ready", !.native = native]]
    /\ registry' = [registry EXCEPT ![l] = "ready"]
    /\ session' = [session EXCEPT ![a] = l]
    /\ op' = [op EXCEPT ![a] = NoOp] /\ broken' = broken \ {a}
    /\ UNCHANGED <<turnVars, phase, next, plan, events>>

\* openWithRetry: again, or a fresh session once a resume has failed for good, or
\* the start has failed.  The error's code decides: "retryable", "fresh".
OpenFails(a, retryable, fresh) ==
    LET l == op[a].launch IN
    /\ op[a].pc = "opening"
    /\ ~MayOpen(a, l) => retryable /\ fresh   \* SESSION_NOT_AVAILABLE: already running
    /\ IF MayOpen(a, l) THEN Happens ELSE UNCHANGED events
    /\ \/ /\ retryable /\ op[a].attempt < StartAttempts
          /\ op' = [op EXCEPT ![a].attempt = @ + 1]
          /\ UNCHANGED <<rowVars, turnVars, session, phase, next, plan, broken>>
       \/ /\ ~(retryable /\ op[a].attempt < StartAttempts) /\ op[a].resume # 0 /\ fresh
          /\ op' = [op EXCEPT ![a].attempt = 1, ![a].resume = 0]
          /\ broken' = broken \cup {a}
          /\ UNCHANGED <<rowVars, turnVars, session, phase, next, plan>>
       \/ /\ ~(retryable /\ op[a].attempt < StartAttempts) /\ ~(op[a].resume # 0 /\ fresh)
          /\ StartFails(a)
    /\ UNCHANGED cli

\* assertSession: a resume that returned another native session is closed again.
OpensAnother(a) ==
    /\ op[a].pc = "opening" /\ op[a].resume # 0 /\ MayOpen(a, op[a].launch)
    /\ cli' = [cli EXCEPT ![op[a].launch] = "closing"]
    /\ op' = [op EXCEPT ![a].pc = "rejecting"] /\ Happens
    /\ UNCHANGED <<rowVars, turnVars, session, phase, next, plan, broken>>

RejectSettles(a, closed) ==
    /\ op[a].pc = "rejecting"
    /\ cli' = IF closed THEN [cli EXCEPT ![op[a].launch] = "gone"] ELSE cli
    /\ StartFails(a)
    /\ UNCHANGED events

----------------------------------------------------------------------------
(* stopManaged                                                               *)

\* The maps forget the session before its adapter is asked to close.
StopManaged(agents, resume, by) ==
    /\ session' = [a \in Agent |-> IF a \in agents THEN 0 ELSE session[a]]
    /\ cli' = [l \in Launch |-> IF l \in {session[a] : a \in agents} /\ cli[l] = "live" THEN "closing" ELSE cli[l]]
    /\ op' = [a \in Agent |-> IF a \in agents
                              THEN [pc |-> "stopping", launch |-> session[a],
                                    resume |-> resume[a], attempt |-> 0, by |-> by]
                              ELSE op[a]]

\* How closeAdapterBounded comes back: closed; the session was already detached
\* by a failure; the deadline passed; the adapter threw and let go, or did not.
CloseOutcome == {"clean", "detached", "timeout", "threw", "stuck"}

CliAfterClose(l, how) ==
    CASE how \in {"clean", "detached", "threw"} -> "gone"
      [] how = "stuck" -> "stuck"
      [] how = "timeout" -> cli[l]

StoppedRow(r, how) ==
    [r EXCEPT !.binding = IF how = "clean" THEN "closed" ELSE "interrupted",
              !.instance = IF how = "clean" THEN "stopped" ELSE "interrupted"]

\* A restart starts the agent again unless the stop threw; then the restart has
\* failed and the agent has no session.
StopSettles(a, how) ==
    LET l == op[a].launch
        again == op[a].by = "restart" /\ how \in {"clean", "detached"}
        stopped == [rows EXCEPT ![l] = StoppedRow(@, how)]
        new == Len(rows) + 1 IN
    /\ op[a].pc = "stopping"
    /\ how = "detached" <=> cli[l] = "failed"
    /\ IF how \in {"timeout", "threw", "stuck"} THEN Happens ELSE UNCHANGED events
    /\ cli' = [cli EXCEPT ![l] = CliAfterClose(l, how)]
    /\ broken' = IF how \in {"clean", "detached"} THEN broken ELSE broken \cup {a}
    /\ IF again
       THEN /\ new \in Launch
            /\ rows' = Append(stopped, [agent |-> a, instance |-> "starting", binding |-> "starting", native |-> 0])
            /\ registry' = [registry EXCEPT ![l] = "closed", ![new] = "reserved"]
            /\ op' = [op EXCEPT ![a] = [@ EXCEPT !.pc = "opening", !.launch = new, !.attempt = 1]]
       ELSE /\ rows' = stopped
            /\ registry' = [registry EXCEPT ![l] = "closed"]
            /\ op' = [op EXCEPT ![a] = NoOp]
    /\ UNCHANGED <<turnVars, session, phase, next, plan>>

----------------------------------------------------------------------------
(* restart: one flight for each agent                                        *)

\* Bound: every restart under way and every one reserved finds a launch number.
ToStart == IF phase = "starting" THEN Len(AgentOrder) - next ELSE 0
Room(reserved) == Len(rows) + ToStart + Cardinality(Busy) + reserved < MaxLaunches

\* mutant: a restart forgets which native session it stopped
BeginRestartAnew(a) ==
    /\ ManagerReady /\ op[a].pc = "none"
    /\ IF session[a] # 0
       THEN StopManaged({a}, [b \in Agent |-> 0], "restart") /\ UNCHANGED <<rows, registry>>
       ELSE StartAgent(a, 0, "restart") /\ UNCHANGED <<session, cli>>
    /\ UNCHANGED <<phase, next, plan, broken>>

\* performRestart up to its first await; the caller has found no flight.
BeginRestart(a) ==
    /\ ManagerReady /\ op[a].pc = "none"
    /\ IF session[a] # 0
       THEN /\ StopManaged({a}, [b \in Agent |-> IF session[b] # 0 THEN rows[session[b]].native ELSE 0], "restart")
            /\ UNCHANGED <<rows, registry>>
       ELSE StartAgent(a, 0, "restart") /\ UNCHANGED <<session, cli>>
    /\ UNCHANGED <<phase, next, plan, broken>>

----------------------------------------------------------------------------
(* startAll and close                                                        *)

\* recoverStaleRuntimeRecords.
Recovered ==
    [l \in DOMAIN rows |->
        LET r == rows[l] IN
        [r EXCEPT !.instance = IF @ \in {"starting", "ready"} THEN "interrupted" ELSE @,
                  !.binding = IF @ \in {"starting", "ready"} THEN "interrupted" ELSE @]]

\* prepareRecovery: the latest native session that was recorded for an agent.
LatestNative(a) ==
    LET known == {l \in DOMAIN rows : rows[l].agent = a /\ rows[l].native # 0} IN
    IF known = {} THEN 0 ELSE rows[CHOOSE l \in known : \A k \in known : k <= l].native

Boot ==
    /\ phase = "down" /\ Len(rows) + Len(AgentOrder) <= MaxLaunches
    /\ phase' = "starting" /\ next' = 0
    /\ rows' = Recovered /\ plan' = [a \in Agent |-> LatestNative(a)]
    /\ UNCHANGED <<registry, turnVars, cli, session, op, events, broken>>

StartNext ==
    /\ phase = "starting" /\ Busy = {} /\ next < Len(AgentOrder)
    /\ next' = next + 1
    /\ StartAgent(AgentOrder[next + 1], plan[AgentOrder[next + 1]], "startAll")
    /\ UNCHANGED <<turnVars, cli, session, phase, plan, events, broken>>

\* A failed start stops the agents that had started.
Unwind ==
    /\ phase = "unwinding" /\ Busy = {}
    /\ IF Started # {}
       THEN StopManaged(Started, [a \in Agent |-> 0], "stop") /\ UNCHANGED phase
       ELSE phase' = "closing" /\ UNCHANGED <<session, cli, op>>
    /\ UNCHANGED <<rowVars, turnVars, next, plan, events, broken>>

\* mutant: close does not wait for the restarts under way
CloseSessionsAtOnce ==
    /\ phase = "closing"
    /\ IF Started # {}
       THEN StopManaged(Started, [a \in Agent |-> 0], "stop") /\ UNCHANGED phase
       ELSE phase' = "closed" /\ UNCHANGED <<session, cli, op>>
    /\ UNCHANGED <<rowVars, turnVars, next, plan, events, broken>>

\* close waits for the restarts under way, then stops every session.
CloseSessions ==
    /\ phase = "closing" /\ Busy = {}
    /\ IF Started # {}
       THEN StopManaged(Started, [a \in Agent |-> 0], "stop") /\ UNCHANGED phase
       ELSE phase' = "closed" /\ UNCHANGED <<session, cli, op>>
    /\ UNCHANGED <<rowVars, turnVars, next, plan, events, broken>>

\* What the end of the process takes with it.
Forgotten ==
    /\ phase' = "down"
    /\ registry' = [l \in Launch |-> "none"]
    /\ cli' = [l \in Launch |-> IF cli[l] = "none" THEN "none" ELSE "gone"]
    /\ calling' = {} /\ causal' = {} /\ lane' = [a \in Agent |-> NoLane]
    /\ session' = [a \in Agent |-> 0] /\ op' = [a \in Agent |-> NoOp] /\ broken' = {}
    /\ UNCHANGED <<rows, next, plan, events>>

----------------------------------------------------------------------------
(* The Turn of a lane and the binding its model calls tools with             *)

\* The lane resolves the session and claims a Turn for its binding.
Resolve(a) ==
    /\ ManagerReady /\ lane[a].pc = "idle" /\ session[a] # 0 /\ Happens
    /\ lane' = [lane EXCEPT ![a] = [launch |-> session[a], pc |-> "claimed"]]
    /\ UNCHANGED <<rowVars, calling, causal, cli, managerVars, broken>>

\* activate: a binding closed meanwhile refuses, and the Turn ends at once.
Activate(a) ==
    LET l == lane[a].launch IN
    /\ lane[a].pc = "claimed"
    /\ causal' = causal \cup {l}
    /\ calling' = IF registry[l] \in {"reserved", "ready"} THEN calling \cup {l} ELSE calling
    /\ lane' = [lane EXCEPT ![a].pc = "active"]
    /\ UNCHANGED <<rowVars, cli, managerVars, events, broken>>

\* mutant: the Turn stays on its binding
DeactivateHalf(a) ==
    /\ lane[a].pc = "active"
    /\ causal' = causal \ {lane[a].launch}
    /\ UNCHANGED calling

\* deactivate: the native session is recorded if the binding is still the
\* manager's, then the Turn is taken off the binding if that is still open.
Deactivate(a) ==
    LET l == lane[a].launch IN
    /\ lane[a].pc = "active"
    /\ causal' = causal \ {l}
    /\ calling' = IF registry[l] \in {"reserved", "ready"} THEN calling \ {l} ELSE calling

TurnEnds(a) ==
    /\ Deactivate(a)
    /\ lane' = [lane EXCEPT ![a] = NoLane]
    /\ UNCHANGED <<rowVars, cli, managerVars, events, broken>>

Restarting(a) == op[a].by = "restart"

\* A Turn that broke its protocol has its agent restarted; the lane waits for that.
TurnBreaks(a) ==
    /\ Deactivate(a) /\ ManagerReady /\ Happens
    /\ lane' = [lane EXCEPT ![a].pc = "recovering"]
    /\ IF Restarting(a) THEN UNCHANGED <<rowVars, cli, managerVars, broken>> ELSE BeginRestart(a)

Recovers(a) ==
    /\ lane[a].pc = "recovering" /\ ~Restarting(a)
    /\ lane' = [lane EXCEPT ![a] = NoLane]
    /\ UNCHANGED <<rowVars, calling, causal, cli, managerVars, events, broken>>
=============================================================================
