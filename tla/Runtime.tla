------------------------------- MODULE Runtime -------------------------------
(***************************************************************************)
(* A runtime from its start to its close, and the ones that follow it on    *)
(* the same store: the agents' sessions, the commands of clients, and the   *)
(* order in which GroupXRuntime starts and closes its parts.  A crash may   *)
(* come between any two steps.                                              *)
(***************************************************************************)
EXTENDS CommandLedger

VARIABLE stop  \* close() has been called

vars == <<sessionVars, events, ledgerVars, stop>>

Init == SessionInit /\ LedgerInit /\ stop = FALSE

----------------------------------------------------------------------------

Begins == Boot /\ stop' = FALSE /\ UNCHANGED ledgerVars

\* startAll has returned; the broker recovers and the assistant starts.
AllStarted ==
    /\ phase = "starting" /\ Busy = {} /\ next = Len(AgentOrder)
    /\ phase' = "started"
    /\ UNCHANGED <<rowVars, turnVars, cli, session, op, next, plan, events, broken, ledgerVars, stop>>

\* Readiness; a close that waited for the start goes on at once.
MarkReady ==
    /\ phase = "started"
    /\ phase' = IF stop THEN "draining" ELSE "ready"
    /\ UNCHANGED <<rowVars, turnVars, cli, session, op, next, plan, events, broken, ledgerVars, stop>>

RequestStop ==
    /\ phase \in {"starting", "started", "ready"} /\ ~stop
    /\ stop' = TRUE /\ phase' = IF phase = "ready" THEN "draining" ELSE phase
    /\ UNCHANGED <<rowVars, turnVars, cli, session, op, next, plan, events, broken, ledgerVars>>

\* The server, the assistant, MCP, the memory engines and the broker have closed,
\* or have had their time; the session manager is next.
DrainEnds ==
    /\ phase = "draining"
    /\ phase' = "closing"
    /\ UNCHANGED <<rowVars, turnVars, cli, session, op, next, plan, events, broken, ledgerVars, stop>>

Advance == AllStarted \/ MarkReady \/ DrainEnds \/ ((StartNext \/ Unwind \/ CloseSessions) /\ UNCHANGED <<ledgerVars, stop>>)

\* The process exits, or crashes, at any time.
Ends == phase # "down" /\ Forgotten /\ LedgerForgets /\ UNCHANGED stop

\* What the manager awaits for an agent comes back, and with it those that await
\* the agent's restart.
OpenSettles(a) ==
    /\ Opens(a) \/ \E retryable, fresh \in BOOLEAN : OpenFails(a, retryable, fresh)
    /\ Awaited(a) /\ UNCHANGED stop

CloseSettles(a) ==
    /\ (\E closed \in BOOLEAN : RejectSettles(a, closed)) \/ (\E how \in CloseOutcome : StopSettles(a, how))
    /\ Awaited(a) /\ UNCHANGED stop

ResetSteps == (ResetNext \/ ResetCompletes) /\ UNCHANGED stop

\* A claimed Turn has a message that the next reset may retire.
TurnStep(a) ==
    /\ \/ Resolve(a) /\ news' = TRUE /\ UNCHANGED <<receipts, flights, reset, memories, identities>>
       \/ (Activate(a) \/ TurnEnds(a) \/ Recovers(a)) /\ UNCHANGED ledgerVars
       \/ TurnBreaks(a) /\ Room(Len(reset.left)) /\ UNCHANGED ledgerVars
    /\ UNCHANGED stop

Next ==
    \/ Begins \/ RequestStop \/ Advance \/ Ends \/ ResetSteps
    \/ \E a \in Agent : OpenSettles(a) \/ CloseSettles(a) \/ TurnStep(a)
                        \/ (OpensAnother(a) /\ UNCHANGED <<ledgerVars, stop>>)
    \/ \E l \in Launch : (CliDies(l) \/ ClosesLate(l)) /\ UNCHANGED <<ledgerVars, stop>>
    \/ LedgerNext /\ UNCHANGED stop

Spec == Init /\ [][Next]_vars

\* Starts and closes are bounded by their timeouts, the rest follows in the
\* runtime's own continuations.
Fairness ==
    /\ WF_vars(Advance) /\ WF_vars(ResetSteps)
    /\ \A a \in Agent : WF_vars(OpenSettles(a)) /\ WF_vars(CloseSettles(a))

FairSpec == Spec /\ Fairness

----------------------------------------------------------------------------

TypeOK ==
    /\ rows \in Seq([agent : Agent, instance : {"starting", "ready", "failed", "stopped", "interrupted"},
                     binding : {"starting", "ready", "failed", "closed", "interrupted"}, native : {0} \cup Launch])
    /\ registry \in [Launch -> {"none", "reserved", "ready", "closed"}]
    /\ cli \in [Launch -> {"none", "live", "failed", "closing", "stuck", "gone"}]
    /\ session \in [Agent -> {0} \cup Launch] /\ calling \cup causal \subseteq Launch
    /\ op \in [Agent -> [pc : {"none", "opening", "rejecting", "stopping"}, launch : {0} \cup Launch,
                         resume : {0} \cup Launch, attempt : 0..StartAttempts,
                         by : {"none", "startAll", "restart", "stop"}]]
    /\ flights \subseteq Accepted

Owned(a) == {session[a], op[a].launch} \ {0}

\* While a runtime is up, the store, the MCP registry and the CLIs agree with its
\* session manager: a session it hands out has rows, a registration and a process;
\* no other row is open and no other process is live; and after a close nothing is
\* left open, whatever restarts, failures and timeouts the close ran into.
SessionsAreBacked ==
    /\ \A a \in Agent : session[a] # 0 =>
          LET l == session[a] IN
          /\ rows[l].agent = a /\ rows[l].instance = "ready" /\ rows[l].binding = "ready"
          /\ rows[l].native # 0 /\ registry[l] = "ready" /\ cli[l] \in {"live", "failed"}
    /\ phase # "down" => \A l \in DOMAIN rows : Open(rows[l]) => l \in Owned(rows[l].agent)
    /\ \A l \in Launch : cli[l] = "live" => l \in Owned(rows[l].agent)
    /\ phase = "closed" => \A a \in Agent : Owned(a) = {}

\* A binding whose registration would let its model act for a Turn has a lane that
\* executes a Turn with it: no restart, failure or late end of a Turn leaves the
\* tools open after it.
LifecycleIsCleared ==
    \A l \in calling :
        registry[l] \in {"reserved", "ready"} => \E a \in Agent : lane[a] = [launch |-> l, pc |-> "active"]

\* An agent keeps its native session across restarts, crashes and runtimes: a
\* launch becomes ready with another one only if none was recorded, or a stop, a
\* start or a resume of the agent has failed in this runtime.
ContinuityIsKept ==
    [][\A l \in DOMAIN rows :
         rows'[l].native # rows[l].native =>
             \/ LatestNative(rows[l].agent) \in {0, rows'[l].native}
             \/ rows[l].agent \in broken]_vars

\* A restart that was answered has happened: the agent became ready again after
\* the command was accepted, whether the command began the restart or joined one.
RestartsAreReal ==
    \A k \in Key : receipts[k].kind = "restart" /\ receipts[k].done =>
        LatestReady(receipts[k].agent) > receipts[k].before

\* Restart commands, a reset and a close come to an end, whatever fails, times out
\* or is asked for meanwhile: again and again nothing of the kind is under way.
RestartAndCloseEnd ==
    []<>(flights = {} /\ reset.pc = "none" /\ (stop => phase \in {"closed", "down"}))
=============================================================================
