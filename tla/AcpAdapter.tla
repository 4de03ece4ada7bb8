------------------------------ MODULE AcpAdapter ------------------------------
(***************************************************************************)
(* AcpV1Adapter: the session of a Grok, Kimi or Hermes CLI over ACP.  A     *)
(* prompt is one request without a timeout; its response ends the turn.     *)
(* What the CLI asks although it runs unrestricted fails the turn and the   *)
(* session (fatalNativeError).                                             *)
(*                                                                         *)
(* The operators on g are what one callback does to [s |-> session,         *)
(* t |-> turn, e |-> stream, c |-> cli].                                   *)
(***************************************************************************)
EXTENDS RpcClient

VARIABLES
    session,    \* AcpRuntime and the coroutines of launch and close
    turn        \* ActiveTurn and its #runPrompt

vars == <<processVars, pipe, stream, cliVars, rpcVars, session, turn>>

Launching == {"initialize", "open", "configure"}

\* at: where #launch is; runtime: #runtime is this one; closer: where close is.
NoSession == [at |-> "none", runtime |-> FALSE, closing |-> FALSE, fatal |-> FALSE,
              fatalSent |-> FALSE, active |-> NoTurn, closer |-> "none", timers |-> {}]
\* held: interactionFailurePending; run: where #runPrompt is.
FreshTurn == [cancel |-> FALSE, sent |-> FALSE, held |-> FALSE, run |-> "none"]

Init == ProcessInit /\ RpcInit /\ session = NoSession /\ turn = [t \in Turn |-> FreshTurn]

g0 == [s |-> session, t |-> turn, e |-> stream, c |-> cli]
Become(g) == session' = g.s /\ turn' = g.t /\ stream' = g.e /\ cli' = g.c

Uncancelled == [t \in Turn |-> [turn[t] EXCEPT !.cancel = FALSE]]
Ready == session.runtime /\ session.at = "ready"
Terminal(g, t) == g.e[t].ends # <<>>

----------------------------------------------------------------------------
(* Ending a turn *)

\* #failTurn
FailTurn(g, t, markFatal) ==
    IF Terminal(g, t) THEN g
    ELSE [g EXCEPT !.t[t].held = FALSE, !.s.fatal = @ \/ markFatal,
                   !.s.active = IF @ = t THEN NoTurn ELSE @,
                   !.e = Ended(g.e, t, "failed")]

\* #notifyCancel
NotifyCancel(g, t) ==
    IF g.t[t].sent \/ client # "running" THEN g
    ELSE [g EXCEPT !.t[t].sent = TRUE, !.c = Interrupted(@)]

\* The end of #runPrompt: a turn that waits for its permission request to be
\* settled is left to the timer.
PromptFinally(g, t) ==
    IF g.t[t].held THEN [g EXCEPT !.t[t].run = "none"]
    ELSE [g EXCEPT !.t[t].run = "none", !.e[t].open = FALSE,
                   !.s.active = IF @ = t THEN NoTurn ELSE @]

PromptAnswered(g, t, out) ==
    PromptFinally(IF Terminal(g, t) \/ g.t[t].held THEN g
                  ELSE IF out = "failed" THEN FailTurn(g, t, FALSE)
                  ELSE [g EXCEPT !.e = Ended(g.e, t, out)], t)

\* Mutant: the failure of the session leaves the stream to the exit of the CLI.
PromptRejectedQuietly(g, t, clientNow) ==
    IF Terminal(g, t) \/ g.t[t].held THEN PromptFinally(g, t)
    ELSE IF clientNow = "failed" THEN [g EXCEPT !.t[t].run = "none"]
    ELSE PromptFinally(FailTurn(g, t, FALSE), t)

\* A failed client is closed before the turn is failed.
PromptRejected(g, t, clientNow) ==
    IF Terminal(g, t) \/ g.t[t].held THEN PromptFinally(g, t)
    ELSE IF clientNow = "failed" THEN [g EXCEPT !.t[t].run = "closing"]
    ELSE PromptFinally(FailTurn(g, t, FALSE), t)

\* Every pending request is rejected: at most one is a prompt.
Rejected(g, clientNow) ==
    LET h == IF g.s.at \in Launching THEN [g EXCEPT !.s.at = "failing", !.s.closing = TRUE] ELSE g
        prompts == {t \in Turn : <<"prompt", t>> \in pending}
    IN  IF prompts = {} THEN h ELSE PromptRejected(h, CHOOSE t \in prompts : TRUE, clientNow)

----------------------------------------------------------------------------
(* #launch *)

\* A new process; the callbacks of an earlier one have run by then, as they wait
\* for setTimeout(..., 0) only.
Launch ==
    /\ session.at \in {"none", "ready"} /\ ~session.runtime
    /\ session.timers = {} /\ \A t \in Turn : turn[t].run = "none"
    /\ NewClient
    /\ pending' = {<<"initialize", NoTurn>>}
    /\ Become([g0 EXCEPT !.s = [NoSession EXCEPT !.at = "initialize", !.runtime = TRUE],
                         !.c = Asked(Idle, <<"initialize", NoTurn>>)])
    /\ UNCHANGED <<native, faults>>

\* The next request of the launch, unless #throwIfFatal throws.  Only Hermes
\* has a request to configure the session.
LaunchContinues(ok) ==
    \E next \in CASE session.at = "initialize" -> {"open"}
                  [] session.at = "open" -> {"configure", "ready"}
                  [] OTHER -> {"ready"} :
        IF ~ok \/ session.fatal
        THEN /\ pending' = {}
             /\ Become([g0 EXCEPT !.s.at = "failing", !.s.closing = TRUE])
        ELSE /\ pending' = IF next = "ready" THEN {} ELSE {<<next, NoTurn>>}
             /\ Become([g0 EXCEPT !.s.at = next,
                                  !.c = IF next = "ready" THEN @ ELSE Asked(@, <<next, NoTurn>>)])

LaunchTimesOut ==
    /\ session.at \in Launching /\ pending # {}
    /\ pending' = {}
    /\ Become([g0 EXCEPT !.s.at = "failing", !.s.closing = TRUE])
    /\ UNCHANGED <<client, processVars, pipe, native, faults>>

LaunchFails ==
    /\ session.at = "failing"
    /\ CloseClient
    /\ session' = [session EXCEPT !.at = "closing"]
    /\ UNCHANGED <<launches, child, failed, broken, pipe, stream, native, faults, cli, turn>>

\* The launch throws, whether or not the process could be ended.
LaunchThrows ==
    /\ session.at = "closing" /\ CloseSettled
    /\ session' = [session EXCEPT !.at = "none", !.runtime = FALSE]
    /\ UNCHANGED <<processVars, pipe, stream, cliVars, rpcVars, turn>>

----------------------------------------------------------------------------
(* prompt, cancel and close *)

\* The broker prompts once the stream before has ended.
Prompt(t, aborted) ==
    /\ Ready /\ session.active = NoTurn
    /\ CanPrompt(t)
    /\ LET g == [g0 EXCEPT !.e = Open(t), !.s.active = t, !.t = Uncancelled]
           sends == ~aborted /\ ~session.fatal /\ CanRequest
           h == CASE aborted -> [g EXCEPT !.t[t].cancel = TRUE, !.s.active = NoTurn,
                                          !.e = Ended(Open(t), t, "cancelled")]
                  [] ~aborted /\ session.fatal -> FailTurn(g, t, FALSE)
                  [] sends -> [g EXCEPT !.t[t].run = "awaiting", !.c = Prompted(@, t)]
                  [] OTHER -> PromptRejected(g, t, client)
       IN  /\ Become(h)
           /\ pending' = IF sends THEN pending \cup {<<"prompt", t>>} ELSE pending
           /\ native' = Delivered(t, sends)
           /\ IF h.t[t].run = "closing" THEN StartLadder("grace") ELSE UNCHANGED <<expected, ladder>>
    /\ UNCHANGED <<launches, child, failed, broken, pipe, faults, client>>

Cancel ==
    /\ Ready /\ session.active # NoTurn /\ ~turn[session.active].cancel
    /\ Become(NotifyCancel([g0 EXCEPT !.t[session.active].cancel = TRUE], session.active))
    /\ UNCHANGED <<processVars, pipe, native, faults, rpcVars>>

\* The write of the prompt fails because the process has died.
WriteFails ==
    \E t \in Turn :
        /\ <<"prompt", t>> \in pending /\ client = "running" /\ native[t] = "none"
        /\ pending' = pending \ {<<"prompt", t>>}
        /\ Become(PromptRejected(g0, t, client))
        /\ UNCHANGED <<processVars, pipe, native, faults, client>>

\* close: cancels the turn and waits for its permission request, for so long.
Close ==
    /\ Ready /\ session.closer = "none"
    /\ Become(LET g == [g0 EXCEPT !.s.closing = TRUE, !.s.closer = "settle"]
                  t == session.active
              IN  IF t = NoTurn \/ turn[t].cancel THEN g
                  ELSE NotifyCancel([g EXCEPT !.t[t].cancel = TRUE], t))
    /\ UNCHANGED <<processVars, pipe, native, faults, rpcVars>>

\* session/close, for a CLI that has it.
CloseNative ==
    /\ session.closer = "settle"
    /\ \E has \in BOOLEAN :
        /\ has => CanRequest
        /\ pending' = IF has THEN pending \cup {<<"close", NoTurn>>} ELSE pending
        /\ cli' = IF has THEN Asked(cli, <<"close", NoTurn>>) ELSE cli
    /\ session' = [session EXCEPT !.closer = "native"]
    /\ UNCHANGED <<processVars, pipe, stream, native, faults, client, turn>>

\* It was answered, rejected or timed out.
ClosesClient ==
    /\ session.closer = "native"
    /\ CloseClient
    /\ LET now == IF client = "failed" THEN "failed" ELSE "closing"
       IN  Become(Rejected([g0 EXCEPT !.s.closer = "client"], now))
    /\ UNCHANGED <<launches, child, failed, broken, pipe, native, faults>>

\* A process that could not be ended keeps the adapter: close throws, and so
\* does every later close.
CloseEnds ==
    /\ session.closer = "client" /\ CloseSettled
    /\ session' = IF child = "gone" THEN [session EXCEPT !.closer = "none", !.runtime = FALSE, !.at = "none"]
                  ELSE [session EXCEPT !.closer = "none"]
    /\ UNCHANGED <<processVars, pipe, stream, cliVars, rpcVars, turn>>

----------------------------------------------------------------------------
(* What the process and its CLI do *)

\* A request for a decision is answered at once; the turn fails in a timer.
HandleServerRequest(g) ==
    LET t == g.s.active
    IN  IF t # NoTurn /\ ~Terminal(g, t)
        THEN IF g.t[t].held THEN g
             ELSE [g EXCEPT !.t[t].held = TRUE, !.t[t].cancel = TRUE, !.s.timers = @ \cup {<<"settle", t>>}]
        ELSE IF g.s.closing THEN g
        ELSE [g EXCEPT !.s.fatal = TRUE, !.s.timers = @ \cup {<<"fatal", NoTurn>>}]

\* An update has no turn: it is the active one's.
HandleNotification(g, source) ==
    LET t == g.s.active
    IN  IF t = NoTurn \/ Terminal(g, t) \/ g.t[t].held THEN g
        ELSE [g EXCEPT !.e = WithText(t, source)]

ReadFrame ==
    /\ NextFrame
    /\ LET f == Head(pipe)
           t == f.id[2]
       IN  CASE f.k = "garbage" /\ ~broken ->
                    /\ BreakStdout /\ FailClient
                    /\ Become(IF client = "closed" THEN g0 ELSE Rejected(g0, "failed"))
             [] f.k = "answer" /\ client = "running" /\ Answers(f.id) /\ session.at \in Launching ->
                    /\ LaunchContinues(f.out = "ok")
                    /\ UNCHANGED <<processVars, client>>
             [] f.k = "result" /\ client = "running" /\ Answers(f.id) ->
                    /\ pending' = pending \ {f.id}
                    /\ Become(PromptAnswered(g0, t, f.out))
                    /\ UNCHANGED <<processVars, client>>
             [] f.k = "text" /\ client = "running" ->
                    /\ Become(HandleNotification(g0, t))
                    /\ UNCHANGED <<processVars, rpcVars>>
             [] f.k = "ask" /\ client = "running" ->
                    /\ Become(HandleServerRequest(g0))
                    /\ UNCHANGED <<processVars, rpcVars>>
             [] OTHER -> Become(g0) /\ UNCHANGED <<processVars, rpcVars>>
    /\ UNCHANGED <<native, faults>>

\* #handleStderr: a managed policy blocks what the room requires.
HandleStderr ==
    /\ child = "alive" /\ session.runtime /\ ~session.closing /\ Misbehaves
    /\ LET t == session.active
       IN  Become(IF t = NoTurn THEN [g0 EXCEPT !.s.fatal = TRUE]
                  ELSE IF Terminal(g0, t) THEN g0
                  ELSE [FailTurn(g0, t, TRUE) EXCEPT !.t[t].cancel = TRUE,
                                                     !.s.timers = @ \cup {<<"cancel", t>>}])
    /\ UNCHANGED <<processVars, pipe, native, rpcVars>>

\* The callbacks of setTimeout(..., 0).
TimerFires ==
    \E x \in session.timers :
        LET g == [g0 EXCEPT !.s.timers = @ \ {x}]
        IN  /\ Become(CASE x[1] = "settle" -> FailTurn(NotifyCancel(g, x[2]), x[2], TRUE)
                        [] x[1] = "cancel" -> NotifyCancel(g, x[2])
                        [] x[1] = "fatal" -> IF g.s.fatalSent \/ client # "running" \/ g.s.at # "ready"
                                             THEN g
                                             ELSE [g EXCEPT !.s.fatalSent = TRUE, !.c = Interrupted(@)])
            /\ UNCHANGED <<processVars, pipe, native, faults, rpcVars>>

\* The exit: the adapter forgets a runtime that ended by itself.
HandleExit ==
    /\ ObserveExit
    /\ client' = ClientAfterExit /\ pending' = PendingAfterExit
    /\ LET g == [g0 EXCEPT !.s.runtime = @ /\ (session.closing \/ (expected /\ client' # "failed"))]
           h == IF client = "running" THEN Rejected(g, "failed") ELSE g
       IN  /\ Become(h)
           /\ IF \E t \in Turn : h.t[t].run = "closing" THEN StartLadder("grace")
              ELSE UNCHANGED <<expected, ladder>>
    /\ UNCHANGED <<pipe, native, faults>>

\* #runPrompt has closed the failed client.
PromptClosed ==
    \E t \in Turn :
        /\ turn[t].run = "closing" /\ CloseSettled
        /\ Become(PromptFinally(FailTurn([g0 EXCEPT !.s.runtime = FALSE], t, FALSE), t))
        /\ UNCHANGED <<processVars, pipe, native, faults, rpcVars>>

----------------------------------------------------------------------------

\* The process and the CLI, of which the adapter sees nothing yet.
Environment ==
    /\ \/ /\ client = "running" /\ UNCHANGED <<processVars, stream>>
          /\ CliSpeaks \/ CliAnswers \/ CliAsks \/ CliGarbles \/ \E out \in Outcome : CliEnds(out)
       \/ ChildDies /\ UNCHANGED stream
       \/ (Escalate \/ Finish) /\ UNCHANGED <<pipe, stream, cliVars>>
    /\ UNCHANGED <<rpcVars, session, turn>>

Requests == Launch \/ Cancel \/ Close \/ \E t \in Turn, aborted \in BOOLEAN : Prompt(t, aborted)

Reactions ==
    \/ LaunchTimesOut \/ LaunchFails \/ LaunchThrows \/ WriteFails
    \/ ReadFrame \/ TimerFires \/ HandleExit \/ PromptClosed

\* What has to go on while a close is asked for again and again.
Closing == CloseNative \/ ClosesClient \/ CloseEnds

Next == Requests \/ Reactions \/ Closing \/ HandleStderr \/ Environment

=============================================================================
