----------------------------- MODULE ClaudeAdapter -----------------------------
(***************************************************************************)
(* ClaudeCliAdapter: the session of a Claude Code CLI over stream-json.  A  *)
(* prompt is a user message; frames without the name of a turn stream it    *)
(* and a result ends it, so that the adapter keeps account of the results   *)
(* it is owed: awaitingResult, and the answer to an interruption that lost  *)
(* the race against the end of its turn (strayResultDeadlineMs).            *)
(*                                                                         *)
(* The operators on g are what one callback does to [s |-> session,         *)
(* t |-> turn, e |-> stream, c |-> cli].                                   *)
(***************************************************************************)
EXTENDS NativeProcess

VARIABLES
    session,    \* ClaudeRuntime and the coroutines of launch and shutdown
    turn        \* ActiveTurn

vars == <<processVars, pipe, stream, cliVars, session, turn>>

Launching == {"initialize", "mode"}

\* at: where #launch is, with its pendingControl; runtime: #runtime is this one;
\* awaiting: awaitingResult; stray: strayResultDeadlineMs; owes: the CLI will
\* answer an interruption that found it idle.
NoSession == [at |-> "none", runtime |-> FALSE, closing |-> FALSE, poisoned |-> FALSE,
              active |-> NoTurn, awaiting |-> FALSE, stray |-> FALSE, owes |-> FALSE,
              teardown |-> "none"]
\* cancel: cancelRequested; dispatched: cancelDispatched; timer: the one that runs.
FreshTurn == [cancel |-> FALSE, dispatched |-> FALSE, timer |-> "none"]

Init == ProcessInit /\ session = NoSession /\ turn = [t \in Turn |-> FreshTurn]

g0 == [s |-> session, t |-> turn, e |-> stream, c |-> cli]
Become(g) == session' = g.s /\ turn' = g.t /\ stream' = g.e /\ cli' = g.c

Uncancelled == [t \in Turn |-> [turn[t] EXCEPT !.cancel = FALSE]]
Ready == session.runtime /\ session.at = "ready"
Terminal(g, t) == g.e[t].ends # <<>>
Live(g) == g.s.active # NoTurn /\ ~Terminal(g, g.s.active)

----------------------------------------------------------------------------
(* Ending a turn *)

\* Mutant: the answer to a late interruption is not expected.
EmitTerminalUnowed(g, t, outcome) ==
    IF Terminal(g, t) THEN g
    ELSE [g EXCEPT !.t[t] = [FreshTurn EXCEPT !.cancel = g.t[t].cancel],
                   !.e = Ended(g.e, t, outcome), !.s.awaiting = FALSE,
                   !.s.active = IF @ = t THEN NoTurn ELSE @]

\* #emitTerminal
EmitTerminal(g, t, outcome) ==
    IF Terminal(g, t) THEN g
    ELSE [g EXCEPT !.t[t] = [FreshTurn EXCEPT !.cancel = g.t[t].cancel],
                   !.e = Ended(g.e, t, outcome), !.s.awaiting = FALSE,
                   !.s.stray = @ \/ (g.t[t].dispatched /\ outcome # "cancelled"),
                   !.s.active = IF @ = t THEN NoTurn ELSE @]

\* #scheduleRuntimeTeardown
ScheduleTeardown(g) ==
    [g EXCEPT !.s.poisoned = TRUE, !.s.teardown = IF @ = "none" THEN "scheduled" ELSE @]

\* #failTurn
FailTurn(g, t) == IF Terminal(g, t) THEN g ELSE ScheduleTeardown(EmitTerminal(g, t, "failed"))

\* #dispatchInterrupt.  An idle CLI still answers.
DispatchInterrupt(g, t) ==
    IF g.t[t].dispatched \/ Terminal(g, t) \/ ~Running THEN g
    ELSE [g EXCEPT !.t[t].dispatched = TRUE, !.t[t].timer = "cancel",
                   !.c = Interrupted(@), !.s.owes = @ \/ (child = "alive" /\ cli.work = <<>>)]

\* #observeActivity
ObserveActivity(g, t) ==
    [g EXCEPT !.t[t].timer = CASE @ = "cancel" -> @
                               [] @ # "cancel" /\ g.t[t].cancel -> "none"
                               [] OTHER -> "idle"]

\* #rejectInitFrame, and #failRuntime without a control request in flight
FailRuntime(g) == IF Live(g) THEN FailTurn(g, g.s.active) ELSE ScheduleTeardown(g)

\* #rejectPendingControl: the launch goes on in its catch.
RejectPendingControl(g) == [g EXCEPT !.s.at = "failing"]

----------------------------------------------------------------------------
(* #launch *)

Launch ==
    /\ ~session.runtime /\ session.at = "none"
    /\ SpawnChild
    /\ Become([g0 EXCEPT !.s = [NoSession EXCEPT !.at = "initialize", !.runtime = TRUE],
                         !.c = Asked(Idle, <<"initialize", NoTurn>>)])
    /\ UNCHANGED <<native, faults>>

\* A control request was answered.
ControlAnswered(g, ok) ==
    CASE ~ok \/ (g.s.at = "mode" /\ g.s.poisoned) -> [g EXCEPT !.s.at = "failing"]
      [] ok /\ g.s.at = "mode" /\ ~g.s.poisoned -> [g EXCEPT !.s.at = "ready"]
      [] OTHER -> [g EXCEPT !.s.at = "mode", !.c = Asked(@, <<"mode", NoTurn>>)]

\* The handshake window ends, or a request was written to a dead process.
ControlTimesOut ==
    /\ session.at \in Launching
    /\ session' = [session EXCEPT !.at = "failing"]
    /\ UNCHANGED <<processVars, pipe, stream, cliVars, turn>>

\* The listeners are taken off and the process is closed.
LaunchFails ==
    /\ session.at = "failing"
    /\ StartLadder("grace")
    /\ session' = [session EXCEPT !.at = "closing", !.closing = TRUE]
    /\ UNCHANGED <<launches, child, failed, broken, pipe, stream, cliVars, turn>>

\* Mutant: the launch throws while the process is being closed.
LaunchThrowsAtOnce ==
    /\ session.at = "closing"
    /\ session' = [session EXCEPT !.at = "none", !.runtime = FALSE]
    /\ UNCHANGED <<processVars, pipe, stream, cliVars, turn>>

LaunchThrows ==
    /\ session.at = "closing" /\ CloseSettled
    /\ session' = [session EXCEPT !.at = "none", !.runtime = FALSE]
    /\ UNCHANGED <<processVars, pipe, stream, cliVars, turn>>

----------------------------------------------------------------------------
(* prompt and cancel *)

\* #dispatchPrompt writes the message at once.
Prompt(t, aborted) ==
    /\ Ready /\ ~session.poisoned /\ session.active = NoTurn
    /\ CanPrompt(t)
    /\ LET g == [g0 EXCEPT !.e = Open(t), !.s.active = t,
                           !.t = [Uncancelled EXCEPT ![t].cancel = aborted]]
           sends == ~aborted /\ Running
       IN  /\ Become(CASE aborted -> EmitTerminal(g, t, "cancelled")
                       [] sends -> [g EXCEPT !.s.awaiting = TRUE, !.t[t].timer = "first",
                                             !.c = Prompted(@, t)]
                       [] OTHER -> FailTurn(g, t))
           /\ native' = Delivered(t, sends)
    /\ UNCHANGED <<processVars, pipe, faults>>

\* A message or an interruption was written to a process that has died.
WriteFails ==
    /\ Live(g0) /\ child # "alive" /\ turn[session.active].timer \in {"first", "cancel"}
    /\ Become(FailTurn(g0, session.active))
    /\ UNCHANGED <<processVars, pipe, native, faults>>

\* The signal of the prompt aborts, or cancel is called.
Cancel ==
    /\ Ready /\ Live(g0) /\ ~turn[session.active].cancel
    /\ Become(DispatchInterrupt([g0 EXCEPT !.t[session.active].cancel = TRUE], session.active))
    /\ UNCHANGED <<processVars, pipe, native, faults>>

\* firstEventTimer, idleTimer or cancelTimer
TimerFires ==
    \E t \in Turn :
        /\ turn[t].timer # "none"
        /\ Become(FailTurn(g0, t))
        /\ UNCHANGED <<processVars, pipe, native, faults>>

\* The window in which a stray result is absorbed ends.  It is as long as the
\* CLI is given to confirm a cancellation.
StrayWindowEnds ==
    /\ session.stray /\ ~session.owes
    /\ \A i \in DOMAIN pipe : pipe[i].id # <<"prompt", NoTurn>>
    /\ session' = [session EXCEPT !.stray = FALSE]
    /\ UNCHANGED <<processVars, pipe, stream, cliVars, turn>>

----------------------------------------------------------------------------
(* close and #shutdownRuntime *)

\* A graceful shutdown interrupts the turn and gives it some time.
ShutDown(graceful) ==
    IF session.closing THEN session' = [session EXCEPT !.teardown = "done"] /\ UNCHANGED <<turn, stream, cli>>
    ELSE LET t == session.active
             g == [g0 EXCEPT !.s.closing = TRUE, !.s.teardown = "waiting"]
         IN  Become(IF graceful /\ Live(g0)
                    THEN DispatchInterrupt([g EXCEPT !.t[t].cancel = TRUE], t) ELSE g)

Close ==
    /\ Ready /\ session.teardown = "none"
    /\ ShutDown(TRUE)
    /\ UNCHANGED <<processVars, pipe, native, faults>>

Teardown ==
    /\ session.teardown = "scheduled"
    /\ ShutDown(FALSE)
    /\ UNCHANGED <<processVars, pipe, native, faults>>

\* The turn has ended or the time is up: the process is closed.
ShutdownCloses ==
    /\ session.teardown = "waiting"
    /\ StartLadder("grace")
    /\ session' = [session EXCEPT !.teardown = "closing"]
    /\ UNCHANGED <<launches, child, failed, broken, pipe, stream, cliVars, turn>>

\* Whether or not the process could be ended.
ShutdownEnds ==
    /\ session.teardown = "closing" /\ CloseSettled
    /\ LET g == [g0 EXCEPT !.s.teardown = "done", !.s.runtime = FALSE,
                           !.s.at = IF @ = "ready" THEN "none" ELSE @]
       IN  Become(IF Live(g) THEN EmitTerminal(g, g.s.active, "failed") ELSE g)
    /\ UNCHANGED <<processVars, pipe, native, faults>>

----------------------------------------------------------------------------
(* What the process and its CLI do *)

\* #handleResult
HandleResult(g, t, out) == IF g.s.awaiting THEN EmitTerminal(g, t, out) ELSE g

\* #handleMessage: a stray result is absorbed whether or not a turn is active.
\* What streams is for the active turn, whichever turn it was written for.
HandleMessage(g, f) ==
    CASE f.k = "result" /\ g.s.stray -> [g EXCEPT !.s.stray = FALSE]
      [] f.k = "text" /\ Live(g) ->
            ObserveActivity([g EXCEPT !.e = WithText(g.s.active, f.id[2])], g.s.active)
      [] f.k = "result" /\ ~g.s.stray /\ Live(g) -> HandleResult(g, g.s.active, f.out)
      [] OTHER -> g

\* #handleControlRequest: a decision is asked for, and denied.
HandleControlRequest(g) ==
    IF Live(g) THEN FailTurn(g, g.s.active)
    ELSE IF ~g.s.closing THEN ScheduleTeardown(g) ELSE g

\* The listeners of a session that has been closed are gone.
Listening == session.at \notin {"closing", "none"} /\ session.runtime

ReadFrame ==
    /\ NextFrame
    /\ LET f == Head(pipe)
       IN  CASE f.k = "garbage" /\ ~broken ->
                    /\ BreakStdout /\ UNCHANGED <<expected, ladder>>
                    /\ Become(CASE ~Listening -> g0
                                [] Listening /\ session.at \in Launching -> RejectPendingControl(g0)
                                [] OTHER -> FailRuntime(g0))
             [] f.k = "answer" /\ Listening /\ f.id[1] = session.at ->
                    Become(ControlAnswered(g0, f.out = "ok")) /\ UNCHANGED processVars
             [] f.k \in {"text", "result"} /\ Listening ->
                    Become(HandleMessage(g0, f)) /\ UNCHANGED processVars
             [] f.k = "ask" /\ Listening -> Become(HandleControlRequest(g0)) /\ UNCHANGED processVars
             [] f.k = "foreign" /\ Listening -> Become(FailRuntime(g0)) /\ UNCHANGED processVars
             [] OTHER -> Become(g0) /\ UNCHANGED processVars
    /\ UNCHANGED <<native, faults>>

\* #handleExit
HandleExit ==
    /\ ObserveExit
    /\ Become(CASE ~Listening -> g0
                [] Listening /\ session.at \in Launching -> RejectPendingControl(g0)
                [] Listening /\ session.at \notin Launching /\ ~session.closing /\ ~expected -> FailRuntime(g0)
                [] OTHER -> g0)
    /\ UNCHANGED <<expected, ladder, pipe, native, faults>>

----------------------------------------------------------------------------
(* The CLI (external) *)

\* It answers an interruption that found it idle, or does not, before it goes on.
CliAnswersIdle ==
    /\ session.owes
    /\ Writes(Frame("result", <<"prompt", NoTurn>>, "cancelled")) \/ UNCHANGED pipe
    /\ session' = [session EXCEPT !.owes = FALSE]
    /\ UNCHANGED <<cliVars, stream, turn>>

\* It reports another session than the one that was launched.
CliForeign == Misbehaves /\ Writes(Frame("foreign", <<"none", NoTurn>>, "none")) /\ UNCHANGED <<cli, native>>

Environment ==
    \/ CliAnswersIdle /\ UNCHANGED processVars
    \/ /\ \/ /\ Running /\ ~session.owes /\ UNCHANGED <<processVars, stream>>
             /\ CliSpeaks \/ CliAnswers \/ CliAsks \/ CliGarbles \/ CliForeign \/ \E out \in Outcome : CliEnds(out)
          \/ ChildDies /\ UNCHANGED stream
          \/ (Escalate \/ Finish) /\ UNCHANGED <<pipe, stream, cliVars>>
       /\ UNCHANGED <<session, turn>>

Requests == Launch \/ Cancel \/ Close \/ \E t \in Turn, aborted \in BOOLEAN : Prompt(t, aborted)

Reactions ==
    \/ ControlTimesOut \/ LaunchFails \/ LaunchThrows \/ WriteFails \/ TimerFires \/ StrayWindowEnds
    \/ Teardown \/ ShutdownCloses \/ ShutdownEnds \/ ReadFrame \/ HandleExit

Next == Requests \/ Reactions \/ Environment

=============================================================================
