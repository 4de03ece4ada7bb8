----------------------------- MODULE CodexAdapter -----------------------------
(***************************************************************************)
(* CodexAppServerAdapter: the session of a Codex App Server.  A prompt is a *)
(* turn/start request, answered at once; notifications that name the turn   *)
(* stream and end it.  Timers bound the first event, the silence between    *)
(* events and a cancellation; whatever goes wrong poisons the runtime and   *)
(* schedules its teardown.                                                 *)
(*                                                                         *)
(* The operators on g are what one callback does to [s |-> session,         *)
(* t |-> turn, e |-> stream, c |-> cli, p |-> pending].                     *)
(***************************************************************************)
EXTENDS RpcClient

VARIABLES
    session,    \* CodexRuntime and the coroutines of open and shutdown
    turn        \* TurnContext

vars == <<processVars, pipe, stream, cliVars, rpcVars, session, turn>>

Launching == {"initialize", "requirements", "open"}

\* at: where #open is; runtime: #runtimes has it; teardown: where #shutdownRuntime
\* is; shut: the turn that was active when it began.
NoSession == [at |-> "none", runtime |-> FALSE, closing |-> FALSE, poisoned |-> FALSE,
              active |-> NoTurn, retired |-> {}, teardown |-> "none", shut |-> NoTurn]
\* id: nativeTurnId; interrupt: interruptPromise; timer: the one that runs.
FreshTurn == [id |-> NoTurn, cancel |-> FALSE, interrupt |-> FALSE, observed |-> FALSE,
              timer |-> "none"]

Init == ProcessInit /\ RpcInit /\ session = NoSession /\ turn = [t \in Turn |-> FreshTurn]

g0 == [s |-> session, t |-> turn, e |-> stream, c |-> cli, p |-> pending]
Become(g) ==
    /\ session' = g.s /\ turn' = g.t /\ stream' = g.e /\ cli' = g.c /\ pending' = g.p

Uncancelled == [t \in Turn |-> [turn[t] EXCEPT !.cancel = FALSE]]
Ready == session.runtime /\ session.at = "ready"
Terminal(g, t) == g.e[t].ends # <<>>
Live(g) == g.s.active # NoTurn /\ ~Terminal(g, g.s.active)

----------------------------------------------------------------------------
(* Ending a turn *)

\* #emitTerminal.  Nothing but its cancellation is asked of the context later.
\* A turn may outlive the runtime it was made for, and ends without the next one.
EmitTerminal(g, t, outcome) ==
    IF Terminal(g, t) THEN g
    ELSE [g EXCEPT !.t[t] = [FreshTurn EXCEPT !.cancel = g.t[t].cancel], !.e = Ended(g.e, t, outcome),
                   !.s.retired = IF g.t[t].id = NoTurn \/ g.s.active # t THEN @ ELSE @ \cup {g.t[t].id},
                   !.s.active = IF @ = t THEN NoTurn ELSE @]

\* #scheduleRuntimeTeardown
ScheduleTeardown(g) ==
    [g EXCEPT !.s.poisoned = TRUE, !.s.teardown = IF @ = "none" THEN "scheduled" ELSE @]

\* A turn/interrupt request reaches the CLI.
AskInterrupt(g, t) ==
    [g EXCEPT !.c = IF @.work # <<>> /\ Worked = g.t[t].id THEN Interrupted(@) ELSE @]

\* #failTurn
FailTurn(g, t) ==
    IF Terminal(g, t) THEN g
    ELSE LET sends == g.t[t].id # NoTurn /\ ~g.t[t].cancel
             h == IF sends /\ client = "running" THEN AskInterrupt(g, t) ELSE g
             i == EmitTerminal([h EXCEPT !.t[t].cancel = @ \/ sends], t, "failed")
         IN  IF g.s.active = t THEN ScheduleTeardown(i) ELSE i

\* #interrupt: once, and only a turn whose native name is known.
Interrupt(g, t) ==
    IF Terminal(g, t) \/ g.t[t].id = NoTurn \/ g.t[t].interrupt THEN g
    ELSE IF client # "running" THEN FailTurn(g, t)
    ELSE AskInterrupt([g EXCEPT !.t[t].interrupt = TRUE, !.t[t].timer = "cancel",
                                !.p = @ \cup {<<"interrupt", t>>},
                                !.c = Asked(@, <<"interrupt", t>>)], t)

\* #finishFromNativeStatus
FinishFromNativeStatus(g, t, status) == EmitTerminal(g, t, status)

\* #observeActivity, #resetIdleTimer
ObserveActivity(g, t) ==
    [g EXCEPT !.t[t].observed = TRUE,
              !.t[t].timer = CASE @ = "cancel" -> @
                               [] @ # "cancel" /\ g.t[t].cancel -> "none"
                               [] OTHER -> "idle"]

\* The continuations of the rejected requests: those of a turn that has ended
\* do nothing.
Rejected(g) ==
    LET h == IF g.s.at \in Launching THEN [g EXCEPT !.s.at = "failing"] ELSE g
    IN  IF \E r \in g.p : r[2] # NoTurn /\ r[2] = g.s.active THEN FailTurn(h, g.s.active) ELSE h

----------------------------------------------------------------------------
(* #open *)

Launch ==
    /\ session.at = "none" /\ ~session.runtime /\ session.teardown \in {"none", "done"}
    /\ NewClient
    /\ Become([g0 EXCEPT !.s = [NoSession EXCEPT !.at = "initialize"],
                         !.p = {<<"initialize", NoTurn>>},
                         !.c = Asked(Idle, <<"initialize", NoTurn>>)])
    /\ UNCHANGED <<native, faults>>

LaunchContinues(ok) ==
    LET next == CASE session.at = "initialize" -> "requirements"
                  [] session.at = "requirements" -> "open"
                  [] session.at = "open" -> "ready"
        g == [g0 EXCEPT !.p = {}]
    IN  Become(CASE ~ok \/ (next = "ready" /\ session.poisoned) -> [g EXCEPT !.s.at = "failing"]
                 [] ok /\ next = "ready" /\ ~session.poisoned ->
                        [g EXCEPT !.s.at = "ready", !.s.runtime = TRUE]
                 [] OTHER -> [g EXCEPT !.s.at = next, !.p = {<<next, NoTurn>>},
                                       !.c = Asked(@, <<next, NoTurn>>)])

LaunchTimesOut ==
    /\ session.at \in Launching /\ pending # {}
    /\ Become([g0 EXCEPT !.s.at = "failing", !.p = {}])
    /\ UNCHANGED <<client, processVars, pipe, native, faults>>

\* The listeners are taken off and the client is closed.
LaunchFails ==
    /\ session.at = "failing"
    /\ CloseClient
    /\ session' = [session EXCEPT !.at = "closing"]
    /\ UNCHANGED <<launches, child, failed, broken, pipe, stream, native, faults, cli, turn>>

LaunchThrows ==
    /\ session.at = "closing" /\ CloseSettled
    /\ session' = [session EXCEPT !.at = "none"]
    /\ UNCHANGED <<processVars, pipe, stream, cliVars, rpcVars, turn>>

----------------------------------------------------------------------------
(* prompt and cancel *)

\* #startTurn asks for the turn at once.
Prompt(t, aborted) ==
    /\ Ready /\ ~session.poisoned /\ session.active = NoTurn
    /\ CanPrompt(t)
    /\ LET g == [g0 EXCEPT !.e = Open(t), !.s.active = t, !.t = [Uncancelled EXCEPT ![t].cancel = aborted]]
           sends == ~aborted /\ CanRequest
       IN  /\ Become(CASE aborted -> EmitTerminal(g, t, "cancelled")
                       [] sends -> [g EXCEPT !.p = @ \cup {<<"start", t>>},
                                             !.c = IF child = "alive"
                                                   THEN Asked(Prompted(@, t), <<"start", t>>) ELSE @]
                       [] OTHER -> FailTurn(g, t))
           /\ native' = Delivered(t, sends)
    /\ UNCHANGED <<processVars, pipe, faults, client>>

\* turn/start was answered.
TurnStarted(g, t, status) ==
    IF Terminal(g, t) THEN g
    ELSE LET h == [g EXCEPT !.t[t].id = IF @ = NoTurn THEN t ELSE @]
         IN  CASE status = "error" -> FailTurn(g, t)
               [] status \in Outcome -> FinishFromNativeStatus(h, t, status)
               [] status = "working" /\ h.t[t].cancel -> Interrupt(h, t)
               [] OTHER -> [h EXCEPT !.t[t].timer = IF h.t[t].observed THEN "idle" ELSE "first"]

\* A request of the turn times out, or was written to a process that has died.
RequestFails ==
    \E r \in pending :
        /\ r[2] # NoTurn /\ client = "running"
        /\ Become(FailTurn([g0 EXCEPT !.p = @ \ {r}], r[2]))
        /\ UNCHANGED <<processVars, pipe, native, faults, client>>

\* The signal of the prompt aborts, or cancel is called.
Cancel ==
    /\ Ready /\ Live(g0) /\ ~turn[session.active].cancel
    /\ Become(Interrupt([g0 EXCEPT !.t[session.active].cancel = TRUE], session.active))
    /\ UNCHANGED <<processVars, pipe, native, faults, client>>

\* firstEventTimer, idleTimer or cancelTimer
TimerFires ==
    \E t \in Turn :
        /\ turn[t].timer # "none"
        /\ Become(FailTurn(g0, t))
        /\ UNCHANGED <<processVars, pipe, native, faults, client>>

----------------------------------------------------------------------------
(* close and #shutdownRuntime *)

\* A graceful shutdown interrupts the turn and gives it some time.
ShutDown(graceful) ==
    IF session.closing THEN session' = [session EXCEPT !.teardown = "done"] /\ UNCHANGED <<turn, stream, cli, pending>>
    ELSE LET t == session.active
             g == [g0 EXCEPT !.s.closing = TRUE, !.s.shut = t, !.s.teardown = "waiting"]
         IN  Become(IF graceful /\ Live(g0) /\ turn[t].id # NoTurn
                    THEN Interrupt([g EXCEPT !.t[t].cancel = TRUE], t) ELSE g)

Close ==
    /\ Ready /\ session.teardown = "none"
    /\ ShutDown(TRUE)
    /\ UNCHANGED <<processVars, pipe, native, faults, client>>

Teardown ==
    /\ session.teardown = "scheduled"
    /\ ShutDown(FALSE)
    /\ UNCHANGED <<processVars, pipe, native, faults, client>>

\* The turn has ended or the time is up: the client is closed.
ShutdownCloses ==
    /\ session.teardown = "waiting"
    /\ client' = IF client = "failed" THEN "failed" ELSE "closing"
    /\ StartLadder("grace")
    /\ Become([Rejected([g0 EXCEPT !.s.teardown = "closing"]) EXCEPT !.p = {}])
    /\ UNCHANGED <<launches, child, failed, broken, pipe, native, faults>>

\* Whether or not the process could be ended.
ShutdownEnds ==
    /\ session.teardown = "closing" /\ CloseSettled
    /\ LET g == [g0 EXCEPT !.s.teardown = "done", !.s.runtime = FALSE,
                           !.s.at = IF @ = "ready" THEN "none" ELSE @]
       IN  Become(IF g.s.shut = NoTurn THEN g ELSE EmitTerminal(g, g.s.shut, "failed"))
    /\ UNCHANGED <<processVars, pipe, native, faults, client>>

----------------------------------------------------------------------------
(* What the process and its CLI do *)

\* A notification that names another turn than the active one.
NamesOtherTurn(g, id) ==
    LET t == g.s.active
    IN  id \in g.s.retired \/ (g.t[t].id # NoTurn /\ g.t[t].id # id)

\* #handleNotification
HandleNotification(g, f) ==
    LET t == g.s.active
        h == ObserveActivity([g EXCEPT !.t[t].id = IF @ = NoTurn THEN f.id[2] ELSE @], t)
    IN  IF ~Live(g) \/ NamesOtherTurn(g, f.id[2]) THEN g
        ELSE IF f.k = "result" THEN FinishFromNativeStatus(h, t, f.out)
        ELSE LET i == [h EXCEPT !.e = WithText(t, f.id[2])]
             IN  IF h.t[t].cancel THEN Interrupt(i, t) ELSE i

\* #handleServerRequest
HandleServerRequest(g, id) ==
    IF Live(g) /\ (id = NoTurn \/ ~NamesOtherTurn(g, id))
    THEN FailTurn([g EXCEPT !.t[g.s.active].id = IF @ = NoTurn THEN id ELSE @], g.s.active)
    ELSE IF g.s.active = NoTurn /\ ~g.s.closing THEN ScheduleTeardown(g) ELSE g

\* #failRuntime
FailRuntime(g) ==
    IF Live(g) THEN FailTurn(g, g.s.active) ELSE ScheduleTeardown(g)

\* The listeners of a launch that failed are gone.
Listening == session.at \notin {"closing", "none"}

ReadFrame ==
    /\ NextFrame
    /\ LET f == Head(pipe)
       IN  CASE f.k = "garbage" /\ ~broken ->
                    /\ BreakStdout
                    /\ IF client = "closed" THEN Become(g0) /\ UNCHANGED <<client, expected, ladder>>
                       ELSE /\ client' = "failed" /\ StartLadder("signals")
                            /\ LET h == IF Listening THEN FailRuntime(g0) ELSE g0
                               IN  Become([Rejected(h) EXCEPT !.p = {}])
             [] f.k = "answer" /\ client = "running" /\ Answers(f.id) /\ session.at \in Launching ->
                    LaunchContinues(f.out = "ok") /\ UNCHANGED <<processVars, client>>
             [] f.k = "answer" /\ client = "running" /\ Answers(f.id) /\ session.at \notin Launching ->
                    /\ LET g == [g0 EXCEPT !.p = @ \ {f.id}]
                       IN  Become(CASE f.id[1] = "start" -> TurnStarted(g, f.id[2], f.out)
                                    [] f.id[1] = "interrupt" /\ f.out = "error" -> FailTurn(g, f.id[2])
                                    [] OTHER -> g)
                    /\ UNCHANGED <<processVars, client>>
             [] f.k \in {"text", "result"} /\ client = "running" ->
                    Become(HandleNotification(g0, f)) /\ UNCHANGED <<processVars, client>>
             [] f.k = "ask" /\ client = "running" ->
                    Become(HandleServerRequest(g0, f.id[2])) /\ UNCHANGED <<processVars, client>>
             [] OTHER -> Become(g0) /\ UNCHANGED <<processVars, client>>
    /\ UNCHANGED <<native, faults>>

HandleExit ==
    /\ ObserveExit
    /\ client' = ClientAfterExit
    /\ LET g == IF Listening /\ ~session.closing /\ ~expected THEN FailRuntime(g0) ELSE g0
       IN  Become(IF client = "running" THEN [Rejected(g) EXCEPT !.p = {}] ELSE g)
    /\ UNCHANGED <<expected, ladder, pipe, native, faults>>

----------------------------------------------------------------------------

\* The CLI (external): it speaks of a turn that it has ended, or ends it again.
CliRepeats ==
    \E t \in cli.ended, k \in {"text", "result"} :
        /\ Misbehaves
        /\ Writes(Frame(k, <<"prompt", t>>, "completed"))
        /\ UNCHANGED <<cli, native>>

Environment ==
    /\ \/ /\ client = "running" /\ UNCHANGED <<processVars, stream>>
          /\ CliSpeaks \/ CliAnswers \/ CliAsks \/ CliGarbles \/ CliRepeats \/ \E out \in Outcome : CliEnds(out)
       \/ ChildDies /\ UNCHANGED stream
       \/ (Escalate \/ Finish) /\ UNCHANGED <<pipe, stream, cliVars>>
    /\ UNCHANGED <<rpcVars, session, turn>>

Requests == Launch \/ Cancel \/ Close \/ \E t \in Turn, aborted \in BOOLEAN : Prompt(t, aborted)

Reactions ==
    \/ LaunchTimesOut \/ LaunchFails \/ LaunchThrows \/ RequestFails \/ TimerFires
    \/ Teardown \/ ShutdownCloses \/ ShutdownEnds \/ ReadFrame \/ HandleExit

Next == Requests \/ Reactions \/ Environment

=============================================================================
