---------------------------- MODULE NativeProcess ----------------------------
(***************************************************************************)
(* The child process of a native CLI, as JsonLineProcess sees it, the       *)
(* streams of events an adapter gives the broker, and the CLI itself.       *)
(*                                                                         *)
(* child says what is known of the process: it is "dead" before its exit    *)
(* event is handled ("exited") and "gone" once its pipes have closed.  The  *)
(* CLI reads its stdin in the order it was written and at once; what it     *)
(* writes waits in pipe.  The CLI is not in the repository: the actions of  *)
(* the last section are what the adapters are written against.              *)
(***************************************************************************)
EXTENDS Naturals, Sequences, FiniteSets

CONSTANTS
    MaxTurns,   \* bound on the number of prompts
    MaxLaunches,\* bound on the number of processes
    MaxFaults,  \* bound on what the CLI does against the adapters' protocol
    MaxPipe     \* frames the stdout pipe holds

ASSUME BoundAssumption ==
    /\ MaxTurns \in Nat /\ MaxLaunches \in Nat
    /\ MaxFaults \in Nat /\ MaxPipe \in Nat \ {0}

Turn == 1..MaxTurns
NoTurn == 0

VARIABLES
    launches,   \* counts against MaxLaunches
    child,      \* "none", "alive", "dead", "exited", "gone"
    expected,   \* #expectedExit
    failed,     \* #failureObserved
    broken,     \* #stdoutBroken
    ladder,     \* closeInternal: "none", "grace", "signals", "gaveUp"
    pipe,       \* frames written to stdout and not read yet
    stream,     \* for each prompt, what its stream of events has said
    cli,        \* the CLI: the prompts it has, in order, and what it was told
    native,     \* what the CLI did with each prompt
    faults      \* counts against MaxFaults

processVars == <<launches, child, expected, failed, broken, ladder>>
cliVars == <<cli, native, faults>>

Outcome == {"completed", "failed", "cancelled"}
NoStream == [open |-> FALSE, ends |-> <<>>, text |-> {}]
Idle == [work |-> <<>>, interrupted |-> FALSE, asked |-> {}, told |-> FALSE, ended |-> {}]

ProcessInit ==
    /\ launches = 0 /\ child = "none" /\ expected = FALSE /\ failed = FALSE /\ broken = FALSE
    /\ ladder = "none" /\ pipe = <<>>
    /\ stream = [t \in Turn |-> NoStream]
    /\ cli = Idle /\ native = [t \in Turn |-> "none"] /\ faults = 0

----------------------------------------------------------------------------
(* JsonLineProcess *)

SpawnChild ==
    /\ launches < MaxLaunches /\ launches' = launches + 1
    /\ child' = "alive" /\ expected' = FALSE /\ failed' = FALSE /\ broken' = FALSE
    /\ ladder' = "none" /\ pipe' = <<>>

Running == child \in {"alive", "dead"} /\ ~failed /\ ~expected

\* What is known of the close() of the process: it has returned or thrown.
CloseSettled == child = "gone" \/ ladder = "gaveUp"

\* close() and terminate(): the first of them decides how the process ends.
StartLadder(rung) ==
    IF ladder # "none" \/ child = "gone" THEN UNCHANGED <<expected, ladder>>
    ELSE expected' = TRUE /\ ladder' = rung

\* A grace period of closeInternal ends before the process does: SIGTERM and
\* then SIGKILL are sent ("signals"), and in the end it throws.
Escalate ==
    /\ ladder \in {"grace", "signals"} /\ child # "gone"
    /\ ladder' = IF ladder = "grace" THEN "signals" ELSE "gaveUp"
    /\ failed' = (failed \/ ladder = "signals")
    /\ UNCHANGED <<launches, child, expected, broken>>

\* The exit event: an exit nobody asked for is a failure.
ObserveExit ==
    /\ child = "dead"
    /\ child' = "exited"
    /\ failed' = (failed \/ ~expected)
    /\ UNCHANGED <<launches, broken>>

\* The close event, once what was in the pipes has been read.
Finish ==
    /\ child = "exited" /\ pipe = <<>>
    /\ child' = "gone"
    /\ UNCHANGED <<launches, expected, failed, broken, ladder>>

\* The next frame of stdout.
NextFrame == /\ pipe # <<>> /\ child # "gone"
             /\ pipe' = Tail(pipe)

BreakStdout == broken' = TRUE /\ failed' = TRUE /\ UNCHANGED <<launches, child>>

----------------------------------------------------------------------------
(* AsyncQueue: the stream of a prompt *)

\* Prompts are made one at a time, in order; what an earlier one said, and how
\* the CLI ended it, is no longer of interest then.
Past == [open |-> FALSE, ends |-> <<"past">>, text |-> {}]
Open(t) == [u \in Turn |-> IF u < t THEN Past ELSE [stream[u] EXCEPT !.open = u = t]]
CanPrompt(t) ==
    /\ native[t] = "none" /\ stream[t] = NoStream
    /\ \A u \in Turn : ~stream[u].open /\ (u < t => stream[u].ends # <<>>)
Forgotten(n, t) == [u \in Turn |-> IF u < t /\ n[u] \in Outcome THEN "past" ELSE n[u]]
Ended(s, t, outcome) ==
    IF s[t].open THEN [s EXCEPT ![t] = [open |-> FALSE, ends |-> Append(@.ends, outcome), text |-> @.text]]
    ELSE s
WithText(t, source) ==
    IF stream[t].open THEN [stream EXCEPT ![t].text = @ \cup {source}] ELSE stream

----------------------------------------------------------------------------
(* The native CLI (external) *)

\* A request is named by what it asks for and its turn, if it has one.
Frame(k, id, out) == [k |-> k, id |-> id, out |-> out]

Writes(frame) ==
    /\ child = "alive" /\ Len(pipe) < MaxPipe
    /\ pipe' = IF broken THEN pipe ELSE Append(pipe, frame)

Misbehaves == faults < MaxFaults /\ faults' = faults + 1

Worked == Head(cli.work)

\* A prompt, and an interruption, arrive.  The latter is for the prompt that
\* is worked on.
Prompted(c, t) == IF child = "alive" THEN [c EXCEPT !.work = Append(@, t)] ELSE c
Delivered(t, sends) ==
    Forgotten(IF sends /\ child = "alive" THEN [native EXCEPT ![t] = "working"] ELSE native, t)
Interrupted(c) == IF c.work = <<>> THEN c ELSE [c EXCEPT !.interrupted = TRUE]
Asked(c, r) == [c EXCEPT !.asked = @ \cup {r}]

\* It speaks once of each prompt and then ends it.
CliSpeaks ==
    /\ cli.work # <<>> /\ ~cli.told
    /\ Writes(Frame("text", <<"prompt", Worked>>, "none"))
    /\ cli' = [cli EXCEPT !.told = TRUE]
    /\ UNCHANGED <<native, faults>>

CliEnds(out) ==
    /\ cli.work # <<>>
    /\ out = "cancelled" => cli.interrupted
    /\ Writes(Frame("result", <<"prompt", Worked>>, out))
    /\ native' = [native EXCEPT ![Worked] = out]
    /\ cli' = [cli EXCEPT !.work = Tail(@), !.interrupted = FALSE, !.told = FALSE,
                          !.ended = @ \cup {Worked}]
    /\ UNCHANGED faults

\* It answers a request, one for a turn with what has become of the turn.
CliAnswers ==
    \E r \in cli.asked, ok \in BOOLEAN :
        /\ Writes(Frame("answer", r, CASE ~ok -> "error"
                                       [] ok /\ r[2] = NoTurn -> "ok"
                                       [] OTHER -> native[r[2]]))
        /\ cli' = [cli EXCEPT !.asked = @ \ {r}]
        /\ UNCHANGED <<native, faults>>

\* It asks for a decision although it runs unrestricted, or writes what is not
\* a frame.
CliAsks ==
    /\ Misbehaves
    /\ Writes(Frame("ask", <<"prompt", IF cli.work = <<>> THEN NoTurn ELSE Worked>>, "none"))
    /\ UNCHANGED <<cli, native>>
CliGarbles == Misbehaves /\ Writes(Frame("garbage", <<"none", NoTurn>>, "none")) /\ UNCHANGED <<cli, native>>

\* It ends: by itself, because its stdin was closed, or by a signal.
ChildDies ==
    /\ child = "alive"
    /\ child' = "dead"
    /\ IF ladder = "none" THEN Misbehaves ELSE UNCHANGED faults
    /\ UNCHANGED <<launches, expected, failed, broken, ladder, cli, native, pipe>>

=============================================================================
