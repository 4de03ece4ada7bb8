----------------------------- MODULE NativeAgents -----------------------------
(***************************************************************************)
(* What the three structured adapters promise the broker: an agent speaks   *)
(* ACP, the Codex App Server protocol or Claude's stream-json, over the     *)
(* same process and with the same CLI behind it.                           *)
(***************************************************************************)
EXTENDS RpcClient

VARIABLES kind, session, turn

vars == <<kind, processVars, pipe, stream, cliVars, rpcVars, session, turn>>

Acp == INSTANCE AcpAdapter
Codex == INSTANCE CodexAdapter
Claude == INSTANCE ClaudeAdapter

Init ==
    \/ kind = "acp" /\ Acp!Init
    \/ kind = "codex" /\ Codex!Init
    \/ kind = "claude" /\ Claude!Init /\ RpcInit

Next ==
    /\ UNCHANGED kind
    /\ \/ kind = "acp" /\ Acp!Next
       \/ kind = "codex" /\ Codex!Next
       \/ kind = "claude" /\ Claude!Next /\ UNCHANGED rpcVars

Reacts ==
    /\ UNCHANGED kind
    /\ \/ kind = "acp" /\ Acp!Reactions
       \/ kind = "codex" /\ Codex!Reactions
       \/ kind = "claude" /\ Claude!Reactions /\ UNCHANGED rpcVars

Closes == kind = "acp" /\ Acp!Closing /\ UNCHANGED kind

ProcessSteps ==
    /\ Escalate \/ Finish
    /\ UNCHANGED <<kind, pipe, stream, cliVars, rpcVars, session, turn>>

\* GroupX runs its callbacks, timers and grace periods; nothing is assumed of
\* the CLI or of the broker.
Spec == Init /\ [][Next]_vars /\ WF_vars(Reacts) /\ WF_vars(Closes) /\ WF_vars(ProcessSteps)

----------------------------------------------------------------------------

TypeOK ==
    /\ launches \in 0..MaxLaunches /\ faults \in 0..MaxFaults
    /\ child \in {"none", "alive", "dead", "exited", "gone"}
    /\ {expected, failed, broken} \subseteq BOOLEAN
    /\ ladder \in {"none", "grace", "signals", "gaveUp"}
    /\ Len(pipe) <= MaxPipe
    /\ stream \in [Turn -> [open : BOOLEAN, ends : Seq(Outcome \cup {"past"}), text : SUBSET (Turn \cup {NoTurn})]]
    /\ client \in {"running", "closing", "closed", "failed"}
    /\ session.active \in Turn \cup {NoTurn}
    \* an active turn that has ended is about to be forgotten
    /\ session.active # NoTurn => stream[session.active].open \/ stream[session.active].ends # <<>>
    \* a request waits for its answer only while the client runs
    /\ pending # {} => client = "running"
    /\ Cardinality({r \in pending : r[1] = "prompt"}) <= 1

\* A prompt gets one outcome and it is its own: the stream ends once, tells
\* nothing another prompt was told, completes only if the CLI completed this
\* prompt, and is cancelled only if somebody cancelled it (#failTurn and
\* #emitTerminal against late results, retired turns and the answers to
\* interruptions that lost the race).
OneOwnOutcome ==
    \A t \in Turn :
        /\ Len(stream[t].ends) <= 1
        /\ stream[t].ends # <<>> => ~stream[t].open
        /\ stream[t].text \subseteq {t}
        /\ stream[t].ends = <<"completed">> => native[t] = "completed"
        /\ stream[t].ends = <<"cancelled">> => turn[t].cancel

\* An adapter that has let go of its runtime, so that the next session may be
\* launched, has no CLI left unless it could not be killed.
NoOrphan ==
    session.at \in {"none", "ready"} /\ ~session.runtime /\ child = "alive" => ladder = "gaveUp"

\* An ACP prompt has no timeout: it waits for as long as its CLI lives and is
\* silent, if nobody closes the session.
HeldByAcp(t) ==
    kind = "acp" /\ <<"prompt", t>> \in pending /\ child = "alive" /\ session.closer = "none"

\* Every stream of events ends, whatever the CLI does, but for that one.
PromptsEnd == \A t \in Turn : []<>(~stream[t].open \/ HeldByAcp(t))

=============================================================================
