--------------------------- MODULE TurnProtocol ---------------------------
(***************************************************************************)
(* What the broker promises about Turns, without attempts, cursors,        *)
(* sessions or processes: the lifecycle of every Turn, one active Turn per *)
(* actor, and a prompt that is handed to the native CLI at most once.      *)
(* TurnStore and BrokerLane implement this module.                         *)
(***************************************************************************)
EXTENDS Naturals

CONSTANTS
    Actor,      \* target actors, each with one dispatch lane
    Turn,       \* identifiers of Turns
    TargetOf    \* TargetOf[t], in Actor: the actor Turn t is addressed to

VARIABLES
    status,     \* status[t]: the Turn's status, "absent" before it is accepted
    prompted    \* Turns whose native prompt may have been invoked

vars == <<status, prompted>>

ActiveStatus   == {"dispatching", "running", "cancelling"}
TerminalStatus == {"completed", "failed", "cancelled", "interrupted"}
TurnStatus     == {"absent", "queued"} \cup ActiveStatus \cup TerminalStatus

Init == /\ status = [t \in Turn |-> "absent"]
        /\ prompted = {}

\* A message is accepted together with one queued Turn for each target.
Accept(S) ==
    /\ \A t \in S : status[t] = "absent"
    /\ status' = [t \in Turn |-> IF t \in S THEN "queued" ELSE status[t]]
    /\ UNCHANGED prompted

\* An idle lane takes a queued Turn.
Dispatch(t) ==
    /\ status[t] = "queued"
    /\ \A u \in Turn : TargetOf[u] = TargetOf[t] => status[u] \notin ActiveStatus
    /\ status' = [status EXCEPT ![t] = "dispatching"]
    /\ UNCHANGED prompted

\* The one moment after which a Turn is never dispatched again.
Prompt(t) ==
    /\ status[t] = "dispatching"
    /\ t \notin prompted
    /\ prompted' = prompted \cup {t}
    /\ UNCHANGED status

\* The CLI confirmed that it started on the prompt.
Run(t) ==
    /\ status[t] = "dispatching"
    /\ t \in prompted
    /\ status' = [status EXCEPT ![t] = "running"]
    /\ UNCHANGED prompted

RequestCancel(t) ==
    /\ status[t] \in {"dispatching", "running"}
    /\ status' = [status EXCEPT ![t] = "cancelling"]
    /\ UNCHANGED prompted

\* An active Turn ends; only one that reached the CLI can be completed.
Finish(t, outcome) ==
    /\ status[t] \in ActiveStatus
    /\ outcome = "completed" => t \in prompted
    /\ status' = [status EXCEPT ![t] = outcome]
    /\ UNCHANGED prompted

\* A Turn ends without ever being dispatched.
Drop(t, outcome) ==
    /\ status[t] = "queued"
    /\ status' = [status EXCEPT ![t] = outcome]
    /\ UNCHANGED prompted

\* After a restart every Turn that was active is either queued again, which
\* only a Turn whose prompt was never invoked may be, or interrupted.
Recover(Requeued) ==
    /\ \A t \in Requeued : status[t] = "dispatching" /\ t \notin prompted
    /\ status' = [t \in Turn |->
                    IF status[t] \notin ActiveStatus THEN status[t]
                    ELSE IF t \in Requeued THEN "queued" ELSE "interrupted"]
    /\ UNCHANGED prompted

Next ==
    \/ \E S \in SUBSET Turn : Accept(S) \/ Recover(S)
    \/ \E t \in Turn : \/ Dispatch(t) \/ Prompt(t) \/ Run(t) \/ RequestCancel(t)
                       \/ \E o \in TerminalStatus : Finish(t, o)
                       \/ \E o \in {"cancelled", "failed"} : Drop(t, o)

Spec == Init /\ [][Next]_vars
===========================================================================
