------------------------------ MODULE RpcClient ------------------------------
(***************************************************************************)
(* JsonLineRpcClient: the requests an adapter has in flight on the pipes of *)
(* its CLI.  A request is named by what it asks for, a prompt by its turn.  *)
(* A rejection runs what awaits the request in the same step (a microtask), *)
(* so the operators here only say what becomes of the client; the adapters  *)
(* say what the rejected requests did.                                     *)
(***************************************************************************)
EXTENDS NativeProcess

VARIABLES
    client,     \* #stateValue: "running", "closing", "closed", "failed"
    pending     \* #pending

rpcVars == <<client, pending>>

RpcInit == client = "closed" /\ pending = {}

\* spawn: the client listens to a new process.
NewClient == SpawnChild /\ client' = "running"

\* beginRequest refuses when the client does not run.
CanRequest == client = "running"

\* handleResponse: a response nobody waits for is a diagnostic.
Answers(r) == r \in pending

\* failProtocol and failTransport: the client fails, the process is terminated.
FailClient ==
    IF client = "closed" THEN UNCHANGED <<rpcVars, expected, ladder>>
    ELSE client' = "failed" /\ pending' = {} /\ StartLadder("signals")

\* close: every request is rejected, the process is closed gracefully.
CloseClient ==
    /\ client' = IF client = "failed" THEN "failed" ELSE "closing"
    /\ pending' = {}
    /\ StartLadder("grace")

\* handleExit: only a client that was closing ends well.
ClientAfterExit ==
    CASE client = "running" -> "failed"
      [] client = "closing" -> "closed"
      [] OTHER -> client
PendingAfterExit == IF client = "running" THEN {} ELSE pending
=============================================================================
