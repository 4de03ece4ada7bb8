----------------------------- MODULE RoomServer -----------------------------
(***************************************************************************)
(* What the room's REST API does for a page of the browser client: it makes *)
(* one Turn of a message, cancels Turns, writes, replaces and withdraws     *)
(* memories, each request once under its command id, and logs every change  *)
(* in the room's durable event stream.  Agents and other clients act on the *)
(* same Turns and memories.                                                 *)
(***************************************************************************)
EXTENDS Integers, FiniteSets, SequencesExt

CONSTANTS
    MaxTurns, MaxMemories,  \* Turns and memories the room ever has
    Click                   \* the requests a user makes: 1..n, in that order

ASSUME RoomAssumption ==
    /\ MaxTurns \in Nat /\ MaxMemories \in Nat
    /\ Click = 1..Cardinality(Click)

VARIABLES
    turns,     \* status and, as history, the draft of the page it was made of, or 0
    memories,  \* the room's records, in the order they were written
    log,       \* the durable events
    receipts,  \* client_commands of the web binding: what a command made, 0 if it did not run
    requests   \* by click: what was asked, and how far server and page are with it

serverVars == <<turns, memories, log, receipts>>

\* A Turn that failed, was cancelled or was interrupted ends without an answer.
Ended == {"completed", "stopped"}
MemoryStatus == {"active", "superseded", "retracted"}

NoRequest == [kind |-> "none", of |-> 0, cmd |-> 0, was |-> "none", server |-> "none", page |-> "none"]

ServerInit ==
    /\ turns = <<>> /\ memories = <<>> /\ log = <<>>
    /\ receipts = [c \in Click |-> 0]
    /\ requests = [c \in Click |-> NoRequest]

TurnEvent(t, to) == [kind |-> "turn", of |-> t, to |-> to, instead |-> 0]
ReplyEvent(t) == [kind |-> "reply", of |-> t, to |-> "none", instead |-> 0]
MemoryEvent(m, to, old) == [kind |-> "memory", of |-> m, to |-> to, instead |-> old]

InForce == {m \in DOMAIN memories : memories[m].status = "active"}
Live == {t \in DOMAIN turns : turns[t].status \notin Ended}

----------------------------------------------------------------------------
(* The Turns of the room's agent run one after the other                     *)

Moves(t, to, events) ==
    /\ turns' = [turns EXCEPT ![t].status = to]
    /\ log' = log \o events
    /\ UNCHANGED <<memories, receipts, requests>>

TurnStarts(t) ==
    /\ turns[t].status = "queued" /\ \A s \in Live : t <= s
    /\ Moves(t, "running", <<TurnEvent(t, "running")>>)

\* The answer of a Turn and its end are one transaction.  A cancellation may come too
\* late for the agent.
TurnEnds(t, to) ==
    /\ turns[t].status \in {"running", "cancelling"} /\ to \in Ended
    /\ Moves(t, to, (IF to = "completed" THEN <<ReplyEvent(t)>> ELSE <<>>) \o <<TurnEvent(t, to)>>)

----------------------------------------------------------------------------
(* Memories                                                                  *)

Remembers ==
    /\ Len(memories) < MaxMemories
    /\ memories' = Append(memories, [status |-> "active"])
    /\ log' = Append(log, MemoryEvent(Len(memories) + 1, "active", 0))

Replaces(m) ==
    /\ m \in InForce /\ Len(memories) < MaxMemories
    /\ memories' = Append([memories EXCEPT ![m].status = "superseded"], [status |-> "active"])
    /\ log' = Append(log, MemoryEvent(Len(memories) + 1, "active", m))

Withdraws(m) ==
    /\ m \in InForce
    /\ memories' = [memories EXCEPT ![m].status = "retracted"]
    /\ log' = Append(log, MemoryEvent(m, "retracted", 0))

\* Agents and other pages: each has a binding and command ids of its own.
OthersWrite ==
    /\ \/ Remembers
       \/ \E m \in DOMAIN memories : Replaces(m) \/ Withdraws(m)
    /\ UNCHANGED <<turns, receipts, requests>>

NewTurn(draft) ==
    /\ Len(turns) < MaxTurns
    /\ turns' = Append(turns, [status |-> "queued", draft |-> draft])
    /\ log' = Append(log, TurnEvent(Len(turns) + 1, "queued"))

OthersSend == NewTurn(0) /\ UNCHANGED <<memories, receipts, requests>>

----------------------------------------------------------------------------
(* Requests of the page                                                      *)

\* A repeated command is answered from its receipt.
Replay(c) ==
    /\ requests[c].server = "waits" /\ receipts[requests[c].cmd] # 0
    /\ requests' = [requests EXCEPT ![c].server = "done"]
    /\ UNCHANGED serverVars

Runs(c, made) ==
    /\ requests[c].server = "waits" /\ receipts[requests[c].cmd] = 0
    /\ receipts' = [receipts EXCEPT ![requests[c].cmd] = made]
    /\ requests' = [requests EXCEPT ![c].server = "done"]

Accept(c) ==
    /\ requests[c].kind = "message"
    /\ Runs(c, Len(turns) + 1) /\ NewTurn(requests[c].of)
    /\ UNCHANGED memories

\* A Turn that waits ends at once, one that runs is asked to, one that has ended
\* stays as it is and the answer is no error.
Cancel(c) ==
    LET t == requests[c].of IN
    /\ requests[c].kind = "cancel"
    /\ Runs(c, t)
    /\ CASE turns[t].status = "queued" ->
              /\ turns' = [turns EXCEPT ![t].status = "stopped"]
              /\ log' = Append(log, TurnEvent(t, "stopped"))
         [] turns[t].status = "running" ->
              turns' = [turns EXCEPT ![t].status = "cancelling"] /\ UNCHANGED log
         [] OTHER -> UNCHANGED <<turns, log>>
    /\ UNCHANGED memories

Write(c) ==
    /\ \/ requests[c].kind = "remember" /\ Remembers /\ Runs(c, Len(memories) + 1)
       \/ requests[c].kind = "replace" /\ Replaces(requests[c].of) /\ Runs(c, Len(memories) + 1)
       \/ requests[c].kind = "retract" /\ Withdraws(requests[c].of) /\ Runs(c, requests[c].of)
    /\ UNCHANGED turns

\* A request the page has given up may never have arrived.
Lost(c) ==
    /\ requests[c].server = "waits" /\ requests[c].page = "left"
    /\ requests' = [requests EXCEPT ![c].server = "done"]
    /\ UNCHANGED serverVars

ServerNext ==
    \/ \E t \in DOMAIN turns : TurnStarts(t) \/ \E to \in Ended : TurnEnds(t, to)
    \/ OthersWrite \/ OthersSend
    \/ \E c \in Click : Replay(c) \/ Accept(c) \/ Cancel(c) \/ Write(c) \/ Lost(c)
=============================================================================
