--------------------------- MODULE CommandLedger ---------------------------
(***************************************************************************)
(* What clients and agents ask to be done once: restart an agent, reset the *)
(* room's context, write, replace or withdraw a memory or an identity.      *)
(* Each command has a receipt under the binding that sent it and the id it  *)
(* was given.  Binding 0 stands for the stable web and operator bindings;   *)
(* the others are the launches of the agents.                               *)
(***************************************************************************)
EXTENDS AgentSessions

Binding == {0} \cup Launch
Key == Binding \X (1..MaxEvents)
NoReceipt == [kind |-> "none", agent |-> 0, done |-> FALSE, before |-> 0]
NoReset == [pc |-> "none", key |-> <<>>, left |-> <<>>]

VARIABLES
    receipts,  \* client_commands
    flights,   \* RestartAgentCommandCoordinator.#flights
    reset,     \* the context reset under way and the agents it has yet to restart
    news,      \* the room has messages after its last reset
    memories,  \* memory_records, in the order they were written
    identities \* identity_records

ledgerVars == <<receipts, flights, reset, news, memories, identities>>

LedgerInit ==
    /\ receipts = [k \in Key |-> NoReceipt] /\ flights = {}
    /\ reset = NoReset /\ news = FALSE
    /\ memories = <<>> /\ identities = <<>>

\* The listener takes requests from before the agents start until the runtime
\* drains; only the web client waits for readiness, the operator's tools do not.
Serving == phase \in {"starting", "unwinding", "started", "ready"}

Accepted == {k \in Key : receipts[k].kind # "none"}

\* The latest launch of an agent that became ready, 0 if none did.
LatestReady(a) == Max({0} \cup {l \in DOMAIN rows : rows[l].agent = a /\ rows[l].native # 0})

\* beginClientCommand for an id its binding has not used: the next one, for ids
\* are only compared.  "before" is history.
Begin(k, kind, a, done) ==
    /\ receipts[k].kind = "none" /\ Happens
    /\ k[2] = 1 + Cardinality({j \in Accepted : j[1] = k[1]})
    /\ receipts' = [receipts EXCEPT ![k] = [kind |-> kind, agent |-> a, done |-> done,
                                             before |-> IF kind = "restart" THEN LatestReady(a) ELSE 0]]

----------------------------------------------------------------------------
(* agent.restart                                                             *)

\* A repeated command is answered from its receipt, joins the flight, or learns
\* that the outcome is uncertain: none of them is a step.
RestartCommand(k, a) ==
    /\ Serving /\ ManagerReady /\ k[1] = 0 /\ Room(Len(reset.left))
    /\ Begin(k, "restart", a, FALSE)
    /\ flights' = flights \cup {k}
    /\ IF Restarting(a) THEN UNCHANGED sessionVars ELSE BeginRestart(a) /\ UNCHANGED turnVars
    /\ UNCHANGED <<reset, news, memories, identities>>

\* The operator's tools do not wait for readiness: the manager refuses, and the
\* receipt stays pending.
RestartRefused(k, a) ==
    /\ Serving /\ ~ManagerReady /\ k[1] = 0
    /\ Begin(k, "restart", a, FALSE)
    /\ UNCHANGED <<flights, reset, news, memories, identities, sessionVars>>

\* mutant: the receipt is completed whatever came of the restart
SettleAnyway(a) ==
    LET mine == {k \in flights : receipts[k].agent = a} IN
    /\ receipts' = [k \in Key |-> IF k \in mine THEN [receipts[k] EXCEPT !.done = TRUE] ELSE receipts[k]]
    /\ flights' = flights \ mine
    /\ reset' = IF reset.pc = "waits" /\ Head(reset.left) = a THEN NoReset ELSE reset
    /\ UNCHANGED <<news, memories, identities>>

\* mutant: who joined the restart of another command is not told of its end
SettleFirst(a) ==
    LET mine == {k \in flights : receipts[k].agent = a /\ \A j \in flights : k[2] <= j[2]}
        won == session'[a] # 0 IN
    /\ receipts' = [k \in Key |-> IF k \in mine THEN [receipts[k] EXCEPT !.done = won] ELSE receipts[k]]
    /\ flights' = flights \ mine
    /\ reset' = IF reset.pc = "waits" /\ Head(reset.left) = a
                THEN IF won THEN [reset EXCEPT !.pc = "next", !.left = Tail(@)] ELSE NoReset
                ELSE reset
    /\ UNCHANGED <<news, memories, identities>>

\* The restart of a has ended in this step: those that await it go on.
Settle(a) ==
    LET mine == {k \in flights : receipts[k].agent = a}
        won == session'[a] # 0 IN
    /\ receipts' = [k \in Key |-> IF k \in mine THEN [receipts[k] EXCEPT !.done = won] ELSE receipts[k]]
    /\ flights' = flights \ mine
    /\ reset' = IF reset.pc = "waits" /\ Head(reset.left) = a
                THEN IF won THEN [reset EXCEPT !.pc = "next", !.left = Tail(@)] ELSE NoReset
                ELSE reset
    /\ UNCHANGED <<news, memories, identities>>

Awaited(a) ==
    IF op[a].by = "restart" /\ op'[a].pc = "none" THEN Settle(a) ELSE UNCHANGED ledgerVars

----------------------------------------------------------------------------
(* context.reset, with resetNativeSessions                                   *)

\* A receipt that is pending without a flight is executed again.
ResetCommand(k) ==
    /\ Serving /\ k[1] = 0 /\ reset.pc = "none" /\ Room(Len(AgentOrder) - 1)
    /\ \/ Begin(k, "reset", 0, ~news)
       \/ /\ receipts[k].kind = "reset" /\ ~receipts[k].done /\ UNCHANGED events
          /\ receipts' = [receipts EXCEPT ![k].done = ~news]
    /\ reset' = IF news THEN [pc |-> "next", key |-> k, left |-> AgentOrder] ELSE NoReset
    /\ news' = FALSE
    /\ UNCHANGED <<flights, memories, identities, sessionVars>>

\* The agents are restarted one after the other; the first that fails ends it,
\* and its receipt stays pending.
ResetNext ==
    /\ reset.pc = "next" /\ reset.left # <<>>
    /\ LET a == Head(reset.left) IN
       IF ~ManagerReady
       THEN reset' = NoReset /\ UNCHANGED sessionVars
       ELSE /\ reset' = [reset EXCEPT !.pc = "waits"]
            /\ IF Restarting(a) THEN UNCHANGED sessionVars ELSE BeginRestart(a) /\ UNCHANGED turnVars
    /\ UNCHANGED <<events, receipts, flights, news, memories, identities>>

ResetCompletes ==
    /\ reset.pc = "next" /\ reset.left = <<>>
    /\ receipts' = [receipts EXCEPT ![reset.key].done = TRUE]
    /\ reset' = NoReset
    /\ UNCHANGED <<events, flights, news, memories, identities, sessionVars>>

----------------------------------------------------------------------------
(* Memories and identities: one transaction each                             *)

\* requireForCaller: an agent's tools work during the Turn of its binding.
MayCall(b) == b # 0 => registry[b] \in {"reserved", "ready"} /\ b \in calling /\ b \in causal
BindingOpen(b) == b # 0 => rows[b].binding \in {"starting", "ready"}

Mutates(k) ==
    /\ Serving /\ MayCall(k[1]) /\ BindingOpen(k[1])
    /\ Begin(k, "mutation", 0, TRUE)
    /\ UNCHANGED <<flights, reset, news, sessionVars>>

Remembered(table) == Append(table, [status |-> "active", replaces |-> 0])

Superseded(table, r) ==
    Append([table EXCEPT ![r].status = "superseded"], [status |-> "active", replaces |-> r])

Active(table) == {r \in DOMAIN table : table[r].status = "active"}

\* Agents write memories and identities, users do and replace and withdraw them too,
\* whoever wrote the record.
RememberMemory(k) ==
    Mutates(k) /\ memories' = Remembered(memories) /\ UNCHANGED identities

SupersedeMemory(k, r) ==
    /\ k[1] = 0 /\ r \in Active(memories)
    /\ Mutates(k) /\ memories' = Superseded(memories, r) /\ UNCHANGED identities

RetractMemory(k, r) ==
    /\ k[1] = 0 /\ r \in Active(memories)
    /\ Mutates(k) /\ memories' = [memories EXCEPT ![r].status = "retracted"] /\ UNCHANGED identities

RememberIdentity(k) ==
    Mutates(k) /\ identities' = Remembered(identities) /\ UNCHANGED memories

SupersedeIdentity(k, r) ==
    /\ k[1] = 0 /\ r \in Active(identities)
    /\ Mutates(k) /\ identities' = Superseded(identities, r) /\ UNCHANGED memories

RetractIdentity(k, r) ==
    /\ k[1] = 0 /\ r \in Active(identities)
    /\ Mutates(k) /\ identities' = [identities EXCEPT ![r].status = "retracted"] /\ UNCHANGED memories

----------------------------------------------------------------------------

LedgerForgets ==
    /\ flights' = {} /\ reset' = NoReset
    /\ UNCHANGED <<receipts, news, memories, identities>>

LedgerNext ==
    \/ \E k \in Key, a \in Agent : RestartCommand(k, a) \/ RestartRefused(k, a)
    \/ \E k \in Key : ResetCommand(k)
    \/ ResetNext \/ ResetCompletes
    \/ \E k \in Key : RememberMemory(k) \/ RememberIdentity(k)
    \/ \E k \in Key, r \in DOMAIN memories : SupersedeMemory(k, r) \/ RetractMemory(k, r)
    \/ \E k \in Key, r \in DOMAIN identities : SupersedeIdentity(k, r) \/ RetractIdentity(k, r)
=============================================================================
