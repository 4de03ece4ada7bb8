---------------------------- MODULE AssistantHost ----------------------------
(***************************************************************************)
(* The room assistant: the posts of its users, the one CLI "brain" that     *)
(* answers them, and the conversation they leave in the store.  The brain   *)
(* is opened anew when it has died or refuses a prompt; a new post aborts   *)
(* the one before it.  Posts that are refused, and a cancel that finds      *)
(* nothing to cancel, are not steps.                                        *)
(***************************************************************************)
EXTENDS Naturals, Sequences, FiniteSets

CONSTANTS
    Post,      \* HTTP requests
    Command,   \* client command ids
    MaxBrains, MaxFaults, MaxBoots, \* bounds
    None, Host \* no post, and the host itself among those that open and close the brain

ASSUME AssistantAssumption == None \notin Post /\ Host \notin Post

Opener == Post \cup {Host}
Brain == 1..MaxBrains

VARIABLES
    table,    \* assistant_conversation_messages, in their order
    up,       \* the runtime around the host: down, serving, draining, closed
    work,     \* what each post, and the host, awaits
    aborted,  \* posts whose signal has fired
    inflight, \* GroupXAssistantHost.#inflight
    adapter,  \* CliOperatorBrain.#adapter: a brain, 0 if none
    state,    \* CliOperatorBrain.#state
    fatal,    \* CliOperatorBrain.#fatal
    brains,   \* the CLI processes: none, starting, live, failed, closing, gone
    runs,     \* brain -> the post it is answering
    faults, boots

hostVars == <<table, inflight, aborted>>
brainVars == <<adapter, state, fatal, brains, runs>>
assistantVars == <<hostVars, brainVars, up, work, faults, boots>>

NoWork == [pc |-> "none", cmd |-> None, try |-> 0, brain |-> 0]
Active(p) == work[p].pc \in {"prompting", "closing", "starting"}
Flight(c) == {p \in Post : Active(p) /\ work[p].cmd = c}
Fresh == {b \in Brain : brains[b] = "none"}
NextBrain == {b \in Fresh : \A d \in Fresh : b <= d}

AssistantInit ==
    /\ table = <<>> /\ up = "down" /\ work = [p \in Opener |-> NoWork]
    /\ aborted = {} /\ inflight = None
    /\ adapter = 0 /\ state = "starting" /\ fatal = FALSE
    /\ brains = [b \in Brain |-> "none"] /\ runs = [b \in Brain |-> None]
    /\ faults = 0 /\ boots = 0

----------------------------------------------------------------------------
(* The conversation                                                          *)

UserRows(c) == {i \in DOMAIN table : table[i].role = "user" /\ table[i].cmd = c}

\* A repeated command keeps the row that its first post wrote.
Asked(c) == IF UserRows(c) # {} THEN table ELSE Append(table, [role |-> "user", cmd |-> c])

\* getAssistantReplyAfter: the next row, if the assistant wrote it.
Replied(c) ==
    \E i \in UserRows(c) : i < Len(table) /\ table[i + 1].role = "assistant"

----------------------------------------------------------------------------
(* CliOperatorBrain: each of these is the part of a step that follows a      *)
(* decision of prompt, for the opener p                                      *)

\* mutant: the end of any post clears the controller, whoever's it is
EndsAny(p) ==
    /\ table' = Append(table, [role |-> "assistant", cmd |-> work[p].cmd])
    /\ inflight' = None
    /\ work' = [q \in Opener |-> IF q = p \/ (work[q].pc = "joined" /\ work[q].cmd = work[p].cmd)
                                 THEN [work[q] EXCEPT !.pc = "done"] ELSE work[q]]

\* mutant: a repeated command waits for its own answer, which no one gives
EndsAlone(p) ==
    /\ table' = Append(table, [role |-> "assistant", cmd |-> work[p].cmd])
    /\ inflight' = IF inflight = p THEN None ELSE inflight
    /\ work' = [work EXCEPT ![p].pc = "done"]

\* The post has its outcome, which is written down as the assistant's words
\* whether they are its own or say what failed; those that joined it have it too.
Ends(p) ==
    /\ table' = Append(table, [role |-> "assistant", cmd |-> work[p].cmd])
    /\ inflight' = IF inflight = p THEN None ELSE inflight
    /\ work' = [q \in Opener |-> IF q = p \/ (work[q].pc = "joined" /\ work[q].cmd = work[p].cmd)
                                 THEN [work[q] EXCEPT !.pc = "done"] ELSE work[q]]

\* #startHarness up to its await.
StartHarness(p, c, try) ==
    \E b \in NextBrain :
    /\ brains' = [brains EXCEPT ![b] = "starting"] /\ state' = "starting"
    /\ work' = [work EXCEPT ![p] = [pc |-> "starting", cmd |-> c, try |-> try, brain |-> b]]

\* #reopen up to its first await: try is the prompt that follows, seen the state
\* it begins in.
Reopen(p, c, try, seen) ==
    IF adapter # 0
    THEN /\ brains' = [brains EXCEPT ![adapter] = IF @ = "gone" THEN @ ELSE "closing"]
         /\ work' = [work EXCEPT ![p] = [pc |-> "closing", cmd |-> c, try |-> try, brain |-> adapter]]
         /\ state' = seen
    ELSE StartHarness(p, c, try)

\* #promptOnce up to its first await, when the adapter takes the prompt.
Takes(p, c, try, b) ==
    /\ runs' = [runs EXCEPT ![b] = p] /\ state' = "busy"
    /\ work' = [work EXCEPT ![p] = [pc |-> "prompting", cmd |-> c, try |-> try, brain |-> b]]

----------------------------------------------------------------------------
(* postMessage                                                               *)

\* A command whose reply is written, or whose post is under way, is answered
\* with that.
Repeats(p, c) ==
    /\ up = "serving" /\ work[p].pc = "none"
    /\ \/ /\ Flight(c) # {}
          /\ work' = [work EXCEPT ![p] = [NoWork EXCEPT !.pc = "joined", !.cmd = c]]
       \/ /\ Flight(c) = {} /\ Replied(c)
          /\ work' = [work EXCEPT ![p] = [NoWork EXCEPT !.pc = "done", !.cmd = c]]
    /\ UNCHANGED <<hostVars, brainVars, up, faults, boots>>

NeedsReopen == ~fatal /\ (adapter # 0 => brains[adapter] = "failed")
Usable(b) == brains[b] = "live" /\ runs[b] = None

\* A post that the host runs: its user's row, the end of the post before it, and
\* the prompt, as far as the first await.
Accepts(p, c) ==
    /\ up = "serving" /\ work[p].pc = "none" /\ state # "starting"
    /\ Flight(c) = {} /\ ~Replied(c)
    /\ table' = Asked(c)
    /\ aborted' = aborted \cup ({inflight} \ {None})
    /\ inflight' = p
    /\ \/ NeedsReopen /\ Reopen(p, c, 1, state) /\ UNCHANGED <<adapter, fatal, runs>>
       \/ /\ ~NeedsReopen /\ state # "failed" /\ adapter # 0 /\ Usable(adapter)
          /\ Takes(p, c, 1, adapter) /\ UNCHANGED <<adapter, fatal, brains>>
       \/ \* busy with the post that was just aborted, or closing
          /\ ~NeedsReopen /\ state # "failed" /\ adapter # 0 /\ ~Usable(adapter) /\ ~fatal
          /\ Reopen(p, c, 2, "ready") /\ UNCHANGED <<adapter, fatal, runs>>
    /\ UNCHANGED <<up, faults, boots>>

\* A brain that has failed and is not opened anew answers nothing.
Fails(p, c) ==
    /\ up = "serving" /\ work[p].pc = "none"
    /\ Flight(c) = {} /\ ~Replied(c)
    /\ ~NeedsReopen /\ state # "starting"
    /\ state = "failed" \/ adapter = 0 \/ (fatal /\ ~Usable(adapter))
    /\ table' = Append(Asked(c), [role |-> "assistant", cmd |-> c])
    /\ aborted' = aborted \cup ({inflight} \ {None}) /\ inflight' = None
    /\ work' = [work EXCEPT ![p] = [NoWork EXCEPT !.pc = "done", !.cmd = c]]
    /\ state' = IF state = "failed" \/ adapter = 0 THEN state ELSE "ready"
    /\ UNCHANGED <<adapter, fatal, brains, runs, up, faults, boots>>

----------------------------------------------------------------------------
(* The end of a prompt                                                       *)

\* mutant: a prompt that fails leaves the state as it was
IdleNever == state

Idle == IF state = "busy" THEN "ready" ELSE state

\* It answered, with text or without.
Answers(p) ==
    LET b == work[p].brain IN
    /\ work[p].pc = "prompting" /\ brains[b] = "live"
    /\ runs' = [runs EXCEPT ![b] = None] /\ state' = "ready"
    /\ Ends(p)
    /\ UNCHANGED <<aborted, adapter, fatal, brains, up, faults, boots>>

\* It asked for something no one can grant: the brain is not used again.
Interacts(p) ==
    LET b == work[p].brain IN
    /\ work[p].pc = "prompting" /\ brains[b] = "live" /\ faults < MaxFaults
    /\ runs' = [runs EXCEPT ![b] = None] /\ state' = "failed" /\ fatal' = TRUE
    /\ faults' = faults + 1
    /\ Ends(p)
    /\ UNCHANGED <<aborted, adapter, brains, up, boots>>

\* The prompt was cancelled or its brain has gone, and no one waits for it.
Interrupted(p) ==
    LET b == work[p].brain IN
    /\ work[p].pc = "prompting" /\ p \in aborted
    /\ runs' = [runs EXCEPT ![b] = None]
    /\ state' = Idle
    /\ Ends(p)
    /\ UNCHANGED <<aborted, adapter, fatal, brains, up, faults, boots>>

\* It failed: the first prompt of a post is tried once more on a brain opened
\* anew, the second is not.
Broken(p) ==
    LET b == work[p].brain IN
    /\ work[p].pc = "prompting" /\ p \notin aborted
    /\ brains[b] = "live" => faults < MaxFaults
    /\ faults' = IF brains[b] = "live" THEN faults + 1 ELSE faults
    /\ runs' = [runs EXCEPT ![b] = None]
    /\ IF work[p].try = 1 /\ ~fatal
       THEN Reopen(p, work[p].cmd, 2, Idle) /\ UNCHANGED <<table, inflight>>
       ELSE state' = Idle /\ Ends(p) /\ UNCHANGED brains
    /\ UNCHANGED <<aborted, adapter, fatal, up, boots>>

----------------------------------------------------------------------------
(* The two awaits of #reopen, and the host's own start and close             *)

\* The brain that was closed has gone; whichever is current is forgotten.
Closes(p) ==
    LET b == work[p].brain IN
    /\ p \in Post /\ work[p].pc = "closing"
    /\ adapter' = 0
    /\ \E b2 \in NextBrain :
       /\ brains' = [brains EXCEPT ![b] = "gone", ![b2] = "starting"] /\ state' = "starting"
       /\ work' = [work EXCEPT ![p].pc = "starting", ![p].brain = b2]
    /\ UNCHANGED <<hostVars, fatal, runs, up, faults, boots>>

\* The new brain is there, or it could not be started.
Started(p) ==
    LET b == work[p].brain IN
    /\ work[p].pc = "starting"
    /\ brains' = [brains EXCEPT ![b] = "live"] /\ adapter' = b
    /\ IF p = Host
       THEN /\ state' = "ready" /\ work' = [work EXCEPT ![p] = NoWork]
            /\ UNCHANGED runs
       ELSE Takes(p, work[p].cmd, work[p].try, b)
    /\ UNCHANGED <<hostVars, fatal, up, faults, boots>>

StartFails(p) ==
    LET b == work[p].brain IN
    /\ work[p].pc = "starting" /\ faults < MaxFaults
    /\ faults' = faults + 1 /\ state' = "failed"
    /\ brains' = [brains EXCEPT ![b] = "gone"]
    /\ IF p = Host
       THEN work' = [work EXCEPT ![p] = NoWork] /\ UNCHANGED <<table, inflight>>
       ELSE Ends(p)
    /\ UNCHANGED <<aborted, adapter, fatal, runs, up, boots>>

BrainDies(b) ==
    /\ brains[b] = "live" /\ faults < MaxFaults
    /\ brains' = [brains EXCEPT ![b] = "failed"] /\ faults' = faults + 1
    /\ UNCHANGED <<hostVars, adapter, state, fatal, runs, up, work, boots>>

----------------------------------------------------------------------------
(* Cancel, a client that leaves, and the runtime's start, close and crash    *)

Cancel ==
    /\ up = "serving" /\ inflight \notin aborted \cup {None}
    /\ aborted' = aborted \cup {inflight}
    /\ UNCHANGED <<table, inflight, brainVars, up, work, faults, boots>>

\* The signal is that of the request that began the flight.
Leaves(p) ==
    /\ Active(p) /\ p \notin aborted
    /\ aborted' = aborted \cup {p}
    /\ UNCHANGED <<table, inflight, brainVars, up, work, faults, boots>>

Boot ==
    /\ up = "down" /\ boots < MaxBoots
    /\ up' = "serving" /\ boots' = boots + 1
    /\ StartHarness(Host, None, 0)
    /\ UNCHANGED <<hostVars, adapter, fatal, runs, faults>>

\* beginClose aborts every request; close waits for the start that is under way.
Drains ==
    /\ up = "serving" /\ work[Host].pc = "none"
    /\ up' = "draining"
    /\ aborted' = aborted \cup {p \in Post : Active(p)}
    /\ UNCHANGED <<table, inflight, brainVars, work, faults, boots>>

\* drain has ended or timed out: the brain that is current is closed.
ClosesHost ==
    /\ up = "draining" /\ work[Host].pc = "none"
    /\ IF adapter # 0
       THEN /\ brains' = [brains EXCEPT ![adapter] = IF @ = "gone" THEN @ ELSE "closing"]
            /\ work' = [work EXCEPT ![Host].pc = "closing", ![Host].brain = adapter]
            /\ UNCHANGED <<state, up>>
       ELSE state' = "failed" /\ up' = "closed" /\ UNCHANGED <<brains, work>>
    /\ UNCHANGED <<hostVars, adapter, fatal, runs, faults, boots>>

HostClosed ==
    /\ work[Host].pc = "closing"
    /\ brains' = [brains EXCEPT ![work[Host].brain] = "gone"]
    /\ adapter' = 0 /\ state' = "failed" /\ up' = "closed"
    /\ work' = [work EXCEPT ![Host] = NoWork]
    /\ UNCHANGED <<hostVars, fatal, runs, faults, boots>>

\* The process ends: the posts are lost with it and the conversation stays.
Exits ==
    /\ up = "closed" \/ (up # "down" /\ faults < MaxFaults)
    /\ faults' = IF up = "closed" THEN faults ELSE faults + 1
    /\ up' = "down" /\ inflight' = None /\ adapter' = 0 /\ state' = "starting" /\ fatal' = FALSE
    /\ brains' = [b \in Brain |-> IF brains[b] = "none" THEN "none" ELSE "gone"]
    /\ runs' = [b \in Brain |-> None]
    /\ work' = [p \in Opener |-> IF p = Host THEN NoWork
                                 ELSE IF work[p].pc = "none" THEN work[p] ELSE [work[p] EXCEPT !.pc = "done"]]
    /\ UNCHANGED <<table, aborted, boots>>

----------------------------------------------------------------------------

BrainNext(p) ==
    Answers(p) \/ Interacts(p) \/ Interrupted(p) \/ Broken(p) \/ Closes(p) \/ Started(p) \/ StartFails(p)

AssistantNext ==
    \/ \E p \in Post, c \in Command : Repeats(p, c) \/ Accepts(p, c) \/ Fails(p, c)
    \/ \E p \in Opener : BrainNext(p)
    \/ \E b \in Brain : BrainDies(b)
    \/ Cancel \/ (\E p \in Post : Leaves(p))
    \/ Boot \/ Drains \/ ClosesHost \/ HostClosed \/ Exits

AssistantSpec == AssistantInit /\ [][AssistantNext]_assistantVars

\* The adapters bound a start, a close, and a prompt that was cancelled; nothing
\* bounds a prompt that was not.
Fairness ==
    /\ \A p \in Opener : WF_assistantVars(Interrupted(p)) /\ WF_assistantVars(Closes(p))
                         /\ WF_assistantVars(Started(p) \/ StartFails(p))
    /\ WF_assistantVars(HostClosed)

FairSpec == AssistantSpec /\ Fairness

----------------------------------------------------------------------------

\* A post under way that no one has aborted is the latest: two posts never wait
\* for their answers at once, however their prompts, reopenings and ends overlap.
OnePostListens == Cardinality({p \in Post : Active(p) /\ p \notin aborted}) <= 1

\* The brain says "starting", which refuses posts, and "busy" only while some
\* opener awaits a start or a prompt: no overlap of posts, failures and reopenings
\* leaves the assistant refusing posts for good.
StatusIsLive ==
    up # "down" =>
        /\ state = "starting" => \E p \in Opener : work[p].pc = "starting"
        /\ state = "busy" => \E p \in Post : work[p].pc = "prompting"

\* A post that was aborted, by its client, a cancel, a later post or the close of
\* the server, is answered, and so are those that joined it.
PostsEnd ==
    \A p \in Post :
        (Active(p) \/ work[p].pc = "joined")
            /\ (\E q \in Flight(work[p].cmd) : q \in aborted)
        ~> work[p].pc = "done"
=============================================================================
