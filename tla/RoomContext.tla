----------------------------- MODULE RoomContext -----------------------------
(***************************************************************************)
(* What an agent is told of its room: each Turn's packet holds its message, *)
(* those it replies to, the rolling summary and the messages after it that  *)
(* the agent has not been given.                                            *)
(* Lanes that find their packet too small, and users, roll old messages     *)
(* into the summary, one compaction of the room at a time; a reset cuts the *)
(* past off.  Messages have a size; the packet holds Soft units, Hard when  *)
(* there is nothing left to roll up.                                        *)
(***************************************************************************)
EXTENDS DatedMemory, FiniteSetsExt

CONSTANTS
    Agent, Owner,        \* the agents, and the one whose daily memory is followed
    Size,                \* the size of the room's first, second, ... message
    Soft, Hard,          \* compactionTriggerChars, maxChars
    SummarySize,         \* what a summary takes of the packet
    InputBudget,         \* what a compaction can read at once
    Retain,              \* messages a manual compaction keeps verbatim
    MaxReplyDepth,       \* MAX_REPLY_DEPTH, 64 in the code
    MaxPasses, CompactionAttempts,
    MaxPosted,           \* bound: the last messages of the room are answers
    MaxQueued, MaxFaults, MaxCommands, MaxRestarts,  \* bounds
    MaxTroubles          \* bound: those, edits and failed rollups together

ASSUME OwnerAssumption == Owner \in Agent
ASSUME BudgetAssumption ==
    Soft <= Hard /\ Retain \in Nat /\ MaxReplyDepth \in Nat /\ Size \in Seq(Nat \ {0})

VARIABLES
    high,          \* the room's messages are 1..high
    ancestors,     \* of each message, those it replies to, directly or through others
    reset,         \* getLatestContextResetThroughSeq
    summary,       \* the active summary: [from, through, covers], covers a history of
                   \* what it was made from
    cursor,        \* agent -> delivery cursor
    queue,         \* agent -> source messages of its queued Turns
    lane,          \* agent -> [pc, pass, packet]: prepare for the head of its queue;
                   \* source: the message of the Turn it runs
    flight,        \* the compaction of the room
    manual,        \* compactNow
    open,          \* the engine is not closed
    faults, commands, restarts,
    missed         \* history: agent -> messages its cursor passed and it was not given

roomVars == <<high, ancestors, reset, summary, cursor, queue>>
prepVars == <<lane, flight, manual, open>>
boundVars == <<faults, commands, restarts>>
vars == <<roomVars, prepVars, boundVars, missed, datedVars>>

NoSummary == [from |-> 0, through |-> 0, covers |-> {}]
NoPacket == [after |-> 0, reset |-> 0, messages |-> {}]
IdleLane == [pc |-> "idle", source |-> 0, pass |-> 0, packet |-> NoPacket]
NoFlight == [pc |-> "idle", after |-> 0, through |-> 0, previous |-> NoSummary, left |-> 0, agents |-> 0]
NoManual == [pc |-> "idle", through |-> 0, cutoff |-> 0, before |-> 0, pass |-> 0]

Init ==
    /\ DatedInit
    /\ high = 0 /\ ancestors = <<>> /\ reset = 0 /\ summary = NoSummary
    /\ cursor = [a \in Agent |-> 0] /\ queue = [a \in Agent |-> <<>>]
    /\ lane = [a \in Agent |-> IdleLane] /\ flight = NoFlight /\ manual = NoManual /\ open = TRUE
    /\ faults = 0 /\ commands = 0 /\ restarts = 0
    /\ missed = [a \in Agent |-> {}]

RoomFull == high = Len(Size)

----------------------------------------------------------------------------
(* Reading the store.                                                      *)

\* getActiveSummary up to a boundary, if it reaches past the reset.
Usable(through) ==
    IF summary.through <= through /\ summary.through > reset THEN summary ELSE NoSummary

\* The newest messages first, skipping those that do not fit.
Kept(unread, space) ==
    LET left[m \in 1..(high + 1)] ==
            IF m = high + 1 THEN space
            ELSE IF m \in unread /\ Size[m] <= left[m + 1] THEN left[m + 1] - Size[m]
            ELSE left[m + 1]
    IN  {m \in unread : Size[m] <= left[m + 1]}

Total[m \in 0..Len(Size)] == IF m = 0 THEN 0 ELSE Total[m - 1] + Size[m]

\* The oldest messages that fit the input of a compaction, at least one.
Selected(after, cutoff) ==
    {m \in (after + 1)..cutoff : m = after + 1 \/ Total[m] - Total[after] <= InputBudget}

HasCompactableHistory(a, source) ==
    Max({cursor[a], Usable(source).through, reset}) + 1 < source

----------------------------------------------------------------------------
(* The packet of a Turn.                                                   *)

\* mutant: the unread transcript begins at the cursor, wherever the reset is
AfterCursor(a, source) == Min({cursor[a], source})

After(a, source) == Min({Max({cursor[a], reset}), source})

Summary(a, source) ==
    IF Usable(source).through > After(a, source) THEN Usable(source) ELSE NoSummary

\* The reply chain, which is read back to its first message wherever the cursor and
\* the reset are, is no part of the unread transcript.
Unread(a, source) ==
    (Max({After(a, source), Summary(a, source).through}) + 1)..(source - 1) \ ancestors[source]

ChainTooLong(source) == Cardinality(ancestors[source]) > MaxReplyDepth

\* The sections a packet is not built without.
Required(a, source) ==
    MapThenSumSet(LAMBDA m : Size[m], ancestors[source] \cup {source})
        + (IF Summary(a, source) = NoSummary THEN 0 ELSE SummarySize)

Fitting(a, source, limit) == Kept(Unread(a, source), limit - Required(a, source))

\* buildContextPacket
Packet(a, source, limit) ==
    [after |-> After(a, source), reset |-> reset,
     messages |-> Summary(a, source).covers \cup Fitting(a, source, limit)
                      \cup ancestors[source] \cup {source}]

PacketReady(a, limit) ==
    /\ lane' = [lane EXCEPT ![a].pc = "ready", ![a].packet = Packet(a, Head(queue[a]), limit)]
    /\ UNCHANGED <<roomVars, flight, manual, open, boundVars, missed, datedVars>>

\* failQueuedContext ends the Turn.
FailLane(a) ==
    /\ lane' = [lane EXCEPT ![a] = IdleLane]
    /\ queue' = [queue EXCEPT ![a] = Tail(@)]
    /\ UNCHANGED <<high, ancestors, reset, summary, cursor, flight, manual, open, boundVars, missed,
                   datedVars>>

\* The work of #compactOneChunk before it first waits: what to read, and the
\* flush of the daily memories those messages would leave the packet with.
StartChunk(through, cutoff) ==
    LET previous == Usable(through)
        after == Max({previous.through, reset})
        last == Max(Selected(after, cutoff))
    IN  /\ FlushBeforeCompaction(last)
        /\ flight' = [pc |-> IF flush'.pc = "idle" THEN "generating" ELSE "flushing",
                      after |-> after, through |-> last, previous |-> previous,
                      left |-> CompactionAttempts, agents |-> Cardinality(Agent)]

NothingToCompact(through, cutoff) == cutoff <= Max({Usable(through).through, reset})

\* #compactSingleFlight for a lane: join the compaction there is, or start one.
CompactFor(a, cutoff) ==
    LET source == Head(queue[a])
    IN  \/ /\ flight.pc # "idle" \/ ~NothingToCompact(source, cutoff)
           /\ IF flight.pc # "idle"
              THEN UNCHANGED <<flight, datedVars>>
              ELSE StartChunk(source, cutoff)
           /\ lane' = [lane EXCEPT ![a].pc = "waiting"]
           /\ UNCHANGED <<roomVars, manual, open, boundVars, missed>>
        \/ /\ flight.pc = "idle" /\ NothingToCompact(source, cutoff)
           /\ FailLane(a)

\* One pass of the loop of prepare.
Build(a) ==
    LET source == Head(queue[a])
        kept == Fitting(a, source, Soft)
    IN  /\ queue[a] # <<>> /\ lane[a].pc \in {"idle", "building"}
        /\ \/ (~open \/ ChainTooLong(source)) /\ FailLane(a)
           \/ /\ open /\ ~ChainTooLong(source)
              /\ Required(a, source) > Soft /\ ~HasCompactableHistory(a, source)
              /\ IF Required(a, source) > Hard THEN FailLane(a) ELSE PacketReady(a, Hard)
           \/ /\ open /\ ~ChainTooLong(source)
              /\ Required(a, source) > Soft /\ HasCompactableHistory(a, source)
              /\ IF lane[a].pass >= MaxPasses
                 THEN FailLane(a) ELSE CompactFor(a, source - 1)
           \/ /\ open /\ ~ChainTooLong(source)
              /\ Required(a, source) <= Soft /\ Unread(a, source) = kept
              /\ PacketReady(a, Soft)
           \/ /\ open /\ ~ChainTooLong(source)
              /\ Required(a, source) <= Soft /\ Unread(a, source) # kept
              /\ IF lane[a].pass >= MaxPasses
                 THEN FailLane(a) ELSE CompactFor(a, Min(kept \cup {source}) - 1)

----------------------------------------------------------------------------
(* The compaction of the room.                                             *)

\* mutant: only the lane that started the compaction is told of its end
FlightEndsForOne ==
    /\ flight' = NoFlight
    /\ \E a \in Agent :
        /\ lane[a].pc = "waiting" \/ \A b \in Agent : lane[b].pc # "waiting"
        /\ lane' = IF lane[a].pc = "waiting"
                   THEN [lane EXCEPT ![a].pc = "building", ![a].pass = @ + 1] ELSE lane
    /\ manual' = IF manual.pc = "waiting" THEN [manual EXCEPT !.pc = "looping"] ELSE manual
    /\ UNCHANGED <<queue>>

\* The lanes and the command that wait for the flight go on, or fail with it.
FlightEnds ==
    /\ flight' = NoFlight
    /\ lane' = [a \in Agent |->
                    IF lane[a].pc = "waiting" THEN [lane[a] EXCEPT !.pc = "building", !.pass = @ + 1] ELSE lane[a]]
    /\ manual' = IF manual.pc = "waiting" THEN [manual EXCEPT !.pc = "looping"] ELSE manual
    /\ UNCHANGED <<queue>>

FlightFails ==
    /\ flight' = NoFlight
    /\ lane' = [a \in Agent |-> IF lane[a].pc = "waiting" THEN IdleLane ELSE lane[a]]
    /\ queue' = [a \in Agent |-> IF lane[a].pc = "waiting" THEN Tail(queue[a]) ELSE queue[a]]
    /\ manual' = IF manual.pc = "waiting" THEN NoManual ELSE manual

FlushSettles ==
    /\ flight.pc = "flushing" /\ ~Flushing
    /\ flight' = [flight EXCEPT !.pc = "generating"]
    /\ UNCHANGED <<roomVars, lane, manual, open, boundVars, missed, datedVars>>

\* replaceActiveSummary: the active summary is still the one that was read, it
\* keeps its start and moves on.
Replaceable ==
    /\ summary = flight.previous
    /\ flight.through > flight.previous.through

Replacement ==
    [from |-> IF flight.previous = NoSummary THEN flight.after + 1 ELSE flight.previous.from,
     through |-> flight.through,
     covers |-> flight.previous.covers \cup (flight.after + 1)..flight.through]

CompactionGenerated ==
    /\ flight.pc = "generating"
    /\ IF Replaceable
       THEN summary' = Replacement /\ FlightEnds
       ELSE FlightFails /\ UNCHANGED summary
    /\ UNCHANGED <<high, ancestors, reset, cursor, open, boundVars, missed, datedVars>>

\* The agents are asked in their configured order, each in a session of its
\* own: one that is not healthy or fails leaves it to the next.
AgentFails ==
    /\ flight.pc = "generating" /\ open /\ flight.agents > 1
    /\ flight' = [flight EXCEPT !.agents = @ - 1]
    /\ UNCHANGED <<roomVars, lane, manual, open, boundVars, missed, datedVars>>

\* No agent could, the text is empty or too long; a lost session is tried again.
CompactionFails ==
    /\ flight.pc = "generating" /\ open /\ flight.agents = 1 /\ faults < MaxFaults
    /\ faults' = faults + 1
    /\ \/ /\ flight.left > 1
          /\ flight' = [flight EXCEPT !.pc = "retrying", !.left = @ - 1]
          /\ UNCHANGED <<lane, manual, queue>>
       \/ FlightFails
    /\ UNCHANGED <<high, ancestors, reset, summary, cursor, open, commands, restarts, missed, datedVars>>

RetryCompaction ==
    /\ flight.pc = "retrying" /\ open
    /\ flight' = [flight EXCEPT !.pc = "generating", !.agents = Cardinality(Agent)]
    /\ UNCHANGED <<roomVars, lane, manual, open, boundVars, missed, datedVars>>

CompactionAborted ==
    /\ ~open /\ flight.pc # "idle"
    /\ FlightFails
    /\ UNCHANGED <<high, ancestors, reset, summary, cursor, open, boundVars, missed, datedVars>>

----------------------------------------------------------------------------
(* What users ask for.                                                     *)

Reset ==
    /\ open /\ commands < MaxCommands /\ reset < high
    /\ commands' = commands + 1
    /\ reset' = high
    /\ summary' = NoSummary
    /\ UNCHANGED <<high, ancestors, cursor, queue, prepVars, faults, restarts, missed, datedVars>>

\* One pass of the loop of compactNow: over when the summary has reached the
\* cutoff, did not move, or the passes are spent; a compaction that has nothing
\* to read fails the command.
ManualPass(asked) ==
    LET now == Usable(asked.through).through
    IN  IF \/ now >= asked.cutoff \/ asked.pass >= MaxPasses \/ (asked.pass > 0 /\ now <= asked.before)
           \/ (flight.pc = "idle" /\ NothingToCompact(asked.through, asked.cutoff))
        THEN manual' = NoManual /\ UNCHANGED <<flight, datedVars>>
        ELSE /\ manual' = [asked EXCEPT !.pc = "waiting", !.before = now, !.pass = @ + 1]
             /\ IF flight.pc # "idle"
                THEN UNCHANGED <<flight, datedVars>>
                ELSE StartChunk(asked.through, asked.cutoff)

CompactNow ==
    /\ open /\ commands < MaxCommands /\ manual.pc = "idle"
    /\ high - Max({Usable(high).through, reset}) > Retain
    /\ commands' = commands + 1
    /\ ManualPass([NoManual EXCEPT !.through = high, !.cutoff = high - Retain])
    /\ UNCHANGED <<roomVars, lane, open, faults, restarts, missed>>

ManualContinues ==
    /\ manual.pc = "looping"
    /\ ManualPass(manual)
    /\ UNCHANGED <<roomVars, lane, open, boundVars, missed>>

----------------------------------------------------------------------------
(* Messages and Turns.                                                     *)

\* A new message that replies to message to, or to none.
AddMessage(to) ==
    /\ high' = high + 1
    /\ ancestors' = Append(ancestors, IF to = 0 THEN {} ELSE {to} \cup ancestors[to])

\* A message of a user or of an agent's tool call, which may reply to any message there
\* is, and the Turns it asks for.
Post(targets, to) ==
    /\ ~RoomFull /\ high < MaxPosted /\ \A a \in targets : Len(queue[a]) < MaxQueued
    /\ AddMessage(to)
    /\ queue' = [a \in Agent |-> IF a \in targets THEN Append(queue[a], high + 1) ELSE queue[a]]
    /\ UNCHANGED <<reset, summary, cursor, prepVars, boundVars, missed, datedVars>>

\* The Turn is claimed with its packet and the CLI confirms the prompt.
Deliver(a) ==
    /\ lane[a].pc = "ready"
    /\ cursor' = [cursor EXCEPT ![a] = Max({@, Head(queue[a])})]
    /\ missed' = [missed EXCEPT ![a] =
            @ \cup ({m \in (cursor[a] + 1)..Head(queue[a]) : m > reset} \ lane[a].packet.messages)]
    /\ queue' = [queue EXCEPT ![a] = Tail(@)]
    /\ lane' = [lane EXCEPT ![a] = [IdleLane EXCEPT !.pc = "running", !.source = Head(queue[a])]]
    /\ UNCHANGED <<high, ancestors, reset, summary, flight, manual, open, boundVars, datedVars>>

\* The response is a message of the room that replies to the Turn's message and, with
\* it, a source of the agent's daily memory.
Complete(a) ==
    /\ lane[a].pc = "running" /\ ~RoomFull /\ (a = Owner => ~noting)
    /\ AddMessage(lane[a].source)
    /\ IF a = Owner
       THEN RegisterSource([source |-> lane[a].source, response |-> high + 1])
       ELSE UNCHANGED datedVars
    /\ lane' = [lane EXCEPT ![a] = IdleLane]
    /\ UNCHANGED <<reset, summary, cursor, queue, flight, manual, open, boundVars, missed>>

\* A Turn that fails, before or after its prompt was confirmed.
TurnFails(a) ==
    /\ lane[a].pc \in {"ready", "running"} /\ faults < MaxFaults
    /\ faults' = faults + 1
    /\ lane' = [lane EXCEPT ![a] = IdleLane]
    /\ queue' = [queue EXCEPT ![a] = IF lane[a].pc = "ready" THEN Tail(@) ELSE @]
    /\ UNCHANGED <<high, ancestors, reset, summary, cursor, flight, manual, open, commands, restarts,
                   missed, datedVars>>

Close ==
    /\ open /\ restarts < MaxRestarts
    /\ open' = FALSE
    /\ CloseDated
    /\ UNCHANGED <<roomVars, lane, flight, manual, boundVars, missed>>

\* A crash, or the end of the process, and the next start: a Turn that was
\* claimed is interrupted, a queued one is prepared anew.
Restart ==
    /\ restarts < MaxRestarts
    /\ restarts' = restarts + 1
    /\ lane' = [a \in Agent |-> IdleLane] /\ flight' = NoFlight /\ manual' = NoManual /\ open' = TRUE
    /\ RecoverDated
    /\ UNCHANGED <<roomVars, faults, commands, missed>>

----------------------------------------------------------------------------

RoomReacts ==
    \/ \E a \in Agent : Build(a) \/ Deliver(a)
    \/ FlushSettles \/ CompactionGenerated \/ RetryCompaction \/ CompactionAborted
    \/ ManualContinues

Environment ==
    \/ \E a \in Agent : TurnFails(a) \/ Complete(a)
    \/ \E targets \in SUBSET Agent, to \in 0..high : Post(targets, to)
    \/ AgentFails \/ CompactionFails \/ Reset \/ CompactNow \/ Close \/ Restart

Troubles == faults + commands + restarts + rollupFaults + edits

Next ==
    /\ \/ RoomReacts \/ Environment
       \/ DatedNext /\ UNCHANGED <<roomVars, prepVars, boundVars, missed>>
    /\ Troubles' <= MaxTroubles

Spec == Init /\ [][Next]_vars

\* GroupX runs its callbacks and timers, and a generation that is not one of
\* the bounded failures answers: its session has the timeouts of any other.
FairSpec ==
    /\ Spec
    /\ WF_vars(RoomReacts)
    /\ WF_vars(DatedReacts /\ UNCHANGED <<roomVars, prepVars, boundVars, missed>>)

----------------------------------------------------------------------------

TypeOK ==
    /\ DatedTypeOK
    /\ high \in 0..Len(Size) /\ reset \in 0..high
    /\ DOMAIN ancestors = 1..high /\ \A m \in 1..high : ancestors[m] \subseteq 1..(m - 1)
    /\ summary.from <= summary.through /\ summary.through <= high
    /\ cursor \in [Agent -> 0..high]
    /\ \A a \in Agent : lane[a].pc \in {"idle", "building", "waiting", "ready", "running"}
    /\ flight.pc \in {"idle", "flushing", "generating", "retrying"}
    /\ (\E a \in Agent : lane[a].pc = "waiting") \/ manual.pc = "waiting" => flight.pc # "idle"

\* An agent has been given, verbatim or in a summary that was made from them,
\* all messages its cursor has passed, but for those a reset cut off; and a
\* packet brings nothing from before the reset it was built after, except the
\* message its Turn is about and those that one replies to.  Lanes with other
\* boundaries, manual compactions, resets and restarts may overtake the
\* compaction.
ContextIsWhole ==
    \A a \in Agent :
        /\ missed[a] = {}
        /\ lane[a].pc = "ready" =>
            LET packet == lane[a].packet
            IN  /\ (packet.after + 1)..Head(queue[a]) \subseteq packet.messages
                /\ packet.messages \cap 1..packet.reset
                       \subseteq ancestors[Head(queue[a])] \cup {Head(queue[a])}

\* A prepare that found its packet too small gets one or fails: the passes are
\* bounded and the flight it joined ends.
PreparesEnd == \A a \in Agent : lane[a].pc = "waiting" ~> lane[a].pc \notin {"waiting", "building"}

\* The sources of the day are folded in unless the process stops, whatever
\* conflicts and failures come between: every flight that leaves some behind
\* is followed by another, but for the two that are overlooked.
SourcesAreFolded == (pending # {} /\ datedOpen) ~> (pending = {} \/ ~datedOpen \/ overlooked)
=============================================================================
