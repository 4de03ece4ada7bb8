# GroupX in TLA+

GroupX runs several coding agents (Claude, Codex, Grok, Kimi, Hermes; each a CLI
in a process of its own) in one chat room. A *message* to agents becomes one
*Turn* per target. Turns are rows of a SQLite database; each agent has a *lane*
of queued Turns; the broker claims the head of a lane, builds its context, hands
the prompt to the CLI and follows the native events until the Turn ends. The
same process serves a web client, an operator endpoint with an assistant of its
own, and MCP tools, with which agents message, wait for and supervise each other.

This directory models the part in which ordering, crashes and concurrency decide
whether that works, from the CLI's process to the page in the browser. Paths
below are relative to the repository.

## The system

| Component | State | Operations | Hard because | Correct when |
|---|---|---|---|---|
| Turn store (`src/storage/sqlite-store.ts`) | turns, attempts, delivery cursors, summaries, receipts, supervision rows | accept, claim, mark prompt, mark running, request cancel, terminalize, recover | each call is a transaction, the process may die between any two | one active Turn per agent, FIFO, no prompt twice, cursors exact |
| Broker lane (`src/broker/broker.ts`) | `#pumps`, `#dirtyActors`, `#active`, closing flags | schedule, prepare, execute, handle native events, cancel, close | every `await` lets messages, cancels, restarts and shutdown in | no lost wakeup, one end per Turn, nothing stuck |
| Broker waits (`src/broker/broker.ts`) | `#turnWaiters`, `#milestoneWaiters`, `#watchCursors` | wait for a correlation, watch, steer | subscriptions race with ends, timeouts and retries | no end or milestone missed, one Turn per steer |
| Session manager (`src/app/session-manager.ts`, `restart-commands.ts`) | sessions, bindings, the MCP registry, restart flights | start with retries, restart, reset, stop, close | restarts come from users and from failing Turns; a stop may fail or hang | rows, registry, processes and the manager agree; a receipt means it happened |
| Runtime (`src/app/runtime.ts`) | readiness, order of starting and closing | start, close | the listener is open before recovery; parts close one by one; crashes | recovery meets no live Turn, a close leaves nothing open |
| Context and memory engines (`src/memory`) | summaries, packets, rollups, single flights | prepare, compact, reset, flush, edit | long model calls between reading and writing | no message is skipped, none folded twice, no edit overwritten |
| Event stream (`src/app/event-stream.ts`, `src/web/sse`) | published position, replay and live buffers | publish, open, hand over, close | live events arrive during the replay, slow readers, lost connections | the page gets every durable event once and in order |
| JSON-RPC and processes (`src/adapters/jsonline-rpc.ts`, `src/supervisor`) | pending requests, process state | request, cancel, close, exit | timeouts race answers, exits race both | every request settles once, no process is left behind |
| CLI adapters (`src/adapters`) | native sessions and Turns, timers, owed results | launch, prompt, cancel, tear down | protocol drivers of external programs that may err or hang | each prompt gets one outcome, and its own |
| Room assistant (`src/app/operator-runtime.ts`, `src/operator`) | posts in flight, the brain that answers them, the conversation | post, join, cancel, reopen, drain, close | posts abort each other; the brain dies and is reopened meanwhile | one post listens, the status is true, posts end |
| Commands of clients and agents (`src/app`, `src/web/server`) | receipts, memories, identities | restart, reset, write, replace, withdraw | retries, crashes between effect and receipt | once per command id, where the code promises it |
| Room page (`web/app.ts`) | cards, streams, drafts, command ids | open, send, cancel, edit, follow events | answers, events and guesses race | one Turn per draft, a page at rest agrees with the room |
| Setup, contracts, command line, updates, probes | little | translate, validate, render, launch | mostly not | mappings agree with contracts |

The broker calls the store synchronously: a store transaction and the broker code
around it up to the next `await` are one step. It calls the session manager, the
context engine and the adapters asynchronously, and is called back by native
events, timers and the closing signal. The runtime starts the listener, the
sessions and the recovery in this order and closes everything in the reverse one,
with the exception finding 1 describes.

## Modules

| Module | What it is |
|---|---|
| `TurnProtocol` | what the life of a Turn promises, with no database and no pump: accepted, dispatched one per actor, prompted once, ended once, or recovered |
| `TurnStore` | the transactions of the store, crashes and restarts between any two of them, several agents |
| `BrokerLane` | one lane of the broker with its session, its runtime and the store below, split at the `await`s |
| `BrokerLaneProofs` | its inductive invariant and theorems; it implements `TurnProtocol` |
| `Supervision` | waits, watches and steers against the lane of one worker |
| `OrderedFeed` | what a reader of a room is promised: a prefix of the durable events, the next one, or a snapshot |
| `EventStream` | publisher, SSE connection, socket, EventSource and the page's cursor |
| `ObserverProofs` | the two who watch a room: the inductive invariants and theorems of `Supervision` and of `EventStream`, with lemmas about queues of numbered frames; `EventStream` implements `OrderedFeed` |
| `NativeProcess` | the child process of a CLI, its pipes, its end, the CLI behind it and the streams of events the broker reads |
| `RpcClient` | the JSON-RPC requests on those pipes (extends `NativeProcess`) |
| `AcpAdapter`, `CodexAdapter`, `ClaudeAdapter` | the three protocol drivers, each over the two above |
| `NativeAgents` | an agent of any of the three kinds; the properties all share |
| `AcpProofs` | lemmas about streams and frames; the inductive invariant of the ACP adapter |
| `NativeAgentsProofs` | the inductive invariants of the Codex and the Claude adapter; the theorems about any agent |
| `DatedMemory` | an agent's daily memory: sources, rollups, user edits |
| `RoomContext` | packets, summaries, compactions and resets of a room (extends `DatedMemory`: a compaction flushes it first) |
| `RoomContextProofs` | the inductive invariant and theorems of both |
| `AgentSessions` | sessions, rows, MCP registry and processes of all agents |
| `CommandLedger` | commands with receipts: restarts, resets, memories, identities (extends `AgentSessions`) |
| `Runtime` | a runtime from start to close or crash, and the ones after it (extends `CommandLedger`) |
| `RuntimeProofs` | the inductive invariant and theorems of sessions, commands and runtime |
| `AssistantHost` | the room assistant and its brain |
| `StoreProofs` | the two that serve a room beside its lanes: the inductive invariants and theorems of `TurnStore` (it implements `TurnProtocol`; the queue limit) and of `AssistantHost` |
| `RoomServer` | what the REST API does for a page |
| `RoomPage` | the room page of the browser (extends `RoomServer`) |
| `RoomPageProofs` | lemmas about a snapshot as a fold of events; the inductive invariant and theorems of both |
| `MC...` | the constants of the runs |

`TurnStore` and `BrokerLane` instantiate `TurnProtocol` by a refinement mapping:
the store maps `prompted` to the Turns one of whose attempts was prompted; the
lane is a protocol with one actor. `EventStream` instantiates `OrderedFeed`, and
`RoomPage` builds on what that shows: its page receives the log in order. Each
definition is listed with the lines it stands for under `map` in `PROJECT.json`.
Operators marked *Mutant* are wrong variants of the definition that follows them,
used to see that the properties can fail; no action refers to them. Each component
states its type invariant (`TypeOK`, `SupervisionTypeOK`, `AssistantTypeOK`; for the agents it
is part of `AgentInvariant`), which is a part of the inductive invariant or follows from it.

### TurnStore

`status`, `sourceSeq`, `enqueueSeq` are the columns of `turns`; `attempts` holds
the rows of `turn_attempts` (`phase`, `certainty`, the context and summary they
were claimed with), plus two history flags: that the prompt was handed over and
that the CLI started on it. `cursor` and `cursorSummary` are `delivery_cursors`;
`summary` is the active room summary; `highSeq` stands for the events of the
room. Each action is a public method of `SqliteGroupXStore` with all it calls,
e.g. `MarkAttemptRunning` includes the cursor it advances and `TerminalizeTurn`
the response event. A step `Stop` may come anywhere; it is a crash as well as a
graceful stop, as far as the database can tell. After it `Start`, then sessions,
then `RecoverAfterRestart`. Because the operator endpoint works while the process
is still starting, messages and cancellations are enabled then, too.

Left out: `bindAttemptNativeTurnId` (it only records an identifier), failing
transactions (they roll back and change nothing), and the text of events. A Turn
for another transport than the session's ends queued, as `EndQueuedTurn` does.

### BrokerLane

`pc` is where the pump of the lane waits: looking, building a context, with a
claimed Turn, publishing, streaming, handling an event, waiting for a native
cancel, finishing or recovering its agent. `dirty`, `unscheduled` and `notify`
are the three ways a wakeup can be pending (`#dirtyActors`, an `acceptMessage`
that still publishes, the nudge after a restart). A restart has three causes: a
command (`RestartAgent`), which schedules the lane when it is over, the pump itself
(`LeaveExecute`), which goes on, and a context reset (`RestartForReset`), which does
neither; `unwoken` is history and says that a session came back that way to a lane
without a pump. `active` is the
`ActiveDispatch`; `heldOpen` says that the session the pump resolved is still the
current one. `server` is the phase of the runtime: the close deadline is
`FenceStoreWrites`. The store is reduced to the status and order of the Turns.

External to the code: what a CLI sends (`NativeOutcome`) and when. It may complete,
fail, or end a Turn as cancelled, report progress, end its stream without any of
these, answer a native cancel with or without an end, or never answer.

### Supervision

The pair of an observer and a worker: `First` is the worker's task, other Turns
are guidance. A wait, a watch and a steer are each an asynchronous call with its
program counter. `unnotified` holds Turns that ended in the store while their
event is still being published, the only place where the two are apart.
A watch keeps in `seen` what it read of its subject before it waited. Without a
subject a watch or a steer takes the liveliest worker; the model lets it be any
worker, which includes that one. A crash ends every caller and is left out.

### EventStream

`due`, `publishedThrough`, `tail` and `through` are the publisher: a commit whose
caller has still to call `publish`, `#publishedThrough`, the promise chain
`#tails` and the drain under way. `conn` is the `SseConnection`: replaying from
`after` to a pinned `high` while live envelopes gather in `boot`, then live, with
its dedup window `seen`, the queue `out` and the frame `inFlight`. `wire` is the
socket. `client` is the page: loading its snapshot, connecting, open, or given up,
and `state.lastDurableSeq`, from which a reconnection starts. The byte limits of
the buffers act like the frame limit; deltas all belong to one Turn, so that any
two coalesce. Faults are lost connections, reloads, draining, crash and restart.

### NativeProcess, RpcClient and the adapters

`child` is "dead" before its exit event is handled, "exited" after it and "gone"
once its pipes have closed; `ladder` is how far `close` or `terminate` has gone
(a grace period, signals, given up). What the CLI writes waits in `pipe`.
`stream[t]` is what the adapter told the broker about prompt t: the outcomes it
ended with and whose text it carried, which is what the properties are about.
`session.at` is where the launch is, the other fields are the adapter's flags;
`turn[t]` is its context of a prompt. The operators on `g` are the code of one
callback, which is a single step.

The CLI is external: it works off what it is told in order, may complete, fail or
acknowledge a cancellation, may hang or die anywhere, and `MaxFaults` times does
what its protocol forbids: ends again a prompt it has ended (`cli.ended`) or late, names one that is over,
writes garbage, asks for something. Claude's frames name no Turn, so a faulty
result there cannot be told from a true one; the model lets a CLI answer an
interruption that found it idle (`owes`), within `cancelMs`, which is what
`strayResultDeadlineMs` assumes. The `direct` adapter is created by nothing and
is left out; so is the text of events.

### DatedMemory and RoomContext

`pending` are the sources a Turn's completion registers, `head` is the memory
record as the set of sources folded into it and the user's edits on it; `flush` is
the flight of `flushNow`: it reads `expected` and `selected`, generates, and
commits by compare-and-set. `timer` stands for the scheduled flush.

In `RoomContext` messages are numbers with a size. `lane[a]` prepares a packet for
the head of `queue[a]`; `flight` is the compaction of the room that lanes and a
manual command join; `summary.covers` and `missed` are history from which
`ContextIsWhole` is stated: what an agent was given is kept apart from what its
cursor says. `ancestors[m]` are the messages `m` replies to, directly or through
others: the packet must hold all of them, from before the cursor and the reset, too,
so they take room from the unread transcript (`Required`) and, when they are more
than `MaxReplyDepth`, end the Turn. The owner of the followed daily memory generates in its own session,
after `FlushBeforeCompaction`.

### AgentSessions, CommandLedger and Runtime

A launch is named by its row in `rows`, and a native session by the launch that
created it, so that continuity is a comparison of numbers. `op[a]` is what the
manager awaits for an agent: opening, rejecting a failed start, stopping. `calling`
and `causal` are the two ends of a Turn's tool permission (`activeGroupxTurnId`
and `ActiveTurnCoordinator`); `lane` is the little of a broker lane that matters
here. `receipts` are `client_commands`, `flights` the coordinator's single
flights, `reset` a context reset and the agents it has yet to restart. `Runtime`
adds the order of start and close, crashes, and the next runtime on the same rows.

### AssistantHost

`work[p]` is what a post, or the host itself, awaits: a prompt, the end of a brain,
the start of one. `inflight` is `#inflight`; `adapter`, `state`, `fatal` belong to
`CliOperatorBrain`; `brains` are the processes, which may be leaked. A brain dies
or refuses a prompt at any time; the bounded `faults` are failed starts and
requests that are aborted by their clients.

### RoomServer and RoomPage

`turns`, `memories`, `log` and `receipts` are the durable side. A click is a
request that the server runs and the page awaits independently: its answer may be
lost after it ran, before it ran, or come late. `view` are the cards of the page,
`composer` the draft with the command id kept for it, `retry` the ids kept for
other commands. `reverted` and `stale` are history, by which the properties except
what the code does wrong (see Observations).

## Runs

`PROJECT.json` lists the properties of each run. All of them finish exhaustively.

| Run | Instance | States | Shows |
|---|---|---|---|
| `turn_store` | 1 agent, 2 Turns, 3 attempts, 2 events | 1.1 M | the store's invariants and refinement, with restarts at every point |
| `two_agents` | 2 agents, 3 Turns, 2 attempts, queue limit 1 | 0.8 M | independent lanes, messages with two targets, the limit |
| `broker_lane` | 2 Turns, everything else unbounded but finite | 0.7 M | safety, refinement and liveness of the pump |
| `supervision` | 3 Turns, 2 waits, 1 watch, 2 flights of 1 steer, budget 2 | 3.0 M | waits, watches and steers |
| `event_stream` | 3 events, 2 deltas, 1 fault, buffers of 2 and 1 | 0.1 M | each event once and in order, refinement of `OrderedFeed`, the page catches up |
| `native_sessions` | 3 adapters, 2 prompts, 1 launch, 1 misbehaviour, a pipe of 1 | 0.6 M | one outcome per prompt and its own, no orphan, streams end |
| `room_context` | 2 agents, 4 messages of 2 sizes, packet of 3, at most 4, reply chains of 1, 1 trouble in all | 0.7 M | packets, compaction, resets, daily memory |
| `runtime` | 2 agents, 4 launches, 3 events, 2 start attempts | 0.7 M | sessions, receipts, continuity, close |
| `assistant_host` | 3 posts, 2 command ids, 6 brains, 1 fault, 2 boots | 0.4 M | the assistant |
| `room_page` | 2 Turns or 2 memories, 2 clicks, 2 drafts, 2 loads | 2.2 M | the page |
| `lane_shutdown`, `watch_snapshot` | as the above | small | one disagreement each, see Findings |

Bounds and why they suffice:

* Two Turns of one agent are one that is worked on and one that waits behind it;
  order, exclusion and lost wakeups need no third. The lane was also checked once
  for safety with three (4.5 M states up to symmetry) with the same result.
* Three attempts let a Turn be requeued by a restart and claimed again, and leave
  one for the other Turn. `MaxSeq` bounds the events of the room: two make a
  context go stale by one.
* `SteerLimit` 2 lets the same steer reach the same worker twice; `MaxCursor`
  bounds milestones that are not ends: one wakes every watch there is. The third
  Turn is what a wrong receipt would create.
* Attempts, waits, watches, flights and Turns in equal roles are symmetric.
* `event_stream`: three events are one that is replayed, one that arrives meanwhile
  and one that overflows the buffer of two. `DedupWindow` is 3, the number of
  events: in the code it is larger than any buffer.
* `native_sessions`: the second prompt is the one that a late end of the first
  would hit. A second launch needs no interplay with the first: an adapter
  launches only after it has let go of its runtime (`NoOrphan`), and a new process
  has new pipes; the theorems below are about any number of both.
* `room_context`: a packet of three cannot hold three messages, two of which are as
  large as two, so that lanes compact once or twice; one with such a message and the
  one it replies to fits only the hard limit of four, and with a summary not even
  that. A message that replies to a reply has a chain longer than `MaxReplyDepth`.
  `MaxPosted` leaves the fourth message to an answer: two completed Turns of one
  agent are what folding needs to leave a source behind. `MaxTroubles` bounds
  failures, commands, restarts, edits and failed rollups together; any one of them
  occurs at any point, a rollup that fails is tried again, but two troubles (say an
  edit and a failure) meet only in the proofs.
* `room_page`: a draft is what the composer holds until it is changed. A text that is
  changed and then restored counts as another one, so `OncePerDraft` says nothing of
  sending it twice.
* `runtime`: four launches let each agent be restarted once, or one agent three
  times; `MaxEvents` bounds faults, Turns and commands together.
* `room_page`: state constraints keep Turns and memories in separate behaviours
  (`OneTopic`: their cards share no state), give one Turn a stream (`OneStream`)
  and bound Turns, memories, page loads and requests together (`WithinEffort`).
* Deadlock is checked for the store and the lane. Everywhere else bounded inputs
  run out: when every prompt, event or post is over, nothing is left to happen.

### Fairness

Every `FairSpec` assumes what the JavaScript runtime guarantees, that a promise
reaction, a callback or a timer which is due is run, and never anything of users,
crashes or shutdown. Beyond it:

* `BrokerLane`: the stream of a CLI ends sooner or later, and so does a restart.
  The first is an assumption about CLIs: an ACP prompt has no timeout, and a CLI
  that hangs without exiting does hold its lane; `NativeAgents.PromptsEnd` says
  precisely when (`HeldByAcp`). `Prepare` has strong fairness: a preparation is
  thrown away if the summary it was built on is replaced, which cannot go on for
  ever since every new summary reaches further into a room. Nothing is assumed
  about the answer to a native cancel; `CancelledTurnsEnd` holds though it may
  never come, through the timeout of `#awaitNativeCancel`. Both liveness
  properties are conditional on a runtime that stays up and, for queued Turns, on
  a session that was not left to a sleeping lane by the restart of a context reset
  (`unwoken`; see Observations): whether a next message wakes it is up to users.
* `NativeAgents`: callbacks, timers and the grace periods of closing. Nothing is
  assumed of the CLI: it need not read, answer or exit.
* `EventStream`: the publisher, the connection and the browser (its EventSource
  reconnects, the socket is drained). `PageCatchesUp` excepts a page whose
  EventSource has given up and a server that is not up.
* `RoomContext`: generations answer or fail, as they have the timeouts of any
  session, and the timer fires. `SourcesAreFolded` excepts the flights and timers that
  are `overlooked` (see Observations); of these `FoldedOnce` says that nothing is lost.
* `Runtime`: the opening and the closing of a session settle (they have timeouts),
  and the runtime's own steps go on.
* `AssistantHost`: an aborted prompt returns, a brain that is started or closed
  settles. An answer is not assumed: `PostsEnd` is about posts that were aborted.

## What is proved

TLAPS checks the theorems for every value of the constants that satisfies the
named assumptions.

`StoreProofs` and `ObserverProofs` each hold the proofs of two components that share
no variable; a proof there uses one of them only.

`TurnStore` (`StoreProofs`), from `StoreAssumption` (finitely many Turns, each with one target actor, the
bounds are natural numbers, `NoTurn` is not a Turn): `StoreInvariant` is
inductive. It is the conjunction of the type invariant, the properties the runs check and of two
that only serve the proof. `AttemptsAgree` ties the phase of an attempt, its flags and
the status of its Turn together: *prompt once* is not inductive without it,
because it is the phase `prepared` by which recovery recognises a Turn that may
be requeued, and one must know that such an attempt was never prompted.
`CursorsCoverAttempts` says that nothing delivered lies beyond a cursor, without
which `RecoverAfterRestart`, which advances cursors for delivered attempts, might
move them; `RecoveryKeepsCursors` proves that it does not.

The refinement shows by cases on the actions that every step of the store
is one of `TurnProtocol` or leaves its variables alone, using that invariant, and
that the queue limit holds, for finitely many Turns: requeueing leaves the number
of unfinished Turns as it was.

`Supervision` (`ObserverProofs`), from `SupervisionAssumption` (finitely many Turns, a
natural budget, at least one command): the five properties and `ReceiptsExist` (a
receipt names an accepted Turn) are inductive together. The heart is
`WaitsNotified`: the end of a Turn leaves a wait unsettled only if another of its
Turns is not over; the wait is subscribed to that one because it is subscribed to
all that are not.

`BrokerLane` (`BrokerLaneProofs`), from `LaneAssumption` (finitely many Turns, `NoTurn` is not a
Turn): `LaneInvariant` is the type, the properties of the run and what makes them
inductive. `PumpAgrees` ties the place where the pump waits to the status of its
Turn and to the dispatch in `#active`; `LaneIsOrdered` says that the head of the
lane stays its head, so that a pump which finds the head gone has not stranded
another; `RestartAgrees` that there is no session while a restart works, and
`MarksAreSeen` that a mark in `#dirtyActors` or a dropped preparation is
followed by a look at the lane, from which `NoLostWakeup` follows. The one restart
nobody follows up is that of a context reset: where `SessionOpened` finds neither a
command that will schedule the lane nor a pump that will look, it sets `unwoken`, and
the invariant carries that exception to the next `ScheduleActor`. The
refinement goes by cases on the actions: `AcceptMessage` is *Accept*, `ClaimHead`
*Dispatch*, `InvokePrompt` *Prompt*, the first native event *Run*, cancellations
*RequestCancel* or a stutter, ends *Finish*, Turns that fail or are cancelled
while queued *Drop*, `RecoverAfterRestart` *Recover*.

`EventStream` (`ObserverProofs`), from `StreamAssumption` (bounds are natural numbers; events,
buffers and dedup window are not empty): a buffer is `Numbered(q, a, b)` if its
durable frames are a + 1, ..., b in this order, with any transient ones between.
`StreamInvariant` says that wire, `out` and look-ahead are numbered, each from
where the one before it ends and the first from the page's cursor; that the
look-ahead holds the last event read; that `boot` ends where the publisher is and
begins no later than the replay will end, which is why the hand-over leaves no gap;
and that a live connection has accepted all that was published.
The lemmas on frames say what appending, taking, discarding, replacing and joining do
to numbered buffers, by induction along a queue in the one form the provers
can use, that a set of natural numbers has a least element. `EveryEventOnce` and
the refinement of `OrderedFeed` hold for buffers and windows of any size.
`NoGapAndNoRepeat` says moreover that a connection is never cut for a number that
comes late, and assumes that the window holds the room's events: a publisher that
is more than `DURABLE_DEDUP_WINDOW` events behind a replay does cut a
connection, upon which the page reconnects.

`NativeAgents` (`AcpProofs`, `NativeAgentsProofs`), from `BoundAssumption` (the bounds are
natural numbers, and a pipe holds a frame): `OneOwnOutcome` and `NoOrphan` hold for any number of prompts,
launches and misbehaviours and a pipe of any length. Neither is inductive, and what
makes them so is a different argument for each driver; `AgentInvariant` has one
invariant for each.

* All three keep `StreamsOK`, which relates what the adapter told the broker of a
  prompt, what the CLI really did of it (`native`), the cancels and the active turn: a
  stream has one end, its text is its own, it is completed only if the CLI completed
  it and cancelled only if that was asked, and a prompt starts only when those before
  it have ended. `Interruption` says that the CLI is interrupted only at work that
  was cancelled or has ended. Both are kept by what a callback of an adapter
  does, so the remaining question is always: is what the adapter reads
  about the turn it takes it for, and is it true?
* ACP: an answer carries the id of its request, and at most one `session/prompt` that has
  not ended for the broker is in flight. `AcpLink` says that the CLI's work, its frames and the answers awaited are
  all about the prompt it owes (`AcpOwed`: the active one; after a fatal error, any
  that has ended, whose frames end nothing), `AcpPipe` that a result is true and the
  last that is said of its turn. The settle timer is that of the held, cancelled,
  active prompt, so that it ends no other.
* Codex: notifications name their turn, so a late one is harmless if the adapter knows the
  turn to be over. `Known` is that knowledge: active, retired, or the runtime
  poisoned; whatever the CLI works on, has ended or speaks of is known
  (`CodexLink`). A result may be repeated with a wrong outcome, whence the first in the
  pipe about the active turn must tell its true end, and there must be one as long as the
  CLI has ended it: otherwise a repetition would be the first.
* Claude: frames name no turn, and the invariant is an account of the results in
  the pipe: which is the active turn's own (`Own`, at most one, and true) and which answer
  an interruption that found the CLI idle (`Nay`); in what order they may come (`ClaudeOrder`:
  between two answers there is a turn's result); and that the adapter will take the
  next answer as a stray one (`ClaudeStray`), unless it has taken the turn's
  own result for it (`Lost`, an observation below), in which case the answer says
  no more than what is true, that the turn was to be cancelled.

What is on its way is relevant only while the adapter reads it, so these parts are
claimed while the client runs, and for Claude while the session is up; that a
poisoned or closing session reads on without harm is then part of the proof. `Leashed`
and its like give `NoOrphan`: an adapter lets go of its runtime only when the ladder of
`close` has seen the child dead or has given up.

`AssistantHost` (`StoreProofs`), from `AssistantAssumption` (`None` and `Host` are not
posts): one post listens at a time, because whoever waits for an answer is the
`inflight` of the host or was aborted (`HeardIsInflight`), and a starting or busy
brain has someone behind it.

`Runtime` (`RuntimeProofs`), from `OrderAssumption` (the agents are in an order without repetition),
`AttemptsAssumption` (a launch is tried at least once) and `BoundAssumption`:
`RuntimeInvariant` has a part for sessions, one for lanes and one for receipts.
The first is stated agent by agent (`AgentInvariant`): an agent has a session or
something the manager awaits for it, never both; either concerns its latest launch;
what is awaited says which rows, registration and process there are, how far the
runtime may be (`Placed`), and which native session the next start resumes
(`Resumes`). `SessionsAreBacked` is not inductive without that, since it is by
`Underway` that an opening finds its rows still starting. Each action changes one
agent, or all in the same way, and one lemma each says that the others keep
theirs. For `RestartsAreReal` one must know that a flight has its restart under
way (`InFlight`), hence a launch later than any it began with. `ContinuityIsKept`
is an action property: a start resumes the latest native session of an agent unless
something of it has failed, which is `Resumes` at the step that ends it.

`RoomContext` (`RoomContextProofs`), from `BudgetAssumption` (messages have a positive size, the soft
limit is not above the hard one), `OwnerAssumption` and `DatedAssumption`: a summary
that reaches beyond the last reset was made from all the messages between that and
where it ends (`Summaries`), and so will be the one the compaction under way
brings unless a reset overtakes it (`Flight`): a compaction reads its base before
it flushes, generates and tries again. A message replies to older ones only, and the
source of a running Turn is a message of the room (`RoomType`), which a response needs
to inherit its chain. A packet that is ready is `Whole`, from which
`ContextIsWhole` follows when it is handed over: it begins at the cursor or after a
summary that covers what lies between, it holds of the time before the reset only the
Turn's message and what that one replies to, and it is made only once the fill leaves
nothing unread out, or there is nothing that a compaction could take. The sources of
the daily memory are in exactly one of four places (`Sources`), whatever edits
and flushes overlap: `FoldedOnce`.

`RoomPage` (`RoomPageProofs`), from `PageAssumption` (limits are positive) and `RoomAssumption`:

* A draft becomes one Turn however often it is sent, because all its submissions
  share the command id kept in `composer.pending` until one is confirmed, and the
  receipt of that id holds the Turn.
* `FoldTrace`: a snapshot, which folds the last events into a page, shows what the
  page would show had it received them one by one. The library defines a fold by a choice
  of function, so that such a function exists is proved first, by least elements again.
* `LogInvariant`: the log tells of every Turn and record, of the end of each that
  is over, and of nothing else after that end.
* `RequestInvariant`: a command that ran has left its effect with its receipt, which
  is what lets a page act on an answer that comes late or for the second time.
* `TurnShown` and `HasCard`: the card of a Turn or record follows the events up to
  the page's cursor, an answer, or a guess whose answer is awaited. At rest no
  answer is awaited and the cursor is the end of the log, from which
  `TurnsAreCurrent` and `CardsAreCurrent` follow.
* Paging: the records in force have places 1, 2, ... from the newest, without a gap, so
  that a page with another behind it is full; and only a withdrawal moves a record
  forward, past the offset of a reading, which `shifted` records. That is why no other
  interleaving of reading and events can miss one.

Only model-checked:

* All liveness (`QueuedTurnsEnd`, `CancelledTurnsEnd`, `PageCatchesUp`, `PromptsEnd`,
  `PreparesEnd`, `SourcesAreFolded`, `RestartAndCloseEnd`, `PostsEnd`), which is out of
  the prover's reach.
* The violations: a theorem cannot refute.

Every invariant that a run checks is the property of a theorem, and every action
property and refinement too. The invariants that serve the proofs only
were first checked by TLC as invariants of runs like those above.

## Findings

Both are disagreements of the code with its documentation that a run shows.

1. `lane_shutdown`: the runtime closes the context engine before the broker, so a
   graceful stop fails queued Turns that the documentation says are recovered.
2. `watch_snapshot`: a watch that ends because its worker was cancelled reports the
   worker as it was before.

## Observations

Met while modelling, and modelled as the code does it. Where a property excepts
one, it is named there.

Turns and lanes
* A context reset that restarts the sessions schedules no lane afterwards
  (`broker.ts:499`; `agentController.restart` is `sessions.restart` alone,
  `src/app/runtime.ts:358`, while a restart command calls `notifySessionReady`,
  `:381`). A pump that looked for its session or abandoned a claim during such a
  restart leaves (`broker.ts:1270`, `:1365`), and its queued Turn waits, with a session
  up, until the next message or restart command schedules the lane. `NoLostWakeup` and
  `QueuedTurnsEnd` except it (`unwoken`); without the exception TLC violates both.
* Recovery ends a `cancelling` Turn whose prompt was not handed over as
  *interrupted* (`src/storage/sqlite-store.ts:3508`); T-016 wants *cancelled*
  (`docs/ACCEPTANCE_TESTS.md:156`).
* Recovery sets the certainty of a delivered attempt back to *unknown*
  (`sqlite-store.ts:3521`); T-018 wants it kept (`docs/ACCEPTANCE_TESTS.md:158`).
* `#failQueuedContext` writes past the close deadline (`src/broker/broker.ts:1426`),
  against the comment at the fence (`:1222`).
* A repeated steer spends budget and may cancel again before its receipt is looked
  up (`broker.ts:2421`; R-005, `docs/ACCEPTANCE_TESTS.md:101`).
* A watch with `until: "terminal"` returns at any milestone (`broker.ts:2361`).

Memory
* The greedy fill of a packet skips an oversized message in the middle, after
  which there is nothing left to roll up and the Turn is refused for its budget
  (`src/memory/context-packet.ts:405`; M-010, M-012).
* A compaction that commits after a reset overtook it leaves a summary that is
  active and unusable; later compactions fail until another reset.
* Lanes that join a compaction share its failure. A flush that joins a flight
  takes over that flight's bound: a timer or a flight may end with sources left
  and nothing scheduled (`overlooked`), until the next Turn ends.

Sessions and commands
* After a restart whose stop or start failed, the next one starts a fresh native
  session although the database knows the old one (`ContinuityIsKept` excepts it).
* A failed or crashed restart leaves its receipt pending for ever, as
  `src/app/restart-commands.ts:19` says; on the page the kept command id then
  answers every later click with a conflict until a reload.
* A reset that fails half-way is, when repeated, answered as done and the rest of
  the agents are not restarted; after a crash its receipt is executed again.
* Receipts of agents belong to a binding: a repeat after a session restart acts
  again.

Adapters
* An ACP close that throws keeps `#runtime` until a restart; a launch failure hides
  a close failure; `void process.terminate()` (`jsonline-rpc.ts:569`) may reject
  unhandled.
* A result written just before an exit can be lost. Claude: an interrupt answered
  by completing leaves the stray window open, so that the next prompt's result
  within `cancelMs` may be absorbed.

Event stream and page
* A server that drains answers a reconnection with 503, upon which an EventSource
  gives up, while the page says it is waiting for it (`web/app.ts:2615`).
* A failed cancellation sets the card of a Turn that ended meanwhile back to a live
  status (`web/app.ts:1634`; `docs/PROTOCOL.md:270`); `TurnsAreCurrent` excepts it.
* Paging memories by offset skips a record when another is withdrawn meanwhile; an
  answer that comes after the events re-adds a record that is no longer in force.
  `CardsAreCurrent` excepts both. They last until a reload.
* A reload after a lost answer loses the command id while the text is restored.

Assistant
* `getAssistantReplyAfter` (`sqlite-store.ts:4332`) may return the answer to another
  post when posts overlap (`docs/PROTOCOL.md:604`).
* Two posts that reopen the brain at once start two and leak one; if the later
  fails, the state stays failed with a healthy brain. `close()` during a reopening
  leaves a brain behind it (`docs/IMPLEMENTATION.md:411`).

## Not modelled

The rows of `PROJECT.json` `components` give the reason for each part. In short:
contracts, configuration and core rules are pure; the setup wizard, the command
line, updates and probes are I/O around the runtime; rendering, static files and
the framing of HTTP, MCP and JSON lines are left out; `src/memory/service.ts` and
the direct adapter are wired to nothing. A store whose writes fail is not
modelled: a failing transaction rolls back and the code around it has no answer
to it but the next restart.

## Plan

Left for later: failing store writes in `BrokerLane` (a Turn whose terminal write
fails blocks its lane until a restart) and the setup wizard.
