------------------------------ MODULE RoomPage ------------------------------
(***************************************************************************)
(* The room page of the browser client.  It starts from a snapshot of the   *)
(* room, follows the durable events in order (EventStream shows that it     *)
(* gets each of them once) and reads the memories page by page meanwhile.   *)
(* Its cards change with three inputs that race: the events, the answers to *)
(* its own requests, and guesses it makes before an answer is there.        *)
(***************************************************************************)
EXTENDS RoomServer

CONSTANTS
    RecentLimit, PageSize,  \* events in a snapshot, memories in one answer
    MaxDrafts, MaxLoads,    \* messages the user writes, times the page is opened
    Content                 \* what the user may want remembered

ASSUME PageAssumption == {RecentLimit, PageSize, MaxDrafts, MaxLoads} \subseteq Nat \ {0}

VARIABLES
    seq,       \* state.lastDurableSeq
    view,      \* the cards: turnNodes with their status, eventNodes of answers,
               \* streamNodes, deltaBuckets, closedStreamKeys, state.memories
    load,      \* the reading of the memories; from, shifted are history
    composer,  \* the draft, the command id kept for it, and whether it is being sent
    retry,     \* retryCommandIds
    loads,     \* how often the page was opened
    reverted,  \* history: ended Turns whose card a failed request set back
    stale      \* history: records put on the page after their end had been shown

pageVars == <<seq, view, load, composer, retry, loads, reverted, stale>>
vars == <<serverVars, requests, pageVars>>

Turns == 1..MaxTurns
NoSubmission == [draft |-> 0, cmd |-> 0]
EmptyView ==
    [shown |-> [t \in Turns |-> "none"], answers |-> {}, streams |-> {}, buckets |-> {},
     closed |-> {}, cards |-> {}]
NoLoad == [pc |-> "none", offset |-> 0, got |-> {}, from |-> 0, shifted |-> FALSE]

Init ==
    /\ ServerInit
    /\ seq = 0 /\ view = EmptyView /\ load = NoLoad
    /\ composer = [draft |-> 1, pending |-> NoSubmission, busy |-> FALSE]
    /\ retry = {} /\ loads = 0 /\ reverted = {} /\ stale = {}

----------------------------------------------------------------------------
(* What an event does to the cards                                           *)

\* renderTurn: the card of a Turn takes the status; an end closes its stream, whose
\* text stays on the page as unfinished.
RenderTurn(v, t, status) ==
    IF status \in Ended
    THEN [v EXCEPT !.shown[t] = status, !.closed = @ \cup {t}, !.buckets = @ \ {t}]
    ELSE [v EXCEPT !.shown[t] = status]

\* renderMessage: the answer takes the place of the stream.
RenderMessage(v, t) ==
    [v EXCEPT !.closed = @ \cup {t}, !.buckets = @ \ {t}, !.streams = @ \ {t},
              !.answers = @ \cup {t}]

\* mutant: the record that was replaced keeps its card
KeepReplaced(v, e) ==
    IF e.to = "retracted" THEN [v EXCEPT !.cards = @ \ {e.of}] ELSE [v EXCEPT !.cards = @ \cup {e.of}]

AddRecord(v, e) ==
    IF e.to = "retracted" THEN [v EXCEPT !.cards = @ \ {e.of}]
    ELSE [v EXCEPT !.cards = (@ \ {e.instead}) \cup {e.of}]

Dispatch(v, e) ==
    CASE e.kind = "turn" -> RenderTurn(v, e.of, e.to)
      [] e.kind = "reply" -> RenderMessage(v, e.of)
      [] e.kind = "memory" -> AddRecord(v, e)

\* A record that was put on the page by an answer although the page had already
\* shown its end.
EndShown(m) ==
    \E i \in 1..seq : /\ log[i].kind = "memory"
                      /\ log[i].instead = m \/ (log[i].of = m /\ log[i].to = "retracted")
Put(ms) ==
    /\ view' = [view EXCEPT !.cards = @ \cup ms]
    /\ stale' = stale \cup {m \in ms : EndShown(m)}

----------------------------------------------------------------------------
(* The start of the page                                                     *)

\* mutant: the page starts without the Turns under way
RecentOnly ==
    FoldLeft(Dispatch, EmptyView, SubSeq(log, Max({1, Len(log) - RecentLimit + 1}), Len(log)))

\* The last events of the room and, over them, its live Turns: one read transaction.
Snapshot ==
    LET recent == FoldLeft(Dispatch, EmptyView,
                           SubSeq(log, Max({1, Len(log) - RecentLimit + 1}), Len(log)))
    IN  [recent EXCEPT !.shown = [t \in Turns |-> IF t \in Live THEN turns[t].status ELSE @[t]]]

\* Opening the page, or opening it again: requests under way are no longer its own, the
\* command ids it kept are gone; the text of a draft is kept, but not what was sent of it.
Open ==
    /\ loads < MaxLoads /\ loads' = loads + 1
    /\ loads > 0 => composer.draft < MaxDrafts
    /\ seq' = Len(log) /\ view' = Snapshot
    /\ load' = [NoLoad EXCEPT !.pc = "reads", !.from = Len(log)]
    /\ composer' = [draft |-> composer.draft + (IF loads > 0 THEN 1 ELSE 0),
                    pending |-> NoSubmission, busy |-> FALSE]
    /\ retry' = {} /\ reverted' = {} /\ stale' = {}
    /\ requests' = [c \in Click |-> IF requests[c].page = "waits" THEN [requests[c] EXCEPT !.page = "left"]
                                    ELSE requests[c]]
    /\ UNCHANGED serverVars

\* The records in force, latest first; the pages are cut by an offset.
Place(m) == Cardinality({x \in InForce : x >= m})
PageAt(offset) == {m \in InForce : Place(m) \in (offset + 1)..(offset + PageSize)}

\* A full page is followed by another request.
ReadPage ==
    /\ load.pc = "reads"
    /\ load' = [load EXCEPT !.got = @ \cup PageAt(load.offset),
                            !.offset = @ + PageSize,
                            !.pc = IF Cardinality(PageAt(load.offset)) = PageSize THEN "reads" ELSE "read"]
    /\ UNCHANGED <<serverVars, requests, seq, view, composer, retry, loads, reverted, stale>>

ApplyPages ==
    /\ load.pc = "read"
    /\ load' = [load EXCEPT !.pc = "done", !.got = {}, !.offset = 0]
    /\ Put(load.got)
    /\ UNCHANGED <<serverVars, requests, seq, composer, retry, loads, reverted>>

LoadFails ==
    /\ load.pc \in {"reads", "read"}
    /\ load' = [load EXCEPT !.pc = "failed", !.got = {}, !.offset = 0]
    /\ UNCHANGED <<serverVars, requests, seq, view, composer, retry, loads, reverted, stale>>

----------------------------------------------------------------------------
(* The stream                                                                *)

\* acceptEnvelope: the next durable event.
Receive ==
    /\ loads > 0 /\ seq < Len(log)
    /\ seq' = seq + 1
    /\ view' = Dispatch(view, log[seq + 1])
    /\ stale' = stale \cap view'.cards
    /\ UNCHANGED <<serverVars, requests, load, composer, retry, loads, reverted>>

\* mutant: a delta is taken whatever was shown of its Turn
TakeAnyDelta(t) == [view EXCEPT !.buckets = @ \cup {t}]

\* queueDelta and flushDeltaBuckets.
QueueDelta(t) == IF t \in view.closed THEN view ELSE [view EXCEPT !.buckets = @ \cup {t}]

\* Deltas are not in the log: one of a Turn that ran while the page was open may come
\* before or after any durable event of it.
RanSince(t, from) ==
    /\ \E i \in DOMAIN log : log[i] = TurnEvent(t, "running")
    /\ t \in Live \/ \E i \in (from + 1)..Len(log) : log[i] = TurnEvent(t, turns[t].status)

Delta(t) ==
    /\ loads > 0 /\ RanSince(t, load.from) /\ t \notin view.buckets
    /\ view' = QueueDelta(t)
    /\ UNCHANGED <<serverVars, requests, seq, load, composer, retry, loads, reverted, stale>>

\* ensureStreamingNode
Streaming(ts) == view.streams \cup ts

Flush ==
    /\ view.buckets # {}
    /\ view' = [view EXCEPT !.streams = Streaming(view.buckets), !.buckets = {}]
    /\ UNCHANGED <<serverVars, requests, seq, load, composer, retry, loads, reverted, stale>>

\* Progress of a tool is shown at once, in the same stream.
ToolProgress(t) ==
    /\ loads > 0 /\ RanSince(t, load.from) /\ t \notin view.closed
    /\ view' = [view EXCEPT !.streams = Streaming({t})]
    /\ UNCHANGED <<serverVars, requests, seq, load, composer, retry, loads, reverted, stale>>

----------------------------------------------------------------------------
(* The user's clicks                                                         *)

Key(kind, of, content) == [kind |-> kind, of |-> of, content |-> content]
Nothing == "nothing"

\* retryableCommandId
CommandFor(key, c) == IF \E p \in retry : p[1] = key THEN (CHOOSE p \in retry : p[1] = key)[2] ELSE c

Sends(c, kind, of, cmd, was) ==
    /\ loads > 0 /\ requests[c] = NoRequest /\ \A d \in Click : d < c => requests[d] # NoRequest
    /\ requests' = [requests EXCEPT ![c] = [kind |-> kind, of |-> of, cmd |-> cmd, was |-> was,
                                            server |-> "waits", page |-> "waits"]]
    /\ UNCHANGED serverVars

SendsUnder(c, kind, of, content, was) ==
    LET key == Key(kind, of, content) IN
    /\ Sends(c, kind, of, CommandFor(key, c), was)
    /\ retry' = retry \cup {<<key, CommandFor(key, c)>>}

\* mutant: every attempt has a command id of its own
SubmitAnew(c) == c

\* A draft that was sent before is sent again under the same command id.
SubmissionFor(c) == IF composer.pending.draft = composer.draft THEN composer.pending.cmd ELSE c

SubmitMessage(c) ==
    /\ ~composer.busy
    /\ Sends(c, "message", composer.draft, SubmissionFor(c), "none")
    /\ composer' = [composer EXCEPT !.busy = TRUE,
                                    !.pending = [draft |-> composer.draft, cmd |-> SubmissionFor(c)]]
    /\ UNCHANGED <<seq, view, load, retry, loads, reverted, stale>>

\* Any change of text, targets or reply is another draft.
EditDraft ==
    /\ loads > 0 /\ ~composer.busy /\ composer.draft < MaxDrafts
    /\ composer' = [composer EXCEPT !.draft = @ + 1, !.pending = NoSubmission]
    /\ UNCHANGED <<serverVars, requests, seq, view, load, retry, loads, reverted, stale>>

\* The card says at once that the Turn is being cancelled.
CancelTurn(c, t) ==
    /\ view.shown[t] \notin Ended \cup {"none", "cancel_requested"}
    /\ SendsUnder(c, "cancel", t, Nothing, view.shown[t])
    /\ view' = RenderTurn(view, t, "cancel_requested")
    /\ UNCHANGED <<seq, load, composer, loads, reverted, stale>>

\* memorySubmit is disabled while one is under way.
MemoryBusy == \E c \in Click : requests[c].kind \in {"remember", "replace"} /\ requests[c].page = "waits"

SubmitMemory(c, content) ==
    /\ ~MemoryBusy
    /\ \/ SendsUnder(c, "remember", 0, content, "none")
       \/ \E m \in view.cards : SendsUnder(c, "replace", m, content, "none")
    /\ UNCHANGED <<seq, view, load, composer, loads, reverted, stale>>

RetractRecord(c) ==
    /\ \E m \in view.cards : SendsUnder(c, "retract", m, Nothing, "none")
    /\ UNCHANGED <<seq, view, load, composer, loads, reverted, stale>>

----------------------------------------------------------------------------
(* The answers                                                               *)

Leaves(c) == requests' = [requests EXCEPT ![c].page = "left"]

Forget(cmd) == retry' = {p \in retry : p[2] # cmd}

Answered(c) ==
    LET r == requests[c]
        made == receipts[r.cmd]
    IN
    /\ r.page = "waits" /\ r.server = "done"
    /\ Leaves(c)
    /\ CASE r.kind = "message" ->
              /\ composer.draft < MaxDrafts
              /\ composer' = [draft |-> composer.draft + 1, pending |-> NoSubmission, busy |-> FALSE]
              /\ UNCHANGED <<view, retry, stale>>
         [] r.kind = "cancel" -> Forget(r.cmd) /\ UNCHANGED <<view, composer, stale>>
         [] r.kind = "remember" -> Put({made}) /\ Forget(r.cmd) /\ UNCHANGED composer
         [] r.kind = "replace" ->
              /\ view' = [view EXCEPT !.cards = (@ \ {r.of}) \cup {made}]
              /\ stale' = (stale \ {r.of}) \cup {m \in {made} : EndShown(m)}
              /\ Forget(r.cmd) /\ UNCHANGED composer
         [] r.kind = "retract" ->
              /\ view' = [view EXCEPT !.cards = @ \ {r.of}]
              /\ stale' = stale \ {r.of}
              /\ Forget(r.cmd) /\ UNCHANGED composer
    /\ UNCHANGED <<serverVars, seq, load, loads, reverted>>

\* An error or no answer at all, whether or not the command ran.  The card of the Turn
\* goes back to what it was at the click.
Failed(c) ==
    LET r == requests[c] IN
    /\ r.page = "waits"
    /\ Leaves(c)
    /\ IF r.kind = "cancel"
       THEN /\ view' = RenderTurn(view, r.of, r.was)
            /\ reverted' = IF view.shown[r.of] \in Ended THEN reverted \cup {r.of} ELSE reverted
       ELSE UNCHANGED <<view, reverted>>
    /\ composer' = IF r.kind = "message" THEN [composer EXCEPT !.busy = FALSE] ELSE composer
    /\ UNCHANGED <<serverVars, seq, load, retry, loads, stale>>

----------------------------------------------------------------------------

\* The server's step; it shifts the pages being read when a record is withdrawn.
ServerStep ==
    /\ ServerNext
    /\ load' = IF load.pc = "reads" /\ Cardinality(InForce') < Cardinality(InForce)
               THEN [load EXCEPT !.shifted = TRUE] ELSE load
    /\ UNCHANGED <<seq, view, composer, retry, loads, reverted, stale>>

Next ==
    \/ ServerStep
    \/ Open \/ ReadPage \/ ApplyPages \/ LoadFails
    \/ Receive \/ Flush \/ \E t \in DOMAIN turns : Delta(t) \/ ToolProgress(t)
    \/ EditDraft
    \/ \E c \in Click :
         \/ SubmitMessage(c) \/ RetractRecord(c) \/ Answered(c) \/ Failed(c)
         \/ \E t \in Turns : CancelTurn(c, t)
         \/ \E content \in Content : SubmitMemory(c, content)

Spec == Init /\ [][Next]_vars

----------------------------------------------------------------------------
(* Properties                                                                *)

TypeOK ==
    /\ turns \in Seq([status : Ended \cup {"queued", "running", "cancelling"}, draft : 0..MaxDrafts])
    /\ memories \in Seq([status : MemoryStatus])
    /\ receipts \in [Click -> 0..Max({MaxTurns, MaxMemories})]
    /\ \A c \in Click : /\ requests[c].server \in {"none", "waits", "done"}
                        /\ requests[c].page \in {"none", "waits", "left"}
    /\ seq \in 0..Len(log) /\ loads \in 0..MaxLoads
    /\ view.answers \cup view.streams \cup view.buckets \cup view.closed \subseteq Turns
    /\ load.pc \in {"none", "reads", "read", "done", "failed"}
    /\ composer.draft \in 1..MaxDrafts /\ composer.busy \in BOOLEAN

\* However often a draft is sent from one page, with answers lost or late, the room makes
\* one Turn of it.
OncePerDraft ==
    \A s, t \in DOMAIN turns : turns[s].draft = turns[t].draft /\ turns[s].draft # 0 => s = t

\* The page has shown every event and awaits no answer.
Quiet ==
    /\ loads > 0 /\ seq = Len(log)
    /\ \A c \in Click : requests[c].page # "waits"

\* A page at rest shows the room's Turns as they are: the live ones with a live status, the
\* ended ones ended, and "being cancelled" only for what the room is cancelling.  Excepted
\* are the ended Turns a failed cancellation has set back.
TurnsAreCurrent ==
    Quiet =>
        /\ \A t \in Live : view.shown[t] \notin Ended \cup {"none"}
        /\ \A t \in DOMAIN turns \ (Live \cup reverted) : view.shown[t] \in Ended \cup {"none"}
        /\ \A t \in DOMAIN turns \ reverted :
               view.shown[t] = "cancel_requested" => turns[t].status = "cancelling"

\* A page at rest shows the memories in force and no other.  Excepted are records older
\* than the page, when their reading failed or a withdrawal shifted its pages, and records
\* that came late with an answer after their end had been shown.
MayMiss == IF load.shifted \/ load.pc = "failed"
           THEN {log[i].of : i \in {i \in 1..load.from : log[i].kind = "memory"}} ELSE {}
CardsAreCurrent ==
    Quiet /\ load.pc \in {"done", "failed"} =>
        /\ InForce \subseteq view.cards \cup MayMiss
        /\ view.cards \subseteq InForce \cup stale

\* A delta that comes after the answer of its Turn never opens a second card beside it,
\* and none that comes after the end of its Turn is kept to be shown.
NoStreamBesideAnswer ==
    /\ view.answers \cap (view.streams \cup view.buckets) = {}
    /\ \A t \in Turns : view.shown[t] \in Ended => t \notin view.buckets
=============================================================================
