---------------------------- MODULE EventStream ----------------------------
(***************************************************************************)
(* How the events of a room reach a browser: SequencedEventPublisher reads *)
(* committed events back from SQLite and hands them to the SSE connection, *)
(* which first replays what the browser missed; the socket carries frames  *)
(* to an EventSource, whose cursor is what a reconnection starts from.     *)
(*                                                                         *)
(* A room has one sequence of durable events 1..high, the first of which   *)
(* is older than the page.  Transient envelopes (deltas) have no number    *)
(* and belong to one Turn here, so that any two of them coalesce.  A       *)
(* buffer counts frames; the byte bound of the code acts like the count,   *)
(* except that a coalesced delta may have to be dropped.  JavaScript runs  *)
(* one callback at a time: a step is the code between two awaits.          *)
(***************************************************************************)
EXTENDS Naturals, Sequences, FiniteSets

CONSTANTS
    MaxSeq,         \* bound: durable events of the room
    MaxTransient,   \* bound: deltas and heartbeats (one in fifteen seconds)
    MaxFaults,      \* bound: crashes, stops, lost connections, reloads
    MaxBuffered,    \* limits.sseEvents
    SocketBuffer,   \* frames the socket takes before write() reports false
    DedupWindow     \* DURABLE_DEDUP_WINDOW

ASSUME StreamAssumption ==
    /\ {MaxTransient, MaxFaults, SocketBuffer} \subseteq Nat
    /\ {MaxSeq, MaxBuffered, DedupWindow} \subseteq Nat \ {0}

VARIABLES
    high,               \* durable: the largest seq committed
    server,             \* "up", "draining" or "down"
    faults,             \* faults so far
    due,                \* a commit whose caller is about to call publish
    deltas,             \* deltas and heartbeats so far
    publishedThrough,   \* #publishedThrough of the room
    tail,               \* publish calls in #tails: 0 wakes, n carries delta n
    through,            \* high water of the drain under way, 0 if none is
    conn,               \* the SseConnection of the browser's EventSource
    wire,               \* frames written to the socket and not yet received
    client              \* the page: its EventSource and state.lastDurableSeq

publisher == <<due, deltas, publishedThrough, tail, through>>
vars == <<high, server, faults, publisher, conn, wire, client>>

Event(s) == [kind |-> "event", n |-> s]
Delta(n) == [kind |-> "delta", n |-> n]
Heartbeat == [kind |-> "beat", n |-> 0]

Frames(q) == {q[i] : i \in DOMAIN q}
Events(q) == {f \in Frames(q) : f.kind = "event"}
SeqsOf(q) == {f.n : f \in Events(q)}

\* The frames of q that are in a set, in their order.
Kept(q, frames) ==
    LET kept[i \in 0..Len(q)] ==
            IF i = 0 THEN <<>>
            ELSE IF q[i] \in frames THEN Append(kept[i - 1], q[i]) ELSE kept[i - 1]
    IN  kept[Len(q)]

Largest(S) == CHOOSE x \in S : \A y \in S : y <= x

\* A connection that is closed: its buffers are released.
Closed(cause) ==
    [phase |-> "closed", cause |-> cause, after |-> 0, pinned |-> FALSE, high |-> 0,
     read |-> 0, boot |-> <<>>, look |-> <<>>, out |-> <<>>, inFlight |-> <<>>,
     buffered |-> 0, accepted |-> 0, seen |-> {}]

NoConnection == Closed("none")

\* The constructor and start(): the high water is read now and known an await later.
Opened(after) ==
    [NoConnection EXCEPT !.phase = "replaying", !.after = after, !.accepted = after,
                         !.read = after, !.high = high]

Init ==
    /\ high = 1
    /\ server = "up" /\ faults = 0
    /\ due = FALSE /\ deltas = 0
    /\ publishedThrough = high /\ tail = <<>> /\ through = 0
    /\ conn = NoConnection /\ wire = <<>>
    /\ client = [at |-> "loading", url |-> 0, lastId |-> 0, last |-> 0]
-----------------------------------------------------------------------------
(* Buffers of a connection *)

Fits(c) == c.buffered < MaxBuffered

Put(c, q, frame) == [c EXCEPT ![q] = Append(@, frame), !.buffered = @ + 1]

\* Release the frames of q that are not to be kept.
Retain(c, q, frames) ==
    [c EXCEPT ![q] = Kept(@, frames),
              !.buffered = @ - Cardinality({i \in DOMAIN c[q] : c[q][i] \notin frames})]

DiscardQueuedTransient(c) ==
    Retain(Retain(c, "boot", Events(c.boot)), "out", Events(c.out))

OfferDurable(c, q, s) ==
    LET roomy == IF Fits(c) THEN c ELSE DiscardQueuedTransient(c)
    IN  IF Fits(roomy) THEN Put(roomy, q, Event(s)) ELSE Closed("durable_overflow")

\* A coalesced delta is replaced by the newer one, or kept if that is too large.
Coalesced(c, q, n) ==
    {[c EXCEPT ![q] = [i \in DOMAIN @ |-> IF @[i].kind = "delta" THEN Delta(m) ELSE @[i]]] :
        m \in {n} \cup {f.n : f \in {g \in Frames(c[q]) : g.kind = "delta"}}}

OfferDelta(c, n) ==
    LET HasDelta(q) == \E f \in Frames(c[q]) : f.kind = "delta"
        target == IF c.phase = "replaying" THEN "boot" ELSE "out"
    IN  IF c.phase = "closed" THEN {c}
        ELSE IF HasDelta("boot") THEN Coalesced(c, "boot", n)
        ELSE IF HasDelta("out") THEN Coalesced(c, "out", n)
        ELSE IF Fits(c) THEN {Put(c, target, Delta(n))}
        ELSE {c}

ClassifyDurable(c, s) ==
    IF s <= c.after \/ s \in c.seen THEN "duplicate"
    ELSE IF s > c.accepted THEN "accept" ELSE "violation"

RememberDurable(c, S) ==
    LET all == c.seen \cup S
    IN  [c EXCEPT !.accepted = IF S = {} THEN @ ELSE Largest(S),
                  !.seen = {s \in all : Cardinality({r \in all : r > s}) < DedupWindow}]
-----------------------------------------------------------------------------
(* SseConnection *)

\* Mutant: what is published during the replay is not kept.
ReceiveLiveOnly(c, s) ==
    IF c.phase # "live" \/ ClassifyDurable(c, s) # "accept" THEN c
    ELSE RememberDurable(OfferDurable(c, "out", s), {s})

\* A durable event arrives from the publisher.
ReceiveLive(c, s) ==
    CASE c.phase = "closed" -> c
      [] c.phase = "replaying" ->
            IF (c.pinned /\ s <= c.high) \/ s \in SeqsOf(c.boot)
            THEN c ELSE OfferDurable(c, "boot", s)
      [] c.phase = "live" ->
            CASE ClassifyDurable(c, s) = "duplicate" -> c
              [] ClassifyDurable(c, s) = "violation" -> Closed("sequence_error")
              [] ClassifyDurable(c, s) = "accept" ->
                    LET offered == OfferDurable(c, "out", s)
                    IN  IF offered.phase = "closed" THEN offered
                        ELSE RememberDurable(offered, {s})

\* The last replayed event waits in the look-ahead until its successor is read.
FlushReplayLookahead(c) ==
    IF c.look = <<>> THEN c
    ELSE LET s == Head(c.look).n
             rest == [c EXCEPT !.look = <<>>]
         IN  CASE ClassifyDurable(c, s) = "duplicate" -> [rest EXCEPT !.buffered = @ - 1]
               [] ClassifyDurable(c, s) = "violation" -> Closed("replay_error")
               [] ClassifyDurable(c, s) = "accept" ->
                     RememberDurable([rest EXCEPT !.out = Append(@, Event(s))], {s})

\* Mutant: the connection goes live without what arrived meanwhile.
HandOverEmpty(c) == [Retain(c, "boot", {}) EXCEPT !.phase = "live"]

\* From replaying to live: what arrived meanwhile follows the replay.
HandOver(c) ==
    LET fresh == {f \in Frames(c.boot) :
                     f.kind = "delta" \/ (f.n > c.high /\ ClassifyDurable(c, f.n) # "duplicate")}
        d == Retain(c, "boot", fresh)
        durable == Kept(d.boot, Events(d.boot))
        ordered == /\ \A i \in DOMAIN durable : durable[i].n > d.accepted
                   /\ \A i, j \in DOMAIN durable : i < j => durable[i].n < durable[j].n
    IN  IF ~ordered THEN Closed("sequence_error")
        ELSE [RememberDurable(d, SeqsOf(durable)) EXCEPT
                 !.out = @ \o d.boot, !.boot = <<>>, !.phase = "live"]

\* Frames are waiting and #runPump is about to run.
PumpQueued == conn.phase # "closed" /\ conn.inFlight = <<>> /\ conn.out # <<>>

\* captureHighWaterSeq has answered: live copies of what the replay will bring go.
PinHighWater ==
    /\ conn.phase = "replaying" /\ ~conn.pinned
    /\ LET live == {f \in Frames(conn.boot) : f.kind # "event" \/ f.n > conn.high}
       IN  \E c \in {[Retain(conn, "boot", live) EXCEPT !.pinned = TRUE]} :
             conn' = IF c.high > c.after THEN c ELSE HandOver(c)
    /\ UNCHANGED <<high, server, faults, publisher, wire, client>>

\* The iterator yields the next event of the range.  A pump that was queued before
\* it, in the same queue of microtasks, has run.
ReplayNext ==
    /\ conn.phase = "replaying" /\ conn.pinned /\ conn.read < conn.high
    /\ ~PumpQueued
    /\ \E c \in {FlushReplayLookahead(conn)} :
           conn' = IF c.phase = "closed" THEN c
                   ELSE LET staged == OfferDurable(c, "look", c.read + 1)
                        IN  IF staged.phase = "closed" THEN staged
                            ELSE [staged EXCEPT !.read = @ + 1]
    /\ UNCHANGED <<high, server, faults, publisher, wire, client>>

ReplayEnds ==
    /\ conn.phase = "replaying" /\ conn.pinned
    /\ conn.after < conn.high /\ conn.read = conn.high
    /\ \E c \in {FlushReplayLookahead(conn)} :
           conn' = IF c.phase = "closed" THEN c ELSE HandOver(c)
    /\ UNCHANGED <<high, server, faults, publisher, wire, client>>

OfferHeartbeat ==
    /\ conn.phase # "closed" /\ Fits(conn)
    /\ Heartbeat \notin Frames(conn.out)
    /\ deltas < MaxTransient /\ deltas' = deltas + 1
    /\ conn' = Put(conn, "out", Heartbeat)
    /\ UNCHANGED <<high, server, faults, due, publishedThrough, tail, through, wire, client>>

\* #pump has queued #runPump, which takes the first frame and writes it.
PumpWrites ==
    /\ PumpQueued
    /\ conn' = [conn EXCEPT !.inFlight = <<Head(conn.out)>>, !.out = Tail(@)]
    /\ wire' = Append(wire, Head(conn.out))
    /\ UNCHANGED <<high, server, faults, publisher, client>>

\* The write has resolved, at once or when the socket has drained: #runPump goes on
\* with the next frame.
WriteResolves ==
    /\ conn.phase # "closed" /\ conn.inFlight # <<>>
    /\ Len(wire) <= SocketBuffer
    /\ LET next == SubSeq(conn.out, 1, IF conn.out = <<>> THEN 0 ELSE 1)
       IN  /\ conn' = [conn EXCEPT !.inFlight = next, !.buffered = @ - 1,
                                    !.out = SubSeq(@, 1 + Len(next), Len(@))]
           /\ wire' = wire \o next
    /\ UNCHANGED <<high, server, faults, publisher, client>>
-----------------------------------------------------------------------------
(* The store and the publisher *)

Commit ==
    /\ server # "down" /\ high < MaxSeq /\ ~due
    /\ high' = high + 1 /\ due' = TRUE
    /\ UNCHANGED <<server, faults, deltas, publishedThrough, tail, through, conn, wire, client>>

\* #publishStored: the envelope only wakes the publisher up.
PublishStored ==
    /\ server # "down" /\ due
    /\ due' = FALSE /\ tail' = Append(tail, 0)
    /\ UNCHANGED <<high, server, faults, deltas, publishedThrough, through, conn, wire, client>>

PublishTransient ==
    /\ server # "down" /\ deltas < MaxTransient
    /\ deltas' = deltas + 1 /\ tail' = Append(tail, deltas + 1)
    /\ UNCHANGED <<high, server, faults, due, publishedThrough, through, conn, wire, client>>

DrainDurable ==
    /\ tail # <<>> /\ through = 0 /\ publishedThrough < high
    /\ through' = high
    /\ UNCHANGED <<high, server, faults, due, deltas, publishedThrough, tail, conn, wire, client>>

PublishNext ==
    /\ publishedThrough < through
    /\ conn' = ReceiveLive(conn, publishedThrough + 1)
    /\ publishedThrough' = publishedThrough + 1
    /\ UNCHANGED <<high, server, faults, due, deltas, tail, through, wire, client>>

\* The drain is over: the envelope itself follows if it is transient.
PublishEnds ==
    /\ tail # <<>>
    /\ publishedThrough = IF through = 0 THEN high ELSE through
    /\ conn' \in IF Head(tail) = 0 THEN {conn} ELSE OfferDelta(conn, Head(tail))
    /\ tail' = Tail(tail) /\ through' = 0
    /\ UNCHANGED <<high, server, faults, due, deltas, publishedThrough, wire, client>>
-----------------------------------------------------------------------------
(* The page and its EventSource *)

\* GET /api/bootstrap: a snapshot with the cursor it includes, then a new EventSource.
Bootstrap ==
    /\ client.at = "loading" /\ server = "up"
    /\ client' = [at |-> "connecting", url |-> high, lastId |-> 0, last |-> high]
    /\ UNCHANGED <<high, server, faults, publisher, conn, wire>>

\* The cursor a request names: Last-Event-ID once the source has received an id.
ResolveEventCursor(c) == IF c.lastId > 0 THEN c.lastId ELSE c.url

OpenSse ==
    /\ client.at = "connecting" /\ server = "up"
    /\ conn' = Opened(ResolveEventCursor(client)) /\ wire' = <<>>
    /\ client' = [client EXCEPT !.at = "open"]
    /\ UNCHANGED <<high, server, faults, publisher>>

\* A draining server answers 503, on which an EventSource gives up for good.
ConnectRefused ==
    /\ client.at = "connecting" /\ server = "draining"
    /\ client' = [client EXCEPT !.at = "failed"]
    /\ UNCHANGED <<high, server, faults, publisher, conn, wire>>

\* Mutant: the page takes whatever comes next.
AcceptAnyEnvelope(c, s) == [c EXCEPT !.lastId = s, !.last = s + 1]

\* acceptEnvelope of a live event; on a gap the page opens another EventSource.
AcceptEnvelope(c, s) ==
    IF s <= c.last THEN [c EXCEPT !.lastId = s]
    ELSE IF s > c.last + 1
    THEN [at |-> "connecting", url |-> c.last, lastId |-> 0, last |-> c.last]
    ELSE [c EXCEPT !.lastId = s, !.last = s]

ClientReceives ==
    /\ client.at = "open" /\ wire # <<>>
    /\ LET frame == Head(wire)
           c == IF frame.kind = "event" THEN AcceptEnvelope(client, frame.n) ELSE client
       IN  /\ client' = c
           /\ wire' = IF c.at = "open" THEN Tail(wire) ELSE <<>>
           /\ conn' = IF c.at = "open" THEN conn ELSE Closed("aborted")
    /\ UNCHANGED <<high, server, faults, publisher>>

\* The response has ended: the EventSource reconnects by itself.
StreamEnds ==
    /\ client.at = "open" /\ conn.phase = "closed" /\ wire = <<>>
    /\ client' = [client EXCEPT !.at = "connecting"]
    /\ UNCHANGED <<high, server, faults, publisher, conn, wire>>
-----------------------------------------------------------------------------
(* Faults *)

Fault == faults < MaxFaults /\ faults' = faults + 1

\* The connection breaks; frames on the wire are lost.
ConnectionLost ==
    /\ Fault /\ client.at = "open"
    /\ conn' = Closed("aborted") /\ wire' = <<>>
    /\ client' = [client EXCEPT !.at = "connecting"]
    /\ UNCHANGED <<high, server, publisher>>

Reload ==
    /\ Fault /\ client.at # "loading"
    /\ conn' = Closed("aborted") /\ wire' = <<>>
    /\ client' = [client EXCEPT !.at = "loading"]
    /\ UNCHANGED <<high, server, publisher>>

\* GroupXHttpServer.beginClose: streams end, new requests get 503.
BeginClose ==
    /\ Fault /\ server = "up"
    /\ server' = "draining"
    /\ conn' = Closed("server_closed")
    /\ UNCHANGED <<high, publisher, wire, client>>

\* The process ends, by itself or by a crash; part of the wire may be lost.
Exit ==
    /\ \/ server = "draining" /\ UNCHANGED faults
       \/ server = "up" /\ Fault
    /\ server' = "down"
    /\ conn' = Closed("server_closed")
    /\ \E k \in 0..Len(wire) : wire' = SubSeq(wire, 1, k)
    /\ due' = FALSE /\ tail' = <<>> /\ through' = 0
    /\ UNCHANGED <<high, deltas, publishedThrough, client>>

\* The publisher starts behind what was committed: initialize().
Initialize ==
    /\ server = "down"
    /\ server' = "up" /\ publishedThrough' = high
    /\ UNCHANGED <<high, faults, due, deltas, tail, through, conn, wire, client>>
-----------------------------------------------------------------------------
Publish == PublishStored \/ DrainDurable \/ PublishNext \/ PublishEnds
Serve   == PinHighWater \/ ReplayNext \/ ReplayEnds \/ PumpWrites \/ WriteResolves
Browse  == Bootstrap \/ OpenSse \/ ClientReceives \/ StreamEnds
Next ==
    \/ Commit \/ PublishTransient \/ OfferHeartbeat
    \/ Publish \/ Serve \/ Browse
    \/ ConnectRefused \/ ConnectionLost \/ Reload \/ BeginClose \/ Exit \/ Initialize

Spec == Init /\ [][Next]_vars

\* Callbacks that are due are run, a page that is open reads its socket, and a
\* process that ended is started again.
FairSpec ==
    /\ Spec
    /\ WF_vars(PublishStored) /\ WF_vars(DrainDurable) /\ WF_vars(PublishNext)
    /\ WF_vars(PublishEnds)
    /\ WF_vars(PinHighWater) /\ WF_vars(ReplayNext) /\ WF_vars(ReplayEnds)
    /\ WF_vars(PumpWrites) /\ WF_vars(WriteResolves)
    /\ WF_vars(Bootstrap) /\ WF_vars(OpenSse) /\ WF_vars(ClientReceives)
    /\ WF_vars(StreamEnds) /\ WF_vars(Initialize)
-----------------------------------------------------------------------------
(* Properties *)

Frame == [kind : {"event", "delta", "beat"}, n : Nat]

\* Every part of the state has the type its comment says.
TypeOK ==
    /\ {high, publishedThrough, through} \subseteq 0..MaxSeq
    /\ server \in {"up", "draining", "down"} /\ faults \in 0..MaxFaults
    /\ due \in BOOLEAN /\ deltas \in 0..MaxTransient
    /\ tail \in Seq(0..MaxTransient) /\ wire \in Seq(Frame)
    /\ conn.phase \in {"replaying", "live", "closed"}
    /\ \A q \in {"boot", "look", "out", "inFlight"} : conn[q] \in Seq(Frame)
    /\ {conn.after, conn.high, conn.read, conn.accepted} \cup conn.seen \subseteq 0..MaxSeq
    /\ client \in [at : {"loading", "connecting", "open", "failed"},
                   url : 0..MaxSeq, lastId : 0..MaxSeq, last : 0..MaxSeq]

\* What is between the room's log and the page: the next durable frame that a page
\* reads is the one after its cursor, through replay, hand-over, live delivery and
\* reconnection. A page never sees a gap or a repetition (I-006, I-008), and its
\* connection is never cut because one was about to be sent: a live copy of a replayed
\* event is recognised, as long as the publisher is no more than DedupWindow behind.
Pipeline == wire \o conn.out \o conn.look
EachEventOnce ==
    client.at = "open" =>
        LET durable == Kept(Pipeline, Events(Pipeline))
        IN  \A i \in DOMAIN durable : durable[i].n = client.last + i
NoGapNoRepeat ==
    /\ EachEventOnce
    /\ conn.cause \notin {"sequence_error", "replay_error"}

\* A page that is behind catches up with every committed event, as long as the
\* server is there and the EventSource has not given up: overflow and reconnection
\* make progress.
PageCatchesUp ==
    \A s \in 1..MaxSeq :
        high >= s ~> client.last >= s \/ client.at = "failed" \/ server # "up"

\* For the page, the stream is the room's log in order, or a snapshot of it.
Feed == INSTANCE OrderedFeed WITH received <- client.last
ImplementsOrderedFeed == Feed!Spec
=============================================================================
