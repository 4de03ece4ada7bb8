------------------------- MODULE NativeAgentsProofs --------------------------
(****************************************************************************)
(* The safety properties of NativeAgents for any number of prompts, launches*)
(* and faults: the inductive invariants of the Codex and the Claude adapter,*)
(* and from those of all three what every adapter promises the broker.      *)
(****************************************************************************)
EXTENDS AcpProofs

----------------------------------------------------------------------------
(* The Codex adapter                                                         *)

\* The types of the adapter's state.
CodexRequest == ({"initialize", "requirements", "open"} \X {NoTurn}) \cup ({"start", "interrupt"} \X Turn)
CodexSession == [at : {"none", "initialize", "requirements", "open", "ready", "failing", "closing"},
                 runtime : BOOLEAN, closing : BOOLEAN, poisoned : BOOLEAN, active : Subject,
                 retired : SUBSET Turn, teardown : {"none", "scheduled", "waiting", "closing", "done"},
                 shut : Subject]
CodexTurn == [id : Subject, cancel : BOOLEAN, interrupt : BOOLEAN, observed : BOOLEAN,
              timer : {"none", "first", "idle", "cancel"}]
CodexState == [s : CodexSession, t : [Turn -> CodexTurn], e : [Turn -> StreamSet], c : CliSet,
               p : SUBSET CodexRequest]

\* The name the CLI gives a turn is the one it was prompted with.
CodexGood(g, n) ==
    /\ g \in CodexState /\ StreamsOK(g.e, n, g.t, g.s.active)
    /\ g.s.poisoned => g.s.active = NoTurn
    /\ \A u \in g.s.retired : g.e[u].ends # <<>>
    /\ \A u \in Turn : g.t[u].id \in {NoTurn, u}

\* The turns whose end can do no harm: the active one, those whose late end was
\* provided for, and any once the runtime is poisoned.
Known(g, u) == u = g.s.active \/ u \in g.s.retired \/ g.s.poisoned

\* What a callback of the adapter never takes back: nothing known becomes
\* unknown, no end and no cancel is undone, and the CLI is interrupted only as
\* it may be.
CodexStays(g, h) ==
    /\ h.c.work = g.c.work /\ h.c.ended = g.c.ended
    /\ h.s.active \in {g.s.active, NoTurn}
    /\ \A u \in Turn :
        /\ Known(g, u) => Known(h, u)
        /\ g.e[u].ends # <<>> => h.e[u].ends # <<>>
        /\ g.t[u].cancel => h.t[u].cancel
    /\ h.c.interrupted => g.c.interrupted \/ Interruption(h.c, h.e, h.t)

\* The same of a callback that does not settle the session's own requests.
CodexMoves(g, h) ==
    /\ CodexStays(g, h)
    /\ h.s.runtime = g.s.runtime /\ h.s.at \in {g.s.at, "failing"}
    /\ h.s.teardown = "closing" => g.s.teardown = "closing"

\* The adapter and NativeAgents mean the same by the names they share.
LEMMA CodexNames ==
    /\ Codex!Turn = Turn /\ Codex!NoTurn = NoTurn /\ Codex!Outcome = Outcome /\ Codex!NoStream = NoStream
    /\ \A e, t, o : Codex!Ended(e, t, o) = Ended(e, t, o)
    /\ \A t : Codex!Open(t) = Open(t) /\ (Codex!CanPrompt(t) <=> CanPrompt(t))
    /\ \A t, s : Codex!Delivered(t, s) = Delivered(t, s)
    /\ Codex!Worked = Head(cli.work)
    /\ \A k, id, out : Codex!Frame(k, id, out) = [k |-> k, id |-> id, out |-> out]
BY DEF Codex!Turn, Codex!NoTurn, Codex!Outcome, Codex!NoStream, Codex!Ended, Codex!Open, Codex!CanPrompt,
       Codex!Delivered, Turn, NoTurn, Outcome, NoStream, Ended, Open, CanPrompt, Delivered, Codex!Past, Past,
       Codex!Forgotten, Forgotten, Codex!Worked, Codex!Frame

\* Doing nothing retires nobody and cancels nobody.
LEMMA CodexMovesItself == ASSUME NEW g PROVE CodexMoves(g, g)
BY DEF CodexMoves, CodexStays

\* Steps of a handler add up.
LEMMA CodexMovesOn ==
    ASSUME NEW g \in CodexState, NEW k, NEW h, CodexMoves(g, k), CodexMoves(k, h)
    PROVE  CodexMoves(g, h)
<1>1. g.c.work # <<>> => Head(g.c.work) \in Turn BY DEF CodexState, CliSet
<1>2. h.c.interrupted => g.c.interrupted \/ Interruption(h.c, h.e, h.t)
  BY <1>1 DEF CodexMoves, CodexStays, Interruption
<1> QED BY <1>2 DEF CodexMoves, CodexStays

\* A change that ends nothing and takes back no cancellation
LEMMA CodexTurnStep ==
    ASSUME NEW g, NEW n, CodexGood(g, n), NEW h \in CodexState, h.s = g.s, h.e = g.e,
           h.c.work = g.c.work, h.c.ended = g.c.ended,
           h.c.interrupted => g.c.interrupted \/ Interruption(h.c, h.e, h.t),
           \A u \in Turn : (g.t[u].cancel => h.t[u].cancel) /\ h.t[u].id \in {NoTurn, u}
    PROVE  CodexGood(h, n) /\ CodexMoves(g, h)
<1>1. StreamsOK(h.e, n, h.t, h.s.active) BY StreamsTurn DEF CodexGood
<1>2. CodexGood(h, n) BY <1>1 DEF CodexGood
<1>3. CodexMoves(g, h) BY DEF CodexMoves, CodexStays, Known
<1> QED BY <1>2, <1>3

\* #emitTerminal
CodexEmits(g, i, t, o) ==
    /\ i \in CodexState /\ i.e = Ended(g.e, t, o) /\ i.c = g.c /\ i.p = g.p
    /\ i.s.active = (IF g.s.active = t THEN NoTurn ELSE g.s.active)
    /\ i.s.retired = (IF g.t[t].id = NoTurn \/ g.s.active # t THEN g.s.retired ELSE g.s.retired \cup {g.t[t].id})
    /\ i.s.poisoned = g.s.poisoned /\ i.s.runtime = g.s.runtime /\ i.s.at = g.s.at
    /\ i.s.teardown = g.s.teardown
    /\ \A u \in Turn : i.t[u].cancel = g.t[u].cancel /\ i.t[u].id \in {NoTurn, g.t[u].id}

\* #emitTerminal ends the stream of the Turn once, and retires its native turn.
LEMMA CodexEmit ==
    ASSUME NEW g, NEW n, CodexGood(g, n), NEW t \in Turn, NEW o \in Outcome, g.e[t].ends = <<>>,
           o = "completed" => n[t] = "completed", o = "cancelled" => g.t[t].cancel
    PROVE  /\ CodexEmits(g, Codex!EmitTerminal(g, t, o), t, o)
           /\ CodexGood(Codex!EmitTerminal(g, t, o), n)
<1> DEFINE h == Codex!EmitTerminal(g, t, o)
           d == Ended(g.e, t, o)
           fresh == [Codex!FreshTurn EXCEPT !.cancel = g.t[t].cancel]
           tt == [g.t EXCEPT ![t] = fresh]
           rr == IF g.t[t].id = NoTurn \/ g.s.active # t THEN g.s.retired ELSE g.s.retired \cup {g.t[t].id}
           aa == IF g.s.active = t THEN NoTurn ELSE g.s.active
           s1 == [g.s EXCEPT !.retired = rr]
           ss == [s1 EXCEPT !.active = aa]
<1>g. /\ g \in CodexState /\ g.s \in CodexSession /\ g.t \in [Turn -> CodexTurn] /\ g.e \in [Turn -> StreamSet]
      /\ g.c \in CliSet /\ g.p \in SUBSET CodexRequest /\ StreamsOK(g.e, n, g.t, g.s.active)
      /\ g.s.active \in Subject
  BY DEF CodexGood, CodexState, CodexSession
<1>1. h = [g EXCEPT !.t[t] = fresh, !.e = d,
                    !.s.retired = IF g.t[t].id = NoTurn \/ g.s.active # t THEN @ ELSE @ \cup {g.t[t].id},
                    !.s.active = IF @ = t THEN NoTurn ELSE @]
  BY CodexNames DEF Codex!EmitTerminal, Codex!Terminal
<1>2. h = [s |-> ss, t |-> tt, e |-> d, c |-> g.c, p |-> g.p]
  <2> HIDE DEF d, fresh
  <2> QED BY <1>1, <1>g DEF CodexState, CodexSession
<1>3. /\ fresh \in CodexTurn /\ fresh.cancel = g.t[t].cancel /\ fresh.id = NoTurn
  BY <1>g, CodexNames DEF Codex!FreshTurn, CodexTurn, Subject
<1> HIDE DEF fresh
<1>4. /\ tt \in [Turn -> CodexTurn]
      /\ \A u \in Turn : tt[u].cancel = g.t[u].cancel /\ tt[u].id \in {NoTurn, g.t[u].id}
  BY <1>3, <1>g
<1>5. rr \in SUBSET Turn /\ \A u \in rr : u \in g.s.retired \/ (u = t /\ g.s.active = t)
  BY <1>g DEF CodexGood, CodexSession
<1>6. aa \in Subject BY <1>g DEF Subject
<1>7. /\ ss \in CodexSession /\ ss.active = aa /\ ss.retired = rr
      /\ ss.poisoned = g.s.poisoned /\ ss.runtime = g.s.runtime /\ ss.at = g.s.at
      /\ ss.teardown = g.s.teardown
  <2> HIDE DEF rr, aa
  <2> QED BY <1>5, <1>6, <1>g DEF CodexSession
<1>8. /\ d \in [Turn -> StreamSet] /\ StreamsOK(d, n, g.t, aa)
      /\ \A u \in Turn : g.e[u].ends # <<>> => d[u].ends # <<>>
      /\ g.e[t].open => d[t].ends # <<>>
  BY <1>g, StreamsEnd
<1> HIDE DEF tt, ss, s1, d, h
<1>9. h \in CodexState /\ h.s = ss /\ h.t = tt /\ h.e = d /\ h.c = g.c /\ h.p = g.p
  BY <1>2, <1>4, <1>7, <1>8, <1>g DEF CodexState
<1>10. CodexEmits(g, h, t, o)
  BY <1>4, <1>7, <1>9 DEF CodexEmits, d
<1>11. StreamsOK(h.e, n, h.t, h.s.active) BY <1>4, <1>7, <1>8, <1>9, StreamsTurn
<1>12. \A u \in h.s.retired : h.e[u].ends # <<>>
  <2>1. g.s.active = t => g.e[t].open BY <1>g DEF StreamsOK, Turn, NoTurn
  <2>2. g.s.retired \subseteq Turn BY <1>g DEF CodexSession
  <2> QED BY <2>1, <2>2, <1>5, <1>7, <1>8, <1>9 DEF CodexGood
<1>13. h.s.poisoned => h.s.active = NoTurn BY <1>7, <1>9 DEF CodexGood
<1>14. CodexGood(h, n) BY <1>4, <1>9, <1>11, <1>12, <1>13 DEF CodexGood
<1> QED BY <1>10, <1>14 DEF h

\* Seen from the frames in flight, that is a step of the handler.
LEMMA CodexEmitMoves ==
    ASSUME NEW g, NEW n, CodexGood(g, n), NEW t \in Turn, NEW o \in Outcome, NEW i, CodexEmits(g, i, t, o),
           g.s.active = t => g.t[t].id # NoTurn
    PROVE  CodexMoves(g, i) /\ i.s.active # t
<1>g. g \in CodexState /\ g.s.active \in Subject /\ (g.e[t].open => g.e[t].ends = <<>>)
      /\ g.e \in [Turn -> StreamSet]
  BY DEF CodexGood, CodexState, CodexSession, StreamsOK
<1>1. \A u \in Turn : Known(g, u) => Known(i, u)
  BY DEF Known, CodexEmits, CodexGood
<1>2. \A u \in Turn : g.e[u].ends # <<>> => i.e[u].ends # <<>>
  BY <1>g, EndedOnce DEF CodexEmits
<1>3. i.s.active # t BY DEF CodexEmits, Turn, NoTurn
<1> QED BY <1>1, <1>2, <1>3 DEF CodexMoves, CodexStays, CodexEmits

\* #scheduleRuntimeTeardown
LEMMA CodexTeardown ==
    ASSUME NEW g, NEW n, CodexGood(g, n), g.s.active = NoTurn
    PROVE  /\ CodexGood(Codex!ScheduleTeardown(g), n) /\ CodexMoves(g, Codex!ScheduleTeardown(g))
           /\ Codex!ScheduleTeardown(g).s.poisoned /\ Codex!ScheduleTeardown(g).p = g.p
           /\ Codex!ScheduleTeardown(g).s.active = NoTurn
           /\ Codex!ScheduleTeardown(g).e = g.e /\ Codex!ScheduleTeardown(g).t = g.t
           /\ Codex!ScheduleTeardown(g).c = g.c
<1> DEFINE h == Codex!ScheduleTeardown(g)
           td == IF g.s.teardown = "none" THEN "scheduled" ELSE g.s.teardown
           s1 == [g.s EXCEPT !.poisoned = TRUE]
           ss == [s1 EXCEPT !.teardown = td]
<1>g. g \in CodexState /\ g.s \in CodexSession BY DEF CodexGood, CodexState
<1>1. h = [g EXCEPT !.s.poisoned = TRUE, !.s.teardown = IF @ = "none" THEN "scheduled" ELSE @]
  BY DEF Codex!ScheduleTeardown
<1>2. h = [s |-> ss, t |-> g.t, e |-> g.e, c |-> g.c, p |-> g.p]
  BY <1>1, <1>g DEF CodexState, CodexSession
<1>3. td \in {"none", "scheduled", "waiting", "closing", "done"} /\ (td = "closing" => g.s.teardown = "closing")
  BY <1>g DEF CodexSession
<1>4. /\ s1 \in CodexSession /\ s1.poisoned /\ s1.active = g.s.active /\ s1.retired = g.s.retired
      /\ s1.runtime = g.s.runtime /\ s1.at = g.s.at
  BY <1>g DEF CodexSession
<1> HIDE DEF s1, td
<1>5. /\ ss \in CodexSession /\ ss.poisoned = s1.poisoned /\ ss.active = s1.active /\ ss.retired = s1.retired
      /\ ss.runtime = s1.runtime /\ ss.at = s1.at /\ ss.teardown = td
  BY <1>3, <1>4 DEF CodexSession
<1> HIDE DEF ss, h
<1>6. h \in CodexState /\ h.s = ss /\ h.t = g.t /\ h.e = g.e /\ h.c = g.c /\ h.p = g.p
  BY <1>2, <1>5, <1>g DEF CodexState
<1>7. CodexGood(h, n) BY <1>4, <1>5, <1>6 DEF CodexGood
<1>8. CodexMoves(g, h) BY <1>3, <1>4, <1>5, <1>6 DEF CodexMoves, CodexStays, Known
<1> QED BY <1>4, <1>5, <1>6, <1>7, <1>8 DEF h

\* An interruption is asked of the native turn of the Turn, and of no other.
LEMMA CodexAsk ==
    ASSUME NEW g, NEW n, CodexGood(g, n), NEW t \in Turn, g.c.work = cli.work,
           NEW k, k = Codex!AskInterrupt(g, t)
    PROVE  /\ k \in CodexState /\ k.s = g.s /\ k.t = g.t /\ k.e = g.e /\ k.p = g.p
           /\ k.c.work = g.c.work /\ k.c.ended = g.c.ended
           /\ k.c.interrupted => g.c.interrupted \/ (g.c.work # <<>> /\ Head(g.c.work) = t)
<1> DEFINE cc == IF g.c.work # <<>> /\ Codex!Worked = g.t[t].id THEN Codex!Interrupted(g.c) ELSE g.c
<1>g. g \in CodexState /\ g.c \in CliSet BY DEF CodexGood, CodexState
<1>1. k = [s |-> g.s, t |-> g.t, e |-> g.e, c |-> cc, p |-> g.p]
  BY <1>g DEF Codex!AskInterrupt, CodexState
<1>2. /\ cc \in CliSet /\ cc.work = g.c.work /\ cc.ended = g.c.ended
      /\ cc.interrupted => g.c.interrupted \/ (g.c.work # <<>> /\ Codex!Worked = g.t[t].id)
  BY <1>g DEF Codex!Interrupted, CliSet
<1>3. g.c.work # <<>> /\ Codex!Worked = g.t[t].id => Head(g.c.work) = t
  <2>1. g.c.work # <<>> => Head(g.c.work) \in Turn BY <1>g DEF CliSet
  <2>2. g.t[t].id \in {NoTurn, t} BY DEF CodexGood
  <2> QED BY <2>1, <2>2, CodexNames DEF Turn, NoTurn
<1> HIDE DEF cc
<1> QED BY <1>1, <1>2, <1>3, <1>g DEF CodexState

\* EXCEPTs on a Turn as the records they make.
LEMMA CodexSetsCancel ==
    ASSUME NEW k \in CodexState, NEW t \in Turn, NEW y
    PROVE  [k EXCEPT !.t[t].cancel = y]
           = [s |-> k.s, t |-> [k.t EXCEPT ![t].cancel = y], e |-> k.e, c |-> k.c, p |-> k.p]
BY DEF CodexState

\* A cancel is marked on its own Turn.
LEMMA CodexTurnCancel ==
    ASSUME NEW f \in [Turn -> CodexTurn], NEW t \in Turn, NEW y \in BOOLEAN
    PROVE  /\ [f EXCEPT ![t].cancel = y] \in [Turn -> CodexTurn]
           /\ [f EXCEPT ![t].cancel = y][t].cancel = y
           /\ \A u \in Turn : [f EXCEPT ![t].cancel = y][u].id = f[u].id
           /\ \A u \in Turn \ {t} : [f EXCEPT ![t].cancel = y][u].cancel = f[u].cancel
<1>1. [f EXCEPT ![t].cancel = y] \in [Turn -> CodexTurn] BY DEF CodexTurn
<1>2. [f EXCEPT ![t].cancel = y][t].cancel = y BY DEF CodexTurn
<1>3. [f EXCEPT ![t].cancel = y][t].id = f[t].id BY DEF CodexTurn
<1>4. \A u \in Turn \ {t} : [f EXCEPT ![t].cancel = y][u] = f[u] OBVIOUS
<1> HIDE DEF CodexTurn
<1> QED BY <1>1, <1>2, <1>3, <1>4

\* #failTurn
LEMMA CodexFailTurn ==
    ASSUME NEW g, NEW n, CodexGood(g, n), NEW t \in Turn, g.c.work = cli.work,
           NEW l, l = Codex!FailTurn(g, t)
    PROVE  /\ CodexGood(l, n) /\ CodexMoves(g, l) /\ l.p = g.p
           /\ l.s.active = IF g.s.active = t THEN NoTurn ELSE g.s.active
<1>g. /\ g \in CodexState /\ g.s.active \in Subject /\ g.t \in [Turn -> CodexTurn] /\ g.e \in [Turn -> StreamSet]
      /\ (g.e[t].open => g.e[t].ends = <<>>) /\ (g.s.active # NoTurn => g.e[g.s.active].open)
  BY DEF CodexGood, CodexState, CodexSession, StreamsOK
<1>1. CASE g.e[t].ends # <<>>
  <2>1. l = g BY <1>1 DEF Codex!FailTurn, Codex!Terminal
  <2>2. g.s.active # t BY <1>1, <1>g DEF Turn, NoTurn
  <2> QED BY <2>1, <2>2, CodexMovesItself
<1>2. CASE g.e[t].ends = <<>>
  <2> DEFINE sends == g.t[t].id # NoTurn /\ ~g.t[t].cancel
             h == IF sends /\ client = "running" THEN Codex!AskInterrupt(g, t) ELSE g
             y == h.t[t].cancel \/ sends
             tt == [h.t EXCEPT ![t].cancel = y]
             k == [s |-> h.s, t |-> tt, e |-> h.e, c |-> h.c, p |-> h.p]
             i == Codex!EmitTerminal(k, t, "failed")
  <2>1. /\ h \in CodexState /\ h.s = g.s /\ h.t = g.t /\ h.e = g.e /\ h.p = g.p
        /\ h.c.work = g.c.work /\ h.c.ended = g.c.ended
        /\ h.c.interrupted => g.c.interrupted \/ (sends /\ g.c.work # <<>> /\ Head(g.c.work) = t)
    <3>1. CASE sends /\ client = "running" BY <3>1, CodexAsk
    <3>2. CASE ~(sends /\ client = "running") BY <3>2, <1>g
    <3> QED BY <3>1, <3>2
  <2>2. l = IF g.s.active = t THEN Codex!ScheduleTeardown(i) ELSE i
    <3>1. [h EXCEPT !.t[t].cancel = y] = k
      <4> HIDE DEF h, y
      <4> QED BY <2>1, CodexSetsCancel
    <3>2. l = IF g.s.active = t
              THEN Codex!ScheduleTeardown(Codex!EmitTerminal([h EXCEPT !.t[t].cancel = @ \/ sends], t, "failed"))
              ELSE Codex!EmitTerminal([h EXCEPT !.t[t].cancel = @ \/ sends], t, "failed")
      BY <1>2, CodexNames DEF Codex!FailTurn, Codex!Terminal
    <3>3. [h EXCEPT !.t[t].cancel = @ \/ sends] = [h EXCEPT !.t[t].cancel = y]
      BY <2>1 DEF CodexState
    <3> HIDE DEF h, k, y, sends
    <3> QED BY <3>1, <3>2, <3>3
  <2>3. y \in BOOLEAN OBVIOUS
  <2>4. (g.t[t].cancel => y) /\ (sends => y) BY <2>1
  <2> HIDE DEF y, h
  <2>5. /\ tt \in [Turn -> CodexTurn] /\ tt[t].cancel = y /\ \A u \in Turn : tt[u].id = g.t[u].id
        /\ \A u \in Turn : g.t[u].cancel => tt[u].cancel
    BY <1>g, <2>1, <2>3, <2>4, CodexTurnCancel
  <2> HIDE DEF tt
  <2>6. k \in CodexState /\ k.s = g.s /\ k.t = tt /\ k.e = g.e /\ k.c = h.c /\ k.p = g.p
    BY <2>1, <2>5, <1>g DEF CodexState
  <2> HIDE DEF k
  <2>7. k.c.interrupted => g.c.interrupted \/ Interruption(k.c, k.e, k.t)
    BY <2>1, <2>4, <2>5, <2>6 DEF Interruption
  <2>8. CodexGood(k, n) /\ CodexMoves(g, k)
    <3>1. \A u \in Turn : g.t[u].id \in {NoTurn, u} BY DEF CodexGood
    <3> QED BY <2>1, <2>5, <2>6, <2>7, <3>1, CodexTurnStep
  <2>o. PICK o \in Outcome : o = "failed" BY DEF Outcome
  <2>9. CodexEmits(k, i, t, o) /\ CodexGood(i, n)
    <3>1. o # "completed" /\ o # "cancelled" /\ k.e[t].ends = <<>> BY <1>2, <2>o, <2>6
    <3> QED BY <2>8, <2>o, <3>1, CodexEmit
  <2> HIDE DEF i
  <2>10. CASE g.s.active # t
    <3>1. CodexMoves(k, i) BY <2>6, <2>8, <2>9, <2>10, CodexEmitMoves
    <3>2. CodexMoves(g, i) BY <1>g, <2>8, <3>1, CodexMovesOn
    <3> QED BY <2>2, <2>6, <2>8, <2>9, <2>10, <3>2 DEF CodexEmits
  <2>11. CASE g.s.active = t
    <3>1. i.s.active = NoTurn /\ l = Codex!ScheduleTeardown(i) BY <2>2, <2>6, <2>9, <2>11 DEF CodexEmits
    <3>2. /\ CodexGood(l, n) /\ CodexMoves(i, l) /\ l.s.poisoned /\ l.p = i.p /\ l.s.active = NoTurn
          /\ l.e = i.e /\ l.t = i.t /\ l.c = i.c
      BY <2>9, <3>1, CodexTeardown
    <3>3. \A u \in Turn : k.e[u].ends # <<>> => i.e[u].ends # <<>>
      <4>1. k.e \in [Turn -> StreamSet] /\ k.e[t].ends = <<>> BY <1>g, <1>2, <2>6
      <4> QED BY <4>1, EndedOnce, <2>9 DEF CodexEmits
    <3>4. CodexMoves(k, l)
      BY <3>1, <3>2, <3>3, <2>9 DEF CodexMoves, CodexStays, CodexEmits, Known
    <3>5. CodexMoves(g, l) BY <1>g, <2>8, <3>4, CodexMovesOn
    <3>6. l.p = g.p BY <3>2, <2>9, <2>6 DEF CodexEmits
    <3> QED BY <2>11, <3>2, <3>5, <3>6
  <2> QED BY <2>10, <2>11
<1> QED BY <1>1, <1>2

LEMMA CodexSetsId ==
    ASSUME NEW k \in CodexState, NEW t \in Turn, NEW x
    PROVE  [k EXCEPT !.t[t].id = x]
           = [s |-> k.s, t |-> [k.t EXCEPT ![t].id = x], e |-> k.e, c |-> k.c, p |-> k.p]
BY DEF CodexState

LEMMA CodexSetsInterrupt ==
    ASSUME NEW k \in CodexState, NEW t \in Turn, NEW x
    PROVE  [k EXCEPT !.t[t].interrupt = x]
           = [s |-> k.s, t |-> [k.t EXCEPT ![t].interrupt = x], e |-> k.e, c |-> k.c, p |-> k.p]
BY DEF CodexState

LEMMA CodexSetsObserved ==
    ASSUME NEW k \in CodexState, NEW t \in Turn, NEW x
    PROVE  [k EXCEPT !.t[t].observed = x]
           = [s |-> k.s, t |-> [k.t EXCEPT ![t].observed = x], e |-> k.e, c |-> k.c, p |-> k.p]
BY DEF CodexState

LEMMA CodexSetsTimer ==
    ASSUME NEW k \in CodexState, NEW t \in Turn, NEW x
    PROVE  [k EXCEPT !.t[t].timer = x]
           = [s |-> k.s, t |-> [k.t EXCEPT ![t].timer = x], e |-> k.e, c |-> k.c, p |-> k.p]
BY DEF CodexState

\* #interrupt, of a turn that is to be cancelled
LEMMA CodexInterrupt ==
    ASSUME NEW g, NEW n, CodexGood(g, n), NEW t \in Turn, g.c.work = cli.work, g.t[t].cancel,
           NEW l, l = Codex!Interrupt(g, t)
    PROVE  CodexGood(l, n) /\ CodexMoves(g, l)
<1>g. /\ g \in CodexState /\ g.t \in [Turn -> CodexTurn] /\ g.c \in CliSet /\ g.p \in SUBSET CodexRequest
  BY DEF CodexGood, CodexState
<1>1. CASE Codex!Terminal(g, t) \/ g.t[t].id = NoTurn \/ g.t[t].interrupt
  <2>1. l = g BY <1>1, CodexNames DEF Codex!Interrupt
  <2> QED BY <2>1, CodexMovesItself
<1>2. CASE ~(Codex!Terminal(g, t) \/ g.t[t].id = NoTurn \/ g.t[t].interrupt) /\ client # "running"
  <2>1. l = Codex!FailTurn(g, t) BY <1>2, CodexNames DEF Codex!Interrupt
  <2> QED BY <2>1, CodexFailTurn
<1>3. CASE ~(Codex!Terminal(g, t) \/ g.t[t].id = NoTurn \/ g.t[t].interrupt) /\ client = "running"
  <2> DEFINE t1 == [g.t EXCEPT ![t].interrupt = TRUE]
             tt == [t1 EXCEPT ![t].timer = "cancel"]
             pp == g.p \cup {<<"interrupt", t>>}
             cc == Codex!Asked(g.c, <<"interrupt", t>>)
             k == [s |-> g.s, t |-> tt, e |-> g.e, c |-> cc, p |-> pp]
  <2>1. l = Codex!AskInterrupt([g EXCEPT !.t[t].interrupt = TRUE, !.t[t].timer = "cancel",
                                !.p = @ \cup {<<"interrupt", t>>},
                                !.c = Codex!Asked(@, <<"interrupt", t>>)], t)
    BY <1>3, CodexNames DEF Codex!Interrupt
  <2>2. [g EXCEPT !.t[t].interrupt = TRUE, !.t[t].timer = "cancel", !.p = @ \cup {<<"interrupt", t>>},
                  !.c = Codex!Asked(@, <<"interrupt", t>>)] = k
    <3> DEFINE k1 == [s |-> g.s, t |-> t1, e |-> g.e, c |-> g.c, p |-> g.p]
               k2 == [s |-> g.s, t |-> tt, e |-> g.e, c |-> g.c, p |-> g.p]
               k3 == [s |-> g.s, t |-> tt, e |-> g.e, c |-> g.c, p |-> pp]
    <3>1. \A r :
            [r EXCEPT !.t[t].interrupt = TRUE, !.t[t].timer = "cancel", !.p = @ \cup {<<"interrupt", t>>},
                      !.c = Codex!Asked(@, <<"interrupt", t>>)]
            = [[[[r EXCEPT !.t[t].interrupt = TRUE] EXCEPT !.t[t].timer = "cancel"]
                  EXCEPT !.p = @ \cup {<<"interrupt", t>>}] EXCEPT !.c = Codex!Asked(@, <<"interrupt", t>>)]
      OBVIOUS
    <3>8. [g EXCEPT !.t[t].interrupt = TRUE, !.t[t].timer = "cancel", !.p = @ \cup {<<"interrupt", t>>},
                    !.c = Codex!Asked(@, <<"interrupt", t>>)]
          = [[[[g EXCEPT !.t[t].interrupt = TRUE] EXCEPT !.t[t].timer = "cancel"]
                EXCEPT !.p = @ \cup {<<"interrupt", t>>}] EXCEPT !.c = Codex!Asked(@, <<"interrupt", t>>)]
      BY <3>1
    <3>2. [g EXCEPT !.t[t].interrupt = TRUE] = k1 BY <1>g, CodexSetsInterrupt
    <3>3. t1 \in [Turn -> CodexTurn] BY <1>g DEF CodexTurn
    <3>4. k1 \in CodexState /\ k1.t = t1 /\ k1.s = g.s /\ k1.e = g.e /\ k1.c = g.c /\ k1.p = g.p
      BY <1>g, <3>3 DEF CodexState
    <3>5. [k1 EXCEPT !.t[t].timer = "cancel"] = k2
      <4> HIDE DEF k1, t1
      <4> QED BY <3>4, CodexSetsTimer
    <3>6. [k2 EXCEPT !.p = @ \cup {<<"interrupt", t>>}] = k3
      <4> HIDE DEF tt
      <4> QED OBVIOUS
    <3>7. [k3 EXCEPT !.c = Codex!Asked(@, <<"interrupt", t>>)] = k
      <4> HIDE DEF tt, pp
      <4> QED OBVIOUS
    <3> HIDE DEF k1, k2, k3, k
    <3> QED BY <3>2, <3>5, <3>6, <3>7, <3>8
  <2>3. /\ tt \in [Turn -> CodexTurn] /\ \A u \in Turn : tt[u].cancel = g.t[u].cancel /\ tt[u].id = g.t[u].id
    <3>1. /\ t1 \in [Turn -> CodexTurn] /\ t1[t].cancel = g.t[t].cancel /\ t1[t].id = g.t[t].id
          /\ \A u \in Turn \ {t} : t1[u] = g.t[u]
      BY <1>g DEF CodexTurn
    <3> HIDE DEF t1
    <3>2. /\ tt \in [Turn -> CodexTurn] /\ tt[t].cancel = t1[t].cancel /\ tt[t].id = t1[t].id
          /\ \A u \in Turn \ {t} : tt[u] = t1[u]
      BY <3>1 DEF CodexTurn
    <3> HIDE DEF tt
    <3> QED BY <3>1, <3>2
  <2>4. pp \in SUBSET CodexRequest BY <1>g DEF CodexRequest
  <2>5. <<"interrupt", t>> \in Request BY DEF Request, Subject
  <2>6. cc \in CliSet /\ cc.work = g.c.work /\ cc.interrupted = g.c.interrupted /\ cc.ended = g.c.ended
    BY <1>g, <2>5 DEF Codex!Asked, CliSet
  <2> HIDE DEF tt, pp, cc
  <2>7. k \in CodexState /\ k.s = g.s /\ k.t = tt /\ k.e = g.e /\ k.c = cc /\ k.p = pp
    BY <2>3, <2>4, <2>6, <1>g DEF CodexState
  <2>8. l = Codex!AskInterrupt(k, t) BY <2>1, <2>2
  <2> HIDE DEF k
  <2>9. \A u \in Turn : g.t[u].id \in {NoTurn, u} BY DEF CodexGood
  <2>10. CodexGood(k, n) BY <2>3, <2>6, <2>7, <2>9, CodexTurnStep
  <2>11. /\ l \in CodexState /\ l.s = k.s /\ l.t = k.t /\ l.e = k.e /\ l.p = k.p
         /\ l.c.work = k.c.work /\ l.c.ended = k.c.ended
         /\ l.c.interrupted => k.c.interrupted \/ (k.c.work # <<>> /\ Head(k.c.work) = t)
    BY <2>6, <2>7, <2>8, <2>10, CodexAsk
  <2>12. l.c.interrupted => g.c.interrupted \/ Interruption(l.c, l.e, l.t)
    BY <2>3, <2>6, <2>7, <2>11 DEF Interruption
  <2> QED BY <2>3, <2>6, <2>7, <2>9, <2>11, <2>12, CodexTurnStep
<1> QED BY <1>1, <1>2, <1>3

\* What the CLI says has ended has ended, and an answer to turn/start that
\* carries an outcome tells the true one.
CodexPipe(c, n, f) ==
    /\ \A u \in c.ended : n[u] \notin {"none", "working"}
    /\ \A i \in DOMAIN f : f[i].k = "result" => f[i].id[2] \in c.ended /\ f[i].out \in Outcome
    /\ \A i \in DOMAIN f : f[i].k = "answer" /\ f[i].id[1] = "start" /\ f[i].out \in Outcome =>
        f[i].id[2] \in Turn /\ n[f[i].id[2]] \in {f[i].out, "past"}

\* The places of the results of a turn in the pipe.
Results(f, t) == {i \in DOMAIN f : f[i].k = "result" /\ f[i].id[2] = t}

\* The CLI works on, has ended and speaks of known turns only. If it has ended
\* the active one, a result is on its way, and the first of them tells the true
\* end: others may be repetitions.
CodexLink(g, n, f) ==
    /\ \A i \in DOMAIN g.c.work : Known(g, g.c.work[i])
    /\ \A u \in g.c.ended : Known(g, u)
    /\ \A i \in DOMAIN f : Speaks(f[i]) => f[i].id[2] \in Turn /\ Known(g, f[i].id[2])
    /\ \A i \in DOMAIN f : f[i].k = "ask" /\ f[i].id[2] # NoTurn => f[i].id[2] \in Turn /\ Known(g, f[i].id[2])
    /\ g.s.active \in g.c.ended => Results(f, g.s.active) # {}
    /\ \A i \in Results(f, g.s.active) :
        (\A j \in Results(f, g.s.active) : ~(j < i)) => f[i].out = n[g.s.active]
    /\ Interruption(g.c, g.e, g.t)

\* A session that is not being opened or closed and has no runtime has left no
\* CLI alive.
CodexLeashed(s) ==
    s.at \in {"none", "ready"} /\ ~s.runtime => child # "alive" \/ ladder = "gaveUp"

\* What is known while the client serves.
CodexCalm ==
    /\ ~broken
    /\ WorkOK(cli, native) /\ CodexPipe(cli, native, pipe) /\ CodexLink(Codex!g0, native, pipe)

\* The inductive invariant of the Codex adapter. A teardown closes a client that
\* no longer serves.
CodexInv ==
    /\ CodexGood(Codex!g0, native) /\ native \in [Turn -> NativeSet] /\ pipe \in Seq(FrameSet)
    /\ session.teardown = "closing" => client # "running"
    /\ client = "running" => CodexCalm
    /\ CodexLeashed(session)

\* The state a step starts from.
LEMMA CodexNow ==
    /\ Codex!g0.s = session /\ Codex!g0.t = turn /\ Codex!g0.e = stream /\ Codex!g0.c = cli
    /\ Codex!g0.p = pending
BY DEF Codex!g0

\* The state the adapter moves to is the one its next step starts from.
LEMMA CodexBecome ==
    ASSUME NEW h \in CodexState, Codex!Become(h)
    PROVE  Codex!g0' = h /\ session' = h.s /\ turn' = h.t /\ stream' = h.e /\ cli' = h.c /\ pending' = h.p
BY DEF Codex!Become, Codex!g0, CodexState

\* The link outlives what a callback does.
LEMMA CodexLinkStays ==
    ASSUME NEW g, NEW n, CodexGood(g, n), NEW h, NEW f, CodexLink(g, n, f), CodexStays(g, h)
    PROVE  CodexLink(h, n, f)
<1>1. \A i \in DOMAIN g.c.work : g.c.work[i] \in Turn BY DEF CodexGood, CodexState, CliSet
<1>2. g.c.ended \subseteq Turn BY DEF CodexGood, CodexState, CliSet
<1>3. g.c.work # <<>> => Head(g.c.work) \in Turn BY DEF CodexGood, CodexState, CliSet
<1>4. /\ \A i \in DOMAIN h.c.work : Known(h, h.c.work[i])
      /\ \A u \in h.c.ended : Known(h, u)
  BY <1>1, <1>2 DEF CodexLink, CodexStays
<1>5. /\ \A i \in DOMAIN f : Speaks(f[i]) => f[i].id[2] \in Turn /\ Known(h, f[i].id[2])
      /\ \A i \in DOMAIN f : f[i].k = "ask" /\ f[i].id[2] # NoTurn => f[i].id[2] \in Turn /\ Known(h, f[i].id[2])
  BY DEF CodexLink, CodexStays
<1>6. Interruption(h.c, h.e, h.t) BY <1>3 DEF CodexLink, CodexStays, Interruption
<1>7. /\ h.s.active \in h.c.ended => Results(f, h.s.active) # {}
      /\ \A i \in Results(f, h.s.active) :
            (\A j \in Results(f, h.s.active) : ~(j < i)) => f[i].out = n[h.s.active]
  <2>1. CASE h.s.active = g.s.active BY <2>1 DEF CodexLink, CodexStays
  <2>2. CASE h.s.active = NoTurn
    <3>1. NoTurn \notin Turn BY DEF Turn, NoTurn
    <3>2. h.s.active \notin h.c.ended BY <1>2, <2>2, <3>1 DEF CodexStays
    <3>3. Results(f, NoTurn) = {} BY <3>1 DEF Results, CodexLink, Speaks
    <3> QED BY <2>2, <3>2, <3>3
  <2> QED BY <2>1, <2>2 DEF CodexStays
<1> QED BY <1>4, <1>5, <1>6, <1>7 DEF CodexLink

\* The next frame is read; it was not the result of the turn that is active now.
LEMMA CodexLinkTail ==
    ASSUME NEW g, NEW n, NEW c, NEW f \in Seq(FrameSet), f # <<>>,
           CodexLink(g, n, f), CodexPipe(c, n, f),
           ~(Head(f).k = "result" /\ Head(f).id[2] = g.s.active)
    PROVE  CodexLink(g, n, Tail(f)) /\ CodexPipe(c, n, Tail(f)) /\ Tail(f) \in Seq(FrameSet)
<1>1. /\ Tail(f) \in Seq(FrameSet) /\ DOMAIN f = 1..Len(f) /\ Head(f) = f[1] /\ Len(f) \in Nat
      /\ DOMAIN Tail(f) = 1..Len(f) - 1
      /\ \A i \in DOMAIN Tail(f) : i + 1 \in DOMAIN f /\ Tail(f)[i] = f[i + 1]
      /\ \A i \in DOMAIN f : i # 1 => i - 1 \in DOMAIN Tail(f) /\ f[i] = Tail(f)[i - 1]
  BY SeqTail
<1>2. CodexPipe(c, n, Tail(f)) BY <1>1 DEF CodexPipe
<1>3. /\ \A i \in DOMAIN Tail(f) : Speaks(Tail(f)[i]) => Tail(f)[i].id[2] \in Turn /\ Known(g, Tail(f)[i].id[2])
      /\ \A i \in DOMAIN Tail(f) : Tail(f)[i].k = "ask" /\ Tail(f)[i].id[2] # NoTurn =>
            Tail(f)[i].id[2] \in Turn /\ Known(g, Tail(f)[i].id[2])
  BY <1>1 DEF CodexLink
<1> DEFINE a == g.s.active
<1>4. /\ \A i \in Results(Tail(f), a) : i \in Nat /\ i + 1 \in Results(f, a)
      /\ \A i \in Results(f, a) : i \in Nat /\ i - 1 \in Results(Tail(f), a)
  <2>1. \A i \in Results(Tail(f), a) : i \in Nat /\ i + 1 \in Results(f, a) BY <1>1 DEF Results
  <2>2. \A i \in Results(f, a) : i # 1 BY <1>1 DEF Results
  <2> QED BY <2>1, <2>2, <1>1 DEF Results
<1>5. a \in g.c.ended => Results(Tail(f), a) # {} BY <1>4 DEF CodexLink
<1>6. ASSUME NEW i \in Results(Tail(f), a), \A j \in Results(Tail(f), a) : ~(j < i)
      PROVE  Tail(f)[i].out = n[a]
  <2>1. i \in Nat /\ i + 1 \in Results(f, a) /\ Tail(f)[i] = f[i + 1] BY <1>1, <1>4 DEF Results
  <2>2. ASSUME NEW j \in Results(f, a), j < i + 1 PROVE FALSE
    <3>1. j \in Nat /\ j - 1 \in Results(Tail(f), a) BY <1>4
    <3>2. j - 1 < i BY <2>1, <2>2, <3>1
    <3> QED BY <1>6, <3>1, <3>2
  <2> QED BY <2>1, <2>2 DEF CodexLink
<1> QED BY <1>1, <1>2, <1>3, <1>5, <1>6 DEF CodexLink

\* The frames stay true as long as the CLI has ended what it had ended.
LEMMA CodexPipeSame ==
    ASSUME NEW c, NEW d, NEW n, NEW f, CodexPipe(c, n, f), d.ended = c.ended PROVE CodexPipe(d, n, f)
BY DEF CodexPipe

\* The work of the CLI is not changed by what it is asked.
LEMMA CodexWorkSame ==
    ASSUME NEW c, NEW d, NEW n, WorkOK(c, n), d.work = c.work PROVE WorkOK(d, n)
BY DEF WorkOK

\* What a step has to show for the invariant to hold after it.
LEMMA CodexSettles ==
    ASSUME NEW h, Codex!Become(h), CodexGood(h, native'), native' \in [Turn -> NativeSet],
           pipe' \in Seq(FrameSet), h.s.teardown = "closing" => client' # "running",
           client' = "running" => ~broken' /\ WorkOK(h.c, native') /\ CodexPipe(h.c, native', pipe')
                                  /\ CodexLink(h, native', pipe'),
           h.s.at \in {"none", "ready"} /\ ~h.s.runtime => child' # "alive" \/ ladder' = "gaveUp"
    PROVE  CodexInv'
<1>1. /\ Codex!g0' = h /\ session' = h.s /\ cli' = h.c BY CodexBecome DEF CodexGood
<1>2. CodexGood(Codex!g0, native)' BY <1>1
<1>3. ASSUME client' = "running" PROVE CodexCalm'
  <2>1. (~broken /\ WorkOK(cli, native) /\ CodexPipe(cli, native, pipe) /\ CodexLink(Codex!g0, native, pipe))'
    BY <1>1, <1>3
  <2> QED BY <2>1 DEF CodexCalm
<1>4. CodexLeashed(session)' BY <1>1 DEF CodexLeashed
<1> QED BY <1>1, <1>2, <1>3, <1>4 DEF CodexInv

\* A step that a callback makes
LEMMA CodexSettlesOn ==
    ASSUME CodexInv, NEW h, Codex!Become(h), CodexGood(h, native), native' = native,
           CodexStays(Codex!g0, h),
           h.s.teardown = "closing" => client' # "running",
           \/ pipe' = pipe
           \/ /\ pipe # <<>> /\ pipe' = Tail(pipe)
              /\ client = "running" => ~(Head(pipe).k = "result" /\ Head(pipe).id[2] = h.s.active),
           client' = "running" => client = "running" /\ broken' = broken,
           h.s.at \in {"none", "ready"} /\ ~h.s.runtime => child' # "alive" \/ ladder' = "gaveUp"
    PROVE  CodexInv'
<1>1. pipe' \in Seq(FrameSet)
  <2>1. pipe \in Seq(FrameSet) BY DEF CodexInv
  <2>2. pipe # <<>> => Tail(pipe) \in Seq(FrameSet) BY <2>1, SeqTail
  <2> QED BY <2>1, <2>2
<1>2. ASSUME client' = "running"
      PROVE  ~broken' /\ WorkOK(h.c, native') /\ CodexPipe(h.c, native', pipe') /\ CodexLink(h, native', pipe')
  <2>1. /\ ~broken' /\ WorkOK(cli, native) /\ CodexPipe(cli, native, pipe) /\ CodexLink(Codex!g0, native, pipe)
        /\ CodexGood(Codex!g0, native) /\ pipe \in Seq(FrameSet)
    BY <1>2 DEF CodexInv, CodexCalm
  <2>2. h.c.work = cli.work /\ h.c.ended = cli.ended BY CodexNow DEF CodexStays
  <2>3. WorkOK(h.c, native) BY <2>1, <2>2, CodexWorkSame
  <2>4. CodexPipe(h.c, native, pipe) BY <2>1, <2>2, CodexPipeSame
  <2>5. CodexLink(h, native, pipe) BY <2>1, CodexLinkStays
  <2>6. CodexPipe(h.c, native, pipe') /\ CodexLink(h, native, pipe')
    <3>1. CASE pipe' = pipe BY <3>1, <2>4, <2>5
    <3>2. CASE pipe # <<>> /\ pipe' = Tail(pipe)
              /\ (client = "running" => ~(Head(pipe).k = "result" /\ Head(pipe).id[2] = h.s.active))
      BY <1>2, <3>2, <2>1, <2>4, <2>5, CodexLinkTail
    <3> QED BY <3>1, <3>2
  <2> QED BY <2>1, <2>3, <2>6
<1>3. native' \in [Turn -> NativeSet] /\ CodexGood(h, native') BY DEF CodexInv
<1> QED BY <1>1, <1>2, <1>3, CodexSettles

\* A step of a callback that leaves the runtime where it was
LEMMA CodexSettlesMoves ==
    ASSUME CodexInv, NEW h, Codex!Become(h), CodexGood(h, native), native' = native,
           CodexMoves(Codex!g0, h),
           \/ pipe' = pipe
           \/ /\ pipe # <<>> /\ pipe' = Tail(pipe)
              /\ client = "running" => ~(Head(pipe).k = "result" /\ Head(pipe).id[2] = h.s.active),
           client' = "running" => client = "running" /\ broken' = broken,
           child' = child \/ child' # "alive", ladder = "gaveUp" => ladder' = "gaveUp"
    PROVE  CodexInv'
<1>1. h.s.teardown = "closing" => client' # "running" BY CodexNow DEF CodexMoves, CodexInv
<1>2. h.s.at \in {"none", "ready"} /\ ~h.s.runtime => child' # "alive" \/ ladder' = "gaveUp"
  BY CodexNow DEF CodexMoves, CodexInv, CodexLeashed
<1>3. CodexStays(Codex!g0, h) BY DEF CodexMoves
<1> QED BY <1>1, <1>2, <1>3, CodexSettlesOn

\* Nothing of the adapter changes.
LEMMA CodexSettlesStill ==
    ASSUME CodexInv, Codex!Become(Codex!g0), native' = native,
           \/ pipe' = pipe
           \/ /\ pipe # <<>> /\ pipe' = Tail(pipe)
              /\ client = "running" => ~(Head(pipe).k = "result" /\ Head(pipe).id[2] = session.active),
           client' = "running" => client = "running" /\ broken' = broken,
           child' = child \/ child' # "alive", ladder = "gaveUp" => ladder' = "gaveUp"
    PROVE  CodexInv'
<1>1. CodexGood(Codex!g0, native) /\ CodexMoves(Codex!g0, Codex!g0) BY CodexMovesItself DEF CodexInv
<1> QED BY <1>1, CodexNow, CodexSettlesMoves

\* A Turn is live as long as it is the active one.
LEMMA CodexLive ==
    ASSUME NEW g, NEW n, CodexGood(g, n) PROVE Codex!Live(g) <=> g.s.active # NoTurn
<1>1. g.s.active \in Subject BY DEF CodexGood, CodexState, CodexSession
<1> QED BY <1>1, CodexNames DEF Codex!Live, Codex!Terminal, CodexGood, StreamsOK, Subject

\* EXCEPTs on the state as the records they make.
LEMMA CodexSetsAt ==
    ASSUME NEW k \in CodexState, NEW x
    PROVE  [k EXCEPT !.s.at = x] = [s |-> [k.s EXCEPT !.at = x], t |-> k.t, e |-> k.e, c |-> k.c, p |-> k.p]
BY DEF CodexState

LEMMA CodexSetsP ==
    ASSUME NEW k \in CodexState, NEW x
    PROVE  [k EXCEPT !.p = x] = [s |-> k.s, t |-> k.t, e |-> k.e, c |-> k.c, p |-> x]
BY DEF CodexState

\* What the streams do not see: the session, the requests and what the CLI was asked.
LEMMA CodexElsewhere ==
    ASSUME NEW g, NEW n, CodexGood(g, n), NEW h, NEW ss \in CodexSession, NEW cc \in CliSet,
           NEW pp \in SUBSET CodexRequest, h = [s |-> ss, t |-> g.t, e |-> g.e, c |-> cc, p |-> pp],
           ss.active = g.s.active, ss.retired = g.s.retired, ss.poisoned = g.s.poisoned,
           cc.work = g.c.work, cc.ended = g.c.ended, cc.interrupted = g.c.interrupted
    PROVE  /\ h \in CodexState /\ CodexGood(h, n) /\ CodexStays(g, h)
           /\ h.s = ss /\ h.t = g.t /\ h.e = g.e /\ h.c = cc /\ h.p = pp
<1>1. /\ h \in CodexState /\ h.s = ss /\ h.t = g.t /\ h.e = g.e /\ h.c = cc /\ h.p = pp
  BY DEF CodexGood, CodexState
<1>2. CodexGood(h, n) BY <1>1 DEF CodexGood
<1>3. CodexStays(g, h) BY <1>1 DEF CodexStays, Known
<1> QED BY <1>1, <1>2, <1>3

\* Which requests are pending says nothing of a Turn.
LEMMA CodexWaits ==
    ASSUME NEW g, NEW n, CodexGood(g, n), NEW h, NEW pp \in SUBSET CodexRequest, h = [g EXCEPT !.p = pp]
    PROVE  /\ h \in CodexState /\ CodexGood(h, n) /\ CodexMoves(g, h)
           /\ h.s = g.s /\ h.t = g.t /\ h.e = g.e /\ h.c = g.c /\ h.p = pp
<1>1. g \in CodexState /\ g.s \in CodexSession /\ g.c \in CliSet BY DEF CodexGood, CodexState
<1>2. h = [s |-> g.s, t |-> g.t, e |-> g.e, c |-> g.c, p |-> pp] BY <1>1, CodexSetsP
<1>3. /\ h \in CodexState /\ CodexGood(h, n) /\ CodexStays(g, h)
      /\ h.s = g.s /\ h.t = g.t /\ h.e = g.e /\ h.c = g.c /\ h.p = pp
  BY <1>1, <1>2, CodexElsewhere
<1> QED BY <1>3 DEF CodexMoves

\* The continuations of the rejected requests
LEMMA CodexRejected ==
    ASSUME NEW g, NEW n, CodexGood(g, n), g.c.work = cli.work, NEW l, l = Codex!Rejected(g)
    PROVE  CodexGood(l, n) /\ CodexMoves(g, l)
<1>g. /\ g \in CodexState /\ g.s \in CodexSession /\ g.c \in CliSet /\ g.p \in SUBSET CodexRequest
      /\ g.s.active \in Subject
  BY DEF CodexGood, CodexState, CodexSession
<1> DEFINE h == IF g.s.at \in Codex!Launching THEN [g EXCEPT !.s.at = "failing"] ELSE g
<1>1. l = IF \E r \in g.p : r[2] # NoTurn /\ r[2] = g.s.active THEN Codex!FailTurn(h, g.s.active) ELSE h
  BY CodexNames DEF Codex!Rejected
<1>2. CodexGood(h, n) /\ CodexMoves(g, h) /\ h.c.work = cli.work
  <2>1. CASE g.s.at \in Codex!Launching
    <3> DEFINE ss == [g.s EXCEPT !.at = "failing"]
    <3>1. h = [s |-> ss, t |-> g.t, e |-> g.e, c |-> g.c, p |-> g.p] BY <1>g, <2>1, CodexSetsAt
    <3>2. /\ ss \in CodexSession /\ ss.active = g.s.active /\ ss.retired = g.s.retired
          /\ ss.poisoned = g.s.poisoned /\ ss.runtime = g.s.runtime /\ ss.teardown = g.s.teardown
          /\ ss.at = "failing"
      BY <1>g DEF CodexSession
    <3> HIDE DEF ss, h
    <3>3. CodexGood(h, n) /\ CodexStays(g, h) /\ h.s = ss /\ h.c = g.c
      BY <1>g, <3>1, <3>2, CodexElsewhere
    <3> QED BY <3>2, <3>3 DEF CodexMoves
  <2>2. CASE g.s.at \notin Codex!Launching BY <2>2, CodexMovesItself
  <2> QED BY <2>1, <2>2
<1> HIDE DEF h
<1>3. CASE \E r \in g.p : r[2] # NoTurn /\ r[2] = g.s.active
  <2>1. g.s.active \in Turn /\ l = Codex!FailTurn(h, g.s.active) BY <1>1, <1>3, <1>g DEF Subject
  <2>2. CodexGood(l, n) /\ CodexMoves(h, l) BY <1>2, <2>1, CodexFailTurn
  <2> QED BY <1>2, <1>g, <2>2, CodexMovesOn
<1>4. CASE ~\E r \in g.p : r[2] # NoTurn /\ r[2] = g.s.active BY <1>1, <1>2, <1>4
<1> QED BY <1>3, <1>4

\* #failRuntime
LEMMA CodexFailRuntime ==
    ASSUME NEW g, NEW n, CodexGood(g, n), g.c.work = cli.work, NEW l, l = Codex!FailRuntime(g)
    PROVE  CodexGood(l, n) /\ CodexMoves(g, l) /\ l.c.work = cli.work
<1>1. g.s.active \in Subject BY DEF CodexGood, CodexState, CodexSession
<1>2. CASE g.s.active # NoTurn
  <2>1. g.s.active \in Turn /\ l = Codex!FailTurn(g, g.s.active)
    BY <1>1, <1>2, CodexLive DEF Codex!FailRuntime, Subject
  <2>2. CodexGood(l, n) /\ CodexMoves(g, l) BY <2>1, CodexFailTurn
  <2> QED BY <2>2 DEF CodexMoves, CodexStays
<1>3. CASE g.s.active = NoTurn
  <2>1. l = Codex!ScheduleTeardown(g) BY <1>3, CodexLive DEF Codex!FailRuntime
  <2>2. CodexGood(l, n) /\ CodexMoves(g, l) BY <1>3, <2>1, CodexTeardown
  <2> QED BY <2>2 DEF CodexMoves, CodexStays
<1> QED BY <1>2, <1>3

\* What a lost client leaves: the requests are rejected, and nothing waits.
LEMMA CodexRejects ==
    ASSUME NEW g, NEW n, CodexGood(g, n), g.c.work = cli.work, NEW l,
           l = [Codex!Rejected(g) EXCEPT !.p = {}]
    PROVE  CodexGood(l, n) /\ CodexMoves(g, l)
<1> DEFINE k == Codex!Rejected(g)
<1>1. CodexGood(k, n) /\ CodexMoves(g, k) BY CodexRejected
<1>2. {} \in SUBSET CodexRequest OBVIOUS
<1> HIDE DEF k
<1>3. l = [k EXCEPT !.p = {}] BY DEF k
<1>4. CodexGood(l, n) /\ CodexMoves(k, l) BY <1>1, <1>2, <1>3, CodexWaits
<1>5. g \in CodexState BY DEF CodexGood
<1> QED BY <1>1, <1>4, <1>5, CodexMovesOn

\* Once it is read, the first frame is not about the Turn that is active.
LEMMA CodexHead ==
    ASSUME CodexInv, NEW h, CodexStays(Codex!g0, h), pipe # <<>>,
           client = "running" => Head(pipe).k # "result" \/ Head(pipe).id[2] # session.active \/ h.s.active = NoTurn
    PROVE  client = "running" => ~(Head(pipe).k = "result" /\ Head(pipe).id[2] = h.s.active)
<1>1. h.s.active \in {session.active, NoTurn} BY CodexNow DEF CodexStays
<1> SUFFICES ASSUME client = "running", Head(pipe).k = "result", Head(pipe).id[2] = h.s.active PROVE FALSE
  OBVIOUS
<1>2. CodexPipe(cli, native, pipe) /\ cli \in CliSet /\ pipe \in Seq(FrameSet)
  BY CodexNow DEF CodexInv, CodexCalm, CodexGood, CodexState
<1>3. Head(pipe).id[2] \in Turn
  <2>1. 1 \in DOMAIN pipe /\ Head(pipe) = pipe[1] BY <1>2, SeqTail
  <2> QED BY <1>2, <2>1 DEF CodexPipe, CliSet
<1>4. NoTurn \notin Turn BY DEF Turn, NoTurn
<1> QED BY <1>1, <1>3, <1>4

\* A CLI that was just started has nothing to do and nothing behind it.
LEMMA CodexIdle == Codex!Idle \in CliSet /\ Codex!Idle.work = <<>> /\ Codex!Idle.interrupted = FALSE /\ Codex!Idle.ended = {}
BY DEF Codex!Idle, CliSet

\* A request to the CLI is remembered and starts no work.
LEMMA CodexAsked ==
    ASSUME NEW c \in CliSet, NEW r \in Request
    PROVE  /\ Codex!Asked(c, r) \in CliSet /\ Codex!Asked(c, r).work = c.work
           /\ Codex!Asked(c, r).interrupted = c.interrupted /\ Codex!Asked(c, r).ended = c.ended
BY DEF Codex!Asked, CliSet

\* The invariant holds before anything is launched.
LEMMA CodexInit == ASSUME BoundAssumption, Codex!Init PROVE CodexInv
<1>1. /\ session = Codex!NoSession /\ turn = [t \in Turn |-> Codex!FreshTurn]
      /\ stream = [t \in Turn |-> NoStream] /\ cli = Codex!Idle
      /\ native = [t \in Turn |-> "none"] /\ pipe = <<>> /\ client = "closed" /\ pending = {}
      /\ child = "none"
  BY CodexNames DEF Codex!Init, Codex!ProcessInit, Codex!RpcInit
<1>2. NoStream \in StreamSet BY DEF NoStream, StreamSet, EndSet
<1>3. /\ Codex!NoSession \in CodexSession /\ Codex!NoSession.active = NoTurn /\ Codex!NoSession.retired = {}
      /\ Codex!NoSession.teardown = "none"
  BY CodexNames DEF Codex!NoSession, CodexSession, Subject
<1>4. Codex!FreshTurn \in CodexTurn /\ Codex!FreshTurn.id = NoTurn
  BY CodexNames DEF Codex!FreshTurn, CodexTurn, Subject
<1>5. Codex!Idle \in CliSet BY CodexIdle
<1>6. Codex!g0 \in CodexState BY <1>1, <1>2, <1>3, <1>4, <1>5 DEF Codex!g0, CodexState
<1>7. StreamsOK(stream, native, turn, session.active)
  <2>1. \A u \in Turn : ~stream[u].open /\ stream[u].ends = <<>> /\ stream[u].text = {}
                        /\ stream[u] = NoStream /\ native[u] = "none"
    BY <1>1 DEF NoStream
  <2> QED BY <2>1, <1>1, <1>3 DEF StreamsOK
<1>8. CodexGood(Codex!g0, native) BY <1>1, <1>3, <1>4, <1>6, <1>7, CodexNow DEF CodexGood
<1>9. native \in [Turn -> NativeSet] BY <1>1 DEF NativeSet
<1>10. session.teardown # "closing" /\ client # "running" /\ pipe \in Seq(FrameSet) BY <1>1, <1>3
<1>11. CodexLeashed(session) BY <1>1 DEF CodexLeashed
<1> QED BY <1>8, <1>9, <1>10, <1>11 DEF CodexInv

\* EXCEPTs on the state as the records they make.
LEMMA CodexSetsAll ==
    ASSUME NEW k \in CodexState, NEW x, NEW y, NEW z
    PROVE  [k EXCEPT !.s = x, !.p = y, !.c = z] = [s |-> x, t |-> k.t, e |-> k.e, c |-> z, p |-> y]
<1>1. \A r : [r EXCEPT !.s = x, !.p = y, !.c = z] = [[[r EXCEPT !.s = x] EXCEPT !.p = y] EXCEPT !.c = z]
  OBVIOUS
<1>2. [k EXCEPT !.s = x] = [s |-> x, t |-> k.t, e |-> k.e, c |-> k.c, p |-> k.p] BY DEF CodexState
<1>3. [[s |-> x, t |-> k.t, e |-> k.e, c |-> k.c, p |-> k.p] EXCEPT !.p = y]
      = [s |-> x, t |-> k.t, e |-> k.e, c |-> k.c, p |-> y]
  OBVIOUS
<1>4. [[s |-> x, t |-> k.t, e |-> k.e, c |-> k.c, p |-> y] EXCEPT !.c = z]
      = [s |-> x, t |-> k.t, e |-> k.e, c |-> z, p |-> y]
  OBVIOUS
<1>5. [k EXCEPT !.s = x, !.p = y, !.c = z] = [[[k EXCEPT !.s = x] EXCEPT !.p = y] EXCEPT !.c = z] BY <1>1
<1> QED BY <1>2, <1>3, <1>4, <1>5

LEMMA CodexSetsAtP ==
    ASSUME NEW k \in CodexState, NEW x, NEW y
    PROVE  [k EXCEPT !.s.at = x, !.p = y]
           = [s |-> [k.s EXCEPT !.at = x], t |-> k.t, e |-> k.e, c |-> k.c, p |-> y]
<1>1. \A r : [r EXCEPT !.s.at = x, !.p = y] = [[r EXCEPT !.s.at = x] EXCEPT !.p = y] OBVIOUS
<1>2. [k EXCEPT !.s.at = x] = [s |-> [k.s EXCEPT !.at = x], t |-> k.t, e |-> k.e, c |-> k.c, p |-> k.p]
  BY CodexSetsAt
<1>3. [[s |-> [k.s EXCEPT !.at = x], t |-> k.t, e |-> k.e, c |-> k.c, p |-> k.p] EXCEPT !.p = y]
      = [s |-> [k.s EXCEPT !.at = x], t |-> k.t, e |-> k.e, c |-> k.c, p |-> y]
  OBVIOUS
<1>4. [k EXCEPT !.s.at = x, !.p = y] = [[k EXCEPT !.s.at = x] EXCEPT !.p = y] BY <1>1
<1> QED BY <1>2, <1>3, <1>4

LEMMA CodexSetsReady ==
    ASSUME NEW k \in CodexState, NEW x, NEW y
    PROVE  [k EXCEPT !.s.at = x, !.s.runtime = y]
           = [s |-> [[k.s EXCEPT !.at = x] EXCEPT !.runtime = y], t |-> k.t, e |-> k.e, c |-> k.c, p |-> k.p]
<1>1. \A r : [r EXCEPT !.s.at = x, !.s.runtime = y] = [[r EXCEPT !.s.at = x] EXCEPT !.s.runtime = y] OBVIOUS
<1>2. [k EXCEPT !.s.at = x] = [s |-> [k.s EXCEPT !.at = x], t |-> k.t, e |-> k.e, c |-> k.c, p |-> k.p]
  BY CodexSetsAt
<1>3. [[s |-> [k.s EXCEPT !.at = x], t |-> k.t, e |-> k.e, c |-> k.c, p |-> k.p] EXCEPT !.s.runtime = y]
      = [s |-> [[k.s EXCEPT !.at = x] EXCEPT !.runtime = y], t |-> k.t, e |-> k.e, c |-> k.c, p |-> k.p]
  OBVIOUS
<1>4. [k EXCEPT !.s.at = x, !.s.runtime = y] = [[k EXCEPT !.s.at = x] EXCEPT !.s.runtime = y] BY <1>1
<1> QED BY <1>2, <1>3, <1>4

\* #launch starts a CLI only when no other is left.
LEMMA CodexLaunch == ASSUME CodexInv, Codex!Launch PROVE CodexInv'
<1>g. /\ Codex!g0 \in CodexState /\ StreamsOK(stream, native, turn, session.active)
      /\ native \in [Turn -> NativeSet] /\ \A u \in Turn : turn[u].id \in {NoTurn, u}
  BY CodexNow DEF CodexInv, CodexGood
<1> DEFINE ss == [Codex!NoSession EXCEPT !.at = "initialize"]
           cc == Codex!Asked(Codex!Idle, <<"initialize", NoTurn>>)
           pp == {<<"initialize", NoTurn>>}
           h == [s |-> ss, t |-> turn, e |-> stream, c |-> cc, p |-> pp]
<1>1. /\ Codex!Become(h) /\ native' = native /\ pipe' = <<>> /\ broken' = FALSE
  <2>1. Codex!Become([Codex!g0 EXCEPT !.s = ss, !.p = pp, !.c = cc]) BY CodexNames DEF Codex!Launch
  <2>2. [Codex!g0 EXCEPT !.s = ss, !.p = pp, !.c = cc] = h
    <3> HIDE DEF ss, cc, pp
    <3>1. [Codex!g0 EXCEPT !.s = ss, !.p = pp, !.c = cc]
          = [s |-> ss, t |-> Codex!g0.t, e |-> Codex!g0.e, c |-> cc, p |-> pp]
      BY <1>g, CodexSetsAll
    <3> QED BY <3>1, CodexNow
  <2>3. native' = native /\ pipe' = <<>> /\ broken' = FALSE
    BY DEF Codex!Launch, Codex!NewClient, Codex!SpawnChild
  <2> QED BY <2>1, <2>2, <2>3
<1>2. /\ ss \in CodexSession /\ ss.active = NoTurn /\ ss.runtime = FALSE /\ ss.at = "initialize"
      /\ ~ss.poisoned /\ ss.retired = {} /\ ss.teardown = "none"
  BY CodexNames DEF Codex!NoSession, CodexSession, Subject
<1>3. <<"initialize", NoTurn>> \in Request /\ pp \in SUBSET CodexRequest
  BY DEF Request, Subject, CodexRequest
<1>4. cc \in CliSet /\ cc.work = <<>> /\ cc.interrupted = FALSE /\ cc.ended = {}
  BY <1>3, CodexAsked, CodexIdle
<1> HIDE DEF ss, cc, pp
<1>5. h \in CodexState BY <1>2, <1>3, <1>4, <1>g, CodexNow DEF CodexState
<1>6. StreamsOK(stream, native, turn, NoTurn) BY <1>g DEF StreamsOK
<1>7. CodexGood(h, native) BY <1>2, <1>5, <1>6, <1>g DEF CodexGood
<1>8. WorkOK(cc, native) BY <1>4 DEF WorkOK
<1>9. <<>> \in Seq(FrameSet) /\ DOMAIN <<>> = {} OBVIOUS
<1>10. CodexPipe(cc, native, <<>>) BY <1>4 DEF CodexPipe
<1>11. CodexLink(h, native, <<>>) BY <1>2, <1>4 DEF CodexLink, Results, Interruption
<1>12. CodexGood(h, native') /\ native' \in [Turn -> NativeSet] /\ pipe' \in Seq(FrameSet)
  BY <1>1, <1>7, <1>9, <1>g
<1>13. ~broken' /\ WorkOK(h.c, native') /\ CodexPipe(h.c, native', pipe') /\ CodexLink(h, native', pipe')
  BY <1>1, <1>8, <1>10, <1>11
<1> QED BY <1>1, <1>2, <1>12, <1>13, CodexSettles

\* A client that closes forgets its requests.
LEMMA CodexCleared ==
    ASSUME CodexInv, NEW g, g = [Codex!g0 EXCEPT !.p = {}]
    PROVE  /\ g \in CodexState /\ CodexGood(g, native) /\ CodexMoves(Codex!g0, g)
           /\ g.s = session /\ g.t = turn /\ g.e = stream /\ g.c = cli /\ g.p = {}
<1>1. PICK pp \in SUBSET CodexRequest : pp = {} OBVIOUS
<1>2. PICK k : k = Codex!g0 OBVIOUS
<1>3. g = [k EXCEPT !.p = pp] BY <1>1, <1>2
<1>4. CodexGood(k, native) BY <1>2 DEF CodexInv
<1>5. /\ g \in CodexState /\ CodexGood(g, native) /\ CodexMoves(k, g)
      /\ g.s = k.s /\ g.t = k.t /\ g.e = k.e /\ g.c = k.c /\ g.p = pp
  <2>1. pp \in SUBSET CodexRequest BY <1>1
  <2> QED BY ONLY <2>1, <1>3, <1>4, CodexWaits
<1> QED BY <1>1, <1>2, <1>5, CodexNow

\* The handshake goes on, or fails, as its requests are answered.
LEMMA CodexLaunchContinues ==
    ASSUME CodexInv, client = "running", NEW ok \in BOOLEAN, session.at \in Codex!Launching,
           Codex!LaunchContinues(ok), pipe # <<>>, pipe' = Tail(pipe), Head(pipe).k = "answer",
           UNCHANGED <<native, child, ladder, client, broken>>
    PROVE  CodexInv'
<1>g. /\ Codex!g0 \in CodexState /\ CodexGood(Codex!g0, native) /\ session \in CodexSession /\ cli \in CliSet
  BY CodexNow DEF CodexInv, CodexGood, CodexState
<1>d. PICK g : g = [Codex!g0 EXCEPT !.p = {}] OBVIOUS
<1>0. /\ g \in CodexState /\ CodexGood(g, native) /\ CodexMoves(Codex!g0, g)
      /\ g.s = session /\ g.t = turn /\ g.e = stream /\ g.c = cli /\ g.p = {}
  BY <1>d, CodexCleared
<1>1. PICK next \in {"requirements", "open", "ready"} :
        Codex!Become(CASE ~ok \/ (next = "ready" /\ session.poisoned) -> [g EXCEPT !.s.at = "failing"]
                       [] ok /\ next = "ready" /\ ~session.poisoned ->
                            [g EXCEPT !.s.at = "ready", !.s.runtime = TRUE]
                       [] OTHER -> [g EXCEPT !.s.at = next, !.p = {<<next, NoTurn>>},
                                             !.c = Codex!Asked(@, <<next, NoTurn>>)])
  <2>1. session.at \in {"initialize", "requirements", "open"} BY DEF Codex!Launching
  <2> DEFINE nx == CASE session.at = "initialize" -> "requirements"
                     [] session.at = "requirements" -> "open"
                     [] session.at = "open" -> "ready"
  <2>2. nx \in {"requirements", "open", "ready"} BY <2>1
  <2>3. Codex!Become(CASE ~ok \/ (nx = "ready" /\ session.poisoned) -> [g EXCEPT !.s.at = "failing"]
                       [] ok /\ nx = "ready" /\ ~session.poisoned ->
                            [g EXCEPT !.s.at = "ready", !.s.runtime = TRUE]
                       [] OTHER -> [g EXCEPT !.s.at = nx, !.p = {<<nx, NoTurn>>},
                                             !.c = Codex!Asked(@, <<nx, NoTurn>>)])
    BY <1>d, CodexNames DEF Codex!LaunchContinues
  <2> HIDE DEF nx
  <2> QED BY <2>2, <2>3
<1>2. CASE ~ok \/ (next = "ready" /\ session.poisoned)
  <2> DEFINE ss == [session EXCEPT !.at = "failing"]
             h == [g EXCEPT !.s.at = "failing"]
  <2>1. Codex!Become(h) BY <1>1, <1>2
  <2>2. h = [s |-> ss, t |-> g.t, e |-> g.e, c |-> g.c, p |-> g.p] BY <1>0, CodexSetsAt
  <2>3. /\ ss \in CodexSession /\ ss.active = session.active /\ ss.retired = session.retired
        /\ ss.poisoned = session.poisoned /\ ss.runtime = session.runtime /\ ss.teardown = session.teardown
        /\ ss.at = "failing"
    BY <1>g DEF CodexSession
  <2> HIDE DEF ss, h
  <2>4. g.p \in SUBSET CodexRequest BY <1>0 DEF CodexState
  <2>5. CodexGood(h, native) /\ CodexStays(g, h) /\ h.s = ss BY <1>0, <1>g, <2>2, <2>3, <2>4, CodexElsewhere
  <2>6. CodexMoves(g, h) BY <1>0, <2>3, <2>5 DEF CodexMoves
  <2>7. CodexMoves(Codex!g0, h) BY <1>0, <1>g, <2>6, CodexMovesOn
  <2> QED BY <2>1, <2>5, <2>7, CodexSettlesMoves
<1>3. CASE ok /\ next = "ready" /\ ~session.poisoned
  <2> DEFINE s1 == [session EXCEPT !.at = "ready"]
             ss == [s1 EXCEPT !.runtime = TRUE]
             h == [s |-> ss, t |-> g.t, e |-> g.e, c |-> g.c, p |-> g.p]
  <2>1. Codex!Become([g EXCEPT !.s.at = "ready", !.s.runtime = TRUE]) BY <1>1, <1>3
  <2>2. [g EXCEPT !.s.at = "ready", !.s.runtime = TRUE] = h
    <3>1. \A x, y : [g EXCEPT !.s.at = x, !.s.runtime = y]
                    = [s |-> [[session EXCEPT !.at = x] EXCEPT !.runtime = y], t |-> g.t, e |-> g.e, c |-> g.c, p |-> g.p]
      BY <1>0, CodexSetsReady
    <3> QED BY <3>1
  <2>3. /\ s1 \in CodexSession /\ s1.active = session.active /\ s1.retired = session.retired
        /\ s1.poisoned = session.poisoned /\ s1.teardown = session.teardown
    BY <1>g DEF CodexSession
  <2> HIDE DEF s1
  <2>4. /\ ss \in CodexSession /\ ss.active = s1.active /\ ss.retired = s1.retired
        /\ ss.poisoned = s1.poisoned /\ ss.teardown = s1.teardown /\ ss.runtime = TRUE
    BY <2>3 DEF CodexSession
  <2> HIDE DEF ss
  <2>5. g.p \in SUBSET CodexRequest /\ g.c \in CliSet BY <1>0 DEF CodexState
  <2>6. CodexGood(h, native) /\ CodexStays(g, h) /\ h.s = ss
    <3> HIDE DEF h
    <3>1. h = [s |-> ss, t |-> g.t, e |-> g.e, c |-> g.c, p |-> g.p] BY DEF h
    <3> QED BY <1>0, <2>3, <2>4, <2>5, <3>1, CodexElsewhere
  <2> HIDE DEF h
  <2>7. CodexStays(Codex!g0, h) BY <1>0, <2>6, CodexNow DEF CodexMoves, CodexStays, Known, Interruption
  <2>8. h.s.teardown = "closing" => client' # "running" BY <2>3, <2>4, <2>6 DEF CodexInv
  <2>9. Codex!Become(h) BY <2>1, <2>2
  <2> QED BY <2>4, <2>6, <2>7, <2>8, <2>9, CodexSettlesOn
<1>4. CASE ok /\ next \in {"requirements", "open"}
  <2> DEFINE ss == [session EXCEPT !.at = next]
             pp == {<<next, NoTurn>>}
             cc == Codex!Asked(cli, <<next, NoTurn>>)
             h == [s |-> ss, t |-> g.t, e |-> g.e, c |-> cc, p |-> pp]
  <2>0. next # "ready" BY <1>4
  <2>1. Codex!Become([g EXCEPT !.s.at = next, !.p = pp, !.c = Codex!Asked(@, <<next, NoTurn>>)])
    BY <1>1, <1>4, <2>0
  <2>2. [g EXCEPT !.s.at = next, !.p = pp, !.c = Codex!Asked(@, <<next, NoTurn>>)] = h
    <3> HIDE DEF pp
    <3>0. PICK q : q = <<next, NoTurn>> OBVIOUS
    <3>1. [g EXCEPT !.s.at = next, !.p = pp, !.c = Codex!Asked(@, q)]
          = [[g EXCEPT !.s.at = next, !.p = pp] EXCEPT !.c = Codex!Asked(@, q)]
      <4>1. \A r : [r EXCEPT !.s.at = next, !.p = pp, !.c = Codex!Asked(@, q)]
                    = [[r EXCEPT !.s.at = next, !.p = pp] EXCEPT !.c = Codex!Asked(@, q)]
        OBVIOUS
      <4> QED BY <4>1
    <3>2. [g EXCEPT !.s.at = next, !.p = pp]
          = [s |-> [g.s EXCEPT !.at = next], t |-> g.t, e |-> g.e, c |-> g.c, p |-> pp]
      BY ONLY <1>0, CodexSetsAtP
    <3>3. [[s |-> [g.s EXCEPT !.at = next], t |-> g.t, e |-> g.e, c |-> g.c, p |-> pp] EXCEPT !.c = Codex!Asked(@, q)]
          = [s |-> [g.s EXCEPT !.at = next], t |-> g.t, e |-> g.e, c |-> Codex!Asked(g.c, q), p |-> pp]
      OBVIOUS
    <3>4. [g EXCEPT !.s.at = next, !.p = pp, !.c = Codex!Asked(@, q)]
          = [s |-> [g.s EXCEPT !.at = next], t |-> g.t, e |-> g.e, c |-> Codex!Asked(g.c, q), p |-> pp]
      BY <3>1, <3>2, <3>3
    <3> QED BY <3>0, <3>4, <1>0
  <2>3. /\ ss \in CodexSession /\ ss.active = session.active /\ ss.retired = session.retired
        /\ ss.poisoned = session.poisoned /\ ss.teardown = session.teardown /\ ss.at = next
    BY <1>g DEF CodexSession
  <2>4. pp \in SUBSET CodexRequest /\ <<next, NoTurn>> \in Request BY <1>4 DEF CodexRequest, Request, Subject
  <2>5. cc \in CliSet /\ cc.work = cli.work /\ cc.ended = cli.ended /\ cc.interrupted = cli.interrupted
    BY <1>g, <2>4, CodexAsked
  <2> HIDE DEF ss, cc, pp
  <2>6. CodexGood(h, native) /\ CodexStays(g, h) /\ h.s = ss
    <3> HIDE DEF h
    <3>1. h = [s |-> ss, t |-> g.t, e |-> g.e, c |-> cc, p |-> pp] BY DEF h
    <3> QED BY <1>0, <2>3, <2>4, <2>5, <3>1, CodexElsewhere
  <2> HIDE DEF h
  <2>7. CodexStays(Codex!g0, h) BY <1>0, <2>6, CodexNow DEF CodexMoves, CodexStays, Known, Interruption
  <2>8. h.s.teardown = "closing" => client' # "running" BY <2>3, <2>6 DEF CodexInv
  <2>9. Codex!Become(h) BY <2>1, <2>2
  <2>10. h.s.at \notin {"none", "ready"} BY <1>4, <2>3, <2>6
  <2> QED BY <2>6, <2>7, <2>8, <2>9, <2>10, CodexSettlesOn
<1> QED BY <1>2, <1>3, <1>4

\* A request of the handshake that times out fails the launch.
LEMMA CodexLaunchTimesOut == ASSUME CodexInv, Codex!LaunchTimesOut PROVE CodexInv'
<1>g. /\ Codex!g0 \in CodexState /\ CodexGood(Codex!g0, native) /\ session \in CodexSession /\ cli \in CliSet
  BY CodexNow DEF CodexInv, CodexGood, CodexState
<1> DEFINE ss == [session EXCEPT !.at = "failing"]
           h == [s |-> ss, t |-> turn, e |-> stream, c |-> cli, p |-> {}]
<1>1. /\ Codex!Become(h) /\ UNCHANGED <<native, pipe, client, child, ladder, broken>>
  <2>0. [Codex!g0 EXCEPT !.s.at = "failing", !.p = {}]
        = [s |-> [Codex!g0.s EXCEPT !.at = "failing"], t |-> Codex!g0.t, e |-> Codex!g0.e, c |-> Codex!g0.c, p |-> {}]
    BY <1>g, CodexSetsAtP
  <2>1. [Codex!g0 EXCEPT !.s.at = "failing", !.p = {}] = h BY <2>0, CodexNow
  <2> QED BY <2>1 DEF Codex!LaunchTimesOut, Codex!processVars
<1>2. /\ ss \in CodexSession /\ ss.active = session.active /\ ss.retired = session.retired
      /\ ss.poisoned = session.poisoned /\ ss.runtime = session.runtime /\ ss.teardown = session.teardown
      /\ ss.at = "failing"
  BY <1>g DEF CodexSession
<1>3. {} \in SUBSET CodexRequest OBVIOUS
<1> HIDE DEF ss, h
<1>4. CodexGood(h, native) /\ CodexStays(Codex!g0, h) /\ h.s = ss
  <2>1. h = [s |-> ss, t |-> Codex!g0.t, e |-> Codex!g0.e, c |-> cli, p |-> {}] BY CodexNow DEF h
  <2> QED BY <1>2, <1>3, <1>g, <2>1, CodexNow, CodexElsewhere
<1>5. CodexMoves(Codex!g0, h) BY <1>2, <1>4, CodexNow DEF CodexMoves
<1> QED BY <1>1, <1>4, <1>5, CodexSettlesMoves

\* A launch that fails closes its client.
LEMMA CodexLaunchFails == ASSUME CodexInv, Codex!LaunchFails PROVE CodexInv'
<1>g. /\ Codex!g0 \in CodexState /\ CodexGood(Codex!g0, native) /\ session \in CodexSession /\ cli \in CliSet
      /\ pending \in SUBSET CodexRequest
  BY CodexNow DEF CodexInv, CodexGood, CodexState
<1> DEFINE ss == [session EXCEPT !.at = "closing"]
           h == [s |-> ss, t |-> turn, e |-> stream, c |-> cli, p |-> {}]
<1>1. /\ Codex!Become(h) /\ UNCHANGED <<native, pipe>> /\ client' # "running"
  BY DEF Codex!LaunchFails, Codex!CloseClient, Codex!Become
<1>2. /\ ss \in CodexSession /\ ss.active = session.active /\ ss.retired = session.retired
      /\ ss.poisoned = session.poisoned /\ ss.at = "closing"
  BY <1>g DEF CodexSession
<1>3. {} \in SUBSET CodexRequest OBVIOUS
<1> HIDE DEF ss, h
<1>4. CodexGood(h, native) /\ CodexStays(Codex!g0, h) /\ h.s = ss
  <2>1. h = [s |-> ss, t |-> Codex!g0.t, e |-> Codex!g0.e, c |-> cli, p |-> {}] BY CodexNow DEF h
  <2> QED BY <1>2, <1>3, <1>g, <2>1, CodexNow, CodexElsewhere
<1> QED BY <1>1, <1>2, <1>4, CodexSettlesOn

\* A spawn that throws leaves no runtime.
LEMMA CodexLaunchThrows == ASSUME CodexInv, Codex!LaunchThrows PROVE CodexInv'
<1>g. /\ Codex!g0 \in CodexState /\ CodexGood(Codex!g0, native) /\ session \in CodexSession /\ cli \in CliSet
      /\ pending \in SUBSET CodexRequest
  BY CodexNow DEF CodexInv, CodexGood, CodexState
<1> DEFINE ss == [session EXCEPT !.at = "none"]
           h == [s |-> ss, t |-> turn, e |-> stream, c |-> cli, p |-> pending]
<1>1. /\ Codex!Become(h) /\ UNCHANGED <<native, pipe, client, broken, child, ladder>>
      /\ child # "alive" \/ ladder = "gaveUp"
  BY DEF Codex!LaunchThrows, Codex!CloseSettled, Codex!Become, Codex!processVars, Codex!cliVars, Codex!rpcVars
<1>2. /\ ss \in CodexSession /\ ss.active = session.active /\ ss.retired = session.retired
      /\ ss.poisoned = session.poisoned /\ ss.teardown = session.teardown
  BY <1>g DEF CodexSession
<1> HIDE DEF ss, h
<1>4. CodexGood(h, native) /\ CodexStays(Codex!g0, h) /\ h.s = ss
  <2>1. h = [s |-> ss, t |-> Codex!g0.t, e |-> Codex!g0.e, c |-> cli, p |-> pending] BY CodexNow DEF h
  <2> QED BY <1>2, <1>g, <2>1, CodexNow, CodexElsewhere
<1>5. h.s.teardown = "closing" => client' # "running" BY <1>1, <1>2, <1>4 DEF CodexInv
<1> QED BY <1>1, <1>4, <1>5, CodexSettlesOn

\* A turn is told the name the CLI gives it.
LEMMA CodexNamed ==
    ASSUME NEW g, NEW n, CodexGood(g, n), NEW t \in Turn, NEW x, x = t \/ x = g.t[t].id,
           NEW h, h = [g EXCEPT !.t[t].id = x]
    PROVE  /\ CodexGood(h, n) /\ CodexMoves(g, h)
           /\ h.s = g.s /\ h.e = g.e /\ h.c = g.c /\ h.p = g.p /\ h.t[t].id = x
           /\ \A u \in Turn : h.t[u].cancel = g.t[u].cancel
<1>g. /\ g \in CodexState /\ g.t \in [Turn -> CodexTurn] /\ g.t[t].id \in {NoTurn, t}
      /\ \A u \in Turn : g.t[u].id \in {NoTurn, u}
  BY DEF CodexGood, CodexState
<1> DEFINE tt == [g.t EXCEPT ![t].id = x]
<1>1. h = [s |-> g.s, t |-> tt, e |-> g.e, c |-> g.c, p |-> g.p] BY <1>g, CodexSetsId
<1>2. x \in Subject /\ x \in {NoTurn, t} BY <1>g DEF Subject
<1>3. /\ tt \in [Turn -> CodexTurn] /\ tt[t].id = x /\ tt[t].cancel = g.t[t].cancel
      /\ \A u \in Turn \ {t} : tt[u] = g.t[u]
  BY <1>g, <1>2 DEF CodexTurn
<1> HIDE DEF tt
<1>4. h \in CodexState /\ h.s = g.s /\ h.t = tt /\ h.e = g.e /\ h.c = g.c /\ h.p = g.p
  BY <1>1, <1>3, <1>g DEF CodexState
<1>5. \A u \in Turn : tt[u].cancel = g.t[u].cancel /\ tt[u].id \in {NoTurn, u} BY <1>2, <1>3, <1>g
<1>6. CodexGood(h, n) /\ CodexMoves(g, h)
  <2>1. /\ h.s = g.s /\ h.e = g.e /\ h.c.work = g.c.work /\ h.c.ended = g.c.ended
        /\ h.c.interrupted => g.c.interrupted \/ Interruption(h.c, h.e, h.t)
    BY <1>4
  <2>2. \A u \in Turn : (g.t[u].cancel => h.t[u].cancel) /\ h.t[u].id \in {NoTurn, u} BY <1>4, <1>5
  <2> QED BY ONLY CodexGood(g, n), <1>4, <2>1, <2>2, CodexTurnStep
<1> QED BY <1>3, <1>4, <1>5, <1>6

\* A timer of the turn is set or taken off.
LEMMA CodexTimed ==
    ASSUME NEW g, NEW n, CodexGood(g, n), NEW t \in Turn, NEW x \in {"none", "first", "idle", "cancel"},
           NEW h, h = [g EXCEPT !.t[t].timer = x]
    PROVE  /\ CodexGood(h, n) /\ CodexMoves(g, h)
           /\ h.s = g.s /\ h.e = g.e /\ h.c = g.c /\ h.p = g.p
           /\ \A u \in Turn : h.t[u].cancel = g.t[u].cancel /\ h.t[u].id = g.t[u].id
<1>g. g \in CodexState /\ g.t \in [Turn -> CodexTurn] /\ \A u \in Turn : g.t[u].id \in {NoTurn, u}
  BY DEF CodexGood, CodexState
<1> DEFINE tt == [g.t EXCEPT ![t].timer = x]
<1>1. h = [s |-> g.s, t |-> tt, e |-> g.e, c |-> g.c, p |-> g.p] BY <1>g, CodexSetsTimer
<1>3. /\ tt \in [Turn -> CodexTurn] /\ tt[t].id = g.t[t].id /\ tt[t].cancel = g.t[t].cancel
      /\ \A u \in Turn \ {t} : tt[u] = g.t[u]
  BY <1>g DEF CodexTurn
<1> HIDE DEF tt
<1>4. h \in CodexState /\ h.s = g.s /\ h.t = tt /\ h.e = g.e /\ h.c = g.c /\ h.p = g.p
  BY <1>1, <1>3, <1>g DEF CodexState
<1>5. \A u \in Turn : tt[u].cancel = g.t[u].cancel /\ tt[u].id = g.t[u].id BY <1>3
<1>6. CodexGood(h, n) /\ CodexMoves(g, h)
  <2>1. /\ h.s = g.s /\ h.e = g.e /\ h.c.work = g.c.work /\ h.c.ended = g.c.ended
        /\ h.c.interrupted => g.c.interrupted \/ Interruption(h.c, h.e, h.t)
    BY <1>4
  <2>2. \A u \in Turn : (g.t[u].cancel => h.t[u].cancel) /\ h.t[u].id \in {NoTurn, u} BY <1>g, <1>4, <1>5
  <2> QED BY ONLY CodexGood(g, n), <1>4, <2>1, <2>2, CodexTurnStep
<1> QED BY <1>4, <1>5, <1>6

\* That a Turn was seen to work is its own affair.
LEMMA CodexObservedOnce ==
    ASSUME NEW g, NEW n, CodexGood(g, n), NEW t \in Turn, NEW x \in BOOLEAN,
           NEW h, h = [g EXCEPT !.t[t].observed = x]
    PROVE  /\ CodexGood(h, n) /\ CodexMoves(g, h)
           /\ h.s = g.s /\ h.e = g.e /\ h.c = g.c /\ h.p = g.p
           /\ \A u \in Turn : h.t[u].cancel = g.t[u].cancel /\ h.t[u].id = g.t[u].id /\ h.t[u].timer = g.t[u].timer
<1>g. g \in CodexState /\ g.t \in [Turn -> CodexTurn] /\ \A u \in Turn : g.t[u].id \in {NoTurn, u}
  BY DEF CodexGood, CodexState
<1> DEFINE tt == [g.t EXCEPT ![t].observed = x]
<1>1. h = [s |-> g.s, t |-> tt, e |-> g.e, c |-> g.c, p |-> g.p] BY <1>g, CodexSetsObserved
<1>3. /\ tt \in [Turn -> CodexTurn] /\ tt[t].id = g.t[t].id /\ tt[t].cancel = g.t[t].cancel
      /\ tt[t].timer = g.t[t].timer
      /\ \A u \in Turn \ {t} : tt[u] = g.t[u]
  BY <1>g DEF CodexTurn
<1> HIDE DEF tt
<1>4. h \in CodexState /\ h.s = g.s /\ h.t = tt /\ h.e = g.e /\ h.c = g.c /\ h.p = g.p
  BY <1>1, <1>3, <1>g DEF CodexState
<1>5. \A u \in Turn : tt[u].cancel = g.t[u].cancel /\ tt[u].id = g.t[u].id /\ tt[u].timer = g.t[u].timer BY <1>3
<1>6. CodexGood(h, n) /\ CodexMoves(g, h)
  <2>1. /\ h.s = g.s /\ h.e = g.e /\ h.c.work = g.c.work /\ h.c.ended = g.c.ended
        /\ h.c.interrupted => g.c.interrupted \/ Interruption(h.c, h.e, h.t)
    BY <1>4
  <2>2. \A u \in Turn : (g.t[u].cancel => h.t[u].cancel) /\ h.t[u].id \in {NoTurn, u} BY <1>g, <1>4, <1>5
  <2> QED BY ONLY CodexGood(g, n), <1>4, <2>1, <2>2, CodexTurnStep
<1> QED BY <1>4, <1>5, <1>6

\* #observeActivity
LEMMA CodexObserve ==
    ASSUME NEW g, NEW n, CodexGood(g, n), NEW t \in Turn, NEW l, l = Codex!ObserveActivity(g, t)
    PROVE  /\ CodexGood(l, n) /\ CodexMoves(g, l)
           /\ l.s = g.s /\ l.e = g.e /\ l.c = g.c /\ l.p = g.p
           /\ \A u \in Turn : l.t[u].cancel = g.t[u].cancel /\ l.t[u].id = g.t[u].id
<1>g. g \in CodexState /\ g.t \in [Turn -> CodexTurn] BY DEF CodexGood, CodexState
<1> DEFINE tm(y) == CASE y = "cancel" -> y
                      [] y # "cancel" /\ g.t[t].cancel -> "none"
                      [] OTHER -> "idle"
<1>1. l = [g EXCEPT !.t[t].observed = TRUE, !.t[t].timer = tm(@)] BY DEF Codex!ObserveActivity
<1>2. \A r : [r EXCEPT !.t[t].observed = TRUE, !.t[t].timer = tm(@)]
             = [[r EXCEPT !.t[t].observed = TRUE] EXCEPT !.t[t].timer = tm(@)]
  <2> HIDE DEF tm
  <2> QED OBVIOUS
<1>3. PICK x \in BOOLEAN : x = TRUE OBVIOUS
<1>4. PICK k : k = [g EXCEPT !.t[t].observed = TRUE] OBVIOUS
<1>5. k = [g EXCEPT !.t[t].observed = x] BY <1>3, <1>4
<1>6. /\ CodexGood(k, n) /\ CodexMoves(g, k)
      /\ k.s = g.s /\ k.e = g.e /\ k.c = g.c /\ k.p = g.p
      /\ \A u \in Turn : k.t[u].cancel = g.t[u].cancel /\ k.t[u].id = g.t[u].id /\ k.t[u].timer = g.t[u].timer
  <2>1. CodexGood(g, n) /\ x \in BOOLEAN BY <1>3
  <2> QED BY ONLY <2>1, t \in Turn, <1>5, CodexObservedOnce
<1>7. l = [k EXCEPT !.t[t].timer = tm(@)]
  <2> HIDE DEF tm
  <2>1. l = [[g EXCEPT !.t[t].observed = TRUE] EXCEPT !.t[t].timer = tm(@)] BY <1>1, <1>2
  <2> QED BY ONLY <2>1, <1>4
<1>8. PICK y : y = tm(g.t[t].timer) OBVIOUS
<1>9. y \in {"none", "first", "idle", "cancel"} BY <1>8, <1>g DEF CodexTurn
<1>10. l = [k EXCEPT !.t[t].timer = y]
  <2> HIDE DEF tm
  <2>1. k \in CodexState BY <1>6 DEF CodexGood
  <2>2. [k EXCEPT !.t[t].timer = tm(@)] = [k EXCEPT !.t[t].timer = tm(k.t[t].timer)]
    BY <2>1 DEF CodexState
  <2> QED BY <1>6, <1>7, <1>8, <2>2
<1>11. /\ CodexGood(l, n) /\ CodexMoves(k, l)
       /\ l.s = k.s /\ l.e = k.e /\ l.c = k.c /\ l.p = k.p
       /\ \A u \in Turn : l.t[u].cancel = k.t[u].cancel /\ l.t[u].id = k.t[u].id
  BY ONLY <1>6, <1>9, <1>10, t \in Turn, CodexTimed
<1>12. CodexMoves(g, l) BY <1>g, <1>6, <1>11, CodexMovesOn
<1> QED BY <1>6, <1>11, <1>12

\* The name is set unless the turn has one, which is its own.
LEMMA CodexNames2 ==
    ASSUME NEW g, NEW n, CodexGood(g, n), NEW t \in Turn, NEW id, id \in {NoTurn, t},
           NEW x, x = IF g.t[t].id = NoTurn THEN id ELSE g.t[t].id,
           NEW h, h = [g EXCEPT !.t[t].id = x]
    PROVE  /\ CodexGood(h, n) /\ CodexMoves(g, h)
           /\ h.s = g.s /\ h.e = g.e /\ h.c = g.c /\ h.p = g.p
           /\ h.t[t].id = x
           /\ \A u \in Turn : h.t[u].cancel = g.t[u].cancel
<1>1. g.t[t].id \in {NoTurn, t} BY DEF CodexGood
<1>3. x = t \/ x = g.t[t].id BY <1>1
<1>5. /\ CodexGood(h, n) /\ CodexMoves(g, h)
      /\ h.s = g.s /\ h.e = g.e /\ h.c = g.c /\ h.p = g.p /\ h.t[t].id = x
      /\ \A u \in Turn : h.t[u].cancel = g.t[u].cancel
  BY ONLY CodexGood(g, n), t \in Turn, <1>3, h = [g EXCEPT !.t[t].id = x], CodexNamed
<1> QED BY ONLY <1>5

\* A Turn ends with the outcome of its native turn.
LEMMA CodexFinishes ==
    ASSUME NEW g, NEW n, CodexGood(g, n), NEW t \in Turn, NEW o \in Outcome, g.e[t].ends = <<>>,
           n[t] = o, g.t[t].id # NoTurn, NEW l, l = Codex!EmitTerminal(g, t, o)
    PROVE  CodexGood(l, n) /\ CodexMoves(g, l) /\ l.s.active # t
<1>1. o = "cancelled" => g.t[t].cancel BY DEF CodexGood, StreamsOK
<1>2. CodexEmits(g, l, t, o) /\ CodexGood(l, n) BY <1>1, CodexEmit
<1> QED BY <1>2, CodexEmitMoves

\* The answer to turn/start tells the Turn its native turn, and ends the Turn only if
\* that is over.
LEMMA CodexTurnStarted ==
    ASSUME NEW g, NEW n, CodexGood(g, n), g.c.work = cli.work, NEW t \in Turn, NEW status,
           status \in Outcome => n[t] \in {status, "past"}, NEW l, l = Codex!TurnStarted(g, t, status)
    PROVE  CodexGood(l, n) /\ CodexMoves(g, l)
<1>0. g \in CodexState BY DEF CodexGood
<1>1. CASE g.e[t].ends # <<>>
  <2>1. l = g BY <1>1 DEF Codex!TurnStarted, Codex!Terminal
  <2> QED BY <2>1, CodexMovesItself
<1>2. CASE g.e[t].ends = <<>>
  <2>1. PICK h : h = [g EXCEPT !.t[t].id = IF @ = NoTurn THEN t ELSE @] OBVIOUS
  <2>2. l = CASE status = "error" -> Codex!FailTurn(g, t)
              [] status \in Outcome -> Codex!EmitTerminal(h, t, status)
              [] status = "working" /\ h.t[t].cancel -> Codex!Interrupt(h, t)
              [] OTHER -> [h EXCEPT !.t[t].timer = IF h.t[t].observed THEN "idle" ELSE "first"]
    BY <1>2, <2>1, CodexNames DEF Codex!TurnStarted, Codex!Terminal, Codex!FinishFromNativeStatus
  <2>3. /\ CodexGood(h, n) /\ CodexMoves(g, h)
        /\ h.s = g.s /\ h.e = g.e /\ h.c = g.c /\ h.p = g.p /\ h.t[t].id = t
    <3>0. PICK id : id = t OBVIOUS
    <3>1. PICK x : x = IF g.t[t].id = NoTurn THEN id ELSE g.t[t].id OBVIOUS
    <3>2. h = [g EXCEPT !.t[t].id = x]
      <4>1. h = [g EXCEPT !.t[t].id = IF g.t[t].id = NoTurn THEN t ELSE g.t[t].id] BY <1>0, <2>1 DEF CodexState
      <4> QED BY ONLY <4>1, <3>0, <3>1
    <3>3. id \in {NoTurn, t} BY <3>0
    <3>4. /\ CodexGood(h, n) /\ CodexMoves(g, h)
          /\ h.s = g.s /\ h.e = g.e /\ h.c = g.c /\ h.p = g.p
          /\ h.t[t].id = x
      BY ONLY CodexGood(g, n), t \in Turn, <3>1, <3>2, <3>3, CodexNames2
    <3>6. g.t[t].id \in {NoTurn, t} BY DEF CodexGood
    <3>5. x = t BY <3>0, <3>1, <3>6
    <3> QED BY ONLY <3>4, <3>5
  <2>4. "error" \notin Outcome /\ "working" \notin Outcome BY DEF Outcome
  <2>5. CASE status = "error"
    <3>1. l = Codex!FailTurn(g, t) BY <2>2, <2>4, <2>5
    <3> QED BY <3>1, CodexFailTurn
  <2>6. CASE status \in Outcome
    <3>1. l = Codex!EmitTerminal(h, t, status) BY <2>2, <2>4, <2>6
    <3>2. n[t] = status BY <1>2, <2>6 DEF CodexGood, StreamsOK
    <3>3. h.t[t].id # NoTurn /\ h.e[t].ends = <<>> BY <1>2, <2>3 DEF Turn, NoTurn
    <3>4. CodexGood(l, n) /\ CodexMoves(h, l) BY <2>3, <2>6, <3>1, <3>2, <3>3, CodexFinishes
    <3> QED BY <1>0, <2>3, <3>4, CodexMovesOn
  <2>7. CASE status = "working" /\ h.t[t].cancel
    <3>1. l = Codex!Interrupt(h, t) BY <2>2, <2>4, <2>7
    <3>2. h.c.work = cli.work BY <2>3
    <3>3. CodexGood(l, n) /\ CodexMoves(h, l) BY <2>3, <2>7, <3>1, <3>2, CodexInterrupt
    <3> QED BY <1>0, <2>3, <3>3, CodexMovesOn
  <2>8. CASE status # "error" /\ status \notin Outcome /\ ~(status = "working" /\ h.t[t].cancel)
    <3>1. l = [h EXCEPT !.t[t].timer = IF h.t[t].observed THEN "idle" ELSE "first"] BY <2>2, <2>8
    <3>2. PICK x \in {"none", "first", "idle", "cancel"} : x = IF h.t[t].observed THEN "idle" ELSE "first"
      OBVIOUS
    <3>3. l = [h EXCEPT !.t[t].timer = x] /\ x \in {"none", "first", "idle", "cancel"}
      BY ONLY <3>1, <3>2
    <3>4. CodexGood(l, n) /\ CodexMoves(h, l) BY ONLY <2>3, t \in Turn, <3>3, CodexTimed
    <3> QED BY <1>0, <2>3, <3>4, CodexMovesOn
  <2> QED BY <2>5, <2>6, <2>7, <2>8
<1> QED BY <1>1, <1>2

\* A turn is told what the CLI says of it.
LEMMA CodexTold ==
    ASSUME NEW g, NEW n, CodexGood(g, n), NEW t \in Turn, g.e[t].open, g.e = stream,
           NEW h, h = [g EXCEPT !.e = Codex!WithText(t, t)]
    PROVE  /\ CodexGood(h, n) /\ CodexMoves(g, h)
           /\ h.s = g.s /\ h.t = g.t /\ h.c = g.c /\ h.p = g.p
<1>g. /\ g \in CodexState /\ g.e \in [Turn -> StreamSet] /\ g.s.active \in Subject
      /\ StreamsOK(g.e, n, g.t, g.s.active)
  BY DEF CodexGood, CodexState, CodexSession
<1> DEFINE ee == [g.e EXCEPT ![t].text = @ \cup {t}]
<1>1. Codex!WithText(t, t) = ee BY DEF Codex!WithText
<1>2. /\ ee \in [Turn -> StreamSet] /\ StreamsOK(ee, n, g.t, g.s.active)
      /\ \A u \in Turn : ee[u].ends = g.e[u].ends
  <2>1. PICK e : e = g.e OBVIOUS
  <2>2. PICK c : c = g.t OBVIOUS
  <2>3. PICK a : a = g.s.active OBVIOUS
  <2>4. e \in [Turn -> StreamSet] /\ a \in Subject /\ StreamsOK(e, n, c, a) /\ e[t].open
    BY <1>g, <2>1, <2>2, <2>3
  <2>5. /\ [e EXCEPT ![t].text = @ \cup {t}] \in [Turn -> StreamSet]
        /\ StreamsOK([e EXCEPT ![t].text = @ \cup {t}], n, c, a)
        /\ \A u \in Turn : [e EXCEPT ![t].text = @ \cup {t}][u].ends = e[u].ends
    BY ONLY <2>4, t \in Turn, StreamsText
  <2> QED BY ONLY <2>1, <2>2, <2>3, <2>5
<1> HIDE DEF ee
<1>3. h = [s |-> g.s, t |-> g.t, e |-> ee, c |-> g.c, p |-> g.p] BY <1>g, <1>1 DEF CodexState
<1>4. h \in CodexState /\ h.s = g.s /\ h.t = g.t /\ h.e = ee /\ h.c = g.c /\ h.p = g.p
  BY <1>2, <1>3, <1>g DEF CodexState
<1>5. CodexGood(h, n)
  <2>1. g.s.retired \subseteq Turn BY <1>g DEF CodexState, CodexSession
  <2> QED BY ONLY CodexGood(g, n), <1>2, <1>4, <2>1 DEF CodexGood
<1>6. CodexMoves(g, h)
  BY ONLY <1>2, <1>4 DEF CodexMoves, CodexStays, Known
<1> QED BY <1>4, <1>5, <1>6

\* The turn a frame names is the active one, unless it has ended.
LEMMA CodexNamesActive ==
    ASSUME NEW g, NEW n, CodexGood(g, n), NEW id \in Turn, Known(g, id), g.s.active # NoTurn
    PROVE  /\ g.s.active \in Turn /\ g.s.active \notin g.s.retired
           /\ Codex!NamesOtherTurn(g, id) <=> id # g.s.active
<1>1. g.s.active \in Turn BY DEF CodexGood, CodexState, CodexSession, Subject
<1>2. g.e[g.s.active].open /\ g.e[g.s.active].ends = <<>> BY <1>1 DEF CodexGood, StreamsOK
<1>3. g.s.active \notin g.s.retired BY <1>2 DEF CodexGood
<1>4. g.t[g.s.active].id \in {NoTurn, g.s.active} BY <1>1 DEF CodexGood
<1>5. id # g.s.active => id \in g.s.retired BY DEF Known, CodexGood
<1> QED BY <1>1, <1>3, <1>4, <1>5, CodexNames DEF Codex!NamesOtherTurn

\* A notification is about the native turn it names: a retired one is not heard.
LEMMA CodexNotified ==
    ASSUME NEW g, NEW n, CodexGood(g, n), g.e = stream, g.c.work = cli.work, NEW f, f.id[2] \in Turn,
           Known(g, f.id[2]), f.k \in {"text", "result"},
           f.k = "result" /\ f.id[2] = g.s.active => f.out \in Outcome /\ n[g.s.active] = f.out,
           NEW l, l = Codex!HandleNotification(g, f)
    PROVE  /\ CodexGood(l, n) /\ CodexMoves(g, l)
           /\ f.k = "result" /\ f.id[2] = g.s.active => l.s.active = NoTurn
<1>0. g \in CodexState BY DEF CodexGood
<1>1. CASE g.s.active = NoTurn
  <2>1. l = g BY <1>1, CodexLive DEF Codex!HandleNotification
  <2> QED BY <1>1, <2>1, CodexMovesItself
<1>2. CASE g.s.active # NoTurn /\ f.id[2] # g.s.active
  <2>1. l = g BY <1>2, CodexNamesActive DEF Codex!HandleNotification
  <2> QED BY <1>2, <2>1, CodexMovesItself
<1>3. CASE g.s.active # NoTurn /\ f.id[2] = g.s.active
  <2> DEFINE t == g.s.active
  <2>t. t \in Turn /\ ~Codex!NamesOtherTurn(g, f.id[2]) /\ Codex!Live(g) BY <1>3, CodexNamesActive, CodexLive
  <2>e. g.e[t].open /\ g.e[t].ends = <<>> BY <1>3, <2>t DEF CodexGood, StreamsOK
  <2>1. PICK k : k = [g EXCEPT !.t[t].id = IF @ = NoTurn THEN t ELSE @] OBVIOUS
  <2>2. PICK h : h = Codex!ObserveActivity(k, t) OBVIOUS
  <2>3. l = IF f.k = "result" THEN Codex!EmitTerminal(h, t, f.out)
            ELSE IF h.t[t].cancel THEN Codex!Interrupt([h EXCEPT !.e = Codex!WithText(t, t)], t)
                 ELSE [h EXCEPT !.e = Codex!WithText(t, t)]
    BY <1>3, <2>t, <2>1, <2>2, CodexNames DEF Codex!HandleNotification, Codex!FinishFromNativeStatus
  <2>4. /\ CodexGood(k, n) /\ CodexMoves(g, k)
        /\ k.s = g.s /\ k.e = g.e /\ k.c = g.c /\ k.p = g.p /\ k.t[t].id = t
    <3>0. PICK id : id = t OBVIOUS
    <3>1. PICK x : x = IF g.t[t].id = NoTurn THEN id ELSE g.t[t].id OBVIOUS
    <3>2. k = [g EXCEPT !.t[t].id = x]
      <4>1. k = [g EXCEPT !.t[t].id = IF g.t[t].id = NoTurn THEN t ELSE g.t[t].id] BY <1>0, <2>1 DEF CodexState
      <4> QED BY ONLY <4>1, <3>0, <3>1
    <3>3. id \in {NoTurn, t} BY <3>0
    <3>4. /\ CodexGood(k, n) /\ CodexMoves(g, k)
          /\ k.s = g.s /\ k.e = g.e /\ k.c = g.c /\ k.p = g.p
          /\ k.t[t].id = x
      BY ONLY CodexGood(g, n), <2>t, <3>1, <3>2, <3>3, CodexNames2
    <3>6. g.t[t].id \in {NoTurn, t} BY <2>t DEF CodexGood
    <3>5. x = t BY <3>0, <3>1, <3>6
    <3> QED BY ONLY <3>4, <3>5
  <2>5. /\ CodexGood(h, n) /\ CodexMoves(k, h)
        /\ h.s = k.s /\ h.e = k.e /\ h.c = k.c /\ h.p = k.p /\ h.t[t].id = k.t[t].id
    BY ONLY <2>4, <2>t, <2>2, CodexObserve
  <2>6. CodexMoves(g, h) BY <1>0, <2>4, <2>5, CodexMovesOn
  <2>7. CASE f.k = "result"
    <3>1. l = Codex!EmitTerminal(h, t, f.out) BY <2>3, <2>7
    <3>2. f.out \in Outcome /\ n[t] = f.out BY <1>3, <2>7
    <3>3. h.t[t].id # NoTurn /\ h.e[t].ends = <<>> BY <2>e, <2>4, <2>5, <2>t DEF Turn, NoTurn
    <3>4. CodexGood(l, n) /\ CodexMoves(h, l) /\ l.s.active # t
      BY ONLY <2>t, <2>5, <3>1, <3>2, <3>3, CodexFinishes
    <3>5. CodexMoves(g, l) BY <1>0, <2>6, <3>4, CodexMovesOn
    <3>6. l.s.active = NoTurn BY <3>4, <3>5 DEF CodexMoves, CodexStays
    <3> QED BY <3>4, <3>5, <3>6
  <2>8. CASE f.k # "result"
    <3>1. PICK i : i = [h EXCEPT !.e = Codex!WithText(t, t)] OBVIOUS
    <3>2. h.e[t].open /\ h.e = stream BY <2>e, <2>4, <2>5
    <3>3. /\ CodexGood(i, n) /\ CodexMoves(h, i)
          /\ i.s = h.s /\ i.t = h.t /\ i.c = h.c /\ i.p = h.p
      BY ONLY <2>5, <2>t, <3>1, <3>2, CodexTold
    <3>4. CodexMoves(g, i) BY <1>0, <2>6, <3>3, CodexMovesOn
    <3>5. CASE ~h.t[t].cancel
      <4>1. l = i BY <2>3, <2>8, <3>1, <3>5
      <4> QED BY <2>8, <3>3, <3>4, <4>1
    <3>6. CASE h.t[t].cancel
      <4>1. l = Codex!Interrupt(i, t) BY <2>3, <2>8, <3>1, <3>6
      <4>2. i.c.work = cli.work /\ i.t[t].cancel BY <2>4, <2>5, <3>3, <3>6
      <4>3. CodexGood(l, n) /\ CodexMoves(i, l) BY ONLY <2>t, <3>3, <4>1, <4>2, CodexInterrupt
      <4>4. CodexMoves(g, l) BY <1>0, <3>4, <4>3, CodexMovesOn
      <4> QED BY <2>8, <4>3, <4>4
    <3> QED BY <3>5, <3>6
  <2> QED BY <2>7, <2>8
<1> QED BY <1>1, <1>2, <1>3

\* A request of the CLI fails the Turn it is about, or the one that is active.
LEMMA CodexRequested ==
    ASSUME NEW g, NEW n, CodexGood(g, n), g.c.work = cli.work, NEW id \in Subject,
           id # NoTurn => Known(g, id), NEW l, l = Codex!HandleServerRequest(g, id)
    PROVE  CodexGood(l, n) /\ CodexMoves(g, l)
<1>0. g \in CodexState /\ g.s.active \in Subject BY DEF CodexGood, CodexState, CodexSession
<1>1. CASE g.s.active = NoTurn
  <2>1. l = IF ~g.s.closing THEN Codex!ScheduleTeardown(g) ELSE g
    BY <1>1, CodexLive, CodexNames DEF Codex!HandleServerRequest
  <2> QED BY <1>1, <2>1, CodexTeardown, CodexMovesItself
<1>2. CASE g.s.active # NoTurn /\ id \notin {NoTurn, g.s.active}
  <2>1. id \in Turn BY <1>2 DEF Subject
  <2>2. l = g BY <1>2, <2>1, CodexNamesActive, CodexNames DEF Codex!HandleServerRequest
  <2> QED BY <2>2, CodexMovesItself
<1>3. CASE g.s.active # NoTurn /\ id \in {NoTurn, g.s.active}
  <2> DEFINE t == g.s.active
  <2>1. t \in Turn /\ Codex!Live(g) BY <1>0, <1>3, CodexLive DEF Subject
  <2>2. id # NoTurn => ~Codex!NamesOtherTurn(g, id) BY <1>3, <2>1, CodexNamesActive
  <2>3. PICK k : k = [g EXCEPT !.t[t].id = IF @ = NoTurn THEN id ELSE @] OBVIOUS
  <2>4. l = Codex!FailTurn(k, t) BY <2>1, <2>2, <2>3, CodexNames DEF Codex!HandleServerRequest
  <2>5. id \in {NoTurn, t} BY <1>3
  <2>6. /\ CodexGood(k, n) /\ CodexMoves(g, k) /\ k.c = g.c
    <3>1. PICK x : x = IF g.t[t].id = NoTurn THEN id ELSE g.t[t].id OBVIOUS
    <3>2. k = [g EXCEPT !.t[t].id = x]
      <4>1. k = [g EXCEPT !.t[t].id = IF g.t[t].id = NoTurn THEN id ELSE g.t[t].id] BY <1>0, <2>3 DEF CodexState
      <4> QED BY ONLY <4>1, <3>1
    <3> QED BY ONLY CodexGood(g, n), <2>1, <2>5, <3>1, <3>2, CodexNames2
  <2>7. k.c.work = cli.work BY <2>6
  <2>8. CodexGood(l, n) /\ CodexMoves(k, l) BY ONLY <2>1, <2>4, <2>6, <2>7, CodexFailTurn
  <2> QED BY <1>0, <2>6, <2>8, CodexMovesOn
<1> QED BY <1>1, <1>2, <1>3

\* What the invariant says of the state a step starts from.
LEMMA CodexFacts ==
    ASSUME CodexInv
    PROVE  /\ Codex!g0 \in CodexState /\ CodexGood(Codex!g0, native) /\ Codex!g0.c.work = cli.work
           /\ session \in CodexSession /\ session.active \in Subject /\ turn \in [Turn -> CodexTurn]
           /\ stream \in [Turn -> StreamSet] /\ cli \in CliSet /\ pending \in SUBSET CodexRequest
           /\ native \in [Turn -> NativeSet] /\ pipe \in Seq(FrameSet)
BY CodexNow DEF CodexInv, CodexGood, CodexState, CodexSession

\* Fewer requests wait.
LEMMA CodexAnswered ==
    ASSUME CodexInv, NEW r, NEW g, g = [Codex!g0 EXCEPT !.p = @ \ {r}]
    PROVE  /\ CodexGood(g, native) /\ CodexMoves(Codex!g0, g)
           /\ g.s = session /\ g.t = turn /\ g.e = stream /\ g.c = cli
<1>1. PICK k : k = Codex!g0 OBVIOUS
<1>2. /\ k \in CodexState /\ CodexGood(k, native) /\ k.s = session /\ k.t = turn /\ k.e = stream
      /\ k.c = cli /\ k.p = pending /\ pending \in SUBSET CodexRequest
  BY <1>1, CodexFacts, CodexNow
<1>3. PICK pp : pp = k.p \ {r} OBVIOUS
<1>4. pp \in SUBSET CodexRequest BY ONLY <1>2, <1>3
<1>5. g = [k EXCEPT !.p = pp]
  <2>1. g = [k EXCEPT !.p = @ \ {r}] BY <1>1
  <2>2. g = [k EXCEPT !.p = k.p \ {r}] BY ONLY <2>1, <1>2 DEF CodexState
  <2> QED BY ONLY <2>2, <1>3
<1>6. /\ CodexGood(g, native) /\ CodexMoves(k, g)
      /\ g.s = k.s /\ g.t = k.t /\ g.e = k.e /\ g.c = k.c
  BY ONLY <1>2, <1>4, <1>5, CodexWaits
<1> QED BY ONLY <1>1, <1>2, <1>6

\* turn/start that fails or times out fails its Turn.
LEMMA CodexRequestFails == ASSUME CodexInv, Codex!RequestFails PROVE CodexInv'
<1>1. PICK r \in pending :
        /\ r[2] # NoTurn
        /\ Codex!Become(Codex!FailTurn([Codex!g0 EXCEPT !.p = @ \ {r}], r[2]))
        /\ UNCHANGED <<native, pipe, client, broken, child, ladder>>
  BY CodexNames DEF Codex!RequestFails, Codex!processVars
<1>2. PICK g : g = [Codex!g0 EXCEPT !.p = @ \ {r}] OBVIOUS
<1>3. /\ CodexGood(g, native) /\ CodexMoves(Codex!g0, g) /\ g.c.work = cli.work BY <1>2, CodexAnswered
<1>4. r[2] \in Turn
  <2>1. r \in CodexRequest BY CodexFacts
  <2> QED BY <1>1, <2>1 DEF CodexRequest
<1>5. PICK t \in Turn : t = r[2] BY <1>4
<1>6. PICK l : l = Codex!FailTurn(g, t) OBVIOUS
<1>7. Codex!Become(l) BY <1>1, <1>2, <1>5, <1>6
<1>8. CodexGood(l, native) /\ CodexMoves(g, l) BY <1>3, <1>5, <1>6, CodexFailTurn
<1>9. CodexMoves(Codex!g0, l) BY <1>3, <1>8, CodexFacts, CodexMovesOn
<1> QED BY <1>1, <1>7, <1>8, <1>9, CodexSettlesMoves

\* The timer of an interruption ends the Turn it was set for.
LEMMA CodexTimerFires == ASSUME CodexInv, Codex!TimerFires PROVE CodexInv'
<1>1. PICK t \in Turn :
        /\ Codex!Become(Codex!FailTurn(Codex!g0, t))
        /\ UNCHANGED <<native, pipe, client, broken, child, ladder>>
  BY CodexNames DEF Codex!TimerFires, Codex!processVars
<1>2. PICK l : l = Codex!FailTurn(Codex!g0, t) OBVIOUS
<1>3. CodexGood(l, native) /\ CodexMoves(Codex!g0, l) BY <1>2, CodexFacts, CodexFailTurn
<1> QED BY <1>1, <1>2, <1>3, CodexSettlesMoves

\* A turn is to be cancelled.
LEMMA CodexCancels ==
    ASSUME NEW g, NEW n, CodexGood(g, n), NEW t \in Turn, NEW y \in BOOLEAN, y,
           NEW h, h = [g EXCEPT !.t[t].cancel = y]
    PROVE  /\ CodexGood(h, n) /\ CodexMoves(g, h) /\ h.t[t].cancel /\ h.c = g.c
<1>g. /\ g \in CodexState /\ g.t \in [Turn -> CodexTurn] /\ \A u \in Turn : g.t[u].id \in {NoTurn, u}
  BY DEF CodexGood, CodexState
<1> DEFINE tt == [g.t EXCEPT ![t].cancel = y]
<1>1. h = [s |-> g.s, t |-> tt, e |-> g.e, c |-> g.c, p |-> g.p] BY <1>g, CodexSetsCancel
<1>2. /\ tt \in [Turn -> CodexTurn] /\ tt[t].cancel = y /\ \A u \in Turn : tt[u].id = g.t[u].id
      /\ \A u \in Turn \ {t} : tt[u].cancel = g.t[u].cancel
  <2>1. PICK f : f = g.t OBVIOUS
  <2>2. f \in [Turn -> CodexTurn] BY <1>g, <2>1
  <2>3. /\ [f EXCEPT ![t].cancel = y] \in [Turn -> CodexTurn]
        /\ [f EXCEPT ![t].cancel = y][t].cancel = y
        /\ \A u \in Turn : [f EXCEPT ![t].cancel = y][u].id = f[u].id
        /\ \A u \in Turn \ {t} : [f EXCEPT ![t].cancel = y][u].cancel = f[u].cancel
    BY ONLY <2>2, t \in Turn, y \in BOOLEAN, CodexTurnCancel
  <2> QED BY ONLY <2>1, <2>3
<1> HIDE DEF tt
<1>3. h \in CodexState /\ h.s = g.s /\ h.t = tt /\ h.e = g.e /\ h.c = g.c /\ h.p = g.p
  BY ONLY <1>1, <1>2, <1>g DEF CodexState
<1>4. /\ h.s = g.s /\ h.e = g.e /\ h.c.work = g.c.work /\ h.c.ended = g.c.ended
      /\ h.c.interrupted => g.c.interrupted \/ Interruption(h.c, h.e, h.t)
  BY <1>3
<1>5. \A u \in Turn : (g.t[u].cancel => h.t[u].cancel) /\ h.t[u].id \in {NoTurn, u} BY <1>g, <1>2, <1>3
<1>6. CodexGood(h, n) /\ CodexMoves(g, h)
  BY ONLY CodexGood(g, n), <1>3, <1>4, <1>5, CodexTurnStep
<1> QED BY <1>2, <1>3, <1>6

\* It is cancelled, and interrupted.
LEMMA CodexCancelled ==
    ASSUME NEW g, NEW n, CodexGood(g, n), g.c.work = cli.work, NEW t \in Turn, NEW l,
           l = Codex!Interrupt([g EXCEPT !.t[t].cancel = TRUE], t)
    PROVE  CodexGood(l, n) /\ CodexMoves(g, l)
<1>1. PICK y \in BOOLEAN : y = TRUE OBVIOUS
<1>2. PICK h : h = [g EXCEPT !.t[t].cancel = y] OBVIOUS
<1>3. l = Codex!Interrupt(h, t) BY <1>1, <1>2
<1>4. CodexGood(h, n) /\ CodexMoves(g, h) /\ h.t[t].cancel /\ h.c = g.c
  <2>1. y /\ y \in BOOLEAN BY <1>1
  <2> QED BY ONLY CodexGood(g, n), t \in Turn, <2>1, <1>2, CodexCancels
<1>5. h.c.work = cli.work BY <1>4
<1>6. CodexGood(l, n) /\ CodexMoves(h, l) BY ONLY t \in Turn, <1>3, <1>4, <1>5, CodexInterrupt
<1>7. g \in CodexState BY DEF CodexGood
<1> QED BY ONLY <1>4, <1>6, <1>7, CodexMovesOn

\* A cancel interrupts the native turn, if it is known yet.
LEMMA CodexCancel == ASSUME CodexInv, Codex!Cancel PROVE CodexInv'
<1>1. /\ session.active # NoTurn
      /\ Codex!Become(Codex!Interrupt([Codex!g0 EXCEPT !.t[session.active].cancel = TRUE], session.active))
      /\ UNCHANGED <<native, pipe, client, broken, child, ladder>>
  BY CodexFacts, CodexLive, CodexNow DEF Codex!Cancel, Codex!processVars
<1>2. session.active \in Turn BY <1>1, CodexFacts DEF Subject
<1>3. PICK t \in Turn : t = session.active BY <1>2
<1>4. PICK l : l = Codex!Interrupt([Codex!g0 EXCEPT !.t[t].cancel = TRUE], t) OBVIOUS
<1>5. Codex!Become(l) BY <1>1, <1>3, <1>4
<1>6. CodexGood(l, native) /\ CodexMoves(Codex!g0, l)
  <2>1. CodexGood(Codex!g0, native) /\ Codex!g0.c.work = cli.work BY CodexFacts
  <2> QED BY ONLY <2>1, <1>4, t \in Turn, CodexCancelled
<1> QED BY <1>1, <1>5, <1>6, CodexSettlesMoves

\* Closing the session as the record it makes.
LEMMA CodexSetsS ==
    ASSUME NEW k \in CodexState, NEW x
    PROVE  [k EXCEPT !.s = x] = [s |-> x, t |-> k.t, e |-> k.e, c |-> k.c, p |-> k.p]
BY DEF CodexState

\* The session, and the adapter's state, as ShutDown sets them.
CodexShut(s, x, y, z) == [[[s EXCEPT !.closing = x] EXCEPT !.shut = y] EXCEPT !.teardown = z]
CodexShuts(k, x, y, z) == [k EXCEPT !.s.closing = x, !.s.shut = y, !.s.teardown = z]

LEMMA CodexSetsShut ==
    ASSUME NEW k \in CodexState, NEW x, NEW y, NEW z
    PROVE  CodexShuts(k, x, y, z)
           = [s |-> CodexShut(k.s, x, y, z), t |-> k.t, e |-> k.e, c |-> k.c, p |-> k.p]
<1>1. \A r : [r EXCEPT !.s.closing = x, !.s.shut = y, !.s.teardown = z]
             = [[[r EXCEPT !.s.closing = x] EXCEPT !.s.shut = y] EXCEPT !.s.teardown = z]
  OBVIOUS
<1>2. [k EXCEPT !.s.closing = x, !.s.shut = y, !.s.teardown = z]
      = [[[k EXCEPT !.s.closing = x] EXCEPT !.s.shut = y] EXCEPT !.s.teardown = z]
  BY <1>1
<1>3. [k EXCEPT !.s.closing = x] = [s |-> [k.s EXCEPT !.closing = x], t |-> k.t, e |-> k.e, c |-> k.c, p |-> k.p]
  BY DEF CodexState
<1>4. [[s |-> [k.s EXCEPT !.closing = x], t |-> k.t, e |-> k.e, c |-> k.c, p |-> k.p] EXCEPT !.s.shut = y]
      = [s |-> [[k.s EXCEPT !.closing = x] EXCEPT !.shut = y], t |-> k.t, e |-> k.e, c |-> k.c, p |-> k.p]
  OBVIOUS
<1>5. [[s |-> [[k.s EXCEPT !.closing = x] EXCEPT !.shut = y], t |-> k.t, e |-> k.e, c |-> k.c, p |-> k.p]
            EXCEPT !.s.teardown = z]
      = [s |-> [[[k.s EXCEPT !.closing = x] EXCEPT !.shut = y] EXCEPT !.teardown = z],
         t |-> k.t, e |-> k.e, c |-> k.c, p |-> k.p]
  OBVIOUS
<1> QED BY ONLY <1>2, <1>3, <1>4, <1>5 DEF CodexShut, CodexShuts

\* A session that closes keeps its Turn, its runtime and what it has retired.
LEMMA CodexShutSession ==
    ASSUME NEW s, s \in CodexSession, NEW x, x \in BOOLEAN, NEW y, y \in Subject,
           NEW z, z \in {"none", "scheduled", "waiting", "closing", "done"},
           NEW d, d = CodexShut(s, x, y, z)
    PROVE  /\ d \in CodexSession /\ d.active = s.active /\ d.retired = s.retired /\ d.poisoned = s.poisoned
           /\ d.runtime = s.runtime /\ d.at = s.at /\ d.teardown = z
<1> DEFINE a == [s EXCEPT !.closing = x]
           b == [a EXCEPT !.shut = y]
<1>1. /\ a \in CodexSession /\ a.active = s.active /\ a.retired = s.retired /\ a.poisoned = s.poisoned
      /\ a.runtime = s.runtime /\ a.at = s.at
  BY DEF CodexSession
<1>0. d = [b EXCEPT !.teardown = z] BY DEF CodexShut
<1> HIDE DEF a
<1>2. /\ b \in CodexSession /\ b.active = a.active /\ b.retired = a.retired /\ b.poisoned = a.poisoned
      /\ b.runtime = a.runtime /\ b.at = a.at
  BY <1>1 DEF CodexSession
<1> HIDE DEF b
<1>3. /\ d \in CodexSession /\ d.active = b.active /\ d.retired = b.retired /\ d.poisoned = b.poisoned
      /\ d.runtime = b.runtime /\ d.at = b.at /\ d.teardown = z
  BY ONLY <1>0, <1>2, z \in {"none", "scheduled", "waiting", "closing", "done"} DEF CodexSession
<1> QED BY ONLY <1>1, <1>2, <1>3

\* #shutdownRuntime begins, or finds that it has begun.
LEMMA CodexShutDown ==
    ASSUME CodexInv, NEW graceful \in BOOLEAN, Codex!ShutDown(graceful),
           UNCHANGED <<native, pipe, client, broken, child, ladder>>
    PROVE  CodexInv'
<1>f. CodexGood(Codex!g0, native) /\ Codex!g0 \in CodexState /\ session \in CodexSession
      /\ cli \in CliSet /\ pending \in SUBSET CodexRequest /\ session.active \in Subject
  BY CodexFacts
<1>1. CASE session.closing
  <2> DEFINE ss == [session EXCEPT !.teardown = "done"]
             h == [s |-> ss, t |-> turn, e |-> stream, c |-> cli, p |-> pending]
  <2>1. Codex!Become(h) BY <1>1 DEF Codex!ShutDown, Codex!Become
  <2>2. /\ ss \in CodexSession /\ ss.active = session.active /\ ss.retired = session.retired
        /\ ss.poisoned = session.poisoned /\ ss.runtime = session.runtime /\ ss.at = session.at
        /\ ss.teardown = "done"
    BY <1>f DEF CodexSession
  <2> HIDE DEF ss, h
  <2>3. h = [s |-> ss, t |-> Codex!g0.t, e |-> Codex!g0.e, c |-> cli, p |-> pending] BY CodexNow DEF h
  <2>4. CodexGood(h, native) /\ CodexStays(Codex!g0, h) /\ h.s = ss
    BY <1>f, <2>2, <2>3, CodexNow, CodexElsewhere
  <2>5. CodexMoves(Codex!g0, h) BY <2>2, <2>4, CodexNow DEF CodexMoves
  <2> QED BY <2>1, <2>4, <2>5, CodexSettlesMoves
<1>2. CASE ~session.closing
  <2> DEFINE t == session.active
  <2>0. PICK k : k = Codex!g0 OBVIOUS
  <2>1. PICK g : g = [k EXCEPT !.s.closing = TRUE, !.s.shut = t, !.s.teardown = "waiting"] OBVIOUS
  <2>2. PICK l : l = IF graceful /\ t # NoTurn /\ turn[t].id # NoTurn
                     THEN Codex!Interrupt([g EXCEPT !.t[t].cancel = TRUE], t) ELSE g
    OBVIOUS
  <2>3. Codex!Become(l)
    <3>1. Codex!Live(Codex!g0) <=> t # NoTurn BY <1>f, CodexLive, CodexNow
    <3> QED BY <1>2, <2>0, <2>1, <2>2, <3>1, CodexNames DEF Codex!ShutDown
  <2>4. PICK ss : ss = [[[session EXCEPT !.closing = TRUE] EXCEPT !.shut = t] EXCEPT !.teardown = "waiting"]
    OBVIOUS
  <2>5. /\ ss \in CodexSession /\ ss.active = session.active /\ ss.retired = session.retired
        /\ ss.poisoned = session.poisoned /\ ss.runtime = session.runtime /\ ss.at = session.at
        /\ ss.teardown = "waiting"
    <3>1. PICK x \in BOOLEAN : x = TRUE OBVIOUS
    <3>2. PICK z \in {"none", "scheduled", "waiting", "closing", "done"} : z = "waiting" OBVIOUS
    <3>a. PICK s : s = session OBVIOUS
    <3>b. PICK y : y = t OBVIOUS
    <3>3. ss = CodexShut(s, x, y, z)
      <4>1. ss = [[[s EXCEPT !.closing = x] EXCEPT !.shut = y] EXCEPT !.teardown = z]
        BY ONLY <2>4, <3>1, <3>2, <3>a, <3>b
      <4> QED BY ONLY <4>1 DEF CodexShut
    <3>4. /\ x \in BOOLEAN /\ z \in {"none", "scheduled", "waiting", "closing", "done"} /\ y \in Subject
          /\ s \in CodexSession
      BY <1>f, <3>1, <3>2, <3>a, <3>b
    <3>5. /\ ss \in CodexSession /\ ss.active = s.active /\ ss.retired = s.retired
          /\ ss.poisoned = s.poisoned /\ ss.runtime = s.runtime /\ ss.at = s.at
          /\ ss.teardown = z
      BY ONLY <3>3, <3>4, CodexShutSession
    <3> QED BY <3>2, <3>5, <3>a
  <2>6. g = [s |-> ss, t |-> k.t, e |-> k.e, c |-> cli, p |-> pending]
    <3>1. PICK x \in BOOLEAN : x = TRUE OBVIOUS
    <3>2. PICK z : z = "waiting" OBVIOUS
    <3>b. PICK y : y = t OBVIOUS
    <3>3. g = CodexShuts(k, x, y, z)
      <4>1. g = [k EXCEPT !.s.closing = x, !.s.shut = y, !.s.teardown = z] BY ONLY <2>1, <3>1, <3>2, <3>b
      <4> QED BY ONLY <4>1 DEF CodexShuts
    <3>4. k \in CodexState /\ k.s = session /\ k.c = cli /\ k.p = pending BY <1>f, <2>0, CodexNow
    <3>5. g = [s |-> CodexShut(k.s, x, y, z),
               t |-> k.t, e |-> k.e, c |-> k.c, p |-> k.p]
      BY ONLY <3>3, <3>4, CodexSetsShut
    <3>6. CodexShut(session, x, y, z) = ss
      <4>1. ss = [[[session EXCEPT !.closing = x] EXCEPT !.shut = y] EXCEPT !.teardown = z]
        BY ONLY <2>4, <3>1, <3>2, <3>b
      <4> QED BY ONLY <4>1 DEF CodexShut
    <3> QED BY ONLY <3>4, <3>5, <3>6
  <2>7. CodexGood(k, native) /\ k.s = session /\ k.c = cli /\ k.p = pending /\ k \in CodexState
    BY <1>f, <2>0, CodexNow
  <2>8. CodexGood(g, native) /\ CodexStays(k, g) /\ g.s = ss /\ g.c = cli
    BY ONLY <1>f, <2>5, <2>6, <2>7, CodexElsewhere
  <2>9. CodexMoves(k, g) BY ONLY <2>5, <2>7, <2>8 DEF CodexMoves
  <2>10. CodexGood(l, native) /\ CodexMoves(g, l)
    <3>1. CASE graceful /\ t # NoTurn /\ turn[t].id # NoTurn
      <4>1. t \in Turn BY <1>f, <3>1 DEF Subject
      <4>2. PICK u \in Turn : u = t BY <4>1
      <4>3. l = Codex!Interrupt([g EXCEPT !.t[u].cancel = TRUE], u) BY <2>2, <3>1, <4>2
      <4>4. g.c.work = cli.work /\ u \in Turn BY <2>8, <4>2
      <4> QED BY ONLY <2>8, <4>3, <4>4, CodexCancelled
    <3>2. CASE ~(graceful /\ t # NoTurn /\ turn[t].id # NoTurn)
      <4>1. l = g BY <2>2, <3>2
      <4> QED BY <2>8, <4>1, CodexMovesItself
    <3> QED BY <3>1, <3>2
  <2>11. CodexMoves(Codex!g0, l) BY ONLY <2>0, <2>7, <2>9, <2>10, CodexMovesOn
  <2> QED BY <2>3, <2>10, <2>11, CodexSettlesMoves
<1> QED BY <1>1, <1>2

\* A close of the session cancels the Turn that is active.
LEMMA CodexClose == ASSUME CodexInv, Codex!Close PROVE CodexInv'
<1>1. Codex!ShutDown(TRUE) /\ UNCHANGED <<native, pipe, client, broken, child, ladder>>
  BY DEF Codex!Close, Codex!processVars
<1>2. PICK y \in BOOLEAN : y = TRUE OBVIOUS
<1>3. Codex!ShutDown(y) BY <1>1, <1>2
<1> QED BY <1>1, <1>3, CodexShutDown

\* A teardown waits until the Turn that poisoned the runtime is over.
LEMMA CodexTearsDown == ASSUME CodexInv, Codex!Teardown PROVE CodexInv'
<1>1. Codex!ShutDown(FALSE) /\ UNCHANGED <<native, pipe, client, broken, child, ladder>>
  BY DEF Codex!Teardown, Codex!processVars
<1>2. PICK y \in BOOLEAN : y = FALSE OBVIOUS
<1>3. Codex!ShutDown(y) BY <1>1, <1>2
<1> QED BY <1>1, <1>3, CodexShutDown

\* An EXCEPT on the state as the record it makes.
LEMMA CodexSetsTeardown ==
    ASSUME NEW k \in CodexState, NEW x
    PROVE  [k EXCEPT !.s.teardown = x]
           = [s |-> [k.s EXCEPT !.teardown = x], t |-> k.t, e |-> k.e, c |-> k.c, p |-> k.p]
BY DEF CodexState

\* The shutdown closes the client and fails the Turn that is active.
LEMMA CodexShutdownCloses == ASSUME CodexInv, Codex!ShutdownCloses PROVE CodexInv'
<1>f. CodexGood(Codex!g0, native) /\ Codex!g0 \in CodexState /\ session \in CodexSession
      /\ cli \in CliSet /\ pending \in SUBSET CodexRequest
  BY CodexFacts
<1>1. PICK k : k = Codex!g0 OBVIOUS
<1>2. PICK g : g = [k EXCEPT !.s.teardown = "closing"] OBVIOUS
<1>3. PICK l : l = [Codex!Rejected(g) EXCEPT !.p = {}] OBVIOUS
<1>4. /\ Codex!Become(l) /\ UNCHANGED <<native, pipe, child>> /\ client' # "running"
      /\ ladder = "gaveUp" => ladder' = "gaveUp"
  <2>1. client' # "running" /\ Codex!StartLadder("grace") /\ UNCHANGED <<native, pipe, child>>
    BY DEF Codex!ShutdownCloses
  <2>2. ladder = "gaveUp" => ladder' = "gaveUp" BY <2>1 DEF Codex!StartLadder
  <2>3. Codex!Become(l) BY <1>1, <1>2, <1>3 DEF Codex!ShutdownCloses
  <2> QED BY <2>1, <2>2, <2>3
<1>5. PICK ss : ss = [session EXCEPT !.teardown = "closing"] OBVIOUS
<1>6. /\ ss \in CodexSession /\ ss.active = session.active /\ ss.retired = session.retired
      /\ ss.poisoned = session.poisoned /\ ss.runtime = session.runtime /\ ss.at = session.at
  BY <1>f, <1>5 DEF CodexSession
<1>7. k \in CodexState /\ CodexGood(k, native) /\ k.s = session /\ k.c = cli /\ k.p = pending BY <1>f, <1>1, CodexNow
<1>8. g = [s |-> ss, t |-> k.t, e |-> k.e, c |-> cli, p |-> pending]
  <2>1. g = [s |-> [k.s EXCEPT !.teardown = "closing"], t |-> k.t, e |-> k.e, c |-> k.c, p |-> k.p]
    BY ONLY <1>2, <1>7, CodexSetsTeardown
  <2> QED BY ONLY <2>1, <1>5, <1>7
<1>9. CodexGood(g, native) /\ CodexStays(k, g) /\ g.s = ss /\ g.c = cli
  BY ONLY <1>f, <1>6, <1>7, <1>8, CodexElsewhere
<1>10. CodexGood(l, native) /\ CodexMoves(g, l)
  <2>1. g.c.work = cli.work BY <1>9
  <2> QED BY ONLY <1>3, <1>9, <2>1, CodexRejects
<1>11. CodexStays(k, l)
  <2>1. \A u \in Turn : (Known(k, u) => Known(l, u)) /\ (k.e[u].ends # <<>> => l.e[u].ends # <<>>)
                        /\ (k.t[u].cancel => l.t[u].cancel)
    BY <1>9, <1>10 DEF CodexMoves, CodexStays
  <2>2. /\ l.c.work = k.c.work /\ l.c.ended = k.c.ended /\ l.s.active \in {k.s.active, NoTurn}
        /\ l.c.interrupted => k.c.interrupted \/ Interruption(l.c, l.e, l.t)
    <3>1. g.c = k.c BY <1>7, <1>9
    <3> QED BY <1>9, <1>10, <3>1 DEF CodexMoves, CodexStays
  <2> QED BY <2>1, <2>2 DEF CodexStays
<1>12. l.s.at \in {"none", "ready"} /\ ~l.s.runtime => child' # "alive" \/ ladder' = "gaveUp"
  <2>1. l.s.runtime = session.runtime /\ l.s.at \in {session.at, "failing"}
    BY <1>6, <1>9, <1>10 DEF CodexMoves
  <2> QED BY <2>1, <1>4 DEF CodexInv, CodexLeashed
<1> QED BY <1>1, <1>4, <1>10, <1>11, <1>12, CodexSettlesOn

\* The session as the end of a close leaves it.
CodexFree(s, x, y, z) == [[[s EXCEPT !.teardown = x] EXCEPT !.runtime = y] EXCEPT !.at = z]

\* A session that lets go of its runtime keeps everything else.
LEMMA CodexFreed ==
    ASSUME NEW s, s \in CodexSession, NEW x, x \in {"none", "scheduled", "waiting", "closing", "done"},
           NEW y, y \in BOOLEAN, NEW z, z = s.at \/ z = "none", NEW d, d = CodexFree(s, x, y, z)
    PROVE  /\ d \in CodexSession /\ d.active = s.active /\ d.retired = s.retired /\ d.poisoned = s.poisoned
           /\ d.teardown = x /\ d.shut = s.shut
<1> DEFINE a == [s EXCEPT !.teardown = x]
           b == [a EXCEPT !.runtime = y]
<1>1. /\ a \in CodexSession /\ a.active = s.active /\ a.retired = s.retired /\ a.poisoned = s.poisoned
      /\ a.teardown = x /\ a.shut = s.shut /\ a.at = s.at
  BY DEF CodexSession
<1>0. d = [b EXCEPT !.at = z] BY DEF CodexFree
<1> HIDE DEF a
<1>2. /\ b \in CodexSession /\ b.active = a.active /\ b.retired = a.retired /\ b.poisoned = a.poisoned
      /\ b.teardown = a.teardown /\ b.shut = a.shut /\ b.at = a.at
  BY <1>1 DEF CodexSession
<1> HIDE DEF b
<1>3. z \in {"none", "initialize", "requirements", "open", "ready", "failing", "closing"}
  BY DEF CodexSession
<1>4. /\ d \in CodexSession /\ d.active = b.active /\ d.retired = b.retired /\ d.poisoned = b.poisoned
      /\ d.teardown = b.teardown /\ d.shut = b.shut
  BY ONLY <1>0, <1>2, <1>3 DEF CodexSession
<1> QED BY ONLY <1>1, <1>2, <1>4

\* The adapter's state with that session.
CodexFrees(k, x, y, z) == [k EXCEPT !.s.teardown = x, !.s.runtime = y, !.s.at = z]

\* The same as the record it makes.
LEMMA CodexSetsFree ==
    ASSUME NEW k \in CodexState, NEW x, NEW y, NEW z
    PROVE  CodexFrees(k, x, y, z) = [s |-> CodexFree(k.s, x, y, z), t |-> k.t, e |-> k.e, c |-> k.c, p |-> k.p]
<1>1. \A r : [r EXCEPT !.s.teardown = x, !.s.runtime = y, !.s.at = z]
             = [[[r EXCEPT !.s.teardown = x] EXCEPT !.s.runtime = y] EXCEPT !.s.at = z]
  OBVIOUS
<1>2. [k EXCEPT !.s.teardown = x, !.s.runtime = y, !.s.at = z]
      = [[[k EXCEPT !.s.teardown = x] EXCEPT !.s.runtime = y] EXCEPT !.s.at = z]
  BY <1>1
<1>3. [k EXCEPT !.s.teardown = x] = [s |-> [k.s EXCEPT !.teardown = x], t |-> k.t, e |-> k.e, c |-> k.c, p |-> k.p]
  BY DEF CodexState
<1>4. [[s |-> [k.s EXCEPT !.teardown = x], t |-> k.t, e |-> k.e, c |-> k.c, p |-> k.p] EXCEPT !.s.runtime = y]
      = [s |-> [[k.s EXCEPT !.teardown = x] EXCEPT !.runtime = y], t |-> k.t, e |-> k.e, c |-> k.c, p |-> k.p]
  OBVIOUS
<1>5. [[s |-> [[k.s EXCEPT !.teardown = x] EXCEPT !.runtime = y], t |-> k.t, e |-> k.e, c |-> k.c, p |-> k.p]
            EXCEPT !.s.at = z]
      = [s |-> [[[k.s EXCEPT !.teardown = x] EXCEPT !.runtime = y] EXCEPT !.at = z],
         t |-> k.t, e |-> k.e, c |-> k.c, p |-> k.p]
  OBVIOUS
<1> QED BY ONLY <1>2, <1>3, <1>4, <1>5 DEF CodexFree, CodexFrees

\* A session lets go of its runtime when the CLI is gone or could not be killed.
LEMMA CodexShutdownEnds == ASSUME CodexInv, Codex!ShutdownEnds PROVE CodexInv'
<1>f. CodexGood(Codex!g0, native) /\ Codex!g0 \in CodexState /\ session \in CodexSession
      /\ cli \in CliSet /\ pending \in SUBSET CodexRequest /\ native \in [Turn -> NativeSet]
      /\ pipe \in Seq(FrameSet)
  BY CodexFacts
<1>1. PICK k : k = Codex!g0 OBVIOUS
<1>2. PICK g : g = [k EXCEPT !.s.teardown = "done", !.s.runtime = FALSE,
                             !.s.at = IF @ = "ready" THEN "none" ELSE @]
  OBVIOUS
<1>3. /\ Codex!Become(IF g.s.shut = NoTurn THEN g ELSE Codex!EmitTerminal(g, g.s.shut, "failed"))
      /\ UNCHANGED <<native, pipe, child, ladder, client>> /\ client # "running"
      /\ child # "alive" \/ ladder = "gaveUp"
  <2>1. /\ UNCHANGED <<native, pipe, child, ladder, client>> /\ client # "running"
        /\ child # "alive" \/ ladder = "gaveUp"
    BY DEF Codex!ShutdownEnds, Codex!CloseSettled, Codex!processVars, CodexInv
  <2>2. Codex!Become(IF g.s.shut = NoTurn THEN g ELSE Codex!EmitTerminal(g, g.s.shut, "failed"))
    BY <1>1, <1>2, CodexNames DEF Codex!ShutdownEnds
  <2> QED BY <2>1, <2>2
<1>4. k \in CodexState /\ CodexGood(k, native) /\ k.s = session /\ k.c = cli /\ k.p = pending
  BY <1>f, <1>1, CodexNow
<1>x. PICK x : x = "done" OBVIOUS
<1>y. PICK y \in BOOLEAN : y = FALSE OBVIOUS
<1>z. PICK z : z = IF session.at = "ready" THEN "none" ELSE session.at OBVIOUS
<1>5. g = CodexFrees(k, x, y, z)
  <2>1. g = [k EXCEPT !.s.teardown = "done", !.s.runtime = FALSE,
                      !.s.at = IF session.at = "ready" THEN "none" ELSE session.at]
    <3>1. PICK a : a = session.at OBVIOUS
    <3>2. \A r, p, q : r \in CodexState /\ r.s.at = a =>
             [r EXCEPT !.s.teardown = p, !.s.runtime = q, !.s.at = IF @ = "ready" THEN "none" ELSE @]
             = [r EXCEPT !.s.teardown = p, !.s.runtime = q, !.s.at = IF a = "ready" THEN "none" ELSE a]
      BY DEF CodexState, CodexSession
    <3>3. k \in CodexState /\ k.s.at = a BY <1>4, <3>1
    <3>4. [k EXCEPT !.s.teardown = "done", !.s.runtime = FALSE, !.s.at = IF @ = "ready" THEN "none" ELSE @]
          = [k EXCEPT !.s.teardown = "done", !.s.runtime = FALSE, !.s.at = IF a = "ready" THEN "none" ELSE a]
      BY ONLY <3>2, <3>3
    <3> QED BY ONLY <1>2, <3>1, <3>4
  <2>2. g = [k EXCEPT !.s.teardown = x, !.s.runtime = y, !.s.at = z] BY ONLY <2>1, <1>x, <1>y, <1>z
  <2> QED BY ONLY <2>2 DEF CodexFrees
<1>6. PICK ss : ss = CodexFree(session, x, y, z) OBVIOUS
<1>7. g = [s |-> ss, t |-> k.t, e |-> k.e, c |-> cli, p |-> pending]
  <2>1. g = [s |-> CodexFree(k.s, x, y, z), t |-> k.t, e |-> k.e, c |-> k.c, p |-> k.p]
    BY ONLY <1>4, <1>5, CodexSetsFree
  <2> QED BY ONLY <2>1, <1>4, <1>6
<1>8. /\ ss \in CodexSession /\ ss.active = session.active /\ ss.retired = session.retired
      /\ ss.poisoned = session.poisoned /\ ss.teardown = "done" /\ ss.shut = session.shut
  <2>1. PICK s : s = session OBVIOUS
  <2>2. /\ s \in CodexSession /\ x \in {"none", "scheduled", "waiting", "closing", "done"} /\ y \in BOOLEAN
        /\ z = s.at \/ z = "none"
    BY <1>f, <1>x, <1>y, <1>z, <2>1
  <2>3. ss = CodexFree(s, x, y, z) BY ONLY <1>6, <2>1
  <2>4. /\ ss \in CodexSession /\ ss.active = s.active /\ ss.retired = s.retired /\ ss.poisoned = s.poisoned
        /\ ss.teardown = x /\ ss.shut = s.shut
    BY ONLY <2>2, <2>3, CodexFreed
  <2> QED BY ONLY <2>1, <2>4, <1>x
<1>9. CodexGood(g, native) /\ g.s = ss
  BY ONLY <1>f, <1>4, <1>7, <1>8, CodexElsewhere
<1>10. PICK l : l = IF g.s.shut = NoTurn THEN g ELSE Codex!EmitTerminal(g, g.s.shut, "failed") OBVIOUS
<1>11. CodexGood(l, native) /\ l.s.teardown = "done"
  <2>1. CASE g.s.shut = NoTurn BY <1>8, <1>9, <1>10, <2>1
  <2>2. CASE g.s.shut # NoTurn
    <3>1. g.s.shut \in Turn BY <1>8, <1>9, <2>2 DEF CodexSession, Subject
    <3>2. PICK t \in Turn : t = g.s.shut BY <3>1
    <3>3. PICK o \in Outcome : o = "failed" BY DEF Outcome
    <3>4. l = Codex!EmitTerminal(g, t, o) BY <1>10, <2>2, <3>2, <3>3
    <3>5. CASE g.e[t].ends # <<>>
      <4>1. l = g BY <3>4, <3>5 DEF Codex!EmitTerminal, Codex!Terminal
      <4> QED BY <1>8, <1>9, <4>1
    <3>6. CASE g.e[t].ends = <<>>
      <4>1. o # "completed" /\ o # "cancelled" /\ t \in Turn /\ o \in Outcome BY <3>2, <3>3
      <4>2. CodexEmits(g, l, t, o) /\ CodexGood(l, native)
        BY ONLY <1>9, <3>4, <3>6, <4>1, CodexEmit
      <4> QED BY <1>8, <1>9, <4>2 DEF CodexEmits
    <3> QED BY <3>5, <3>6
  <2> QED BY <2>1, <2>2
<1>12. Codex!Become(l) BY <1>3, <1>10
<1>13. CodexGood(l, native') /\ native' \in [Turn -> NativeSet] /\ pipe' \in Seq(FrameSet) BY <1>3, <1>11, <1>f
<1> QED BY <1>3, <1>11, <1>12, <1>13, CodexSettles

\* The exit of the CLI ends the Turn that was active and the session with it.
LEMMA CodexHandleExit == ASSUME CodexInv, Codex!HandleExit PROVE CodexInv'
<1>f. CodexGood(Codex!g0, native) /\ Codex!g0 \in CodexState /\ Codex!g0.c.work = cli.work
  BY CodexFacts
<1>1. PICK g : g = IF Codex!Listening /\ ~session.closing /\ ~expected THEN Codex!FailRuntime(Codex!g0) ELSE Codex!g0
  OBVIOUS
<1>2. PICK l : l = IF client = "running" THEN [Codex!Rejected(g) EXCEPT !.p = {}] ELSE g OBVIOUS
<1>3. /\ Codex!Become(l) /\ UNCHANGED <<native, pipe, ladder>> /\ client' # "running" /\ child' = "exited"
  <2>1. UNCHANGED <<native, pipe, ladder>> /\ client' # "running" /\ child' = "exited"
    BY DEF Codex!HandleExit, Codex!ObserveExit, Codex!ClientAfterExit
  <2>2. Codex!Become(IF client = "running" THEN [Codex!Rejected(g) EXCEPT !.p = {}] ELSE g)
    BY <1>1 DEF Codex!HandleExit
  <2> QED BY <1>2, <2>1, <2>2
<1>4. CodexGood(g, native) /\ CodexMoves(Codex!g0, g) /\ g.c.work = cli.work
  <2>1. CASE g = Codex!g0 BY <1>f, <2>1, CodexMovesItself
  <2>2. CASE g = Codex!FailRuntime(Codex!g0) BY <1>f, <2>2, CodexFailRuntime
  <2> QED BY <1>1, <2>1, <2>2
<1>5. CodexGood(l, native) /\ CodexMoves(Codex!g0, l)
  <2>1. CASE l = g BY <1>4, <2>1
  <2>2. CASE l = [Codex!Rejected(g) EXCEPT !.p = {}]
    <3>1. CodexGood(l, native) /\ CodexMoves(g, l) BY ONLY <1>4, <2>2, CodexRejects
    <3> QED BY ONLY <1>f, <1>4, <3>1, CodexMovesOn
  <2> QED BY <1>2, <2>1, <2>2
<1> QED BY <1>3, <1>5, CodexSettlesMoves

\* What the first frame in the pipe can be about.
LEMMA CodexFirst ==
    ASSUME CodexInv, client = "running", pipe # <<>>
    PROVE  /\ Head(pipe) \in FrameSet
           /\ Head(pipe).k \in {"text", "result"} =>
                Head(pipe).id[2] \in Turn /\ Known(Codex!g0, Head(pipe).id[2])
           /\ Head(pipe).k = "result" /\ Head(pipe).id[2] = session.active =>
                Head(pipe).out \in Outcome /\ native[session.active] = Head(pipe).out
           /\ Head(pipe).k = "ask" /\ Head(pipe).id[2] # NoTurn => Known(Codex!g0, Head(pipe).id[2])
           /\ Head(pipe).k = "answer" /\ Head(pipe).id[1] = "start" /\ Head(pipe).out \in Outcome =>
                Head(pipe).id[2] \in Turn /\ native[Head(pipe).id[2]] \in {Head(pipe).out, "past"}
<1>1. /\ pipe \in Seq(FrameSet) /\ CodexPipe(cli, native, pipe) /\ CodexLink(Codex!g0, native, pipe)
  BY DEF CodexInv, CodexCalm
<1>2. 1 \in DOMAIN pipe /\ Head(pipe) = pipe[1] /\ pipe[1] \in FrameSet /\ DOMAIN pipe = 1..Len(pipe) /\ Len(pipe) \in Nat
  BY <1>1, SeqTail
<1>3. Head(pipe).k \in {"text", "result"} => Head(pipe).id[2] \in Turn /\ Known(Codex!g0, Head(pipe).id[2])
  BY <1>1, <1>2 DEF CodexLink, Speaks
<1>4. ASSUME Head(pipe).k = "result", Head(pipe).id[2] = session.active
      PROVE  Head(pipe).out \in Outcome /\ native[session.active] = Head(pipe).out
  <2>1. 1 \in Results(pipe, session.active) BY <1>2, <1>4 DEF Results
  <2>2. \A j \in Results(pipe, session.active) : ~(j < 1) BY <1>2 DEF Results
  <2> QED BY <1>1, <1>2, <1>4, <2>1, <2>2, CodexNow DEF CodexLink, CodexPipe
<1>5. Head(pipe).k = "ask" /\ Head(pipe).id[2] # NoTurn => Known(Codex!g0, Head(pipe).id[2])
  BY <1>1, <1>2 DEF CodexLink
<1>6. Head(pipe).k = "answer" /\ Head(pipe).id[1] = "start" /\ Head(pipe).out \in Outcome =>
        Head(pipe).id[2] \in Turn /\ native[Head(pipe).id[2]] \in {Head(pipe).out, "past"}
  BY <1>1, <1>2 DEF CodexPipe
<1> QED BY <1>2, <1>3, <1>4, <1>5, <1>6

\* A frame whose handling moves the adapter, and ends the turn if it was its result
LEMMA CodexReads ==
    ASSUME CodexInv, NEW h, Codex!Become(h), CodexGood(h, native), native' = native, CodexMoves(Codex!g0, h),
           pipe # <<>>, pipe' = Tail(pipe),
           client = "running" => Head(pipe).k # "result" \/ Head(pipe).id[2] # session.active \/ h.s.active = NoTurn,
           client' = "running" => client = "running" /\ broken' = broken,
           child' = child \/ child' # "alive", ladder = "gaveUp" => ladder' = "gaveUp"
    PROVE  CodexInv'
<1>1. CodexStays(Codex!g0, h) BY DEF CodexMoves
<1>2. client = "running" => ~(Head(pipe).k = "result" /\ Head(pipe).id[2] = h.s.active)
  BY ONLY CodexInv, <1>1, pipe # <<>>,
     client = "running" => Head(pipe).k # "result" \/ Head(pipe).id[2] # session.active \/ h.s.active = NoTurn,
     CodexHead
<1> QED BY <1>2, CodexSettlesMoves

\* Every frame that is read keeps the invariant.
LEMMA CodexReadFrame == ASSUME CodexInv, Codex!ReadFrame PROVE CodexInv'
<1> DEFINE f == Head(pipe)
           Calmly == UNCHANGED <<client, broken, child, ladder>>
<1>f. CodexGood(Codex!g0, native) /\ Codex!g0 \in CodexState /\ Codex!g0.c.work = cli.work
      /\ pipe \in Seq(FrameSet) /\ pending \in SUBSET CodexRequest
  BY CodexFacts
<1>0. pipe # <<>> /\ pipe' = Tail(pipe) /\ native' = native
  BY DEF Codex!ReadFrame, Codex!NextFrame
<1>1. \/ /\ f.k = "garbage" /\ ~broken /\ Codex!BreakStdout
         /\ IF client = "closed" THEN Codex!Become(Codex!g0) /\ UNCHANGED <<client, expected, ladder>>
            ELSE /\ client' = "failed" /\ Codex!StartLadder("signals")
                 /\ LET h == IF Codex!Listening THEN Codex!FailRuntime(Codex!g0) ELSE Codex!g0
                    IN  Codex!Become([Codex!Rejected(h) EXCEPT !.p = {}])
      \/ /\ f.k = "answer" /\ client = "running" /\ session.at \in Codex!Launching
         /\ Codex!LaunchContinues(f.out = "ok") /\ Calmly
      \/ /\ f.k = "answer" /\ client = "running" /\ f.id \in pending
         /\ LET g == [Codex!g0 EXCEPT !.p = @ \ {f.id}]
            IN  Codex!Become(CASE f.id[1] = "start" -> Codex!TurnStarted(g, f.id[2], f.out)
                               [] f.id[1] = "interrupt" /\ f.out = "error" -> Codex!FailTurn(g, f.id[2])
                               [] OTHER -> g)
         /\ Calmly
      \/ /\ f.k \in {"text", "result"} /\ client = "running"
         /\ Codex!Become(Codex!HandleNotification(Codex!g0, f)) /\ Calmly
      \/ /\ f.k = "ask" /\ client = "running"
         /\ Codex!Become(Codex!HandleServerRequest(Codex!g0, f.id[2])) /\ Calmly
      \/ /\ ~(f.k \in {"text", "result"} /\ client = "running")
         /\ Codex!Become(Codex!g0) /\ Calmly
  BY DEF Codex!ReadFrame, Codex!processVars, Codex!Answers
<1>2. CASE /\ f.k = "garbage" /\ ~broken /\ Codex!BreakStdout
           /\ IF client = "closed" THEN Codex!Become(Codex!g0) /\ UNCHANGED <<client, expected, ladder>>
              ELSE /\ client' = "failed" /\ Codex!StartLadder("signals")
                   /\ LET h == IF Codex!Listening THEN Codex!FailRuntime(Codex!g0) ELSE Codex!g0
                      IN  Codex!Become([Codex!Rejected(h) EXCEPT !.p = {}])
  <2>0. child' = child BY <1>2 DEF Codex!BreakStdout
  <2>1. CASE client = "closed"
    <3>1. Codex!Become(Codex!g0) /\ client' # "running" /\ ladder' = ladder BY <1>2, <2>1
    <3>2. CodexMoves(Codex!g0, Codex!g0) BY CodexMovesItself
    <3>3. client # "running" BY <2>1
    <3> QED BY ONLY CodexInv, <1>f, <1>0, <2>0, <3>1, <3>2, <3>3, CodexReads
  <2>2. CASE client # "closed"
    <3>1. PICK h : h = IF Codex!Listening THEN Codex!FailRuntime(Codex!g0) ELSE Codex!g0 OBVIOUS
    <3>2. PICK l : l = [Codex!Rejected(h) EXCEPT !.p = {}] OBVIOUS
    <3>3. Codex!Become(l) /\ client' # "running" BY <1>2, <2>2, <3>1, <3>2
    <3>4. ladder = "gaveUp" => ladder' = "gaveUp" BY <1>2, <2>2 DEF Codex!StartLadder
    <3>5. CodexGood(h, native) /\ CodexMoves(Codex!g0, h) /\ h.c.work = cli.work
      <4>1. CASE h = Codex!g0 BY <1>f, <4>1, CodexMovesItself
      <4>2. CASE h = Codex!FailRuntime(Codex!g0) BY <1>f, <4>2, CodexFailRuntime
      <4> QED BY <3>1, <4>1, <4>2
    <3>6. CodexGood(l, native) /\ CodexMoves(h, l) BY ONLY <3>2, <3>5, CodexRejects
    <3>7. CodexMoves(Codex!g0, l) BY ONLY <1>f, <3>5, <3>6, CodexMovesOn
    <3>8. f.k # "result" BY <1>2
    <3> QED BY ONLY CodexInv, <1>0, <2>0, <3>3, <3>4, <3>6, <3>7, <3>8, CodexReads
  <2> QED BY <2>1, <2>2
<1>3. CASE /\ f.k = "answer" /\ client = "running" /\ session.at \in Codex!Launching
           /\ Codex!LaunchContinues(f.out = "ok") /\ Calmly
  <2>1. PICK ok \in BOOLEAN : ok = (f.out = "ok") OBVIOUS
  <2>2. Codex!LaunchContinues(ok) BY <1>3, <2>1
  <2>3. ok \in BOOLEAN /\ f.k = "answer" /\ client = "running" /\ session.at \in Codex!Launching /\ Calmly
    BY <1>3, <2>1
  <2> QED BY ONLY CodexInv, <1>0, <2>2, <2>3, CodexLaunchContinues
<1>4. CASE /\ f.k = "answer" /\ client = "running" /\ f.id \in pending
           /\ LET g == [Codex!g0 EXCEPT !.p = @ \ {f.id}]
              IN  Codex!Become(CASE f.id[1] = "start" -> Codex!TurnStarted(g, f.id[2], f.out)
                                 [] f.id[1] = "interrupt" /\ f.out = "error" -> Codex!FailTurn(g, f.id[2])
                                 [] OTHER -> g)
           /\ Calmly
  <2>r. PICK r : r = f.id OBVIOUS
  <2>1. PICK g : g = [Codex!g0 EXCEPT !.p = @ \ {r}] OBVIOUS
  <2>2. PICK l : l = CASE r[1] = "start" -> Codex!TurnStarted(g, r[2], f.out)
                       [] r[1] = "interrupt" /\ f.out = "error" -> Codex!FailTurn(g, r[2])
                       [] OTHER -> g
    OBVIOUS
  <2>3. Codex!Become(l) BY <1>4, <2>r, <2>1, <2>2
  <2>4. CodexGood(g, native) /\ CodexMoves(Codex!g0, g) /\ g.c.work = cli.work
    <3>1. g.c = cli /\ CodexGood(g, native) /\ CodexMoves(Codex!g0, g) BY ONLY CodexInv, <2>1, CodexAnswered
    <3> QED BY <3>1
  <2>5. r \in CodexRequest BY <1>f, <1>4, <2>r
  <2>6. CodexGood(l, native) /\ CodexMoves(g, l)
    <3>1. CASE r[1] = "start"
      <4>1. r[2] \in Turn BY <2>5, <3>1 DEF CodexRequest
      <4>2. l = Codex!TurnStarted(g, r[2], f.out) BY <2>2, <3>1
      <4>3. f.out \in Outcome => native[r[2]] \in {f.out, "past"}
        BY <1>0, <1>4, <2>r, <3>1, CodexFirst
      <4>4. PICK t \in Turn : t = r[2] BY <4>1
      <4>6. PICK x : x = f.out OBVIOUS
      <4>5. l = Codex!TurnStarted(g, t, x) /\ (x \in Outcome => native[t] \in {x, "past"}) /\ t \in Turn
        BY <4>2, <4>3, <4>4, <4>6
      <4> QED BY ONLY <2>4, <4>5, CodexTurnStarted
    <3>2. CASE r[1] = "interrupt" /\ f.out = "error"
      <4>1. r[2] \in Turn BY <2>5, <3>2 DEF CodexRequest
      <4>2. l = Codex!FailTurn(g, r[2]) BY <2>2, <3>2
      <4>3. PICK t \in Turn : t = r[2] BY <4>1
      <4>4. l = Codex!FailTurn(g, t) /\ t \in Turn BY <4>2, <4>3
      <4> QED BY ONLY <2>4, <4>4, CodexFailTurn
    <3>3. CASE r[1] # "start" /\ ~(r[1] = "interrupt" /\ f.out = "error")
      <4>1. l = g BY <2>2, <3>3
      <4> QED BY <2>4, <4>1, CodexMovesItself
    <3> QED BY <3>1, <3>2, <3>3
  <2>7. CodexMoves(Codex!g0, l) BY ONLY <1>f, <2>4, <2>6, CodexMovesOn
  <2>8. f.k # "result" /\ Calmly BY <1>4
  <2> QED BY ONLY CodexInv, <1>0, <2>3, <2>6, <2>7, <2>8, CodexReads
<1>5. CASE /\ f.k \in {"text", "result"} /\ client = "running"
           /\ Codex!Become(Codex!HandleNotification(Codex!g0, f)) /\ Calmly
  <2>1. PICK l : l = Codex!HandleNotification(Codex!g0, f) OBVIOUS
  <2>2. Codex!Become(l) /\ Calmly BY <1>5, <2>1
  <2>3. /\ f.id[2] \in Turn /\ Known(Codex!g0, f.id[2])
        /\ f.k = "result" /\ f.id[2] = Codex!g0.s.active => f.out \in Outcome /\ native[Codex!g0.s.active] = f.out
    BY <1>0, <1>5, CodexFirst, CodexNow
  <2>4. Codex!g0.e = stream /\ f.k \in {"text", "result"} BY <1>5, CodexNow
  <2>5. PICK x : x = f OBVIOUS
  <2>6. /\ x.id[2] \in Turn /\ Known(Codex!g0, x.id[2]) /\ x.k \in {"text", "result"}
        /\ x.k = "result" /\ x.id[2] = Codex!g0.s.active => x.out \in Outcome /\ native[Codex!g0.s.active] = x.out
        /\ l = Codex!HandleNotification(Codex!g0, x)
    BY ONLY <2>1, <2>3, <2>4, <2>5
  <2>7. /\ CodexGood(l, native) /\ CodexMoves(Codex!g0, l)
        /\ x.k = "result" /\ x.id[2] = Codex!g0.s.active => l.s.active = NoTurn
    BY ONLY <1>f, <2>4, <2>6, CodexNotified
  <2>8. f.k # "result" \/ f.id[2] # session.active \/ l.s.active = NoTurn BY <2>5, <2>7, CodexNow
  <2> QED BY ONLY CodexInv, <1>0, <2>2, <2>7, <2>8, CodexReads
<1>6. CASE /\ f.k = "ask" /\ client = "running"
           /\ Codex!Become(Codex!HandleServerRequest(Codex!g0, f.id[2])) /\ Calmly
  <2>1. PICK id : id = f.id[2] OBVIOUS
  <2>2. PICK l : l = Codex!HandleServerRequest(Codex!g0, id) OBVIOUS
  <2>3. Codex!Become(l) /\ Calmly /\ f.k # "result" BY <1>6, <2>1, <2>2
  <2>4. id \in Subject /\ (id # NoTurn => Known(Codex!g0, id))
    <3>1. f \in FrameSet /\ (f.id[2] # NoTurn => Known(Codex!g0, f.id[2])) BY <1>0, <1>6, CodexFirst
    <3> QED BY <2>1, <3>1 DEF FrameSet, Request
  <2>5. CodexGood(l, native) /\ CodexMoves(Codex!g0, l) BY ONLY <1>f, <2>2, <2>4, CodexRequested
  <2> QED BY ONLY CodexInv, <1>0, <2>3, <2>5, CodexReads
<1>7. CASE /\ ~(f.k \in {"text", "result"} /\ client = "running")
           /\ Codex!Become(Codex!g0) /\ Calmly
  <2>1. CodexMoves(Codex!g0, Codex!g0) BY CodexMovesItself
  <2>2. client = "running" => f.k # "result" BY <1>7
  <2>3. Codex!Become(Codex!g0) /\ Calmly BY <1>7
  <2> QED BY ONLY CodexInv, <1>f, <1>0, <2>1, <2>2, <2>3, CodexReads
<1> QED BY <1>1, <1>2, <1>3, <1>4, <1>5, <1>6, <1>7

\* Whatever the CLI still has, or has said, is about turns that are retired.
CodexPast(c, f, R) ==
    /\ R \subseteq Turn
    /\ \A i \in DOMAIN c.work : c.work[i] \in R
    /\ c.ended \subseteq R
    /\ \A i \in DOMAIN f : Speaks(f[i]) => f[i].id[2] \in R
    /\ \A i \in DOMAIN f : f[i].k = "ask" /\ f[i].id[2] # NoTurn => f[i].id[2] \in R

\* When no Turn is active, all the CLI works on and all it has said is about retired
\* turns.
LEMMA CodexAllPast ==
    ASSUME CodexInv, client = "running", session.active = NoTurn, ~session.poisoned
    PROVE  CodexPast(cli, pipe, session.retired)
<1>1. CodexLink(Codex!g0, native, pipe) /\ session \in CodexSession /\ cli \in CliSet
  BY CodexFacts DEF CodexInv, CodexCalm
<1>2. \A u \in Turn : Known(Codex!g0, u) => u \in session.retired
  BY CodexNow DEF Known, Turn, NoTurn
<1>3. cli.ended \subseteq Turn /\ \A i \in DOMAIN cli.work : cli.work[i] \in Turn BY <1>1 DEF CliSet
<1>4. session.retired \subseteq Turn BY <1>1 DEF CodexSession
<1> QED BY <1>1, <1>2, <1>3, <1>4, CodexNow DEF CodexLink, CodexPast

\* So nothing in flight is about the Turn that starts next.
LEMMA CodexPastLink ==
    ASSUME NEW R, NEW c, NEW f, CodexPast(c, f, R), NEW n, NEW h, R \subseteq h.s.retired,
           h.s.active \notin R, h.c.ended = c.ended,
           \A i \in DOMAIN h.c.work : h.c.work[i] \in R \/ h.c.work[i] = h.s.active,
           Interruption(h.c, h.e, h.t)
    PROVE  CodexLink(h, n, f)
<1>1. Results(f, h.s.active) = {} BY DEF Results, CodexPast, Speaks
<1>2. h.s.active \notin h.c.ended BY DEF CodexPast
<1>3. \A u \in R : Known(h, u) /\ u \in Turn BY DEF Known, CodexPast
<1>4. \A i \in DOMAIN h.c.work : Known(h, h.c.work[i]) BY <1>3 DEF Known
<1>5. \A u \in h.c.ended : Known(h, u) BY <1>3 DEF CodexPast
<1>6. \A i \in DOMAIN f : Speaks(f[i]) => f[i].id[2] \in Turn /\ Known(h, f[i].id[2]) BY <1>3 DEF CodexPast
<1>7. \A i \in DOMAIN f : f[i].k = "ask" /\ f[i].id[2] # NoTurn => f[i].id[2] \in Turn /\ Known(h, f[i].id[2])
  BY <1>3 DEF CodexPast
<1> QED BY <1>1, <1>2, <1>4, <1>5, <1>6, <1>7 DEF CodexLink

\* The CLI has what is retired, and t if it was sent.
LEMMA CodexPastPipe ==
    ASSUME NEW R, NEW c, NEW f, NEW n, NEW m, CodexPipe(c, n, f),
           \A u \in Turn : n[u] \notin {"none", "working"} =>
               m[u] = n[u] \/ (n[u] \in Outcome /\ m[u] = "past"),
           c.ended \subseteq Turn
    PROVE  CodexPipe(c, m, f)
<1>1. \A u \in c.ended : m[u] \notin {"none", "working"} BY DEF CodexPipe, Outcome
<1>2. ASSUME NEW i \in DOMAIN f, f[i].k = "answer", f[i].id[1] = "start", f[i].out \in Outcome
      PROVE  f[i].id[2] \in Turn /\ m[f[i].id[2]] \in {f[i].out, "past"}
  BY <1>2 DEF CodexPipe, Outcome
<1> QED BY <1>1, <1>2 DEF CodexPipe

\* The adapter's state as a prompt sets it.
CodexBegins(k, x, y, z) == [k EXCEPT !.e = x, !.s.active = y, !.t = z]

\* The start of a Turn as the records it makes.
LEMMA CodexSetsBegun ==
    ASSUME NEW k \in CodexState, NEW x, NEW y, NEW z
    PROVE  CodexBegins(k, x, y, z)
           = [s |-> [k.s EXCEPT !.active = y], t |-> z, e |-> x, c |-> k.c, p |-> k.p]
<1>1. \A r : [r EXCEPT !.e = x, !.s.active = y, !.t = z] = [[[r EXCEPT !.e = x] EXCEPT !.s.active = y] EXCEPT !.t = z]
  OBVIOUS
<1>2. [k EXCEPT !.e = x] = [s |-> k.s, t |-> k.t, e |-> x, c |-> k.c, p |-> k.p] BY DEF CodexState
<1>3. [[s |-> k.s, t |-> k.t, e |-> x, c |-> k.c, p |-> k.p] EXCEPT !.s.active = y]
      = [s |-> [k.s EXCEPT !.active = y], t |-> k.t, e |-> x, c |-> k.c, p |-> k.p]
  OBVIOUS
<1>4. [[s |-> [k.s EXCEPT !.active = y], t |-> k.t, e |-> x, c |-> k.c, p |-> k.p] EXCEPT !.t = z]
      = [s |-> [k.s EXCEPT !.active = y], t |-> z, e |-> x, c |-> k.c, p |-> k.p]
  OBVIOUS
<1>5. [k EXCEPT !.e = x, !.s.active = y, !.t = z] = [[[k EXCEPT !.e = x] EXCEPT !.s.active = y] EXCEPT !.t = z]
  BY <1>1
<1> QED BY <1>2, <1>3, <1>4, <1>5 DEF CodexBegins

LEMMA CodexSetsSent ==
    ASSUME NEW k \in CodexState, NEW x, NEW y
    PROVE  [k EXCEPT !.p = x, !.c = y] = [s |-> k.s, t |-> k.t, e |-> k.e, c |-> y, p |-> x]
<1>1. \A r : [r EXCEPT !.p = x, !.c = y] = [[r EXCEPT !.p = x] EXCEPT !.c = y] OBVIOUS
<1>2. [k EXCEPT !.p = x] = [s |-> k.s, t |-> k.t, e |-> k.e, c |-> k.c, p |-> x] BY DEF CodexState
<1>3. [[s |-> k.s, t |-> k.t, e |-> k.e, c |-> k.c, p |-> x] EXCEPT !.c = y]
      = [s |-> k.s, t |-> k.t, e |-> k.e, c |-> y, p |-> x]
  OBVIOUS
<1>4. [k EXCEPT !.p = x, !.c = y] = [[k EXCEPT !.p = x] EXCEPT !.c = y] BY <1>1
<1> QED BY <1>2, <1>3, <1>4

\* The turns, with the signal of t as the prompt finds it.
CodexUncancels(t, y) == [Codex!Uncancelled EXCEPT ![t].cancel = y]

\* A Turn starts cancelled only if its signal was aborted.
LEMMA CodexUncancelled ==
    ASSUME turn \in [Turn -> CodexTurn], NEW t \in Turn, NEW y \in BOOLEAN, NEW tt,
           tt = CodexUncancels(t, y)
    PROVE  /\ tt \in [Turn -> CodexTurn] /\ tt[t].cancel = y
           /\ \A u \in Turn : tt[u].id = turn[u].id
<1>1. /\ Codex!Uncancelled \in [Turn -> CodexTurn]
      /\ \A u \in Turn : Codex!Uncancelled[u].id = turn[u].id
  BY CodexNames DEF Codex!Uncancelled, CodexTurn
<1>2. PICK k \in [Turn -> CodexTurn] : k = Codex!Uncancelled BY <1>1
<1>3. tt = [k EXCEPT ![t].cancel = y] BY <1>2 DEF CodexUncancels
<1>4. /\ tt \in [Turn -> CodexTurn] /\ tt[t].cancel = y /\ \A u \in Turn : tt[u].id = k[u].id
  BY ONLY <1>3, t \in Turn, y \in BOOLEAN, k \in [Turn -> CodexTurn], CodexTurnCancel
<1> QED BY <1>1, <1>2, <1>4

\* The stream of a Turn that starts is new, and every earlier one has ended.
LEMMA CodexOpens ==
    ASSUME CodexInv, NEW t \in Turn, CanPrompt(t), NEW sends \in BOOLEAN
    PROVE  /\ Open(t) \in [Turn -> StreamSet] /\ Delivered(t, sends) \in [Turn -> NativeSet]
           /\ \A c : StreamsOK(Open(t), Delivered(t, sends), c, t)
           /\ \A u \in Turn : stream[u].ends # <<>> => Open(t)[u].ends # <<>>
           /\ Open(t)[t].open /\ Open(t)[t].ends = <<>>
           /\ Delivered(t, sends)[t] = (IF sends /\ child = "alive" THEN "working" ELSE "none")
           /\ native[t] = "none" /\ stream[t].ends = <<>>
           /\ \A u \in Turn \ {t} :
                \/ Delivered(t, sends)[u] = native[u]
                \/ native[u] \in Outcome /\ Delivered(t, sends)[u] = "past"
<1>f. stream \in [Turn -> StreamSet] /\ native \in [Turn -> NativeSet] BY CodexFacts
<1>1. StreamsOK(stream, native, turn, session.active) BY CodexNow DEF CodexInv, CodexGood
<1> QED BY <1>f, <1>1, StreamsOpen

\* The adapter's state when a prompt begins.
CodexBeginning(t, aborted) ==
    [Codex!g0 EXCEPT !.e = Codex!Open(t), !.s.active = t, !.t = [Codex!Uncancelled EXCEPT ![t].cancel = aborted]]

\* The turn as #startTurn finds it
LEMMA CodexBegun ==
    ASSUME CodexInv, session.active = NoTurn, ~session.poisoned, NEW t \in Turn, CanPrompt(t),
           NEW sends, sends \in BOOLEAN, NEW aborted, aborted \in BOOLEAN, NEW g,
           g = CodexBeginning(t, aborted), NEW n, n = Delivered(t, sends)
    PROVE  /\ CodexGood(g, n) /\ n \in [Turn -> NativeSet]
           /\ g \in CodexState /\ g.e = Open(t)
           /\ g.s.active = t /\ g.s.retired = session.retired /\ ~g.s.poisoned
           /\ g.s.teardown = session.teardown /\ g.s.runtime = session.runtime
           /\ g.c = cli /\ g.p = pending /\ g.t[t].cancel = aborted
           /\ t \notin session.retired /\ g.e[t].ends = <<>>
           /\ \A u \in session.retired : g.e[u].ends # <<>>
           /\ n[t] = (IF sends /\ child = "alive" THEN "working" ELSE "none")
           /\ native[t] = "none"
           /\ \A u \in Turn \ {t} :
                \/ n[u] = native[u]
                \/ native[u] \in Outcome /\ n[u] = "past"
<1>0. PICK tt : tt = [Codex!Uncancelled EXCEPT ![t].cancel = aborted] OBVIOUS
<1> DEFINE ss == [session EXCEPT !.active = t]
<1>f. /\ Codex!g0 \in CodexState /\ session \in CodexSession /\ turn \in [Turn -> CodexTurn]
      /\ stream \in [Turn -> StreamSet] /\ cli \in CliSet /\ pending \in SUBSET CodexRequest
      /\ native \in [Turn -> NativeSet]
  BY CodexFacts
<1>1. g = [s |-> ss, t |-> tt, e |-> Open(t), c |-> cli, p |-> pending]
  <2>1. [Codex!g0 EXCEPT !.e = Codex!Open(t), !.s.active = t, !.t = tt]
        = [s |-> [Codex!g0.s EXCEPT !.active = t], t |-> tt, e |-> Codex!Open(t), c |-> Codex!g0.c, p |-> Codex!g0.p]
    <3>1. PICK k \in CodexState : k = Codex!g0 BY <1>f
    <3>2. PICK x : x = Codex!Open(t) OBVIOUS
    <3>3. CodexBegins(k, x, t, tt)
          = [s |-> [k.s EXCEPT !.active = t], t |-> tt, e |-> x, c |-> k.c, p |-> k.p]
      BY CodexSetsBegun
    <3> QED BY <3>1, <3>2, <3>3 DEF CodexBegins
  <2>2. Codex!Open(t) = Open(t) BY CodexNames
  <2> QED BY <2>1, <2>2, <1>0, CodexNow DEF CodexBeginning
<1>u. tt = CodexUncancels(t, aborted) BY <1>0 DEF CodexUncancels
<1>2. tt \in [Turn -> CodexTurn] /\ tt[t].cancel = aborted /\ \A u \in Turn : tt[u].id = turn[u].id
  BY ONLY <1>u, <1>f, t \in Turn, aborted \in BOOLEAN, CodexUncancelled
<1>3. /\ ss \in CodexSession /\ ss.active = t /\ ss.retired = session.retired /\ ss.poisoned = session.poisoned
      /\ ss.teardown = session.teardown /\ ss.runtime = session.runtime
  BY <1>f DEF CodexSession, Subject
<1>4. /\ StreamsOK(stream, native, turn, session.active)
      /\ \A u \in session.retired : stream[u].ends # <<>>
      /\ \A u \in Turn : turn[u].id \in {NoTurn, u}
  BY CodexNow DEF CodexInv, CodexGood
<1>5. /\ Open(t) \in [Turn -> StreamSet] /\ Delivered(t, sends) \in [Turn -> NativeSet]
      /\ StreamsOK(Open(t), Delivered(t, sends), tt, t)
      /\ \A u \in Turn : stream[u].ends # <<>> => Open(t)[u].ends # <<>>
      /\ Open(t)[t].open /\ Open(t)[t].ends = <<>>
      /\ Delivered(t, sends)[t] = (IF sends /\ child = "alive" THEN "working" ELSE "none")
      /\ native[t] = "none" /\ stream[t].ends = <<>>
      /\ \A u \in Turn \ {t} :
            \/ Delivered(t, sends)[u] = native[u]
            \/ native[u] \in Outcome /\ Delivered(t, sends)[u] = "past"
  BY ONLY CodexInv, t \in Turn, sends \in BOOLEAN, CanPrompt(t), CodexOpens
<1> HIDE DEF ss
<1>6. /\ g.s = ss /\ g.t = tt /\ g.e = Open(t) /\ g.c = cli /\ g.p = pending /\ g \in CodexState
  BY ONLY <1>1, <1>2, <1>3, <1>5, <1>f DEF CodexState
<1>7. session.retired \subseteq Turn BY <1>f DEF CodexSession
<1>8. CodexGood(g, Delivered(t, sends))
  BY <1>2, <1>3, <1>4, <1>5, <1>6, <1>7 DEF CodexGood
<1> QED BY <1>2, <1>3, <1>4, <1>5, <1>6, <1>7, <1>8 DEF ss

\* What the CLI has, and said, agrees with the prompt.
LEMMA CodexAgrees ==
    ASSUME CodexInv, client = "running", NEW t \in Turn, NEW m, native[t] = "none",
           \A u \in Turn \ {t} : m[u] = native[u] \/ (native[u] \in Outcome /\ m[u] = "past")
    PROVE  ~broken /\ WorkOK(cli, m) /\ CodexPipe(cli, m, pipe) /\ pipe \in Seq(FrameSet)
<1>1. /\ ~broken /\ WorkOK(cli, native) /\ CodexPipe(cli, native, pipe) /\ cli \in CliSet /\ pipe \in Seq(FrameSet)
  BY CodexFacts DEF CodexInv, CodexCalm
<1>2. \A i \in DOMAIN cli.work : cli.work[i] \in Turn BY <1>1 DEF CliSet
<1>3. WorkOK(cli, m) BY <1>1, <1>2 DEF WorkOK, Outcome
<1>4. cli.ended \subseteq Turn BY <1>1 DEF CliSet
<1>5. \A u \in Turn : native[u] \notin {"none", "working"} =>
        m[u] = native[u] \/ (native[u] \in Outcome /\ m[u] = "past")
  OBVIOUS
<1>6. CodexPipe(cli, m, pipe) BY ONLY <1>1, <1>4, <1>5, CodexPastPipe
<1> QED BY <1>1, <1>3, <1>6

\* An interruption is of a turn that is retired.
LEMMA CodexPastInterruption ==
    ASSUME CodexInv, client = "running", CodexPast(cli, pipe, session.retired), cli.interrupted
    PROVE  /\ cli.work # <<>> /\ Head(cli.work) \in session.retired
<1>1. CodexLink(Codex!g0, native, pipe) /\ cli \in CliSet
  BY CodexFacts DEF CodexInv, CodexCalm
<1>2. cli.work # <<>> BY <1>1, CodexNow DEF CodexLink, Interruption
<1>3. 1 \in DOMAIN cli.work /\ Head(cli.work) = cli.work[1] BY <1>1, <1>2 DEF CliSet
<1> QED BY <1>2, <1>3 DEF CodexPast

\* The turn was aborted before it was sent.
LEMMA CodexPromptAborted ==
    ASSUME NEW g, NEW n, CodexGood(g, n), NEW t \in Turn, g.s.active = t, g.t[t].cancel, g.e[t].ends = <<>>,
           \A u \in g.s.retired : g.e[u].ends # <<>>,
           NEW h, h = Codex!EmitTerminal(g, t, "cancelled")
    PROVE  /\ CodexGood(h, n) /\ h.c = g.c /\ h.s.active = NoTurn /\ g.s.retired \subseteq h.s.retired
           /\ h.s.teardown = g.s.teardown /\ h.s.runtime = g.s.runtime
           /\ \A u \in g.s.retired : h.e[u].ends # <<>>
<1>g. /\ g.e \in [Turn -> StreamSet] /\ g.s.retired \subseteq Turn /\ (g.e[t].open => g.e[t].ends = <<>>)
  BY DEF CodexGood, CodexState, CodexSession, StreamsOK
<1>1. PICK o \in Outcome : o = "cancelled" BY DEF Outcome
<1>2. h = Codex!EmitTerminal(g, t, o) /\ (o = "completed" => n[t] = "completed") /\ (o = "cancelled" => g.t[t].cancel)
  BY <1>1
<1>3. CodexEmits(g, h, t, o) /\ CodexGood(h, n)
  BY ONLY <1>2, CodexGood(g, n), t \in Turn, o \in Outcome, g.e[t].ends = <<>>, CodexEmit
<1>4. h.e = Ended(g.e, t, o) /\ h.c = g.c /\ h.s.active = NoTurn /\ g.s.retired \subseteq h.s.retired
      /\ h.s.teardown = g.s.teardown /\ h.s.runtime = g.s.runtime
  BY <1>3 DEF CodexEmits
<1>5. \A u \in Turn : g.e[u].ends # <<>> => Ended(g.e, t, o)[u].ends # <<>>
  BY <1>g, EndedOnce
<1> QED BY <1>g, <1>3, <1>4, <1>5

\* The adapter's state when turn/start has been written.
CodexSent(g, t) ==
    [g EXCEPT !.p = @ \cup {<<"start", t>>},
              !.c = IF child = "alive" THEN Codex!Asked(Codex!Prompted(@, t), <<"start", t>>) ELSE @]

\* The turn was asked for.
LEMMA CodexPromptSent ==
    ASSUME NEW g, NEW n, CodexGood(g, n), NEW t \in Turn, NEW h, h = CodexSent(g, t)
    PROVE  /\ CodexGood(h, n) /\ h.s = g.s /\ h.e = g.e /\ h.t = g.t
           /\ h.c.ended = g.c.ended /\ h.c.interrupted = g.c.interrupted
           /\ h.c.work = IF child = "alive" THEN Append(g.c.work, t) ELSE g.c.work
<1> DEFINE b == [g.c EXCEPT !.work = Append(@, t)]
           cc == IF child = "alive" THEN Codex!Asked(Codex!Prompted(g.c, t), <<"start", t>>) ELSE g.c
           pp == g.p \cup {<<"start", t>>}
<1>g. g \in CodexState /\ g.c \in CliSet /\ g.p \in SUBSET CodexRequest BY DEF CodexGood, CodexState
<1>1. h = [s |-> g.s, t |-> g.t, e |-> g.e, c |-> cc, p |-> pp]
  <2>1. h = [g EXCEPT !.p = pp, !.c = cc] BY DEF CodexSent
  <2> HIDE DEF pp, cc
  <2>2. PICK x : x = pp OBVIOUS
  <2>3. PICK y : y = cc OBVIOUS
  <2>4. h = [g EXCEPT !.p = x, !.c = y] BY <2>1, <2>2, <2>3
  <2>5. [g EXCEPT !.p = x, !.c = y] = [s |-> g.s, t |-> g.t, e |-> g.e, c |-> y, p |-> x]
    BY ONLY <1>g, CodexSetsSent
  <2> QED BY <2>2, <2>3, <2>4, <2>5
<1>2. pp \in SUBSET CodexRequest BY <1>g DEF CodexRequest
<1>3. /\ cc \in CliSet /\ cc.ended = g.c.ended /\ cc.interrupted = g.c.interrupted
      /\ cc.work = IF child = "alive" THEN Append(g.c.work, t) ELSE g.c.work
  <2>1. CASE child = "alive"
    <3>1. Append(g.c.work, t) \in Seq(Turn)
      <4>1. g.c.work \in Seq(Turn) BY <1>g DEF CliSet
      <4> QED BY <4>1, AppendProperties
    <3>2. PICK w : w = Append(g.c.work, t) OBVIOUS
    <3>3. b = [g.c EXCEPT !.work = w] BY <3>2
    <3>4. b \in CliSet /\ b.work = w /\ b.interrupted = g.c.interrupted /\ b.ended = g.c.ended
      BY ONLY <1>g, <3>1, <3>2, <3>3 DEF CliSet
    <3>5. Codex!Prompted(g.c, t) = b BY <2>1 DEF Codex!Prompted
    <3>6. <<"start", t>> \in Request BY DEF Request, Subject
    <3>7. PICK r \in Request : r = <<"start", t>> BY <3>6
    <3>8. cc = Codex!Asked(b, r) BY <2>1, <3>5, <3>7
    <3> HIDE DEF b
    <3>9. /\ Codex!Asked(b, r) \in CliSet /\ Codex!Asked(b, r).work = b.work
          /\ Codex!Asked(b, r).interrupted = b.interrupted /\ Codex!Asked(b, r).ended = b.ended
      BY ONLY <3>4, <3>7, CodexAsked
    <3> QED BY <2>1, <3>2, <3>4, <3>8, <3>9
  <2>2. CASE child # "alive" BY <2>2, <1>g
  <2> QED BY <2>1, <2>2
<1> HIDE DEF cc, pp
<1>4. /\ h \in CodexState /\ h.s = g.s /\ h.t = g.t /\ h.e = g.e /\ h.c = cc
  BY ONLY <1>1, <1>2, <1>3, <1>g DEF CodexState
<1>5. CodexGood(h, n) BY <1>4 DEF CodexGood
<1> QED BY <1>3, <1>4, <1>5

\* A Turn is sent to a runtime that no earlier Turn has poisoned.
LEMMA CodexPrompt ==
    ASSUME CodexInv, NEW t \in Turn, NEW aborted \in BOOLEAN, Codex!Prompt(t, aborted) PROVE CodexInv'
<1> DEFINE sent == ~aborted /\ client = "running"
<1>0. PICK sends \in BOOLEAN : sends = sent OBVIOUS
<1>1. PICK g : g = CodexBeginning(t, aborted) OBVIOUS
<1>2. /\ session.runtime /\ session.at = "ready" /\ ~session.poisoned /\ session.active = NoTurn /\ CanPrompt(t)
      /\ UNCHANGED <<child, ladder, broken, pipe, client>>
  BY CodexNames DEF Codex!Prompt, Codex!Ready, Codex!processVars
<1>3. native' = Delivered(t, sends)
  BY <1>0, CodexNames DEF Codex!Prompt, Codex!CanRequest
<1>4. PICK h : h = CASE aborted -> Codex!EmitTerminal(g, t, "cancelled")
                     [] sends -> CodexSent(g, t)
                     [] OTHER -> Codex!FailTurn(g, t)
  OBVIOUS
<1>5. Codex!Become(h) BY <1>0, <1>1, <1>4 DEF Codex!Prompt, Codex!CanRequest, CodexBeginning, CodexSent
<1> HIDE DEF sent
<1>6. PICK n : n = Delivered(t, sends) OBVIOUS
<1>7. /\ CodexGood(g, n) /\ n \in [Turn -> NativeSet] /\ native' = n
      /\ g.s.active = t /\ g.s.retired = session.retired /\ ~g.s.poisoned
      /\ g.s.teardown = session.teardown /\ g.s.runtime
      /\ g.c = cli /\ g.t[t].cancel = aborted
      /\ t \notin session.retired /\ g.e[t].ends = <<>>
      /\ \A u \in session.retired : g.e[u].ends # <<>>
      /\ n[t] = (IF sends /\ child = "alive" THEN "working" ELSE "none")
      /\ native[t] = "none"
      /\ \A u \in Turn \ {t} : n[u] = native[u] \/ (native[u] \in Outcome /\ n[u] = "past")
  <2>1. /\ CodexGood(g, n) /\ n \in [Turn -> NativeSet]
        /\ g.s.active = t /\ g.s.retired = session.retired /\ ~g.s.poisoned
        /\ g.s.teardown = session.teardown /\ g.s.runtime = session.runtime
        /\ g.c = cli /\ g.t[t].cancel = aborted
        /\ t \notin session.retired /\ g.e[t].ends = <<>>
        /\ \A u \in session.retired : g.e[u].ends # <<>>
        /\ n[t] = (IF sends /\ child = "alive" THEN "working" ELSE "none")
        /\ native[t] = "none"
        /\ \A u \in Turn \ {t} : \/ n[u] = native[u]
                                 \/ native[u] \in Outcome /\ n[u] = "past"
    <3>1. session.active = NoTurn /\ ~session.poisoned /\ CanPrompt(t) BY <1>2
    <3> QED BY ONLY CodexInv, <1>1, <1>6, <3>1, t \in Turn, sends \in BOOLEAN, aborted \in BOOLEAN, CodexBegun
  <2> QED BY <2>1, <1>2, <1>3, <1>6
<1>8. session.teardown = "closing" => client # "running" BY DEF CodexInv
<1>9. client = "running" => /\ ~broken /\ WorkOK(cli, n) /\ CodexPipe(cli, n, pipe) /\ pipe \in Seq(FrameSet)
                            /\ CodexPast(cli, pipe, session.retired)
                            /\ cli.interrupted => cli.work # <<>> /\ Head(cli.work) \in session.retired
  BY ONLY CodexInv, <1>2, <1>7, t \in Turn, CodexAgrees, CodexAllPast, CodexPastInterruption
<1>p. pipe \in Seq(FrameSet) BY CodexFacts
<1>10. CASE aborted
  <2>1. h = Codex!EmitTerminal(g, t, "cancelled") BY <1>0, <1>4, <1>10 DEF sent
  <2>c. g.t[t].cancel BY <1>7, <1>10
  <2>2. /\ CodexGood(h, n) /\ h.c = g.c /\ h.s.active = NoTurn /\ session.retired \subseteq h.s.retired
        /\ h.s.teardown = g.s.teardown /\ h.s.runtime = g.s.runtime
        /\ \A u \in session.retired : h.e[u].ends # <<>>
    <3>1. CodexGood(g, n) /\ g.s.active = t /\ g.e[t].ends = <<>> /\ \A u \in g.s.retired : g.e[u].ends # <<>>
      BY <1>7
    <3>2. /\ CodexGood(h, n) /\ h.c = g.c /\ h.s.active = NoTurn /\ g.s.retired \subseteq h.s.retired
          /\ h.s.teardown = g.s.teardown /\ h.s.runtime = g.s.runtime
          /\ \A u \in g.s.retired : h.e[u].ends # <<>>
      BY ONLY <2>1, <2>c, <3>1, t \in Turn, CodexPromptAborted
    <3> QED BY <3>2, <1>7
  <2>3. ASSUME client = "running" PROVE CodexLink(h, n, pipe)
    <3>1. CodexPast(cli, pipe, session.retired) BY <1>9, <2>3
    <3>2. Interruption(h.c, h.e, h.t) BY <1>7, <1>9, <2>2, <2>3 DEF Interruption
    <3>3. h.s.active \notin session.retired BY <2>2, <3>1 DEF CodexPast, Turn, NoTurn
    <3>4. h.c.ended = cli.ended /\ \A i \in DOMAIN h.c.work : h.c.work[i] \in session.retired
      BY <1>7, <2>2, <3>1 DEF CodexPast
    <3> QED BY ONLY <2>2, <3>1, <3>2, <3>3, <3>4, CodexPastLink
  <2>4. /\ h.s.runtime /\ h.c = cli /\ (h.s.teardown = "closing" => client' # "running")
    BY <1>2, <1>7, <1>8, <2>2
  <2> QED BY <1>2, <1>5, <1>7, <1>9, <1>p, <2>2, <2>3, <2>4, CodexSettles
<1>11. CASE ~aborted /\ sends
  <2>0. client = "running" BY <1>0, <1>11 DEF sent
  <2>1. h = CodexSent(g, t) BY <1>4, <1>11
  <2>2. /\ CodexGood(h, n) /\ h.s = g.s /\ h.e = g.e /\ h.t = g.t
        /\ h.c.ended = g.c.ended /\ h.c.interrupted = g.c.interrupted
        /\ h.c.work = IF child = "alive" THEN Append(g.c.work, t) ELSE g.c.work
    BY ONLY <1>7, <2>1, t \in Turn, CodexPromptSent
  <2>3. /\ CodexPast(cli, pipe, session.retired) /\ WorkOK(cli, n) /\ CodexPipe(cli, n, pipe) /\ ~broken
        /\ cli.interrupted => cli.work # <<>> /\ Head(cli.work) \in session.retired
    BY <1>9, <2>0
  <2>4. /\ WorkOK(h.c, n) /\ (\A i \in DOMAIN h.c.work : h.c.work[i] \in session.retired \/ h.c.work[i] = t)
        /\ h.c.interrupted => h.c.work # <<>> /\ Head(h.c.work) \in session.retired
    <3>1. CASE child # "alive"
      <4>1. h.c.work = cli.work BY <1>7, <2>2, <3>1
      <4> QED BY <4>1, <1>7, <2>2, <2>3, CodexWorkSame DEF CodexPast
    <3>2. CASE child = "alive"
      <4>1. h.c.work = Append(cli.work, t) /\ n[t] = "working" BY <1>7, <1>11, <2>2, <3>2
      <4>2. cli.work \in Seq(Turn) BY CodexFacts DEF CliSet
      <4>3. /\ \A i \in DOMAIN h.c.work :
                \/ i \in DOMAIN cli.work /\ h.c.work[i] = cli.work[i]
                \/ i = Len(cli.work) + 1 /\ i \notin DOMAIN cli.work /\ h.c.work[i] = t
            /\ \A i \in DOMAIN cli.work : i \in DOMAIN h.c.work /\ h.c.work[i] = cli.work[i]
            /\ h.c.work \in Seq(Turn)
        BY <4>1, <4>2, SeqAppend
      <4>4. \A i \in DOMAIN cli.work : cli.work[i] \in session.retired /\ cli.work[i] # t
        BY <2>3, <1>7 DEF CodexPast
      <4>5. WorkOK(h.c, n)
        <5>1. \A i \in DOMAIN h.c.work : n[h.c.work[i]] = "working" BY <2>3, <4>1, <4>3 DEF WorkOK
        <5>2. ASSUME NEW i \in DOMAIN h.c.work, NEW j \in DOMAIN h.c.work, i # j PROVE h.c.work[i] # h.c.work[j]
          BY <5>2, <2>3, <4>3, <4>4 DEF WorkOK
        <5> QED BY <5>1, <5>2 DEF WorkOK
      <4>6. ASSUME h.c.interrupted PROVE h.c.work # <<>> /\ Head(h.c.work) \in session.retired
        <5>1. cli.work # <<>> /\ Head(cli.work) \in session.retired BY <4>6, <1>7, <2>2, <2>3
        <5>2. 1 \in DOMAIN cli.work /\ Head(cli.work) = cli.work[1] BY <4>2, <5>1
        <5>3. 1 \in DOMAIN h.c.work /\ h.c.work[1] = cli.work[1] BY <4>3, <5>2
        <5>4. h.c.work # <<>> /\ Head(h.c.work) = h.c.work[1] BY <4>3, <5>3
        <5> QED BY <5>1, <5>2, <5>3, <5>4
      <4> QED BY <4>3, <4>4, <4>5, <4>6
    <3> QED BY <3>1, <3>2
  <2>5. Interruption(h.c, h.e, h.t) BY <1>7, <2>2, <2>4 DEF Interruption
  <2>6. /\ session.retired \subseteq h.s.retired /\ h.s.active \notin session.retired /\ h.s.active = t
        /\ h.c.ended = cli.ended
    BY <1>7, <2>2
  <2>7. CodexLink(h, n, pipe) BY ONLY <2>3, <2>4, <2>5, <2>6, CodexPastLink
  <2>8. CodexPipe(h.c, n, pipe) BY ONLY <2>3, <2>6, CodexPipeSame
  <2>9. h.s.runtime /\ (h.s.teardown = "closing" => client' # "running") BY <1>2, <1>7, <1>8, <2>2
  <2> QED BY <1>2, <1>5, <1>7, <1>p, <2>2, <2>3, <2>4, <2>7, <2>8, <2>9, CodexSettles
<1>12. CASE ~aborted /\ ~sends
  <2>0. client # "running" BY <1>0, <1>12 DEF sent
  <2>1. h = Codex!FailTurn(g, t) BY <1>4, <1>12
  <2>2. CodexGood(h, n) /\ CodexMoves(g, h) BY ONLY <1>7, <2>1, t \in Turn, CodexFailTurn
  <2>3. h.s.runtime BY <1>7, <2>2 DEF CodexMoves
  <2> QED BY <1>2, <1>5, <1>7, <1>p, <2>0, <2>2, <2>3, CodexSettles
<1> QED BY <1>10, <1>11, <1>12

\* What the CLI writes is the last frame of the pipe.
LEMMA CodexLinkGrows ==
    ASSUME NEW g, NEW n, NEW f \in Seq(FrameSet), NEW x \in FrameSet, NEW d, d = Append(f, x),
           CodexLink(g, n, f),
           Speaks(x) => x.id[2] \in Turn /\ Known(g, x.id[2]),
           x.k = "ask" /\ x.id[2] # NoTurn => x.id[2] \in Turn /\ Known(g, x.id[2]),
           x.k = "result" /\ x.id[2] = g.s.active => Results(f, g.s.active) # {} \/ x.out = n[g.s.active]
    PROVE  CodexLink(g, n, d)
<1>1. /\ DOMAIN f \subseteq Nat
      /\ \A i \in DOMAIN d : \/ i \in DOMAIN f /\ d[i] = f[i]
                             \/ i \notin DOMAIN f /\ d[i] = x /\ \A j \in DOMAIN f : j < i
      /\ \A i \in DOMAIN f : i \in DOMAIN d /\ d[i] = f[i]
  BY SeqAppend
<1>2. /\ \A i \in DOMAIN d : Speaks(d[i]) => d[i].id[2] \in Turn /\ Known(g, d[i].id[2])
      /\ \A i \in DOMAIN d : d[i].k = "ask" /\ d[i].id[2] # NoTurn => d[i].id[2] \in Turn /\ Known(g, d[i].id[2])
  BY <1>1 DEF CodexLink
<1>3. \A i \in Results(f, g.s.active) : i \in Results(d, g.s.active) BY <1>1 DEF Results
<1>4. ASSUME NEW i \in Results(d, g.s.active), \A j \in Results(d, g.s.active) : ~(j < i)
      PROVE  d[i].out = n[g.s.active]
  <2>1. CASE i \in DOMAIN f /\ d[i] = f[i]
    <3>1. i \in Results(f, g.s.active) BY <2>1 DEF Results
    <3> QED BY <2>1, <3>1, <1>3, <1>4 DEF CodexLink
  <2>2. CASE i \notin DOMAIN f /\ d[i] = x /\ \A j \in DOMAIN f : j < i
    <3>1. Results(f, g.s.active) = {} BY <2>2, <1>3, <1>4 DEF Results
    <3> QED BY <2>2, <3>1 DEF Results
  <2> QED BY <2>1, <2>2, <1>1 DEF Results
<1> QED BY <1>2, <1>3, <1>4 DEF CodexLink

\* The CLI writes results only of what it has ended.
LEMMA CodexPipeGrows ==
    ASSUME NEW c, NEW n, NEW f \in Seq(FrameSet), NEW x \in FrameSet, NEW d, d = Append(f, x), CodexPipe(c, n, f),
           x.k = "result" => x.id[2] \in c.ended /\ x.out \in Outcome,
           x.k = "answer" /\ x.id[1] = "start" /\ x.out \in Outcome => x.id[2] \in Turn /\ n[x.id[2]] \in {x.out, "past"}
    PROVE  CodexPipe(c, n, d)
<1>1. \A i \in DOMAIN d : (i \in DOMAIN f /\ d[i] = f[i]) \/ d[i] = x BY SeqAppend
<1> QED BY <1>1 DEF CodexPipe

\* Only the CLI has moved.
LEMMA CodexCliMoves ==
    ASSUME CodexInv, client = "running", UNCHANGED <<stream, session, turn, client, pending, child, ladder, broken>>,
           NEW c \in CliSet, cli' = c, NEW m \in [Turn -> NativeSet], native' = m, NEW x \in FrameSet, Codex!Writes(x),
           StreamsOK(stream, m, turn, session.active), WorkOK(c, m),
           CodexPipe(c, m, Append(pipe, x)),
           \A h : h.s = session /\ h.t = turn /\ h.e = stream /\ h.c = c => CodexLink(h, m, Append(pipe, x))
    PROVE  CodexInv'
<1> DEFINE h == [s |-> session, t |-> turn, e |-> stream, c |-> c, p |-> pending]
<1>f. /\ session \in CodexSession /\ turn \in [Turn -> CodexTurn] /\ stream \in [Turn -> StreamSet]
      /\ pending \in SUBSET CodexRequest /\ pipe \in Seq(FrameSet)
  BY CodexFacts
<1>1. h \in CodexState /\ h.s = session /\ h.t = turn /\ h.e = stream /\ h.c = c BY <1>f DEF CodexState
<1>2. Codex!Become(h) BY DEF Codex!Become
<1> HIDE DEF h
<1>3. CodexGood(h, m) BY <1>1, CodexNow DEF CodexInv, CodexGood
<1>4. ~broken BY DEF CodexInv, CodexCalm
<1>5. pipe' = Append(pipe, x) BY <1>4 DEF Codex!Writes
<1>6. Append(pipe, x) \in Seq(FrameSet) BY <1>f, SeqAppend
<1>7. CodexLink(h, m, Append(pipe, x)) BY <1>1
<1>8. /\ session.teardown = "closing" => client # "running"
      /\ session.at \in {"none", "ready"} /\ ~session.runtime => child # "alive" \/ ladder = "gaveUp"
  BY DEF CodexInv, CodexLeashed
<1> QED BY <1>1, <1>2, <1>3, <1>4, <1>5, <1>6, <1>7, <1>8, CodexSettles

\* The CLI writes what ends no prompt that it has.
LEMMA CodexCliWrites ==
    ASSUME CodexInv, client = "running",
           UNCHANGED <<stream, session, turn, client, pending, child, ladder, broken, native>>,
           NEW c \in CliSet, cli' = c, c.work = cli.work, c.ended = cli.ended, c.interrupted = cli.interrupted,
           NEW x \in FrameSet, Codex!Writes(x),
           Speaks(x) => x.id[2] \in Turn /\ Known(Codex!g0, x.id[2]),
           x.k = "ask" /\ x.id[2] # NoTurn => x.id[2] \in Turn /\ Known(Codex!g0, x.id[2]),
           x.k = "result" => x.id[2] \in cli.ended /\ x.out \in Outcome,
           x.k = "answer" /\ x.id[1] = "start" /\ x.out \in Outcome =>
                x.id[2] \in Turn /\ native[x.id[2]] \in {x.out, "past"}
    PROVE  CodexInv'
<1>1. /\ WorkOK(cli, native) /\ CodexPipe(cli, native, pipe) /\ CodexLink(Codex!g0, native, pipe)
      /\ CodexGood(Codex!g0, native) /\ native \in [Turn -> NativeSet] /\ pipe \in Seq(FrameSet)
  BY DEF CodexInv, CodexCalm
<1>2. x.k = "result" /\ x.id[2] = Codex!g0.s.active => Results(pipe, Codex!g0.s.active) # {}
  BY <1>1, CodexNow DEF CodexLink
<1>3. PICK d : d = Append(pipe, x) OBVIOUS
<1>4. CodexLink(Codex!g0, native, d)
  <2>1. PICK g : g = Codex!g0 OBVIOUS
  <2>2. /\ CodexLink(g, native, pipe)
        /\ Speaks(x) => x.id[2] \in Turn /\ Known(g, x.id[2])
        /\ x.k = "ask" /\ x.id[2] # NoTurn => x.id[2] \in Turn /\ Known(g, x.id[2])
        /\ x.k = "result" /\ x.id[2] = g.s.active => Results(pipe, g.s.active) # {}
    BY <1>1, <1>2, <2>1
  <2>3. CodexLink(g, native, d) BY ONLY <1>1, <1>3, <2>2, x \in FrameSet, CodexLinkGrows
  <2> QED BY <2>1, <2>3
<1>5. CodexPipe(cli, native, d)
  <2>1. /\ x.k = "result" => x.id[2] \in cli.ended /\ x.out \in Outcome
        /\ x.k = "answer" /\ x.id[1] = "start" /\ x.out \in Outcome =>
                x.id[2] \in Turn /\ native[x.id[2]] \in {x.out, "past"}
    OBVIOUS
  <2> QED BY ONLY <1>1, <1>3, <2>1, x \in FrameSet, CodexPipeGrows
<1>6. CodexPipe(c, native, d) BY <1>5, CodexPipeSame
<1>7. WorkOK(c, native) BY <1>1, CodexWorkSame
<1>8. ASSUME NEW h, h.s = session, h.t = turn, h.e = stream, h.c = c PROVE CodexLink(h, native, d)
  <2>1. \A u : Known(Codex!g0, u) <=> Known(h, u) BY <1>8, CodexNow DEF Known
  <2> QED BY <1>4, <1>8, <2>1, CodexNow DEF CodexLink, Interruption
<1>9. StreamsOK(stream, native, turn, session.active) BY <1>1, CodexNow DEF CodexGood
<1>10. native' = native OBVIOUS
<1> QED BY <1>1, <1>3, <1>6, <1>7, <1>8, <1>9, <1>10, CodexCliMoves

\* What the CLI works on is a native turn the adapter knows.
LEMMA CodexWorked ==
    ASSUME CodexInv, client = "running", cli.work # <<>>
    PROVE  /\ Head(cli.work) \in Turn /\ 1 \in DOMAIN cli.work /\ cli.work[1] = Head(cli.work)
           /\ native[Head(cli.work)] = "working" /\ Known(Codex!g0, Head(cli.work))
           /\ cli.interrupted => turn[Head(cli.work)].cancel \/ stream[Head(cli.work)].ends # <<>>
           /\ Head(cli.work) \notin cli.ended
<1>1. /\ WorkOK(cli, native) /\ CodexPipe(cli, native, pipe) /\ CodexLink(Codex!g0, native, pipe) /\ cli \in CliSet
  BY CodexFacts DEF CodexInv, CodexCalm
<1>2. Head(cli.work) \in Turn /\ 1 \in DOMAIN cli.work /\ cli.work[1] = Head(cli.work)
  BY <1>1 DEF CliSet
<1>3. native[Head(cli.work)] = "working" /\ Known(Codex!g0, Head(cli.work))
  BY <1>1, <1>2, CodexNow DEF WorkOK, CodexLink
<1>4. cli.interrupted => turn[Head(cli.work)].cancel \/ stream[Head(cli.work)].ends # <<>>
  BY <1>1, CodexNow DEF CodexLink, Interruption
<1>5. Head(cli.work) \notin cli.ended BY <1>1, <1>3 DEF CodexPipe
<1> QED BY <1>2, <1>3, <1>4, <1>5

\* What a turn taken off the CLI's work leaves
LEMMA WorkDone ==
    ASSUME NEW c \in CliSet, NEW n \in [Turn -> NativeSet], WorkOK(c, n), c.work # <<>>, NEW w, w = Head(c.work),
           NEW d, d.work = Tail(c.work), NEW m, \A u \in Turn \ {w} : m[u] = n[u]
    PROVE  WorkOK(d, m)
<1>1. c.work \in Seq(Turn) BY DEF CliSet
<1>2. /\ Tail(c.work) \in Seq(Turn) /\ Len(c.work) \in Nat /\ DOMAIN Tail(c.work) = 1..Len(c.work) - 1
      /\ 1 \in DOMAIN c.work /\ w = c.work[1] /\ DOMAIN c.work = 1..Len(c.work)
      /\ \A i \in DOMAIN Tail(c.work) : i + 1 \in DOMAIN c.work /\ Tail(c.work)[i] = c.work[i + 1]
  BY <1>1, SeqTail
<1>3. \A i \in DOMAIN d.work : i \in Nat /\ i + 1 # 1 /\ i + 1 \in DOMAIN c.work /\ d.work[i] = c.work[i + 1]
                               /\ d.work[i] \in Turn
  BY <1>2
<1>4. \A i \in DOMAIN d.work : d.work[i] # w BY <1>2, <1>3 DEF WorkOK
<1>5. \A i \in DOMAIN d.work : m[d.work[i]] = "working" BY <1>3, <1>4 DEF WorkOK
<1>6. \A i, j \in DOMAIN d.work : i # j => i + 1 # j + 1 BY <1>3
<1>7. \A i, j \in DOMAIN d.work : i # j => d.work[i] # d.work[j] BY <1>3, <1>6 DEF WorkOK
<1> QED BY <1>5, <1>7 DEF WorkOK

\* The CLI ends the turn it works on, and can be interrupted only after somebody asked
\* for it.
LEMMA CodexCliEnds ==
    ASSUME CodexInv, client = "running", NEW out \in Outcome, Codex!CliEnds(out),
           UNCHANGED <<stream, session, turn, client, pending, child, ladder, broken>>
    PROVE  CodexInv'
<1> DEFINE r == [k |-> "result", id |-> <<"prompt", Head(cli.work)>>, out |-> out]
           cc == [cli EXCEPT !.work = Tail(@), !.interrupted = FALSE, !.told = FALSE, !.ended = @ \cup {Head(cli.work)}]
<1>1. /\ cli.work # <<>> /\ Codex!Writes(r) /\ (out = "cancelled" => cli.interrupted)
      /\ native' = [native EXCEPT ![Head(cli.work)] = out] /\ cli' = cc
  BY CodexNames DEF Codex!CliEnds
<1>w. PICK w : w = Head(cli.work) OBVIOUS
<1>2. /\ w \in Turn /\ native[w] = "working" /\ Known(Codex!g0, w) /\ w \notin cli.ended
      /\ cli.interrupted => turn[w].cancel \/ stream[w].ends # <<>>
  BY <1>1, <1>w, CodexWorked
<1>f. /\ cli \in CliSet /\ native \in [Turn -> NativeSet] /\ stream \in [Turn -> StreamSet] /\ pipe \in Seq(FrameSet)
      /\ WorkOK(cli, native) /\ CodexPipe(cli, native, pipe) /\ CodexLink(Codex!g0, native, pipe)
      /\ StreamsOK(stream, native, turn, session.active)
  BY CodexFacts, CodexNow DEF CodexInv, CodexCalm, CodexGood
<1>3. PICK x : x = r OBVIOUS
<1>4. /\ x \in FrameSet /\ Speaks(x) /\ x.k = "result" /\ x.id[2] = w /\ x.out = out /\ Codex!Writes(x)
      /\ x.k # "ask" /\ x.k # "answer"
  BY <1>1, <1>2, <1>3, <1>w DEF FrameSet, Request, Subject, NativeSet, Speaks
<1> HIDE DEF r
<1>5. PICK c : c = cc OBVIOUS
<1>6. Tail(cli.work) \in Seq(Turn)
  <2>1. cli.work \in Seq(Turn) BY <1>f DEF CliSet
  <2> QED BY <1>1, <2>1, SeqTail
<1>7. c \in CliSet /\ c.work = Tail(cli.work) /\ ~c.interrupted /\ c.ended = cli.ended \cup {w}
  <2>1. PICK v : v = Tail(cli.work) OBVIOUS
  <2>2. PICK d : d = cli.ended \cup {w} OBVIOUS
  <2>3. c = [cli EXCEPT !.work = v, !.interrupted = FALSE, !.told = FALSE, !.ended = d] BY <1>5, <1>w, <2>1, <2>2
  <2>4. v \in Seq(Turn) /\ d \in SUBSET Turn BY <1>2, <1>6, <1>f, <2>1, <2>2 DEF CliSet
  <2>5. c \in CliSet /\ c.work = v /\ ~c.interrupted /\ c.ended = d
    BY ONLY <1>f, <2>3, <2>4 DEF CliSet
  <2> QED BY <2>1, <2>2, <2>5
<1> HIDE DEF cc
<1>8. PICK m : m = [native EXCEPT ![w] = out] OBVIOUS
<1>9. /\ m \in [Turn -> NativeSet] /\ m[w] = out /\ \A u \in Turn \ {w} : m[u] = native[u]
      /\ StreamsOK(stream, m, turn, session.active)
  <2>1. out = "cancelled" => turn[w].cancel \/ stream[w].ends # <<>> BY <1>1, <1>2
  <2>2. /\ [native EXCEPT ![w] = out] \in [Turn -> NativeSet]
        /\ StreamsOK(stream, [native EXCEPT ![w] = out], turn, session.active)
    BY ONLY <1>f, <1>2, <2>1, out \in Outcome, StreamsCli
  <2> QED BY <1>2, <1>8, <1>f, <2>2
<1>10. /\ WorkOK(c, m) /\ \A i \in DOMAIN c.work : \E j \in DOMAIN cli.work : c.work[i] = cli.work[j]
  <2>1. cli.work # <<>> /\ c.work = Tail(cli.work) BY <1>1, <1>7
  <2>2. \A u \in Turn \ {w} : m[u] = native[u] BY <1>9
  <2>3. cli \in CliSet /\ native \in [Turn -> NativeSet] /\ WorkOK(cli, native) BY <1>f
  <2>4. WorkOK(c, m) BY ONLY <2>1, <2>2, <2>3, <1>w, WorkDone
  <2>5. cli.work \in Seq(Turn) BY <2>3 DEF CliSet
  <2>6. \A i \in DOMAIN Tail(cli.work) : i + 1 \in DOMAIN cli.work /\ Tail(cli.work)[i] = cli.work[i + 1]
    BY <2>1, <2>5, SeqTail
  <2> QED BY ONLY <2>1, <2>4, <2>6
<1>11. PICK d : d = Append(pipe, x) OBVIOUS
<1>12. /\ DOMAIN pipe \subseteq Nat
       /\ \A i \in DOMAIN d : \/ i \in DOMAIN pipe /\ d[i] = pipe[i]
                              \/ i \notin DOMAIN pipe /\ d[i] = x /\ \A j \in DOMAIN pipe : j < i
       /\ \A i \in DOMAIN pipe : i \in DOMAIN d /\ d[i] = pipe[i]
       /\ \E i \in DOMAIN d : d[i] = x
  <2>1. /\ Append(pipe, x) \in Seq(FrameSet) /\ Len(pipe) \in Nat /\ DOMAIN pipe = 1..Len(pipe)
        /\ DOMAIN d = 1..Len(pipe) + 1 /\ d[Len(pipe) + 1] = x
        /\ \A i \in DOMAIN d :
             \/ i \in DOMAIN pipe /\ d[i] = pipe[i]
             \/ i = Len(pipe) + 1 /\ i \notin DOMAIN pipe /\ d[i] = x
        /\ \A i \in DOMAIN pipe : i \in DOMAIN d /\ d[i] = pipe[i]
    BY <1>4, <1>f, <1>11, SeqAppend
  <2> QED BY <2>1
<1>13. CodexPipe(c, m, d)
  <2>1. \A u \in c.ended : m[u] \notin {"none", "working"}
    BY <1>2, <1>7, <1>9, <1>f DEF CodexPipe, CliSet, Outcome
  <2>2. \A i \in DOMAIN d : d[i].k = "result" => d[i].id[2] \in c.ended /\ d[i].out \in Outcome
    BY <1>4, <1>7, <1>12, <1>f DEF CodexPipe
  <2>3. \A i \in DOMAIN d : d[i].k = "answer" /\ d[i].id[1] = "start" /\ d[i].out \in Outcome =>
            d[i].id[2] \in Turn /\ m[d[i].id[2]] \in {d[i].out, "past"}
    <3> SUFFICES ASSUME NEW i \in DOMAIN d, d[i].k = "answer", d[i].id[1] = "start", d[i].out \in Outcome
                 PROVE  d[i].id[2] \in Turn /\ m[d[i].id[2]] \in {d[i].out, "past"}
      OBVIOUS
    <3>1. i \in DOMAIN pipe /\ d[i] = pipe[i] BY <1>4, <1>12
    <3>2. d[i].id[2] \in Turn /\ native[d[i].id[2]] \in {d[i].out, "past"} BY <3>1, <1>f DEF CodexPipe
    <3> QED BY <3>2, <1>2, <1>9 DEF Outcome
  <2> QED BY <2>1, <2>2, <2>3 DEF CodexPipe
<1>14. ASSUME NEW h, h.s = session, h.t = turn, h.e = stream, h.c = c PROVE CodexLink(h, m, d)
  <2>0. \A u : Known(Codex!g0, u) <=> Known(h, u) BY <1>14, CodexNow DEF Known
  <2>1. \A i \in DOMAIN h.c.work : Known(h, h.c.work[i]) BY <1>10, <1>14, <1>f, <2>0, CodexNow DEF CodexLink
  <2>2. \A u \in h.c.ended : Known(h, u) BY <1>2, <1>7, <1>14, <1>f, <2>0, CodexNow DEF CodexLink
  <2>3. /\ \A i \in DOMAIN d : Speaks(d[i]) => d[i].id[2] \in Turn /\ Known(h, d[i].id[2])
        /\ \A i \in DOMAIN d : d[i].k = "ask" /\ d[i].id[2] # NoTurn => d[i].id[2] \in Turn /\ Known(h, d[i].id[2])
    BY <1>2, <1>4, <1>12, <1>f, <2>0 DEF CodexLink
  <2>4. Interruption(h.c, h.e, h.t) BY <1>7, <1>14 DEF Interruption
  <2>5. \A i \in DOMAIN pipe : pipe[i].k = "result" => pipe[i].id[2] # w BY <1>2, <1>f DEF CodexPipe
  <2>6. CASE session.active = w
    <3>1. Results(d, w) # {} BY <1>4, <1>12 DEF Results
    <3>2. \A i \in Results(d, w) : d[i] = x BY <1>12, <2>5 DEF Results
    <3> QED BY <1>4, <1>9, <1>14, <2>1, <2>2, <2>3, <2>4, <2>6, <3>1, <3>2 DEF CodexLink
  <2>7. CASE session.active # w
    <3>1. \A i : i \in Results(d, session.active) <=> i \in Results(pipe, session.active)
      BY <1>4, <1>12, <2>7 DEF Results
    <3>2. \A i \in Results(pipe, session.active) : d[i] = pipe[i] BY <1>12 DEF Results
    <3>3. session.active \in h.c.ended => session.active \in cli.ended BY <1>7, <1>14, <2>7
    <3>4. h.s.active \in h.c.ended => Results(d, h.s.active) # {}
      BY <1>14, <1>f, <3>1, <3>3, CodexNow DEF CodexLink
    <3>5. ASSUME NEW i \in Results(d, h.s.active), \A j \in Results(d, h.s.active) : ~(j < i)
          PROVE  d[i].out = m[h.s.active]
      <4>1. i \in Results(pipe, session.active) /\ d[i] = pipe[i] /\ \A j \in Results(pipe, session.active) : ~(j < i)
        BY <1>14, <3>1, <3>2, <3>5
      <4>2. pipe[i].out = native[session.active] BY <1>f, <4>1, CodexNow DEF CodexLink
      <4>3. session.active \in Turn
        BY <4>1, <1>f DEF Results, CodexPipe, CliSet
      <4> QED BY <1>9, <1>14, <2>7, <4>1, <4>2, <4>3
    <3> QED BY <2>1, <2>2, <2>3, <2>4, <3>4, <3>5 DEF CodexLink
  <2> QED BY <2>6, <2>7
<1>15. cli' = c /\ native' = m BY <1>1, <1>5, <1>8, <1>w
<1> QED BY <1>4, <1>7, <1>9, <1>10, <1>11, <1>13, <1>14, <1>15, CodexCliMoves

\* Nothing the CLI or the operating system does breaks the invariant.
LEMMA CodexEnvironment == ASSUME CodexInv, Codex!Environment PROVE CodexInv'
<1>e. UNCHANGED <<client, pending, session, turn>> BY DEF Codex!Environment, Codex!rpcVars
<1>c. cli \in CliSet /\ native \in [Turn -> NativeSet] BY CodexFacts
<1>1. CASE /\ client = "running" /\ UNCHANGED <<Codex!processVars, stream>>
           /\ Codex!CliSpeaks \/ Codex!CliAnswers \/ Codex!CliAsks \/ Codex!CliGarbles \/ Codex!CliRepeats
              \/ \E out \in Codex!Outcome : Codex!CliEnds(out)
  <2>1. UNCHANGED <<stream, session, turn, client, pending, child, ladder, broken>> /\ client = "running"
    BY <1>e, <1>1 DEF Codex!processVars
  <2>2. CASE Codex!CliSpeaks
    <3> DEFINE r == [k |-> "text", id |-> <<"prompt", Head(cli.work)>>, out |-> "none"]
    <3>1. /\ cli.work # <<>> /\ Codex!Writes(r) /\ cli' = [cli EXCEPT !.told = TRUE] /\ native' = native
      BY <2>2, CodexNames DEF Codex!CliSpeaks
    <3>2. Head(cli.work) \in Turn /\ Known(Codex!g0, Head(cli.work)) BY <2>1, <3>1, CodexWorked
    <3>3. PICK x : x = r OBVIOUS
    <3>4. /\ x \in FrameSet /\ x.k = "text" /\ x.id[2] \in Turn /\ Known(Codex!g0, x.id[2]) /\ Codex!Writes(x)
          /\ x.k # "ask" /\ x.k # "result" /\ x.k # "answer"
      BY <3>1, <3>2, <3>3 DEF FrameSet, Request, Subject, NativeSet
    <3>5. PICK c : c = cli' OBVIOUS
    <3>6. c \in CliSet /\ c.work = cli.work /\ c.ended = cli.ended /\ c.interrupted = cli.interrupted
      BY <1>c, <3>1, <3>5 DEF CliSet
    <3> HIDE DEF r
    <3> QED BY ONLY CodexInv, <2>1, <3>1, <3>4, <3>5, <3>6, CodexCliWrites
  <2>3. CASE \E out \in Codex!Outcome : Codex!CliEnds(out) BY <2>1, <2>3, CodexNames, CodexCliEnds
  <2>4. CASE Codex!CliAnswers
    <3>1. PICK r \in cli.asked, ok \in BOOLEAN :
            /\ Codex!Writes(Codex!Frame("answer", r, CASE ~ok -> "error"
                                                       [] ok /\ r[2] = Codex!NoTurn -> "ok"
                                                       [] OTHER -> native[r[2]]))
            /\ cli' = [cli EXCEPT !.asked = @ \ {r}]
            /\ native' = native
      BY <2>4 DEF Codex!CliAnswers
    <3> DEFINE out == CASE ~ok -> "error"
                        [] ok /\ r[2] = Codex!NoTurn -> "ok"
                        [] OTHER -> native[r[2]]
               y == [k |-> "answer", id |-> r, out |-> out]
    <3>2. r \in Request /\ r[2] \in Subject BY <1>c DEF CliSet, Request
    <3>3. /\ out \in NativeSet \cup {"ok", "error"}
          /\ out \in Outcome => r[2] \in Turn /\ native[r[2]] = out
      BY <1>c, <3>2, CodexNames DEF Subject, Outcome
    <3>o. Codex!Writes([k |-> "answer", id |-> r, out |-> out]) BY <3>1, CodexNames
    <3> HIDE DEF out
    <3>4. PICK x : x = y OBVIOUS
    <3>5. /\ x \in FrameSet /\ ~Speaks(x) /\ x.k # "result" /\ x.k # "ask" /\ Codex!Writes(x)
          /\ x.k = "answer" /\ x.id[1] = "start" /\ x.out \in Outcome => x.id[2] \in Turn /\ native[x.id[2]] \in {x.out, "past"}
      BY <3>2, <3>3, <3>4, <3>o DEF FrameSet, Speaks
    <3>6. PICK c : c = cli' OBVIOUS
    <3>7. c \in CliSet /\ c.work = cli.work /\ c.ended = cli.ended /\ c.interrupted = cli.interrupted
      BY <1>c, <3>1, <3>6 DEF CliSet
    <3> QED BY ONLY CodexInv, <2>1, <3>1, <3>5, <3>6, <3>7, CodexCliWrites
  <2>5. CASE Codex!CliAsks
    <3> DEFINE w == IF cli.work = <<>> THEN NoTurn ELSE Head(cli.work)
    <3>1. Codex!Writes([k |-> "ask", id |-> <<"prompt", w>>, out |-> "none"]) /\ cli' = cli /\ native' = native
      BY <2>5, CodexNames DEF Codex!CliAsks
    <3>2. w \in Subject /\ (w # NoTurn => w \in Turn /\ Known(Codex!g0, w)) BY <2>1, CodexWorked DEF Subject
    <3> HIDE DEF w
    <3>3. PICK x : x = [k |-> "ask", id |-> <<"prompt", w>>, out |-> "none"] OBVIOUS
    <3>4. /\ x \in FrameSet /\ ~Speaks(x) /\ x.k # "result" /\ x.k # "answer" /\ Codex!Writes(x)
          /\ x.id[2] # NoTurn => x.id[2] \in Turn /\ Known(Codex!g0, x.id[2])
      BY <3>1, <3>2, <3>3 DEF FrameSet, Speaks, Request, NativeSet
    <3> QED BY ONLY CodexInv, <1>c, <2>1, <3>1, <3>4, CodexCliWrites
  <2>6. CASE Codex!CliGarbles
    <3>1. Codex!Writes([k |-> "garbage", id |-> <<"none", NoTurn>>, out |-> "none"]) /\ cli' = cli /\ native' = native
      BY <2>6, CodexNames DEF Codex!CliGarbles
    <3>3. PICK x : x = [k |-> "garbage", id |-> <<"none", NoTurn>>, out |-> "none"] OBVIOUS
    <3>4. x \in FrameSet /\ ~Speaks(x) /\ x.k # "result" /\ x.k # "answer" /\ x.k # "ask" /\ Codex!Writes(x)
      BY <3>1, <3>3 DEF FrameSet, Speaks, Request, NativeSet, Subject
    <3> QED BY ONLY CodexInv, <1>c, <2>1, <3>1, <3>4, CodexCliWrites
  <2>7. CASE Codex!CliRepeats
    <3>1. PICK t \in cli.ended, k \in {"text", "result"} :
            /\ Codex!Writes([k |-> k, id |-> <<"prompt", t>>, out |-> "completed"])
            /\ cli' = cli /\ native' = native
      BY <2>7, CodexNames DEF Codex!CliRepeats
    <3>2. t \in Turn /\ Known(Codex!g0, t)
      BY <1>c, <2>1, CodexNow DEF CodexInv, CodexCalm, CodexLink, CliSet
    <3>3. PICK x : x = [k |-> k, id |-> <<"prompt", t>>, out |-> "completed"] OBVIOUS
    <3>4. /\ x \in FrameSet /\ x.k # "answer" /\ x.k # "ask" /\ Codex!Writes(x)
          /\ x.id[2] \in Turn /\ Known(Codex!g0, x.id[2]) /\ x.id[2] \in cli.ended /\ x.out \in Outcome
      BY <3>1, <3>2, <3>3 DEF FrameSet, Request, NativeSet, Subject, Outcome
    <3> QED BY ONLY CodexInv, <1>c, <2>1, <3>1, <3>4, CodexCliWrites
  <2> QED BY <1>1, <2>2, <2>3, <2>4, <2>5, <2>6, <2>7
<1>2. CASE Codex!ChildDies /\ UNCHANGED stream
  <2>1. /\ child' = "dead" /\ UNCHANGED <<stream, cli, native, pipe, ladder, broken>>
    BY <1>2 DEF Codex!ChildDies
  <2>2. Codex!Become(Codex!g0) BY <1>e, <2>1, CodexNow DEF Codex!Become
  <2> QED BY <1>e, <2>1, <2>2, CodexSettlesStill
<1>3. CASE (Codex!Escalate \/ Codex!Finish) /\ UNCHANGED <<pipe, stream, Codex!cliVars>>
  <2>1. /\ UNCHANGED <<stream, cli, native, pipe, broken>> /\ (ladder = "gaveUp" => ladder' = "gaveUp")
        /\ child' = child \/ child' = "gone"
    BY <1>3 DEF Codex!Escalate, Codex!Finish, Codex!cliVars
  <2>2. Codex!Become(Codex!g0) BY <1>e, <2>1, CodexNow DEF Codex!Become
  <2>3. child' = child \/ child' # "alive" BY <2>1
  <2> QED BY <1>e, <2>1, <2>2, <2>3, CodexSettlesStill
<1> QED BY <1>1, <1>2, <1>3 DEF Codex!Environment

\* Every step keeps the invariant of the Codex adapter.
LEMMA CodexNext == ASSUME CodexInv, Codex!Next PROVE CodexInv'
<1>1. CASE Codex!Requests
  BY <1>1, CodexLaunch, CodexCancel, CodexClose, CodexPrompt, CodexNames DEF Codex!Requests
<1>2. CASE Codex!Reactions
  BY <1>2, CodexLaunchTimesOut, CodexLaunchFails, CodexLaunchThrows, CodexRequestFails, CodexTimerFires,
     CodexTearsDown, CodexShutdownCloses, CodexShutdownEnds, CodexReadFrame, CodexHandleExit DEF Codex!Reactions
<1>3. CASE Codex!Environment BY <1>3, CodexEnvironment
<1> QED BY <1>1, <1>2, <1>3 DEF Codex!Next

\* The invariant gives the Codex adapter's half of both properties.
LEMMA CodexSafe == ASSUME CodexInv PROVE NoOrphan /\ StreamsOK(stream, native, turn, session.active)
                                         /\ stream \in [Turn -> StreamSet]
<1>1. stream \in [Turn -> StreamSet] /\ StreamsOK(stream, native, turn, session.active)
  BY CodexNow, CodexFacts DEF CodexInv, CodexGood
<1>2. NoOrphan BY DEF NoOrphan, CodexInv, CodexLeashed
<1> QED BY <1>1, <1>2

\* And so does no step at all.
LEMMA CodexStutters == ASSUME CodexInv, UNCHANGED vars PROVE CodexInv'
<1>1. /\ UNCHANGED <<stream, session, turn, client, pending, child, ladder, broken, native, pipe, cli>>
  BY DEF vars, processVars, cliVars, rpcVars
<1>2. Codex!Become(Codex!g0) BY <1>1, CodexNow DEF Codex!Become
<1> QED BY <1>1, <1>2, CodexSettlesStill

----------------------------------------------------------------------------
(* The Claude adapter                                                        *)

\* The types of the adapter's state.
ClaudeSession == [at : {"none", "initialize", "mode", "ready", "failing", "closing"}, runtime : BOOLEAN,
                  closing : BOOLEAN, poisoned : BOOLEAN, active : Subject, awaiting : BOOLEAN,
                  stray : BOOLEAN, owes : BOOLEAN,
                  teardown : {"none", "scheduled", "waiting", "closing", "done"}]
ClaudeTurn == [cancel : BOOLEAN, dispatched : BOOLEAN, timer : {"none", "first", "idle", "cancel"}]
ClaudeState == [s : ClaudeSession, t : [Turn -> ClaudeTurn], e : [Turn -> StreamSet], c : CliSet]

\* The session may still be given a prompt.
ClaudeUp(s) == s.runtime /\ ~s.poisoned /\ s.at \in {"initialize", "mode", "ready"}

\* A turn is active while the session serves; only the active turn has a timer or was interrupted.
ClaudeGood(g, n) ==
    /\ g \in ClaudeState /\ StreamsOK(g.e, n, g.t, g.s.active)
    /\ g.s.active # NoTurn => g.s.at = "ready" /\ g.s.runtime /\ ~g.s.poisoned
    /\ \A u \in Turn : /\ g.t[u].dispatched => u = g.s.active /\ g.t[u].cancel
                       /\ g.t[u].timer # "none" => u = g.s.active
    /\ WorkOK(g.c, n) /\ Interruption(g.c, g.e, g.t)

\* A result by which a turn ends, and the answer to an interruption that found
\* the CLI idle: the adapter cannot tell them apart, for a frame names no turn.
Own(f, i) == i \in DOMAIN f /\ f[i].k = "result" /\ f[i].id[2] # NoTurn
Nay(f, i) == i \in DOMAIN f /\ f[i].k = "result" /\ f[i].id[2] = NoTurn

\* The result of the active turn was taken for a stray one.
Lost(g, n, f) ==
    /\ g.s.active # NoTurn /\ g.t[g.s.active].dispatched /\ g.c.work = <<>>
    /\ n[g.s.active] \in Outcome /\ \A i \in DOMAIN f : ~Own(f, i)

\* The CLI works on the active turn or on nothing; it works on it until it has
\* ended it; and it is cancelled or interrupted only if that turn was.
ClaudeWork(g, n, ch) ==
    /\ \A i \in DOMAIN g.c.work : g.c.work[i] = g.s.active
    /\ g.s.active # NoTurn =>
        /\ g.s.awaiting
        /\ n[g.s.active] = "none" => ch # "alive"
        /\ n[g.s.active] = "working" => g.c.work # <<>>
        /\ n[g.s.active] = "cancelled" => g.t[g.s.active].dispatched
    /\ g.c.interrupted => g.s.active # NoTurn /\ g.t[g.s.active].dispatched

\* Texts are the active turn's and come before its result; there is at most one
\* result of its own, and it is true; every other result says cancelled.
ClaudeFrames(g, n, f) ==
    /\ \A i \in DOMAIN f : f[i].k = "text" =>
        /\ g.s.active # NoTurn /\ f[i].id[2] = g.s.active
        /\ n[g.s.active] = "working" \/ (n[g.s.active] \in Outcome /\ \E j \in DOMAIN f : i < j /\ Own(f, j))
    /\ \A i \in DOMAIN f : Own(f, i) =>
        /\ f[i].id[2] = g.s.active /\ f[i].out = n[g.s.active] /\ n[g.s.active] \in Outcome
        /\ \A j \in DOMAIN f : i < j => ~Own(f, j)
    /\ \A i \in DOMAIN f : Nay(f, i) => f[i].id = <<"prompt", NoTurn>> /\ f[i].out = "cancelled"

\* Which answers to interruptions are on their way, among the results of the turns ...
ClaudeOrder(g, n, f) ==
    /\ \A i, j \in DOMAIN f : Nay(f, i) /\ Nay(f, j) /\ i < j => \E k \in DOMAIN f : i < k /\ k < j /\ Own(f, k)
    /\ g.s.owes => \A i \in DOMAIN f : Nay(f, i) => \E k \in DOMAIN f : i < k /\ Own(f, k)
    /\ \A i \in DOMAIN f : Own(f, i) /\ (g.s.owes \/ \E j \in DOMAIN f : i < j /\ Nay(f, j)) =>
        g.t[g.s.active].dispatched /\ n[g.s.active] # "cancelled"
    /\ g.s.active # NoTurn /\ ~g.t[g.s.active].dispatched /\ n[g.s.active] \in Outcome =>
        /\ ~g.s.owes
        /\ \A i \in DOMAIN f : Nay(f, i) => \E k \in DOMAIN f : i < k /\ Own(f, k)

\* ... and that the next one will not be taken for the result of a turn.
ClaudeStray(g, n, f) ==
    /\ \A j \in DOMAIN f : Nay(f, j) /\ (\A i \in DOMAIN f : i < j => ~Own(f, i)) => g.s.stray \/ Lost(g, n, f)
    /\ g.s.owes /\ (\A i \in DOMAIN f : ~Own(f, i)) => g.s.stray \/ Lost(g, n, f)

\* What is known while the session is up.
ClaudeCalm(g, n, f, ch) == ClaudeWork(g, n, ch) /\ ClaudeFrames(g, n, f) /\ ClaudeOrder(g, n, f)
                          /\ ClaudeStray(g, n, f)

\* The inductive invariant of the Claude adapter.
ClaudeInv ==
    /\ ClaudeGood(Claude!g0, native) /\ native \in [Turn -> NativeSet] /\ pipe \in Seq(FrameSet)
    /\ ClaudeUp(session) => ~broken /\ ClaudeCalm(Claude!g0, native, pipe, child)
    /\ ~session.runtime => child # "alive" \/ ladder = "gaveUp"

\* The adapter and NativeAgents mean the same by the names they share.
LEMMA ClaudeNames ==
    /\ Claude!Turn = Turn /\ Claude!NoTurn = NoTurn /\ Claude!Outcome = Outcome /\ Claude!NoStream = NoStream
    /\ \A e, t, o : Claude!Ended(e, t, o) = Ended(e, t, o)
    /\ \A t : Claude!Open(t) = Open(t) /\ (Claude!CanPrompt(t) <=> CanPrompt(t))
    /\ \A t, s : Claude!Delivered(t, s) = Delivered(t, s)
    /\ \A t, s : Claude!WithText(t, s) = WithText(t, s)
    /\ Claude!Worked = Head(cli.work)
    /\ \A k, id, out : Claude!Frame(k, id, out) = [k |-> k, id |-> id, out |-> out]
BY DEF Claude!Turn, Claude!NoTurn, Claude!Outcome, Claude!NoStream, Claude!Ended, Claude!Open, Claude!CanPrompt,
       Claude!Delivered, Turn, NoTurn, Outcome, NoStream, Ended, Open, CanPrompt, Delivered, Claude!Past, Past,
       Claude!Forgotten, Forgotten, Claude!Worked, Claude!Frame, Claude!WithText, WithText

\* The state a step starts from.
LEMMA ClaudeNow ==
    Claude!g0.s = session /\ Claude!g0.t = turn /\ Claude!g0.e = stream /\ Claude!g0.c = cli
BY DEF Claude!g0

\* What the invariant says of the state a step starts from.
LEMMA ClaudeFacts ==
    ASSUME ClaudeInv
    PROVE  /\ Claude!g0 \in ClaudeState /\ ClaudeGood(Claude!g0, native)
           /\ session \in ClaudeSession /\ session.active \in Subject /\ turn \in [Turn -> ClaudeTurn]
           /\ stream \in [Turn -> StreamSet] /\ cli \in CliSet
           /\ native \in [Turn -> NativeSet] /\ pipe \in Seq(FrameSet)
BY ClaudeNow DEF ClaudeInv, ClaudeGood, ClaudeState, ClaudeSession

\* What a step has to show for the invariant to hold after it.
LEMMA ClaudeSettles ==
    ASSUME NEW h, Claude!Become(h), ClaudeGood(h, native'), native' \in [Turn -> NativeSet],
           pipe' \in Seq(FrameSet),
           ClaudeUp(h.s) => ~broken' /\ ClaudeCalm(h, native', pipe', child'),
           ~h.s.runtime => child' # "alive" \/ ladder' = "gaveUp"
    PROVE  ClaudeInv'
<1>1. h = [s |-> h.s, t |-> h.t, e |-> h.e, c |-> h.c] BY DEF ClaudeGood, ClaudeState
<1>2. Claude!g0' = h /\ session' = h.s BY <1>1 DEF Claude!Become, Claude!g0
<1>3. ClaudeGood(Claude!g0, native)' BY <1>2
<1>4. ClaudeUp(session)' => ~broken' /\ ClaudeCalm(Claude!g0, native, pipe, child)'
  <2>1. ClaudeUp(session)' <=> ClaudeUp(h.s) BY <1>2 DEF ClaudeUp
  <2> QED BY <1>2, <2>1
<1> QED BY <1>2, <1>3, <1>4 DEF ClaudeInv

\* The invariant holds before anything is launched.
LEMMA ClaudeInit == ASSUME BoundAssumption, Claude!Init PROVE ClaudeInv
<1>1. /\ session = Claude!NoSession /\ turn = [t \in Turn |-> Claude!FreshTurn]
      /\ stream = [t \in Turn |-> NoStream] /\ cli = Claude!Idle
      /\ native = [t \in Turn |-> "none"] /\ pipe = <<>> /\ child = "none"
  BY ClaudeNames DEF Claude!Init, Claude!ProcessInit
<1>2. /\ Claude!NoSession \in ClaudeSession /\ Claude!NoSession.active = NoTurn /\ ~Claude!NoSession.runtime
  BY ClaudeNames DEF Claude!NoSession, ClaudeSession, Subject
<1>3. /\ Claude!FreshTurn \in ClaudeTurn /\ ~Claude!FreshTurn.dispatched /\ Claude!FreshTurn.timer = "none"
  BY DEF Claude!FreshTurn, ClaudeTurn
<1>4. NoStream \in StreamSet /\ ~NoStream.open /\ NoStream.ends = <<>> /\ NoStream.text = {}
  BY DEF NoStream, StreamSet, EndSet
<1>5. Claude!Idle \in CliSet /\ Claude!Idle.work = <<>> /\ Claude!Idle.interrupted = FALSE
  BY DEF Claude!Idle, CliSet
<1>6. "none" \in NativeSet BY DEF NativeSet
<1>7. Claude!g0 \in ClaudeState /\ StreamsOK(stream, native, turn, session.active)
  <2>1. Claude!g0 \in ClaudeState BY <1>1, <1>2, <1>3, <1>4, <1>5 DEF Claude!g0, ClaudeState
  <2>2. \A u \in Turn : stream[u] = NoStream /\ native[u] = "none" BY <1>1
  <2>3. StreamsOK(stream, native, turn, session.active) BY <1>1, <1>2, <1>4, <2>2 DEF StreamsOK
  <2> QED BY <2>1, <2>3
<1>8. \A u \in Turn : ~turn[u].dispatched /\ turn[u].timer = "none" BY <1>1, <1>3
<1>9. WorkOK(cli, native) /\ Interruption(cli, stream, turn) BY <1>1, <1>5 DEF WorkOK, Interruption
<1>10. ClaudeGood(Claude!g0, native) BY <1>1, <1>2, <1>7, <1>8, <1>9, ClaudeNow DEF ClaudeGood
<1>11. native \in [Turn -> NativeSet] BY <1>1, <1>6
<1>12. pipe \in Seq(FrameSet) BY <1>1
<1> QED BY <1>1, <1>2, <1>10, <1>11, <1>12 DEF ClaudeInv, ClaudeUp

----------------------------------------------------------------
\* d is what is left of f when its first frame has been read.
Shifted(f, d) ==
    /\ d \in Seq(FrameSet) /\ DOMAIN f \subseteq Nat \ {0} /\ DOMAIN d \subseteq Nat \ {0}
    /\ 1 \in DOMAIN f /\ Head(f) = f[1]
    /\ \A i \in DOMAIN d : i + 1 \in DOMAIN f /\ d[i] = f[i + 1] /\ 1 < i + 1
    /\ \A i \in DOMAIN f : i # 1 => i - 1 \in DOMAIN d /\ f[i] = d[i - 1] /\ 1 < i
    /\ \A i \in DOMAIN d : (Own(d, i) <=> Own(f, i + 1)) /\ (Nay(d, i) <=> Nay(f, i + 1))

\* What the frames after the first one are.
LEMMA ClaudeShift ==
    ASSUME NEW f \in Seq(FrameSet), f # <<>>, NEW d, d = Tail(f)
    PROVE  Shifted(f, d)
<1>1. /\ Tail(f) \in Seq(FrameSet) /\ Len(f) \in Nat /\ DOMAIN f = 1..Len(f)
      /\ DOMAIN Tail(f) = 1..Len(f) - 1 /\ 1 \in DOMAIN f /\ Head(f) = f[1]
      /\ \A i \in DOMAIN Tail(f) : i + 1 \in DOMAIN f /\ Tail(f)[i] = f[i + 1]
      /\ \A i \in DOMAIN f : i # 1 => i - 1 \in DOMAIN Tail(f) /\ f[i] = Tail(f)[i - 1]
  BY SeqTail
<1>2. /\ DOMAIN f \subseteq Nat \ {0} /\ DOMAIN d \subseteq Nat \ {0}
      /\ \A i \in DOMAIN d : 1 < i + 1
      /\ \A i \in DOMAIN f : i # 1 => 1 < i
  BY <1>1
<1>3. \A i \in DOMAIN d : (Own(d, i) <=> Own(f, i + 1)) /\ (Nay(d, i) <=> Nay(f, i + 1))
  BY <1>1 DEF Own, Nay
<1> QED BY ONLY <1>1, <1>2, <1>3, d = Tail(f) DEF Shifted

\* What does not depend on the frame that has been read
LEMMA ClaudeRest ==
    ASSUME NEW g, NEW n, NEW f \in Seq(FrameSet), f # <<>>, NEW d, d = Tail(f), NEW ch, ClaudeCalm(g, n, f, ch),
           NEW h, h.s.active = g.s.active, h.s.awaiting = g.s.awaiting, h.s.owes = g.s.owes, h.t = g.t, h.c = g.c
    PROVE  ClaudeWork(h, n, ch) /\ ClaudeFrames(h, n, d) /\ ClaudeOrder(h, n, d)
<1>sh. Shifted(f, d) BY ONLY f \in Seq(FrameSet), f # <<>>, d = Tail(f), ClaudeShift
<1>s. /\ d \in Seq(FrameSet) /\ DOMAIN f \subseteq Nat \ {0} /\ DOMAIN d \subseteq Nat \ {0}
      /\ 1 \in DOMAIN f /\ Head(f) = f[1]
      /\ \A i \in DOMAIN d : i + 1 \in DOMAIN f /\ d[i] = f[i + 1] /\ 1 < i + 1
      /\ \A i \in DOMAIN f : i # 1 => i - 1 \in DOMAIN d /\ f[i] = d[i - 1] /\ 1 < i
      /\ \A i \in DOMAIN d : (Own(d, i) <=> Own(f, i + 1)) /\ (Nay(d, i) <=> Nay(f, i + 1))
  BY ONLY <1>sh DEF Shifted
<1>d. \A i : (Own(f, i) \/ Nay(f, i)) => i \in DOMAIN f BY DEF Own, Nay
<1>1. ClaudeWork(h, n, ch) BY DEF ClaudeCalm, ClaudeWork
<1>o. \A i \in DOMAIN d, k \in DOMAIN f : i + 1 < k /\ Own(f, k) => k - 1 \in DOMAIN d /\ i < k - 1 /\ Own(d, k - 1)
  <2> SUFFICES ASSUME NEW i \in DOMAIN d, NEW k \in DOMAIN f, i + 1 < k, Own(f, k)
               PROVE k - 1 \in DOMAIN d /\ i < k - 1 /\ Own(d, k - 1)
    OBVIOUS
  <2>1. i \in Nat /\ k \in Nat /\ k # 1 /\ (k - 1) + 1 = k BY <1>s
  <2> QED BY <2>1, <1>s
<1>2. ClaudeFrames(h, n, d)
  <2>1. ASSUME NEW i \in DOMAIN d, d[i].k = "text"
        PROVE  /\ g.s.active # NoTurn /\ d[i].id[2] = g.s.active
               /\ n[g.s.active] = "working" \/ (n[g.s.active] \in Outcome /\ \E j \in DOMAIN d : i < j /\ Own(d, j))
    <3>1. /\ g.s.active # NoTurn /\ d[i].id[2] = g.s.active
          /\ n[g.s.active] = "working" \/ (n[g.s.active] \in Outcome /\ \E j \in DOMAIN f : i + 1 < j /\ Own(f, j))
      BY <1>s, <2>1 DEF ClaudeCalm, ClaudeFrames
    <3> QED BY <3>1, <1>o
  <2>2. ASSUME NEW i \in DOMAIN d, Own(d, i)
        PROVE  /\ d[i].id[2] = g.s.active /\ d[i].out = n[g.s.active] /\ n[g.s.active] \in Outcome
               /\ \A j \in DOMAIN d : i < j => ~Own(d, j)
    <3>1. /\ d[i].id[2] = g.s.active /\ d[i].out = n[g.s.active] /\ n[g.s.active] \in Outcome
          /\ \A j \in DOMAIN f : i + 1 < j => ~Own(f, j)
      BY <1>s, <2>2 DEF ClaudeCalm, ClaudeFrames
    <3>2. \A j \in DOMAIN d : i < j => i + 1 < j + 1 BY <1>s
    <3> QED BY <1>s, <3>1, <3>2
  <2>3. \A i \in DOMAIN d : Nay(d, i) => d[i].id = <<"prompt", NoTurn>> /\ d[i].out = "cancelled"
    BY <1>s DEF ClaudeCalm, ClaudeFrames
  <2> QED BY <2>1, <2>2, <2>3 DEF ClaudeFrames
<1>3. ClaudeOrder(h, n, d)
  <2>1. ASSUME NEW i \in DOMAIN d, NEW j \in DOMAIN d, Nay(d, i), Nay(d, j), i < j
        PROVE  \E k \in DOMAIN d : i < k /\ k < j /\ Own(d, k)
    <3>1. i + 1 < j + 1 BY <1>s, <2>1
    <3>2. PICK k \in DOMAIN f : i + 1 < k /\ k < j + 1 /\ Own(f, k)
      BY <1>s, <2>1, <3>1 DEF ClaudeCalm, ClaudeOrder
    <3>3. k - 1 < j BY <1>s, <3>2
    <3> QED BY <3>2, <3>3, <1>o
  <2>2. ASSUME g.s.owes, NEW i \in DOMAIN d, Nay(d, i)
        PROVE  \E k \in DOMAIN d : i < k /\ Own(d, k)
    <3>1. PICK k \in DOMAIN f : i + 1 < k /\ Own(f, k)
      BY <1>s, <2>2 DEF ClaudeCalm, ClaudeOrder
    <3> QED BY <3>1, <1>o
  <2>3. ASSUME NEW i \in DOMAIN d, Own(d, i), g.s.owes \/ \E j \in DOMAIN d : i < j /\ Nay(d, j)
        PROVE  g.t[g.s.active].dispatched /\ n[g.s.active] # "cancelled"
    <3>1. \A j \in DOMAIN d : i < j => i + 1 < j + 1 BY <1>s
    <3>2. Own(f, i + 1) /\ (g.s.owes \/ \E j \in DOMAIN f : i + 1 < j /\ Nay(f, j)) BY <1>s, <2>3, <3>1
    <3> QED BY <3>2, <1>d DEF ClaudeCalm, ClaudeOrder
  <2>6. ASSUME g.s.active # NoTurn, ~g.t[g.s.active].dispatched, n[g.s.active] \in Outcome
        PROVE  /\ ~g.s.owes
               /\ \A i \in DOMAIN d : Nay(d, i) => \E k \in DOMAIN d : i < k /\ Own(d, k)
    <3>1. ~g.s.owes /\ \A i \in DOMAIN f : Nay(f, i) => \E k \in DOMAIN f : i < k /\ Own(f, k)
      BY <2>6 DEF ClaudeCalm, ClaudeOrder
    <3> QED BY <3>1, <1>o, <1>s
  <2> QED BY <2>1, <2>2, <2>3, <2>6 DEF ClaudeOrder
<1> QED BY <1>1, <1>2, <1>3

\* A frame that is no result has been read.
LEMMA ClaudePasses ==
    ASSUME NEW g, NEW n, NEW f \in Seq(FrameSet), f # <<>>, NEW d, d = Tail(f), NEW ch, ClaudeCalm(g, n, f, ch),
           NEW h, h.s.active = g.s.active, h.s.awaiting = g.s.awaiting, h.s.owes = g.s.owes, h.t = g.t, h.c = g.c,
           h.s.stray = g.s.stray, Head(f).k # "result"
    PROVE  ClaudeCalm(h, n, d, ch)
<1>sh. Shifted(f, d) BY ONLY f \in Seq(FrameSet), f # <<>>, d = Tail(f), ClaudeShift
<1>s. /\ d \in Seq(FrameSet) /\ DOMAIN f \subseteq Nat \ {0} /\ DOMAIN d \subseteq Nat \ {0}
      /\ 1 \in DOMAIN f /\ Head(f) = f[1]
      /\ \A i \in DOMAIN d : i + 1 \in DOMAIN f /\ d[i] = f[i + 1] /\ 1 < i + 1
      /\ \A i \in DOMAIN f : i # 1 => i - 1 \in DOMAIN d /\ f[i] = d[i - 1] /\ 1 < i
      /\ \A i \in DOMAIN d : (Own(d, i) <=> Own(f, i + 1)) /\ (Nay(d, i) <=> Nay(f, i + 1))
  BY ONLY <1>sh DEF Shifted
<1>h. ~Own(f, 1) BY <1>s DEF Own
<1>1. ClaudeWork(h, n, ch) /\ ClaudeFrames(h, n, d) /\ ClaudeOrder(h, n, d) BY ClaudeRest
<1>l. Lost(g, n, f) => Lost(h, n, d) BY <1>s DEF Lost
<1>3. ClaudeStray(h, n, d)
  <2>4. ASSUME NEW j \in DOMAIN d, Nay(d, j), \A i \in DOMAIN d : i < j => ~Own(d, i)
        PROVE  h.s.stray \/ Lost(h, n, d)
    <3>1. ASSUME NEW i \in DOMAIN f, i < j + 1 PROVE ~Own(f, i)
      <4>1. CASE i # 1
        <5>1. i - 1 \in DOMAIN d /\ i - 1 < j /\ (i - 1) + 1 = i BY <1>s, <3>1, <4>1
        <5> QED BY <5>1, <2>4, <1>s
      <4> QED BY <4>1, <1>h
    <3>2. Nay(f, j + 1) /\ j + 1 \in DOMAIN f BY <1>s, <2>4
    <3>3. g.s.stray \/ Lost(g, n, f) BY <3>1, <3>2 DEF ClaudeCalm, ClaudeStray
    <3> QED BY <3>3, <1>l
  <2>5. ASSUME g.s.owes, \A i \in DOMAIN d : ~Own(d, i)
        PROVE  h.s.stray \/ Lost(h, n, d)
    <3>1. ASSUME NEW i \in DOMAIN f PROVE ~Own(f, i)
      <4>1. CASE i # 1
        <5>1. i - 1 \in DOMAIN d /\ (i - 1) + 1 = i BY <1>s, <4>1
        <5> QED BY <5>1, <2>5, <1>s
      <4> QED BY <4>1, <1>h
    <3>3. g.s.stray \/ Lost(g, n, f) BY <2>5, <3>1 DEF ClaudeCalm, ClaudeStray
    <3> QED BY <3>3, <1>l
  <2> QED BY <2>4, <2>5 DEF ClaudeStray
<1> QED BY <1>1, <1>3 DEF ClaudeCalm

\* What a result is that comes first
LEMMA ClaudeFirst ==
    ASSUME NEW g, NEW n, NEW f \in Seq(FrameSet), f # <<>>, NEW d, d = Tail(f), NEW ch, ClaudeCalm(g, n, f, ch),
           g.s.active \in Subject, WorkOK(g.c, n), g.c \in CliSet, Head(f).k = "result"
    PROVE  \/ /\ g.s.active # NoTurn /\ Head(f).out = n[g.s.active] /\ n[g.s.active] \in Outcome /\ g.c.work = <<>>
              /\ \A i \in DOMAIN d : ~Own(d, i)
              /\ g.s.owes \/ (\E j \in DOMAIN d : Nay(d, j)) =>
                    g.t[g.s.active].dispatched /\ n[g.s.active] # "cancelled"
           \/ /\ Head(f).out = "cancelled"
              /\ g.s.owes => \E i \in DOMAIN d : Own(d, i)
              /\ \A j \in DOMAIN d : Nay(d, j) => \E i \in DOMAIN d : i < j /\ Own(d, i)
              /\ g.s.stray \/ Lost(g, n, f)
<1>sh. Shifted(f, d) BY ONLY f \in Seq(FrameSet), f # <<>>, d = Tail(f), ClaudeShift
<1>s. /\ d \in Seq(FrameSet) /\ DOMAIN f \subseteq Nat \ {0} /\ DOMAIN d \subseteq Nat \ {0}
      /\ 1 \in DOMAIN f /\ Head(f) = f[1]
      /\ \A i \in DOMAIN d : i + 1 \in DOMAIN f /\ d[i] = f[i + 1] /\ 1 < i + 1
      /\ \A i \in DOMAIN f : i # 1 => i - 1 \in DOMAIN d /\ f[i] = d[i - 1] /\ 1 < i
      /\ \A i \in DOMAIN d : (Own(d, i) <=> Own(f, i + 1)) /\ (Nay(d, i) <=> Nay(f, i + 1))
  BY ONLY <1>sh DEF Shifted
<1>h. Own(f, 1) \/ Nay(f, 1) BY <1>s DEF Own, Nay
<1>o. \A k \in DOMAIN f : 1 < k /\ Own(f, k) => k - 1 \in DOMAIN d /\ Own(d, k - 1)
  <2> SUFFICES ASSUME NEW k \in DOMAIN f, 1 < k, Own(f, k) PROVE k - 1 \in DOMAIN d /\ Own(d, k - 1)
    OBVIOUS
  <2>1. k \in Nat /\ k # 1 /\ (k - 1) + 1 = k BY <1>s
  <2> QED BY <2>1, <1>s
<1>1. CASE Own(f, 1)
  <2>1. /\ f[1].id[2] = g.s.active /\ f[1].out = n[g.s.active] /\ n[g.s.active] \in Outcome
        /\ \A j \in DOMAIN f : 1 < j => ~Own(f, j)
    BY <1>1, <1>s DEF ClaudeCalm, ClaudeFrames
  <2>2. g.s.active # NoTurn BY <1>1, <2>1 DEF Own
  <2>3. g.c.work = <<>>
    <3> SUFFICES ASSUME g.c.work # <<>> PROVE FALSE OBVIOUS
    <3>1. 1 \in DOMAIN g.c.work BY DEF CliSet
    <3>2. g.c.work[1] = g.s.active /\ n[g.c.work[1]] = "working" BY <3>1 DEF ClaudeCalm, ClaudeWork, WorkOK
    <3> QED BY <3>2, <2>1 DEF Outcome
  <2>4. \A i \in DOMAIN d : ~Own(d, i) BY <1>s, <2>1
  <2>5. (\E j \in DOMAIN d : Nay(d, j)) => \E j \in DOMAIN f : 1 < j /\ Nay(f, j) BY <1>s
  <2>6. g.s.owes \/ (\E j \in DOMAIN d : Nay(d, j)) =>
            g.t[g.s.active].dispatched /\ n[g.s.active] # "cancelled"
    BY <1>1, <1>s, <2>5 DEF ClaudeCalm, ClaudeOrder
  <2> QED BY <1>s, <2>1, <2>2, <2>3, <2>4, <2>6
<1>2. CASE Nay(f, 1)
  <2>1. f[1].out = "cancelled" BY <1>2, <1>s DEF ClaudeCalm, ClaudeFrames
  <2>2. g.s.owes => \E i \in DOMAIN d : Own(d, i)
    <3>1. g.s.owes => \E k \in DOMAIN f : 1 < k /\ Own(f, k) BY <1>2, <1>s DEF ClaudeCalm, ClaudeOrder
    <3> QED BY <3>1, <1>o
  <2>3. ASSUME NEW j \in DOMAIN d, Nay(d, j) PROVE \E i \in DOMAIN d : i < j /\ Own(d, i)
    <3>1. PICK k \in DOMAIN f : 1 < k /\ k < j + 1 /\ Own(f, k)
      BY <1>2, <2>3, <1>s DEF ClaudeCalm, ClaudeOrder
    <3>2. k - 1 \in DOMAIN d /\ Own(d, k - 1) BY <3>1, <1>o
    <3>3. k - 1 < j BY <3>1, <1>s
    <3> QED BY <3>2, <3>3
  <2>4. \A i \in DOMAIN f : i < 1 => ~Own(f, i) BY <1>s
  <2>5. g.s.stray \/ Lost(g, n, f) BY <1>2, <1>s, <2>4 DEF ClaudeCalm, ClaudeStray
  <2> QED BY <1>s, <2>1, <2>2, <2>3, <2>5
<1> QED BY <1>h, <1>1, <1>2

\* A stray result has been absorbed.
LEMMA ClaudeAbsorbs ==
    ASSUME NEW g, NEW n, NEW f \in Seq(FrameSet), f # <<>>, NEW d, d = Tail(f), NEW ch, ClaudeCalm(g, n, f, ch),
           g.s.active \in Subject, WorkOK(g.c, n), g.c \in CliSet, Head(f).k = "result",
           NEW h, h.s.active = g.s.active, h.s.awaiting = g.s.awaiting, h.s.owes = g.s.owes, h.t = g.t, h.c = g.c
    PROVE  ClaudeCalm(h, n, d, ch)
<1>1. ClaudeWork(h, n, ch) /\ ClaudeFrames(h, n, d) /\ ClaudeOrder(h, n, d) BY ClaudeRest
<1>2. \/ /\ g.s.active # NoTurn /\ n[g.s.active] \in Outcome /\ g.c.work = <<>>
         /\ \A i \in DOMAIN d : ~Own(d, i)
         /\ g.s.owes \/ (\E j \in DOMAIN d : Nay(d, j)) => g.t[g.s.active].dispatched
      \/ /\ g.s.owes => \E i \in DOMAIN d : Own(d, i)
         /\ \A j \in DOMAIN d : Nay(d, j) => \E i \in DOMAIN d : i < j /\ Own(d, i)
  BY ClaudeFirst
<1>3. ClaudeStray(h, n, d) BY <1>2 DEF ClaudeStray, Lost
<1> QED BY <1>1, <1>3 DEF ClaudeCalm

\* A result has ended the turn it is for, or the turn whose result is lost.
LEMMA ClaudeResultEnds ==
    ASSUME NEW g, NEW n, NEW f \in Seq(FrameSet), f # <<>>, NEW d, d = Tail(f), NEW ch, ClaudeCalm(g, n, f, ch),
           g.s.active \in Turn, WorkOK(g.c, n), g.c \in CliSet, Head(f).k = "result", ~g.s.stray,
           g.c.interrupted => g.c.work # <<>>,
           NEW h, h.s.active = NoTurn, h.s.owes = g.s.owes, h.c = g.c,
           h.s.stray <=> g.t[g.s.active].dispatched /\ Head(f).out # "cancelled"
    PROVE  /\ ClaudeCalm(h, n, d, ch)
           /\ Head(f).out \in Outcome
           /\ Head(f).out = "completed" => n[g.s.active] = "completed"
           /\ Head(f).out = "cancelled" => g.t[g.s.active].dispatched
<1>s. g.s.active \in Subject /\ g.s.active # NoTurn /\ "cancelled" # "completed" BY DEF Subject, Turn, NoTurn
<1>1. \/ /\ Head(f).out = n[g.s.active] /\ n[g.s.active] \in Outcome /\ g.c.work = <<>>
         /\ \A i \in DOMAIN d : ~Own(d, i)
         /\ g.s.owes \/ (\E j \in DOMAIN d : Nay(d, j)) =>
               g.t[g.s.active].dispatched /\ n[g.s.active] # "cancelled"
      \/ /\ Head(f).out = "cancelled"
         /\ g.s.owes => \E i \in DOMAIN d : Own(d, i)
         /\ \A j \in DOMAIN d : Nay(d, j) => \E i \in DOMAIN d : i < j /\ Own(d, i)
         /\ Lost(g, n, f)
  BY <1>s, ClaudeFirst
<1>2. ClaudeWork(g, n, ch) /\ ClaudeFrames(g, n, d) /\ ClaudeOrder(g, n, d) BY ClaudeRest
<1>3. /\ g.c.work = <<>> /\ \A i \in DOMAIN d : ~Own(d, i)
  <2>1. CASE Lost(g, n, f)
    <3>1. \A i \in DOMAIN d : i + 1 \in DOMAIN f /\ (Own(d, i) <=> Own(f, i + 1)) BY ClaudeShift DEF Shifted
    <3> QED BY <2>1, <3>1 DEF Lost
  <2> QED BY <1>1, <2>1
<1>4. n[g.s.active] \in Outcome BY <1>1 DEF Lost
<1>5. Head(f).out = "cancelled" => g.t[g.s.active].dispatched BY <1>1, <1>2, <1>s DEF Lost, ClaudeWork
<1>6. ~g.c.interrupted /\ DOMAIN g.c.work = {} BY <1>3
<1>7. ClaudeWork(h, n, ch) BY <1>6 DEF ClaudeWork
<1>8. ClaudeFrames(h, n, d)
  <2>1. \A i \in DOMAIN d : d[i].k # "text"
    <3> SUFFICES ASSUME NEW i \in DOMAIN d, d[i].k = "text" PROVE FALSE OBVIOUS
    <3>1. n[g.s.active] = "working" \/ \E j \in DOMAIN d : Own(d, j) BY <1>2 DEF ClaudeFrames
    <3> QED BY <3>1, <1>3, <1>4 DEF Outcome
  <2> QED BY <2>1, <1>2, <1>3 DEF ClaudeFrames
<1>9. ClaudeOrder(h, n, d) BY <1>2, <1>3 DEF ClaudeOrder
<1>10. ClaudeStray(h, n, d) BY <1>1, <1>3 DEF ClaudeStray
<1>11. Head(f).out \in Outcome BY <1>1 DEF Outcome
<1>12. Head(f).out = "completed" => n[g.s.active] = "completed" BY <1>1, <1>s
<1> QED BY <1>5, <1>7, <1>8, <1>9, <1>10, <1>11, <1>12 DEF ClaudeCalm

\* Without a turn a result is a stray one.
LEMMA ClaudeNoResult ==
    ASSUME NEW g, NEW n, NEW f \in Seq(FrameSet), f # <<>>, NEW ch, ClaudeCalm(g, n, f, ch),
           WorkOK(g.c, n), g.c \in CliSet, g.s.active = NoTurn, ~g.s.stray
    PROVE  Head(f).k # "result"
<1>1. g.s.active \in Subject BY DEF Subject
<1> QED BY <1>1, ClaudeFirst DEF Lost

\* What the account of the results depends on
ClaudeAlike(g, h) ==
    /\ h.s.active = g.s.active /\ h.s.awaiting = g.s.awaiting /\ h.s.stray = g.s.stray /\ h.s.owes = g.s.owes
    /\ h.t[g.s.active].dispatched = g.t[g.s.active].dispatched
    /\ h.c.work = g.c.work /\ h.c.interrupted = g.c.interrupted

\* The account of results is kept by a step that changes none of its terms.
LEMMA ClaudeSame ==
    ASSUME NEW g, NEW n, NEW f, NEW ch, ClaudeCalm(g, n, f, ch), NEW h, ClaudeAlike(g, h),
           NEW dh, dh = ch \/ dh # "alive"
    PROVE  ClaudeCalm(h, n, f, dh)
<1>1. ClaudeWork(h, n, dh) BY DEF ClaudeCalm, ClaudeWork, ClaudeAlike
<1>2. ClaudeFrames(h, n, f) BY DEF ClaudeCalm, ClaudeFrames, ClaudeAlike
<1>3. ClaudeOrder(h, n, f) BY DEF ClaudeCalm, ClaudeOrder, ClaudeAlike
<1>4. ClaudeStray(h, n, f) BY DEF ClaudeCalm, ClaudeStray, ClaudeAlike, Lost
<1> QED BY <1>1, <1>2, <1>3, <1>4 DEF ClaudeCalm

\* The frames after one has been written
Grown(f, x, d) ==
    /\ d \in Seq(FrameSet) /\ DOMAIN d \subseteq Nat
    /\ \A i \in DOMAIN d : \/ i \in DOMAIN f /\ d[i] = f[i]
                           \/ i \notin DOMAIN f /\ d[i] = x
    /\ \A i \in DOMAIN f : i \in DOMAIN d /\ d[i] = f[i]
    /\ \A i \in DOMAIN d, j \in DOMAIN d : i \notin DOMAIN f /\ j \notin DOMAIN f => i = j
    /\ \E i \in DOMAIN d : i \notin DOMAIN f /\ d[i] = x
    /\ \A i \in DOMAIN d, j \in DOMAIN f : i \notin DOMAIN f => j < i /\ ~(i < j)
    /\ \A i \in DOMAIN f : (Own(d, i) <=> Own(f, i)) /\ (Nay(d, i) <=> Nay(f, i))

\* The CLI has written one frame more.
LEMMA ClaudeAppend ==
    ASSUME NEW f \in Seq(FrameSet), NEW x \in FrameSet, NEW d, d = Append(f, x)
    PROVE  Grown(f, x, d)
<1>1. /\ d \in Seq(FrameSet) /\ Len(f) \in Nat /\ DOMAIN f = 1..Len(f)
      /\ DOMAIN d = 1..Len(f) + 1 /\ d[Len(f) + 1] = x
      /\ \A i \in DOMAIN d :
           \/ i \in DOMAIN f /\ d[i] = f[i]
           \/ i = Len(f) + 1 /\ i \notin DOMAIN f /\ d[i] = x
      /\ \A i \in DOMAIN f : i \in DOMAIN d /\ d[i] = f[i] /\ i < Len(f) + 1
  BY SeqAppend
<1>2. \A i \in DOMAIN d, j \in DOMAIN f : i \notin DOMAIN f => j < i /\ ~(i < j) BY <1>1
<1>3. \E i \in DOMAIN d : i \notin DOMAIN f /\ d[i] = x BY <1>1
<1>4. \A i \in DOMAIN f : (Own(d, i) <=> Own(f, i)) /\ (Nay(d, i) <=> Nay(f, i)) BY <1>1 DEF Own, Nay
<1> QED BY <1>1, <1>2, <1>3, <1>4 DEF Grown

\* A frame that is no result has been written.
LEMMA ClaudeWrites ==
    ASSUME NEW g, NEW n, NEW f \in Seq(FrameSet), NEW x \in FrameSet, NEW d, d = Append(f, x), NEW ch,
           ClaudeCalm(g, n, f, ch), x.k # "result",
           x.k = "text" => /\ g.s.active # NoTurn /\ x.id[2] = g.s.active
                           /\ n[g.s.active] = "working"
    PROVE  ClaudeCalm(g, n, d, ch)
<1>g. Grown(f, x, d) BY ClaudeAppend
<1>s. /\ d \in Seq(FrameSet) /\ DOMAIN d \subseteq Nat
      /\ \A i \in DOMAIN d : \/ i \in DOMAIN f /\ d[i] = f[i]
                             \/ i \notin DOMAIN f /\ d[i] = x
      /\ \A i \in DOMAIN f : i \in DOMAIN d /\ d[i] = f[i]
      /\ \A i \in DOMAIN f : (Own(d, i) <=> Own(f, i)) /\ (Nay(d, i) <=> Nay(f, i))
  BY <1>g DEF Grown
<1>d. \A i : /\ Own(d, i) => i \in DOMAIN f /\ Own(f, i)
             /\ Nay(d, i) => i \in DOMAIN f /\ Nay(f, i)
  BY <1>s DEF Own, Nay
<1>1. ClaudeWork(g, n, ch) BY DEF ClaudeCalm
<1>2. ClaudeFrames(g, n, d)
  <2>1. ASSUME NEW i \in DOMAIN d, d[i].k = "text"
        PROVE  /\ g.s.active # NoTurn /\ d[i].id[2] = g.s.active
               /\ n[g.s.active] = "working" \/ (n[g.s.active] \in Outcome /\ \E j \in DOMAIN d : i < j /\ Own(d, j))
    <3>1. CASE i \in DOMAIN f /\ d[i] = f[i]
      <4>1. /\ g.s.active # NoTurn /\ d[i].id[2] = g.s.active
            /\ n[g.s.active] = "working" \/ (n[g.s.active] \in Outcome /\ \E j \in DOMAIN f : i < j /\ Own(f, j))
        BY <2>1, <3>1 DEF ClaudeCalm, ClaudeFrames
      <4> QED BY <4>1, <1>s
    <3> QED BY <1>s, <2>1, <3>1
  <2>2. ASSUME NEW i \in DOMAIN d, Own(d, i)
        PROVE  /\ d[i].id[2] = g.s.active /\ d[i].out = n[g.s.active] /\ n[g.s.active] \in Outcome
               /\ \A j \in DOMAIN d : i < j => ~Own(d, j)
    BY <2>2, <1>s, <1>d DEF ClaudeCalm, ClaudeFrames
  <2>3. \A i \in DOMAIN d : Nay(d, i) => d[i].id = <<"prompt", NoTurn>> /\ d[i].out = "cancelled"
    BY <1>s, <1>d DEF ClaudeCalm, ClaudeFrames
  <2> QED BY <2>1, <2>2, <2>3 DEF ClaudeFrames
<1>3. ClaudeOrder(g, n, d) BY <1>s, <1>d DEF ClaudeCalm, ClaudeOrder
<1>l. Lost(g, n, f) => Lost(g, n, d) BY <1>d DEF Lost
<1>4. ClaudeStray(g, n, d)
  <2>1. ASSUME NEW j \in DOMAIN d, Nay(d, j), \A i \in DOMAIN d : i < j => ~Own(d, i)
        PROVE  g.s.stray \/ Lost(g, n, d)
    <3>1. Nay(f, j) /\ j \in DOMAIN f /\ \A i \in DOMAIN f : i < j => ~Own(f, i) BY <2>1, <1>s, <1>d
    <3> QED BY <3>1, <1>l DEF ClaudeCalm, ClaudeStray
  <2>2. ASSUME g.s.owes, \A i \in DOMAIN d : ~Own(d, i) PROVE g.s.stray \/ Lost(g, n, d)
    <3>1. \A i \in DOMAIN f : ~Own(f, i) BY <2>2, <1>s
    <3> QED BY <2>2, <3>1, <1>l DEF ClaudeCalm, ClaudeStray
  <2> QED BY <2>1, <2>2 DEF ClaudeStray
<1> QED BY <1>1, <1>2, <1>3, <1>4 DEF ClaudeCalm

\* The CLI has ended the turn that it worked on.
LEMMA ClaudeEnds ==
    ASSUME NEW g, NEW n, NEW f \in Seq(FrameSet), NEW x \in FrameSet, NEW d, d = Append(f, x), NEW ch,
           ClaudeCalm(g, n, f, ch), NEW a \in Turn, g.s.active = a, n[a] = "working", ~g.s.owes,
           x.k = "result", x.id[2] = a, x.out \in Outcome, x.out = "cancelled" => g.c.interrupted,
           NEW m, m[a] = x.out,
           NEW h, h.s.active = a, h.s.awaiting = g.s.awaiting, h.s.owes = g.s.owes, h.s.stray = g.s.stray, h.t = g.t,
           h.c.work = <<>>, ~h.c.interrupted
    PROVE  ClaudeCalm(h, m, d, ch)
<1>g. Grown(f, x, d) BY ClaudeAppend
<1>s. /\ d \in Seq(FrameSet) /\ DOMAIN d \subseteq Nat
      /\ \A i \in DOMAIN d : \/ i \in DOMAIN f /\ d[i] = f[i]
                             \/ i \notin DOMAIN f /\ d[i] = x
      /\ \A i \in DOMAIN f : i \in DOMAIN d /\ d[i] = f[i]
      /\ \A i \in DOMAIN d, j \in DOMAIN d : i \notin DOMAIN f /\ j \notin DOMAIN f => i = j
      /\ \A i \in DOMAIN d, j \in DOMAIN f : i \notin DOMAIN f => j < i /\ ~(i < j)
      /\ \A i \in DOMAIN f : (Own(d, i) <=> Own(f, i)) /\ (Nay(d, i) <=> Nay(f, i))
  BY <1>g DEF Grown
<1>p. PICK p \in DOMAIN d : p \notin DOMAIN f /\ d[p] = x
  <2>1. \E i \in DOMAIN d : i \notin DOMAIN f /\ d[i] = x BY <1>g DEF Grown
  <2> QED BY <2>1
<1>a. a # NoTurn /\ "working" \notin Outcome /\ m[a] \in Outcome BY DEF Turn, NoTurn, Outcome
<1>o. \A i \in DOMAIN f : ~Own(f, i) BY <1>a DEF ClaudeCalm, ClaudeFrames
<1>d. /\ Own(d, p) /\ \A i : Own(d, i) => i = p
      /\ \A i : Nay(d, i) => i \in DOMAIN f /\ Nay(f, i) /\ i < p
  <2>1. Own(d, p) /\ ~Nay(d, p) BY <1>p, <1>a DEF Own, Nay
  <2>2. \A i \in DOMAIN d : i \in DOMAIN f \/ i = p BY <1>s, <1>p
  <2>3. \A i : Own(d, i) \/ Nay(d, i) => i \in DOMAIN d BY DEF Own, Nay
  <2> QED BY <2>1, <2>2, <2>3, <1>o, <1>s, <1>p
<1>n. \A i, j \in DOMAIN d : Nay(d, i) /\ Nay(d, j) => ~(i < j)
  <2> SUFFICES ASSUME NEW i \in DOMAIN d, NEW j \in DOMAIN d, Nay(d, i), Nay(d, j), i < j PROVE FALSE
    OBVIOUS
  <2>1. i \in DOMAIN f /\ j \in DOMAIN f /\ Nay(f, i) /\ Nay(f, j) BY <1>d
  <2> QED BY <2>1, <1>o DEF ClaudeCalm, ClaudeOrder
<1>1. ClaudeWork(h, m, ch)
  <2>1. m[a] = "cancelled" => g.t[a].dispatched BY DEF ClaudeCalm, ClaudeWork
  <2>2. DOMAIN h.c.work = {} OBVIOUS
  <2>3. m[a] # "none" /\ m[a] # "working" BY <1>a DEF Outcome
  <2>4. g.s.awaiting BY <1>a DEF ClaudeCalm, ClaudeWork
  <2> QED BY <2>1, <2>2, <2>3, <2>4 DEF ClaudeWork
<1>2. ClaudeFrames(h, m, d)
  <2>1. ASSUME NEW i \in DOMAIN d, d[i].k = "text"
        PROVE  d[i].id[2] = a /\ \E j \in DOMAIN d : i < j /\ Own(d, j)
    <3>1. i \in DOMAIN f /\ d[i] = f[i] BY <1>s, <2>1
    <3>2. d[i].id[2] = a BY <2>1, <3>1 DEF ClaudeCalm, ClaudeFrames
    <3> QED BY <3>1, <3>2, <1>s, <1>p, <1>d
  <2>2. ASSUME NEW i \in DOMAIN d, Own(d, i)
        PROVE  /\ d[i].id[2] = a /\ d[i].out = m[a]
               /\ \A j \in DOMAIN d : i < j => ~Own(d, j)
    <3>1. i = p /\ ~(i < i) BY <2>2, <1>d, <1>s
    <3> QED BY <3>1, <1>d, <1>p
  <2>3. \A i \in DOMAIN d : Nay(d, i) => d[i].id = <<"prompt", NoTurn>> /\ d[i].out = "cancelled"
    BY <1>s, <1>d DEF ClaudeCalm, ClaudeFrames
  <2> QED BY <2>1, <2>2, <2>3, <1>a DEF ClaudeFrames
<1>3. ClaudeOrder(h, m, d)
  <2>1. \A j \in DOMAIN d : p < j => ~Nay(d, j) BY <1>d, <1>s, <1>p
  <2> QED BY <2>1, <1>d, <1>n DEF ClaudeOrder
<1>4. ClaudeStray(h, m, d)
  <2>1. ASSUME NEW j \in DOMAIN d, Nay(d, j) PROVE g.s.stray
    <3>1. Nay(f, j) /\ j \in DOMAIN f BY <2>1, <1>d
    <3>2. g.s.stray \/ Lost(g, n, f) BY <3>1, <1>o DEF ClaudeCalm, ClaudeStray
    <3> QED BY <3>2, <1>a DEF Lost
  <2> QED BY <2>1 DEF ClaudeStray
<1> QED BY <1>1, <1>2, <1>3, <1>4 DEF ClaudeCalm

\* The CLI has answered an interruption that found it idle ...
LEMMA ClaudeDenies ==
    ASSUME NEW g, NEW n, NEW f \in Seq(FrameSet), NEW x \in FrameSet, NEW d, d = Append(f, x), NEW ch,
           ClaudeCalm(g, n, f, ch), g.s.owes, x.k = "result", x.id = <<"prompt", NoTurn>>, x.out = "cancelled",
           NEW h, h.s.active = g.s.active, h.s.awaiting = g.s.awaiting, h.s.stray = g.s.stray, ~h.s.owes,
           h.t = g.t, h.c = g.c
    PROVE  ClaudeCalm(h, n, d, ch)
<1>g. Grown(f, x, d) BY ClaudeAppend
<1>s. /\ d \in Seq(FrameSet) /\ DOMAIN d \subseteq Nat
      /\ \A i \in DOMAIN d : \/ i \in DOMAIN f /\ d[i] = f[i]
                             \/ i \notin DOMAIN f /\ d[i] = x
      /\ \A i \in DOMAIN f : i \in DOMAIN d /\ d[i] = f[i]
      /\ \A i \in DOMAIN d, j \in DOMAIN d : i \notin DOMAIN f /\ j \notin DOMAIN f => i = j
      /\ \A i \in DOMAIN d, j \in DOMAIN f : i \notin DOMAIN f => j < i /\ ~(i < j)
      /\ \A i \in DOMAIN f : (Own(d, i) <=> Own(f, i)) /\ (Nay(d, i) <=> Nay(f, i))
  BY <1>g DEF Grown
<1>x. x.id[2] = NoTurn OBVIOUS
<1>d. /\ \A i : Own(d, i) => i \in DOMAIN f /\ Own(f, i)
      /\ \A i : Nay(d, i) => i \in DOMAIN d /\ (i \in DOMAIN f => Nay(f, i))
  BY <1>s, <1>x DEF Own, Nay
<1>1. ClaudeWork(h, n, ch) BY DEF ClaudeCalm, ClaudeWork
<1>2. ClaudeFrames(h, n, d)
  <2>1. ASSUME NEW i \in DOMAIN d, d[i].k = "text"
        PROVE  /\ g.s.active # NoTurn /\ d[i].id[2] = g.s.active
               /\ n[g.s.active] = "working" \/ (n[g.s.active] \in Outcome /\ \E j \in DOMAIN d : i < j /\ Own(d, j))
    <3>1. i \in DOMAIN f /\ d[i] = f[i] BY <1>s, <2>1
    <3>2. /\ g.s.active # NoTurn /\ d[i].id[2] = g.s.active
          /\ n[g.s.active] = "working" \/ (n[g.s.active] \in Outcome /\ \E j \in DOMAIN f : i < j /\ Own(f, j))
      BY <2>1, <3>1 DEF ClaudeCalm, ClaudeFrames
    <3> QED BY <3>2, <1>s
  <2>2. ASSUME NEW i \in DOMAIN d, Own(d, i)
        PROVE  /\ d[i].id[2] = g.s.active /\ d[i].out = n[g.s.active] /\ n[g.s.active] \in Outcome
               /\ \A j \in DOMAIN d : i < j => ~Own(d, j)
    BY <2>2, <1>s, <1>d DEF ClaudeCalm, ClaudeFrames
  <2>3. \A i \in DOMAIN d : Nay(d, i) => d[i].id = <<"prompt", NoTurn>> /\ d[i].out = "cancelled"
    BY <1>s, <1>d DEF ClaudeCalm, ClaudeFrames
  <2> QED BY <2>1, <2>2, <2>3 DEF ClaudeFrames
<1>3. ClaudeOrder(h, n, d)
  <2>1. ASSUME NEW i \in DOMAIN d, NEW j \in DOMAIN d, Nay(d, i), Nay(d, j), i < j
        PROVE  \E k \in DOMAIN d : i < k /\ k < j /\ Own(d, k)
    <3>1. i \in DOMAIN f
      <4>1. CASE i \notin DOMAIN f
        <5>1. j # i /\ j \in DOMAIN f BY <1>s, <2>1, <4>1
        <5> QED BY <5>1, <1>s, <2>1, <4>1
      <4> QED BY <4>1
    <3>2. CASE j \in DOMAIN f
      <4>1. \E k \in DOMAIN f : i < k /\ k < j /\ Own(f, k) BY <1>d, <2>1, <3>1, <3>2 DEF ClaudeCalm, ClaudeOrder
      <4> QED BY <4>1, <1>s
    <3>3. CASE j \notin DOMAIN f
      <4>1. \E k \in DOMAIN f : i < k /\ Own(f, k) BY <1>d, <2>1, <3>1 DEF ClaudeCalm, ClaudeOrder
      <4> QED BY <4>1, <1>s, <3>3
    <3> QED BY <3>2, <3>3
  <2>2. \A i \in DOMAIN d : Own(d, i) => g.t[g.s.active].dispatched /\ n[g.s.active] # "cancelled"
    BY <1>d DEF ClaudeCalm, ClaudeOrder
  <2>3. ~(g.s.active # NoTurn /\ ~g.t[g.s.active].dispatched /\ n[g.s.active] \in Outcome)
    BY DEF ClaudeCalm, ClaudeOrder
  <2> QED BY <2>1, <2>2, <2>3 DEF ClaudeOrder
<1>l. Lost(g, n, f) => Lost(h, n, d) BY <1>d DEF Lost
<1>4. ClaudeStray(h, n, d)
  <2>1. ASSUME NEW j \in DOMAIN d, Nay(d, j), \A i \in DOMAIN d : i < j => ~Own(d, i)
        PROVE  g.s.stray \/ Lost(h, n, d)
    <3>0. \A i \in DOMAIN f : i < j => ~Own(f, i) BY <2>1, <1>s
    <3>1. CASE j \in DOMAIN f
      BY <3>0, <3>1, <2>1, <1>d, <1>l DEF ClaudeCalm, ClaudeStray
    <3>2. CASE j \notin DOMAIN f
      <4>1. \A i \in DOMAIN f : ~Own(f, i) BY <3>0, <3>2, <1>s
      <4> QED BY <4>1, <1>l DEF ClaudeCalm, ClaudeStray
    <3> QED BY <3>1, <3>2
  <2> QED BY <2>1 DEF ClaudeStray
<1> QED BY <1>1, <1>2, <1>3, <1>4 DEF ClaudeCalm

\* ... or will not.
LEMMA ClaudeForgives ==
    ASSUME NEW g, NEW n, NEW f, NEW ch, ClaudeCalm(g, n, f, ch), g.s.owes,
           NEW h, h.s.active = g.s.active, h.s.awaiting = g.s.awaiting, h.s.stray = g.s.stray, ~h.s.owes,
           h.t = g.t, h.c = g.c
    PROVE  ClaudeCalm(h, n, f, ch)
<1>1. ClaudeWork(h, n, ch) BY DEF ClaudeCalm, ClaudeWork
<1>2. ClaudeFrames(h, n, f) BY DEF ClaudeCalm, ClaudeFrames
<1>3. ClaudeOrder(h, n, f) BY DEF ClaudeCalm, ClaudeOrder
<1>4. ClaudeStray(h, n, f) BY DEF ClaudeCalm, ClaudeStray, Lost
<1> QED BY <1>1, <1>2, <1>3, <1>4 DEF ClaudeCalm

\* Without a turn the CLI is idle, and nothing but stray results are on their way.
LEMMA ClaudeQuiet ==
    ASSUME NEW g, NEW n, NEW f, NEW ch, ClaudeCalm(g, n, f, ch), g.s.active = NoTurn, g.c \in CliSet
    PROVE  /\ g.c.work = <<>> /\ ~g.c.interrupted
           /\ \A i \in DOMAIN f : f[i].k # "text" /\ ~Own(f, i)
           /\ \A i \in DOMAIN f : Nay(f, i) => f[i].id = <<"prompt", NoTurn>> /\ f[i].out = "cancelled"
           /\ \A i, j \in DOMAIN f : Nay(f, i) /\ Nay(f, j) => ~(i < j)
           /\ g.s.owes => \A i \in DOMAIN f : ~Nay(f, i)
           /\ \A i \in DOMAIN f : Nay(f, i) => g.s.stray
           /\ g.s.owes => g.s.stray
<1>1. g.c.work = <<>>
  <2> SUFFICES ASSUME g.c.work # <<>> PROVE FALSE OBVIOUS
  <2>1. 1 \in DOMAIN g.c.work /\ g.c.work[1] \in Turn BY DEF CliSet
  <2>2. g.c.work[1] = NoTurn BY <2>1 DEF ClaudeCalm, ClaudeWork
  <2> QED BY <2>1, <2>2 DEF Turn, NoTurn
<1>2. ~g.c.interrupted BY DEF ClaudeCalm, ClaudeWork
<1>3. \A i \in DOMAIN f : f[i].k # "text" BY DEF ClaudeCalm, ClaudeFrames
<1>4. \A i \in DOMAIN f : ~Own(f, i) BY DEF ClaudeCalm, ClaudeFrames, Own
<1>5. \A i \in DOMAIN f : Nay(f, i) => f[i].id = <<"prompt", NoTurn>> /\ f[i].out = "cancelled"
  BY DEF ClaudeCalm, ClaudeFrames
<1>6. \A i, j \in DOMAIN f : Nay(f, i) /\ Nay(f, j) => ~(i < j) BY <1>4 DEF ClaudeCalm, ClaudeOrder
<1>7. g.s.owes => \A i \in DOMAIN f : ~Nay(f, i) BY <1>4 DEF ClaudeCalm, ClaudeOrder
<1>8. /\ \A i \in DOMAIN f : Nay(f, i) => g.s.stray
      /\ g.s.owes => g.s.stray
  BY <1>4 DEF ClaudeCalm, ClaudeStray, Lost
<1> QED BY <1>1, <1>2, <1>3, <1>4, <1>5, <1>6, <1>7, <1>8

\* ... whatever has become of the turns
LEMMA ClaudeRests ==
    ASSUME NEW g, NEW n, NEW f, NEW ch, ClaudeCalm(g, n, f, ch), g.s.active = NoTurn, g.c \in CliSet,
           NEW m, NEW dh, NEW h, h.s.active = NoTurn, h.s.owes = g.s.owes, h.s.stray = g.s.stray, h.c = g.c
    PROVE  ClaudeCalm(h, m, f, dh)
<1>1. /\ g.c.work = <<>> /\ ~g.c.interrupted
      /\ \A i \in DOMAIN f : f[i].k # "text" /\ ~Own(f, i)
      /\ \A i \in DOMAIN f : Nay(f, i) => f[i].id = <<"prompt", NoTurn>> /\ f[i].out = "cancelled"
      /\ \A i, j \in DOMAIN f : Nay(f, i) /\ Nay(f, j) => ~(i < j)
      /\ g.s.owes => \A i \in DOMAIN f : ~Nay(f, i)
      /\ \A i \in DOMAIN f : Nay(f, i) => g.s.stray
      /\ g.s.owes => g.s.stray
  BY ClaudeQuiet
<1>2. ClaudeWork(h, m, dh) BY <1>1 DEF ClaudeWork
<1>3. ClaudeFrames(h, m, f) BY <1>1 DEF ClaudeFrames
<1>4. ClaudeOrder(h, m, f) BY <1>1 DEF ClaudeOrder
<1>5. ClaudeStray(h, m, f) BY <1>1 DEF ClaudeStray
<1> QED BY <1>2, <1>3, <1>4, <1>5 DEF ClaudeCalm

\* ... and a turn may be begun.
LEMMA ClaudeTakes ==
    ASSUME NEW g, NEW n, NEW f, NEW ch, ClaudeCalm(g, n, f, ch), g.s.active = NoTurn, g.c \in CliSet,
           NEW t \in Turn, NEW m, m[t] = IF ch = "alive" THEN "working" ELSE "none",
           NEW h, h.s.active = t, h.s.awaiting, h.s.owes = g.s.owes, h.s.stray = g.s.stray, ~h.t[t].dispatched,
           ~h.c.interrupted, \A i \in DOMAIN h.c.work : h.c.work[i] = t, ch = "alive" => h.c.work # <<>>
    PROVE  ClaudeCalm(h, m, f, ch)
<1>1. /\ \A i \in DOMAIN f : f[i].k # "text" /\ ~Own(f, i)
      /\ \A i \in DOMAIN f : Nay(f, i) => f[i].id = <<"prompt", NoTurn>> /\ f[i].out = "cancelled"
      /\ \A i, j \in DOMAIN f : Nay(f, i) /\ Nay(f, j) => ~(i < j)
      /\ g.s.owes => \A i \in DOMAIN f : ~Nay(f, i)
      /\ \A i \in DOMAIN f : Nay(f, i) => g.s.stray
      /\ g.s.owes => g.s.stray
  BY ClaudeQuiet
<1>m. m[t] # "cancelled" /\ m[t] \notin Outcome BY DEF Outcome
<1>2. ClaudeWork(h, m, ch) BY <1>1, <1>m DEF ClaudeWork
<1>3. ClaudeFrames(h, m, f) BY <1>1 DEF ClaudeFrames
<1>4. ClaudeOrder(h, m, f) BY <1>1, <1>m DEF ClaudeOrder
<1>5. ClaudeStray(h, m, f) BY <1>1 DEF ClaudeStray
<1> QED BY <1>2, <1>3, <1>4, <1>5 DEF ClaudeCalm

\* An interruption has been written.
LEMMA ClaudeInterrupts ==
    ASSUME NEW g, NEW n \in [Turn -> NativeSet], NEW f, NEW ch, ClaudeCalm(g, n, f, ch), g.s.active \in Turn,
           ~g.t[g.s.active].dispatched, n[g.s.active] # "past",
           NEW h, h.s.active = g.s.active, h.s.awaiting = g.s.awaiting, h.s.stray = g.s.stray,
           h.t[g.s.active].dispatched, h.s.owes <=> g.s.owes \/ (ch = "alive" /\ g.c.work = <<>>),
           h.c.work = g.c.work
    PROVE  ClaudeCalm(h, n, f, ch)
<1>a. PICK a \in Turn : a = g.s.active OBVIOUS
<1>n. g.s.active # NoTurn BY DEF Turn, NoTurn
<1>1. ClaudeWork(h, n, ch) BY <1>n DEF ClaudeCalm, ClaudeWork
<1>2. ClaudeFrames(h, n, f) BY DEF ClaudeCalm, ClaudeFrames
<1>l. Lost(g, n, f) => Lost(h, n, f) BY DEF Lost
<1>3. CASE g.s.owes \/ ~(ch = "alive" /\ g.c.work = <<>>)
  <2>1. h.s.owes <=> g.s.owes BY <1>3
  <2>2. ClaudeOrder(h, n, f) BY <2>1 DEF ClaudeCalm, ClaudeOrder
  <2>3. ClaudeStray(h, n, f) BY <1>l, <2>1 DEF ClaudeCalm, ClaudeStray
  <2> QED BY <1>1, <1>2, <2>2, <2>3 DEF ClaudeCalm
<1>4. CASE ~g.s.owes /\ ch = "alive" /\ g.c.work = <<>>
  <2>1. n[a] \in Outcome /\ n[a] # "cancelled" /\ a # NoTurn
    <3>1. n[a] \in NativeSet /\ a # NoTurn BY DEF Turn, NoTurn
    <3>2. n[a] # "none" /\ n[a] # "working" /\ n[a] # "cancelled"
      BY <1>4, <1>a, <3>1 DEF ClaudeCalm, ClaudeWork
    <3> QED BY <3>1, <3>2, <1>a DEF NativeSet
  <2>2. \A i \in DOMAIN f : Nay(f, i) => \E k \in DOMAIN f : i < k /\ Own(f, k)
    BY <1>a, <2>1 DEF ClaudeCalm, ClaudeOrder
  <2>3. ClaudeOrder(h, n, f) BY <1>a, <2>1, <2>2 DEF ClaudeCalm, ClaudeOrder
  <2>4. (\A i \in DOMAIN f : ~Own(f, i)) => Lost(h, n, f) BY <1>4, <1>a, <2>1 DEF Lost
  <2>5. ClaudeStray(h, n, f) BY <1>l, <2>4 DEF ClaudeCalm, ClaudeStray
  <2> QED BY <1>1, <1>2, <2>3, <2>5 DEF ClaudeCalm
<1> QED BY <1>3, <1>4

\* The window for a stray result has ended without one.
LEMMA ClaudeWindowEnds ==
    ASSUME NEW g, NEW n, NEW f, NEW ch, ClaudeCalm(g, n, f, ch), ~g.s.owes,
           \A i \in DOMAIN f : f[i].id # <<"prompt", NoTurn>>,
           NEW h, h.s.active = g.s.active, h.s.awaiting = g.s.awaiting, h.s.owes = g.s.owes, h.t = g.t, h.c = g.c
    PROVE  ClaudeCalm(h, n, f, ch)
<1>0. \A i \in DOMAIN f : ~Nay(f, i) BY DEF ClaudeCalm, ClaudeFrames
<1>1. ClaudeWork(h, n, ch) BY DEF ClaudeCalm, ClaudeWork
<1>2. ClaudeFrames(h, n, f) BY DEF ClaudeCalm, ClaudeFrames
<1>3. ClaudeOrder(h, n, f) BY DEF ClaudeCalm, ClaudeOrder
<1>4. ClaudeStray(h, n, f) BY <1>0 DEF ClaudeStray
<1> QED BY <1>1, <1>2, <1>3, <1>4 DEF ClaudeCalm

\* #emitTerminal
ClaudeEmits(g, h, t, o) ==
    /\ h.s.active = NoTurn /\ h.s.owes = g.s.owes /\ h.s.runtime = g.s.runtime /\ h.s.at = g.s.at
    /\ h.s.poisoned = g.s.poisoned /\ h.s.closing = g.s.closing /\ h.s.teardown = g.s.teardown /\ h.c = g.c
    /\ h.s.stray <=> g.s.stray \/ (g.t[t].dispatched /\ o # "cancelled")

\* What is to hold when a turn ends, even if the session does not serve any more
ClaudeSound(g, n) ==
    /\ g \in ClaudeState /\ StreamsOK(g.e, n, g.t, g.s.active)
    /\ \A u \in Turn : /\ g.t[u].dispatched => u = g.s.active /\ g.t[u].cancel
                       /\ g.t[u].timer # "none" => u = g.s.active
    /\ WorkOK(g.c, n) /\ Interruption(g.c, g.e, g.t)

\* #emitTerminal ends the stream of the Turn that is active, and forgets the Turn.
LEMMA ClaudeEmit ==
    ASSUME NEW g, NEW n, ClaudeSound(g, n), NEW t \in Turn, t = g.s.active, NEW o \in Outcome,
           o = "completed" => n[t] = "completed", o = "cancelled" => g.t[t].cancel,
           NEW h, h = Claude!EmitTerminal(g, t, o)
    PROVE  ClaudeGood(h, n) /\ ClaudeEmits(g, h, t, o)
<1> DEFINE d == Ended(g.e, t, o)
           fresh == [Claude!FreshTurn EXCEPT !.cancel = g.t[t].cancel]
           tt == [g.t EXCEPT ![t] = fresh]
           st == g.s.stray \/ (g.t[t].dispatched /\ o # "cancelled")
           s1 == [g.s EXCEPT !.awaiting = FALSE]
           s2 == [s1 EXCEPT !.stray = st]
           ss == [s2 EXCEPT !.active = NoTurn]
<1>g. /\ g \in ClaudeState /\ g.s \in ClaudeSession /\ g.t \in [Turn -> ClaudeTurn] /\ g.e \in [Turn -> StreamSet]
      /\ g.c \in CliSet /\ StreamsOK(g.e, n, g.t, g.s.active) /\ g.s.active \in Subject
  BY DEF ClaudeSound, ClaudeState, ClaudeSession
<1>0. g.e[t].open /\ g.e[t].ends = <<>> BY <1>g DEF StreamsOK, Turn, NoTurn
<1>1. h = [g EXCEPT !.t[t] = fresh, !.e = d, !.s.awaiting = FALSE,
                    !.s.stray = @ \/ (g.t[t].dispatched /\ o # "cancelled"),
                    !.s.active = IF @ = t THEN NoTurn ELSE @]
  BY <1>0, ClaudeNames DEF Claude!EmitTerminal, Claude!Terminal
<1>2. h = [s |-> ss, t |-> tt, e |-> d, c |-> g.c]
  <2> HIDE DEF d, fresh
  <2> QED BY <1>1, <1>g DEF ClaudeState, ClaudeSession
<1>3. /\ fresh \in ClaudeTurn /\ fresh.cancel = g.t[t].cancel /\ ~fresh.dispatched /\ fresh.timer = "none"
  BY <1>g DEF Claude!FreshTurn, ClaudeTurn
<1> HIDE DEF fresh
<1>4. /\ tt \in [Turn -> ClaudeTurn] /\ tt[t] = fresh
      /\ \A u \in Turn \ {t} : tt[u] = g.t[u]
  BY <1>3, <1>g
<1>5. st \in BOOLEAN BY <1>g DEF ClaudeSession
<1>7. /\ ss \in ClaudeSession /\ ss.active = NoTurn /\ ss.stray = st /\ ss.owes = g.s.owes
      /\ ss.poisoned = g.s.poisoned /\ ss.runtime = g.s.runtime /\ ss.at = g.s.at
      /\ ss.closing = g.s.closing /\ ss.teardown = g.s.teardown
  <2> HIDE DEF st
  <2> QED BY <1>5, <1>g DEF ClaudeSession, Subject
<1>8. /\ d \in [Turn -> StreamSet] /\ StreamsOK(d, n, g.t, NoTurn)
      /\ \A u \in Turn : g.e[u].ends # <<>> => d[u].ends # <<>>
  BY <1>g, StreamsEnd
<1> HIDE DEF tt, ss, s1, s2, d
<1>9. h \in ClaudeState /\ h.s = ss /\ h.t = tt /\ h.e = d /\ h.c = g.c
  BY <1>2, <1>4, <1>7, <1>8, <1>g DEF ClaudeState
<1>10. \A u \in Turn : g.t[u].cancel => tt[u].cancel BY <1>3, <1>4
<1>11. StreamsOK(h.e, n, h.t, h.s.active) BY <1>7, <1>8, <1>9, <1>10, StreamsTurn
<1>12. \A u \in Turn : ~h.t[u].dispatched /\ h.t[u].timer = "none" BY <1>3, <1>4, <1>9 DEF ClaudeSound
<1>13. WorkOK(h.c, n) BY <1>9 DEF ClaudeSound
<1>14. Interruption(h.c, h.e, h.t)
  <2>1. g.c.work # <<>> => Head(g.c.work) \in Turn BY <1>g DEF CliSet
  <2> QED BY <2>1, <1>8, <1>9, <1>10 DEF ClaudeSound, Interruption
<1>15. ClaudeGood(h, n) BY <1>7, <1>9, <1>11, <1>12, <1>13, <1>14 DEF ClaudeGood
<1>16. ClaudeEmits(g, h, t, o) BY <1>7, <1>9 DEF ClaudeEmits
<1> QED BY <1>15, <1>16

\* #scheduleRuntimeTeardown
LEMMA ClaudeTeardown ==
    ASSUME NEW g, NEW n, ClaudeGood(g, n), g.s.active = NoTurn, NEW h, h = Claude!ScheduleTeardown(g)
    PROVE  /\ ClaudeGood(h, n) /\ h.s.poisoned /\ h.s.active = NoTurn
           /\ h.s.runtime = g.s.runtime /\ h.c = g.c
<1> DEFINE td == IF g.s.teardown = "none" THEN "scheduled" ELSE g.s.teardown
           s1 == [g.s EXCEPT !.poisoned = TRUE]
           ss == [s1 EXCEPT !.teardown = td]
<1>g. g \in ClaudeState /\ g.s \in ClaudeSession BY DEF ClaudeGood, ClaudeState
<1>1. h = [g EXCEPT !.s.poisoned = TRUE, !.s.teardown = IF @ = "none" THEN "scheduled" ELSE @]
  BY DEF Claude!ScheduleTeardown
<1>2. h = [s |-> ss, t |-> g.t, e |-> g.e, c |-> g.c]
  BY <1>1, <1>g DEF ClaudeState, ClaudeSession
<1>3. td \in {"none", "scheduled", "waiting", "closing", "done"} BY <1>g DEF ClaudeSession
<1>4. s1 \in ClaudeSession /\ s1.poisoned /\ s1.active = g.s.active /\ s1.runtime = g.s.runtime
  BY <1>g DEF ClaudeSession
<1> HIDE DEF s1, td
<1>5. ss \in ClaudeSession /\ ss.poisoned = s1.poisoned /\ ss.active = s1.active /\ ss.runtime = s1.runtime
  BY <1>3, <1>4 DEF ClaudeSession
<1> HIDE DEF ss
<1>6. h \in ClaudeState /\ h.s = ss /\ h.t = g.t /\ h.e = g.e /\ h.c = g.c
  BY <1>2, <1>5, <1>g DEF ClaudeState
<1>7. ClaudeGood(h, n) BY <1>4, <1>5, <1>6 DEF ClaudeGood
<1> QED BY <1>4, <1>5, <1>6, <1>7

\* #failTurn, of the active turn
LEMMA ClaudeFailTurn ==
    ASSUME NEW g, NEW n, ClaudeGood(g, n), NEW t \in Turn, t = g.s.active, NEW h, h = Claude!FailTurn(g, t)
    PROVE  /\ ClaudeGood(h, n) /\ h.s.poisoned /\ h.s.active = NoTurn
           /\ h.s.runtime = g.s.runtime /\ h.c = g.c
<1>0. g.e[t].ends = <<>> BY DEF ClaudeGood, StreamsOK, Turn, NoTurn
<1>1. PICK i : i = Claude!EmitTerminal(g, t, "failed") OBVIOUS
<1>2. h = Claude!ScheduleTeardown(i) BY <1>0, <1>1, ClaudeNames DEF Claude!FailTurn, Claude!Terminal
<1>3. PICK o \in Outcome : o = "failed" BY DEF Outcome
<1>4. ClaudeGood(i, n) /\ ClaudeEmits(g, i, t, o)
  <2>1. o # "completed" /\ o # "cancelled" /\ i = Claude!EmitTerminal(g, t, o) BY <1>1, <1>3
  <2>2. ClaudeSound(g, n) BY DEF ClaudeGood, ClaudeSound
  <2> QED BY <2>1, <2>2, ClaudeEmit
<1>5. i.s.active = NoTurn /\ i.s.runtime = g.s.runtime /\ i.c = g.c BY <1>4 DEF ClaudeEmits
<1>6. /\ ClaudeGood(h, n) /\ h.s.poisoned /\ h.s.active = NoTurn
      /\ h.s.runtime = i.s.runtime /\ h.c = i.c
  BY <1>2, <1>4, <1>5, ClaudeTeardown
<1> QED BY <1>5, <1>6

\* A turn is active until its stream ends.
LEMMA ClaudeLive ==
    ASSUME NEW g, NEW n, ClaudeGood(g, n)
    PROVE  /\ Claude!Live(g) <=> g.s.active # NoTurn
           /\ g.s.active # NoTurn => g.s.active \in Turn
<1>1. g.s.active \in Subject BY DEF ClaudeGood, ClaudeState, ClaudeSession
<1>2. g.s.active # NoTurn => g.s.active \in Turn BY <1>1 DEF Subject
<1>3. g.s.active # NoTurn => g.e[g.s.active].ends = <<>> BY <1>2 DEF ClaudeGood, StreamsOK
<1> QED BY <1>2, <1>3, ClaudeNames DEF Claude!Live, Claude!Terminal

\* #failRuntime
LEMMA ClaudeFailRuntime ==
    ASSUME NEW g, NEW n, ClaudeGood(g, n), NEW h, h = Claude!FailRuntime(g)
    PROVE  /\ ClaudeGood(h, n) /\ h.s.poisoned /\ h.s.active = NoTurn
           /\ h.s.runtime = g.s.runtime /\ h.c = g.c
<1>1. CASE g.s.active # NoTurn
  <2>1. Claude!Live(g) /\ g.s.active \in Turn BY <1>1, ClaudeLive
  <2>2. h = Claude!FailTurn(g, g.s.active) BY <2>1 DEF Claude!FailRuntime
  <2> QED BY <2>1, <2>2, ClaudeFailTurn
<1>2. CASE g.s.active = NoTurn
  <2>1. ~Claude!Live(g) BY <1>2, ClaudeLive
  <2>2. h = Claude!ScheduleTeardown(g) BY <2>1 DEF Claude!FailRuntime
  <2> QED BY <1>2, <2>2, ClaudeTeardown
<1> QED BY <1>1, <1>2

\* A timer is set for its own Turn.
LEMMA ClaudeSetsTimer ==
    ASSUME NEW g \in ClaudeState, NEW t \in Turn, NEW x \in {"none", "first", "idle", "cancel"},
           NEW h, h = [g EXCEPT !.t[t].timer = x]
    PROVE  /\ h \in ClaudeState /\ h.s = g.s /\ h.e = g.e /\ h.c = g.c /\ h.t[t].timer = x
           /\ \A u \in Turn : h.t[u].cancel = g.t[u].cancel /\ h.t[u].dispatched = g.t[u].dispatched
           /\ \A u \in Turn \ {t} : h.t[u] = g.t[u]
<1>1. g.t \in [Turn -> ClaudeTurn] BY DEF ClaudeState
<1>2. h = [s |-> g.s, t |-> [g.t EXCEPT ![t].timer = x], e |-> g.e, c |-> g.c]
  BY DEF ClaudeState
<1>t. PICK d : d = [g.t EXCEPT ![t].timer = x] OBVIOUS
<1>3. d \in [Turn -> ClaudeTurn] /\ d[t].timer = x /\ d[t].cancel = g.t[t].cancel
      /\ d[t].dispatched = g.t[t].dispatched /\ \A u \in Turn \ {t} : d[u] = g.t[u]
  BY <1>1, <1>t DEF ClaudeTurn
<1>4. h = [s |-> g.s, t |-> d, e |-> g.e, c |-> g.c] BY <1>2, <1>t
<1> QED BY ONLY g \in ClaudeState, <1>3, <1>4 DEF ClaudeState

\* The adapter's state when the turn is to be cancelled.
ClaudeCancelled(g, t) == [g EXCEPT !.t[t].cancel = TRUE]

\* A cancel is marked on its own Turn.
LEMMA ClaudeSetsCancel ==
    ASSUME NEW g \in ClaudeState, NEW t \in Turn, NEW h, h = ClaudeCancelled(g, t)
    PROVE  /\ h \in ClaudeState /\ h.s = g.s /\ h.e = g.e /\ h.c = g.c /\ h.t[t].cancel
           /\ \A u \in Turn : h.t[u].timer = g.t[u].timer /\ h.t[u].dispatched = g.t[u].dispatched
           /\ \A u \in Turn \ {t} : h.t[u] = g.t[u]
<1>1. g.t \in [Turn -> ClaudeTurn] BY DEF ClaudeState
<1>2. \A y : [g EXCEPT !.t[t].cancel = y] = [s |-> g.s, t |-> [g.t EXCEPT ![t].cancel = y], e |-> g.e, c |-> g.c]
  BY ONLY g \in ClaudeState, t \in Turn DEF ClaudeState
<1>t. PICK d : d = [g.t EXCEPT ![t].cancel = TRUE] OBVIOUS
<1>3. d \in [Turn -> ClaudeTurn] /\ d[t].timer = g.t[t].timer /\ d[t].cancel
      /\ d[t].dispatched = g.t[t].dispatched /\ \A u \in Turn \ {t} : d[u] = g.t[u]
  BY <1>1, <1>t DEF ClaudeTurn
<1>4. h = [s |-> g.s, t |-> d, e |-> g.e, c |-> g.c] BY <1>2, <1>t DEF ClaudeCancelled
<1> QED BY ONLY g \in ClaudeState, <1>3, <1>4 DEF ClaudeState

\* A change that ends nothing and takes back no cancellation
LEMMA ClaudeTouch ==
    ASSUME NEW g, NEW n, ClaudeGood(g, n), NEW h \in ClaudeState, h.e = g.e, h.s.active = g.s.active,
           g.s.active # NoTurn => h.s.at = g.s.at /\ h.s.runtime = g.s.runtime /\ h.s.poisoned = g.s.poisoned,
           h.c.work = g.c.work, h.c.interrupted => g.c.interrupted \/ Interruption(h.c, h.e, h.t),
           \A u \in Turn : /\ g.t[u].cancel => h.t[u].cancel
                           /\ h.t[u].dispatched => u = g.s.active /\ h.t[u].cancel
                           /\ h.t[u].timer # "none" => u = g.s.active
    PROVE  ClaudeGood(h, n)
<1>1. StreamsOK(h.e, n, h.t, h.s.active) BY StreamsTurn DEF ClaudeGood
<1>2. WorkOK(h.c, n) BY DEF ClaudeGood, WorkOK
<1>3. Interruption(h.c, h.e, h.t)
  <2>1. g.c.work # <<>> => Head(g.c.work) \in Turn BY DEF ClaudeGood, ClaudeState, CliSet
  <2> QED BY <2>1 DEF ClaudeGood, Interruption
<1>4. h.s.active # NoTurn => h.s.at = "ready" /\ h.s.runtime /\ ~h.s.poisoned BY DEF ClaudeGood
<1> QED BY <1>1, <1>2, <1>3, <1>4 DEF ClaudeGood

\* #observeActivity
LEMMA ClaudeObserves ==
    ASSUME NEW g, NEW n, ClaudeGood(g, n), NEW t \in Turn, t = g.s.active,
           NEW h, h = Claude!ObserveActivity(g, t)
    PROVE  ClaudeGood(h, n) /\ ClaudeAlike(g, h) /\ h.s = g.s
<1> DEFINE x == CASE g.t[t].timer = "cancel" -> g.t[t].timer
                  [] g.t[t].timer # "cancel" /\ g.t[t].cancel -> "none"
                  [] OTHER -> "idle"
<1>g. g \in ClaudeState /\ g.s \in ClaudeSession BY DEF ClaudeGood, ClaudeState
<1>1. h = [g EXCEPT !.t[t].timer = x] BY <1>g DEF Claude!ObserveActivity, ClaudeState
<1>2. x \in {"none", "first", "idle", "cancel"} OBVIOUS
<1> HIDE DEF x
<1>4. /\ h \in ClaudeState /\ h.s = g.s /\ h.e = g.e /\ h.c = g.c
      /\ \A u \in Turn : h.t[u].cancel = g.t[u].cancel /\ h.t[u].dispatched = g.t[u].dispatched
      /\ \A u \in Turn \ {t} : h.t[u] = g.t[u]
  BY <1>g, <1>1, <1>2, ClaudeSetsTimer
<1>5. \A u \in Turn : /\ g.t[u].cancel => h.t[u].cancel
                      /\ h.t[u].dispatched => u = g.s.active /\ h.t[u].cancel
                      /\ h.t[u].timer # "none" => u = g.s.active
  BY <1>4 DEF ClaudeGood
<1>6. ClaudeGood(h, n) BY <1>4, <1>5, ClaudeTouch
<1> QED BY <1>4, <1>6 DEF ClaudeAlike

\* The active turn is told what is its own.
LEMMA ClaudeTells ==
    ASSUME NEW g, NEW n, ClaudeGood(g, n), NEW t \in Turn, t = g.s.active, g.e = stream,
           NEW k, k = [g EXCEPT !.e = Claude!WithText(t, t)]
    PROVE  ClaudeGood(k, n) /\ ClaudeAlike(g, k) /\ k.s = g.s
<1>g. /\ g \in ClaudeState /\ g.e \in [Turn -> StreamSet] /\ StreamsOK(g.e, n, g.t, g.s.active)
      /\ g.s.active \in Subject
  BY DEF ClaudeGood, ClaudeState, ClaudeSession
<1>0. g.e[t].open BY <1>g DEF StreamsOK, Turn, NoTurn
<1>1. PICK d : d = [g.e EXCEPT ![t].text = @ \cup {t}] OBVIOUS
<1>2. Claude!WithText(t, t) = d BY <1>0, <1>1, ClaudeNames DEF WithText
<1>3. /\ d \in [Turn -> StreamSet] /\ StreamsOK(d, n, g.t, g.s.active)
      /\ \A u \in Turn : d[u].ends = g.e[u].ends
  <2>1. PICK e : e = g.e OBVIOUS
  <2>2. PICK c : c = g.t OBVIOUS
  <2>3. PICK a : a = g.s.active OBVIOUS
  <2>4. e \in [Turn -> StreamSet] /\ StreamsOK(e, n, c, a) /\ a \in Subject /\ e[t].open
    BY <1>g, <1>0, <2>1, <2>2, <2>3
  <2>5. d = [e EXCEPT ![t].text = @ \cup {t}] BY <1>1, <2>1
  <2>6. /\ d \in [Turn -> StreamSet] /\ StreamsOK(d, n, c, a)
        /\ \A u \in Turn : d[u].ends = e[u].ends
    <3>1. /\ [e EXCEPT ![t].text = @ \cup {t}] \in [Turn -> StreamSet]
          /\ StreamsOK([e EXCEPT ![t].text = @ \cup {t}], n, c, a)
          /\ \A u \in Turn : [e EXCEPT ![t].text = @ \cup {t}][u].ends = e[u].ends
      BY ONLY <2>4, t \in Turn, StreamsText
    <3> QED BY ONLY <2>5, <3>1
  <2> QED BY <2>1, <2>2, <2>3, <2>6
<1>4. k \in ClaudeState /\ k.s = g.s /\ k.t = g.t /\ k.e = d /\ k.c = g.c
  BY <1>g, <1>2, <1>3 DEF ClaudeState
<1>5. Interruption(k.c, k.e, k.t)
  <2>1. g.c.work # <<>> => Head(g.c.work) \in Turn BY <1>g DEF ClaudeState, CliSet
  <2> QED BY <2>1, <1>3, <1>4 DEF ClaudeGood, Interruption
<1>6. ClaudeGood(k, n) BY <1>3, <1>4, <1>5 DEF ClaudeGood
<1> QED BY <1>4, <1>6 DEF ClaudeAlike

\* #dispatchInterrupt, of the active turn, which is to be cancelled
LEMMA ClaudeDispatch ==
    ASSUME NEW g, NEW n \in [Turn -> NativeSet], ClaudeGood(g, n), NEW t \in Turn, t = g.s.active, g.t[t].cancel,
           NEW f, ClaudeCalm(g, n, f, child), g.c = cli, NEW h, h = Claude!DispatchInterrupt(g, t)
    PROVE  /\ ClaudeGood(h, n) /\ ClaudeCalm(h, n, f, child)
           /\ h.s.runtime = g.s.runtime
<1>g. /\ g \in ClaudeState /\ g.s \in ClaudeSession /\ g.t \in [Turn -> ClaudeTurn] /\ g.c \in CliSet
      /\ StreamsOK(g.e, n, g.t, g.s.active)
  BY DEF ClaudeGood, ClaudeState
<1>1. CASE g.t[t].dispatched \/ Claude!Terminal(g, t) \/ ~Claude!Running
  <2>1. h = g BY <1>1 DEF Claude!DispatchInterrupt
  <2> QED BY <2>1
<1>2. CASE ~(g.t[t].dispatched \/ Claude!Terminal(g, t) \/ ~Claude!Running)
  <2> DEFINE ow == g.s.owes \/ (child = "alive" /\ cli.work = <<>>)
             ss == [g.s EXCEPT !.owes = ow]
             r == [g.t[t] EXCEPT !.dispatched = TRUE, !.timer = "cancel"]
             tt == [g.t EXCEPT ![t] = r]
             cc == Claude!Interrupted(g.c)
  <2>1. h = [g EXCEPT !.t[t].dispatched = TRUE, !.t[t].timer = "cancel",
                      !.c = Claude!Interrupted(@), !.s.owes = @ \/ (child = "alive" /\ cli.work = <<>>)]
    BY <1>2 DEF Claude!DispatchInterrupt
  <2>2. h = [s |-> ss, t |-> tt, e |-> g.e, c |-> cc]
    <3> DEFINE t1 == [g.t EXCEPT ![t].dispatched = TRUE]
               t2 == [t1 EXCEPT ![t].timer = "cancel"]
    <3>1. h = [s |-> ss, t |-> t2, e |-> g.e, c |-> cc]
      <4>1. PICK i : i = Claude!Interrupted(g.c) OBVIOUS
      <4>2. h = [g EXCEPT !.t[t].dispatched = TRUE, !.t[t].timer = "cancel", !.c = i, !.s.owes = ow]
        BY <2>1, <4>1, <1>g DEF ClaudeState, ClaudeSession
      <4> HIDE DEF ow
      <4>3. h = [s |-> [g.s EXCEPT !.owes = ow], t |-> t2, e |-> g.e, c |-> i]
        BY ONLY <4>2, <1>g, t \in Turn DEF ClaudeState
      <4> QED BY <4>1, <4>3
    <3>2. t2 = tt BY <1>g DEF ClaudeTurn
    <3> QED BY <3>1, <3>2
  <2>3. r \in ClaudeTurn /\ r.dispatched /\ r.timer = "cancel" /\ r.cancel = g.t[t].cancel BY <1>g DEF ClaudeTurn
  <2> HIDE DEF r
  <2>4. /\ tt \in [Turn -> ClaudeTurn] /\ tt[t] = r /\ \A u \in Turn \ {t} : tt[u] = g.t[u] BY <2>3, <1>g
  <2>5. ow \in BOOLEAN BY <1>g DEF ClaudeSession
  <2> HIDE DEF ow
  <2>6. /\ ss \in ClaudeSession /\ ss.owes = ow /\ ss.active = g.s.active /\ ss.awaiting = g.s.awaiting
        /\ ss.stray = g.s.stray /\ ss.at = g.s.at /\ ss.runtime = g.s.runtime /\ ss.poisoned = g.s.poisoned
    BY <2>5, <1>g DEF ClaudeSession
  <2>7. /\ cc \in CliSet /\ cc.work = g.c.work /\ (cc.interrupted => g.c.interrupted \/ g.c.work # <<>>)
    BY <1>g DEF Claude!Interrupted, CliSet
  <2> HIDE DEF ss, tt, cc
  <2>8. h \in ClaudeState /\ h.s = ss /\ h.t = tt /\ h.e = g.e /\ h.c = cc BY <2>2, <2>4, <2>6, <2>7, <1>g DEF ClaudeState
  <2>9. g.c.work # <<>> => Head(g.c.work) = t
    <3> SUFFICES ASSUME g.c.work # <<>> PROVE Head(g.c.work) = t OBVIOUS
    <3>1. 1 \in DOMAIN g.c.work /\ Head(g.c.work) = g.c.work[1] BY <1>g DEF CliSet
    <3> QED BY <3>1 DEF ClaudeCalm, ClaudeWork
  <2>10. h.c.interrupted => g.c.interrupted \/ Interruption(h.c, h.e, h.t)
    BY <2>3, <2>4, <2>7, <2>8, <2>9 DEF Interruption
  <2>11. \A u \in Turn : /\ g.t[u].cancel => h.t[u].cancel
                         /\ h.t[u].dispatched => u = g.s.active /\ h.t[u].cancel
                         /\ h.t[u].timer # "none" => u = g.s.active
    BY <2>3, <2>4, <2>8 DEF ClaudeGood
  <2>12. ClaudeGood(h, n) BY <2>6, <2>7, <2>8, <2>10, <2>11, ClaudeTouch
  <2>13. n[t] # "past" BY <1>g DEF StreamsOK, Turn, NoTurn
  <2>14. h.s.owes <=> g.s.owes \/ (child = "alive" /\ g.c.work = <<>>) BY <2>6, <2>8 DEF ow
  <2>15. h.t[g.s.active].dispatched BY <2>3, <2>4, <2>8
  <2>16. ~g.t[g.s.active].dispatched BY <1>2
  <2>17. /\ h.s.active = g.s.active /\ h.s.awaiting = g.s.awaiting /\ h.s.stray = g.s.stray /\ h.c.work = g.c.work
         /\ h.s.runtime = g.s.runtime
    BY <2>6, <2>7, <2>8
  <2>18. ClaudeCalm(h, n, f, child) BY <2>13, <2>14, <2>15, <2>16, <2>17, ClaudeInterrupts
  <2> QED BY <2>12, <2>17, <2>18
<1> QED BY <1>1, <1>2

\* The session does not serve any more.
LEMMA ClaudeSettlesDown ==
    ASSUME ClaudeInv, NEW h, Claude!Become(h), ClaudeGood(h, native'), native' \in [Turn -> NativeSet],
           pipe' \in Seq(FrameSet), ~ClaudeUp(h.s), h.s.runtime = session.runtime,
           child' = child \/ child' # "alive", ladder = "gaveUp" => ladder' = "gaveUp"
    PROVE  ClaudeInv'
<1>1. ~h.s.runtime => child' # "alive" \/ ladder' = "gaveUp" BY DEF ClaudeInv
<1> QED BY <1>1, ClaudeSettles

\* The account of the results is as before.
LEMMA ClaudeSettlesStill ==
    ASSUME ClaudeInv, NEW h, Claude!Become(h), ClaudeGood(h, native), UNCHANGED <<native, pipe, broken>>,
           h.s.runtime = session.runtime, ClaudeUp(h.s) => ClaudeUp(session) /\ ClaudeAlike(Claude!g0, h),
           child' = child \/ child' # "alive", ladder = "gaveUp" => ladder' = "gaveUp"
    PROVE  ClaudeInv'
<1>1. ~h.s.runtime => child' # "alive" \/ ladder' = "gaveUp" BY DEF ClaudeInv
<1>2. native' \in [Turn -> NativeSet] /\ pipe' \in Seq(FrameSet) /\ ClaudeGood(h, native') BY DEF ClaudeInv
<1>3. ClaudeUp(h.s) => ~broken' /\ ClaudeCalm(h, native', pipe', child')
  <2> SUFFICES ASSUME ClaudeUp(h.s) PROVE ~broken' /\ ClaudeCalm(h, native', pipe', child') OBVIOUS
  <2>1. ~broken /\ ClaudeCalm(Claude!g0, native, pipe, child) BY DEF ClaudeInv
  <2>2. ClaudeCalm(h, native, pipe, child') BY <2>1, ClaudeSame
  <2> QED BY <2>1, <2>2
<1> QED BY <1>1, <1>2, <1>3, ClaudeSettles

\* Only the session has moved.
LEMMA ClaudeSessionMoves ==
    ASSUME ClaudeInv, UNCHANGED <<turn, stream, cli, native, pipe, broken>>, NEW x \in ClaudeSession, session' = x,
           x.active = session.active,
           session.active # NoTurn => x.at = session.at /\ x.runtime = session.runtime /\ x.poisoned = session.poisoned,
           ClaudeUp(x) => ClaudeUp(session) /\ x.awaiting = session.awaiting
                          /\ x.stray = session.stray /\ x.owes = session.owes,
           ~x.runtime => child' # "alive" \/ ladder' = "gaveUp",
           child' = child \/ child' # "alive"
    PROVE  ClaudeInv'
<1>f. /\ ClaudeGood(Claude!g0, native) /\ turn \in [Turn -> ClaudeTurn] /\ stream \in [Turn -> StreamSet]
      /\ cli \in CliSet /\ native \in [Turn -> NativeSet] /\ pipe \in Seq(FrameSet)
  BY ClaudeFacts
<1>1. PICK h : h = [s |-> x, t |-> turn, e |-> stream, c |-> cli] OBVIOUS
<1>2. h \in ClaudeState /\ h.s = x /\ h.t = turn /\ h.e = stream /\ h.c = cli BY <1>1, <1>f DEF ClaudeState
<1>3. Claude!Become(h) BY <1>2 DEF Claude!Become
<1>4. ClaudeGood(h, native)
  <2>1. PICK g : g = Claude!g0 OBVIOUS
  <2>2. g.s = session /\ g.t = turn /\ g.e = stream /\ g.c = cli BY <2>1, ClaudeNow
  <2>3. \A u \in Turn : /\ g.t[u].cancel => h.t[u].cancel
                        /\ h.t[u].dispatched => u = g.s.active /\ h.t[u].cancel
                        /\ h.t[u].timer # "none" => u = g.s.active
    BY <1>2, <1>f, <2>1, <2>2 DEF ClaudeGood
  <2> QED BY <1>2, <1>f, <2>1, <2>2, <2>3, ClaudeTouch
<1>5. ClaudeUp(h.s) => ~broken' /\ ClaudeCalm(h, native', pipe', child')
  <2> SUFFICES ASSUME ClaudeUp(h.s) PROVE ~broken' /\ ClaudeCalm(h, native', pipe', child') OBVIOUS
  <2>1. ~broken /\ ClaudeCalm(Claude!g0, native, pipe, child) BY <1>2 DEF ClaudeInv
  <2>2. ClaudeAlike(Claude!g0, h) BY <1>2, ClaudeNow DEF ClaudeAlike
  <2>3. ClaudeCalm(h, native, pipe, child') BY <2>1, <2>2, ClaudeSame
  <2> QED BY <2>1, <2>3
<1>6. native' \in [Turn -> NativeSet] /\ pipe' \in Seq(FrameSet) /\ ClaudeGood(h, native') BY <1>4, <1>f
<1>7. ~h.s.runtime => child' # "alive" \/ ladder' = "gaveUp" BY <1>2
<1> QED BY <1>3, <1>5, <1>6, <1>7, ClaudeSettles

\* The process is being closed.
LEMMA ClaudeLadder ==
    ASSUME Claude!StartLadder("grace") PROVE ladder = "gaveUp" => ladder' = "gaveUp"
BY DEF Claude!StartLadder

\* A control request that is not answered in time poisons the runtime.
LEMMA ClaudeControlTimesOut == ASSUME ClaudeInv, Claude!ControlTimesOut PROVE ClaudeInv'
<1>1. /\ session.at \in {"initialize", "mode"} /\ session' = [session EXCEPT !.at = "failing"]
      /\ UNCHANGED <<turn, stream, cli, native, pipe, broken, child, ladder>>
  BY DEF Claude!ControlTimesOut, Claude!Launching, Claude!processVars, Claude!cliVars
<1>2. session \in ClaudeSession /\ session.active = NoTurn
  BY <1>1, ClaudeFacts, ClaudeNow DEF ClaudeGood
<1>3. PICK x : x = [session EXCEPT !.at = "failing"] OBVIOUS
<1>4. /\ x \in ClaudeSession /\ x.active = session.active /\ x.at = "failing" /\ x.runtime = session.runtime
  BY <1>2, <1>3 DEF ClaudeSession
<1>5. ~ClaudeUp(x) BY <1>4 DEF ClaudeUp
<1>6. ~x.runtime => child' # "alive" \/ ladder' = "gaveUp" BY <1>1, <1>4 DEF ClaudeInv
<1> QED BY <1>1, <1>2, <1>3, <1>4, <1>5, <1>6, ClaudeSessionMoves

\* A launch that fails gives up its runtime.
LEMMA ClaudeLaunchFails == ASSUME ClaudeInv, Claude!LaunchFails PROVE ClaudeInv'
<1>1. /\ session.at = "failing" /\ session' = [session EXCEPT !.at = "closing", !.closing = TRUE]
      /\ UNCHANGED <<turn, stream, cli, native, pipe, broken, child>> /\ (ladder = "gaveUp" => ladder' = "gaveUp")
  BY ClaudeLadder DEF Claude!LaunchFails, Claude!cliVars
<1>2. session \in ClaudeSession /\ session.active = NoTurn
  BY <1>1, ClaudeFacts, ClaudeNow DEF ClaudeGood
<1>3. PICK x : x = [session EXCEPT !.at = "closing", !.closing = TRUE] OBVIOUS
<1>4. /\ x \in ClaudeSession /\ x.active = session.active /\ x.at = "closing" /\ x.runtime = session.runtime
  BY <1>2, <1>3 DEF ClaudeSession
<1>5. ~ClaudeUp(x) BY <1>4 DEF ClaudeUp
<1>6. ~x.runtime => child' # "alive" \/ ladder' = "gaveUp" BY <1>1, <1>4 DEF ClaudeInv
<1> QED BY <1>1, <1>2, <1>3, <1>4, <1>5, <1>6, ClaudeSessionMoves

\* A spawn that throws leaves no runtime.
LEMMA ClaudeLaunchThrows == ASSUME ClaudeInv, Claude!LaunchThrows PROVE ClaudeInv'
<1>1. /\ session.at = "closing" /\ session' = [session EXCEPT !.at = "none", !.runtime = FALSE]
      /\ UNCHANGED <<turn, stream, cli, native, pipe, broken, child, ladder>>
      /\ child = "gone" \/ ladder = "gaveUp"
  BY DEF Claude!LaunchThrows, Claude!CloseSettled, Claude!processVars, Claude!cliVars
<1>2. session \in ClaudeSession /\ session.active = NoTurn
  BY <1>1, ClaudeFacts, ClaudeNow DEF ClaudeGood
<1>3. PICK x : x = [session EXCEPT !.at = "none", !.runtime = FALSE] OBVIOUS
<1>4. x \in ClaudeSession /\ x.active = session.active /\ x.at = "none"
  BY <1>2, <1>3 DEF ClaudeSession
<1>5. ~ClaudeUp(x) BY <1>4 DEF ClaudeUp
<1>6. child' # "alive" \/ ladder' = "gaveUp" BY <1>1
<1> QED BY <1>1, <1>2, <1>3, <1>4, <1>5, <1>6, ClaudeSessionMoves

\* The shutdown closes the CLI's input and fails the Turn that is active.
LEMMA ClaudeShutdownCloses == ASSUME ClaudeInv, Claude!ShutdownCloses PROVE ClaudeInv'
<1>1. /\ session' = [session EXCEPT !.teardown = "closing"]
      /\ UNCHANGED <<turn, stream, cli, native, pipe, broken, child>> /\ (ladder = "gaveUp" => ladder' = "gaveUp")
  BY ClaudeLadder DEF Claude!ShutdownCloses, Claude!cliVars
<1>2. session \in ClaudeSession BY ClaudeFacts
<1>3. PICK x : x = [session EXCEPT !.teardown = "closing"] OBVIOUS
<1>4. /\ x \in ClaudeSession /\ x.active = session.active /\ x.at = session.at /\ x.runtime = session.runtime
      /\ x.poisoned = session.poisoned /\ x.awaiting = session.awaiting /\ x.stray = session.stray /\ x.owes = session.owes
  BY <1>2, <1>3 DEF ClaudeSession
<1>5. ClaudeUp(x) => ClaudeUp(session) BY <1>4 DEF ClaudeUp
<1>6. ~x.runtime => child' # "alive" \/ ladder' = "gaveUp" BY <1>1, <1>4 DEF ClaudeInv
<1> QED BY <1>1, <1>3, <1>4, <1>5, <1>6, ClaudeSessionMoves

\* When the window for a stray result is over, the interruption has taken nothing.
LEMMA ClaudeStrayWindowEnds == ASSUME ClaudeInv, Claude!StrayWindowEnds PROVE ClaudeInv'
<1>1. /\ ~session.owes /\ session' = [session EXCEPT !.stray = FALSE]
      /\ \A i \in DOMAIN pipe : pipe[i].id # <<"prompt", NoTurn>>
      /\ UNCHANGED <<turn, stream, cli, native, pipe, broken, child, ladder>>
  BY ClaudeNames DEF Claude!StrayWindowEnds, Claude!processVars, Claude!cliVars
<1>f. /\ ClaudeGood(Claude!g0, native) /\ turn \in [Turn -> ClaudeTurn] /\ stream \in [Turn -> StreamSet]
      /\ cli \in CliSet /\ native \in [Turn -> NativeSet] /\ pipe \in Seq(FrameSet) /\ session \in ClaudeSession
  BY ClaudeFacts
<1>2. PICK x : x = [session EXCEPT !.stray = FALSE] OBVIOUS
<1>3. /\ x \in ClaudeSession /\ x.active = session.active /\ x.at = session.at /\ x.runtime = session.runtime
      /\ x.poisoned = session.poisoned /\ x.awaiting = session.awaiting /\ x.owes = session.owes
  BY <1>f, <1>2 DEF ClaudeSession
<1>4. PICK h : h = [s |-> x, t |-> turn, e |-> stream, c |-> cli] OBVIOUS
<1>5. h \in ClaudeState /\ h.s = x /\ h.t = turn /\ h.e = stream /\ h.c = cli BY <1>3, <1>4, <1>f DEF ClaudeState
<1>6. Claude!Become(h) BY <1>1, <1>2, <1>5 DEF Claude!Become
<1>7. ClaudeGood(h, native) BY <1>3, <1>5, <1>f, ClaudeNow DEF ClaudeGood
<1>8. ClaudeUp(h.s) => ~broken' /\ ClaudeCalm(h, native', pipe', child')
  <2> SUFFICES ASSUME ClaudeUp(h.s) PROVE ~broken' /\ ClaudeCalm(h, native', pipe', child') OBVIOUS
  <2>1. PICK g : g = Claude!g0 OBVIOUS
  <2>2. g.s = session /\ g.t = turn /\ g.e = stream /\ g.c = cli BY <2>1, ClaudeNow
  <2>3. ClaudeUp(session) BY <1>3, <1>5 DEF ClaudeUp
  <2>4. ~broken /\ ClaudeCalm(g, native, pipe, child) BY <2>1, <2>3 DEF ClaudeInv
  <2>5. ClaudeCalm(h, native, pipe, child) BY <1>1, <1>3, <1>5, <2>2, <2>4, ClaudeWindowEnds
  <2> QED BY <1>1, <2>4, <2>5
<1>9. ~h.s.runtime => child' # "alive" \/ ladder' = "gaveUp" BY <1>1, <1>3, <1>5 DEF ClaudeInv
<1> QED BY <1>1, <1>6, <1>7, <1>8, <1>9, <1>f, ClaudeSettles

\* A request to the CLI is remembered and starts no work.
LEMMA ClaudeAsked ==
    ASSUME NEW c \in CliSet, NEW r \in Request
    PROVE  /\ Claude!Asked(c, r) \in CliSet /\ Claude!Asked(c, r).work = c.work
           /\ Claude!Asked(c, r).interrupted = c.interrupted
BY DEF Claude!Asked, CliSet

\* An EXCEPT on the state as the record it makes.
LEMMA ClaudeSetsBoth ==
    ASSUME NEW k \in ClaudeState, NEW x, NEW z
    PROVE  [k EXCEPT !.s = x, !.c = z] = [s |-> x, t |-> k.t, e |-> k.e, c |-> z]
<1>1. \A r : [r EXCEPT !.s = x, !.c = z] = [[r EXCEPT !.s = x] EXCEPT !.c = z]
  OBVIOUS
<1>2. [k EXCEPT !.s = x] = [s |-> x, t |-> k.t, e |-> k.e, c |-> k.c] BY DEF ClaudeState
<1>3. [[s |-> x, t |-> k.t, e |-> k.e, c |-> k.c] EXCEPT !.c = z] = [s |-> x, t |-> k.t, e |-> k.e, c |-> z]
  OBVIOUS
<1>4. [k EXCEPT !.s = x, !.c = z] = [[k EXCEPT !.s = x] EXCEPT !.c = z] BY <1>1
<1> QED BY <1>2, <1>3, <1>4

\* #launch starts a CLI only when no other is left.
LEMMA ClaudeLaunch == ASSUME ClaudeInv, Claude!Launch PROVE ClaudeInv'
<1> DEFINE x == [Claude!NoSession EXCEPT !.at = "initialize", !.runtime = TRUE]
           c == Claude!Asked(Claude!Idle, <<"initialize", NoTurn>>)
           h == [s |-> x, t |-> turn, e |-> stream, c |-> c]
<1>f. /\ ClaudeGood(Claude!g0, native) /\ turn \in [Turn -> ClaudeTurn] /\ stream \in [Turn -> StreamSet]
      /\ native \in [Turn -> NativeSet]
  BY ClaudeFacts
<1>1. /\ ~session.runtime /\ Claude!Become([Claude!g0 EXCEPT !.s = x, !.c = c])
      /\ native' = native /\ pipe' = <<>> /\ ~broken'
  BY ClaudeNames DEF Claude!Launch, Claude!SpawnChild
<1>2. [Claude!g0 EXCEPT !.s = x, !.c = c] = h
  <2> HIDE DEF x, c
  <2>1. [Claude!g0 EXCEPT !.s = x, !.c = c] = [s |-> x, t |-> Claude!g0.t, e |-> Claude!g0.e, c |-> c]
    BY <1>f, ClaudeSetsBoth DEF ClaudeGood
  <2> QED BY <2>1, ClaudeNow
<1>3. /\ x \in ClaudeSession /\ x.active = NoTurn /\ x.runtime /\ ~x.owes /\ ~x.stray
  BY ClaudeNames DEF Claude!NoSession, ClaudeSession, Subject
<1>4. c \in CliSet /\ c.work = <<>> /\ c.interrupted = FALSE
  <2>1. <<"initialize", NoTurn>> \in Request BY DEF Request, Subject
  <2>2. Claude!Idle \in CliSet /\ Claude!Idle.work = <<>> /\ Claude!Idle.interrupted = FALSE BY DEF Claude!Idle, CliSet
  <2> QED BY <2>1, <2>2, ClaudeAsked
<1> HIDE DEF x, c
<1>5. h \in ClaudeState /\ h.s = x /\ h.t = turn /\ h.e = stream /\ h.c = c BY <1>3, <1>4, <1>f DEF ClaudeState
<1>6. Claude!Become(h) BY <1>1, <1>2
<1> HIDE DEF h
<1>7. session.active = NoTurn BY <1>1, <1>f, ClaudeNow DEF ClaudeGood
<1>8. StreamsOK(stream, native, turn, NoTurn) BY <1>7, <1>f, ClaudeNow DEF ClaudeGood
<1>9. \A u \in Turn : ~turn[u].dispatched /\ turn[u].timer = "none"
  BY <1>7, <1>f, ClaudeNow DEF ClaudeGood, Turn, NoTurn
<1>10. DOMAIN c.work = {} BY <1>4
<1>11. WorkOK(c, native) /\ Interruption(c, stream, turn) BY <1>4, <1>10 DEF WorkOK, Interruption
<1>12. ClaudeGood(h, native) BY <1>3, <1>5, <1>8, <1>9, <1>11 DEF ClaudeGood
<1>13. PICK d : d = <<>> OBVIOUS
<1>14. DOMAIN d = {} /\ d \in Seq(FrameSet) BY <1>13
<1>15. ClaudeWork(h, native, child') BY <1>3, <1>4, <1>5, <1>10 DEF ClaudeWork
<1>16. ClaudeFrames(h, native, d) /\ ClaudeOrder(h, native, d) /\ ClaudeStray(h, native, d)
  BY <1>3, <1>5, <1>14 DEF ClaudeFrames, ClaudeOrder, ClaudeStray
<1>17. ClaudeCalm(h, native, d, child') BY <1>15, <1>16 DEF ClaudeCalm
<1>18. h.s.runtime BY <1>3, <1>5
<1>19. pipe' = d BY <1>1, <1>13
<1> QED BY <1>1, <1>6, <1>12, <1>14, <1>17, <1>18, <1>19, <1>f, ClaudeSettles

\* The active turn fails.
LEMMA ClaudeFails ==
    ASSUME ClaudeInv, session.active \in Turn, Claude!Become(Claude!FailTurn(Claude!g0, session.active)),
           UNCHANGED <<native, pipe, child, ladder>>
    PROVE  ClaudeInv'
<1>1. PICK g : g = Claude!g0 OBVIOUS
<1>2. PICK t \in Turn : t = session.active OBVIOUS
<1>3. PICK h : h = Claude!FailTurn(g, t) OBVIOUS
<1>4. /\ ClaudeGood(h, native) /\ h.s.poisoned /\ h.s.runtime = session.runtime
  <2>1. ClaudeGood(g, native) /\ t = g.s.active /\ g.s = session BY <1>1, <1>2, ClaudeFacts, ClaudeNow
  <2> QED BY <1>3, <2>1, ClaudeFailTurn
<1>5. Claude!Become(h) BY <1>1, <1>2, <1>3
<1>6. ~ClaudeUp(h.s) BY <1>4 DEF ClaudeUp
<1>7. native' \in [Turn -> NativeSet] /\ pipe' \in Seq(FrameSet) /\ ClaudeGood(h, native') BY <1>4, ClaudeFacts
<1> QED BY <1>4, <1>5, <1>6, <1>7, ClaudeSettlesDown

\* A write that fails ends the Turn that is active, and the runtime.
LEMMA ClaudeWriteFails == ASSUME ClaudeInv, Claude!WriteFails PROVE ClaudeInv'
<1>1. /\ Claude!Live(Claude!g0) /\ Claude!Become(Claude!FailTurn(Claude!g0, session.active))
      /\ UNCHANGED <<native, pipe, child, ladder>>
  BY DEF Claude!WriteFails, Claude!processVars
<1>2. session.active \in Turn
  <2>1. ClaudeGood(Claude!g0, native) BY ClaudeFacts
  <2>2. Claude!g0.s.active \in Turn BY <1>1, <2>1, ClaudeLive
  <2> QED BY <2>2, ClaudeNow
<1> QED BY <1>1, <1>2, ClaudeFails

\* A timer ends the Turn it was set for, which is the one that is active.
LEMMA ClaudeTimerFires == ASSUME ClaudeInv, Claude!TimerFires PROVE ClaudeInv'
<1>1. PICK t \in Turn : /\ turn[t].timer # "none" /\ Claude!Become(Claude!FailTurn(Claude!g0, t))
                        /\ UNCHANGED <<native, pipe, child, ladder>>
  BY ClaudeNames DEF Claude!TimerFires, Claude!processVars
<1>2. t = session.active BY <1>1, ClaudeFacts, ClaudeNow DEF ClaudeGood
<1> QED BY <1>1, <1>2, ClaudeFails

\* A session lets go of its runtime when the CLI is gone or could not be killed.
LEMMA ClaudeShutdownEnds == ASSUME ClaudeInv, Claude!ShutdownEnds PROVE ClaudeInv'
<1>1. PICK k : k = Claude!g0 OBVIOUS
<1>2. PICK g : g = [k EXCEPT !.s.teardown = "done", !.s.runtime = FALSE, !.s.at = IF @ = "ready" THEN "none" ELSE @]
  OBVIOUS
<1>3. /\ child = "gone" \/ ladder = "gaveUp"
      /\ Claude!Become(IF Claude!Live(g) THEN Claude!EmitTerminal(g, g.s.active, "failed") ELSE g)
      /\ UNCHANGED <<native, pipe, child, ladder>>
  BY <1>1, <1>2 DEF Claude!ShutdownEnds, Claude!CloseSettled, Claude!processVars
<1>f. /\ ClaudeGood(k, native) /\ k \in ClaudeState /\ native \in [Turn -> NativeSet] /\ pipe \in Seq(FrameSet)
  BY <1>1, ClaudeFacts
<1>4. PICK x : x = [k.s EXCEPT !.teardown = "done", !.runtime = FALSE, !.at = IF @ = "ready" THEN "none" ELSE @]
               /\ g = [s |-> x, t |-> k.t, e |-> k.e, c |-> k.c]
  BY ONLY <1>2, <1>f DEF ClaudeState, ClaudeSession
<1>5. /\ x \in ClaudeSession /\ x.active = k.s.active /\ ~x.runtime
  BY ONLY <1>f, <1>4 DEF ClaudeState, ClaudeSession
<1>6. g \in ClaudeState /\ g.s = x /\ g.t = k.t /\ g.e = k.e /\ g.c = k.c
  BY ONLY <1>f, <1>4, <1>5 DEF ClaudeState
<1>7. ClaudeSound(g, native) BY ONLY <1>f, <1>5, <1>6 DEF ClaudeGood, ClaudeSound
<1>8. g.s.active \in Subject /\ (g.s.active # NoTurn => g.e[g.s.active].ends = <<>>)
  BY <1>7 DEF ClaudeSound, StreamsOK, ClaudeState, ClaudeSession, Subject
<1>9. child' # "alive" \/ ladder' = "gaveUp" BY <1>3
<1>10. native' \in [Turn -> NativeSet] /\ pipe' \in Seq(FrameSet) BY <1>3, <1>f
<1>11. CASE g.s.active = NoTurn
  <2>1. ~Claude!Live(g) BY <1>11, ClaudeNames DEF Claude!Live
  <2>2. Claude!Become(g) BY <1>3, <2>1
  <2>3. ClaudeGood(g, native') BY <1>3, <1>7, <1>11 DEF ClaudeGood, ClaudeSound
  <2>4. ~ClaudeUp(g.s) BY <1>5, <1>6 DEF ClaudeUp
  <2> QED BY <1>9, <1>10, <2>2, <2>3, <2>4, ClaudeSettles
<1>12. CASE g.s.active # NoTurn
  <2>1. PICK t \in Turn : t = g.s.active BY <1>8, <1>12 DEF Subject
  <2>2. Claude!Live(g) BY <1>8, <1>12, ClaudeNames DEF Claude!Live, Claude!Terminal
  <2>3. PICK l : l = Claude!EmitTerminal(g, t, "failed") OBVIOUS
  <2>4. Claude!Become(l) BY <1>3, <2>1, <2>2, <2>3
  <2>5. PICK o \in Outcome : o = "failed" BY DEF Outcome
  <2>6. o # "completed" /\ o # "cancelled" /\ l = Claude!EmitTerminal(g, t, o) BY <2>3, <2>5
  <2>7. ClaudeGood(l, native) /\ ClaudeEmits(g, l, t, o) BY <1>7, <2>1, <2>6, ClaudeEmit
  <2>8. ~ClaudeUp(l.s) BY <2>7, <1>5, <1>6 DEF ClaudeUp, ClaudeEmits
  <2>9. ClaudeGood(l, native') BY <1>3, <2>7
  <2> QED BY <1>9, <1>10, <2>4, <2>8, <2>9, ClaudeSettles
<1> QED BY <1>11, <1>12

\* The active turn is to be cancelled, and its interruption is written.
LEMMA ClaudeCancels ==
    ASSUME NEW g, NEW n \in [Turn -> NativeSet], ClaudeGood(g, n), NEW t \in Turn, t = g.s.active,
           NEW f, ClaudeCalm(g, n, f, child), g.c = cli,
           NEW k, k = ClaudeCancelled(g, t), NEW h, h = Claude!DispatchInterrupt(k, t)
    PROVE  ClaudeGood(h, n) /\ ClaudeCalm(h, n, f, child) /\ h.s.runtime = g.s.runtime
<1>g. g \in ClaudeState BY DEF ClaudeGood
<1>1. /\ k \in ClaudeState /\ k.s = g.s /\ k.e = g.e /\ k.c = g.c /\ k.t[t].cancel
      /\ \A u \in Turn : k.t[u].timer = g.t[u].timer /\ k.t[u].dispatched = g.t[u].dispatched
      /\ \A u \in Turn \ {t} : k.t[u] = g.t[u]
  BY ONLY <1>g, t \in Turn, k = ClaudeCancelled(g, t), ClaudeSetsCancel
<1>2. \A u \in Turn : /\ g.t[u].cancel => k.t[u].cancel
                      /\ k.t[u].dispatched => u = g.s.active /\ k.t[u].cancel
                      /\ k.t[u].timer # "none" => u = g.s.active
  BY <1>1 DEF ClaudeGood
<1>3. ClaudeGood(k, n) BY <1>1, <1>2, ClaudeTouch
<1>4. ClaudeAlike(g, k) BY <1>1 DEF ClaudeAlike
<1>5. ClaudeCalm(k, n, f, child) BY <1>4, ClaudeSame
<1>6. ClaudeGood(h, n) /\ ClaudeCalm(h, n, f, child) /\ h.s.runtime = k.s.runtime
  BY ONLY <1>1, <1>3, <1>5, t \in Turn, t = g.s.active, n \in [Turn -> NativeSet], g.c = cli,
     h = Claude!DispatchInterrupt(k, t), ClaudeDispatch
<1> QED BY <1>1, <1>6

\* What is true of a session with a turn
LEMMA ClaudeServes ==
    ASSUME ClaudeInv, session.active # NoTurn
    PROVE  /\ session.active \in Turn /\ ClaudeUp(session) /\ ~broken
           /\ ClaudeCalm(Claude!g0, native, pipe, child) /\ session.runtime
<1>1. ClaudeGood(Claude!g0, native) BY ClaudeFacts
<1>2. session.active \in Turn BY <1>1, ClaudeLive, ClaudeNow
<1>3. ClaudeUp(session) /\ session.runtime BY <1>1, ClaudeNow DEF ClaudeGood, ClaudeUp
<1> QED BY <1>2, <1>3 DEF ClaudeInv

\* A cancel interrupts the Turn that is active.
LEMMA ClaudeCancel == ASSUME ClaudeInv, Claude!Cancel PROVE ClaudeInv'
<1>1. PICK g : g = Claude!g0 OBVIOUS
<1>2. /\ Claude!Live(g)
      /\ Claude!Become(Claude!DispatchInterrupt([g EXCEPT !.t[session.active].cancel = TRUE], session.active))
      /\ UNCHANGED <<native, pipe, child, ladder, broken>>
  BY <1>1 DEF Claude!Cancel, Claude!processVars
<1>3. /\ ClaudeGood(g, native) /\ g.s = session /\ g.c = cli /\ native \in [Turn -> NativeSet] /\ pipe \in Seq(FrameSet)
  BY <1>1, ClaudeFacts, ClaudeNow
<1>4. session.active # NoTurn BY <1>2, <1>3, ClaudeLive
<1>5. PICK t \in Turn : t = session.active BY <1>4, ClaudeServes
<1>6. PICK k : k = ClaudeCancelled(g, t) OBVIOUS
<1>7. PICK h : h = Claude!DispatchInterrupt(k, t) OBVIOUS
<1>8. Claude!Become(h) BY <1>2, <1>5, <1>6, <1>7 DEF ClaudeCancelled
<1>9. ~broken /\ ClaudeCalm(g, native, pipe, child) /\ session.runtime BY <1>1, <1>4, ClaudeServes
<1>10. ClaudeGood(h, native) /\ ClaudeCalm(h, native, pipe, child) /\ h.s.runtime = g.s.runtime
  <2>1. t = g.s.active BY <1>3, <1>5
  <2> QED BY ONLY <1>3, <1>6, <1>7, <1>9, <2>1, t \in Turn, ClaudeCancels
<1>11. ~broken' /\ ClaudeGood(h, native') /\ ClaudeCalm(h, native', pipe', child') /\ h.s.runtime
       /\ native' \in [Turn -> NativeSet] /\ pipe' \in Seq(FrameSet)
  BY <1>2, <1>3, <1>9, <1>10
<1> QED BY <1>8, <1>11, ClaudeSettles

\* #shutdownRuntime
LEMMA ClaudeShutDown ==
    ASSUME ClaudeInv, NEW graceful, Claude!ShutDown(graceful), UNCHANGED <<native, pipe, child, ladder, broken>>
    PROVE  ClaudeInv'
<1>f. /\ ClaudeGood(Claude!g0, native) /\ native \in [Turn -> NativeSet] /\ pipe \in Seq(FrameSet)
      /\ session \in ClaudeSession
  BY ClaudeFacts
<1>1. CASE session.closing
  <2>1. session' = [session EXCEPT !.teardown = "done"] /\ UNCHANGED <<turn, stream, cli>>
    BY <1>1 DEF Claude!ShutDown
  <2>2. PICK x : x = [session EXCEPT !.teardown = "done"] OBVIOUS
  <2>3. /\ x \in ClaudeSession /\ x.active = session.active /\ x.at = session.at /\ x.runtime = session.runtime
        /\ x.poisoned = session.poisoned /\ x.awaiting = session.awaiting /\ x.stray = session.stray /\ x.owes = session.owes
    BY <1>f, <2>2 DEF ClaudeSession
  <2>4. ClaudeUp(x) => ClaudeUp(session) BY <2>3 DEF ClaudeUp
  <2>5. ~x.runtime => child' # "alive" \/ ladder' = "gaveUp" BY <2>3 DEF ClaudeInv
  <2> QED BY <2>1, <2>2, <2>3, <2>4, <2>5, ClaudeSessionMoves
<1>2. CASE ~session.closing
  <2>1. PICK k : k = Claude!g0 OBVIOUS
  <2>2. PICK g : g = [k EXCEPT !.s.closing = TRUE, !.s.teardown = "waiting"] OBVIOUS
  <2>3. Claude!Become(IF graceful /\ Claude!Live(k)
                      THEN Claude!DispatchInterrupt([g EXCEPT !.t[session.active].cancel = TRUE], session.active) ELSE g)
    BY <1>2, <2>1, <2>2 DEF Claude!ShutDown
  <2>4. k \in ClaudeState /\ ClaudeGood(k, native) /\ k.s = session /\ k.c = cli BY <1>f, <2>1, ClaudeNow DEF ClaudeGood
  <2>5. PICK x : x = [k.s EXCEPT !.closing = TRUE, !.teardown = "waiting"]
                 /\ g = [s |-> x, t |-> k.t, e |-> k.e, c |-> k.c]
    BY ONLY <2>2, <2>4 DEF ClaudeState, ClaudeSession
  <2>6. /\ x \in ClaudeSession /\ x.active = k.s.active /\ x.at = k.s.at /\ x.runtime = k.s.runtime
        /\ x.poisoned = k.s.poisoned /\ x.awaiting = k.s.awaiting /\ x.stray = k.s.stray /\ x.owes = k.s.owes
    BY ONLY <2>4, <2>5 DEF ClaudeState, ClaudeSession
  <2>7. g \in ClaudeState /\ g.s = x /\ g.t = k.t /\ g.e = k.e /\ g.c = k.c
    BY ONLY <2>4, <2>5, <2>6 DEF ClaudeState
  <2>8. ClaudeAlike(k, g) BY <2>6, <2>7 DEF ClaudeAlike
  <2>9. ClaudeGood(g, native) BY ONLY <2>4, <2>6, <2>7 DEF ClaudeGood
  <2>10. CASE ~(graceful /\ Claude!Live(k))
    <3>1. Claude!Become(g) BY <2>3, <2>10
    <3>2. ClaudeUp(g.s) => ClaudeUp(session) BY <2>4, <2>6, <2>7 DEF ClaudeUp
    <3>3. g.s.runtime = session.runtime BY <2>4, <2>6, <2>7
    <3> QED BY <2>1, <2>8, <2>9, <3>1, <3>2, <3>3, ClaudeSettlesStill
  <2>11. CASE graceful /\ Claude!Live(k)
    <3>1. session.active # NoTurn BY <2>4, <2>11, ClaudeLive
    <3>2. PICK t \in Turn : t = session.active BY <3>1, ClaudeServes
    <3>3. PICK i : i = ClaudeCancelled(g, t) OBVIOUS
    <3>4. PICK h : h = Claude!DispatchInterrupt(i, t) OBVIOUS
    <3>5. Claude!Become(h) BY <2>3, <2>11, <3>2, <3>3, <3>4 DEF ClaudeCancelled
    <3>6. ~broken /\ ClaudeCalm(k, native, pipe, child) /\ session.runtime BY <2>1, <3>1, ClaudeServes
    <3>7. ClaudeCalm(g, native, pipe, child) BY <2>8, <3>6, ClaudeSame
    <3>8. t = g.s.active /\ g.c = cli BY <2>4, <2>6, <2>7, <3>2
    <3>9. ClaudeGood(h, native) /\ ClaudeCalm(h, native, pipe, child) /\ h.s.runtime = g.s.runtime
      BY ONLY <1>f, <2>9, <3>3, <3>4, <3>7, <3>8, t \in Turn, ClaudeCancels
    <3>10. ~broken' /\ ClaudeGood(h, native') /\ ClaudeCalm(h, native', pipe', child') /\ h.s.runtime
           /\ native' \in [Turn -> NativeSet] /\ pipe' \in Seq(FrameSet)
      BY <1>f, <2>4, <2>6, <2>7, <3>6, <3>9
    <3> QED BY <3>5, <3>10, ClaudeSettles
  <2> QED BY <2>10, <2>11
<1> QED BY <1>1, <1>2

\* A close of the session cancels the Turn that is active.
LEMMA ClaudeClose == ASSUME ClaudeInv, Claude!Close PROVE ClaudeInv'
<1>1. Claude!ShutDown(TRUE) /\ UNCHANGED <<native, pipe, child, ladder, broken>>
  BY DEF Claude!Close, Claude!processVars
<1> QED BY <1>1, ClaudeShutDown

\* A poisoned runtime is torn down.
LEMMA ClaudeTearsDown == ASSUME ClaudeInv, Claude!Teardown PROVE ClaudeInv'
<1>1. Claude!ShutDown(FALSE) /\ UNCHANGED <<native, pipe, child, ladder, broken>>
  BY DEF Claude!Teardown, Claude!processVars
<1> QED BY <1>1, ClaudeShutDown

\* The adapter's state as a prompt sets it.
ClaudeBegins(k, x, y, z) == [k EXCEPT !.e = x, !.s.active = y, !.t = z]

\* The start of a Turn as the record it makes.
LEMMA ClaudeSetsBegun ==
    ASSUME NEW k \in ClaudeState, NEW x, NEW y, NEW z
    PROVE  ClaudeBegins(k, x, y, z) = [s |-> [k.s EXCEPT !.active = y], t |-> z, e |-> x, c |-> k.c]
<1>1. \A r : [r EXCEPT !.e = x, !.s.active = y, !.t = z] = [[[r EXCEPT !.e = x] EXCEPT !.s.active = y] EXCEPT !.t = z]
  OBVIOUS
<1>2. [k EXCEPT !.e = x] = [s |-> k.s, t |-> k.t, e |-> x, c |-> k.c] BY DEF ClaudeState
<1>3. [[s |-> k.s, t |-> k.t, e |-> x, c |-> k.c] EXCEPT !.s.active = y]
      = [s |-> [k.s EXCEPT !.active = y], t |-> k.t, e |-> x, c |-> k.c]
  OBVIOUS
<1>4. [[s |-> [k.s EXCEPT !.active = y], t |-> k.t, e |-> x, c |-> k.c] EXCEPT !.t = z]
      = [s |-> [k.s EXCEPT !.active = y], t |-> z, e |-> x, c |-> k.c]
  OBVIOUS
<1>5. [k EXCEPT !.e = x, !.s.active = y, !.t = z] = [[[k EXCEPT !.e = x] EXCEPT !.s.active = y] EXCEPT !.t = z]
  BY <1>1
<1> QED BY <1>2, <1>3, <1>4, <1>5 DEF ClaudeBegins

\* The turns, with the signal of t as the prompt finds it.
ClaudeUncancels(t, y) == [Claude!Uncancelled EXCEPT ![t].cancel = y]

\* A Turn starts cancelled only if its signal was aborted.
LEMMA ClaudeUncancelled ==
    ASSUME turn \in [Turn -> ClaudeTurn], NEW t \in Turn, NEW y \in BOOLEAN, NEW tt, tt = ClaudeUncancels(t, y)
    PROVE  /\ tt \in [Turn -> ClaudeTurn] /\ tt[t].cancel = y
           /\ \A u \in Turn : tt[u].dispatched = turn[u].dispatched /\ tt[u].timer = turn[u].timer
<1>1. /\ Claude!Uncancelled \in [Turn -> ClaudeTurn]
      /\ \A u \in Turn : /\ Claude!Uncancelled[u].dispatched = turn[u].dispatched
                         /\ Claude!Uncancelled[u].timer = turn[u].timer
  BY ClaudeNames DEF Claude!Uncancelled, ClaudeTurn
<1>2. PICK k \in [Turn -> ClaudeTurn] : k = Claude!Uncancelled BY <1>1
<1>3. tt = [k EXCEPT ![t].cancel = y] BY <1>2 DEF ClaudeUncancels
<1>4. /\ tt \in [Turn -> ClaudeTurn] /\ tt[t].cancel = y
      /\ \A u \in Turn : tt[u].dispatched = k[u].dispatched /\ tt[u].timer = k[u].timer
  BY ONLY <1>3, t \in Turn, y \in BOOLEAN, k \in [Turn -> ClaudeTurn] DEF ClaudeTurn
<1> QED BY <1>1, <1>2, <1>4

\* The stream of a Turn that starts is new, and every earlier one has ended.
LEMMA ClaudeOpens ==
    ASSUME ClaudeInv, NEW t \in Turn, CanPrompt(t), NEW sends \in BOOLEAN
    PROVE  /\ Open(t) \in [Turn -> StreamSet] /\ Delivered(t, sends) \in [Turn -> NativeSet]
           /\ \A c : StreamsOK(Open(t), Delivered(t, sends), c, t)
           /\ \A u \in Turn : stream[u].ends # <<>> => Open(t)[u].ends # <<>>
           /\ Open(t)[t].open /\ Open(t)[t].ends = <<>>
           /\ Delivered(t, sends)[t] = (IF sends /\ child = "alive" THEN "working" ELSE "none")
           /\ native[t] = "none" /\ stream[t].ends = <<>>
           /\ \A u \in Turn \ {t} :
                \/ Delivered(t, sends)[u] = native[u]
                \/ native[u] \in Outcome /\ Delivered(t, sends)[u] = "past"
<1>f. stream \in [Turn -> StreamSet] /\ native \in [Turn -> NativeSet] BY ClaudeFacts
<1>1. StreamsOK(stream, native, turn, session.active) BY ClaudeNow DEF ClaudeInv, ClaudeGood
<1> QED BY <1>f, <1>1, StreamsOpen

\* The adapter's state when a prompt begins.
ClaudeBeginning(t, aborted) ==
    [Claude!g0 EXCEPT !.e = Claude!Open(t), !.s.active = t, !.t = [Claude!Uncancelled EXCEPT ![t].cancel = aborted]]

\* The turn as #dispatchPrompt finds it
LEMMA ClaudeBegun ==
    ASSUME ClaudeInv, session.active = NoTurn, session.runtime, session.at = "ready", ~session.poisoned,
           NEW t \in Turn, CanPrompt(t),
           NEW sends, sends \in BOOLEAN, NEW aborted, aborted \in BOOLEAN, NEW g,
           g = ClaudeBeginning(t, aborted), NEW n, n = Delivered(t, sends)
    PROVE  /\ ClaudeGood(g, n) /\ n \in [Turn -> NativeSet]
           /\ g.s = [session EXCEPT !.active = t] /\ g.c = cli /\ g.t[t].cancel = aborted
           /\ g.s.active = t /\ g.s.runtime /\ g.s.stray = session.stray /\ g.s.owes = session.owes
           /\ \A u \in Turn : ~g.t[u].dispatched /\ g.t[u].timer = "none"
           /\ n[t] = (IF sends /\ child = "alive" THEN "working" ELSE "none")
           /\ cli.work = <<>> /\ ~cli.interrupted /\ ~broken
<1>0. PICK tt : tt = [Claude!Uncancelled EXCEPT ![t].cancel = aborted] OBVIOUS
<1> DEFINE ss == [session EXCEPT !.active = t]
<1>f. /\ Claude!g0 \in ClaudeState /\ session \in ClaudeSession /\ turn \in [Turn -> ClaudeTurn]
      /\ stream \in [Turn -> StreamSet] /\ cli \in CliSet
      /\ native \in [Turn -> NativeSet]
  BY ClaudeFacts
<1>1. g = [s |-> ss, t |-> tt, e |-> Open(t), c |-> cli]
  <2>1. [Claude!g0 EXCEPT !.e = Claude!Open(t), !.s.active = t, !.t = tt]
        = [s |-> [Claude!g0.s EXCEPT !.active = t], t |-> tt, e |-> Claude!Open(t), c |-> Claude!g0.c]
    <3>1. PICK k \in ClaudeState : k = Claude!g0 BY <1>f
    <3>2. PICK x : x = Claude!Open(t) OBVIOUS
    <3>3. ClaudeBegins(k, x, t, tt)
          = [s |-> [k.s EXCEPT !.active = t], t |-> tt, e |-> x, c |-> k.c]
      BY ClaudeSetsBegun
    <3> QED BY <3>1, <3>2, <3>3 DEF ClaudeBegins
  <2>2. Claude!Open(t) = Open(t) BY ClaudeNames
  <2> QED BY <2>1, <2>2, <1>0, ClaudeNow DEF ClaudeBeginning
<1>u. tt = ClaudeUncancels(t, aborted) BY <1>0 DEF ClaudeUncancels
<1>2. /\ tt \in [Turn -> ClaudeTurn] /\ tt[t].cancel = aborted
      /\ \A u \in Turn : tt[u].dispatched = turn[u].dispatched /\ tt[u].timer = turn[u].timer
  BY ONLY <1>u, <1>f, t \in Turn, aborted \in BOOLEAN, ClaudeUncancelled
<1>3. /\ ss \in ClaudeSession /\ ss.active = t /\ ss.runtime = session.runtime /\ ss.at = session.at
      /\ ss.poisoned = session.poisoned /\ ss.stray = session.stray /\ ss.owes = session.owes
  BY <1>f DEF ClaudeSession, Subject
<1>4. \A u \in Turn : ~turn[u].dispatched /\ turn[u].timer = "none"
  <2>1. NoTurn \notin Turn BY DEF Turn, NoTurn
  <2>2. \A u \in Turn : /\ turn[u].dispatched => u = session.active
                        /\ turn[u].timer # "none" => u = session.active
    BY ClaudeNow DEF ClaudeInv, ClaudeGood
  <2> QED BY <2>1, <2>2
<1>5. /\ Open(t) \in [Turn -> StreamSet] /\ Delivered(t, sends) \in [Turn -> NativeSet]
      /\ StreamsOK(Open(t), Delivered(t, sends), tt, t)
      /\ Delivered(t, sends)[t] = (IF sends /\ child = "alive" THEN "working" ELSE "none")
  BY ONLY ClaudeInv, t \in Turn, sends \in BOOLEAN, CanPrompt(t), ClaudeOpens
<1>6. ~broken /\ ClaudeCalm(Claude!g0, native, pipe, child) BY DEF ClaudeInv, ClaudeUp
<1>7. cli.work = <<>> /\ ~cli.interrupted
  <2>1. PICK k : k = Claude!g0 OBVIOUS
  <2>2. ClaudeCalm(k, native, pipe, child) /\ k.s.active = NoTurn /\ k.c \in CliSet /\ k.c = cli
    BY <1>6, <1>f, <2>1, ClaudeNow
  <2>3. k.c.work = <<>> /\ ~k.c.interrupted BY ONLY <2>2, ClaudeQuiet
  <2> QED BY <2>2, <2>3
<1> HIDE DEF ss
<1>8. g.s = ss /\ g.t = tt /\ g.e = Open(t) /\ g.c = cli /\ g \in ClaudeState
  BY ONLY <1>1, <1>2, <1>3, <1>5, <1>f DEF ClaudeState
<1>9. \A u \in Turn : ~g.t[u].dispatched /\ g.t[u].timer = "none" BY <1>2, <1>4, <1>8
<1>10. WorkOK(g.c, n) /\ Interruption(g.c, g.e, g.t) BY <1>7, <1>8 DEF WorkOK, Interruption
<1>11. ClaudeGood(g, n)
  BY <1>3, <1>5, <1>8, <1>9, <1>10 DEF ClaudeGood
<1> QED BY <1>2, <1>3, <1>5, <1>6, <1>7, <1>8, <1>9, <1>11 DEF ss

\* The adapter's state when the prompt has been written.
ClaudeSent(g, t) ==
    [g EXCEPT !.s.awaiting = TRUE, !.t[t].timer = "first", !.c = Claude!Prompted(@, t)]

\* The Turn is written to the CLI, and a result is awaited.
LEMMA ClaudeSetsSent ==
    ASSUME NEW g \in ClaudeState, NEW t \in Turn, NEW h, h = ClaudeSent(g, t)
    PROVE  /\ h = [s |-> h.s, t |-> h.t, e |-> g.e, c |-> Claude!Prompted(g.c, t)]
           /\ h.s \in ClaudeSession /\ h.s.awaiting /\ h.s.active = g.s.active /\ h.s.at = g.s.at
           /\ h.s.runtime = g.s.runtime /\ h.s.poisoned = g.s.poisoned /\ h.s.stray = g.s.stray
           /\ h.s.owes = g.s.owes /\ h.t \in [Turn -> ClaudeTurn]
           /\ \A u \in Turn : /\ h.t[u].cancel = g.t[u].cancel /\ h.t[u].dispatched = g.t[u].dispatched
                              /\ u # t => h.t[u] = g.t[u]
<1>g. g.s \in ClaudeSession /\ g.t \in [Turn -> ClaudeTurn] BY DEF ClaudeState
<1>0. PICK y : y = Claude!Prompted(g.c, t) OBVIOUS
<1>1. \A r, a, b : [r EXCEPT !.s.awaiting = a, !.t[t].timer = b, !.c = y]
                   = [[[r EXCEPT !.s.awaiting = a] EXCEPT !.t[t].timer = b] EXCEPT !.c = y]
  OBVIOUS
<1>2. PICK x : x = [g.s EXCEPT !.awaiting = TRUE] OBVIOUS
<1>3. /\ x \in ClaudeSession /\ x.awaiting /\ x.active = g.s.active /\ x.at = g.s.at
      /\ x.runtime = g.s.runtime /\ x.poisoned = g.s.poisoned /\ x.stray = g.s.stray /\ x.owes = g.s.owes
  BY <1>g, <1>2 DEF ClaudeSession
<1>4. PICK d : d = [g.t EXCEPT ![t].timer = "first"] OBVIOUS
<1>5. /\ d \in [Turn -> ClaudeTurn]
      /\ \A u \in Turn : /\ d[u].cancel = g.t[u].cancel /\ d[u].dispatched = g.t[u].dispatched
                         /\ u # t => d[u] = g.t[u]
  BY <1>g, <1>4 DEF ClaudeTurn
<1>6. \A a : [g EXCEPT !.s.awaiting = a] = [s |-> [g.s EXCEPT !.awaiting = a], t |-> g.t, e |-> g.e, c |-> g.c]
  BY ONLY g \in ClaudeState DEF ClaudeState
<1>7. \A b, z : [[s |-> z, t |-> g.t, e |-> g.e, c |-> g.c] EXCEPT !.t[t].timer = b]
             = [s |-> z, t |-> [g.t EXCEPT ![t].timer = b], e |-> g.e, c |-> g.c]
  OBVIOUS
<1>8. \A z, w : [[s |-> z, t |-> w, e |-> g.e, c |-> g.c] EXCEPT !.c = y] = [s |-> z, t |-> w, e |-> g.e, c |-> y]
  OBVIOUS
<1>9. h = [s |-> x, t |-> d, e |-> g.e, c |-> y]
  <2>0. PICK p : p = [g EXCEPT !.s.awaiting = TRUE] OBVIOUS
  <2>1. PICK q : q = [p EXCEPT !.t[t].timer = "first"] OBVIOUS
  <2>2. h = [q EXCEPT !.c = y]
    BY <1>0, <1>1, <2>0, <2>1 DEF ClaudeSent
  <2>3. p = [s |-> x, t |-> g.t, e |-> g.e, c |-> g.c] BY <1>2, <1>6, <2>0
  <2>4. q = [s |-> x, t |-> d, e |-> g.e, c |-> g.c] BY <1>4, <1>7, <2>1, <2>3
  <2> QED BY <1>8, <2>2, <2>4
<1> QED BY <1>0, <1>3, <1>5, <1>9

\* The message was written: the CLI has nothing else to work on.
LEMMA ClaudeSends ==
    ASSUME NEW g, NEW n, ClaudeGood(g, n), NEW t \in Turn, g.s.active = t, g.c.work = <<>>, ~g.c.interrupted,
           \A u \in Turn : ~g.t[u].dispatched /\ g.t[u].timer = "none",
           n[t] = (IF child = "alive" THEN "working" ELSE "none"), NEW h, h = ClaudeSent(g, t)
    PROVE  /\ ClaudeGood(h, n) /\ h.s.active = t /\ h.s.awaiting /\ h.s.runtime = g.s.runtime
           /\ h.s.stray = g.s.stray /\ h.s.owes = g.s.owes /\ ~h.t[t].dispatched
           /\ ~h.c.interrupted /\ (\A i \in DOMAIN h.c.work : h.c.work[i] = t)
           /\ child = "alive" => h.c.work # <<>>
<1>0. g \in ClaudeState /\ g.c \in CliSet BY DEF ClaudeGood, ClaudeState
<1>1. PICK c : c = Claude!Prompted(g.c, t) OBVIOUS
<1>2. /\ c \in CliSet /\ ~c.interrupted /\ (\A i \in DOMAIN c.work : c.work[i] = t)
      /\ child = "alive" => c.work # <<>>
      /\ WorkOK(c, n)
  <2>1. CASE child = "alive"
    <3>1. PICK w : w = Append(g.c.work, t) OBVIOUS
    <3>2. w = <<t>> BY <3>1, AppendFirst
    <3>3. c = [g.c EXCEPT !.work = w] BY <1>1, <2>1, <3>1 DEF Claude!Prompted
    <3>4. w \in Seq(Turn) /\ DOMAIN w = {1} /\ w[1] = t /\ w # <<>> BY <3>2
    <3>5. c \in CliSet /\ c.work = w /\ c.interrupted = g.c.interrupted
      BY ONLY <1>0, <3>3, <3>4 DEF CliSet
    <3>6. WorkOK(c, n) BY <2>1, <3>4, <3>5 DEF WorkOK
    <3> QED BY <3>4, <3>5, <3>6
  <2>2. CASE child # "alive"
    <3>1. c = g.c BY <1>1, <2>2 DEF Claude!Prompted
    <3> QED BY <1>0, <2>2, <3>1 DEF ClaudeGood
  <2> QED BY <2>1, <2>2
<1>3. /\ h = [s |-> h.s, t |-> h.t, e |-> g.e, c |-> c]
      /\ h.s \in ClaudeSession /\ h.s.awaiting /\ h.s.active = g.s.active /\ h.s.at = g.s.at
      /\ h.s.runtime = g.s.runtime /\ h.s.poisoned = g.s.poisoned /\ h.s.stray = g.s.stray
      /\ h.s.owes = g.s.owes /\ h.t \in [Turn -> ClaudeTurn]
      /\ \A u \in Turn : /\ h.t[u].cancel = g.t[u].cancel /\ h.t[u].dispatched = g.t[u].dispatched
                         /\ u # t => h.t[u] = g.t[u]
  BY ONLY <1>0, <1>1, t \in Turn, h = ClaudeSent(g, t), ClaudeSetsSent
<1>4. h \in ClaudeState /\ h.e = g.e /\ h.c = c
  <2>1. PICK x \in ClaudeSession : x = h.s BY <1>3
  <2>2. PICK d \in [Turn -> ClaudeTurn] : d = h.t BY <1>3
  <2>3. h = [s |-> x, t |-> d, e |-> g.e, c |-> c] BY <1>3, <2>1, <2>2
  <2> QED BY ONLY <1>0, <1>2, <2>3 DEF ClaudeState
<1>5. StreamsOK(h.e, n, h.t, h.s.active)
  <2>1. StreamsOK(g.e, n, g.t, g.s.active) BY DEF ClaudeGood
  <2>2. \A u \in Turn : g.t[u].cancel => h.t[u].cancel BY <1>3
  <2>3. StreamsOK(g.e, n, h.t, g.s.active) BY ONLY <2>1, <2>2, StreamsTurn
  <2> QED BY <1>3, <1>4, <2>3
<1>6. \A u \in Turn : /\ h.t[u].dispatched => u = h.s.active /\ h.t[u].cancel
                      /\ h.t[u].timer # "none" => u = h.s.active
  BY <1>3
<1>7. Interruption(h.c, h.e, h.t) BY <1>2, <1>4 DEF Interruption
<1>8. h.s.active # NoTurn => h.s.at = "ready" /\ h.s.runtime /\ ~h.s.poisoned BY <1>3 DEF ClaudeGood
<1>9. ClaudeGood(h, n) BY <1>2, <1>4, <1>5, <1>6, <1>7, <1>8 DEF ClaudeGood
<1> QED BY <1>2, <1>3, <1>4, <1>9

\* A Turn is sent when no other is active, and the results still due are accounted for.
LEMMA ClaudePrompt ==
    ASSUME ClaudeInv, NEW t \in Turn, NEW aborted \in BOOLEAN, Claude!Prompt(t, aborted) PROVE ClaudeInv'
<1>0. PICK sends \in BOOLEAN : sends = (~aborted /\ Claude!Running) OBVIOUS
<1>1. PICK g : g = ClaudeBeginning(t, aborted) OBVIOUS
<1>2. /\ session.runtime /\ session.at = "ready" /\ ~session.poisoned /\ session.active = NoTurn /\ CanPrompt(t)
      /\ UNCHANGED <<child, ladder, broken, pipe>>
  BY ClaudeNames DEF Claude!Prompt, Claude!Ready, Claude!processVars
<1>3. native' = Delivered(t, sends)
  BY <1>0, ClaudeNames DEF Claude!Prompt
<1>4. PICK h : h = CASE aborted -> Claude!EmitTerminal(g, t, "cancelled")
                     [] sends -> ClaudeSent(g, t)
                     [] OTHER -> Claude!FailTurn(g, t)
  OBVIOUS
<1>5. Claude!Become(h) BY <1>0, <1>1, <1>4 DEF Claude!Prompt, ClaudeBeginning, ClaudeSent
<1>6. PICK n : n = Delivered(t, sends) OBVIOUS
<1>7. /\ ClaudeGood(g, n) /\ n \in [Turn -> NativeSet]
      /\ g.s = [session EXCEPT !.active = t] /\ g.c = cli /\ g.t[t].cancel = aborted
      /\ g.s.active = t /\ g.s.runtime /\ g.s.stray = session.stray /\ g.s.owes = session.owes
      /\ \A u \in Turn : ~g.t[u].dispatched /\ g.t[u].timer = "none"
      /\ n[t] = (IF sends /\ child = "alive" THEN "working" ELSE "none")
      /\ cli.work = <<>> /\ ~cli.interrupted /\ ~broken
  BY ONLY ClaudeInv, <1>1, <1>2, <1>6, t \in Turn, sends \in BOOLEAN, aborted \in BOOLEAN, ClaudeBegun
<1>8. PICK k : k = Claude!g0 OBVIOUS
<1>9. /\ ClaudeCalm(k, native, pipe, child) /\ k.s.active = NoTurn /\ k.c \in CliSet /\ k.c = cli /\ k.s = session
      /\ pipe \in Seq(FrameSet)
  BY <1>2, <1>8, ClaudeNow, ClaudeFacts DEF ClaudeInv, ClaudeUp
<1>u. /\ native' = n /\ native' \in [Turn -> NativeSet] /\ pipe' \in Seq(FrameSet) /\ ~broken'
      /\ pipe' = pipe /\ child' = child
  BY <1>2, <1>3, <1>6, <1>7, <1>9
<1>10. CASE aborted
  <2>1. PICK o \in Outcome : o = "cancelled" BY DEF Outcome
  <2>a. h = Claude!EmitTerminal(g, t, "cancelled") BY <1>0, <1>4, <1>10
  <2>2. h = Claude!EmitTerminal(g, t, o) BY <2>a, <2>1
  <2>3. g.t[t].cancel /\ o # "completed" BY <1>7, <1>10, <2>1
  <2>4. ClaudeSound(g, n) BY <1>7 DEF ClaudeGood, ClaudeSound
  <2>5. ClaudeGood(h, n) /\ ClaudeEmits(g, h, t, o)
    <3>1. t = g.s.active BY <1>7
    <3> QED BY ONLY <2>2, <2>3, <2>4, <3>1, t \in Turn, o \in Outcome, ClaudeEmit
  <2>6. /\ h.s.active = NoTurn /\ h.s.owes = session.owes /\ h.s.stray = session.stray
        /\ h.s.runtime /\ h.c = cli
    <3>1. h.s.stray <=> session.stray BY <1>7, <2>5 DEF ClaudeEmits
    <3>2. h.s.stray \in BOOLEAN /\ session.stray \in BOOLEAN
      BY <2>5, ClaudeFacts DEF ClaudeGood, ClaudeState, ClaudeSession
    <3> QED BY <1>7, <2>5, <3>1, <3>2 DEF ClaudeEmits
  <2>7. ClaudeCalm(h, n, pipe, child) BY ONLY <1>9, <2>6, ClaudeRests
  <2> QED BY <1>5, <1>u, <2>5, <2>6, <2>7, ClaudeSettles
<1>11. CASE ~aborted /\ sends
  <2>1. h = ClaudeSent(g, t) BY <1>4, <1>11
  <2>2. n[t] = (IF child = "alive" THEN "working" ELSE "none") BY <1>7, <1>11
  <2>3. /\ ClaudeGood(g, n) /\ g.s.active = t /\ g.c.work = <<>> /\ ~g.c.interrupted
        /\ \A u \in Turn : ~g.t[u].dispatched /\ g.t[u].timer = "none"
    BY <1>7
  <2>4. /\ ClaudeGood(h, n) /\ h.s.active = t /\ h.s.awaiting /\ h.s.runtime = g.s.runtime
        /\ h.s.stray = g.s.stray /\ h.s.owes = g.s.owes /\ ~h.t[t].dispatched
        /\ ~h.c.interrupted /\ (\A i \in DOMAIN h.c.work : h.c.work[i] = t)
        /\ child = "alive" => h.c.work # <<>>
    BY ONLY <2>1, <2>2, <2>3, t \in Turn, ClaudeSends
  <2>5. h.s.owes = k.s.owes /\ h.s.stray = k.s.stray /\ h.s.runtime BY <1>7, <1>9, <2>4
  <2>6. ClaudeCalm(h, n, pipe, child)
    BY ONLY <1>9, <2>2, <2>4, <2>5, t \in Turn, ClaudeTakes
  <2> QED BY <1>5, <1>u, <2>4, <2>5, <2>6, ClaudeSettles
<1>12. CASE ~aborted /\ ~sends
  <2>1. h = Claude!FailTurn(g, t) BY <1>4, <1>12
  <2>2. t = g.s.active BY <1>7
  <2>3. /\ ClaudeGood(h, n) /\ h.s.poisoned /\ h.s.runtime = g.s.runtime
    BY ONLY <1>7, <2>1, <2>2, t \in Turn, ClaudeFailTurn
  <2>4. ~ClaudeUp(h.s) /\ h.s.runtime BY <1>7, <2>3 DEF ClaudeUp
  <2> QED BY <1>5, <1>u, <2>3, <2>4, ClaudeSettles
<1> QED BY <1>10, <1>11, <1>12

\* A frame has been read.
ClaudeReading == pipe # <<>> /\ pipe' = Tail(pipe) /\ UNCHANGED <<native, child, ladder>>

\* Reading a frame keeps the invariant if the account of results is right without it.
LEMMA ClaudeReads ==
    ASSUME ClaudeInv, ClaudeReading, broken' = broken, NEW h, Claude!Become(h), ClaudeGood(h, native),
           h.s.runtime = session.runtime,
           ClaudeUp(h.s) => ClaudeUp(session) /\ ClaudeCalm(h, native, Tail(pipe), child)
    PROVE  ClaudeInv'
<1>1. pipe \in Seq(FrameSet) /\ native \in [Turn -> NativeSet] BY ClaudeFacts
<1>2. pipe' \in Seq(FrameSet) BY <1>1, SeqTail DEF ClaudeReading
<1>3. native' = native /\ pipe' = Tail(pipe) /\ child' = child /\ ladder' = ladder BY DEF ClaudeReading
<1>4. ClaudeUp(h.s) => ~broken' /\ ClaudeCalm(h, native', pipe', child') BY <1>3 DEF ClaudeInv
<1>5. ~h.s.runtime => child' # "alive" \/ ladder' = "gaveUp" BY <1>3 DEF ClaudeInv
<1>6. ClaudeGood(h, native') /\ native' \in [Turn -> NativeSet] BY <1>1, <1>3
<1> QED BY <1>2, <1>4, <1>5, <1>6, ClaudeSettles

\* Once the runtime is poisoned, no account is needed.
LEMMA ClaudeReadsDown ==
    ASSUME ClaudeInv, ClaudeReading, NEW h, Claude!Become(h), ClaudeGood(h, native),
           h.s.runtime = session.runtime, ~ClaudeUp(h.s)
    PROVE  ClaudeInv'
<1>1. pipe \in Seq(FrameSet) /\ native \in [Turn -> NativeSet] BY ClaudeFacts
<1>2. pipe' \in Seq(FrameSet) BY <1>1, SeqTail DEF ClaudeReading
<1>3. native' = native /\ child' = child /\ ladder' = ladder BY DEF ClaudeReading
<1>6. ClaudeGood(h, native') /\ native' \in [Turn -> NativeSet] BY <1>1, <1>3
<1> QED BY <1>2, <1>3, <1>6, ClaudeSettlesDown

\* It changes nothing.
LEMMA ClaudeReadsOn ==
    ASSUME ClaudeInv, ClaudeReading, broken' = broken, Claude!Become(Claude!g0),
           ClaudeUp(session) => Head(pipe).k # "result"
    PROVE  ClaudeInv'
<1>1. PICK g : g = Claude!g0 OBVIOUS
<1>2. ClaudeGood(g, native) /\ g.s = session /\ pipe \in Seq(FrameSet) /\ Claude!Become(g)
  BY <1>1, ClaudeFacts, ClaudeNow
<1>3. ASSUME ClaudeUp(session) PROVE ClaudeCalm(g, native, Tail(pipe), child)
  <2>1. ClaudeCalm(g, native, pipe, child) BY <1>1, <1>3 DEF ClaudeInv
  <2>2. pipe # <<>> /\ Head(pipe).k # "result" BY <1>3 DEF ClaudeReading
  <2> QED BY ONLY <1>2, <2>1, <2>2, ClaudePasses
<1> QED BY <1>2, <1>3, ClaudeReads

\* #rejectPendingControl
LEMMA ClaudeRejects ==
    ASSUME NEW g, NEW n, ClaudeGood(g, n), g.s.active = NoTurn, NEW x \in {"failing", "ready", "mode"},
           NEW h, h = [g EXCEPT !.s.at = x]
    PROVE  /\ ClaudeGood(h, n) /\ h.s.at = x /\ h.s.runtime = g.s.runtime /\ h.s.active = NoTurn
           /\ h.s.poisoned = g.s.poisoned /\ h.s.awaiting = g.s.awaiting /\ h.s.stray = g.s.stray
           /\ h.s.owes = g.s.owes /\ h.t = g.t /\ h.c = g.c /\ h.e = g.e
<1>g. g \in ClaudeState /\ g.s \in ClaudeSession BY DEF ClaudeGood, ClaudeState
<1>1. h = [s |-> [g.s EXCEPT !.at = x], t |-> g.t, e |-> g.e, c |-> g.c] BY ONLY <1>g, h = [g EXCEPT !.s.at = x] DEF ClaudeState
<1>2. PICK ss : ss = [g.s EXCEPT !.at = x] OBVIOUS
<1>3. /\ ss \in ClaudeSession /\ ss.at = x /\ ss.runtime = g.s.runtime /\ ss.active = g.s.active
      /\ ss.poisoned = g.s.poisoned /\ ss.awaiting = g.s.awaiting /\ ss.stray = g.s.stray /\ ss.owes = g.s.owes
  BY <1>g, <1>2 DEF ClaudeSession
<1>4. h \in ClaudeState /\ h.s = ss /\ h.t = g.t /\ h.c = g.c /\ h.e = g.e BY <1>1, <1>2, <1>3, <1>g DEF ClaudeState
<1>5. ClaudeGood(h, n) BY <1>3, <1>4 DEF ClaudeGood
<1> QED BY <1>3, <1>4, <1>5

\* A line that is no JSON fails the handshake or the runtime.
LEMMA ClaudeReadsGarbage ==
    ASSUME ClaudeInv, ClaudeReading,
           Claude!Become(CASE ~Claude!Listening -> Claude!g0
                           [] Claude!Listening /\ session.at \in Claude!Launching -> Claude!RejectPendingControl(Claude!g0)
                           [] OTHER -> Claude!FailRuntime(Claude!g0))
    PROVE  ClaudeInv'
<1>1. PICK g : g = Claude!g0 OBVIOUS
<1>2. ClaudeGood(g, native) /\ g.s = session BY <1>1, ClaudeFacts, ClaudeNow
<1>3. CASE ~Claude!Listening
  <2>1. ~ClaudeUp(g.s) BY <1>2, <1>3 DEF Claude!Listening, ClaudeUp
  <2>3. Claude!Become(g) BY <1>1, <1>3
  <2> QED BY <1>2, <2>1, <2>3, ClaudeReadsDown
<1>4. CASE Claude!Listening /\ session.at \in Claude!Launching
  <2>1. PICK h : h = Claude!RejectPendingControl(g) OBVIOUS
  <2>2. Claude!Become(h) BY <1>1, <1>4, <2>1
  <2>3. PICK x : x \in {"failing", "ready", "mode"} /\ x = "failing" OBVIOUS
  <2>4. h = [g EXCEPT !.s.at = x] BY <2>1, <2>3 DEF Claude!RejectPendingControl
  <2>5. g.s.active = NoTurn BY <1>2, <1>4 DEF ClaudeGood, Claude!Launching
  <2>6. ClaudeGood(h, native) /\ h.s.at = x /\ h.s.runtime = g.s.runtime
    BY ONLY <1>2, <2>3, <2>4, <2>5, ClaudeRejects
  <2>7. ~ClaudeUp(h.s) BY <2>3, <2>6 DEF ClaudeUp
  <2>8. h.s.runtime = session.runtime BY <1>2, <2>6
  <2> QED BY <2>2, <2>6, <2>7, <2>8, ClaudeReadsDown
<1>5. CASE Claude!Listening /\ session.at \notin Claude!Launching
  <2>1. PICK h : h = Claude!FailRuntime(g) OBVIOUS
  <2>2. Claude!Become(h) BY <1>1, <1>5, <2>1
  <2>3. ClaudeGood(h, native) /\ h.s.poisoned /\ h.s.runtime = g.s.runtime BY ONLY <1>2, <2>1, ClaudeFailRuntime
  <2>4. ~ClaudeUp(h.s) /\ h.s.runtime = session.runtime BY <1>2, <2>3 DEF ClaudeUp
  <2> QED BY <2>2, <2>3, <2>4, ClaudeReadsDown
<1> QED BY <1>3, <1>4, <1>5

\* The next control request is written.
ClaudeAsks(g) == [g EXCEPT !.s.at = "mode", !.c = Claude!Asked(@, <<"mode", NoTurn>>)]

\* The next request of the handshake is sent while no Turn is active.
LEMMA ClaudeAsksNext ==
    ASSUME NEW g, NEW n, ClaudeGood(g, n), g.s.active = NoTurn, NEW h, h = ClaudeAsks(g)
    PROVE  ClaudeGood(h, n) /\ ClaudeAlike(g, h) /\ h.s.runtime = g.s.runtime /\ h.s.poisoned = g.s.poisoned
<1>g. g \in ClaudeState /\ g.c \in CliSet BY DEF ClaudeGood, ClaudeState
<1>1. PICK r \in Request : r = <<"mode", NoTurn>> BY DEF Request, Subject
<1>2. PICK z : z = Claude!Asked(g.c, r) OBVIOUS
<1>3. z \in CliSet /\ z.work = g.c.work /\ z.interrupted = g.c.interrupted BY <1>g, <1>2, ClaudeAsked
<1>4. PICK x \in {"failing", "ready", "mode"} : x = "mode" OBVIOUS
<1>5. PICK k : k = [g EXCEPT !.s.at = x] OBVIOUS
<1>6. /\ ClaudeGood(k, n) /\ k.s.at = x /\ k.s.runtime = g.s.runtime /\ k.s.active = NoTurn
      /\ k.s.poisoned = g.s.poisoned /\ k.s.awaiting = g.s.awaiting /\ k.s.stray = g.s.stray
      /\ k.s.owes = g.s.owes /\ k.t = g.t /\ k.c = g.c /\ k.e = g.e
  BY ONLY ClaudeGood(g, n), g.s.active = NoTurn, x \in {"failing", "ready", "mode"}, <1>5, ClaudeRejects
<1>7. h = [k EXCEPT !.c = z]
  <2>1. \A a, b : [g EXCEPT !.s.at = a, !.c = b] = [[g EXCEPT !.s.at = a] EXCEPT !.c = b] OBVIOUS
  <2>2. h = [g EXCEPT !.s.at = x, !.c = z] BY <1>1, <1>2, <1>4 DEF ClaudeAsks
  <2> QED BY <1>5, <2>1, <2>2
<1>8. k \in ClaudeState BY <1>6 DEF ClaudeGood
<1>9. h \in ClaudeState /\ h.s = k.s /\ h.t = k.t /\ h.e = k.e /\ h.c = z
  BY ONLY <1>3, <1>7, <1>8 DEF ClaudeState
<1>10. ClaudeGood(h, n)
  <2>1. /\ h.s.active = k.s.active /\ h.s.at = k.s.at /\ h.s.runtime = k.s.runtime /\ h.s.poisoned = k.s.poisoned
        /\ h.c.work = k.c.work /\ h.c.interrupted = k.c.interrupted
    BY <1>3, <1>6, <1>9
  <2>2. \A u \in Turn : /\ k.t[u].cancel => h.t[u].cancel
                        /\ h.t[u].dispatched => u = k.s.active /\ h.t[u].cancel
                        /\ h.t[u].timer # "none" => u = k.s.active
    BY <1>6, <1>9 DEF ClaudeGood
  <2>3. h.e = k.e BY <1>9
  <2> QED BY ONLY <1>6, <1>9, <2>1, <2>2, <2>3, ClaudeTouch
<1>11. ClaudeAlike(g, h) BY <1>3, <1>6, <1>9 DEF ClaudeAlike
<1> QED BY <1>6, <1>9, <1>10, <1>11

\* A control request was answered.
LEMMA ClaudeReadsAnswer ==
    ASSUME ClaudeInv, ClaudeReading, broken' = broken, Head(pipe).k = "answer", Claude!Listening,
           Head(pipe).id[1] = session.at, NEW ok, Claude!Become(Claude!ControlAnswered(Claude!g0, ok))
    PROVE  ClaudeInv'
<1>1. PICK g : g = Claude!g0 OBVIOUS
<1>2. ClaudeGood(g, native) /\ g.s = session /\ pipe \in Seq(FrameSet) BY <1>1, ClaudeFacts, ClaudeNow
<1>3. session.at \in {"initialize", "mode"} /\ session.runtime
  <2>1. Head(pipe) \in FrameSet BY <1>2, SeqTail DEF ClaudeReading
  <2>2. Head(pipe).id[1] \in {"initialize", "open", "configure", "close", "requirements", "mode", "prompt", "start",
                              "interrupt", "none"}
    BY <2>1 DEF FrameSet, Request
  <2>3. session.at \in {"none", "initialize", "mode", "ready", "failing", "closing"} BY ClaudeFacts DEF ClaudeSession
  <2> QED BY <2>2, <2>3 DEF Claude!Listening
<1>4. g.s.active = NoTurn BY <1>2, <1>3 DEF ClaudeGood
<1>5. PICK h : h = Claude!ControlAnswered(g, ok) OBVIOUS
<1>6. Claude!Become(h) BY <1>1, <1>5
<1>7. ASSUME ClaudeUp(session) PROVE ClaudeCalm(g, native, Tail(pipe), child)
  <2>1. ClaudeCalm(g, native, pipe, child) BY <1>1, <1>7 DEF ClaudeInv
  <2>2. pipe # <<>> /\ Head(pipe).k # "result" BY <1>7 DEF ClaudeReading
  <2> QED BY ONLY <1>2, <2>1, <2>2, ClaudePasses
<1>8. CASE ~ok \/ (g.s.at = "mode" /\ g.s.poisoned)
  <2>1. PICK x \in {"failing", "ready", "mode"} : x = "failing" OBVIOUS
  <2>2. h = [g EXCEPT !.s.at = x] BY <1>5, <1>8, <2>1 DEF Claude!ControlAnswered
  <2>3. ClaudeGood(h, native) /\ h.s.at = x /\ h.s.runtime = g.s.runtime
    BY ONLY <1>2, <1>4, <2>1, <2>2, ClaudeRejects
  <2>4. ~ClaudeUp(h.s) BY <2>1, <2>3 DEF ClaudeUp
  <2> QED BY <1>2, <1>6, <2>3, <2>4, ClaudeReadsDown
<1>9. CASE ok /\ g.s.at = "mode" /\ ~g.s.poisoned
  <2>1. PICK x \in {"failing", "ready", "mode"} : x = "ready" OBVIOUS
  <2>2. h = [g EXCEPT !.s.at = x] BY <1>5, <1>9, <2>1 DEF Claude!ControlAnswered
  <2>3. /\ ClaudeGood(h, native) /\ h.s.at = x /\ h.s.runtime = g.s.runtime /\ h.s.active = NoTurn
        /\ h.s.poisoned = g.s.poisoned /\ h.s.awaiting = g.s.awaiting /\ h.s.stray = g.s.stray
        /\ h.s.owes = g.s.owes /\ h.t = g.t /\ h.c = g.c /\ h.e = g.e
    BY ONLY <1>2, <1>4, <2>1, <2>2, ClaudeRejects
  <2>4. ClaudeUp(session) BY <1>2, <1>3, <1>9 DEF ClaudeUp
  <2>5. ClaudeAlike(g, h) BY <1>4, <2>3 DEF ClaudeAlike
  <2>6. ClaudeCalm(h, native, Tail(pipe), child) BY <1>7, <2>4, <2>5, ClaudeSame
  <2> QED BY <1>2, <1>6, <2>3, <2>4, <2>6, ClaudeReads
<1>10. CASE ok /\ g.s.at # "mode"
  <2>1. h = ClaudeAsks(g) BY <1>5, <1>10, ClaudeNames DEF Claude!ControlAnswered, ClaudeAsks
  <2>2. ClaudeGood(h, native) /\ ClaudeAlike(g, h) /\ h.s.runtime = g.s.runtime /\ h.s.poisoned = g.s.poisoned
    BY ONLY <1>2, <1>4, <2>1, ClaudeAsksNext
  <2>3. ClaudeUp(h.s) => ClaudeUp(session) BY <1>2, <1>3, <2>2 DEF ClaudeUp
  <2>4. ClaudeUp(h.s) => ClaudeCalm(h, native, Tail(pipe), child) BY <1>7, <2>2, <2>3, ClaudeSame
  <2> QED BY <1>2, <1>6, <2>2, <2>3, <2>4, ClaudeReads
<1> QED BY <1>8, <1>9, <1>10

\* #handleMessage: a stray result ...
LEMMA ClaudeReadsStray ==
    ASSUME ClaudeInv, ClaudeReading, broken' = broken, Head(pipe).k = "result",
           NEW g, g = Claude!g0, NEW h, h = [g EXCEPT !.s.stray = FALSE], Claude!Become(h)
    PROVE  ClaudeInv'
<1>1. /\ ClaudeGood(g, native) /\ g.s = session /\ pipe \in Seq(FrameSet) /\ g \in ClaudeState /\ g.s \in ClaudeSession
  BY ClaudeFacts, ClaudeNow
<1>2. PICK x : x = [g.s EXCEPT !.stray = FALSE] /\ h = [s |-> x, t |-> g.t, e |-> g.e, c |-> g.c]
  BY ONLY <1>1, h = [g EXCEPT !.s.stray = FALSE] DEF ClaudeState, ClaudeSession
<1>3. /\ x \in ClaudeSession /\ x.active = g.s.active /\ x.at = g.s.at /\ x.runtime = g.s.runtime
      /\ x.poisoned = g.s.poisoned /\ x.awaiting = g.s.awaiting /\ x.owes = g.s.owes
  BY ONLY <1>1, <1>2 DEF ClaudeSession
<1>4. h \in ClaudeState /\ h.s = x /\ h.t = g.t /\ h.e = g.e /\ h.c = g.c BY ONLY <1>1, <1>2, <1>3 DEF ClaudeState
<1>5. ClaudeGood(h, native) BY ONLY <1>1, <1>3, <1>4 DEF ClaudeGood
<1>6. ClaudeUp(h.s) => ClaudeUp(session) BY <1>1, <1>3, <1>4 DEF ClaudeUp
<1>7. ASSUME ClaudeUp(session) PROVE ClaudeCalm(h, native, Tail(pipe), child)
  <2>1. ClaudeCalm(g, native, pipe, child) BY <1>7 DEF ClaudeInv
  <2>2. pipe # <<>> BY DEF ClaudeReading
  <2>3. g.s.active \in Subject /\ WorkOK(g.c, native) /\ g.c \in CliSet
    BY <1>1 DEF ClaudeGood, ClaudeState, ClaudeSession
  <2>4. /\ h.s.active = g.s.active /\ h.s.awaiting = g.s.awaiting /\ h.s.owes = g.s.owes
        /\ h.t = g.t /\ h.c = g.c
    BY <1>3, <1>4
  <2> QED BY ONLY <1>1, <2>1, <2>2, <2>3, <2>4, Head(pipe).k = "result", ClaudeAbsorbs
<1>8. h.s.runtime = session.runtime BY <1>1, <1>3, <1>4
<1> QED BY <1>5, <1>6, <1>7, <1>8, ClaudeReads

\* ... what the active turn says ...
LEMMA ClaudeReadsText ==
    ASSUME ClaudeInv, ClaudeReading, broken' = broken, Head(pipe).k = "text", session.active # NoTurn,
           NEW g, g = Claude!g0, NEW h,
           h = Claude!ObserveActivity([g EXCEPT !.e = Claude!WithText(g.s.active, Head(pipe).id[2])], g.s.active),
           Claude!Become(h)
    PROVE  ClaudeInv'
<1>1. /\ ClaudeGood(g, native) /\ g.s = session /\ pipe \in Seq(FrameSet) /\ g.e = stream
  BY ClaudeFacts, ClaudeNow
<1>2. PICK t \in Turn : t = session.active BY ClaudeServes
<1>3. ClaudeUp(session) /\ ClaudeCalm(g, native, pipe, child) BY ClaudeServes
<1>4. pipe # <<>> BY DEF ClaudeReading
<1>5. Head(pipe).id[2] = t
  <2>1. 1 \in DOMAIN pipe /\ Head(pipe) = pipe[1] BY <1>1, <1>4
  <2> QED BY <1>1, <1>2, <1>3, <2>1 DEF ClaudeCalm, ClaudeFrames
<1>6. PICK k : k = [g EXCEPT !.e = Claude!WithText(t, t)] OBVIOUS
<1>7. h = Claude!ObserveActivity(k, t) BY <1>1, <1>2, <1>5, <1>6
<1>8. t = g.s.active BY <1>1, <1>2
<1>9. ClaudeGood(k, native) /\ ClaudeAlike(g, k) /\ k.s = g.s
  BY ONLY <1>1, <1>6, <1>8, t \in Turn, ClaudeTells
<1>10. t = k.s.active BY <1>8, <1>9
<1>11. ClaudeGood(h, native) /\ ClaudeAlike(k, h) /\ h.s = k.s
  BY ONLY <1>7, <1>9, <1>10, t \in Turn, ClaudeObserves
<1>12. Head(pipe).k # "result" OBVIOUS
<1>13. ClaudeCalm(g, native, Tail(pipe), child) BY ONLY <1>1, <1>3, <1>4, <1>12, ClaudePasses
<1>14. ClaudeCalm(k, native, Tail(pipe), child) BY <1>9, <1>13, ClaudeSame
<1>15. ClaudeCalm(h, native, Tail(pipe), child) BY <1>11, <1>14, ClaudeSame
<1>16. h.s.runtime = session.runtime BY <1>1, <1>9, <1>11
<1> QED BY <1>3, <1>11, <1>15, <1>16, ClaudeReads

\* ... and #handleResult
LEMMA ClaudeReadsResult ==
    ASSUME ClaudeInv, ClaudeReading, broken' = broken, Head(pipe).k = "result", session.active # NoTurn,
           ~session.stray, NEW g, g = Claude!g0, NEW h,
           h = Claude!HandleResult(g, g.s.active, Head(pipe).out), Claude!Become(h)
    PROVE  ClaudeInv'
<1>1. /\ ClaudeGood(g, native) /\ g.s = session /\ pipe \in Seq(FrameSet) /\ g.e = stream
  BY ClaudeFacts, ClaudeNow
<1>2. PICK t \in Turn : t = session.active BY ClaudeServes
<1>3. ClaudeUp(session) /\ ClaudeCalm(g, native, pipe, child) BY ClaudeServes
<1>4. pipe # <<>> BY DEF ClaudeReading
<1>5. g.s.awaiting BY <1>1, <1>3 DEF ClaudeCalm, ClaudeWork
<1>6. PICK o : o = Head(pipe).out OBVIOUS
<1>7. h = Claude!EmitTerminal(g, t, o) BY <1>1, <1>2, <1>5, <1>6 DEF Claude!HandleResult
<1>8. /\ g.s.active = t /\ WorkOK(g.c, native) /\ g.c \in CliSet /\ ~g.s.stray
      /\ g.c.interrupted => g.c.work # <<>>
  BY <1>1, <1>2 DEF ClaudeGood, ClaudeState, Interruption
<1>9. PICK st \in BOOLEAN : st <=> g.t[t].dispatched /\ o # "cancelled" OBVIOUS
<1>10. PICK i : /\ i.s.active = NoTurn /\ i.s.owes = g.s.owes /\ i.c = g.c /\ i.s.stray = st
  <2>1. PICK i : i = [s |-> [active |-> NoTurn, owes |-> g.s.owes, stray |-> st], c |-> g.c] OBVIOUS
  <2>2. i.s.active = NoTurn /\ i.s.owes = g.s.owes /\ i.c = g.c /\ i.s.stray = st BY <2>1
  <2> QED BY <2>2
<1>11. i.s.stray <=> g.t[g.s.active].dispatched /\ Head(pipe).out # "cancelled" BY <1>6, <1>8, <1>9, <1>10
<1>12. /\ Head(pipe).out \in Outcome
       /\ Head(pipe).out = "completed" => native[g.s.active] = "completed"
       /\ Head(pipe).out = "cancelled" => g.t[g.s.active].dispatched
  BY ONLY <1>1, <1>3, <1>4, <1>8, <1>10, <1>11, t \in Turn, Head(pipe).k = "result", ClaudeResultEnds
<1>13. g.t[t].dispatched => g.t[t].cancel BY <1>1 DEF ClaudeGood
<1>14. o \in Outcome /\ (o = "completed" => native[t] = "completed") /\ (o = "cancelled" => g.t[t].cancel)
  BY <1>6, <1>8, <1>12, <1>13
<1>15. ClaudeSound(g, native) BY <1>1 DEF ClaudeGood, ClaudeSound
<1>16. ClaudeGood(h, native) /\ ClaudeEmits(g, h, t, o)
  BY ONLY <1>7, <1>8, <1>14, <1>15, t \in Turn, ClaudeEmit
<1>17. h.s.active = NoTurn /\ h.s.owes = g.s.owes /\ h.c = g.c /\ h.s.runtime = g.s.runtime
       /\ (h.s.stray <=> g.t[g.s.active].dispatched /\ Head(pipe).out # "cancelled")
  BY <1>6, <1>8, <1>16 DEF ClaudeEmits
<1>18. ClaudeCalm(h, native, Tail(pipe), child)
  BY ONLY <1>1, <1>3, <1>4, <1>8, <1>17, t \in Turn, Head(pipe).k = "result", ClaudeResultEnds
<1>19. h.s.runtime = session.runtime BY <1>1, <1>17
<1> QED BY <1>3, <1>16, <1>18, <1>19, ClaudeReads

\* A result ends the Turn that is active only if it is that Turn's own.
LEMMA ClaudeReadsMessage ==
    ASSUME ClaudeInv, ClaudeReading, broken' = broken, Head(pipe).k \in {"text", "result"},
           Claude!Become(Claude!HandleMessage(Claude!g0, Head(pipe)))
    PROVE  ClaudeInv'
<1>1. PICK g : g = Claude!g0 OBVIOUS
<1>2. PICK f : f = Head(pipe) OBVIOUS
<1>3. PICK h : h = Claude!HandleMessage(g, f) OBVIOUS
<1>4. Claude!Become(h) BY <1>1, <1>2, <1>3
<1>5. ClaudeGood(g, native) /\ g.s = session BY <1>1, ClaudeFacts, ClaudeNow
<1>6. Claude!Live(g) <=> session.active # NoTurn BY <1>5, ClaudeLive
<1>7. CASE f.k = "result" /\ g.s.stray
  <2>1. h = [g EXCEPT !.s.stray = FALSE] BY <1>3, <1>7 DEF Claude!HandleMessage
  <2> QED BY <1>1, <1>2, <1>4, <1>7, <2>1, ClaudeReadsStray
<1>8. CASE f.k = "text" /\ Claude!Live(g)
  <2>1. h = Claude!ObserveActivity([g EXCEPT !.e = Claude!WithText(g.s.active, f.id[2])], g.s.active)
    BY <1>3, <1>8 DEF Claude!HandleMessage
  <2> QED BY <1>1, <1>2, <1>4, <1>6, <1>8, <2>1, ClaudeReadsText
<1>9. CASE f.k = "result" /\ ~g.s.stray /\ Claude!Live(g)
  <2>1. h = Claude!HandleResult(g, g.s.active, f.out) BY <1>3, <1>9 DEF Claude!HandleMessage
  <2> QED BY <1>1, <1>2, <1>4, <1>5, <1>6, <1>9, <2>1, ClaudeReadsResult
<1>10. CASE ~Claude!Live(g) /\ ~(f.k = "result" /\ g.s.stray)
  <2>1. h = g BY <1>3, <1>10 DEF Claude!HandleMessage
  <2>2. ASSUME ClaudeUp(session) PROVE Head(pipe).k # "result"
    <3>1. CASE f.k = "text" BY <1>2, <3>1
    <3>2. CASE f.k = "result"
      <4>1. ClaudeCalm(g, native, pipe, child) BY <1>1, <2>2 DEF ClaudeInv
      <4>2. pipe # <<>> BY DEF ClaudeReading
      <4>3. /\ g.s.active = NoTurn /\ WorkOK(g.c, native) /\ g.c \in CliSet /\ ~g.s.stray /\ pipe \in Seq(FrameSet)
        BY <1>5, <1>6, <1>10, <3>2, ClaudeFacts DEF ClaudeGood, ClaudeState
      <4> QED BY ONLY <4>1, <4>2, <4>3, ClaudeNoResult
    <3> QED BY <1>2, <3>1, <3>2
  <2> QED BY <1>1, <1>4, <2>1, <2>2, ClaudeReadsOn
<1> QED BY <1>2, <1>7, <1>8, <1>9, <1>10

\* #handleControlRequest
LEMMA ClaudeReadsAsk ==
    ASSUME ClaudeInv, ClaudeReading, broken' = broken, Head(pipe).k = "ask",
           Claude!Become(Claude!HandleControlRequest(Claude!g0))
    PROVE  ClaudeInv'
<1>1. PICK g : g = Claude!g0 OBVIOUS
<1>2. PICK h : h = Claude!HandleControlRequest(g) OBVIOUS
<1>3. Claude!Become(h) BY <1>1, <1>2
<1>4. ClaudeGood(g, native) /\ g.s = session BY <1>1, ClaudeFacts, ClaudeNow
<1>5. Claude!Live(g) <=> session.active # NoTurn BY <1>4, ClaudeLive
<1>6. CASE Claude!Live(g)
  <2>1. PICK t \in Turn : t = g.s.active BY <1>4, <1>5, <1>6, ClaudeServes
  <2>2. h = Claude!FailTurn(g, t) BY <1>2, <1>6, <2>1 DEF Claude!HandleControlRequest
  <2>3. ClaudeGood(h, native) /\ h.s.poisoned /\ h.s.runtime = g.s.runtime
    BY ONLY <1>4, <2>1, <2>2, ClaudeFailTurn
  <2>4. ~ClaudeUp(h.s) /\ h.s.runtime = session.runtime BY <1>4, <2>3 DEF ClaudeUp
  <2> QED BY <1>3, <2>3, <2>4, ClaudeReadsDown
<1>7. CASE ~Claude!Live(g) /\ ~g.s.closing
  <2>1. h = Claude!ScheduleTeardown(g) BY <1>2, <1>7 DEF Claude!HandleControlRequest
  <2>2. g.s.active = NoTurn BY <1>4, <1>5, <1>7
  <2>3. ClaudeGood(h, native) /\ h.s.poisoned /\ h.s.runtime = g.s.runtime
    BY ONLY <1>4, <2>1, <2>2, ClaudeTeardown
  <2>4. ~ClaudeUp(h.s) /\ h.s.runtime = session.runtime BY <1>4, <2>3 DEF ClaudeUp
  <2> QED BY <1>3, <2>3, <2>4, ClaudeReadsDown
<1>8. CASE ~Claude!Live(g) /\ g.s.closing
  <2>1. h = g BY <1>2, <1>8 DEF Claude!HandleControlRequest
  <2>2. Head(pipe).k # "result" OBVIOUS
  <2> QED BY <1>1, <1>3, <2>1, <2>2, ClaudeReadsOn
<1> QED BY <1>6, <1>7, <1>8

\* A message of another session poisons the runtime.
LEMMA ClaudeReadsForeign ==
    ASSUME ClaudeInv, ClaudeReading, Claude!Become(Claude!FailRuntime(Claude!g0))
    PROVE  ClaudeInv'
<1>1. PICK g : g = Claude!g0 OBVIOUS
<1>2. ClaudeGood(g, native) /\ g.s = session BY <1>1, ClaudeFacts, ClaudeNow
<1>3. PICK h : h = Claude!FailRuntime(g) OBVIOUS
<1>4. ClaudeGood(h, native) /\ h.s.poisoned /\ h.s.runtime = g.s.runtime BY ONLY <1>2, <1>3, ClaudeFailRuntime
<1>5. ~ClaudeUp(h.s) /\ h.s.runtime = session.runtime BY <1>2, <1>4 DEF ClaudeUp
<1> QED BY <1>1, <1>3, <1>4, <1>5, ClaudeReadsDown

\* Every frame that is read keeps the invariant.
LEMMA ClaudeReadFrame == ASSUME ClaudeInv, Claude!ReadFrame PROVE ClaudeInv'
<1> DEFINE f == Head(pipe)
<1>1. pipe # <<>> /\ pipe' = Tail(pipe) /\ UNCHANGED <<native, child>>
      /\ (UNCHANGED Claude!processVars => broken' = broken /\ ladder' = ladder)
      /\ (UNCHANGED <<expected, ladder>> => ladder' = ladder)
  BY DEF Claude!ReadFrame, Claude!NextFrame, Claude!BreakStdout, Claude!processVars
<1>2. CASE f.k = "garbage" /\ ~broken
  <2>1. /\ UNCHANGED <<expected, ladder>>
        /\ Claude!Become(CASE ~Claude!Listening -> Claude!g0
                           [] Claude!Listening /\ session.at \in Claude!Launching -> Claude!RejectPendingControl(Claude!g0)
                           [] OTHER -> Claude!FailRuntime(Claude!g0))
    BY <1>2 DEF Claude!ReadFrame
  <2>2. ClaudeReading BY <1>1, <2>1 DEF ClaudeReading
  <2> QED BY <2>1, <2>2, ClaudeReadsGarbage
<1>3. CASE f.k = "answer" /\ Claude!Listening /\ f.id[1] = session.at
  <2>1. Claude!Become(Claude!ControlAnswered(Claude!g0, f.out = "ok")) /\ UNCHANGED Claude!processVars
    BY <1>3 DEF Claude!ReadFrame
  <2>2. ClaudeReading /\ broken' = broken BY <1>1, <2>1 DEF ClaudeReading
  <2> QED BY <1>3, <2>1, <2>2, ClaudeReadsAnswer
<1>4. CASE f.k \in {"text", "result"} /\ Claude!Listening
  <2>1. Claude!Become(Claude!HandleMessage(Claude!g0, f)) /\ UNCHANGED Claude!processVars
    BY <1>4 DEF Claude!ReadFrame
  <2>2. ClaudeReading /\ broken' = broken BY <1>1, <2>1 DEF ClaudeReading
  <2> QED BY <1>4, <2>1, <2>2, ClaudeReadsMessage
<1>5. CASE f.k = "ask" /\ Claude!Listening
  <2>1. Claude!Become(Claude!HandleControlRequest(Claude!g0)) /\ UNCHANGED Claude!processVars
    BY <1>5 DEF Claude!ReadFrame
  <2>2. ClaudeReading /\ broken' = broken BY <1>1, <2>1 DEF ClaudeReading
  <2> QED BY <1>5, <2>1, <2>2, ClaudeReadsAsk
<1>6. CASE f.k = "foreign" /\ Claude!Listening
  <2>1. Claude!Become(Claude!FailRuntime(Claude!g0)) /\ UNCHANGED Claude!processVars
    BY <1>6 DEF Claude!ReadFrame
  <2>2. ClaudeReading BY <1>1, <2>1 DEF ClaudeReading
  <2> QED BY <2>1, <2>2, ClaudeReadsForeign
<1>7. CASE /\ ~(f.k = "garbage" /\ ~broken)
           /\ ~(f.k = "answer" /\ Claude!Listening /\ f.id[1] = session.at)
           /\ ~(f.k \in {"text", "result"} /\ Claude!Listening)
           /\ ~(f.k = "ask" /\ Claude!Listening)
           /\ ~(f.k = "foreign" /\ Claude!Listening)
  <2>1. Claude!Become(Claude!g0) /\ UNCHANGED Claude!processVars
    BY <1>7 DEF Claude!ReadFrame
  <2>2. ClaudeReading /\ broken' = broken BY <1>1, <2>1 DEF ClaudeReading
  <2>3. ClaudeUp(session) => Claude!Listening BY DEF ClaudeUp, Claude!Listening
  <2>4. ClaudeUp(session) => Head(pipe).k # "result" BY <1>7, <2>3
  <2> QED BY <2>1, <2>2, <2>4, ClaudeReadsOn
<1> QED BY <1>2, <1>3, <1>4, <1>5, <1>6, <1>7

\* #handleExit
LEMMA ClaudeHandleExit == ASSUME ClaudeInv, Claude!HandleExit PROVE ClaudeInv'
<1>1. PICK g : g = Claude!g0 OBVIOUS
<1>2. ClaudeGood(g, native) /\ g.s = session /\ native \in [Turn -> NativeSet] /\ pipe \in Seq(FrameSet)
  BY <1>1, ClaudeFacts, ClaudeNow
<1>3. /\ UNCHANGED <<native, pipe, broken, ladder>> /\ child' = "exited"
      /\ Claude!Become(CASE ~Claude!Listening -> g
                         [] Claude!Listening /\ session.at \in Claude!Launching -> Claude!RejectPendingControl(g)
                         [] Claude!Listening /\ session.at \notin Claude!Launching /\ ~session.closing /\ ~expected
                              -> Claude!FailRuntime(g)
                         [] OTHER -> g)
  BY <1>1 DEF Claude!HandleExit, Claude!ObserveExit
<1>4. CASE Claude!Become(g)
  <2>1. ClaudeAlike(g, g) BY DEF ClaudeAlike
  <2>2. child' = child \/ child' # "alive" BY <1>3
  <2> QED BY <1>1, <1>2, <1>3, <1>4, <2>1, <2>2, ClaudeSettlesStill
<1>5. CASE Claude!Listening /\ session.at \in Claude!Launching /\ Claude!Become(Claude!RejectPendingControl(g))
  <2>1. PICK x \in {"failing", "ready", "mode"} : x = "failing" OBVIOUS
  <2>2. PICK h : h = [g EXCEPT !.s.at = x] OBVIOUS
  <2>3. Claude!Become(h) BY <1>5, <2>1, <2>2 DEF Claude!RejectPendingControl
  <2>4. g.s.active = NoTurn BY <1>2, <1>5 DEF ClaudeGood, Claude!Launching
  <2>5. ClaudeGood(h, native) /\ h.s.at = x /\ h.s.runtime = g.s.runtime
    BY ONLY <1>2, <2>1, <2>2, <2>4, ClaudeRejects
  <2>6. ~ClaudeUp(h.s) /\ h.s.runtime = session.runtime BY <1>2, <2>1, <2>5 DEF ClaudeUp
  <2>7. ClaudeGood(h, native') /\ native' \in [Turn -> NativeSet] /\ pipe' \in Seq(FrameSet)
        /\ child' # "alive" /\ (ladder = "gaveUp" => ladder' = "gaveUp")
    BY <1>2, <1>3, <2>5
  <2> QED BY <2>3, <2>6, <2>7, ClaudeSettlesDown
<1>6. CASE Claude!Become(Claude!FailRuntime(g))
  <2>1. PICK h : h = Claude!FailRuntime(g) OBVIOUS
  <2>2. ClaudeGood(h, native) /\ h.s.poisoned /\ h.s.runtime = g.s.runtime BY ONLY <1>2, <2>1, ClaudeFailRuntime
  <2>3. ~ClaudeUp(h.s) /\ h.s.runtime = session.runtime BY <1>2, <2>2 DEF ClaudeUp
  <2>4. ClaudeGood(h, native') /\ native' \in [Turn -> NativeSet] /\ pipe' \in Seq(FrameSet)
        /\ child' # "alive" /\ (ladder = "gaveUp" => ladder' = "gaveUp") /\ Claude!Become(h)
    BY <1>2, <1>3, <1>6, <2>1, <2>2
  <2> QED BY <2>3, <2>4, ClaudeSettlesDown
<1>7. \/ Claude!Become(g)
      \/ Claude!Listening /\ session.at \in Claude!Launching /\ Claude!Become(Claude!RejectPendingControl(g))
      \/ Claude!Become(Claude!FailRuntime(g))
  BY <1>3
<1> QED BY <1>4, <1>5, <1>6, <1>7

\* What the CLI has written
LEMMA ClaudeWritten ==
    ASSUME NEW x \in FrameSet, Claude!Writes(x), pipe \in Seq(FrameSet)
    PROVE  /\ child = "alive" /\ pipe' \in Seq(FrameSet)
           /\ ~broken => pipe' = Append(pipe, x)
<1>1. child = "alive" /\ pipe' = IF broken THEN pipe ELSE Append(pipe, x) BY DEF Claude!Writes
<1>2. Append(pipe, x) \in Seq(FrameSet) BY AppendProperties
<1> QED BY <1>1, <1>2

\* The CLI writes a frame that is no result.
LEMMA ClaudeCliWrites ==
    ASSUME ClaudeInv, NEW x \in FrameSet, Claude!Writes(x), x.k # "result",
           x.k = "text" /\ ClaudeUp(session) =>
                session.active # NoTurn /\ x.id[2] = session.active /\ native[session.active] = "working",
           UNCHANGED <<session, turn, stream, native, child, broken, ladder>>,
           NEW z \in CliSet, cli' = z, z.work = cli.work, z.interrupted = cli.interrupted
    PROVE  ClaudeInv'
<1>1. PICK g : g = Claude!g0 OBVIOUS
<1>2. /\ ClaudeGood(g, native) /\ g.s = session /\ g.t = turn /\ g.e = stream /\ g.c = cli
      /\ native \in [Turn -> NativeSet] /\ pipe \in Seq(FrameSet)
      /\ g \in ClaudeState
  BY <1>1, ClaudeFacts, ClaudeNow
<1>3. PICK h : h = [s |-> g.s, t |-> g.t, e |-> g.e, c |-> z] OBVIOUS
<1>4. h \in ClaudeState /\ h.s = g.s /\ h.t = g.t /\ h.e = g.e /\ h.c = z
  BY ONLY <1>2, <1>3, z \in CliSet DEF ClaudeState
<1>5. Claude!Become(h) BY <1>2, <1>4 DEF Claude!Become
<1>6. ClaudeGood(h, native)
  <2>1. /\ h.c.work = g.c.work /\ (h.c.interrupted => g.c.interrupted) /\ h.s.active = g.s.active
        /\ h.s.at = g.s.at /\ h.s.runtime = g.s.runtime /\ h.s.poisoned = g.s.poisoned
    BY <1>2, <1>4
  <2>2. \A u \in Turn : /\ g.t[u].cancel => h.t[u].cancel
                        /\ h.t[u].dispatched => u = g.s.active /\ h.t[u].cancel
                        /\ h.t[u].timer # "none" => u = g.s.active
    BY <1>2, <1>4 DEF ClaudeGood
  <2> QED BY ONLY <1>2, <1>4, <2>1, <2>2, ClaudeTouch
<1>7. child = "alive" /\ pipe' \in Seq(FrameSet) /\ (~broken => pipe' = Append(pipe, x))
  BY <1>2, ClaudeWritten
<1>8. ASSUME ClaudeUp(session) PROVE ~broken' /\ ClaudeCalm(h, native', pipe', child')
  <2>1. ~broken /\ ClaudeCalm(g, native, pipe, child) BY <1>1, <1>8 DEF ClaudeInv
  <2>2. x.k = "text" => g.s.active # NoTurn /\ x.id[2] = g.s.active /\ native[g.s.active] = "working"
    BY <1>2, <1>8
  <2>3. PICK d : d = pipe' OBVIOUS
  <2>4. d = Append(pipe, x) BY <1>7, <2>1, <2>3
  <2>5. ClaudeCalm(g, native, d, child)
    BY ONLY <1>2, <2>1, <2>2, <2>4, x \in FrameSet, x.k # "result", ClaudeWrites
  <2>6. ClaudeAlike(g, h) BY <1>2, <1>4 DEF ClaudeAlike
  <2>7. ClaudeCalm(h, native, d, child) BY <2>5, <2>6, ClaudeSame
  <2> QED BY <2>1, <2>3, <2>7
<1>9. ClaudeUp(h.s) => ~broken' /\ ClaudeCalm(h, native', pipe', child') BY <1>2, <1>4, <1>8
<1>10. ~h.s.runtime => child' # "alive" \/ ladder' = "gaveUp" BY <1>2, <1>4 DEF ClaudeInv
<1>11. ClaudeGood(h, native') /\ native' \in [Turn -> NativeSet] BY <1>2, <1>6
<1> QED BY <1>5, <1>7, <1>9, <1>10, <1>11, ClaudeSettles

\* What the CLI works on is the active turn, and it has nothing else.
LEMMA ClaudeWorks ==
    ASSUME ClaudeInv, cli.work # <<>>
    PROVE  /\ Head(cli.work) \in Turn /\ native[Head(cli.work)] = "working"
           /\ cli.interrupted => turn[Head(cli.work)].cancel \/ stream[Head(cli.work)].ends # <<>>
           /\ ClaudeUp(session) => session.active = Head(cli.work) /\ Tail(cli.work) = <<>>
<1>1. WorkOK(cli, native) /\ Interruption(cli, stream, turn) /\ cli \in CliSet
  BY ClaudeFacts, ClaudeNow DEF ClaudeGood
<1>2. cli.work \in Seq(Turn) BY <1>1 DEF CliSet
<1>3. /\ Tail(cli.work) \in Seq(Turn) /\ Len(cli.work) \in Nat /\ DOMAIN cli.work = 1..Len(cli.work)
      /\ DOMAIN Tail(cli.work) = 1..Len(cli.work) - 1
      /\ 1 \in DOMAIN cli.work /\ Head(cli.work) = cli.work[1] /\ cli.work[1] \in Turn
  BY <1>2, SeqTail
<1>4. native[Head(cli.work)] = "working" BY <1>1, <1>3 DEF WorkOK
<1>5. cli.interrupted => turn[Head(cli.work)].cancel \/ stream[Head(cli.work)].ends # <<>>
  BY <1>1 DEF Interruption
<1>6. ASSUME ClaudeUp(session) PROVE session.active = Head(cli.work) /\ Tail(cli.work) = <<>>
  <2>1. \A i \in DOMAIN cli.work : cli.work[i] = session.active
    BY <1>6, ClaudeNow DEF ClaudeInv, ClaudeCalm, ClaudeWork
  <2>2. \A i, j \in DOMAIN cli.work : i = j BY <1>1, <2>1 DEF WorkOK
  <2>3. Len(cli.work) = 1
    <3>1. Len(cli.work) >= 1 BY <1>3
    <3>2. Len(cli.work) \in DOMAIN cli.work BY <1>3, <3>1
    <3> QED BY <1>3, <2>2, <3>2
  <2>4. Tail(cli.work) = <<>> BY <1>2, <2>3, <1>3
  <2> QED BY <1>3, <2>1, <2>4
<1> QED BY <1>3, <1>4, <1>5, <1>6

\* A step of the CLI leaves the adapter as it is.
ClaudeStays == UNCHANGED <<session, turn, stream, child, broken, ladder>>

\* The CLI speaks of the Turn it works on.
LEMMA ClaudeCliSpeaks == ASSUME ClaudeInv, Claude!CliSpeaks, ClaudeStays PROVE ClaudeInv'
<1>1. PICK x : x = [k |-> "text", id |-> <<"prompt", Head(cli.work)>>, out |-> "none"] OBVIOUS
<1>2. cli.work # <<>> /\ Claude!Writes(x) /\ native' = native /\ cli' = [cli EXCEPT !.told = TRUE]
  BY <1>1, ClaudeNames DEF Claude!CliSpeaks
<1>3. /\ Head(cli.work) \in Turn /\ native[Head(cli.work)] = "working"
      /\ ClaudeUp(session) => session.active = Head(cli.work)
  BY <1>2, ClaudeWorks
<1>4. x \in FrameSet /\ x.k = "text" /\ x.id[2] = Head(cli.work)
  BY <1>1, <1>3 DEF FrameSet, Request, Subject, NativeSet
<1>5. PICK z : z = [cli EXCEPT !.told = TRUE] OBVIOUS
<1>6. z \in CliSet /\ z.work = cli.work /\ z.interrupted = cli.interrupted /\ cli' = z
  BY <1>2, <1>5, ClaudeFacts DEF CliSet
<1>7. NoTurn \notin Turn BY DEF Turn, NoTurn
<1>8. ClaudeUp(session) => session.active # NoTurn /\ x.id[2] = session.active /\ native[session.active] = "working"
  BY <1>3, <1>4, <1>7
<1>9. x.k # "result" /\ UNCHANGED <<session, turn, stream, native, child, broken, ladder>>
  BY <1>2, <1>4 DEF ClaudeStays
<1> QED BY ONLY ClaudeInv, <1>2, <1>4, <1>6, <1>8, <1>9, ClaudeCliWrites

\* The CLI answers what it was asked.
LEMMA ClaudeCliAnswers == ASSUME ClaudeInv, Claude!CliAnswers, ClaudeStays PROVE ClaudeInv'
<1>0. cli \in CliSet /\ native \in [Turn -> NativeSet] BY ClaudeFacts
<1>1. PICK r \in cli.asked, ok \in BOOLEAN :
        /\ Claude!Writes(Claude!Frame("answer", r, CASE ~ok -> "error"
                                                     [] ok /\ r[2] = Claude!NoTurn -> "ok"
                                                     [] OTHER -> native[r[2]]))
        /\ cli' = [cli EXCEPT !.asked = @ \ {r}]
        /\ native' = native
  BY DEF Claude!CliAnswers
<1>2. PICK o : o = CASE ~ok -> "error"
                     [] ok /\ r[2] = NoTurn -> "ok"
                     [] OTHER -> native[r[2]]
  OBVIOUS
<1>3. PICK x : x = [k |-> "answer", id |-> r, out |-> o] OBVIOUS
<1>4. Claude!Writes(x) BY <1>1, <1>2, <1>3, ClaudeNames
<1>5. r \in Request BY <1>0 DEF CliSet
<1>6. o \in NativeSet \cup {"ok", "error"}
  <2>1. CASE ~ok BY <1>2, <2>1
  <2>2. CASE ok /\ r[2] = NoTurn BY <1>2, <2>2
  <2>3. CASE ok /\ r[2] # NoTurn
    <3>1. r[2] \in Turn BY <1>5, <2>3 DEF Request, Subject
    <3>2. o = native[r[2]] BY <1>2, <2>3
    <3> QED BY <1>0, <3>1, <3>2
  <2> QED BY <2>1, <2>2, <2>3
<1>7. x \in FrameSet /\ x.k = "answer" BY <1>3, <1>5, <1>6 DEF FrameSet
<1>8. PICK z : z = [cli EXCEPT !.asked = @ \ {r}] OBVIOUS
<1>9. z \in CliSet /\ z.work = cli.work /\ z.interrupted = cli.interrupted /\ cli' = z
  BY <1>0, <1>1, <1>8 DEF CliSet
<1>10. x.k # "result" /\ x.k # "text" /\ UNCHANGED <<session, turn, stream, native, child, broken, ladder>>
  BY <1>1, <1>7 DEF ClaudeStays
<1> QED BY ONLY ClaudeInv, <1>4, <1>7, <1>9, <1>10, ClaudeCliWrites

\* What the CLI writes against the protocol
LEMMA ClaudeCliErrs ==
    ASSUME ClaudeInv, NEW x \in FrameSet, Claude!Writes(x), x.k \in {"ask", "garbage", "foreign"},
           UNCHANGED <<cli, native>>, ClaudeStays
    PROVE  ClaudeInv'
<1>1. PICK z : z = cli OBVIOUS
<1>2. z \in CliSet /\ z.work = cli.work /\ z.interrupted = cli.interrupted /\ cli' = z
  BY <1>1, ClaudeFacts
<1>3. x.k # "result" /\ x.k # "text" /\ UNCHANGED <<session, turn, stream, native, child, broken, ladder>>
  BY DEF ClaudeStays
<1> QED BY ONLY ClaudeInv, x \in FrameSet, Claude!Writes(x), <1>2, <1>3, ClaudeCliWrites

\* What the CLI asks or garbles is no result.
LEMMA ClaudeCliMisbehaves ==
    ASSUME ClaudeInv, Claude!CliAsks \/ Claude!CliGarbles \/ Claude!CliForeign, ClaudeStays PROVE ClaudeInv'
<1>0. cli.work # <<>> => Head(cli.work) \in Turn BY ClaudeWorks
<1>1. CASE Claude!CliAsks
  <2>1. PICK x : x = [k |-> "ask", id |-> <<"prompt", IF cli.work = <<>> THEN NoTurn ELSE Head(cli.work)>>, out |-> "none"]
    OBVIOUS
  <2>2. Claude!Writes(x) /\ UNCHANGED <<cli, native>> BY <1>1, <2>1, ClaudeNames DEF Claude!CliAsks
  <2>3. x \in FrameSet /\ x.k = "ask" BY <1>0, <2>1 DEF FrameSet, Request, Subject, NativeSet
  <2> QED BY <2>2, <2>3, ClaudeCliErrs
<1>2. CASE Claude!CliGarbles
  <2>1. PICK x : x = [k |-> "garbage", id |-> <<"none", NoTurn>>, out |-> "none"]
    OBVIOUS
  <2>2. Claude!Writes(x) /\ UNCHANGED <<cli, native>> BY <1>2, <2>1, ClaudeNames DEF Claude!CliGarbles
  <2>3. x \in FrameSet /\ x.k = "garbage" BY <2>1 DEF FrameSet, Request, Subject, NativeSet
  <2> QED BY <2>2, <2>3, ClaudeCliErrs
<1>3. CASE Claude!CliForeign
  <2>1. PICK x : x = [k |-> "foreign", id |-> <<"none", NoTurn>>, out |-> "none"]
    OBVIOUS
  <2>2. Claude!Writes(x) /\ UNCHANGED <<cli, native>> BY <1>3, <2>1, ClaudeNames DEF Claude!CliForeign
  <2>3. x \in FrameSet /\ x.k = "foreign" BY <2>1 DEF FrameSet, Request, Subject, NativeSet
  <2> QED BY <2>2, <2>3, ClaudeCliErrs
<1> QED BY <1>1, <1>2, <1>3

\* The CLI ends the Turn it works on, unless it owes the end of an interruption.
LEMMA ClaudeCliEnds ==
    ASSUME ClaudeInv, ~session.owes, NEW out \in Outcome, Claude!CliEnds(out), ClaudeStays PROVE ClaudeInv'
<1>1. PICK g : g = Claude!g0 OBVIOUS
<1>2. /\ ClaudeGood(g, native) /\ g.s = session /\ g.t = turn /\ g.e = stream /\ g.c = cli
      /\ native \in [Turn -> NativeSet] /\ pipe \in Seq(FrameSet)
      /\ g \in ClaudeState /\ cli \in CliSet /\ stream \in [Turn -> StreamSet]
  BY <1>1, ClaudeFacts, ClaudeNow
<1>3. PICK x : x = [k |-> "result", id |-> <<"prompt", Head(cli.work)>>, out |-> out] OBVIOUS
<1>4. /\ cli.work # <<>> /\ (out = "cancelled" => cli.interrupted) /\ Claude!Writes(x)
      /\ native' = [native EXCEPT ![Head(cli.work)] = out]
      /\ cli' = [cli EXCEPT !.work = Tail(@), !.interrupted = FALSE, !.told = FALSE,
                            !.ended = @ \cup {Head(cli.work)}]
  BY <1>3, ClaudeNames DEF Claude!CliEnds
<1>5. /\ Head(cli.work) \in Turn /\ native[Head(cli.work)] = "working"
      /\ cli.interrupted => turn[Head(cli.work)].cancel \/ stream[Head(cli.work)].ends # <<>>
      /\ ClaudeUp(session) => session.active = Head(cli.work) /\ Tail(cli.work) = <<>>
  BY <1>4, ClaudeWorks
<1>6. PICK a \in Turn : a = Head(cli.work) BY <1>5
<1>7. x \in FrameSet /\ x.k = "result" /\ x.id = <<"prompt", a>> /\ x.id[2] = a /\ x.out = out
  <2>1. out \in NativeSet BY DEF NativeSet
  <2> QED BY <1>3, <1>6, <2>1 DEF FrameSet, Request, Subject
<1>8. PICK m : m = [native EXCEPT ![a] = out] OBVIOUS
<1>9. m \in [Turn -> NativeSet] /\ StreamsOK(stream, m, turn, session.active) /\ native' = m
  <2>1. StreamsOK(stream, native, turn, session.active) BY <1>2 DEF ClaudeGood
  <2>2. out = "cancelled" => turn[a].cancel \/ stream[a].ends # <<>> BY <1>4, <1>5, <1>6
  <2>3. native[a] = "working" BY <1>5, <1>6
  <2>4. PICK b : b = session.active OBVIOUS
  <2>5. StreamsOK(stream, native, turn, b) BY <2>1, <2>4
  <2>6. m \in [Turn -> NativeSet] /\ StreamsOK(stream, m, turn, b)
    BY ONLY <1>2, <1>8, <2>2, <2>3, <2>5, a \in Turn, out \in Outcome, StreamsCli
  <2> QED BY <1>4, <1>6, <1>8, <2>4, <2>6
<1>10. PICK w : w = Tail(cli.work) OBVIOUS
<1>11. w \in Seq(Turn)
  <2>1. cli.work \in Seq(Turn) BY <1>2 DEF CliSet
  <2> QED BY <1>4, <1>10, <2>1, SeqTail
<1>12. PICK ee : ee = cli.ended \cup {a} OBVIOUS
<1>13. PICK z : z = cli' OBVIOUS
<1>14. z \in CliSet /\ z.work = w /\ ~z.interrupted
  <2>1. z = [cli EXCEPT !.work = w, !.interrupted = FALSE, !.told = FALSE, !.ended = ee]
    BY <1>4, <1>6, <1>10, <1>12, <1>13
  <2>2. ee \in SUBSET Turn BY <1>2, <1>12 DEF CliSet
  <2> QED BY ONLY <1>2, <1>11, <2>1, <2>2 DEF CliSet
<1>15. PICK h : h = [s |-> g.s, t |-> g.t, e |-> g.e, c |-> z] OBVIOUS
<1>16. h \in ClaudeState /\ h.s = g.s /\ h.t = g.t /\ h.e = g.e /\ h.c = z
  BY ONLY <1>2, <1>14, <1>15 DEF ClaudeState
<1>17. Claude!Become(h) BY <1>2, <1>13, <1>16 DEF Claude!Become, ClaudeStays
<1>18. WorkOK(z, m)
  <2>1. WorkOK(cli, native) BY <1>2 DEF ClaudeGood
  <2>2. \A u \in Turn \ {a} : m[u] = native[u] BY <1>2, <1>8
  <2>3. z.work = Tail(cli.work) BY <1>10, <1>14
  <2> QED BY ONLY <1>2, <1>4, <1>6, <2>1, <2>2, <2>3, WorkDone
<1>19. ClaudeGood(h, m)
  <2>1. Interruption(h.c, h.e, h.t) BY <1>14, <1>16 DEF Interruption
  <2> QED BY <1>2, <1>9, <1>16, <1>18, <2>1 DEF ClaudeGood
<1>20. child = "alive" /\ pipe' \in Seq(FrameSet) /\ (~broken => pipe' = Append(pipe, x))
  BY ONLY <1>2, <1>4, <1>7, ClaudeWritten
<1>21. ASSUME ClaudeUp(session) PROVE ~broken' /\ ClaudeCalm(h, native', pipe', child')
  <2>1. ~broken /\ ClaudeCalm(g, native, pipe, child) BY <1>1, <1>21 DEF ClaudeInv
  <2>2. PICK d : d = pipe' OBVIOUS
  <2>3. d = Append(pipe, x) BY <1>20, <2>1, <2>2
  <2>4. /\ g.s.active = a /\ native[a] = "working" /\ ~g.s.owes /\ m[a] = x.out
        /\ x.out \in Outcome /\ (x.out = "cancelled" => g.c.interrupted)
    BY <1>2, <1>4, <1>5, <1>6, <1>7, <1>8, <1>21
  <2>5. /\ h.s.active = a /\ h.s.awaiting = g.s.awaiting /\ h.s.owes = g.s.owes /\ h.s.stray = g.s.stray
        /\ h.t = g.t /\ h.c.work = <<>> /\ ~h.c.interrupted
    BY <1>5, <1>10, <1>14, <1>16, <1>21, <2>4
  <2>6. ClaudeCalm(h, m, d, child)
    BY ONLY <1>2, <1>7, <2>1, <2>3, <2>4, <2>5, a \in Turn, ClaudeEnds
  <2> QED BY <1>9, <2>1, <2>2, <2>6 DEF ClaudeStays
<1>22. ClaudeUp(h.s) => ~broken' /\ ClaudeCalm(h, native', pipe', child') BY <1>2, <1>16, <1>21
<1>23. ~h.s.runtime => child' # "alive" \/ ladder' = "gaveUp" BY <1>2, <1>16 DEF ClaudeInv, ClaudeStays
<1>24. ClaudeGood(h, native') /\ native' \in [Turn -> NativeSet] BY <1>9, <1>19
<1> QED BY <1>17, <1>20, <1>22, <1>23, <1>24, ClaudeSettles

\* No step at all keeps the invariant.
LEMMA ClaudeStutters == ASSUME ClaudeInv, UNCHANGED vars PROVE ClaudeInv'
<1>1. PICK g : g = Claude!g0 OBVIOUS
<1>2. ClaudeGood(g, native) /\ g.s = session BY <1>1, ClaudeFacts, ClaudeNow
<1>3. /\ UNCHANGED <<session, turn, stream, cli, native, pipe, broken, child, ladder>>
  BY DEF vars, processVars, cliVars
<1>4. Claude!Become(g) BY <1>1, <1>3, ClaudeNow DEF Claude!Become
<1>5. ClaudeAlike(g, g) BY DEF ClaudeAlike
<1> QED BY <1>1, <1>2, <1>3, <1>4, <1>5, ClaudeSettlesStill

\* The process goes its own way.
LEMMA ClaudeProcess ==
    ASSUME ClaudeInv, UNCHANGED <<session, turn, stream, cli, native, pipe, broken>>,
           child' = child \/ child' # "alive", ladder = "gaveUp" => ladder' = "gaveUp"
    PROVE  ClaudeInv'
<1>1. PICK g : g = Claude!g0 OBVIOUS
<1>2. ClaudeGood(g, native) /\ g.s = session BY <1>1, ClaudeFacts, ClaudeNow
<1>4. Claude!Become(g) BY <1>1, ClaudeNow DEF Claude!Become
<1>5. ClaudeAlike(g, g) BY DEF ClaudeAlike
<1> QED BY <1>1, <1>2, <1>4, <1>5, ClaudeSettlesStill

\* An interruption that finds nothing to interrupt is owed a result of its own.
LEMMA ClaudeCliAnswersIdle ==
    ASSUME ClaudeInv, Claude!CliAnswersIdle, UNCHANGED Claude!processVars PROVE ClaudeInv'
<1>1. PICK g : g = Claude!g0 OBVIOUS
<1>2. /\ ClaudeGood(g, native) /\ g.s = session /\ g.t = turn /\ g.e = stream /\ g.c = cli
      /\ native \in [Turn -> NativeSet] /\ pipe \in Seq(FrameSet)
      /\ g \in ClaudeState /\ session \in ClaudeSession
  BY <1>1, ClaudeFacts, ClaudeNow
<1>3. PICK x \in FrameSet : x = [k |-> "result", id |-> <<"prompt", NoTurn>>, out |-> "cancelled"]
  BY DEF FrameSet, Request, Subject, NativeSet, Outcome
<1>4. /\ session.owes /\ (Claude!Writes(x) \/ pipe' = pipe) /\ session' = [session EXCEPT !.owes = FALSE]
      /\ UNCHANGED <<cli, native, stream, turn, child, broken, ladder>>
  BY <1>3, ClaudeNames DEF Claude!CliAnswersIdle, Claude!processVars, Claude!cliVars
<1>5. PICK s : s = [session EXCEPT !.owes = FALSE] OBVIOUS
<1>6. /\ s \in ClaudeSession /\ s.active = session.active /\ s.at = session.at /\ s.runtime = session.runtime
      /\ s.poisoned = session.poisoned /\ s.awaiting = session.awaiting /\ s.stray = session.stray /\ ~s.owes
  BY <1>2, <1>5 DEF ClaudeSession
<1>7. PICK h : h = [s |-> s, t |-> g.t, e |-> g.e, c |-> g.c] OBVIOUS
<1>8. h \in ClaudeState /\ h.s = s /\ h.t = g.t /\ h.e = g.e /\ h.c = g.c
  BY ONLY <1>2, <1>6, <1>7 DEF ClaudeState
<1>9. Claude!Become(h) BY <1>2, <1>4, <1>5, <1>8 DEF Claude!Become
<1>10. ClaudeGood(h, native) BY ONLY <1>2, <1>6, <1>8 DEF ClaudeGood
<1>11. pipe' \in Seq(FrameSet) /\ (Claude!Writes(x) /\ ~broken => pipe' = Append(pipe, x))
  BY <1>2, <1>4, ClaudeWritten
<1>12. ASSUME ClaudeUp(session) PROVE ~broken' /\ ClaudeCalm(h, native', pipe', child')
  <2>1. ~broken /\ ClaudeCalm(g, native, pipe, child) BY <1>1, <1>12 DEF ClaudeInv
  <2>2. PICK d : d = pipe' OBVIOUS
  <2>3. /\ h.s.active = g.s.active /\ h.s.awaiting = g.s.awaiting /\ h.s.stray = g.s.stray /\ ~h.s.owes
        /\ h.t = g.t /\ h.c = g.c /\ g.s.owes
    BY <1>2, <1>4, <1>6, <1>8
  <2>4. CASE Claude!Writes(x)
    <3>1. d = Append(pipe, x) BY <1>11, <2>1, <2>2, <2>4
    <3>2. x.k = "result" /\ x.id = <<"prompt", NoTurn>> /\ x.out = "cancelled" BY <1>3
    <3>3. ClaudeCalm(h, native, d, child) BY ONLY <1>2, <2>1, <2>3, <3>1, <3>2, x \in FrameSet, ClaudeDenies
    <3> QED BY <1>4, <2>1, <2>2, <3>3
  <2>5. CASE pipe' = pipe
    <3>1. ClaudeCalm(h, native, pipe, child) BY ONLY <2>1, <2>3, ClaudeForgives
    <3> QED BY <1>4, <2>1, <2>5, <3>1
  <2> QED BY <1>4, <2>4, <2>5
<1>13. ClaudeUp(h.s) => ~broken' /\ ClaudeCalm(h, native', pipe', child') BY <1>6, <1>8, <1>12 DEF ClaudeUp
<1>14. ~h.s.runtime => child' # "alive" \/ ladder' = "gaveUp" BY <1>4, <1>6, <1>8 DEF ClaudeInv
<1>15. ClaudeGood(h, native') /\ native' \in [Turn -> NativeSet] BY <1>2, <1>4, <1>10
<1> QED BY <1>9, <1>11, <1>13, <1>14, <1>15, ClaudeSettles

\* Nothing the CLI or the operating system does breaks the invariant.
LEMMA ClaudeEnvironment == ASSUME ClaudeInv, Claude!Environment PROVE ClaudeInv'
<1>1. CASE Claude!CliAnswersIdle /\ UNCHANGED Claude!processVars BY <1>1, ClaudeCliAnswersIdle
<1>2. CASE /\ ~session.owes /\ UNCHANGED <<Claude!processVars, stream, session, turn>>
           /\ \/ Claude!CliSpeaks \/ Claude!CliAnswers \/ Claude!CliAsks \/ Claude!CliGarbles \/ Claude!CliForeign
              \/ \E out \in Claude!Outcome : Claude!CliEnds(out)
  <2>1. ClaudeStays BY <1>2 DEF Claude!processVars, ClaudeStays
  <2> QED BY <1>2, <2>1, ClaudeNames, ClaudeCliSpeaks, ClaudeCliAnswers, ClaudeCliMisbehaves, ClaudeCliEnds
<1>3. CASE Claude!ChildDies /\ UNCHANGED <<stream, session, turn>>
  <2>1. UNCHANGED <<session, turn, stream, cli, native, pipe, broken, ladder>> /\ child' # "alive"
    BY <1>3 DEF Claude!ChildDies
  <2> QED BY <2>1, ClaudeProcess
<1>4. CASE (Claude!Escalate \/ Claude!Finish) /\ UNCHANGED <<pipe, stream, Claude!cliVars, session, turn>>
  <2>1. /\ UNCHANGED <<session, turn, stream, cli, native, pipe, broken>> /\ (child' = child \/ child' # "alive")
        /\ ladder = "gaveUp" => ladder' = "gaveUp"
    BY <1>4 DEF Claude!Escalate, Claude!Finish, Claude!cliVars
  <2> QED BY <2>1, ClaudeProcess
<1> QED BY <1>1, <1>2, <1>3, <1>4 DEF Claude!Environment

\* Every step keeps the invariant of the Claude adapter.
LEMMA ClaudeNext == ASSUME BoundAssumption, ClaudeInv, Claude!Next PROVE ClaudeInv'
<1>1. CASE Claude!Requests
  <2>1. \A t \in Claude!Turn, aborted \in BOOLEAN : Claude!Prompt(t, aborted) => ClaudeInv'
    BY ClaudeNames, ClaudePrompt
  <2> QED BY <1>1, <2>1, ClaudeLaunch, ClaudeCancel, ClaudeClose DEF Claude!Requests
<1>2. CASE Claude!Reactions
  BY <1>2, ClaudeControlTimesOut, ClaudeLaunchFails, ClaudeLaunchThrows, ClaudeWriteFails, ClaudeTimerFires,
     ClaudeStrayWindowEnds, ClaudeTearsDown, ClaudeShutdownCloses, ClaudeShutdownEnds, ClaudeReadFrame,
     ClaudeHandleExit DEF Claude!Reactions
<1>3. CASE Claude!Environment BY <1>3, ClaudeEnvironment
<1> QED BY <1>1, <1>2, <1>3 DEF Claude!Next

\* The invariant gives the Claude adapter's half of both properties.
LEMMA ClaudeSafe ==
    ASSUME ClaudeInv
    PROVE  /\ NoOrphan /\ StreamsOK(stream, native, turn, session.active)
           /\ stream \in [Turn -> StreamSet]
BY ClaudeFacts, ClaudeNow DEF ClaudeInv, ClaudeGood, NoOrphan

----------------------------------------------------------------------------
(* The three of them                                                         *)

\* And so does no step at all.
LEMMA AcpStutters == ASSUME AcpInv, UNCHANGED vars PROVE AcpInv'
<1>1. UNCHANGED <<stream, session, turn, client, pending, child, ladder, native, pipe, cli>>
  BY DEF vars, processVars, cliVars, rpcVars
<1>2. Acp!Become(Acp!g0) BY <1>1, AcpNow DEF Acp!Become
<1>3. pending' \subseteq Request BY <1>1 DEF AcpInv
<1> QED BY <1>1, <1>2, <1>3, AcpAlikeItself, AcpSettlesAlike

\* A stream has had at most one end.
LEMMA OneEnd == ASSUME NEW x \in EndSet PROVE Len(x) <= 1
<1>1. CASE x = <<>>
  <2>1. Len(x) = 0 BY <1>1, EmptySeq
  <2> QED BY <2>1
<1>2. CASE \E o : x = <<o>>
  <2>1. PICK o : x = <<o>> BY <1>2
  <2>2. Len(<<o>>) = 1 OBVIOUS
  <2>3. Len(x) = 1 BY <2>1, <2>2
  <2> QED BY <2>3
<1> QED BY <1>1, <1>2 DEF EndSet

\* What every adapter keeps of its streams is the promise made to the broker.
LEMMA StreamsAreOwn ==
    ASSUME stream \in [Turn -> StreamSet], StreamsOK(stream, native, turn, session.active)
    PROVE  OneOwnOutcome
<1>1. \A t \in Turn : Len(stream[t].ends) <= 1 BY OneEnd DEF StreamSet
<1> QED BY <1>1 DEF OneOwnOutcome, StreamsOK

\* What holds of the adapter in use.
AgentInvariant ==
    /\ kind \in {"acp", "codex", "claude"}
    /\ kind = "acp" => AcpInv
    /\ kind = "codex" => CodexInv
    /\ kind = "claude" => ClaudeInv

\* The invariant holds at the start.
LEMMA AgentInit == ASSUME BoundAssumption, Init PROVE AgentInvariant
<1>1. CASE kind = "acp" /\ Acp!Init
  <2>1. AcpInv BY ONLY BoundAssumption, <1>1, AcpInit
  <2> QED BY ONLY <1>1, <2>1 DEF AgentInvariant
<1>2. CASE kind = "codex" /\ Codex!Init
  <2>1. CodexInv BY ONLY BoundAssumption, <1>2, CodexInit
  <2> QED BY ONLY <1>2, <2>1 DEF AgentInvariant
<1>3. CASE kind = "claude" /\ Claude!Init /\ RpcInit
  <2>1. ClaudeInv BY ONLY BoundAssumption, <1>3, ClaudeInit
  <2> QED BY ONLY <1>3, <2>1 DEF AgentInvariant
<1> QED BY ONLY Init, <1>1, <1>2, <1>3 DEF Init

\* Every step keeps it: no step changes the kind of the agent.
LEMMA AgentStep == ASSUME BoundAssumption, AgentInvariant, [Next]_vars PROVE AgentInvariant'
<1>k. kind' = kind BY DEF Next, vars
<1>1. CASE kind = "acp"
  <2>1. AcpInv BY ONLY AgentInvariant, <1>1 DEF AgentInvariant
  <2>2. Acp!Next \/ UNCHANGED vars BY ONLY [Next]_vars, <1>1 DEF Next
  <2>3. AcpInv' BY ONLY <2>1, <2>2, AcpNext, AcpStutters
  <2> QED BY ONLY <1>k, <1>1, <2>3 DEF AgentInvariant
<1>2. CASE kind = "codex"
  <2>1. CodexInv BY ONLY AgentInvariant, <1>2 DEF AgentInvariant
  <2>2. Codex!Next \/ UNCHANGED vars BY ONLY [Next]_vars, <1>2 DEF Next
  <2>3. CodexInv' BY ONLY <2>1, <2>2, CodexNext, CodexStutters
  <2> QED BY ONLY <1>k, <1>2, <2>3 DEF AgentInvariant
<1>3. CASE kind = "claude"
  <2>1. ClaudeInv BY ONLY AgentInvariant, <1>3 DEF AgentInvariant
  <2>2. Claude!Next \/ UNCHANGED vars BY ONLY [Next]_vars, <1>3 DEF Next
  <2>3. ClaudeInv' BY ONLY BoundAssumption, <2>1, <2>2, ClaudeNext, ClaudeStutters
  <2> QED BY ONLY <1>k, <1>3, <2>3 DEF AgentInvariant
<1> QED BY ONLY AgentInvariant, <1>1, <1>2, <1>3 DEF AgentInvariant

\* The inductive invariant: each kind of agent keeps that of its adapter.
THEOREM AgentInvariantHolds == Spec => []AgentInvariant
BY BoundAssumption, AgentInit, AgentStep, PTL DEF Spec

\* The invariant gives both properties.
LEMMA AgentSafe == ASSUME AgentInvariant PROVE OneOwnOutcome /\ NoOrphan
<1>1. CASE kind = "acp"
  <2>1. AcpInv BY ONLY AgentInvariant, <1>1 DEF AgentInvariant
  <2> QED BY ONLY <2>1, AcpSafe
<1>2. CASE kind = "codex"
  <2>1. CodexInv BY ONLY AgentInvariant, <1>2 DEF AgentInvariant
  <2> QED BY ONLY <2>1, CodexSafe, StreamsAreOwn
<1>3. CASE kind = "claude"
  <2>1. ClaudeInv BY ONLY AgentInvariant, <1>3 DEF AgentInvariant
  <2> QED BY ONLY <2>1, ClaudeSafe, StreamsAreOwn
<1> QED BY ONLY AgentInvariant, <1>1, <1>2, <1>3 DEF AgentInvariant

\* A prompt to a native agent gets one outcome and it is its own, whatever the
\* CLI answers, repeats, garbles or leaves unanswered and whoever cancels,
\* interrupts or closes meanwhile (#failTurn, #emitTerminal and the retired
\* turns of the three adapters).
THEOREM OneOwnOutcomeHolds == Spec => []OneOwnOutcome
BY AgentInvariantHolds, AgentSafe, PTL

\* An adapter that is ready to launch the next session has no CLI left alive
\* but one that could not be killed (NativeProcess.close and its ladder of
\* signals, awaited by the adapters before they let go of the runtime).
THEOREM NoOrphanHolds == Spec => []NoOrphan
BY AgentInvariantHolds, AgentSafe, PTL

==============================================================================
