------------------------------ MODULE AcpProofs ------------------------------
(****************************************************************************)
(* What is known of a native agent's streams and frames, whichever adapter  *)
(* reads them, and the inductive invariant of the ACP adapter: a prompt that*)
(* the CLI works on is owed an answer by the only session/prompt in flight, *)
(* so what the CLI says can be about no other.                              *)
(****************************************************************************)
EXTENDS NativeAgents, SequenceTheorems, TLAPS

----------------------------------------------------------------------------
(* Streams, frames and what is said of them                                  *)

\* The types of what the adapters keep: a Turn or none, streams, what the CLI
\* has done of a Turn, requests, the CLI and its frames.
Subject == Turn \cup {NoTurn}
EndSet == {<<>>} \cup {<<o>> : o \in Outcome \cup {"past"}}
StreamSet == [open : BOOLEAN, ends : EndSet, text : SUBSET Turn]
NativeSet == Outcome \cup {"none", "working", "past"}
Request == {"initialize", "open", "configure", "close", "requirements", "mode", "prompt", "start",
            "interrupt", "none"} \X Subject
CliSet == [work : Seq(Turn), interrupted : BOOLEAN, asked : SUBSET Request, told : BOOLEAN,
           ended : SUBSET Turn]
FrameSet == [k : {"text", "result", "answer", "ask", "garbage", "foreign"}, id : Request,
             out : NativeSet \cup {"ok", "error"}]

\* What every adapter keeps of its streams e, given what the CLI did (n), the
\* cancels (t) and the active turn: the active one is open and an open one has
\* no end; text is the turn's own; completed says that the CLI completed,
\* cancelled that it was asked to; and a turn starts only when the ones before
\* it have ended.
StreamsOK(e, n, t, active) ==
    /\ active # NoTurn => e[active].open
    /\ \A u \in Turn :
        /\ e[u].open => e[u].ends = <<>>
        /\ e[u].text \subseteq {u}
        /\ e[u].ends = <<"completed">> => n[u] = "completed"
        /\ e[u].ends = <<"cancelled">> => t[u].cancel
        /\ n[u] # "none" => e[u] # NoStream
        /\ n[u] = "past" => e[u].ends # <<>>
        /\ n[u] = "cancelled" => t[u].cancel \/ e[u].ends # <<>>
        /\ \A v \in Turn : u < v /\ e[v] # NoStream => e[u].ends # <<>>

\* Appending to the empty sequence gives the sequence of that one element.
LEMMA AppendFirst == ASSUME NEW o PROVE Append(<<>>, o) = <<o>>
<1>1. <<>> \in Seq({o}) /\ Len(<<>>) = 0 BY EmptySeq
<1>2. /\ Append(<<>>, o) \in Seq({o}) /\ Len(Append(<<>>, o)) = 1
      /\ Append(<<>>, o)[1] = o
  BY <1>1, AppendProperties
<1>3. <<o>> \in Seq({o}) /\ Len(<<o>>) = 1 /\ <<o>>[1] = o OBVIOUS
<1> QED BY <1>2, <1>3, SeqEqual

\* Ended closes an open stream with its one outcome, and leaves one that has ended, and
\* every other, as it was.
LEMMA EndedOnce ==
    ASSUME NEW e \in [Turn -> StreamSet], NEW t \in Turn, NEW o \in Outcome,
           e[t].open => e[t].ends = <<>>
    PROVE  /\ Ended(e, t, o) \in [Turn -> StreamSet]
           /\ \A u \in Turn \ {t} : Ended(e, t, o)[u] = e[u]
           /\ IF e[t].open THEN /\ ~Ended(e, t, o)[t].open /\ Ended(e, t, o)[t].ends = <<o>>
                                /\ Ended(e, t, o)[t].text = e[t].text
              ELSE Ended(e, t, o)[t] = e[t]
<1>1. CASE ~e[t].open
  BY <1>1 DEF Ended
<1>2. CASE e[t].open
  <2>1. Append(e[t].ends, o) = <<o>> BY <1>2, AppendFirst
  <2>2. <<o>> \in EndSet BY DEF EndSet
  <2>3. Ended(e, t, o) = [e EXCEPT ![t] = [open |-> FALSE, ends |-> <<o>>, text |-> e[t].text]]
    BY <1>2, <2>1 DEF Ended
  <2> QED BY <1>2, <2>2, <2>3 DEF StreamSet
<1> QED BY <1>1, <1>2

\* What is said of the streams holds after one of them has ended.
LEMMA StreamsEnd ==
    ASSUME NEW e \in [Turn -> StreamSet], NEW n, NEW c, NEW a \in Subject, StreamsOK(e, n, c, a),
           NEW t \in Turn, NEW o \in Outcome,
           o = "completed" => n[t] = "completed", o = "cancelled" => c[t].cancel
    PROVE  /\ Ended(e, t, o) \in [Turn -> StreamSet]
           /\ StreamsOK(Ended(e, t, o), n, c, IF a = t THEN NoTurn ELSE a)
           /\ ~Ended(e, t, o)[t].open
           /\ \A u \in Turn : e[u].ends # <<>> => Ended(e, t, o)[u].ends # <<>>
           /\ e[t].open => Ended(e, t, o)[t].ends # <<>>
<1> DEFINE d == Ended(e, t, o)
<1>1. /\ d \in [Turn -> StreamSet]
      /\ \A u \in Turn \ {t} : d[u] = e[u]
      /\ IF e[t].open THEN ~d[t].open /\ d[t].ends = <<o>> /\ d[t].text = e[t].text
         ELSE d[t] = e[t]
  BY EndedOnce DEF StreamsOK
<1>2. /\ <<o>> # <<>> /\ (<<o>> = <<"completed">> => o = "completed")
      /\ (<<o>> = <<"cancelled">> => o = "cancelled")
  OBVIOUS
<1>3. /\ ~d[t].open
      /\ \A u \in Turn : e[u].ends # <<>> => d[u].ends # <<>>
      /\ e[t].open => d[t].ends # <<>>
      /\ \A u \in Turn : d[u] # e[u] => u = t /\ e[t].open /\ d[t].ends = <<o>>
      /\ d[t] # NoStream \/ d[t] = e[t]
  BY <1>1, <1>2 DEF StreamsOK, NoStream
<1> HIDE DEF d
<1>4. \A u \in Turn :
        /\ d[u].open => d[u].ends = <<>>
        /\ d[u].text \subseteq {u}
        /\ d[u].ends = <<"completed">> => n[u] = "completed"
        /\ d[u].ends = <<"cancelled">> => c[u].cancel
  BY <1>1, <1>2, <1>3 DEF StreamsOK
<1>5. \A u \in Turn :
        /\ n[u] # "none" => d[u] # NoStream
        /\ n[u] = "past" => d[u].ends # <<>>
        /\ n[u] = "cancelled" => c[u].cancel \/ d[u].ends # <<>>
  BY <1>1, <1>3 DEF StreamsOK
<1>6. \A u, v \in Turn : u < v /\ d[v] # NoStream => d[u].ends # <<>>
  <2> SUFFICES ASSUME NEW u \in Turn, NEW v \in Turn, u < v, d[v] # NoStream PROVE d[u].ends # <<>>
    OBVIOUS
  <2>1. e[v] # NoStream BY <1>1, <1>3 DEF StreamsOK, NoStream
  <2> QED BY <2>1, <1>3 DEF StreamsOK
<1>7. (IF a = t THEN NoTurn ELSE a) # NoTurn => d[IF a = t THEN NoTurn ELSE a].open
  BY <1>1 DEF StreamsOK, Subject
<1>8. StreamsOK(d, n, c, IF a = t THEN NoTurn ELSE a)
  BY <1>4, <1>5, <1>6, <1>7 DEF StreamsOK
<1> QED BY <1>1, <1>3, <1>8 DEF d

\* The streams do not mind what else is known of the turns, if none is less cancelled.
LEMMA StreamsTurn ==
    ASSUME NEW e, NEW n, NEW c, NEW b, NEW a, StreamsOK(e, n, c, a),
           \A u \in Turn : c[u].cancel => b[u].cancel
    PROVE  StreamsOK(e, n, b, a)
BY DEF StreamsOK

\* A turn is told what is its own.
LEMMA StreamsText ==
    ASSUME NEW e \in [Turn -> StreamSet], NEW n, NEW c, NEW a \in Subject, StreamsOK(e, n, c, a),
           NEW t \in Turn, e[t].open
    PROVE  /\ [e EXCEPT ![t].text = @ \cup {t}] \in [Turn -> StreamSet]
           /\ StreamsOK([e EXCEPT ![t].text = @ \cup {t}], n, c, a)
           /\ \A u \in Turn : [e EXCEPT ![t].text = @ \cup {t}][u].ends = e[u].ends
           /\ \A u \in Turn : [e EXCEPT ![t].text = @ \cup {t}][u].open = e[u].open
<1> DEFINE d == [e EXCEPT ![t].text = @ \cup {t}]
<1>1. /\ d \in [Turn -> StreamSet]
      /\ \A u \in Turn : d[u].ends = e[u].ends /\ d[u].open = e[u].open
      /\ \A u \in Turn \ {t} : d[u] = e[u]
      /\ d[t].text = e[t].text \cup {t}
  BY DEF StreamSet
<1>2. d[t] # NoStream /\ e[t] # NoStream BY <1>1 DEF NoStream
<1> HIDE DEF d
<1>3. \A u \in Turn : d[u].text \subseteq {u} BY <1>1 DEF StreamsOK
<1>4. \A u \in Turn : (d[u] # NoStream) <=> (e[u] # NoStream) BY <1>1, <1>2
<1>5. a # NoTurn => d[a].open
  BY <1>1 DEF StreamsOK, Subject
<1>6. StreamsOK(d, n, c, a) BY <1>1, <1>3, <1>4, <1>5 DEF StreamsOK
<1> QED BY <1>1, <1>6 DEF d

\* A prompt is made: those before it are forgotten, and none has been made after it.
LEMMA StreamsOpen ==
    ASSUME stream \in [Turn -> StreamSet], native \in [Turn -> NativeSet], NEW a,
           StreamsOK(stream, native, turn, a), NEW t \in Turn, CanPrompt(t), NEW sends \in BOOLEAN
    PROVE  /\ Open(t) \in [Turn -> StreamSet] /\ Delivered(t, sends) \in [Turn -> NativeSet]
           /\ \A c : StreamsOK(Open(t), Delivered(t, sends), c, t)
           /\ \A u \in Turn : stream[u].ends # <<>> => Open(t)[u].ends # <<>>
           /\ \A u \in Turn : ~stream[u].open
           /\ Open(t)[t].open /\ Open(t)[t].ends = <<>>
           /\ Delivered(t, sends)[t] = IF sends /\ child = "alive" THEN "working" ELSE "none"
           /\ native[t] = "none" /\ stream[t].ends = <<>>
           /\ \A u \in Turn \ {t} :
                \/ Delivered(t, sends)[u] = native[u]
                \/ native[u] \in Outcome /\ Delivered(t, sends)[u] = "past"
<1> DEFINE d == Open(t)
           m == Delivered(t, sends)
           k == IF sends /\ child = "alive" THEN [native EXCEPT ![t] = "working"] ELSE native
<1>t. Turn \subseteq Nat BY DEF Turn
<1>1. \A u \in Turn : t < u => stream[u] = NoStream
  BY <1>t DEF StreamsOK, CanPrompt, NoStream
<1>2. /\ native[t] = "none" /\ stream[t] = NoStream /\ stream[t].ends = <<>>
      /\ \A u \in Turn : ~stream[u].open /\ (u < t => stream[u].ends # <<>>)
  BY DEF CanPrompt, NoStream
<1>3. Past \in StreamSet /\ <<"past">> # <<>> BY DEF Past, StreamSet, EndSet
<1>4. /\ d \in [Turn -> StreamSet]
      /\ \A u \in Turn : u < t => d[u] = Past
      /\ d[t] = [NoStream EXCEPT !.open = TRUE]
      /\ \A u \in Turn : t < u => d[u] = [stream[u] EXCEPT !.open = FALSE]
  <2>1. \A u \in Turn : IF u < t THEN d[u] = Past ELSE d[u] = [stream[u] EXCEPT !.open = u = t]
    BY DEF Open
  <2>2. \A u \in Turn : [stream[u] EXCEPT !.open = u = t] \in StreamSet
    <3>1. ASSUME NEW x \in StreamSet, NEW b \in BOOLEAN PROVE [x EXCEPT !.open = b] \in StreamSet
      BY ONLY x \in StreamSet, b \in BOOLEAN DEF StreamSet
    <3> QED BY ONLY <3>1, stream \in [Turn -> StreamSet]
  <2>3. DOMAIN d = Turn /\ d = [u \in Turn |-> d[u]] BY DEF Open
  <2>4. \A u \in Turn : d[u] \in StreamSet BY <2>1, <2>2, <1>3
  <2>5. ~(t < t) /\ \A u \in Turn : t < u => ~(u < t) /\ u # t BY <1>t
  <2>6. d[t] = [NoStream EXCEPT !.open = TRUE] BY <2>1, <2>5, <1>2
  <2>7. \A u \in Turn : t < u => d[u] = [stream[u] EXCEPT !.open = FALSE] BY <2>1, <2>5
  <2>8. d \in [Turn -> StreamSet] BY <2>3, <2>4
  <2> QED BY <2>1, <2>6, <2>7, <2>8
<1>5. /\ d[t].open /\ d[t].ends = <<>> /\ d[t].text = {} /\ d[t] # NoStream
      /\ \A u \in Turn : t < u => d[u] = NoStream /\ ~d[u].open /\ d[u].ends = <<>> /\ d[u].text = {}
      /\ \A u \in Turn : u < t => ~d[u].open /\ d[u].ends = <<"past">> /\ d[u].text = {} /\ d[u] # NoStream
  <2>0. NoStream \in StreamSet /\ NoStream.open = FALSE BY DEF NoStream, StreamSet, EndSet
  <2>1. [NoStream EXCEPT !.open = FALSE] = NoStream BY <2>0 DEF StreamSet
  <2>2. \A u \in Turn : t < u => d[u] = NoStream BY <1>1, <1>4, <2>1
  <2>3. /\ [NoStream EXCEPT !.open = TRUE].open /\ [NoStream EXCEPT !.open = TRUE].ends = <<>>
        /\ [NoStream EXCEPT !.open = TRUE].text = {} /\ ~NoStream.open
        /\ NoStream.ends = <<>> /\ NoStream.text = {}
    BY DEF NoStream
  <2>4. ~Past.open /\ Past.ends = <<"past">> /\ Past.text = {} BY DEF Past
  <2>5. Past # NoStream BY <1>3, <2>3, <2>4
  <2> HIDE DEF d
  <2> QED BY <1>4, <2>2, <2>3, <2>4, <2>5
<1>6. k \in [Turn -> NativeSet] /\ \A u \in Turn \ {t} : k[u] = native[u]
  BY DEF NativeSet
<1>k. k[t] = IF sends /\ child = "alive" THEN "working" ELSE "none" BY <1>2
<1>7. m = Forgotten(k, t) BY DEF Delivered
<1> HIDE DEF d, k, m
<1>8. /\ m \in [Turn -> NativeSet]
      /\ \A u \in Turn : m[u] = IF u < t /\ k[u] \in Outcome THEN "past" ELSE k[u]
  BY <1>6, <1>7 DEF Forgotten, NativeSet
<1>9. /\ m[t] = k[t]
      /\ \A u \in Turn : t < u => m[u] = "none"
      /\ \A u \in Turn : u < t => m[u] \notin Outcome
      /\ \A u \in Turn \ {t} : m[u] = native[u] \/ (native[u] \in Outcome /\ m[u] = "past")
  <2>1. \A u \in Turn : t < u => native[u] = "none" /\ ~(u < t) /\ u # t
    BY <1>t, <1>1 DEF StreamsOK
  <2>2. ~(t < t) /\ "past" \notin Outcome /\ "none" \notin Outcome BY <1>t DEF Outcome
  <2>3. m[t] = k[t] BY <1>8, <2>2
  <2>4. \A u \in Turn : t < u => m[u] = "none" BY <1>6, <1>8, <2>1
  <2>5. \A u \in Turn : u < t => m[u] \notin Outcome BY <1>8, <2>2
  <2>6. \A u \in Turn \ {t} : m[u] = native[u] \/ (native[u] \in Outcome /\ m[u] = "past")
    BY <1>6, <1>8
  <2> QED BY <2>3, <2>4, <2>5, <2>6
<1>10. \A u \in Turn : u = t \/ u < t \/ t < u BY <1>t
<1>11. ASSUME NEW c PROVE StreamsOK(d, m, c, t)
  <2>1. ASSUME NEW u \in Turn
        PROVE  /\ d[u].open => d[u].ends = <<>>
               /\ d[u].text \subseteq {u}
               /\ d[u].ends = <<"completed">> => m[u] = "completed"
               /\ d[u].ends = <<"cancelled">> => c[u].cancel
               /\ m[u] # "none" => d[u] # NoStream
               /\ m[u] = "past" => d[u].ends # <<>>
               /\ m[u] = "cancelled" => c[u].cancel \/ d[u].ends # <<>>
    <3>1. CASE u = t BY <3>1, <1>5, <1>9, <1>k
    <3>2. CASE u < t
      <4>1. <<"past">> # <<>> /\ <<"past">> # <<"completed">> /\ <<"past">> # <<"cancelled">>
        OBVIOUS
      <4> QED BY <3>2, <4>1, <1>5, <1>9 DEF Outcome
    <3>3. CASE t < u
      <4>1. /\ d[u] = NoStream /\ ~d[u].open /\ d[u].ends = <<>> /\ d[u].text = {}
            /\ m[u] = "none"
        BY ONLY <3>3, u \in Turn, <1>5, <1>9
      <4>2. d[u].ends # <<"completed">> /\ d[u].ends # <<"cancelled">>
        <5>1. <<>> # <<"completed">> /\ <<>> # <<"cancelled">> OBVIOUS
        <5> QED BY ONLY <4>1, <5>1
      <4> QED BY ONLY <4>1, <4>2
    <3> QED BY <3>1, <3>2, <3>3, <1>10
  <2>2. \A u, v \in Turn : u < v /\ d[v] # NoStream => d[u].ends # <<>>
    <3> SUFFICES ASSUME NEW u \in Turn, NEW v \in Turn, u < v, d[v] # NoStream PROVE d[u].ends # <<>>
      OBVIOUS
    <3>1. ~(t < v) BY <1>5
    <3>2. u < t BY <3>1, <1>t
    <3> QED BY <3>2, <1>5
  <2> QED BY <2>1, <2>2, <1>5 DEF StreamsOK
<1>12. \A u \in Turn : stream[u].ends # <<>> => d[u].ends # <<>>
  <2> SUFFICES ASSUME NEW u \in Turn, stream[u].ends # <<>> PROVE d[u].ends # <<>>
    OBVIOUS
  <2>1. u # t BY <1>2
  <2>2. ~(t < u) BY <1>1 DEF NoStream
  <2> QED BY <2>1, <2>2, <1>10, <1>5
<1> QED BY <1>2, <1>4, <1>5, <1>8, <1>9, <1>11, <1>12, <1>k DEF d, m

\* The CLI ends a turn: a cancelled one was to be cancelled, or is over anyway.
LEMMA StreamsCli ==
    ASSUME NEW e \in [Turn -> StreamSet], NEW n \in [Turn -> NativeSet], NEW c, NEW a, StreamsOK(e, n, c, a),
           NEW w \in Turn, n[w] = "working", NEW out \in Outcome,
           out = "cancelled" => c[w].cancel \/ e[w].ends # <<>>
    PROVE  /\ [n EXCEPT ![w] = out] \in [Turn -> NativeSet]
           /\ StreamsOK(e, [n EXCEPT ![w] = out], c, a)
<1> DEFINE m == [n EXCEPT ![w] = out]
<1>1. /\ m \in [Turn -> NativeSet] /\ m[w] = out /\ \A u \in Turn \ {w} : m[u] = n[u]
      /\ out # "none" /\ out # "past"
  BY DEF NativeSet, Outcome
<1> HIDE DEF m
<1>2. StreamsOK(e, m, c, a) BY <1>1 DEF StreamsOK
<1> QED BY <1>1, <1>2 DEF m

\* What is left in a pipe when its first frame has been read.
LEMMA SeqTail ==
    ASSUME NEW S, NEW f \in Seq(S), f # <<>>
    PROVE  /\ Tail(f) \in Seq(S) /\ Len(f) \in Nat /\ Len(f) >= 1 /\ DOMAIN f = 1..Len(f)
           /\ DOMAIN Tail(f) = 1..Len(f) - 1
           /\ 1 \in DOMAIN f /\ Head(f) = f[1] /\ f[1] \in S
           /\ \A i \in DOMAIN Tail(f) : i + 1 \in DOMAIN f /\ Tail(f)[i] = f[i + 1]
           /\ \A i \in DOMAIN f : i # 1 => i - 1 \in DOMAIN Tail(f) /\ f[i] = Tail(f)[i - 1]
<1>1. /\ Tail(f) \in Seq(S) /\ Len(Tail(f)) = Len(f) - 1
      /\ \A i \in 1..Len(Tail(f)) : Tail(f)[i] = f[i + 1]
  BY HeadTailProperties
<1>2. Len(f) \in Nat /\ Len(f) # 0 /\ DOMAIN f = 1..Len(f) BY LenProperties, EmptySeq
<1>3. DOMAIN Tail(f) = 1..Len(f) - 1 BY <1>1, LenProperties
<1>4. 1 \in DOMAIN f /\ f[1] \in S /\ Len(f) >= 1 BY <1>2
<1>5. Head(f) = f[1] OBVIOUS
<1>6. \A i \in DOMAIN Tail(f) : i + 1 \in DOMAIN f /\ Tail(f)[i] = f[i + 1] BY <1>1, <1>2, <1>3
<1>7. \A i \in DOMAIN f : i # 1 => i - 1 \in DOMAIN Tail(f) /\ f[i] = Tail(f)[i - 1]
  <2> SUFFICES ASSUME NEW i \in DOMAIN f, i # 1 PROVE i - 1 \in DOMAIN Tail(f) /\ f[i] = Tail(f)[i - 1]
    OBVIOUS
  <2>1. i \in Nat /\ i > 1 /\ i <= Len(f) BY <1>2
  <2>2. i - 1 \in DOMAIN Tail(f) /\ (i - 1) + 1 = i BY <2>1, <1>2, <1>3
  <2>3. Tail(f)[i - 1] = f[(i - 1) + 1] BY <2>2, <1>6
  <2> QED BY <2>2, <2>3
<1> QED BY <1>1, <1>2, <1>3, <1>4, <1>5, <1>6, <1>7

\* What is in a pipe when a frame has been written.
LEMMA SeqAppend ==
    ASSUME NEW S, NEW f \in Seq(S), NEW x \in S
    PROVE  /\ Append(f, x) \in Seq(S) /\ Len(f) \in Nat /\ DOMAIN f = 1..Len(f)
           /\ DOMAIN Append(f, x) = 1..Len(f) + 1 /\ Append(f, x)[Len(f) + 1] = x
           /\ \A i \in DOMAIN Append(f, x) :
                \/ i \in DOMAIN f /\ Append(f, x)[i] = f[i]
                \/ i = Len(f) + 1 /\ i \notin DOMAIN f /\ Append(f, x)[i] = x
           /\ \A i \in DOMAIN f : i \in DOMAIN Append(f, x) /\ Append(f, x)[i] = f[i] /\ i < Len(f) + 1
<1>1. /\ Append(f, x) \in Seq(S) /\ Len(Append(f, x)) = Len(f) + 1
      /\ \A i \in 1..Len(f) : Append(f, x)[i] = f[i]
      /\ Append(f, x)[Len(f) + 1] = x
  BY AppendProperties
<1>2. Len(f) \in Nat /\ DOMAIN f = 1..Len(f) BY LenProperties
<1>3. DOMAIN Append(f, x) = 1..Len(f) + 1 BY <1>1, LenProperties
<1> QED BY <1>1, <1>2, <1>3

----------------------------------------------------------------------------
(* The ACP adapter                                                           *)

\* What the CLI works on is unfinished, and each turn is there once.
WorkOK(c, n) ==
    /\ \A i \in DOMAIN c.work : n[c.work[i]] = "working"
    /\ \A i, j \in DOMAIN c.work : i # j => c.work[i] # c.work[j]

\* The CLI is interrupted only at work that was to be cancelled, or that has
\* ended for the broker.
Interruption(c, e, t) ==
    c.interrupted => c.work # <<>> /\ (t[Head(c.work)].cancel \/ e[Head(c.work)].ends # <<>>)

\* The frames that say something of a turn.
Speaks(f) == f.k \in {"text", "result"}
\* Nothing more will be said of any turn.
Silent(c, f) == c.work = <<>> /\ \A i \in DOMAIN f : ~Speaks(f[i])

----------------------------------------------------------------
\* The types of the adapter's state.
AcpSession == [at : {"none", "initialize", "open", "configure", "ready", "failing", "closing"},
               runtime : BOOLEAN, closing : BOOLEAN, fatal : BOOLEAN, fatalSent : BOOLEAN,
               active : Subject, closer : {"none", "settle", "native", "client"},
               timers : SUBSET (({"settle", "cancel"} \X Turn) \cup {<<"fatal", NoTurn>>})]
AcpTurn == [cancel : BOOLEAN, sent : BOOLEAN, held : BOOLEAN, run : {"none", "awaiting", "closing"}]
AcpState == [s : AcpSession, t : [Turn -> AcpTurn], e : [Turn -> StreamSet], c : CliSet]

\* The types, and what is kept of the streams.
AcpGood(g, n) == g \in AcpState /\ StreamsOK(g.e, n, g.t, g.s.active)

\* The prompt the CLI may speak of: the active one or, once the session is lost,
\* any that has ended.
AcpOwed(g, u) == IF g.s.fatal THEN g.e[u].ends # <<>> ELSE u = g.s.active

\* What is on its way is about prompts the CLI owes: its work, the frames in the
\* pipe and the answers awaited. The settle timer is that of a prompt which is
\* active, cancelled and held.
AcpLink(g, f, p) ==
    /\ g.s.fatal => g.s.active = NoTurn
    /\ \A i \in DOMAIN g.c.work : AcpOwed(g, g.c.work[i])
    /\ \A i \in DOMAIN f : Speaks(f[i]) => f[i].id[2] \in Turn /\ AcpOwed(g, f[i].id[2])
    /\ Interruption(g.c, g.e, g.t)
    /\ \A x \in g.s.timers : ~g.s.fatal =>
        /\ x[1] = "settle" /\ x[2] = g.s.active /\ g.s.active # NoTurn
        /\ g.t[g.s.active].cancel /\ g.t[g.s.active].held
    /\ \A t \in Turn : <<"prompt", t>> \in p => t = g.s.active \/ g.e[t].ends # <<>>
    /\ \A t \in Turn : g.t[t].run # "closing"

\* Of what matters to the streams nothing has changed, but that turns are to be cancelled.
AcpAlike(g, h) ==
    /\ h \in AcpState /\ h.e = g.e
    /\ h.c.work = g.c.work /\ h.c.interrupted = g.c.interrupted
    /\ h.s.active = g.s.active /\ h.s.fatal = g.s.fatal /\ h.s.timers \subseteq g.s.timers
    /\ h.s.runtime = g.s.runtime
    /\ \A u \in Turn : (g.t[u].cancel => h.t[u].cancel) /\ (g.t[u].held => h.t[u].held)
    /\ \A u \in Turn : h.t[u].run = "closing" => g.t[u].run = "closing"

\* The turn t has ended.
AcpEnds(g, h, t, o, m) ==
    /\ h \in AcpState /\ h.e = Ended(g.e, t, o)
    /\ h.c.work = g.c.work /\ h.c.interrupted = g.c.interrupted
    /\ h.s.active = (IF g.s.active = t THEN NoTurn ELSE g.s.active)
    /\ h.s.fatal = (g.s.fatal \/ m) /\ h.s.timers \subseteq g.s.timers /\ h.s.runtime = g.s.runtime
    /\ \A u \in Turn : g.t[u].cancel => h.t[u].cancel
    /\ \A u \in Turn \ {t} : g.t[u].held => h.t[u].held
    /\ \A u \in Turn : h.t[u].run = "closing" => g.t[u].run = "closing"

\* The adapter and NativeAgents mean the same by the names they share.
LEMMA AcpNames ==
    /\ Acp!Turn = Turn /\ Acp!NoTurn = NoTurn /\ Acp!Outcome = Outcome /\ Acp!NoStream = NoStream
    /\ \A e, t, o : Acp!Ended(e, t, o) = Ended(e, t, o)
    /\ \A t : Acp!Open(t) = Open(t) /\ (Acp!CanPrompt(t) <=> CanPrompt(t))
    /\ \A t, s : Acp!Delivered(t, s) = Delivered(t, s)
BY DEF Acp!Turn, Acp!NoTurn, Acp!Outcome, Acp!NoStream, Acp!Ended, Acp!Open, Acp!CanPrompt, Acp!Delivered,
       Turn, NoTurn, Outcome, NoStream, Ended, Open, CanPrompt, Delivered, Acp!Past, Past,
       Acp!Forgotten, Forgotten

\* The link of the frames in flight to the turns outlives what ends none of them.
LEMMA AcpLinkKeeps ==
    ASSUME NEW g \in AcpState, NEW h \in AcpState, NEW f, NEW p, AcpLink(g, f, p),
           h.c.work = g.c.work, h.c.interrupted = g.c.interrupted,
           h.s.active = g.s.active, h.s.fatal = g.s.fatal, h.s.timers \subseteq g.s.timers,
           \A u \in Turn : g.e[u].ends # <<>> => h.e[u].ends # <<>>,
           \A u \in Turn : (g.t[u].cancel => h.t[u].cancel) /\ (g.t[u].held => h.t[u].held),
           \A u \in Turn : h.t[u].run = "closing" => g.t[u].run = "closing"
    PROVE  AcpLink(h, f, p)
<1>1. \A u \in Turn : AcpOwed(g, u) => AcpOwed(h, u) BY DEF AcpOwed
<1>2. \A i \in DOMAIN g.c.work : g.c.work[i] \in Turn BY DEF AcpState, CliSet
<1>3. Interruption(h.c, h.e, h.t)
  <2>1. g.c.work # <<>> => Head(g.c.work) \in Turn BY DEF AcpState, CliSet
  <2> QED BY <2>1 DEF Interruption, AcpLink
<1> QED BY <1>1, <1>2, <1>3 DEF AcpLink, AcpState, AcpSession, Subject

\* A step that touches neither streams, prompts nor the CLI's work keeps what is known
\* of them.
LEMMA AcpAlikeKeeps ==
    ASSUME NEW g, NEW h, NEW n, AcpGood(g, n), AcpAlike(g, h)
    PROVE  /\ AcpGood(h, n)
           /\ \A f, p : AcpLink(g, f, p) => AcpLink(h, f, p)
<1>1. AcpGood(h, n) BY StreamsTurn DEF AcpGood, AcpAlike
<1>2. ASSUME NEW f, NEW p, AcpLink(g, f, p) PROVE AcpLink(h, f, p)
  BY <1>2, AcpLinkKeeps DEF AcpGood, AcpAlike
<1> QED BY <1>1, <1>2

\* Ending a prompt keeps what is known, whether the session forgets the prompt or
\* nothing more can be said of it.
LEMMA AcpEndsKeeps ==
    ASSUME NEW g, NEW h, NEW n, NEW t \in Turn, NEW o \in Outcome, NEW m \in BOOLEAN,
           AcpGood(g, n), AcpEnds(g, h, t, o, m),
           o = "completed" => n[t] = "completed", o = "cancelled" => g.t[t].cancel
    PROVE  /\ AcpGood(h, n)
           /\ \A f, p : AcpLink(g, f, p) /\ g.s.active = t /\ (m \/ (Silent(g.c, f) /\ ~g.t[t].held))
                        => AcpLink(h, f, p)
<1>g. /\ g \in AcpState /\ g.e \in [Turn -> StreamSet] /\ g.s.active \in Subject
      /\ StreamsOK(g.e, n, g.t, g.s.active)
  BY DEF AcpGood, AcpState, AcpSession
<1>1. /\ StreamsOK(h.e, n, g.t, h.s.active)
      /\ \A u \in Turn : g.e[u].ends # <<>> => h.e[u].ends # <<>>
      /\ g.e[t].open => h.e[t].ends # <<>>
  BY <1>g, StreamsEnd DEF AcpEnds
<1>2. AcpGood(h, n) BY <1>1, StreamsTurn DEF AcpGood, AcpEnds
<1>3. ASSUME NEW f, NEW p, AcpLink(g, f, p), g.s.active = t, m \/ (Silent(g.c, f) /\ ~g.t[t].held)
      PROVE  AcpLink(h, f, p)
  <2>1. t # NoTurn /\ h.s.active = NoTurn BY <1>3 DEF AcpEnds, Turn, NoTurn
  <2>2. ~g.s.fatal /\ h.s.fatal = m /\ h.e[t].ends # <<>>
    BY <1>1, <1>3, <2>1, <1>g DEF AcpLink, AcpEnds, StreamsOK
  <2>3. \A i \in DOMAIN g.c.work : g.c.work[i] \in Turn
    BY DEF AcpGood, AcpState, CliSet
  <2>4. g.c.work # <<>> => Head(g.c.work) \in Turn
    BY DEF AcpGood, AcpState, CliSet
  <2>5. Interruption(h.c, h.e, h.t) BY <2>4, <1>1, <1>3 DEF Interruption, AcpLink, AcpEnds
  <2>6. \A q \in Turn : <<"prompt", q>> \in p => h.e[q].ends # <<>>
    BY <1>1, <1>3, <2>2 DEF AcpLink
  <2>7. CASE m
    <3>1. \A u \in Turn : AcpOwed(g, u) => AcpOwed(h, u)
      BY <1>3, <2>2, <2>7 DEF AcpOwed
    <3> QED BY <1>3, <2>1, <2>2, <2>3, <2>5, <2>6, <2>7, <3>1 DEF AcpLink, AcpEnds
  <2>8. CASE ~m
    <3>1. g.s.timers = {} BY <1>3, <2>2, <2>8 DEF AcpLink
    <3>2. h.c.work = <<>> /\ \A i \in DOMAIN f : ~Speaks(f[i]) BY <1>3, <2>8 DEF Silent, AcpEnds
    <3>3. \A u \in Turn : h.t[u].run # "closing" BY <1>3 DEF AcpLink, AcpEnds
    <3> QED BY <2>1, <2>2, <2>5, <2>6, <2>8, <3>1, <3>2, <3>3 DEF AcpLink, AcpEnds
  <2> QED BY <2>7, <2>8
<1> QED BY <1>2, <1>3

\* #failTurn
LEMMA AcpFailTurn ==
    ASSUME NEW g \in AcpState, NEW t \in Turn, NEW m \in BOOLEAN,
           g.e[t].open => g.e[t].ends = <<>>
    PROVE  IF g.e[t].ends # <<>> THEN Acp!FailTurn(g, t, m) = g
           ELSE /\ AcpEnds(g, Acp!FailTurn(g, t, m), t, "failed", m)
                /\ ~Acp!FailTurn(g, t, m).t[t].held
<1>1. CASE g.e[t].ends # <<>> BY <1>1 DEF Acp!FailTurn, Acp!Terminal
<1>2. CASE g.e[t].ends = <<>>
  <2> DEFINE h == Acp!FailTurn(g, t, m)
             tt == [g.t EXCEPT ![t].held = FALSE]
             ss == [g.s EXCEPT !.fatal = @ \/ m, !.active = IF @ = t THEN NoTurn ELSE @]
  <2>1. h = [g EXCEPT !.t[t].held = FALSE, !.s.fatal = @ \/ m,
                     !.s.active = IF @ = t THEN NoTurn ELSE @,
                     !.e = Ended(g.e, t, "failed")]
    BY <1>2, AcpNames DEF Acp!FailTurn, Acp!Terminal
  <2>2. tt \in [Turn -> AcpTurn] BY DEF AcpState, AcpTurn
  <2>3. ss \in AcpSession BY DEF AcpState, AcpSession, Subject
  <2>4. Ended(g.e, t, "failed") \in [Turn -> StreamSet] BY EndedOnce DEF AcpState, Outcome
  <2>5. h = [s |-> ss, t |-> tt, e |-> Ended(g.e, t, "failed"), c |-> g.c]
    BY <2>1 DEF AcpState
  <2>6. /\ ss.active = (IF g.s.active = t THEN NoTurn ELSE g.s.active) /\ ss.fatal = (g.s.fatal \/ m)
        /\ ss.timers = g.s.timers /\ ss.runtime = g.s.runtime
    BY DEF AcpState, AcpSession
  <2>7. /\ \A u \in Turn : tt[u].cancel = g.t[u].cancel
        /\ \A u \in Turn \ {t} : tt[u].held = g.t[u].held
        /\ tt[t].held = FALSE
        /\ \A u \in Turn : tt[u].run = g.t[u].run
    BY DEF AcpState, AcpTurn
  <2> HIDE DEF tt, ss, h
  <2>8. h \in AcpState /\ h.s = ss /\ h.t = tt /\ h.e = Ended(g.e, t, "failed") /\ h.c = g.c
    BY <2>2, <2>3, <2>4, <2>5 DEF AcpState
  <2>9. AcpEnds(g, h, t, "failed", m) /\ ~h.t[t].held
    BY <2>6, <2>7, <2>8 DEF AcpEnds
  <2> QED BY <1>2, <2>9 DEF h
<1> QED BY <1>1, <1>2

\* #notifyCancel, for the turn that was to be cancelled
LEMMA AcpNotifyCancel ==
    ASSUME NEW g, NEW n, AcpGood(g, n), NEW t \in Turn, NEW h, h = Acp!NotifyCancel(g, t)
    PROVE  /\ AcpGood(h, n) /\ h.s = g.s /\ h.e = g.e
           /\ \A u \in Turn : h.t[u].cancel = g.t[u].cancel /\ h.t[u].held = g.t[u].held
                              /\ h.t[u].run = g.t[u].run
           /\ h.c.work = g.c.work
           /\ \A f, p : AcpLink(g, f, p) /\ (client # "running" \/ g.s.fatal \/ (t = g.s.active /\ g.t[t].cancel))
                        => AcpLink(h, f, p)
<1>1. CASE g.t[t].sent \/ client # "running"
  <2>1. h = g BY <1>1 DEF Acp!NotifyCancel
  <2> QED BY <2>1
<1>2. CASE ~(g.t[t].sent \/ client # "running")
  <2> DEFINE tt == [g.t EXCEPT ![t].sent = TRUE]
             cc == Acp!Interrupted(g.c)
  <2>g. g \in AcpState BY DEF AcpGood
  <2>1. h = [g EXCEPT !.t[t].sent = TRUE, !.c = cc] BY <1>2 DEF Acp!NotifyCancel
  <2>2. tt \in [Turn -> AcpTurn] BY <2>g DEF AcpState, AcpTurn
  <2>3. \A u \in Turn : tt[u].cancel = g.t[u].cancel /\ tt[u].held = g.t[u].held /\ tt[u].run = g.t[u].run
    BY <2>g DEF AcpState, AcpTurn
  <2>4. /\ cc \in CliSet /\ cc.work = g.c.work
        /\ cc.interrupted => g.c.work # <<>> \/ g.c.interrupted
    BY <2>g DEF Acp!Interrupted, AcpState, CliSet
  <2>5. h = [s |-> g.s, t |-> tt, e |-> g.e, c |-> cc] BY <2>1, <2>g DEF AcpState
  <2> HIDE DEF tt, cc
  <2>6. h \in AcpState /\ h.s = g.s /\ h.t = tt /\ h.e = g.e /\ h.c = cc
    BY <2>5, <2>2, <2>4, <2>g DEF AcpState
  <2>7. AcpGood(h, n) BY <2>6, <2>3, StreamsTurn DEF AcpGood
  <2>8. ASSUME NEW f, NEW p, AcpLink(g, f, p),
               client # "running" \/ g.s.fatal \/ (t = g.s.active /\ g.t[t].cancel)
        PROVE  AcpLink(h, f, p)
    <3>1. \A u : AcpOwed(g, u) <=> AcpOwed(h, u) BY <2>6 DEF AcpOwed
    <3>2. g.c.work # <<>> => Head(g.c.work) \in Turn /\ 1 \in DOMAIN g.c.work /\ Head(g.c.work) = g.c.work[1]
      BY <2>g DEF AcpState, CliSet
    <3>3. Interruption(h.c, h.e, h.t)
      <4>1. ASSUME h.c.interrupted, h.c.work # <<>>
            PROVE  h.t[Head(h.c.work)].cancel \/ h.e[Head(h.c.work)].ends # <<>>
        <5>1. AcpOwed(g, Head(g.c.work)) BY <4>1, <3>2, <2>8, <2>6, <2>4 DEF AcpLink
        <5> QED BY <5>1, <4>1, <3>2, <2>8, <2>6, <2>4, <2>3, <1>2 DEF AcpOwed
      <4>2. h.c.interrupted => h.c.work # <<>> BY <2>4, <2>6, <2>8 DEF AcpLink, Interruption
      <4> QED BY <4>1, <4>2 DEF Interruption
    <3> QED BY <2>8, <2>6, <2>4, <2>3, <2>g, <3>1, <3>3 DEF AcpLink, AcpState, AcpSession, Subject
  <2> QED BY <2>3, <2>4, <2>6, <2>7, <2>8
<1> QED BY <1>1, <1>2

\* The end of #runPrompt ends nothing that has not ended.
LEMMA AcpPromptFinally ==
    ASSUME NEW g, NEW n, AcpGood(g, n), NEW t \in Turn, g.t[t].held \/ ~g.e[t].open
    PROVE  AcpAlike(g, Acp!PromptFinally(g, t))
<1> DEFINE h == Acp!PromptFinally(g, t)
           tt == [g.t EXCEPT ![t].run = "none"]
<1>g. g \in AcpState /\ StreamsOK(g.e, n, g.t, g.s.active) BY DEF AcpGood
<1>1. /\ tt \in [Turn -> AcpTurn]
      /\ \A u \in Turn : tt[u].cancel = g.t[u].cancel /\ tt[u].held = g.t[u].held
                         /\ (tt[u].run = "closing" => g.t[u].run = "closing")
  BY <1>g DEF AcpState, AcpTurn
<1>2. h = [s |-> g.s, t |-> tt, e |-> g.e, c |-> g.c]
  <2>1. CASE g.t[t].held
    <3>1. h = [g EXCEPT !.t[t].run = "none"] BY <2>1 DEF Acp!PromptFinally
    <3> QED BY <3>1, <1>g DEF AcpState
  <2>2. CASE ~g.t[t].held
    <3>1. h = [g EXCEPT !.t[t].run = "none", !.e[t].open = FALSE,
                       !.s.active = IF @ = t THEN NoTurn ELSE @]
      BY <2>2, AcpNames DEF Acp!PromptFinally
    <3>2. g.e[t].open = FALSE BY <2>2, <1>g DEF AcpState, StreamSet
    <3>3. g.s.active # t BY <3>2, <1>g DEF StreamsOK, Turn, NoTurn
    <3>4. [g.e EXCEPT ![t].open = FALSE] = g.e BY <3>2, <1>g DEF AcpState, StreamSet
    <3>5. [g.s EXCEPT !.active = IF @ = t THEN NoTurn ELSE @] = g.s
      BY <3>3, <1>g DEF AcpState, AcpSession
    <3>6. h = [s |-> [g.s EXCEPT !.active = IF @ = t THEN NoTurn ELSE @], t |-> tt,
               e |-> [g.e EXCEPT ![t].open = FALSE], c |-> g.c]
      BY <3>1, <1>g DEF AcpState
    <3> QED BY <3>4, <3>5, <3>6
  <2> QED BY <2>1, <2>2
<1> HIDE DEF tt, h
<1>3. h \in AcpState /\ h.s = g.s /\ h.t = tt /\ h.e = g.e /\ h.c = g.c
  BY <1>1, <1>2, <1>g DEF AcpState
<1>4. AcpAlike(g, h) BY <1>1, <1>3 DEF AcpAlike
<1> QED BY <1>4 DEF h

\* The end of a turn and of its #runPrompt is the end of the turn.
LEMMA AcpEndsFinally ==
    ASSUME NEW g, NEW n, AcpGood(g, n), NEW t \in Turn, NEW h, AcpEnds(g, h, t, "failed", FALSE)
    PROVE  AcpEnds(g, Acp!PromptFinally(h, t), t, "failed", FALSE)
<1>1. "failed" \in Outcome BY DEF Outcome
<1>2. AcpGood(h, n)
  <2>1. PICK o \in Outcome : o = "failed" BY <1>1
  <2>2. AcpEnds(g, h, t, o, FALSE) /\ o # "completed" /\ o # "cancelled" BY <2>1
  <2> QED BY <2>2, AcpEndsKeeps
<1>3. ~h.e[t].open
  BY <1>1, EndedOnce DEF AcpGood, AcpState, AcpEnds, StreamsOK
<1>4. AcpAlike(h, Acp!PromptFinally(h, t)) BY <1>2, <1>3, AcpPromptFinally
<1> QED BY <1>4 DEF AcpAlike, AcpEnds

\* The response to a prompt
LEMMA AcpPromptAnswered ==
    ASSUME NEW g, NEW n, AcpGood(g, n), NEW t \in Turn, NEW out \in Outcome
    PROVE  IF g.e[t].ends # <<>> \/ g.t[t].held THEN AcpAlike(g, Acp!PromptAnswered(g, t, out))
           ELSE AcpEnds(g, Acp!PromptAnswered(g, t, out), t, out, FALSE)
<1>g. /\ g \in AcpState /\ g.e \in [Turn -> StreamSet] /\ StreamsOK(g.e, n, g.t, g.s.active)
      /\ g.e[t].open => g.e[t].ends = <<>>
  BY DEF AcpGood, AcpState, StreamsOK
<1>1. CASE g.e[t].ends # <<>> \/ g.t[t].held
  <2>1. Acp!PromptAnswered(g, t, out) = Acp!PromptFinally(g, t)
    BY <1>1 DEF Acp!PromptAnswered, Acp!Terminal
  <2>2. g.t[t].held \/ ~g.e[t].open BY <1>1, <1>g
  <2> QED BY <1>1, <2>1, <2>2, AcpPromptFinally
<1>2. CASE g.e[t].ends = <<>> /\ ~g.t[t].held /\ out = "failed"
  <2>1. Acp!PromptAnswered(g, t, out) = Acp!PromptFinally(Acp!FailTurn(g, t, FALSE), t)
    BY <1>2 DEF Acp!PromptAnswered, Acp!Terminal
  <2>2. AcpEnds(g, Acp!FailTurn(g, t, FALSE), t, "failed", FALSE) BY <1>2, <1>g, AcpFailTurn
  <2> QED BY <1>2, <2>1, <2>2, AcpEndsFinally
<1>3. CASE g.e[t].ends = <<>> /\ ~g.t[t].held /\ out # "failed"
  <2> DEFINE h == Acp!PromptAnswered(g, t, out)
             d == Ended(g.e, t, out)
             tt == [g.t EXCEPT ![t].run = "none"]
             ss == [g.s EXCEPT !.active = IF @ = t THEN NoTurn ELSE @]
             k == [g EXCEPT !.e = d]
  <2>1. h = Acp!PromptFinally(k, t)
    BY <1>3, AcpNames DEF Acp!PromptAnswered, Acp!Terminal
  <2>2. d \in [Turn -> StreamSet] /\ ~d[t].open BY <1>g, StreamsEnd, EndedOnce
  <2>3. [d EXCEPT ![t].open = FALSE] = d
    <3>1. d[t].open = FALSE BY <2>2 DEF StreamSet
    <3> HIDE DEF d
    <3> QED BY <2>2, <3>1 DEF StreamSet
  <2>4. /\ tt \in [Turn -> AcpTurn]
        /\ \A u \in Turn : tt[u].cancel = g.t[u].cancel /\ tt[u].held = g.t[u].held
                           /\ (tt[u].run = "closing" => g.t[u].run = "closing")
    BY <1>g DEF AcpState, AcpTurn
  <2>5. /\ ss \in AcpSession /\ ss.active = (IF g.s.active = t THEN NoTurn ELSE g.s.active)
        /\ ss.fatal = g.s.fatal /\ ss.timers = g.s.timers /\ ss.runtime = g.s.runtime
    BY <1>g DEF AcpState, AcpSession, Subject
  <2> HIDE DEF d, h
  <2>6. k \in AcpState /\ k = [s |-> g.s, t |-> g.t, e |-> d, c |-> g.c]
    BY <1>g, <2>2 DEF AcpState
  <2>7. h = [k EXCEPT !.t[t].run = "none", !.e[t].open = FALSE,
                     !.s.active = IF @ = t THEN NoTurn ELSE @]
    <3>1. ~k.t[t].held BY <1>3, <2>6
    <3> HIDE DEF k
    <3> QED BY <2>1, <3>1, AcpNames DEF Acp!PromptFinally
  <2>8. h = [s |-> ss, t |-> tt, e |-> [d EXCEPT ![t].open = FALSE], c |-> g.c]
    <3>1. k.s = g.s /\ k.t = g.t /\ k.e = d /\ k.c = g.c BY <2>6
    <3> HIDE DEF k
    <3> QED BY <2>7, <2>6, <3>1 DEF AcpState
  <2> HIDE DEF tt, ss, k
  <2>9. h = [s |-> ss, t |-> tt, e |-> d, c |-> g.c] BY <2>8, <2>3
  <2>10. h \in AcpState /\ h.s = ss /\ h.t = tt /\ h.e = d /\ h.c = g.c
    BY <2>9, <2>2, <2>4, <2>5, <1>g DEF AcpState
  <2>11. h.s.fatal = (g.s.fatal \/ FALSE)
    BY <2>10, <2>5, <1>g DEF AcpState, AcpSession
  <2>12. AcpEnds(g, h, t, out, FALSE) BY <2>10, <2>11, <2>4, <2>5 DEF AcpEnds, d
  <2> QED BY <1>3, <2>12 DEF h
<1> QED BY <1>1, <1>2, <1>3

\* The rejection of a prompt
LEMMA AcpPromptRejected ==
    ASSUME NEW g, NEW n, AcpGood(g, n), NEW t \in Turn, NEW now
    PROVE  IF g.e[t].ends # <<>> \/ g.t[t].held THEN AcpAlike(g, Acp!PromptRejected(g, t, now))
           ELSE IF now = "failed"
           THEN /\ AcpGood(Acp!PromptRejected(g, t, now), n)
                /\ Acp!PromptRejected(g, t, now).s.runtime = g.s.runtime
           ELSE AcpEnds(g, Acp!PromptRejected(g, t, now), t, "failed", FALSE)
<1>g. g \in AcpState /\ (g.e[t].open => g.e[t].ends = <<>>)
  BY DEF AcpGood, StreamsOK
<1>1. CASE g.e[t].ends # <<>> \/ g.t[t].held
  <2>1. Acp!PromptRejected(g, t, now) = Acp!PromptFinally(g, t)
    BY <1>1 DEF Acp!PromptRejected, Acp!Terminal
  <2>2. g.t[t].held \/ ~g.e[t].open BY <1>1, <1>g
  <2> QED BY <1>1, <2>1, <2>2, AcpPromptFinally
<1>2. CASE g.e[t].ends = <<>> /\ ~g.t[t].held /\ now = "failed"
  <2> DEFINE tt == [g.t EXCEPT ![t].run = "closing"]
             h == Acp!PromptRejected(g, t, now)
  <2>1. h = [g EXCEPT !.t[t].run = "closing"]
    BY <1>2 DEF Acp!PromptRejected, Acp!Terminal
  <2>2. h = [s |-> g.s, t |-> tt, e |-> g.e, c |-> g.c]
    BY <2>1, <1>g DEF AcpState
  <2>3. /\ tt \in [Turn -> AcpTurn]
        /\ \A u \in Turn : tt[u].cancel = g.t[u].cancel /\ tt[u].held = g.t[u].held
    BY <1>g DEF AcpState, AcpTurn
  <2> HIDE DEF tt, h
  <2>4. h \in AcpState /\ h.s = g.s /\ h.t = tt /\ h.e = g.e /\ h.c = g.c
    BY <2>2, <2>3, <1>g DEF AcpState
  <2>5. AcpGood(h, n) BY <2>3, <2>4, StreamsTurn DEF AcpGood
  <2> QED BY <1>2, <2>4, <2>5 DEF h
<1>3. CASE g.e[t].ends = <<>> /\ ~g.t[t].held /\ now # "failed"
  <2>1. Acp!PromptRejected(g, t, now) = Acp!PromptFinally(Acp!FailTurn(g, t, FALSE), t)
    BY <1>3 DEF Acp!PromptRejected, Acp!Terminal
  <2>2. AcpEnds(g, Acp!FailTurn(g, t, FALSE), t, "failed", FALSE) BY <1>3, <1>g, AcpFailTurn
  <2> QED BY <1>3, <2>1, <2>2, AcpEndsFinally
<1> QED BY <1>1, <1>2, <1>3

\* Whatever the rejection of every request does, the streams are well.
LEMMA AcpRejected ==
    ASSUME NEW g, NEW n, AcpGood(g, n), NEW now
    PROVE  AcpGood(Acp!Rejected(g, now), n) /\ Acp!Rejected(g, now).s.runtime = g.s.runtime
<1> DEFINE h == IF g.s.at \in Acp!Launching THEN [g EXCEPT !.s.at = "failing", !.s.closing = TRUE] ELSE g
           prompts == {t \in Acp!Turn : <<"prompt", t>> \in pending}
<1>1. h \in AcpState /\ AcpAlike(g, h)
  <2>1. CASE g.s.at \in Acp!Launching
    <3> DEFINE ss == [g.s EXCEPT !.at = "failing", !.closing = TRUE]
    <3>1. h = [s |-> ss, t |-> g.t, e |-> g.e, c |-> g.c] BY <2>1 DEF AcpGood, AcpState
    <3>2. /\ ss \in AcpSession /\ ss.active = g.s.active /\ ss.fatal = g.s.fatal
          /\ ss.timers = g.s.timers /\ ss.runtime = g.s.runtime
      BY DEF AcpGood, AcpState, AcpSession
    <3> HIDE DEF ss, h
    <3> QED BY <3>1, <3>2 DEF AcpAlike, AcpGood, AcpState
  <2>2. CASE g.s.at \notin Acp!Launching BY <2>2 DEF AcpAlike, AcpGood
  <2> QED BY <2>1, <2>2
<1>2. AcpGood(h, n) /\ h.s.runtime = g.s.runtime BY <1>1, AcpAlikeKeeps DEF AcpAlike
<1>3. Acp!Rejected(g, now) = IF prompts = {} THEN h ELSE Acp!PromptRejected(h, CHOOSE t \in prompts : TRUE, now)
  BY DEF Acp!Rejected
<1> HIDE DEF h
<1>4. CASE prompts = {} BY <1>2, <1>3, <1>4
<1>5. CASE prompts # {}
  <2>1. PICK t \in Turn : t = CHOOSE q \in prompts : TRUE BY <1>5, AcpNames
  <2>2. Acp!Rejected(g, now) = Acp!PromptRejected(h, t, now) BY <1>3, <1>5, <2>1
  <2> DEFINE k == Acp!PromptRejected(h, t, now)
  <2>3. \/ AcpAlike(h, k) \/ AcpEnds(h, k, t, "failed", FALSE)
        \/ AcpGood(k, n) /\ k.s.runtime = h.s.runtime
    BY <1>2, AcpPromptRejected
  <2> HIDE DEF k
  <2>4. AcpGood(k, n)
    <3>1. PICK o \in Outcome : o = "failed" BY DEF Outcome
    <3>2. o # "completed" /\ o # "cancelled" BY <3>1
    <3>3. AcpEnds(h, k, t, o, FALSE) => AcpGood(k, n) BY <1>2, <3>2, AcpEndsKeeps
    <3> QED BY <1>2, <2>3, <3>1, <3>3, AcpAlikeKeeps
  <2>5. k.s.runtime = g.s.runtime BY <1>2, <2>3 DEF AcpAlike, AcpEnds
  <2> QED BY <2>2, <2>4, <2>5 DEF k
<1> QED BY <1>4, <1>5

\* An adapter without a runtime has left no CLI alive but one that could not be
\* killed.
Leashed == ~session.runtime => child # "alive" \/ ladder = "gaveUp"

\* A result is the last that is said of its turn, and says what the CLI did.
AcpPipe(f, n) ==
    \A i \in DOMAIN f : Speaks(f[i]) =>
        /\ f[i].id[2] \in Turn /\ n[f[i].id[2]] # "none"
        /\ f[i].k = "result" =>
            /\ f[i].out \in Outcome /\ n[f[i].id[2]] \in {f[i].out, "past"}
            /\ \A j \in DOMAIN f : i < j /\ Speaks(f[j]) => f[j].id[2] # f[i].id[2]

\* What is known while the client serves.
AcpCalm == WorkOK(cli, native) /\ AcpPipe(pipe, native) /\ AcpLink(Acp!g0, pipe, pending)

\* The inductive invariant of the ACP adapter: what the pipe holds matters only
\* while the client runs, since a client that closes drops its lines.
AcpInv ==
    /\ AcpGood(Acp!g0, native) /\ native \in [Turn -> NativeSet]
    /\ pipe \in Seq(FrameSet) /\ pending \subseteq Request
    /\ client = "running" => AcpCalm
    /\ Leashed

\* The state the adapter moves to is the one its next step starts from.
LEMMA AcpBecome ==
    ASSUME NEW h \in AcpState, Acp!Become(h)
    PROVE  Acp!g0' = h /\ session' = h.s /\ turn' = h.t /\ stream' = h.e /\ cli' = h.c
<1>1. session' = h.s /\ turn' = h.t /\ stream' = h.e /\ cli' = h.c BY DEF Acp!Become
<1>2. h = [s |-> h.s, t |-> h.t, e |-> h.e, c |-> h.c] BY DEF AcpState
<1> QED BY <1>1, <1>2 DEF Acp!g0

\* The state a step starts from.
LEMMA AcpNow == Acp!g0.s = session /\ Acp!g0.t = turn /\ Acp!g0.e = stream /\ Acp!g0.c = cli
BY DEF Acp!g0

\* Fewer frames and fewer prompts in flight
LEMMA AcpLinkFewer ==
    ASSUME NEW g, NEW f \in Seq(FrameSet), NEW p, NEW q, AcpLink(g, f, p),
           \A t \in Turn : <<"prompt", t>> \in q => <<"prompt", t>> \in p
    PROVE  AcpLink(g, f, q) /\ (f # <<>> => AcpLink(g, Tail(f), q))
<1>1. AcpLink(g, f, q) BY DEF AcpLink
<1>2. ASSUME f # <<>> PROVE AcpLink(g, Tail(f), q)
  BY <1>1, <1>2, SeqTail DEF AcpLink
<1> QED BY <1>1, <1>2

\* The frames that are left still tell the truth.
LEMMA AcpPipeTail ==
    ASSUME NEW f \in Seq(FrameSet), f # <<>>, NEW n, AcpPipe(f, n)
    PROVE  AcpPipe(Tail(f), n) /\ Tail(f) \in Seq(FrameSet)
<1>1. /\ Tail(f) \in Seq(FrameSet) /\ DOMAIN f \subseteq Nat /\ DOMAIN Tail(f) \subseteq Nat
      /\ \A i \in DOMAIN Tail(f) : i + 1 \in DOMAIN f /\ Tail(f)[i] = f[i + 1]
  BY SeqTail
<1>2. \A i, j \in DOMAIN Tail(f) : i < j => i + 1 < j + 1 BY <1>1
<1> QED BY <1>1, <1>2 DEF AcpPipe

\* A step of the adapter that leaves the process on its leash
LEMMA AcpSettles ==
    ASSUME AcpInv, NEW h, Acp!Become(h), AcpGood(h, native), native' = native,
           pipe' = pipe \/ (pipe # <<>> /\ pipe' = Tail(pipe)),
           pending' \subseteq Request,
           h.s.runtime = session.runtime \/ child' # "alive",
           child' = child \/ child' # "alive", ladder = "gaveUp" => ladder' = "gaveUp",
           client' = "running" =>
               client = "running" /\ h.c.work = cli.work /\ AcpLink(h, pipe', pending')
    PROVE  AcpInv'
<1>1. Acp!g0' = h /\ session' = h.s /\ cli' = h.c BY AcpBecome DEF AcpGood
<1>2. AcpGood(Acp!g0, native)' BY <1>1
<1>3. pipe' \in Seq(FrameSet) BY SeqTail DEF AcpInv
<1>4. Leashed' BY <1>1 DEF Leashed, AcpInv
<1>5. ASSUME client' = "running" PROVE AcpCalm'
  <2>1. WorkOK(cli, native)' BY <1>1, <1>5 DEF WorkOK, AcpInv, AcpCalm
  <2>2. AcpPipe(pipe', native) BY <1>5, AcpPipeTail DEF AcpInv, AcpCalm
  <2>3. AcpPipe(pipe, native)' BY <2>2
  <2>4. AcpLink(Acp!g0, pipe, pending)' BY <1>1, <1>5
  <2> QED BY <2>1, <2>3, <2>4 DEF AcpCalm
<1> QED BY <1>2, <1>3, <1>4, <1>5 DEF AcpInv

\* A step with an adapter state like the one before
LEMMA AcpSettlesAlike ==
    ASSUME AcpInv, NEW h, Acp!Become(h), AcpAlike(Acp!g0, h), native' = native,
           pipe' = pipe \/ (pipe # <<>> /\ pipe' = Tail(pipe)),
           pending' \subseteq Request,
           \A t \in Turn : <<"prompt", t>> \in pending' => <<"prompt", t>> \in pending,
           child' = child \/ child' # "alive", ladder = "gaveUp" => ladder' = "gaveUp",
           client' = "running" => client = "running"
    PROVE  AcpInv'
<1>1. AcpGood(h, native) BY AcpAlikeKeeps DEF AcpInv
<1>2. h.s.runtime = session.runtime /\ h.c.work = cli.work BY AcpNow DEF AcpAlike
<1>3. ASSUME client' = "running" PROVE AcpLink(h, pipe', pending')
  <2>1. AcpLink(h, pipe, pending)
    BY <1>3, AcpAlikeKeeps DEF AcpInv, AcpCalm
  <2> QED BY <2>1, AcpLinkFewer DEF AcpInv
<1> QED BY <1>1, <1>2, <1>3, AcpSettles

\* A request to the CLI is remembered and starts no work.
LEMMA AcpAsked ==
    ASSUME NEW c \in CliSet, NEW r \in Request
    PROVE  /\ Acp!Asked(c, r) \in CliSet
           /\ Acp!Asked(c, r).work = c.work /\ Acp!Asked(c, r).interrupted = c.interrupted
BY DEF Acp!Asked, CliSet

\* A CLI that was just started has nothing to do.
LEMMA AcpIdle == Acp!Idle \in CliSet /\ Acp!Idle.work = <<>> /\ Acp!Idle.interrupted = FALSE
BY DEF Acp!Idle, CliSet

\* An EXCEPT on the state as the record it makes.
LEMMA AcpSetsAtClosing ==
    ASSUME NEW x
    PROVE  [Acp!g0 EXCEPT !.s.at = x, !.s.closing = TRUE]
           = [s |-> [session EXCEPT !.at = x, !.closing = TRUE], t |-> turn, e |-> stream, c |-> cli]
<1>1. [Acp!g0 EXCEPT !.s.at = x] = [s |-> [session EXCEPT !.at = x], t |-> turn, e |-> stream, c |-> cli]
  BY DEF Acp!g0
<1>2. [[s |-> [session EXCEPT !.at = x], t |-> turn, e |-> stream, c |-> cli] EXCEPT !.s.closing = TRUE]
      = [s |-> [session EXCEPT !.at = x, !.closing = TRUE], t |-> turn, e |-> stream, c |-> cli]
  OBVIOUS
<1> QED BY <1>1, <1>2

\* The invariant holds before anything is launched.
LEMMA AcpInit == ASSUME BoundAssumption, Acp!Init PROVE AcpInv
<1>1. /\ session = Acp!NoSession /\ turn = [t \in Turn |-> Acp!FreshTurn]
      /\ stream = [t \in Turn |-> NoStream] /\ cli = Acp!Idle
      /\ native = [t \in Turn |-> "none"] /\ pipe = <<>> /\ client = "closed" /\ pending = {}
      /\ child = "none"
  BY AcpNames DEF Acp!Init, Acp!ProcessInit, Acp!RpcInit
<1>2. NoStream \in StreamSet BY DEF NoStream, StreamSet, EndSet
<1>3. Acp!NoSession \in AcpSession /\ Acp!NoSession.active = NoTurn
  BY AcpNames DEF Acp!NoSession, AcpSession, Subject
<1>4. Acp!FreshTurn \in AcpTurn BY DEF Acp!FreshTurn, AcpTurn
<1>5. Acp!Idle \in CliSet BY AcpIdle
<1>6. Acp!g0 \in AcpState BY <1>1, <1>2, <1>3, <1>4, <1>5 DEF Acp!g0, AcpState
<1>7. StreamsOK(stream, native, turn, session.active)
  <2>1. \A u \in Turn : ~stream[u].open /\ stream[u].ends = <<>> /\ stream[u].text = {}
                        /\ stream[u] = NoStream /\ native[u] = "none"
    BY <1>1 DEF NoStream
  <2> QED BY <2>1, <1>1, <1>3 DEF StreamsOK
<1>8. AcpGood(Acp!g0, native) BY <1>6, <1>7, AcpNow DEF AcpGood
<1>9. native \in [Turn -> NativeSet] BY <1>1 DEF NativeSet
<1> QED BY <1>1, <1>8, <1>9 DEF AcpInv, Leashed

\* #launch starts a CLI only when no other is left.
LEMMA AcpLaunch == ASSUME AcpInv, Acp!Launch PROVE AcpInv'
<1>g. Acp!g0 \in AcpState /\ StreamsOK(stream, native, turn, session.active)
  BY AcpNow DEF AcpInv, AcpGood
<1> DEFINE ss == [Acp!NoSession EXCEPT !.at = "initialize", !.runtime = TRUE]
           cc == Acp!Asked(Acp!Idle, <<"initialize", NoTurn>>)
           h == [s |-> ss, t |-> turn, e |-> stream, c |-> cc]
<1>1. /\ Acp!Become(h) /\ native' = native /\ pending' = {<<"initialize", NoTurn>>} /\ pipe' = <<>>
  <2>1. Acp!Become([Acp!g0 EXCEPT !.s = ss, !.c = cc]) BY AcpNames DEF Acp!Launch
  <2>2. [Acp!g0 EXCEPT !.s = ss, !.c = cc] = h
    <3> HIDE DEF ss, cc
    <3>1. [Acp!g0 EXCEPT !.s = ss] = [s |-> ss, t |-> turn, e |-> stream, c |-> cli] BY DEF Acp!g0
    <3>2. [[s |-> ss, t |-> turn, e |-> stream, c |-> cli] EXCEPT !.c = cc] = h OBVIOUS
    <3> QED BY <3>1, <3>2
  <2>3. /\ native' = native /\ pending' = {<<"initialize", NoTurn>>} /\ pipe' = <<>>
    BY AcpNames DEF Acp!Launch, Acp!NewClient, Acp!SpawnChild
  <2> QED BY <2>1, <2>2, <2>3
<1>2. /\ ss \in AcpSession /\ ss.active = NoTurn /\ ss.runtime = TRUE /\ ss.timers = {} /\ ~ss.fatal
  BY AcpNames DEF Acp!NoSession, AcpSession, Subject
<1>3. <<"initialize", NoTurn>> \in Request BY DEF Request, Subject
<1>4. cc \in CliSet /\ cc.work = <<>> /\ cc.interrupted = FALSE
  BY <1>3, AcpAsked, AcpIdle
<1> HIDE DEF ss, cc
<1>5. h \in AcpState BY <1>2, <1>4, <1>g, AcpNow DEF AcpState
<1>6. StreamsOK(stream, native, turn, NoTurn) BY <1>g DEF StreamsOK
<1>7. Acp!g0' = h /\ session' = ss /\ cli' = cc BY <1>1, <1>5, AcpBecome
<1>8. AcpGood(h, native) BY <1>2, <1>5, <1>6 DEF AcpGood
<1>9. WorkOK(cc, native) BY <1>4 DEF WorkOK
<1>10. AcpPipe(<<>>, native) /\ <<>> \in Seq(FrameSet) BY DEF AcpPipe
<1>r. \A t \in Turn : turn[t].run # "closing" BY AcpNames DEF Acp!Launch
<1>11. AcpLink(h, <<>>, pending')
  BY <1>r, <1>1, <1>2, <1>4 DEF AcpLink, Interruption
<1>12. (AcpGood(Acp!g0, native) /\ native \in [Turn -> NativeSet])'
  BY <1>1, <1>7, <1>8 DEF AcpInv
<1>13. AcpCalm' BY <1>1, <1>7, <1>9, <1>10, <1>11 DEF AcpCalm
<1>14. Leashed' BY <1>7, <1>2 DEF Leashed
<1> QED BY <1>1, <1>3, <1>10, <1>12, <1>13, <1>14 DEF AcpInv

\* The handshake goes on, or fails, as its requests are answered.
LEMMA AcpLaunchContinues ==
    ASSUME AcpInv, NEW ok \in BOOLEAN, session.at \in Acp!Launching, Acp!LaunchContinues(ok),
           pipe' = pipe \/ (pipe # <<>> /\ pipe' = Tail(pipe)),
           UNCHANGED <<native, child, ladder, client>>
    PROVE  AcpInv'
<1>g. Acp!g0 \in AcpState BY DEF AcpInv, AcpGood
<1>1. PICK next \in {"open", "configure", "ready"} :
        IF ~ok \/ session.fatal
        THEN /\ pending' = {}
             /\ Acp!Become([Acp!g0 EXCEPT !.s.at = "failing", !.s.closing = TRUE])
        ELSE /\ pending' = IF next = "ready" THEN {} ELSE {<<next, NoTurn>>}
             /\ Acp!Become([Acp!g0 EXCEPT !.s.at = next,
                                          !.c = IF next = "ready" THEN @ ELSE Acp!Asked(@, <<next, NoTurn>>)])
  BY AcpNames DEF Acp!LaunchContinues
<1>2. CASE ~ok \/ session.fatal
  <2> DEFINE ss == [session EXCEPT !.at = "failing", !.closing = TRUE]
             h == [Acp!g0 EXCEPT !.s.at = "failing", !.s.closing = TRUE]
  <2>1. h = [s |-> ss, t |-> turn, e |-> stream, c |-> cli] BY AcpSetsAtClosing
  <2>2. /\ ss \in AcpSession /\ ss.active = session.active /\ ss.fatal = session.fatal
        /\ ss.timers = session.timers /\ ss.runtime = session.runtime
    BY <1>g, AcpNow DEF AcpState, AcpSession
  <2>3. Acp!Become(h) /\ pending' = {} BY <1>1, <1>2
  <2> HIDE DEF ss, h
  <2>4. AcpAlike(Acp!g0, h) BY <2>1, <2>2, <1>g, AcpNow DEF AcpAlike, AcpState
  <2> QED BY <2>3, <2>4, AcpSettlesAlike
<1>3. CASE ok /\ ~session.fatal
  <2> DEFINE ss == [session EXCEPT !.at = next]
             cc == IF next = "ready" THEN cli ELSE Acp!Asked(cli, <<next, NoTurn>>)
             h == [Acp!g0 EXCEPT !.s.at = next,
                                 !.c = IF next = "ready" THEN @ ELSE Acp!Asked(@, <<next, NoTurn>>)]
  <2>1. h = [s |-> ss, t |-> turn, e |-> stream, c |-> cc]
    <3> DEFINE k == [s |-> ss, t |-> turn, e |-> stream, c |-> cli]
    <3>1. [Acp!g0 EXCEPT !.s.at = next] = k BY DEF Acp!g0
    <3>2. [k EXCEPT !.c = IF next = "ready" THEN @ ELSE Acp!Asked(@, <<next, NoTurn>>)]
          = [s |-> ss, t |-> turn, e |-> stream, c |-> cc]
      OBVIOUS
    <3> QED BY <3>1, <3>2
  <2>2. /\ ss \in AcpSession /\ ss.active = session.active /\ ss.fatal = session.fatal
        /\ ss.timers = session.timers /\ ss.runtime = session.runtime
    BY <1>g, AcpNow DEF AcpState, AcpSession
  <2>3. next # "ready" => <<next, NoTurn>> \in Request BY DEF Request, Subject
  <2>4. cc \in CliSet /\ cc.work = cli.work /\ cc.interrupted = cli.interrupted
    BY <2>3, <1>g, AcpNow, AcpAsked DEF AcpState
  <2>5. Acp!Become(h) /\ pending' = IF next = "ready" THEN {} ELSE {<<next, NoTurn>>}
    BY <1>1, <1>3
  <2> HIDE DEF ss, cc, h
  <2>6. AcpAlike(Acp!g0, h) BY <2>1, <2>2, <2>4, <1>g, AcpNow DEF AcpAlike, AcpState
  <2>7. pending' \subseteq Request /\ \A t \in Turn : <<"prompt", t>> \notin pending' BY <2>3, <2>5
  <2> QED BY <2>5, <2>6, <2>7, AcpSettlesAlike
<1> QED BY <1>2, <1>3

\* A step of the session alone
LEMMA AcpSessionStep ==
    ASSUME AcpInv, session' \in AcpSession, UNCHANGED <<turn, stream, native, pipe, launches>>,
           session'.active = session.active, session'.fatal = session.fatal,
           session'.timers \subseteq session.timers,
           cli' \in CliSet, cli'.work = cli.work, cli'.interrupted = cli.interrupted,
           pending' \subseteq Request,
           \A t \in Turn : <<"prompt", t>> \in pending' => <<"prompt", t>> \in pending,
           session'.runtime = session.runtime \/ child # "alive" \/ ladder = "gaveUp",
           child' = child, ladder = "gaveUp" => ladder' = "gaveUp",
           client' = "running" => client = "running"
    PROVE  AcpInv'
<1> DEFINE h == [s |-> session', t |-> turn, e |-> stream, c |-> cli']
<1>g. Acp!g0 \in AcpState /\ AcpGood(Acp!g0, native) BY DEF AcpInv, AcpGood
<1>1. h \in AcpState BY <1>g, AcpNow DEF AcpState
<1>2. Acp!g0' = h BY DEF Acp!g0
<1>3. StreamsOK(h.e, native, h.t, h.s.active) BY <1>g, AcpNow DEF AcpGood
<1>4. AcpGood(h, native) BY <1>1, <1>3 DEF AcpGood
<1>5. ASSUME client' = "running" PROVE AcpCalm'
  <2>1. AcpLink(Acp!g0, pipe, pending) /\ WorkOK(cli, native) /\ AcpPipe(pipe, native)
    BY <1>5 DEF AcpInv, AcpCalm
  <2>2. AcpLink(h, pipe, pending) BY <1>g, <1>1, <2>1, AcpNow, AcpLinkKeeps
  <2>3. AcpLink(h, pipe, pending') BY <2>2, AcpLinkFewer DEF AcpInv
  <2>4. WorkOK(cli, native)' BY <2>1 DEF WorkOK
  <2> QED BY <1>2, <2>1, <2>3, <2>4 DEF AcpCalm
<1>6. Leashed' BY DEF Leashed, AcpInv
<1>7. AcpGood(Acp!g0, native)' BY <1>2, <1>4
<1> QED BY <1>5, <1>6, <1>7 DEF AcpInv

\* A request of the handshake that times out fails the launch.
LEMMA AcpLaunchTimesOut == ASSUME AcpInv, Acp!LaunchTimesOut PROVE AcpInv'
<1>g. session \in AcpSession BY AcpNow DEF AcpInv, AcpGood, AcpState
<1>c. cli \in CliSet BY AcpNow DEF AcpInv, AcpGood, AcpState
<1>0. PICK h : h = [Acp!g0 EXCEPT !.s.at = "failing", !.s.closing = TRUE] OBVIOUS
<1>1. Acp!Become(h) BY <1>0 DEF Acp!LaunchTimesOut
<1>b. h = [s |-> [session EXCEPT !.at = "failing", !.closing = TRUE], t |-> turn, e |-> stream, c |-> cli]
  BY ONLY <1>0, AcpSetsAtClosing
<1>2. /\ session' = [session EXCEPT !.at = "failing", !.closing = TRUE]
      /\ turn' = turn /\ stream' = stream /\ cli' = cli
  BY ONLY <1>1, <1>b DEF Acp!Become
<1>3. /\ session' \in AcpSession /\ session'.active = session.active /\ session'.fatal = session.fatal
      /\ session'.timers = session.timers /\ session'.runtime = session.runtime
  BY <1>2, <1>g DEF AcpSession
<1>4. /\ pending' = {} /\ UNCHANGED <<native, pipe, launches, child, ladder, client>>
  BY DEF Acp!LaunchTimesOut, Acp!processVars
<1> QED BY <1>2, <1>3, <1>4, <1>c, AcpSessionStep

\* Closing the client leaves it unable to run and nothing pending.
LEMMA AcpCloseClient ==
    ASSUME Acp!CloseClient PROVE /\ client' # "running" /\ pending' = {}
                                 /\ ladder = "gaveUp" => ladder' = "gaveUp"
BY DEF Acp!CloseClient, Acp!StartLadder

\* A launch that fails closes its client.
LEMMA AcpLaunchFails == ASSUME AcpInv, Acp!LaunchFails PROVE AcpInv'
<1>g. session \in AcpSession BY AcpNow DEF AcpInv, AcpGood, AcpState
<1>c. cli \in CliSet BY AcpNow DEF AcpInv, AcpGood, AcpState
<1>1. session' = [session EXCEPT !.at = "closing"] /\ UNCHANGED <<turn, stream, cli, native, pipe, launches, child>>
  BY DEF Acp!LaunchFails
<1>2. client' # "running" /\ pending' = {} /\ (ladder = "gaveUp" => ladder' = "gaveUp")
  BY AcpCloseClient DEF Acp!LaunchFails
<1>3. /\ session' \in AcpSession /\ session'.active = session.active /\ session'.fatal = session.fatal
      /\ session'.timers = session.timers /\ session'.runtime = session.runtime
  BY <1>1, <1>g DEF AcpSession
<1> QED BY <1>1, <1>2, <1>3, <1>c, AcpSessionStep

\* A spawn that throws leaves no runtime.
LEMMA AcpLaunchThrows == ASSUME AcpInv, Acp!LaunchThrows PROVE AcpInv'
<1>g. session \in AcpSession BY AcpNow DEF AcpInv, AcpGood, AcpState
<1>c. cli \in CliSet BY AcpNow DEF AcpInv, AcpGood, AcpState
<1>1. /\ session' = [session EXCEPT !.at = "none", !.runtime = FALSE]
      /\ UNCHANGED <<turn, stream, cli, native, pipe, launches, child, ladder, client, pending>>
      /\ child = "gone" \/ ladder = "gaveUp"
  BY DEF Acp!LaunchThrows, Acp!processVars, Acp!cliVars, Acp!rpcVars, Acp!CloseSettled
<1>3. /\ session' \in AcpSession /\ session'.active = session.active /\ session'.fatal = session.fatal
      /\ session'.timers = session.timers
  BY <1>1, <1>g DEF AcpSession
<1>4. pending' \subseteq Request BY <1>1 DEF AcpInv
<1> QED BY <1>1, <1>3, <1>4, <1>c, AcpSessionStep

\* session/close is asked only of a client that runs.
LEMMA AcpCloseNative == ASSUME AcpInv, Acp!CloseNative PROVE AcpInv'
<1>g. session \in AcpSession BY AcpNow DEF AcpInv, AcpGood, AcpState
<1>c. cli \in CliSet BY AcpNow DEF AcpInv, AcpGood, AcpState
<1>1. /\ session' = [session EXCEPT !.closer = "native"]
      /\ UNCHANGED <<turn, stream, native, pipe, launches, child, ladder, client>>
  BY DEF Acp!CloseNative, Acp!processVars
<1>2. <<"close", NoTurn>> \in Request BY DEF Request, Subject
<1>3. /\ pending' = pending \/ pending' = pending \cup {<<"close", NoTurn>>}
      /\ cli' = cli \/ cli' = Acp!Asked(cli, <<"close", NoTurn>>)
  BY AcpNames DEF Acp!CloseNative
<1>4. cli' \in CliSet /\ cli'.work = cli.work /\ cli'.interrupted = cli.interrupted
  BY <1>2, <1>3, <1>c, AcpAsked
<1>5. /\ session' \in AcpSession /\ session'.active = session.active /\ session'.fatal = session.fatal
      /\ session'.timers = session.timers /\ session'.runtime = session.runtime
  BY <1>1, <1>g DEF AcpSession
<1>6. pending' \subseteq Request /\ \A t \in Turn : <<"prompt", t>> \in pending' => <<"prompt", t>> \in pending
  BY <1>2, <1>3 DEF AcpInv
<1> QED BY <1>1, <1>4, <1>5, <1>6, AcpSessionStep

\* A close ends once its CLI is gone or could not be killed.
LEMMA AcpCloseEnds == ASSUME AcpInv, Acp!CloseEnds PROVE AcpInv'
<1>g. session \in AcpSession BY AcpNow DEF AcpInv, AcpGood, AcpState
<1>c. cli \in CliSet BY AcpNow DEF AcpInv, AcpGood, AcpState
<1>1. /\ session' = IF child = "gone" THEN [session EXCEPT !.closer = "none", !.runtime = FALSE, !.at = "none"]
                    ELSE [session EXCEPT !.closer = "none"]
      /\ UNCHANGED <<turn, stream, cli, native, pipe, launches, child, ladder, client, pending>>
  BY DEF Acp!CloseEnds, Acp!processVars, Acp!cliVars, Acp!rpcVars
<1>3. /\ session' \in AcpSession /\ session'.active = session.active /\ session'.fatal = session.fatal
      /\ session'.timers = session.timers /\ (child = "gone" \/ session'.runtime = session.runtime)
  BY <1>1, <1>g DEF AcpSession
<1>4. pending' \subseteq Request BY <1>1 DEF AcpInv
<1> QED BY <1>1, <1>3, <1>4, <1>c, AcpSessionStep

\* EXCEPTs on the state as the records they make.
LEMMA AcpSetsCancel ==
    ASSUME NEW k \in AcpState, NEW t \in Turn, NEW y
    PROVE  [k EXCEPT !.t[t].cancel = y]
           = [s |-> k.s, t |-> [k.t EXCEPT ![t].cancel = y], e |-> k.e, c |-> k.c]
BY DEF AcpState

LEMMA AcpSetsClosing ==
    ASSUME NEW y
    PROVE  [Acp!g0 EXCEPT !.s.closing = y]
           = [s |-> [session EXCEPT !.closing = y], t |-> turn, e |-> stream, c |-> cli]
BY DEF Acp!g0

LEMMA AcpSetsCloser ==
    [Acp!g0 EXCEPT !.s.closing = TRUE, !.s.closer = "settle"]
    = [s |-> [session EXCEPT !.closing = TRUE, !.closer = "settle"], t |-> turn, e |-> stream, c |-> cli]
<1>1. [Acp!g0 EXCEPT !.s.closing = TRUE]
      = [s |-> [session EXCEPT !.closing = TRUE], t |-> turn, e |-> stream, c |-> cli]
  BY AcpSetsClosing
<1>2. [[s |-> [session EXCEPT !.closing = TRUE], t |-> turn, e |-> stream, c |-> cli] EXCEPT !.s.closer = "settle"]
      = [s |-> [session EXCEPT !.closing = TRUE, !.closer = "settle"], t |-> turn, e |-> stream, c |-> cli]
  OBVIOUS
<1> QED BY <1>1, <1>2

\* The turn is to be cancelled, and the CLI is told.
LEMMA AcpCancels ==
    ASSUME AcpInv, NEW t \in Turn, t = session.active, NEW ss \in AcpSession,
           ss.active = session.active, ss.fatal = session.fatal, ss.timers = session.timers,
           ss.runtime = session.runtime,
           Acp!Become(Acp!NotifyCancel([s |-> ss, t |-> [turn EXCEPT ![t].cancel = TRUE],
                                        e |-> stream, c |-> cli], t)),
           UNCHANGED <<native, pipe, pending, child, ladder, client>>
    PROVE  AcpInv'
<1> DEFINE tt == [turn EXCEPT ![t].cancel = TRUE]
           k == [s |-> ss, t |-> tt, e |-> stream, c |-> cli]
           h == Acp!NotifyCancel(k, t)
<1>g. Acp!g0 \in AcpState BY DEF AcpInv, AcpGood
<1>1. /\ tt \in [Turn -> AcpTurn] /\ tt[t].cancel
      /\ \A u \in Turn : (turn[u].cancel => tt[u].cancel) /\ (turn[u].held => tt[u].held)
                         /\ tt[u].run = turn[u].run
  <2>1. turn \in [Turn -> AcpTurn] BY <1>g, AcpNow DEF AcpState
  <2>2. tt \in [Turn -> AcpTurn] BY <2>1 DEF AcpTurn
  <2>3. tt[t].cancel /\ tt[t].held = turn[t].held /\ tt[t].run = turn[t].run BY <2>1 DEF AcpTurn
  <2>4. \A u \in Turn \ {t} : tt[u] = turn[u] BY <2>1
  <2> HIDE DEF tt
  <2> QED BY <2>2, <2>3, <2>4
<1> HIDE DEF tt
<1>2. k \in AcpState BY <1>1, <1>g, AcpNow DEF AcpState
<1>3. AcpAlike(Acp!g0, k) BY <1>1, <1>2, AcpNow DEF AcpAlike
<1>4. AcpGood(k, native) /\ (AcpLink(Acp!g0, pipe, pending) => AcpLink(k, pipe, pending))
  BY <1>3, AcpAlikeKeeps DEF AcpInv
<1>5. /\ AcpGood(h, native) /\ h.s = ss /\ h.e = stream
      /\ AcpLink(k, pipe, pending) => AcpLink(h, pipe, pending)
  <2>1. k.s = ss /\ k.t = tt /\ k.e = stream /\ k.c = cli OBVIOUS
  <2> HIDE DEF k
  <2> QED BY <1>1, <1>4, <2>1, AcpNotifyCancel
<1>6. h.c.work = cli.work
  <2>1. h.c = cli \/ h.c = Acp!Interrupted(cli)
    <3>1. k.c = cli /\ k \in AcpState BY <1>2
    <3> HIDE DEF k
    <3> QED BY <3>1 DEF Acp!NotifyCancel, AcpState
  <2> QED BY <2>1, <1>g, AcpNow DEF Acp!Interrupted, AcpState, CliSet
<1>7. pending' \subseteq Request BY DEF AcpInv
<1>8. Acp!Become(h) BY DEF tt
<1> HIDE DEF h, k
<1> QED BY <1>4, <1>5, <1>6, <1>7, <1>8, AcpSettles DEF AcpInv, AcpCalm

\* A cancel is sent to the CLI only for the prompt that is active.
LEMMA AcpCancel == ASSUME AcpInv, Acp!Cancel PROVE AcpInv'
<1>g. Acp!g0 \in AcpState /\ session \in AcpSession BY AcpNow DEF AcpInv, AcpGood, AcpState
<1>1. session.active \in Turn BY <1>g, AcpNames DEF Acp!Cancel, AcpSession, Subject
<1> DEFINE t == session.active
<1>2. [Acp!g0 EXCEPT !.t[t].cancel = TRUE]
      = [s |-> session, t |-> [turn EXCEPT ![t].cancel = TRUE], e |-> stream, c |-> cli]
  BY <1>1, <1>g, AcpNow, AcpSetsCancel
<1>3. Acp!Become(Acp!NotifyCancel([Acp!g0 EXCEPT !.t[t].cancel = TRUE], t))
  BY DEF Acp!Cancel
<1>4. UNCHANGED <<native, pipe, pending, child, ladder, client>>
  BY DEF Acp!Cancel, Acp!processVars, Acp!rpcVars
<1> QED BY <1>g, <1>1, <1>2, <1>3, <1>4, AcpCancels

\* A close of the session cancels the prompt that is active.
LEMMA AcpClose == ASSUME AcpInv, Acp!Close PROVE AcpInv'
<1>g. Acp!g0 \in AcpState /\ session \in AcpSession /\ cli \in CliSet
  BY AcpNow DEF AcpInv, AcpGood, AcpState
<1> DEFINE ss == [session EXCEPT !.closing = TRUE, !.closer = "settle"]
           t == session.active
           k == [s |-> ss, t |-> turn, e |-> stream, c |-> cli]
<1>1. [Acp!g0 EXCEPT !.s.closing = TRUE, !.s.closer = "settle"] = k
  BY AcpSetsCloser
<1>2. /\ ss \in AcpSession /\ ss.active = session.active /\ ss.fatal = session.fatal
      /\ ss.timers = session.timers /\ ss.runtime = session.runtime
  BY <1>g DEF AcpSession
<1>3. UNCHANGED <<native, pipe, pending, child, ladder, client, launches>>
  BY DEF Acp!Close, Acp!processVars, Acp!rpcVars
<1>4. CASE t = NoTurn \/ turn[t].cancel
  <2>1. Acp!Become(k) BY <1>1, <1>4, AcpNames DEF Acp!Close
  <2>2. session' = ss /\ UNCHANGED <<turn, stream, cli>> BY <2>1 DEF Acp!Become
  <2> HIDE DEF ss
  <2>3. pending' \subseteq Request BY <1>3 DEF AcpInv
  <2> QED BY <1>g, <1>2, <1>3, <2>2, <2>3, AcpSessionStep
<1>5. CASE ~(t = NoTurn \/ turn[t].cancel)
  <2>1. Acp!Become(Acp!NotifyCancel([k EXCEPT !.t[t].cancel = TRUE], t))
    BY <1>1, <1>5, AcpNames DEF Acp!Close
  <2>2. [k EXCEPT !.t[t].cancel = TRUE] = [s |-> ss, t |-> [turn EXCEPT ![t].cancel = TRUE], e |-> stream, c |-> cli]
    <3>1. k \in AcpState /\ k.s = ss /\ k.t = turn /\ k.e = stream /\ k.c = cli
      <4> HIDE DEF ss
      <4> QED BY <1>2, <1>g, AcpNow DEF AcpState
    <3>2. t \in Turn BY <1>g, <1>5, AcpNames DEF AcpSession, Subject
    <3> HIDE DEF k, ss
    <3> QED BY <3>1, <3>2, AcpSetsCancel
  <2>3. t \in Turn BY <1>g, <1>5, AcpNames DEF AcpSession, Subject
  <2> HIDE DEF ss, k
  <2> QED BY <1>2, <1>3, <2>1, <2>2, <2>3, AcpCancels
<1> QED BY <1>4, <1>5

\* A step that ends the active turn, whose CLI has nothing more to say unless the session is lost.
LEMMA AcpSettlesEnds ==
    ASSUME AcpInv, NEW h, Acp!Become(h), NEW t \in Turn, NEW o \in Outcome, NEW m \in BOOLEAN,
           AcpEnds(Acp!g0, h, t, o, m),
           o = "completed" => native[t] = "completed", o = "cancelled" => turn[t].cancel,
           native' = native, pipe' = pipe \/ (pipe # <<>> /\ pipe' = Tail(pipe)),
           pending' \subseteq Request,
           \A u \in Turn : <<"prompt", u>> \in pending' => <<"prompt", u>> \in pending,
           child' = child \/ child' # "alive", ladder = "gaveUp" => ladder' = "gaveUp",
           client' = "running" =>
               client = "running" /\ t = session.active /\ (m \/ (Silent(cli, pipe') /\ ~turn[t].held))
    PROVE  AcpInv'
<1>1. /\ AcpGood(h, native)
      /\ \A f, p : AcpLink(Acp!g0, f, p) /\ session.active = t /\ (m \/ (Silent(cli, f) /\ ~turn[t].held))
                   => AcpLink(h, f, p)
  <2>1. o = "cancelled" => Acp!g0.t[t].cancel BY AcpNow
  <2>2. /\ AcpGood(h, native)
        /\ \A f, p : AcpLink(Acp!g0, f, p) /\ Acp!g0.s.active = t
                     /\ (m \/ (Silent(Acp!g0.c, f) /\ ~Acp!g0.t[t].held)) => AcpLink(h, f, p)
    BY <2>1, AcpEndsKeeps DEF AcpInv
  <2> QED BY <2>2, AcpNow
<1>2. h.s.runtime = session.runtime /\ h.c.work = cli.work BY AcpNow DEF AcpEnds
<1>3. ASSUME client' = "running" PROVE AcpLink(h, pipe', pending')
  <2>1. AcpLink(Acp!g0, pipe', pending')
    BY <1>3, AcpLinkFewer DEF AcpInv, AcpCalm
  <2> QED BY <1>1, <1>3, <2>1
<1> QED BY <1>1, <1>2, <1>3, AcpSettles

\* The active turn has a stream that has not ended.
LEMMA AcpActive ==
    ASSUME AcpInv, session.active # NoTurn
    PROVE  session.active \in Turn /\ stream[session.active].open /\ stream[session.active].ends = <<>>
<1>1. session.active \in Turn BY AcpNow DEF AcpInv, AcpGood, AcpState, AcpSession, Subject
<1> QED BY <1>1, AcpNow DEF AcpInv, AcpGood, StreamsOK

\* A write that fails ends the prompt it was for, and the session.
LEMMA AcpWriteFails == ASSUME AcpInv, Acp!WriteFails PROVE AcpInv'
<1>1. PICK t \in Turn :
        /\ <<"prompt", t>> \in pending /\ client = "running" /\ native[t] = "none"
        /\ pending' = pending \ {<<"prompt", t>>}
        /\ Acp!Become(Acp!PromptRejected(Acp!g0, t, client))
        /\ UNCHANGED <<child, ladder, pipe, native, client>>
  BY AcpNames DEF Acp!WriteFails, Acp!processVars
<1> DEFINE h == Acp!PromptRejected(Acp!g0, t, client)
<1>2. pending' \subseteq Request BY <1>1 DEF AcpInv
<1>3. IF stream[t].ends # <<>> \/ turn[t].held THEN AcpAlike(Acp!g0, h)
      ELSE AcpEnds(Acp!g0, h, t, "failed", FALSE)
  BY <1>1, AcpNow, AcpPromptRejected DEF AcpInv
<1>4. Acp!Become(h) BY <1>1
<1> HIDE DEF h
<1>5. CASE stream[t].ends # <<>> \/ turn[t].held
  BY <1>1, <1>2, <1>3, <1>4, <1>5, AcpSettlesAlike
<1>6. CASE stream[t].ends = <<>> /\ ~turn[t].held
  <2>1. AcpLink(Acp!g0, pipe, pending) /\ WorkOK(cli, native) /\ AcpPipe(pipe, native)
    BY <1>1 DEF AcpInv, AcpCalm
  <2>2. session.active = t BY <1>1, <1>6, <2>1, AcpNow DEF AcpLink
  <2>3. ~session.fatal BY <2>1, <2>2, AcpNow DEF AcpLink, Turn, NoTurn
  <2>4. \A i \in DOMAIN cli.work : cli.work[i] = t
    BY <2>1, <2>2, <2>3, AcpNow DEF AcpLink, AcpOwed
  <2>5. cli \in CliSet BY AcpNow DEF AcpInv, AcpGood, AcpState
  <2>6. cli.work = <<>>
    <3> SUFFICES ASSUME cli.work # <<>> PROVE FALSE OBVIOUS
    <3>1. 1 \in DOMAIN cli.work BY <2>5 DEF CliSet
    <3> QED BY <3>1, <2>1, <2>4, <1>1 DEF WorkOK
  <2>7. \A i \in DOMAIN pipe : ~Speaks(pipe[i])
    BY <2>1, <2>2, <2>3, <1>1, AcpNow DEF AcpLink, AcpOwed, AcpPipe
  <2>8. Silent(cli, pipe') BY <2>6, <2>7, <1>1 DEF Silent
  <2>9. PICK o \in Outcome : o = "failed" BY DEF Outcome
  <2>10. o # "completed" /\ o # "cancelled" /\ AcpEnds(Acp!g0, h, t, o, FALSE) BY <2>9, <1>3, <1>6
  <2> QED BY <1>1, <1>2, <1>4, <1>6, <2>2, <2>8, <2>10, AcpSettlesEnds
<1> QED BY <1>5, <1>6

\* A change of the session that the streams do not see
LEMMA AcpWithSession ==
    ASSUME AcpInv, NEW ss \in AcpSession, ss.active = session.active, ss.fatal = session.fatal,
           ss.timers \subseteq session.timers
    PROVE  /\ [s |-> ss, t |-> turn, e |-> stream, c |-> cli] \in AcpState
           /\ AcpGood([s |-> ss, t |-> turn, e |-> stream, c |-> cli], native)
           /\ \A f, p : AcpLink(Acp!g0, f, p) => AcpLink([s |-> ss, t |-> turn, e |-> stream, c |-> cli], f, p)
<1> DEFINE k == [s |-> ss, t |-> turn, e |-> stream, c |-> cli]
<1>g. Acp!g0 \in AcpState /\ AcpGood(Acp!g0, native) BY DEF AcpInv, AcpGood
<1>1. k \in AcpState BY <1>g, AcpNow DEF AcpState
<1>2. AcpGood(k, native) BY <1>1, <1>g, AcpNow DEF AcpGood
<1>3. ASSUME NEW f, NEW p, AcpLink(Acp!g0, f, p) PROVE AcpLink(k, f, p)
  <2>1. k.s = ss /\ k.t = turn /\ k.e = stream /\ k.c = cli OBVIOUS
  <2> HIDE DEF k
  <2> QED BY <1>g, <1>1, <1>3, <2>1, AcpNow, AcpLinkKeeps
<1> QED BY <1>1, <1>2, <1>3

\* EXCEPTs on one field of the session as the records they make.
LEMMA AcpSetsOne ==
    ASSUME NEW x
    PROVE  /\ [Acp!g0 EXCEPT !.s.closer = x]
              = [s |-> [session EXCEPT !.closer = x], t |-> turn, e |-> stream, c |-> cli]
           /\ [Acp!g0 EXCEPT !.s.runtime = x]
              = [s |-> [session EXCEPT !.runtime = x], t |-> turn, e |-> stream, c |-> cli]
           /\ [Acp!g0 EXCEPT !.s.fatal = x]
              = [s |-> [session EXCEPT !.fatal = x], t |-> turn, e |-> stream, c |-> cli]
           /\ [Acp!g0 EXCEPT !.s.timers = x]
              = [s |-> [session EXCEPT !.timers = x], t |-> turn, e |-> stream, c |-> cli]
BY DEF Acp!g0

\* The close of a session goes on to close its client.
LEMMA AcpClosesClient == ASSUME AcpInv, Acp!ClosesClient PROVE AcpInv'
<1> DEFINE now == IF client = "failed" THEN "failed" ELSE "closing"
           ss == [session EXCEPT !.closer = "client"]
           k == [s |-> ss, t |-> turn, e |-> stream, c |-> cli]
           h == Acp!Rejected(k, now)
<1>1. Acp!Become(h)
  <2>1. Acp!Become(Acp!Rejected([Acp!g0 EXCEPT !.s.closer = "client"], now)) BY DEF Acp!ClosesClient
  <2>2. [Acp!g0 EXCEPT !.s.closer = "client"] = k BY AcpSetsOne
  <2> QED BY <2>1, <2>2
<1>2. /\ client' # "running" /\ pending' = {} /\ (ladder = "gaveUp" => ladder' = "gaveUp")
      /\ UNCHANGED <<child, pipe, native>>
  BY AcpCloseClient DEF Acp!ClosesClient
<1>3. /\ ss \in AcpSession /\ ss.active = session.active /\ ss.fatal = session.fatal
      /\ ss.timers = session.timers /\ ss.runtime = session.runtime
  BY AcpNow DEF AcpInv, AcpGood, AcpState, AcpSession
<1> HIDE DEF ss, now
<1>4. AcpGood(k, native) BY <1>3, AcpWithSession
<1>5. AcpGood(h, native) /\ h.s.runtime = session.runtime BY <1>3, <1>4, AcpRejected
<1> HIDE DEF h
<1> QED BY <1>1, <1>2, <1>5, AcpSettles

\* The prompt of a closed client is over.
LEMMA AcpPromptClosed == ASSUME AcpInv, Acp!PromptClosed PROVE AcpInv'
<1>1. PICK t \in Turn :
        /\ turn[t].run = "closing" /\ Acp!CloseSettled
        /\ Acp!Become(Acp!PromptFinally(Acp!FailTurn([Acp!g0 EXCEPT !.s.runtime = FALSE], t, FALSE), t))
        /\ UNCHANGED <<child, ladder, pipe, native, client, pending>>
  BY AcpNames DEF Acp!PromptClosed, Acp!processVars, Acp!rpcVars
<1> DEFINE ss == [session EXCEPT !.runtime = FALSE]
           k == [s |-> ss, t |-> turn, e |-> stream, c |-> cli]
           l == Acp!FailTurn(k, t, FALSE)
           h == Acp!PromptFinally(l, t)
<1>2. Acp!Become(h)
  <2>1. [Acp!g0 EXCEPT !.s.runtime = FALSE] = k BY AcpSetsOne
  <2> QED BY <1>1, <2>1
<1>3. client # "running" BY <1>1, AcpNow DEF AcpInv, AcpCalm, AcpLink
<1>4. /\ ss \in AcpSession /\ ss.active = session.active /\ ss.fatal = session.fatal
      /\ ss.timers = session.timers
  BY AcpNow DEF AcpInv, AcpGood, AcpState, AcpSession
<1> HIDE DEF ss
<1>5. AcpGood(k, native) /\ k \in AcpState BY <1>4, AcpWithSession
<1> HIDE DEF k
<1>6. k.e[t].open => k.e[t].ends = <<>> BY <1>5 DEF AcpGood, StreamsOK
<1>7. AcpGood(h, native)
  <2>1. PICK o \in Outcome : o = "failed" BY DEF Outcome
  <2>2. CASE k.e[t].ends # <<>>
    <3>1. l = k BY <2>2, <1>5, <1>6, AcpFailTurn
    <3>2. ~l.e[t].open BY <3>1, <2>2, <1>6
    <3> HIDE DEF l
    <3>3. AcpAlike(l, h) BY <3>1, <3>2, <1>5, AcpPromptFinally
    <3> QED BY <3>1, <3>3, <1>5, AcpAlikeKeeps
  <2>3. CASE k.e[t].ends = <<>>
    <3>1. AcpEnds(k, l, t, "failed", FALSE) BY <2>3, <1>5, <1>6, AcpFailTurn
    <3> HIDE DEF l
    <3>2. AcpEnds(k, h, t, "failed", FALSE) BY <3>1, <1>5, AcpEndsFinally
    <3>3. AcpEnds(k, h, t, o, FALSE) /\ o # "completed" /\ o # "cancelled" BY <2>1, <3>2
    <3> HIDE DEF h
    <3> QED BY <3>3, <1>5, AcpEndsKeeps
  <2> QED BY <2>2, <2>3
<1>8. pending' \subseteq Request BY <1>1 DEF AcpInv
<1>9. child # "alive" \/ ladder = "gaveUp" BY <1>1 DEF Acp!CloseSettled
<1> HIDE DEF h
<1>10. Acp!g0' = h BY <1>2, <1>7, AcpBecome DEF AcpGood
<1> QED BY <1>1, <1>3, <1>7, <1>8, <1>9, <1>10 DEF AcpInv, Leashed

\* A callback is armed: for a turn that is held until then, or for a lost session.
LEMMA AcpArms ==
    ASSUME NEW g, NEW h \in AcpState, NEW n, AcpGood(g, n),
           h.e = g.e, h.c.work = g.c.work, h.c.interrupted = g.c.interrupted, h.s.active = g.s.active,
           g.s.fatal => h.s.fatal, h.s.fatal => g.s.fatal \/ g.s.active = NoTurn,
           \A x \in h.s.timers :
                \/ x \in g.s.timers \/ h.s.fatal
                \/ /\ x[1] = "settle" /\ x[2] = h.s.active /\ h.s.active # NoTurn
                   /\ h.t[h.s.active].cancel /\ h.t[h.s.active].held,
           \A u \in Turn : (g.t[u].cancel => h.t[u].cancel) /\ (g.t[u].held => h.t[u].held),
           \A u \in Turn : h.t[u].run = "closing" => g.t[u].run = "closing"
    PROVE  /\ AcpGood(h, n)
           /\ \A f, p : AcpLink(g, f, p) => AcpLink(h, f, p)
<1>g. g \in AcpState /\ StreamsOK(g.e, n, g.t, g.s.active) BY DEF AcpGood
<1>1. AcpGood(h, n) BY <1>g, StreamsTurn DEF AcpGood
<1>2. ASSUME NEW f, NEW p, AcpLink(g, f, p) PROVE AcpLink(h, f, p)
  <2>1. \A u \in Turn : AcpOwed(g, u) => AcpOwed(h, u) BY <1>2 DEF AcpOwed, AcpLink, Turn, NoTurn
  <2>2. \A i \in DOMAIN g.c.work : g.c.work[i] \in Turn BY <1>g DEF AcpState, CliSet
  <2>3. g.c.work # <<>> => Head(g.c.work) \in Turn BY <1>g DEF AcpState, CliSet
  <2>4. Interruption(h.c, h.e, h.t) BY <2>3, <1>2 DEF Interruption, AcpLink
  <2>5. h.s.fatal => h.s.active = NoTurn BY <1>2 DEF AcpLink
  <2>6. \A x \in h.s.timers : ~h.s.fatal =>
            /\ x[1] = "settle" /\ x[2] = h.s.active /\ h.s.active # NoTurn
            /\ h.t[h.s.active].cancel /\ h.t[h.s.active].held
    <3> SUFFICES ASSUME NEW x \in h.s.timers, ~h.s.fatal
                 PROVE  /\ x[1] = "settle" /\ x[2] = h.s.active /\ h.s.active # NoTurn
                        /\ h.t[h.s.active].cancel /\ h.t[h.s.active].held
      OBVIOUS
    <3>1. h.s.active \in Subject BY DEF AcpState, AcpSession
    <3>2. CASE x \in g.s.timers BY <3>1, <3>2, <1>2 DEF AcpLink, Subject
    <3>3. CASE x \notin g.s.timers BY <3>3
    <3> QED BY <3>2, <3>3
  <2>7. /\ \A i \in DOMAIN h.c.work : AcpOwed(h, h.c.work[i])
        /\ \A i \in DOMAIN f : Speaks(f[i]) => f[i].id[2] \in Turn /\ AcpOwed(h, f[i].id[2])
    BY <2>1, <2>2, <1>2 DEF AcpLink
  <2>8. /\ \A t \in Turn : <<"prompt", t>> \in p => t = h.s.active \/ h.e[t].ends # <<>>
        /\ \A t \in Turn : h.t[t].run # "closing"
    BY <1>2 DEF AcpLink
  <2> QED BY <2>4, <2>5, <2>6, <2>7, <2>8 DEF AcpLink
<1> QED BY <1>1, <1>2

\* The session is lost, and the CLI is told.
LEMMA AcpInterrupts ==
    ASSUME NEW g, NEW n, AcpGood(g, n), NEW ss \in AcpSession, ss.active = g.s.active,
           ss.fatal = g.s.fatal, ss.timers = g.s.timers
    PROVE  /\ AcpGood([s |-> ss, t |-> g.t, e |-> g.e, c |-> Acp!Interrupted(g.c)], n)
           /\ Acp!Interrupted(g.c).work = g.c.work
           /\ \A f, p : AcpLink(g, f, p) /\ g.s.fatal
                        => AcpLink([s |-> ss, t |-> g.t, e |-> g.e, c |-> Acp!Interrupted(g.c)], f, p)
<1> DEFINE cc == Acp!Interrupted(g.c)
           h == [s |-> ss, t |-> g.t, e |-> g.e, c |-> cc]
<1>g. g \in AcpState /\ StreamsOK(g.e, n, g.t, g.s.active) BY DEF AcpGood
<1>1. cc \in CliSet /\ cc.work = g.c.work /\ (cc.interrupted => g.c.work # <<>> \/ g.c.interrupted)
  BY <1>g DEF Acp!Interrupted, AcpState, CliSet
<1> HIDE DEF cc
<1>2. h \in AcpState BY <1>g, <1>1 DEF AcpState
<1>3. AcpGood(h, n) BY <1>2, <1>g DEF AcpGood
<1>4. ASSUME NEW f, NEW p, AcpLink(g, f, p), g.s.fatal PROVE AcpLink(h, f, p)
  <2>1. g.c.work # <<>> => 1 \in DOMAIN g.c.work /\ Head(g.c.work) = g.c.work[1]
    BY <1>g DEF AcpState, CliSet
  <2>2. Interruption(cc, g.e, g.t) BY <2>1, <1>1, <1>4 DEF AcpLink, AcpOwed, Interruption
  <2>3. \A u : AcpOwed(g, u) <=> AcpOwed(h, u) BY DEF AcpOwed
  <2>4. h.s = ss /\ h.t = g.t /\ h.e = g.e /\ h.c = cc OBVIOUS
  <2> HIDE DEF h
  <2> QED BY <2>2, <2>3, <2>4, <1>1, <1>4 DEF AcpLink
<1> QED BY <1>1, <1>3, <1>4 DEF cc

\* The exit of the CLI ends the prompt that was active.
LEMMA AcpHandleExit == ASSUME AcpInv, Acp!HandleExit PROVE AcpInv'
<1>1. /\ child = "dead" /\ child' = "exited" /\ UNCHANGED <<pipe, native>>
      /\ pending' \subseteq pending /\ client' # "running"
  BY DEF Acp!HandleExit, Acp!ObserveExit, Acp!ClientAfterExit, Acp!PendingAfterExit
<1> DEFINE x == session.runtime /\ (session.closing \/ (expected /\ client' # "failed"))
           ss == [session EXCEPT !.runtime = x]
           k == [s |-> ss, t |-> turn, e |-> stream, c |-> cli]
           h == IF client = "running" THEN Acp!Rejected(k, "failed") ELSE k
<1>2. Acp!Become(h) /\ (ladder' = ladder \/ (ladder = "none" \/ ladder' = ladder))
  <2>1. [Acp!g0 EXCEPT !.s.runtime = @ /\ (session.closing \/ (expected /\ client' # "failed"))] = k
    <3>1. [Acp!g0 EXCEPT !.s.runtime = x] = k BY AcpSetsOne
    <3>2. Acp!g0.s.runtime = session.runtime BY AcpNow
    <3> QED BY <3>1, <3>2
  <2>2. Acp!Become(h) BY <2>1 DEF Acp!HandleExit
  <2>3. ladder' = ladder \/ ladder = "none" BY DEF Acp!HandleExit, Acp!StartLadder
  <2> QED BY <2>2, <2>3
<1>3. /\ ss \in AcpSession /\ ss.active = session.active /\ ss.fatal = session.fatal
      /\ ss.timers = session.timers
  <2>1. x \in BOOLEAN OBVIOUS
  <2> HIDE DEF x
  <2> QED BY <2>1, AcpNow DEF AcpInv, AcpGood, AcpState, AcpSession
<1> HIDE DEF ss
<1>4. AcpGood(k, native) BY <1>3, AcpWithSession
<1> HIDE DEF k
<1>5. AcpGood(h, native) BY <1>4, AcpRejected
<1>6. pending' \subseteq Request BY <1>1 DEF AcpInv
<1> HIDE DEF h
<1> QED BY <1>1, <1>2, <1>5, <1>6, AcpSettles

\* A line on stderr ends no prompt twice.
LEMMA AcpHandleStderr == ASSUME AcpInv, Acp!HandleStderr PROVE AcpInv'
<1>1. UNCHANGED <<child, ladder, pipe, native, client, pending>> /\ pending' \subseteq Request
  BY DEF Acp!HandleStderr, Acp!processVars, Acp!rpcVars, AcpInv
<1> DEFINE t == session.active
<1>g. /\ Acp!g0 \in AcpState /\ AcpGood(Acp!g0, native) /\ session \in AcpSession
  BY AcpNow DEF AcpInv, AcpGood, AcpState
<1>2. CASE t = NoTurn
  <2> DEFINE ss == [session EXCEPT !.fatal = TRUE]
             h == [s |-> ss, t |-> turn, e |-> stream, c |-> cli]
  <2>1. Acp!Become(h)
    <3>1. [Acp!g0 EXCEPT !.s.fatal = TRUE] = h BY AcpSetsOne
    <3> QED BY <1>2, <3>1, AcpNames DEF Acp!HandleStderr
  <2>2. /\ ss \in AcpSession /\ ss.active = session.active /\ ss.fatal = TRUE
        /\ ss.timers = session.timers /\ ss.runtime = session.runtime
    BY <1>g DEF AcpSession
  <2> HIDE DEF ss
  <2>3. h \in AcpState /\ h.s = ss /\ h.t = turn /\ h.e = stream /\ h.c = cli
    BY <2>2, <1>g, AcpNow DEF AcpState
  <2> HIDE DEF h
  <2>4. AcpGood(h, native) /\ \A f, p : AcpLink(Acp!g0, f, p) => AcpLink(h, f, p)
    BY <1>2, <1>g, <2>2, <2>3, AcpNow, AcpArms
  <2> QED BY <1>1, <2>1, <2>2, <2>3, <2>4, AcpSettles DEF AcpInv, AcpCalm
<1>3. CASE t # NoTurn
  <2> DEFINE k == Acp!FailTurn(Acp!g0, t, TRUE)
             h == [k EXCEPT !.t[t].cancel = TRUE, !.s.timers = @ \cup {<<"cancel", t>>}]
  <2>1. t \in Turn /\ stream[t].ends = <<>> /\ stream[t].open BY <1>3, AcpActive
  <2>2. Acp!Become(h)
    <3>1. ~Acp!Terminal(Acp!g0, t) BY <2>1, AcpNow DEF Acp!Terminal
    <3> QED BY <1>3, <3>1, AcpNames DEF Acp!HandleStderr
  <2>3. AcpEnds(Acp!g0, k, t, "failed", TRUE)
    <3>1. Acp!g0.e[t].ends = <<>> BY <2>1, AcpNow
    <3> QED BY <2>1, <3>1, <1>g, AcpFailTurn
  <2> HIDE DEF k
  <2>4. AcpGood(k, native) /\ \A f, p : AcpLink(Acp!g0, f, p) => AcpLink(k, f, p)
    <3>1. PICK o \in Outcome : o = "failed" BY DEF Outcome
    <3>2. AcpEnds(Acp!g0, k, t, o, TRUE) /\ o # "completed" /\ o # "cancelled" BY <2>3, <3>1
    <3>3. /\ AcpGood(k, native)
          /\ \A f, p : AcpLink(Acp!g0, f, p) /\ Acp!g0.s.active = t => AcpLink(k, f, p)
      BY <2>1, <3>2, <1>g, AcpEndsKeeps
    <3> QED BY <3>3, AcpNow
  <2>5. k \in AcpState /\ k.s.fatal /\ k.s.runtime = session.runtime /\ k.c.work = cli.work
        /\ k.s.active = NoTurn
    BY <2>3, AcpNow DEF AcpEnds
  <2> DEFINE ss == [k.s EXCEPT !.timers = @ \cup {<<"cancel", t>>}]
             tt == [k.t EXCEPT ![t].cancel = TRUE]
             l == [s |-> k.s, t |-> tt, e |-> k.e, c |-> k.c]
  <2>6. h = [s |-> ss, t |-> tt, e |-> k.e, c |-> k.c]
    <3>1. [k EXCEPT !.t[t].cancel = TRUE] = l BY <2>1, <2>5, AcpSetsCancel
    <3>2. [l EXCEPT !.s.timers = @ \cup {<<"cancel", t>>}] = [s |-> ss, t |-> tt, e |-> k.e, c |-> k.c]
      <4> HIDE DEF tt
      <4> QED OBVIOUS
    <3> QED BY <3>1, <3>2
  <2>7. /\ ss \in AcpSession /\ ss.active = k.s.active /\ ss.fatal = k.s.fatal
        /\ ss.runtime = k.s.runtime
    <3>1. k.s \in AcpSession BY <2>5 DEF AcpState
    <3>2. PICK x \in {"settle", "cancel"} \X Turn : x = <<"cancel", t>> BY <2>1
    <3>3. ss = [k.s EXCEPT !.timers = k.s.timers \cup {x}] BY <3>2
    <3>4. k.s.timers \cup {x} \in SUBSET (({"settle", "cancel"} \X Turn) \cup {<<"fatal", NoTurn>>})
      BY <3>1 DEF AcpSession
    <3> HIDE DEF k
    <3> QED BY <3>1, <3>3, <3>4 DEF AcpSession
  <2>8. /\ tt \in [Turn -> AcpTurn]
        /\ \A u \in Turn : (k.t[u].cancel => tt[u].cancel) /\ tt[u].held = k.t[u].held
                           /\ tt[u].run = k.t[u].run
    <3>1. k.t \in [Turn -> AcpTurn] BY <2>5 DEF AcpState
    <3>2. tt \in [Turn -> AcpTurn] BY <3>1 DEF AcpTurn
    <3>3. tt[t].cancel /\ tt[t].held = k.t[t].held /\ tt[t].run = k.t[t].run BY <2>1, <3>1 DEF AcpTurn
    <3>4. \A u \in Turn \ {t} : tt[u] = k.t[u] BY <3>1
    <3> HIDE DEF tt
    <3> QED BY <3>2, <3>3, <3>4
  <2> HIDE DEF ss, tt, h
  <2>9. h \in AcpState /\ h.s = ss /\ h.t = tt /\ h.e = k.e /\ h.c = k.c
    BY <2>5, <2>6, <2>7, <2>8 DEF AcpState
  <2>10. AcpGood(h, native) /\ \A f, p : AcpLink(k, f, p) => AcpLink(h, f, p)
    BY <2>4, <2>5, <2>7, <2>8, <2>9, AcpArms
  <2> QED BY <1>1, <2>2, <2>4, <2>5, <2>7, <2>9, <2>10, AcpSettles DEF AcpInv, AcpCalm
<1> QED BY <1>2, <1>3

\* An EXCEPT on the state as the record it makes.
LEMMA AcpSetsFatalSent ==
    ASSUME NEW k \in AcpState, NEW y
    PROVE  [k EXCEPT !.s.fatalSent = y]
           = [s |-> [k.s EXCEPT !.fatalSent = y], t |-> k.t, e |-> k.e, c |-> k.c]
BY DEF AcpState

\* The timer of a cancelled prompt ends that prompt, and no other.
LEMMA AcpTimerFires == ASSUME AcpInv, Acp!TimerFires PROVE AcpInv'
<1>1. PICK x \in session.timers :
        LET g == [Acp!g0 EXCEPT !.s.timers = @ \ {x}]
        IN  /\ Acp!Become(CASE x[1] = "settle" -> Acp!FailTurn(Acp!NotifyCancel(g, x[2]), x[2], TRUE)
                            [] x[1] = "cancel" -> Acp!NotifyCancel(g, x[2])
                            [] x[1] = "fatal" -> IF g.s.fatalSent \/ client # "running" \/ g.s.at # "ready"
                                                 THEN g
                                                 ELSE [g EXCEPT !.s.fatalSent = TRUE, !.c = Acp!Interrupted(@)])
            /\ UNCHANGED <<Acp!processVars, pipe, native, faults, Acp!rpcVars>>
  BY DEF Acp!TimerFires
<1>2. UNCHANGED <<child, ladder, pipe, native, client, pending>> /\ pending' \subseteq Request
  BY <1>1 DEF Acp!processVars, Acp!rpcVars, AcpInv
<1> DEFINE ss == [session EXCEPT !.timers = session.timers \ {x}]
           g == [s |-> ss, t |-> turn, e |-> stream, c |-> cli]
<1>g. Acp!g0 \in AcpState /\ AcpGood(Acp!g0, native) /\ session \in AcpSession
  BY AcpNow DEF AcpInv, AcpGood, AcpState
<1>3. [Acp!g0 EXCEPT !.s.timers = @ \ {x}] = g
  <2>1. Acp!g0.s.timers = session.timers BY AcpNow
  <2>2. [Acp!g0 EXCEPT !.s.timers = session.timers \ {x}] = g BY AcpSetsOne
  <2> QED BY <2>1, <2>2
<1>4. /\ ss \in AcpSession /\ ss.active = session.active /\ ss.fatal = session.fatal
      /\ ss.timers \subseteq session.timers /\ ss.runtime = session.runtime
  BY <1>g DEF AcpSession
<1> HIDE DEF ss
<1>5. /\ g \in AcpState /\ AcpGood(g, native) /\ \A f, p : AcpLink(Acp!g0, f, p) => AcpLink(g, f, p)
  BY <1>4, AcpWithSession
<1>6. g.s = ss /\ g.t = turn /\ g.e = stream /\ g.c = cli OBVIOUS
<1>7. Acp!Become(CASE x[1] = "settle" -> Acp!FailTurn(Acp!NotifyCancel(g, x[2]), x[2], TRUE)
                   [] x[1] = "cancel" -> Acp!NotifyCancel(g, x[2])
                   [] x[1] = "fatal" -> IF g.s.fatalSent \/ client # "running" \/ g.s.at # "ready"
                                        THEN g
                                        ELSE [g EXCEPT !.s.fatalSent = TRUE, !.c = Acp!Interrupted(@)])
  BY <1>1, <1>3
<1>8. /\ \/ x[1] \in {"settle", "cancel"} /\ x[2] \in Turn
         \/ x[1] = "fatal"
      /\ x \in session.timers
  BY <1>g DEF AcpSession
<1> HIDE DEF g
<1>9. client = "running" /\ ~session.fatal =>
        /\ x[1] = "settle" /\ x[2] = session.active /\ turn[x[2]].cancel
        /\ AcpLink(g, pipe, pending)
  BY <1>5, AcpNow DEF AcpInv, AcpCalm, AcpLink
<1>10. client = "running" => AcpLink(g, pipe, pending) BY <1>5 DEF AcpInv, AcpCalm
<1>11. CASE x[1] \in {"settle", "cancel"} /\ x[2] \in Turn
  <2> DEFINE t == x[2]
             k == Acp!NotifyCancel(g, t)
  <2>1. /\ AcpGood(k, native) /\ k.s = ss /\ k.e = stream /\ k.c.work = cli.work
        /\ \A f, p : AcpLink(g, f, p)
                     /\ (client # "running" \/ g.s.fatal \/ (t = g.s.active /\ g.t[t].cancel)) => AcpLink(k, f, p)
    BY <1>5, <1>6, <1>11, AcpNotifyCancel
  <2> HIDE DEF k
  <2>2. client = "running" => AcpLink(k, pipe, pending)
    BY <2>1, <1>4, <1>6, <1>9, <1>10
  <2>3. CASE x[1] = "cancel"
    <3>1. Acp!Become(k) BY <1>7, <2>3 DEF k
    <3> QED BY <1>2, <1>4, <2>1, <2>2, <3>1, AcpSettles
  <2>4. CASE x[1] = "settle"
    <3> DEFINE h == Acp!FailTurn(k, t, TRUE)
    <3>1. Acp!Become(h) BY <1>7, <2>4 DEF k
    <3>2. k \in AcpState /\ (k.e[t].open => k.e[t].ends = <<>>) BY <2>1, <1>11 DEF AcpGood, StreamsOK
    <3>3. CASE k.e[t].ends # <<>>
      <4>1. h = k BY <3>2, <3>3, <1>11, AcpFailTurn
      <4> QED BY <1>2, <1>4, <2>1, <2>2, <3>1, <4>1, AcpSettles
    <3>4. CASE k.e[t].ends = <<>>
      <4>1. AcpEnds(k, h, t, "failed", TRUE) BY <3>2, <3>4, <1>11, AcpFailTurn
      <4> HIDE DEF h
      <4>2. PICK o \in Outcome : o = "failed" BY DEF Outcome
      <4>3. AcpEnds(k, h, t, o, TRUE) /\ o # "completed" /\ o # "cancelled" BY <4>1, <4>2
      <4>4. /\ AcpGood(h, native)
            /\ \A f, p : AcpLink(k, f, p) /\ k.s.active = t => AcpLink(h, f, p)
        BY <1>11, <2>1, <4>3, AcpEndsKeeps
      <4>5. ASSUME client = "running" PROVE AcpLink(h, pipe, pending)
        <5>1. CASE ~session.fatal
          <6>1. k.s.active = t BY <1>4, <1>9, <2>1, <4>5, <5>1
          <6> QED BY <2>2, <4>4, <4>5, <6>1
        <5>2. CASE session.fatal
          <6>1. k.s.fatal /\ k.s.active = NoTurn
            BY <5>2, <2>1, <1>4, <4>5, <1>10, <1>6 DEF AcpLink
          <6>2. h.s.active = k.s.active /\ h.s.fatal = k.s.fatal
            BY <6>1, <4>1, <1>11, <3>2, <4>4 DEF AcpEnds, Turn, NoTurn, AcpState, AcpSession, AcpGood
          <6>3. \A u \in Turn : k.e[u].ends # <<>> => h.e[u].ends # <<>>
            <7>1. /\ k.e \in [Turn -> StreamSet] /\ h.e = Ended(k.e, t, "failed") /\ "failed" \in Outcome
              BY <3>2, <4>1 DEF AcpEnds, AcpState, Outcome
            <7>2. \A u \in Turn \ {t} : h.e[u] = k.e[u] BY <7>1, <3>2, <1>11, EndedOnce
            <7> QED BY <7>2, <3>4
          <6>4. \A u \in Turn : (k.t[u].held /\ u # t => h.t[u].held) BY <4>1 DEF AcpEnds
          <6>5. AcpLink(h, pipe, pending)
            <7>1. AcpLink(k, pipe, pending) BY <2>2, <4>5
            <7>2. \A u \in Turn : AcpOwed(k, u) => AcpOwed(h, u) BY <6>1, <6>2, <6>3 DEF AcpOwed
            <7>3. /\ \A i \in DOMAIN k.c.work : k.c.work[i] \in Turn
                  /\ k.c.work # <<>> => Head(k.c.work) \in Turn
              BY <3>2 DEF AcpState, CliSet
            <7>4. /\ h.c.work = k.c.work /\ h.c.interrupted = k.c.interrupted
                  /\ \A u \in Turn : k.t[u].cancel => h.t[u].cancel
                  /\ \A u \in Turn : h.t[u].run = "closing" => k.t[u].run = "closing"
              BY <4>1 DEF AcpEnds
            <7>5. Interruption(h.c, h.e, h.t) BY <6>3, <7>1, <7>3, <7>4 DEF Interruption, AcpLink
            <7> QED BY <6>1, <6>2, <6>3, <7>1, <7>2, <7>3, <7>4, <7>5 DEF AcpLink
          <6> QED BY <6>5
        <5> QED BY <5>1, <5>2
      <4>6. h.s.runtime = session.runtime /\ h.c.work = cli.work
        BY <4>1, <2>1, <1>4 DEF AcpEnds
      <4> QED BY <1>2, <3>1, <4>4, <4>5, <4>6, AcpSettles
    <3> QED BY <3>3, <3>4
  <2> QED BY <1>11, <2>3, <2>4
<1>12. CASE x[1] = "fatal" /\ (g.s.fatalSent \/ client # "running" \/ g.s.at # "ready")
  <2>1. Acp!Become(g) BY <1>7, <1>12
  <2> QED BY <1>2, <1>4, <1>5, <1>6, <1>10, <2>1, AcpSettles
<1>13. CASE x[1] = "fatal" /\ ~(g.s.fatalSent \/ client # "running" \/ g.s.at # "ready")
  <2> DEFINE s1 == [ss EXCEPT !.fatalSent = TRUE]
             h == [s |-> s1, t |-> turn, e |-> stream, c |-> Acp!Interrupted(cli)]
  <2>1. Acp!Become([g EXCEPT !.s.fatalSent = TRUE, !.c = Acp!Interrupted(@)]) BY <1>7, <1>13
  <2>2. [g EXCEPT !.s.fatalSent = TRUE, !.c = Acp!Interrupted(@)] = h
    <3>1. [g EXCEPT !.s.fatalSent = TRUE] = [s |-> s1, t |-> turn, e |-> stream, c |-> cli]
      BY <1>6, <1>5, AcpSetsFatalSent
    <3>2. [[s |-> s1, t |-> turn, e |-> stream, c |-> cli] EXCEPT !.c = Acp!Interrupted(@)] = h
      <4> HIDE DEF s1
      <4> QED OBVIOUS
    <3> QED BY <3>1, <3>2
  <2>3. /\ s1 \in AcpSession /\ s1.active = ss.active /\ s1.fatal = ss.fatal /\ s1.timers = ss.timers
        /\ s1.runtime = ss.runtime
    BY <1>4 DEF AcpSession
  <2> HIDE DEF s1
  <2>4. /\ AcpGood(h, native) /\ h.c.work = cli.work
        /\ \A f, p : AcpLink(g, f, p) /\ g.s.fatal => AcpLink(h, f, p)
    BY <1>5, <1>6, <2>3, AcpInterrupts
  <2>5. g.s.fatal BY <1>4, <1>6, <1>9, <1>13
  <2>6. Acp!Become(h) /\ h.s.runtime = session.runtime BY <1>4, <2>1, <2>2, <2>3
  <2> HIDE DEF h
  <2> QED BY <1>2, <1>10, <2>4, <2>5, <2>6, AcpSettles
<1> QED BY <1>8, <1>11, <1>12, <1>13

\* Doing nothing is a step of that kind.
LEMMA AcpAlikeItself == ASSUME AcpInv PROVE AcpAlike(Acp!g0, Acp!g0)
BY DEF AcpInv, AcpGood, AcpAlike

\* A frame of the output is read.
AcpReads ==
    /\ pipe # <<>> /\ pipe' = Tail(pipe)
    /\ UNCHANGED <<native, child, ladder, client>> /\ pending' \subseteq pending

\* The answer to session/prompt ends the prompt it names, with the outcome the CLI gave
\* it.
LEMMA AcpReadsResult ==
    ASSUME AcpInv, AcpReads, client = "running", Head(pipe).k = "result",
           Acp!Become(Acp!PromptAnswered(Acp!g0, Head(pipe).id[2], Head(pipe).out))
    PROVE  AcpInv'
<1> DEFINE f == Head(pipe)
           t == f.id[2]
           out == f.out
           h == Acp!PromptAnswered(Acp!g0, t, out)
<1>1. AcpLink(Acp!g0, pipe, pending) /\ WorkOK(cli, native) /\ AcpPipe(pipe, native)
  BY DEF AcpInv, AcpCalm
<1>2. /\ 1 \in DOMAIN pipe /\ f = pipe[1] /\ DOMAIN pipe \subseteq Nat
      /\ \A i \in DOMAIN Tail(pipe) : i + 1 \in DOMAIN pipe /\ Tail(pipe)[i] = pipe[i + 1] /\ 1 < i + 1
  <2>1. pipe \in Seq(FrameSet) /\ pipe # <<>> BY DEF AcpInv, AcpReads
  <2>2. DOMAIN Tail(pipe) = 1..Len(pipe) - 1 /\ Len(pipe) \in Nat BY <2>1, SeqTail
  <2> QED BY <2>1, <2>2, SeqTail
<1>3. Speaks(f) /\ t \in Turn /\ out \in Outcome /\ native[t] \in {out, "past"}
      /\ (IF session.fatal THEN stream[t].ends # <<>> ELSE t = session.active)
      /\ \A j \in DOMAIN pipe : 1 < j /\ Speaks(pipe[j]) => pipe[j].id[2] # t
  BY <1>1, <1>2, AcpNow DEF AcpPipe, Speaks, AcpLink, AcpOwed
<1>4. Acp!Become(h) OBVIOUS
<1>5. IF stream[t].ends # <<>> \/ turn[t].held THEN AcpAlike(Acp!g0, h)
      ELSE AcpEnds(Acp!g0, h, t, out, FALSE)
  <2>1. AcpGood(Acp!g0, native) BY DEF AcpInv
  <2>2. IF Acp!g0.e[t].ends # <<>> \/ Acp!g0.t[t].held THEN AcpAlike(Acp!g0, h)
        ELSE AcpEnds(Acp!g0, h, t, out, FALSE)
    BY <1>3, <2>1, AcpPromptAnswered
  <2> HIDE DEF h
  <2> QED BY <2>2, AcpNow
<1> HIDE DEF h, out
<1>p. pending' \subseteq Request BY DEF AcpInv, AcpReads
<1>6. CASE stream[t].ends # <<>> \/ turn[t].held
  BY <1>p, <1>4, <1>5, <1>6, AcpSettlesAlike DEF AcpReads
<1>7. CASE stream[t].ends = <<>> /\ ~turn[t].held
  <2>1. session.active = t /\ ~session.fatal BY <1>3, <1>7
  <2>2. StreamsOK(stream, native, turn, session.active) /\ cli \in CliSet
    BY AcpNow DEF AcpInv, AcpGood, AcpState
  <2>3. native[t] = out BY <1>3, <1>7, <2>2 DEF StreamsOK
  <2>4. out = "cancelled" => turn[t].cancel BY <1>3, <1>7, <2>2, <2>3 DEF StreamsOK
  <2>5. cli.work = <<>>
    <3> SUFFICES ASSUME cli.work # <<>> PROVE FALSE OBVIOUS
    <3>1. 1 \in DOMAIN cli.work BY <2>2 DEF CliSet
    <3>2. cli.work[1] = t /\ native[cli.work[1]] = "working"
      BY <3>1, <1>1, <2>1, AcpNow DEF WorkOK, AcpLink, AcpOwed
    <3> QED BY <3>2, <2>3, <1>3 DEF Outcome
  <2>6. \A i \in DOMAIN Tail(pipe) : ~Speaks(Tail(pipe)[i])
    <3> SUFFICES ASSUME NEW i \in DOMAIN Tail(pipe), Speaks(Tail(pipe)[i]) PROVE FALSE OBVIOUS
    <3>1. i + 1 \in DOMAIN pipe /\ Speaks(pipe[i + 1]) /\ 1 < i + 1 BY <1>2
    <3>2. pipe[i + 1].id[2] = t BY <3>1, <1>1, <2>1, AcpNow DEF AcpLink, AcpOwed
    <3> QED BY <3>1, <3>2, <1>3
  <2>7. Silent(cli, pipe') BY <2>5, <2>6 DEF Silent, AcpReads
  <2>8. AcpEnds(Acp!g0, h, t, out, FALSE) BY <1>5, <1>7
  <2> HIDE DEF f, t
  <2> QED BY <1>p, <1>3, <1>4, <1>7, <2>1, <2>3, <2>4, <2>7, <2>8, AcpSettlesEnds DEF AcpReads
<1> QED BY <1>6, <1>7

\* What the CLI says is said to the prompt that is active, the only one that it can be
\* about.
LEMMA AcpReadsText ==
    ASSUME AcpInv, AcpReads, client = "running", Head(pipe).k = "text",
           Acp!Become(Acp!HandleNotification(Acp!g0, Head(pipe).id[2]))
    PROVE  AcpInv'
<1> DEFINE f == Head(pipe)
           t == f.id[2]
           a == session.active
           h == Acp!HandleNotification(Acp!g0, t)
<1>p. pending' \subseteq Request BY DEF AcpInv, AcpReads
<1>1. CASE h = Acp!g0
  BY <1>p, <1>1, AcpAlikeItself, AcpSettlesAlike DEF AcpReads
<1>2. CASE h # Acp!g0
  <2> DEFINE d == [stream EXCEPT ![a].text = @ \cup {a}]
             k == [s |-> session, t |-> turn, e |-> d, c |-> cli]
  <2>g. /\ Acp!g0 \in AcpState /\ AcpGood(Acp!g0, native) /\ session \in AcpSession
        /\ stream \in [Turn -> StreamSet] /\ StreamsOK(stream, native, turn, a)
        /\ AcpLink(Acp!g0, pipe, pending)
    BY AcpNow DEF AcpInv, AcpGood, AcpState, AcpCalm
  <2>1. a # NoTurn /\ h = [Acp!g0 EXCEPT !.e = Acp!WithText(a, t)]
    BY <1>2, AcpNow, AcpNames DEF Acp!HandleNotification
  <2>2. a \in Turn /\ stream[a].open BY <2>1, AcpActive
  <2>3. t = a
    <3>1. 1 \in DOMAIN pipe /\ f = pipe[1] BY SeqTail DEF AcpInv, AcpReads
    <3>2. Speaks(f) /\ ~session.fatal BY <2>1, <2>g, AcpNow DEF Speaks, AcpLink
    <3> QED BY <3>1, <3>2, <2>g, AcpNow DEF AcpLink, AcpOwed
  <2>4. h = k
    <3>1. Acp!WithText(a, t) = d BY <2>2, <2>3 DEF Acp!WithText
    <3>2. [Acp!g0 EXCEPT !.e = d] = k
      <4> HIDE DEF d
      <4> QED BY DEF Acp!g0
    <3> QED BY <2>1, <3>1, <3>2
  <2>5. /\ d \in [Turn -> StreamSet] /\ StreamsOK(d, native, turn, a)
        /\ \A u \in Turn : d[u].ends = stream[u].ends
    <3>1. a \in Subject BY <2>2 DEF Subject
    <3> HIDE DEF a
    <3> QED BY <2>g, <2>2, <3>1, StreamsText
  <2> HIDE DEF d
  <2>6. k \in AcpState /\ k.s = session /\ k.t = turn /\ k.e = d /\ k.c = cli
    BY <2>g, <2>5, AcpNow DEF AcpState
  <2> HIDE DEF k
  <2>7. AcpGood(k, native) BY <2>5, <2>6 DEF AcpGood
  <2>8. AcpLink(k, pipe, pending) BY <2>g, <2>5, <2>6, AcpNow, AcpLinkKeeps
  <2>9. AcpLink(k, pipe', pending')
    BY <2>8, AcpLinkFewer DEF AcpInv, AcpReads
  <2>10. Acp!Become(k) BY <2>4
  <2> QED BY <1>p, <2>6, <2>7, <2>9, <2>10, AcpSettles DEF AcpReads
<1> QED BY <1>1, <1>2

\* An EXCEPT on the state as the record it makes.
LEMMA AcpSetsHeld ==
    ASSUME NEW k \in AcpState, NEW t \in Turn, NEW y
    PROVE  [k EXCEPT !.t[t].held = y]
           = [s |-> k.s, t |-> [k.t EXCEPT ![t].held = y], e |-> k.e, c |-> k.c]
BY DEF AcpState

\* A request of the CLI is answered without ending a prompt.
LEMMA AcpReadsAsk ==
    ASSUME AcpInv, AcpReads, client = "running", Acp!Become(Acp!HandleServerRequest(Acp!g0))
    PROVE  AcpInv'
<1> DEFINE a == session.active
           h == Acp!HandleServerRequest(Acp!g0)
<1>p. pending' \subseteq Request BY DEF AcpInv, AcpReads
<1>g. /\ Acp!g0 \in AcpState /\ AcpGood(Acp!g0, native) /\ session \in AcpSession
      /\ turn \in [Turn -> AcpTurn]
      /\ AcpLink(Acp!g0, pipe, pending)
  BY AcpNow DEF AcpInv, AcpGood, AcpState, AcpCalm
<1>n. Acp!g0 = [s |-> session, t |-> turn, e |-> stream, c |-> cli] BY DEF Acp!g0
<1>1. CASE h = Acp!g0
  BY <1>p, <1>1, AcpAlikeItself, AcpSettlesAlike DEF AcpReads
<1>2. CASE h # Acp!g0 /\ a # NoTurn
  <2> DEFINE t1 == [turn EXCEPT ![a].held = TRUE]
             t2 == [t1 EXCEPT ![a].cancel = TRUE]
             ss == [session EXCEPT !.timers = @ \cup {<<"settle", a>>}]
             k1 == [s |-> session, t |-> t1, e |-> stream, c |-> cli]
             k2 == [s |-> session, t |-> t2, e |-> stream, c |-> cli]
             k == [s |-> ss, t |-> t2, e |-> stream, c |-> cli]
  <2>1. a \in Turn /\ stream[a].ends = <<>> BY <1>2, AcpActive
  <2>2. h = [Acp!g0 EXCEPT !.t[a].held = TRUE, !.t[a].cancel = TRUE, !.s.timers = @ \cup {<<"settle", a>>}]
    BY <1>2, <2>1, AcpNow, AcpNames DEF Acp!HandleServerRequest, Acp!Terminal
  <2>3. /\ t1 \in [Turn -> AcpTurn] /\ t2 \in [Turn -> AcpTurn]
        /\ t2[a].held /\ t2[a].cancel
        /\ \A u \in Turn : (turn[u].cancel => t2[u].cancel) /\ (turn[u].held => t2[u].held)
                           /\ t2[u].run = turn[u].run
    <3>1. /\ t1 \in [Turn -> AcpTurn] /\ t1[a].held /\ t1[a].cancel = turn[a].cancel
          /\ t1[a].run = turn[a].run /\ \A u \in Turn \ {a} : t1[u] = turn[u]
      BY <1>g, <2>1 DEF AcpTurn
    <3> HIDE DEF t1
    <3>2. /\ t2 \in [Turn -> AcpTurn] /\ t2[a].cancel /\ t2[a].held = t1[a].held
          /\ t2[a].run = t1[a].run /\ \A u \in Turn \ {a} : t2[u] = t1[u]
      BY <3>1, <2>1 DEF AcpTurn
    <3> HIDE DEF t2
    <3> QED BY <3>1, <3>2
  <2>4. /\ ss \in AcpSession /\ ss.active = a /\ ss.fatal = session.fatal /\ ss.runtime = session.runtime
        /\ ss.timers = session.timers \cup {<<"settle", a>>}
    <3>2. PICK x \in {"settle", "cancel"} \X Turn : x = <<"settle", a>> BY <2>1
    <3>3. ss = [session EXCEPT !.timers = session.timers \cup {x}] BY <3>2
    <3>4. session.timers \cup {x} \in SUBSET (({"settle", "cancel"} \X Turn) \cup {<<"fatal", NoTurn>>})
      BY <1>g DEF AcpSession
    <3> QED BY <1>g, <3>2, <3>3, <3>4 DEF AcpSession
  <2>5. h = k
    <3>1. [Acp!g0 EXCEPT !.t[a].held = TRUE] = k1
      <4>1. [Acp!g0 EXCEPT !.t[a].held = TRUE]
            = [s |-> Acp!g0.s, t |-> [Acp!g0.t EXCEPT ![a].held = TRUE], e |-> Acp!g0.e, c |-> Acp!g0.c]
        BY <1>g, <2>1, AcpSetsHeld
      <4> QED BY <4>1, AcpNow
    <3>2. k1 \in AcpState /\ k1.s = session /\ k1.t = t1 /\ k1.e = stream /\ k1.c = cli
      <4> HIDE DEF t1
      <4> QED BY <2>3, <1>g, AcpNow DEF AcpState
    <3>3. [k1 EXCEPT !.t[a].cancel = TRUE] = k2
      <4> HIDE DEF k1, t1
      <4>1. [k1 EXCEPT !.t[a].cancel = TRUE]
            = [s |-> k1.s, t |-> [k1.t EXCEPT ![a].cancel = TRUE], e |-> k1.e, c |-> k1.c]
        BY <3>2, <2>1, AcpSetsCancel
      <4> QED BY <3>2, <4>1
    <3>4. [k2 EXCEPT !.s.timers = @ \cup {<<"settle", a>>}] = k
      <4> HIDE DEF t2
      <4> QED OBVIOUS
    <3> HIDE DEF t1, t2, k
    <3> QED BY <2>2, <3>1, <3>3, <3>4
  <2> HIDE DEF t2, ss
  <2>6. k \in AcpState /\ k.s = ss /\ k.t = t2 /\ k.e = stream /\ k.c = cli
    BY <2>3, <2>4, <1>g, AcpNow DEF AcpState
  <2> HIDE DEF k, h
  <2>7. AcpGood(k, native) /\ \A f, p : AcpLink(Acp!g0, f, p) => AcpLink(k, f, p)
    <3>1. \A x \in k.s.timers : x \in session.timers \/ (x[1] = "settle" /\ x[2] = a) BY <2>4, <2>6
    <3> QED BY <3>1, <1>g, <1>2, <2>3, <2>4, <2>6, AcpNow, AcpArms
  <2>8. AcpLink(k, pipe', pending')
    BY <1>g, <2>7, AcpLinkFewer DEF AcpInv, AcpReads
  <2>9. Acp!Become(k) BY <2>5 DEF h
  <2> QED BY <1>p, <2>4, <2>6, <2>7, <2>8, <2>9, AcpSettles DEF AcpReads
<1>3. CASE h # Acp!g0 /\ a = NoTurn
  <2> DEFINE s1 == [session EXCEPT !.fatal = TRUE]
             ss == [s1 EXCEPT !.timers = @ \cup {<<"fatal", NoTurn>>}]
             k1 == [s |-> s1, t |-> turn, e |-> stream, c |-> cli]
             k == [s |-> ss, t |-> turn, e |-> stream, c |-> cli]
  <2>1. h = [Acp!g0 EXCEPT !.s.fatal = TRUE, !.s.timers = @ \cup {<<"fatal", NoTurn>>}]
    BY <1>3, AcpNow, AcpNames DEF Acp!HandleServerRequest, Acp!Terminal
  <2>2. h = k
    <3>1. [Acp!g0 EXCEPT !.s.fatal = TRUE] = k1 BY AcpSetsOne
    <3>2. [k1 EXCEPT !.s.timers = @ \cup {<<"fatal", NoTurn>>}] = k
      <4> HIDE DEF s1
      <4> QED OBVIOUS
    <3>3. h = [[Acp!g0 EXCEPT !.s.fatal = TRUE] EXCEPT !.s.timers = @ \cup {<<"fatal", NoTurn>>}]
      <4>1. \A r : [r EXCEPT !.s.fatal = TRUE, !.s.timers = @ \cup {<<"fatal", NoTurn>>}]
                  = [[r EXCEPT !.s.fatal = TRUE] EXCEPT !.s.timers = @ \cup {<<"fatal", NoTurn>>}]
        OBVIOUS
      <4> HIDE DEF h
      <4> QED BY <2>1, <4>1
    <3> HIDE DEF k, k1, h
    <3> QED BY <3>1, <3>2, <3>3
  <2>3. /\ ss \in AcpSession /\ ss.active = session.active /\ ss.fatal = TRUE
        /\ ss.runtime = session.runtime
    <3>1. /\ s1 \in AcpSession /\ s1.active = session.active /\ s1.fatal = TRUE
          /\ s1.runtime = session.runtime
      BY <1>g DEF AcpSession
    <3> HIDE DEF s1
    <3>2. /\ ss \in AcpSession /\ ss.active = s1.active /\ ss.fatal = s1.fatal /\ ss.runtime = s1.runtime
      BY <3>1 DEF AcpSession
    <3> HIDE DEF ss
    <3> QED BY <3>1, <3>2
  <2> HIDE DEF ss
  <2>4. k \in AcpState /\ k.s = ss /\ k.t = turn /\ k.e = stream /\ k.c = cli
    BY <2>3, <1>g, AcpNow DEF AcpState
  <2> HIDE DEF k, h
  <2>5. AcpGood(k, native) /\ \A f, p : AcpLink(Acp!g0, f, p) => AcpLink(k, f, p)
    BY <1>g, <1>3, <2>3, <2>4, AcpNow, AcpArms
  <2>6. AcpLink(k, pipe', pending')
    BY <1>g, <2>5, AcpLinkFewer DEF AcpInv, AcpReads
  <2>7. Acp!Become(k) BY <2>2 DEF h
  <2> QED BY <1>p, <2>3, <2>4, <2>5, <2>6, <2>7, AcpSettles DEF AcpReads
<1> QED BY <1>1, <1>2, <1>3

\* Every frame that is read keeps the invariant.
LEMMA AcpReadFrame == ASSUME AcpInv, Acp!ReadFrame PROVE AcpInv'
<1> DEFINE f == Head(pipe)
           t == f.id[2]
<1>1. pipe # <<>> /\ pipe' = Tail(pipe) /\ native' = native
  BY DEF Acp!ReadFrame, Acp!NextFrame
<1>c. (CASE f.k = "garbage" /\ ~broken ->
                    /\ Acp!BreakStdout /\ Acp!FailClient
                    /\ Acp!Become(IF client = "closed" THEN Acp!g0 ELSE Acp!Rejected(Acp!g0, "failed"))
        [] f.k = "answer" /\ client = "running" /\ Acp!Answers(f.id) /\ session.at \in Acp!Launching ->
                    /\ Acp!LaunchContinues(f.out = "ok")
                    /\ UNCHANGED <<Acp!processVars, client>>
        [] f.k = "result" /\ client = "running" /\ Acp!Answers(f.id) ->
                    /\ pending' = pending \ {f.id}
                    /\ Acp!Become(Acp!PromptAnswered(Acp!g0, t, f.out))
                    /\ UNCHANGED <<Acp!processVars, client>>
        [] f.k = "text" /\ client = "running" ->
                    /\ Acp!Become(Acp!HandleNotification(Acp!g0, t))
                    /\ UNCHANGED <<Acp!processVars, Acp!rpcVars>>
        [] f.k = "ask" /\ client = "running" ->
                    /\ Acp!Become(Acp!HandleServerRequest(Acp!g0))
                    /\ UNCHANGED <<Acp!processVars, Acp!rpcVars>>
        [] OTHER -> Acp!Become(Acp!g0) /\ UNCHANGED <<Acp!processVars, Acp!rpcVars>>)
  BY DEF Acp!ReadFrame
<1>2. CASE f.k = "garbage" /\ ~broken
  <2>1. /\ Acp!BreakStdout /\ Acp!FailClient
        /\ Acp!Become(IF client = "closed" THEN Acp!g0 ELSE Acp!Rejected(Acp!g0, "failed"))
    BY <1>c, <1>2
  <2> DEFINE h == IF client = "closed" THEN Acp!g0 ELSE Acp!Rejected(Acp!g0, "failed")
  <2>2. AcpGood(h, native) /\ h.s.runtime = session.runtime
    BY AcpRejected, AcpNow DEF AcpInv
  <2>3. Acp!Become(h) BY <2>1
  <2>4. /\ client' # "running" /\ (ladder = "gaveUp" => ladder' = "gaveUp") /\ child' = child
        /\ pending' \subseteq Request
    BY <2>1 DEF Acp!BreakStdout, Acp!FailClient, Acp!StartLadder, Acp!rpcVars, AcpInv
  <2> HIDE DEF h
  <2> QED BY <1>1, <2>2, <2>3, <2>4, AcpSettles
<1>3. CASE f.k = "answer" /\ client = "running" /\ Acp!Answers(f.id) /\ session.at \in Acp!Launching
  <2>1. /\ Acp!LaunchContinues(f.out = "ok")
        /\ UNCHANGED <<Acp!processVars, client>>
    BY <1>c, <1>3
  <2>2. UNCHANGED <<child, ladder, client>> BY <2>1 DEF Acp!processVars
  <2> QED BY <1>1, <1>3, <2>1, <2>2, AcpLaunchContinues
<1>4. CASE f.k = "result" /\ client = "running" /\ Acp!Answers(f.id)
  <2>1. /\ pending' = pending \ {f.id}
        /\ Acp!Become(Acp!PromptAnswered(Acp!g0, t, f.out))
        /\ UNCHANGED <<Acp!processVars, client>>
    BY <1>c, <1>4
  <2>2. AcpReads BY <1>1, <2>1 DEF AcpReads, Acp!processVars
  <2> QED BY <1>4, <2>1, <2>2, AcpReadsResult
<1>5. CASE f.k = "text" /\ client = "running"
  <2>1. /\ Acp!Become(Acp!HandleNotification(Acp!g0, t))
        /\ UNCHANGED <<Acp!processVars, Acp!rpcVars>>
    BY <1>c, <1>5
  <2>2. AcpReads BY <1>1, <2>1 DEF AcpReads, Acp!processVars, Acp!rpcVars
  <2> QED BY <1>5, <2>1, <2>2, AcpReadsText
<1>6. CASE f.k = "ask" /\ client = "running"
  <2>1. /\ Acp!Become(Acp!HandleServerRequest(Acp!g0))
        /\ UNCHANGED <<Acp!processVars, Acp!rpcVars>>
    BY <1>c, <1>6
  <2>2. AcpReads BY <1>1, <2>1 DEF AcpReads, Acp!processVars, Acp!rpcVars
  <2> QED BY <1>6, <2>1, <2>2, AcpReadsAsk
<1>7. CASE /\ ~(f.k = "garbage" /\ ~broken)
           /\ ~(f.k = "answer" /\ client = "running" /\ Acp!Answers(f.id) /\ session.at \in Acp!Launching)
           /\ ~(f.k = "result" /\ client = "running" /\ Acp!Answers(f.id))
           /\ ~(f.k = "text" /\ client = "running")
           /\ ~(f.k = "ask" /\ client = "running")
  <2>1. Acp!Become(Acp!g0) /\ UNCHANGED <<Acp!processVars, Acp!rpcVars>> BY <1>c, <1>7
  <2>2. UNCHANGED <<child, ladder, client, pending>> /\ pending' \subseteq Request
    BY <2>1 DEF Acp!processVars, Acp!rpcVars, AcpInv
  <2> QED BY <1>1, <2>1, <2>2, AcpAlikeItself, AcpSettlesAlike
<1> QED BY <1>2, <1>3, <1>4, <1>5, <1>6, <1>7

\* What a prompt, aborted or not, does to the streams and what it leaves of the pipe
LEMMA AcpPrompts ==
    ASSUME AcpInv, NEW t \in Turn, CanPrompt(t), session.active = NoTurn, NEW sends \in BOOLEAN
    PROVE  /\ Open(t) \in [Turn -> StreamSet] /\ Delivered(t, sends) \in [Turn -> NativeSet]
           /\ \A c : StreamsOK(Open(t), Delivered(t, sends), c, t)
           /\ \A u \in Turn : stream[u].ends # <<>> => Open(t)[u].ends # <<>>
           /\ Open(t)[t].open /\ Open(t)[t].ends = <<>>
           /\ Delivered(t, sends)[t] = (IF sends /\ child = "alive" THEN "working" ELSE "none")
           /\ client = "running" =>
                /\ WorkOK(cli, Delivered(t, sends)) /\ AcpPipe(pipe, Delivered(t, sends))
                /\ AcpLink(Acp!g0, pipe, pending)
                /\ ~session.fatal => Silent(cli, pipe) /\ session.timers = {} /\ ~cli.interrupted
<1>g. /\ stream \in [Turn -> StreamSet] /\ native \in [Turn -> NativeSet] /\ cli \in CliSet
      /\ StreamsOK(stream, native, turn, session.active)
  BY AcpNow DEF AcpInv, AcpGood, AcpState
<1> DEFINE m == Delivered(t, sends)
<1>1. /\ Open(t) \in [Turn -> StreamSet] /\ m \in [Turn -> NativeSet]
      /\ \A c : StreamsOK(Open(t), m, c, t)
      /\ \A u \in Turn : stream[u].ends # <<>> => Open(t)[u].ends # <<>>
      /\ Open(t)[t].open /\ Open(t)[t].ends = <<>>
      /\ m[t] = (IF sends /\ child = "alive" THEN "working" ELSE "none")
      /\ native[t] = "none"
      /\ \A u \in Turn \ {t} : m[u] = native[u] \/ (native[u] \in Outcome /\ m[u] = "past")
  BY <1>g, StreamsOpen
<1> HIDE DEF m
<1>2. ASSUME client = "running"
      PROVE  /\ WorkOK(cli, m) /\ AcpPipe(pipe, m) /\ AcpLink(Acp!g0, pipe, pending)
             /\ ~session.fatal => Silent(cli, pipe) /\ session.timers = {} /\ ~cli.interrupted
  <2>1. WorkOK(cli, native) /\ AcpPipe(pipe, native) /\ AcpLink(Acp!g0, pipe, pending)
    BY <1>2 DEF AcpInv, AcpCalm
  <2>2. \A i \in DOMAIN cli.work : cli.work[i] \in Turn BY <1>g DEF CliSet
  <2>3. WorkOK(cli, m)
    <3>1. \A i \in DOMAIN cli.work : m[cli.work[i]] = "working"
      BY <1>1, <2>1, <2>2 DEF WorkOK, Outcome
    <3> QED BY <2>1, <3>1 DEF WorkOK
  <2>4. AcpPipe(pipe, m)
    <3>1. \A i \in DOMAIN pipe : Speaks(pipe[i]) => pipe[i].id[2] \in Turn \ {t}
      BY <1>1, <2>1 DEF AcpPipe
    <3>2. \A u \in Turn \ {t} : native[u] # "none" => m[u] # "none" BY <1>1
    <3>3. \A u \in Turn \ {t} : \A out : native[u] \in {out, "past"} => m[u] \in {out, "past"}
      BY <1>1 DEF Outcome
    <3>4. ASSUME NEW i \in DOMAIN pipe, Speaks(pipe[i])
          PROVE  /\ pipe[i].id[2] \in Turn /\ m[pipe[i].id[2]] # "none"
                 /\ pipe[i].k = "result" =>
                    /\ pipe[i].out \in Outcome /\ m[pipe[i].id[2]] \in {pipe[i].out, "past"}
                    /\ \A j \in DOMAIN pipe : i < j /\ Speaks(pipe[j]) => pipe[j].id[2] # pipe[i].id[2]
      BY <2>1, <3>1, <3>2, <3>3, <3>4 DEF AcpPipe
    <3> QED BY <3>4 DEF AcpPipe
  <2>5. ASSUME ~session.fatal PROVE Silent(cli, pipe) /\ session.timers = {} /\ ~cli.interrupted
    <3>1. cli.work = <<>>
      <4>1. \A i \in DOMAIN cli.work : cli.work[i] = NoTurn
        BY <2>1, <2>5, AcpNow DEF AcpLink, AcpOwed
      <4>2. cli.work # <<>> => 1 \in DOMAIN cli.work BY <1>g DEF CliSet
      <4> QED BY <4>1, <4>2, <2>2 DEF Turn, NoTurn
    <3>2. \A i \in DOMAIN pipe : ~Speaks(pipe[i])
      BY <2>1, <2>5, AcpNow DEF AcpLink, AcpOwed, Turn, NoTurn
    <3>3. session.timers = {} BY <2>1, <2>5, AcpNow DEF AcpLink
    <3>4. ~cli.interrupted BY <2>1, <3>1, AcpNow DEF AcpLink, Interruption
    <3> QED BY <3>1, <3>2, <3>3, <3>4 DEF Silent
  <2> QED BY <2>1, <2>3, <2>4, <2>5
<1> QED BY <1>1, <1>2 DEF m

\* The state is well after a step that makes a prompt.
LEMMA AcpBegins ==
    ASSUME AcpInv, NEW h, Acp!Become(h), AcpGood(h, native'), native' \in [Turn -> NativeSet],
           UNCHANGED <<pipe, child, client>>, pending' \subseteq Request,
           h.s.runtime = session.runtime, ladder = "gaveUp" => ladder' = "gaveUp",
           client = "running" => WorkOK(h.c, native') /\ AcpPipe(pipe, native') /\ AcpLink(h, pipe, pending')
    PROVE  AcpInv'
<1>1. Acp!g0' = h /\ session' = h.s /\ cli' = h.c BY AcpBecome DEF AcpGood
<1>2. AcpGood(Acp!g0, native)' BY <1>1
<1>3. Leashed' BY <1>1 DEF Leashed, AcpInv
<1>4. ASSUME client' = "running" PROVE AcpCalm'
  <2>1. WorkOK(cli, native)' /\ AcpPipe(pipe, native)' /\ AcpLink(Acp!g0, pipe, pending)'
    BY <1>1, <1>4
  <2> QED BY <2>1 DEF AcpCalm
<1> QED BY <1>2, <1>3, <1>4 DEF AcpInv

\* An ended prompt: aborted, or refused by a session that is lost.
LEMMA AcpBeginsEnded ==
    ASSUME AcpInv, NEW t \in Turn, CanPrompt(t), session.active = NoTurn, NEW h \in AcpState, NEW o \in Outcome,
           Acp!Become(h), native' = Delivered(t, FALSE), UNCHANGED <<pipe, child, client, pending>>,
           ladder = "gaveUp" => ladder' = "gaveUp",
           h.e = Ended(Open(t), t, o), o # "completed", o = "cancelled" => h.t[t].cancel,
           h.c.work = cli.work, h.c.interrupted = cli.interrupted,
           h.s.active = NoTurn, h.s.fatal = session.fatal, h.s.timers \subseteq session.timers,
           h.s.runtime = session.runtime,
           \A u \in Turn : h.t[u].run = "closing" => turn[u].run = "closing"
    PROVE  AcpInv'
<1>1. /\ Open(t) \in [Turn -> StreamSet] /\ native' \in [Turn -> NativeSet]
      /\ \A c : StreamsOK(Open(t), native', c, t)
      /\ \A u \in Turn : stream[u].ends # <<>> => Open(t)[u].ends # <<>>
      /\ Open(t)[t].open /\ Open(t)[t].ends = <<>>
      /\ client = "running" =>
            /\ WorkOK(cli, native') /\ AcpPipe(pipe, native') /\ AcpLink(Acp!g0, pipe, pending)
            /\ ~session.fatal => Silent(cli, pipe) /\ session.timers = {} /\ ~cli.interrupted
  BY AcpPrompts
<1>2. /\ StreamsOK(h.e, native', h.t, NoTurn)
      /\ \A u \in Turn : Open(t)[u].ends # <<>> => h.e[u].ends # <<>>
  <2>1. StreamsOK(Open(t), native', h.t, t) /\ t \in Subject BY <1>1 DEF Subject
  <2>2. o = "completed" => native'[t] = "completed" OBVIOUS
  <2>3. /\ StreamsOK(Ended(Open(t), t, o), native', h.t, IF t = t THEN NoTurn ELSE t)
        /\ \A u \in Turn : Open(t)[u].ends # <<>> => Ended(Open(t), t, o)[u].ends # <<>>
    BY <1>1, <2>1, <2>2, StreamsEnd
  <2> QED BY <2>3
<1>3. AcpGood(h, native') BY <1>2 DEF AcpGood
<1>4. ASSUME client = "running" PROVE AcpLink(h, pipe, pending)
  <2>0. AcpLink(Acp!g0, pipe, pending) BY <1>1, <1>4
  <2>1. cli \in CliSet /\ \A u \in Turn : stream[u].ends # <<>> => h.e[u].ends # <<>>
    BY <1>1, <1>2, AcpNow DEF AcpInv, AcpGood, AcpState
  <2>w. h.c.work = cli.work /\ h.c.interrupted = cli.interrupted OBVIOUS
  <2>2. \A u \in Turn : <<"prompt", u>> \in pending => h.e[u].ends # <<>>
    BY <2>0, <2>1, AcpNow DEF AcpLink, Turn, NoTurn
  <2>3. \A u \in Turn : h.t[u].run # "closing" BY <2>0, AcpNow DEF AcpLink
  <2>4. CASE session.fatal
    <3>1. /\ \A i \in DOMAIN cli.work : cli.work[i] \in Turn
          /\ cli.work # <<>> => 1 \in DOMAIN cli.work /\ Head(cli.work) = cli.work[1]
      BY <2>1 DEF CliSet
    <3>2. \A u \in Turn : AcpOwed(Acp!g0, u) => AcpOwed(h, u) BY <2>1, <2>4, AcpNow DEF AcpOwed
    <3>3. /\ \A i \in DOMAIN h.c.work : AcpOwed(h, h.c.work[i])
          /\ \A i \in DOMAIN pipe : Speaks(pipe[i]) => pipe[i].id[2] \in Turn /\ AcpOwed(h, pipe[i].id[2])
      BY <2>0, <3>1, <3>2, AcpNow DEF AcpLink
    <3>4. Interruption(h.c, h.e, h.t)
      BY <2>0, <2>4, <3>1, <3>3, AcpNow DEF AcpLink, Interruption, AcpOwed
    <3> QED BY <2>2, <2>3, <2>4, <3>3, <3>4 DEF AcpLink
  <2>5. CASE ~session.fatal
    <3>1. Silent(cli, pipe) /\ h.s.timers = {} /\ ~h.c.interrupted BY <1>1, <1>4, <2>5
    <3> QED BY <2>2, <2>3, <2>5, <3>1 DEF AcpLink, Interruption, Silent
  <2> QED BY <2>4, <2>5
<1>5. pending' \subseteq Request BY DEF AcpInv
<1>6. ASSUME client = "running" PROVE WorkOK(h.c, native')
  <2>1. WorkOK(cli, native') /\ h.c.work = cli.work BY <1>1, <1>6
  <2> DEFINE m == native'
             w == h.c
  <2>2. WorkOK(cli, m) /\ w.work = cli.work BY <2>1
  <2> HIDE DEF m, w
  <2>3. WorkOK(w, m) BY <2>2 DEF WorkOK
  <2> QED BY <2>3 DEF w, m
<1> QED BY <1>1, <1>3, <1>4, <1>5, <1>6, AcpBegins

\* An EXCEPT on the state as the record it makes.
LEMMA AcpSetsRun ==
    ASSUME NEW k \in AcpState, NEW t \in Turn, NEW y
    PROVE  [k EXCEPT !.t[t].run = y]
           = [s |-> k.s, t |-> [k.t EXCEPT ![t].run = y], e |-> k.e, c |-> k.c]
BY DEF AcpState

\* A prompt is sent when no other is active, no answer is owed, and the CLI has nothing
\* to say about an earlier one.
LEMMA AcpPrompt == ASSUME AcpInv, NEW t \in Turn, NEW aborted \in BOOLEAN, Acp!Prompt(t, aborted) PROVE AcpInv'
<1> DEFINE u0 == Acp!Uncancelled
           ss == [session EXCEPT !.active = t]
           g == [s |-> ss, t |-> u0, e |-> Open(t), c |-> cli]
           sends == ~aborted /\ ~session.fatal /\ client = "running"
           m == Delivered(t, sends)
<1>g. /\ session \in AcpSession /\ turn \in [Turn -> AcpTurn] /\ cli \in CliSet
  BY AcpNow DEF AcpInv, AcpGood, AcpState
<1>a. CanPrompt(t) /\ session.active = NoTurn /\ UNCHANGED <<pipe, child, client>>
  BY AcpNames DEF Acp!Prompt
<1>1. [Acp!g0 EXCEPT !.e = Acp!Open(t), !.s.active = t, !.t = Acp!Uncancelled] = g
  <2>1. Acp!Open(t) = Open(t) BY AcpNames
  <2> DEFINE d == Open(t)
  <2> HIDE DEF d, u0
  <2>2. [Acp!g0 EXCEPT !.e = d] = [s |-> session, t |-> turn, e |-> d, c |-> cli] BY DEF Acp!g0
  <2>3. [[s |-> session, t |-> turn, e |-> d, c |-> cli] EXCEPT !.s.active = t]
        = [s |-> ss, t |-> turn, e |-> d, c |-> cli]
    OBVIOUS
  <2>4. [[s |-> ss, t |-> turn, e |-> d, c |-> cli] EXCEPT !.t = u0] = [s |-> ss, t |-> u0, e |-> d, c |-> cli]
    <3> HIDE DEF ss
    <3> QED OBVIOUS
  <2>5. [Acp!g0 EXCEPT !.e = d, !.s.active = t, !.t = u0]
        = [[[Acp!g0 EXCEPT !.e = d] EXCEPT !.s.active = t] EXCEPT !.t = u0]
    OBVIOUS
  <2>6. [Acp!g0 EXCEPT !.e = d, !.s.active = t, !.t = u0] = [s |-> ss, t |-> u0, e |-> d, c |-> cli]
    <3> HIDE DEF ss
    <3>1. [[Acp!g0 EXCEPT !.e = d] EXCEPT !.s.active = t] = [s |-> ss, t |-> turn, e |-> d, c |-> cli]
      BY <2>2, <2>3
    <3> QED BY <2>5, <3>1, <2>4
  <2> QED BY <2>1, <2>6 DEF d, u0
<1>2. /\ ss \in AcpSession /\ ss.active = t /\ ss.fatal = session.fatal /\ ss.timers = session.timers
      /\ ss.runtime = session.runtime
  BY <1>g DEF AcpSession, Subject
<1>3. u0 \in [Turn -> AcpTurn] /\ \A u \in Turn : u0[u].run = turn[u].run /\ u0[u].held = turn[u].held
  BY <1>g, AcpNames DEF Acp!Uncancelled, AcpTurn
<1>4. /\ Open(t) \in [Turn -> StreamSet] /\ m \in [Turn -> NativeSet]
      /\ \A c : StreamsOK(Open(t), m, c, t)
      /\ \A u \in Turn : stream[u].ends # <<>> => Open(t)[u].ends # <<>>
      /\ Open(t)[t].open /\ Open(t)[t].ends = <<>>
      /\ m[t] = (IF sends /\ child = "alive" THEN "working" ELSE "none")
      /\ client = "running" =>
            /\ WorkOK(cli, m) /\ AcpPipe(pipe, m) /\ AcpLink(Acp!g0, pipe, pending)
            /\ ~session.fatal => Silent(cli, pipe) /\ session.timers = {} /\ ~cli.interrupted
  BY <1>a, AcpPrompts
<1>5. LET h == CASE aborted -> [g EXCEPT !.t[t].cancel = TRUE, !.s.active = Acp!NoTurn,
                                         !.e = Acp!Ended(Acp!Open(t), t, "cancelled")]
                 [] ~aborted /\ session.fatal -> Acp!FailTurn(g, t, FALSE)
                 [] sends -> [g EXCEPT !.t[t].run = "awaiting", !.c = Acp!Prompted(@, t)]
                 [] OTHER -> Acp!PromptRejected(g, t, client)
      IN /\ Acp!Become(h)
         /\ pending' = IF sends THEN pending \cup {<<"prompt", t>>} ELSE pending
         /\ native' = m
         /\ IF h.t[t].run = "closing" THEN Acp!StartLadder("grace") ELSE UNCHANGED <<expected, ladder>>
  <2> HIDE DEF g
  <2> QED BY <1>1, AcpNames DEF Acp!Prompt, Acp!CanRequest
<1>6. pending' = (IF sends THEN pending \cup {<<"prompt", t>>} ELSE pending) /\ native' = m
      /\ (ladder = "gaveUp" => ladder' = "gaveUp")
  BY <1>5 DEF Acp!StartLadder
<1>7. <<"prompt", t>> \in Request BY DEF Request, Subject
<1>8. pending' \subseteq Request BY <1>6, <1>7 DEF AcpInv
<1> HIDE DEF u0, ss, m
<1>9. /\ g \in AcpState /\ g.s = ss /\ g.t = u0 /\ g.e = Open(t) /\ g.c = cli
  BY <1>2, <1>3, <1>4, <1>g DEF AcpState
<1> HIDE DEF g
<1>10. CASE aborted
  <2> DEFINE h == [g EXCEPT !.t[t].cancel = TRUE, !.s.active = Acp!NoTurn,
                            !.e = Acp!Ended(Acp!Open(t), t, "cancelled")]
             t1 == [u0 EXCEPT ![t].cancel = TRUE]
             s1 == [ss EXCEPT !.active = NoTurn]
             d == Ended(Open(t), t, "cancelled")
  <2>1. Acp!Become(h) /\ m = Delivered(t, FALSE) /\ pending' = pending
    <3>1. sends = FALSE BY <1>10
    <3>2. Acp!Become(h) BY <1>5, <1>10
    <3> QED BY <1>6, <3>1, <3>2 DEF m
  <2>2. h = [s |-> s1, t |-> t1, e |-> d, c |-> cli]
    <3>1. Acp!Ended(Acp!Open(t), t, "cancelled") = d /\ Acp!NoTurn = NoTurn BY AcpNames
    <3> HIDE DEF d
    <3>2. [g EXCEPT !.t[t].cancel = TRUE] = [s |-> ss, t |-> t1, e |-> Open(t), c |-> cli]
      <4>1. [g EXCEPT !.t[t].cancel = TRUE] = [s |-> g.s, t |-> [g.t EXCEPT ![t].cancel = TRUE], e |-> g.e, c |-> g.c]
        BY <1>9, AcpSetsCancel
      <4> QED BY <4>1, <1>9
    <3> HIDE DEF t1
    <3>3. [[s |-> ss, t |-> t1, e |-> Open(t), c |-> cli] EXCEPT !.s.active = NoTurn]
          = [s |-> s1, t |-> t1, e |-> Open(t), c |-> cli]
      OBVIOUS
    <3> HIDE DEF s1
    <3>4. [[s |-> s1, t |-> t1, e |-> Open(t), c |-> cli] EXCEPT !.e = d] = [s |-> s1, t |-> t1, e |-> d, c |-> cli]
      OBVIOUS
    <3>5. h = [[[g EXCEPT !.t[t].cancel = TRUE] EXCEPT !.s.active = NoTurn] EXCEPT !.e = d]
      <4>1. \A r, x, y : [r EXCEPT !.t[t].cancel = TRUE, !.s.active = x, !.e = y]
                 = [[[r EXCEPT !.t[t].cancel = TRUE] EXCEPT !.s.active = x] EXCEPT !.e = y]
        OBVIOUS
      <4> QED BY <4>1, <3>1
    <3> HIDE DEF h
    <3> QED BY <3>2, <3>3, <3>4, <3>5
  <2>3. /\ t1 \in [Turn -> AcpTurn] /\ t1[t].cancel
        /\ \A u \in Turn : t1[u].run = turn[u].run
    <3>1. t1 \in [Turn -> AcpTurn] BY <1>3 DEF AcpTurn
    <3>2. t1[t].cancel /\ t1[t].run = u0[t].run BY <1>3 DEF AcpTurn
    <3>3. \A u \in Turn \ {t} : t1[u] = u0[u] BY <1>3
    <3> HIDE DEF t1
    <3> QED BY <1>3, <3>1, <3>2, <3>3
  <2>4. /\ s1 \in AcpSession /\ s1.active = NoTurn /\ s1.fatal = session.fatal
        /\ s1.timers = session.timers /\ s1.runtime = session.runtime
    BY <1>2 DEF AcpSession, Subject
  <2>o. PICK o \in Outcome : o = "cancelled" BY DEF Outcome
  <2>5. d \in [Turn -> StreamSet] BY <2>o, <1>4, EndedOnce
  <2> HIDE DEF t1, s1, h
  <2>6. h \in AcpState /\ h.s = s1 /\ h.t = t1 /\ h.e = d /\ h.c = cli
    <3> HIDE DEF d
    <3> QED BY <2>2, <2>3, <2>4, <2>5, <1>g DEF AcpState
  <2>7. h.e = Ended(Open(t), t, o) /\ o # "completed" BY <2>o, <2>6
  <2> HIDE DEF d
  <2>8. native' = Delivered(t, FALSE) BY <1>6, <2>1
  <2> QED BY <1>6, <1>a, <2>1, <2>3, <2>4, <2>6, <2>7, <2>8, AcpBeginsEnded
<1>11. CASE ~aborted /\ session.fatal
  <2> DEFINE h == Acp!FailTurn(g, t, FALSE)
  <2>1. Acp!Become(h) /\ native' = Delivered(t, FALSE) /\ pending' = pending
    <3>1. sends = FALSE BY <1>11
    <3>2. Acp!Become(h) BY <1>5, <1>11
    <3> QED BY <1>6, <3>1, <3>2 DEF m
  <2>2. AcpEnds(g, h, t, "failed", FALSE) BY <1>4, <1>9, AcpFailTurn
  <2> HIDE DEF h
  <2>3. PICK o \in Outcome : o = "failed" BY DEF Outcome
  <2>4. /\ h \in AcpState /\ h.e = Ended(Open(t), t, o) /\ o # "completed" /\ o # "cancelled"
        /\ h.s.active = NoTurn /\ h.s.fatal = session.fatal
        /\ h.s.runtime = session.runtime /\ h.s.timers \subseteq session.timers
        /\ h.c.work = cli.work /\ h.c.interrupted = cli.interrupted
        /\ \A u \in Turn : h.t[u].run = "closing" => turn[u].run = "closing"
    BY <1>2, <1>3, <1>9, <1>11, <2>2, <2>3 DEF AcpEnds
  <2> QED BY <1>6, <1>a, <2>1, <2>4, AcpBeginsEnded
<1>12. CASE sends
  <2> DEFINE h == [g EXCEPT !.t[t].run = "awaiting", !.c = Acp!Prompted(@, t)]
             t1 == [u0 EXCEPT ![t].run = "awaiting"]
             cc == Acp!Prompted(cli, t)
  <2>1. Acp!Become(h)
    <3>1. ~aborted /\ ~session.fatal /\ client = "running" BY <1>12
    <3> QED BY <1>5, <3>1
  <2>2. h = [s |-> ss, t |-> t1, e |-> Open(t), c |-> cc]
    <3> HIDE DEF cc
    <3>1. [g EXCEPT !.t[t].run = "awaiting"] = [s |-> ss, t |-> t1, e |-> Open(t), c |-> cli]
      <4>1. [g EXCEPT !.t[t].run = "awaiting"] = [s |-> g.s, t |-> [g.t EXCEPT ![t].run = "awaiting"], e |-> g.e, c |-> g.c]
        BY <1>9, AcpSetsRun
      <4> QED BY <4>1, <1>9
    <3>2. h = [[g EXCEPT !.t[t].run = "awaiting"] EXCEPT !.c = cc]
      BY <1>9 DEF cc
    <3> HIDE DEF t1, h
    <3>3. [[s |-> ss, t |-> t1, e |-> Open(t), c |-> cli] EXCEPT !.c = cc] = [s |-> ss, t |-> t1, e |-> Open(t), c |-> cc]
      OBVIOUS
    <3> QED BY <3>1, <3>2, <3>3
  <2>3. /\ t1 \in [Turn -> AcpTurn] /\ \A u \in Turn : t1[u].run = "closing" => turn[u].run = "closing"
    <3>1. t1 \in [Turn -> AcpTurn] BY <1>3 DEF AcpTurn
    <3>2. t1[t].run = "awaiting" BY <1>3 DEF AcpTurn
    <3>3. \A u \in Turn \ {t} : t1[u] = u0[u] BY <1>3
    <3> HIDE DEF t1
    <3> QED BY <1>3, <3>1, <3>2, <3>3
  <2>4. /\ cc \in CliSet /\ cc.interrupted = cli.interrupted
        /\ cc.work = IF child = "alive" THEN Append(cli.work, t) ELSE cli.work
    BY <1>g, SeqAppend DEF Acp!Prompted, CliSet
  <2>5. Silent(cli, pipe) /\ session.timers = {} /\ ~cli.interrupted /\ ~session.fatal
        /\ AcpPipe(pipe, m) /\ AcpLink(Acp!g0, pipe, pending)
    BY <1>4, <1>12
  <2> HIDE DEF t1, cc, h
  <2>6. h \in AcpState /\ h.s = ss /\ h.t = t1 /\ h.e = Open(t) /\ h.c = cc
    BY <2>2, <2>3, <2>4, <1>2, <1>4 DEF AcpState
  <2>7. AcpGood(h, native') BY <1>2, <1>4, <1>6, <2>6 DEF AcpGood
  <2>8. cc.work = (IF child = "alive" THEN <<t>> ELSE <<>>)
    <3>1. cli.work = <<>> BY <2>5 DEF Silent
    <3> QED BY <2>4, <3>1, AppendFirst
  <2>9. \A i \in DOMAIN cc.work : i = 1 /\ cc.work[i] = t /\ child = "alive" BY <2>8
  <2>10. WorkOK(cc, native')
    BY <1>4, <1>6, <1>12, <2>9 DEF WorkOK
  <2>11. AcpLink(h, pipe, pending')
    <3>1. \A i \in DOMAIN cc.work : AcpOwed(h, cc.work[i]) BY <2>5, <2>6, <2>9, <1>2 DEF AcpOwed
    <3>2. \A u \in Turn : <<"prompt", u>> \in pending' => u = t \/ Open(t)[u].ends # <<>>
      <4>1. \A u \in Turn : <<"prompt", u>> \in pending' => u = t \/ <<"prompt", u>> \in pending
        BY <1>6, <1>12
      <4>2. \A u \in Turn : <<"prompt", u>> \in pending => stream[u].ends # <<>>
        BY <2>5, <1>a, AcpNow DEF AcpLink, Turn, NoTurn
      <4> QED BY <4>1, <4>2, <1>4
    <3>3. \A u \in Turn : h.t[u].run # "closing" BY <2>3, <2>5, <2>6, AcpNow DEF AcpLink
    <3>4. \A i \in DOMAIN pipe : ~Speaks(pipe[i]) BY <2>5 DEF Silent
    <3>5. ~h.s.fatal /\ h.s.timers = {} /\ ~h.c.interrupted /\ h.s.active = t BY <1>2, <2>4, <2>5, <2>6
    <3> QED BY <2>6, <3>1, <3>2, <3>3, <3>4, <3>5 DEF AcpLink, Interruption
  <2>12. native' \in [Turn -> NativeSet] /\ AcpPipe(pipe, native') BY <1>4, <1>6, <2>5
  <2> QED BY <1>2, <1>6, <1>8, <1>a, <2>1, <2>6, <2>7, <2>10, <2>11, <2>12, AcpBegins
<1>13. CASE ~aborted /\ ~session.fatal /\ client # "running"
  <2> DEFINE h == Acp!PromptRejected(g, t, client)
  <2>1. Acp!Become(h) BY <1>5, <1>13
  <2>2. AcpGood(g, native') BY <1>2, <1>4, <1>6, <1>9 DEF AcpGood
  <2>3. AcpGood(h, native') /\ h.s.runtime = session.runtime
    <3>1. PICK o \in Outcome : o = "failed" BY DEF Outcome
    <3>2. /\ (IF client = "failed" THEN AcpGood(h, native') /\ h.s.runtime = g.s.runtime
              ELSE AcpEnds(g, h, t, "failed", FALSE))
          \/ AcpAlike(g, h)
      BY <2>2, AcpPromptRejected
    <3> HIDE DEF h
    <3>3. AcpEnds(g, h, t, "failed", FALSE) => AcpGood(h, native') /\ h.s.runtime = g.s.runtime
      <4>1. o # "completed" /\ o # "cancelled" BY <3>1
      <4>2. AcpEnds(g, h, t, o, FALSE) => AcpGood(h, native') BY <2>2, <4>1, AcpEndsKeeps
      <4> QED BY <4>2, <3>1 DEF AcpEnds
    <3>4. AcpAlike(g, h) => AcpGood(h, native') /\ h.s.runtime = g.s.runtime
      BY <2>2, AcpAlikeKeeps DEF AcpAlike
    <3> QED BY <3>2, <3>3, <3>4, <1>2, <1>9
  <2> HIDE DEF h
  <2> QED BY <1>4, <1>6, <1>8, <1>13, <1>a, <2>1, <2>3, AcpBegins
<1> QED BY <1>10, <1>11, <1>12, <1>13

\* What the streams, the session and the turns are when only the CLI has moved
LEMMA AcpCliMoves ==
    ASSUME AcpInv, UNCHANGED <<stream, session, turn, client, pending, child, ladder>>,
           cli' \in CliSet, native' \in [Turn -> NativeSet], pipe' \in Seq(FrameSet),
           StreamsOK(stream, native', turn, session.active),
           client = "running" =>
                WorkOK(cli', native') /\ AcpPipe(pipe', native')
                /\ AcpLink([s |-> session, t |-> turn, e |-> stream, c |-> cli'], pipe', pending)
    PROVE  AcpInv'
<1> DEFINE h == [s |-> session, t |-> turn, e |-> stream, c |-> cli']
<1>1. Acp!g0' = h BY DEF Acp!g0
<1>2. h \in AcpState BY AcpNow DEF AcpInv, AcpGood, AcpState
<1>3. AcpGood(h, native') BY <1>2 DEF AcpGood
<1>4. AcpGood(Acp!g0, native)' BY <1>1, <1>3
<1>5. pending' \subseteq Request BY DEF AcpInv
<1>6. ASSUME client' = "running" PROVE AcpCalm'
  <2>1. WorkOK(cli, native)' /\ AcpPipe(pipe, native)' BY <1>6
  <2>2. AcpLink(Acp!g0, pipe, pending)' BY <1>1, <1>6
  <2> QED BY <2>1, <2>2 DEF AcpCalm
<1>7. Leashed' BY DEF Leashed, AcpInv
<1> QED BY <1>4, <1>5, <1>6, <1>7 DEF AcpInv

\* What the CLI writes is the last frame of the pipe.
LEMMA AcpWritten ==
    ASSUME AcpInv, NEW x \in FrameSet, Acp!Writes(x)
    PROVE  /\ pipe' \in Seq(FrameSet) /\ DOMAIN pipe' \subseteq Nat
           /\ \A i \in DOMAIN pipe' :
                \/ i \in DOMAIN pipe /\ pipe'[i] = pipe[i]
                \/ i \notin DOMAIN pipe /\ pipe'[i] = x /\ \A j \in DOMAIN pipe' : ~(i < j)
<1>1. pipe \in Seq(FrameSet) BY DEF AcpInv
<1>2. pipe' = pipe \/ pipe' = Append(pipe, x) BY DEF Acp!Writes
<1>3. CASE pipe' = pipe BY <1>1, <1>3, LenProperties
<1>4. CASE pipe' = Append(pipe, x)
  <2>1. /\ pipe' \in Seq(FrameSet) /\ Len(pipe) \in Nat /\ DOMAIN pipe' = 1..Len(pipe) + 1
        /\ \A i \in DOMAIN pipe' :
             \/ i \in DOMAIN pipe /\ pipe'[i] = pipe[i]
             \/ i = Len(pipe) + 1 /\ i \notin DOMAIN pipe /\ pipe'[i] = x
    BY <1>1, <1>4, SeqAppend
  <2>2. \A j \in DOMAIN pipe' : ~(Len(pipe) + 1 < j) BY <2>1
  <2> QED BY <2>1, <2>2
<1> QED BY <1>2, <1>3, <1>4

\* The CLI writes what is not about a prompt.
LEMMA AcpWritesOther ==
    ASSUME AcpInv, UNCHANGED <<stream, session, turn, client, pending, child, ladder, native>>,
           NEW x \in FrameSet, Acp!Writes(x), ~Speaks(x),
           cli' \in CliSet, cli'.work = cli.work, cli'.interrupted = cli.interrupted
    PROVE  AcpInv'
<1> DEFINE k == [s |-> session, t |-> turn, e |-> stream, c |-> cli']
<1>1. /\ pipe' \in Seq(FrameSet) /\ DOMAIN pipe' \subseteq Nat
      /\ \A i \in DOMAIN pipe' : Speaks(pipe'[i]) => i \in DOMAIN pipe /\ pipe'[i] = pipe[i]
  BY AcpWritten
<1>2. /\ native \in [Turn -> NativeSet] /\ StreamsOK(stream, native, turn, session.active)
      /\ Acp!g0 \in AcpState
  BY AcpNow DEF AcpInv, AcpGood
<1>3. ASSUME client = "running"
      PROVE  WorkOK(cli', native) /\ AcpPipe(pipe', native) /\ AcpLink(k, pipe', pending)
  <2>1. WorkOK(cli, native) /\ AcpPipe(pipe, native) /\ AcpLink(Acp!g0, pipe, pending)
    BY <1>3 DEF AcpInv, AcpCalm
  <2> DEFINE f == pipe'
             c == cli'
  <2>2. c.work = cli.work /\ c.interrupted = cli.interrupted /\ c \in CliSet OBVIOUS
  <2>3. \A i \in DOMAIN f : Speaks(f[i]) => i \in DOMAIN pipe /\ f[i] = pipe[i] BY <1>1
  <2>k. k = [s |-> session, t |-> turn, e |-> stream, c |-> c] OBVIOUS
  <2> HIDE DEF f, c, k
  <2>4. WorkOK(c, native) BY <2>1, <2>2 DEF WorkOK
  <2>5. AcpPipe(f, native) BY <2>1, <2>3 DEF AcpPipe
  <2>6. k \in AcpState /\ k.s = session /\ k.t = turn /\ k.e = stream /\ k.c = c
    BY <2>k, <2>2, <1>2, AcpNow DEF AcpState
  <2>7. AcpLink(k, pipe, pending)
    BY <1>2, <2>1, <2>2, <2>6, AcpNow, AcpLinkKeeps
  <2>8. AcpLink(k, f, pending) BY <2>3, <2>7 DEF AcpLink
  <2> QED BY <2>4, <2>5, <2>8 DEF c, f
<1> QED BY <1>1, <1>2, <1>3, AcpCliMoves

\* What the CLI works on is a prompt the adapter waits for.
LEMMA AcpWorked ==
    ASSUME AcpInv, client = "running", cli.work # <<>>
    PROVE  /\ Head(cli.work) \in Turn /\ 1 \in DOMAIN cli.work /\ cli.work[1] = Head(cli.work)
           /\ native[Head(cli.work)] = "working" /\ AcpOwed(Acp!g0, Head(cli.work))
           /\ cli.interrupted => turn[Head(cli.work)].cancel \/ stream[Head(cli.work)].ends # <<>>
           /\ \A i \in DOMAIN pipe : pipe[i].k = "result" => pipe[i].id[2] # Head(cli.work)
<1>1. WorkOK(cli, native) /\ AcpPipe(pipe, native) /\ AcpLink(Acp!g0, pipe, pending) /\ cli \in CliSet
  BY AcpNow DEF AcpInv, AcpCalm, AcpGood, AcpState
<1>2. Head(cli.work) \in Turn /\ 1 \in DOMAIN cli.work /\ cli.work[1] = Head(cli.work)
  BY <1>1 DEF CliSet
<1>3. native[Head(cli.work)] = "working" /\ AcpOwed(Acp!g0, Head(cli.work))
  BY <1>1, <1>2, AcpNow DEF WorkOK, AcpLink
<1>4. cli.interrupted => turn[Head(cli.work)].cancel \/ stream[Head(cli.work)].ends # <<>>
  BY <1>1, AcpNow DEF AcpLink, Interruption
<1>5. \A i \in DOMAIN pipe : pipe[i].k = "result" => pipe[i].id[2] # Head(cli.work)
  BY <1>1, <1>3 DEF AcpPipe, Speaks, Outcome
<1> QED BY <1>2, <1>3, <1>4, <1>5

\* What a frame is, and which prompt is worked on.
LEMMA AcpFrames ==
    /\ \A k, id, out : Acp!Frame(k, id, out) = [k |-> k, id |-> id, out |-> out]
    /\ Acp!Worked = Head(cli.work)
BY DEF Acp!Frame, Acp!Worked

\* The CLI speaks of the prompt it works on.
LEMMA AcpCliSpeaks ==
    ASSUME AcpInv, client = "running", Acp!CliSpeaks,
           UNCHANGED <<stream, session, turn, client, pending, child, ladder>>
    PROVE  AcpInv'
<1> DEFINE w == Head(cli.work)
           x == [k |-> "text", id |-> <<"prompt", w>>, out |-> "none"]
           k == [s |-> session, t |-> turn, e |-> stream, c |-> cli']
<1>1. /\ cli.work # <<>> /\ Acp!Writes(x) /\ cli' = [cli EXCEPT !.told = TRUE] /\ native' = native
  BY AcpFrames DEF Acp!CliSpeaks
<1>2. /\ w \in Turn /\ native[w] = "working" /\ AcpOwed(Acp!g0, w)
      /\ \A i \in DOMAIN pipe : pipe[i].k = "result" => pipe[i].id[2] # w
  BY <1>1, AcpWorked
<1>3. /\ cli' \in CliSet /\ cli'.work = cli.work /\ cli'.interrupted = cli.interrupted
  BY <1>1, AcpNow DEF AcpInv, AcpGood, AcpState, CliSet
<1>4. /\ x \in FrameSet /\ Speaks(x) /\ x.k = "text" /\ x.id[2] = w
  BY <1>2 DEF FrameSet, Request, Subject, NativeSet, Speaks
<1> HIDE DEF x
<1>5. /\ pipe' \in Seq(FrameSet)
      /\ \A i \in DOMAIN pipe' : (i \in DOMAIN pipe /\ pipe'[i] = pipe[i]) \/ pipe'[i] = x
  BY <1>1, <1>4, AcpWritten
<1>6. /\ native \in [Turn -> NativeSet] /\ StreamsOK(stream, native, turn, session.active)
      /\ Acp!g0 \in AcpState
  BY AcpNow DEF AcpInv, AcpGood
<1>7. WorkOK(cli', native) /\ AcpPipe(pipe', native) /\ AcpLink(k, pipe', pending)
  <2>1. WorkOK(cli, native) /\ AcpPipe(pipe, native) /\ AcpLink(Acp!g0, pipe, pending)
    BY DEF AcpInv, AcpCalm
  <2> DEFINE f == pipe'
             c == cli'
  <2>2. c.work = cli.work /\ c.interrupted = cli.interrupted /\ c \in CliSet BY <1>3
  <2>3. \A i \in DOMAIN f : (i \in DOMAIN pipe /\ f[i] = pipe[i]) \/ f[i] = x BY <1>5
  <2>k. k = [s |-> session, t |-> turn, e |-> stream, c |-> c] OBVIOUS
  <2> HIDE DEF f, c, k
  <2>4. WorkOK(c, native) BY <2>1, <2>2 DEF WorkOK
  <2>5. AcpPipe(f, native)
    <3> SUFFICES ASSUME NEW i \in DOMAIN f, Speaks(f[i])
                 PROVE  /\ f[i].id[2] \in Turn /\ native[f[i].id[2]] # "none"
                        /\ f[i].k = "result" =>
                            /\ f[i].out \in Outcome /\ native[f[i].id[2]] \in {f[i].out, "past"}
                            /\ \A j \in DOMAIN f : i < j /\ Speaks(f[j]) => f[j].id[2] # f[i].id[2]
      BY DEF AcpPipe
    <3>1. CASE f[i] = x BY <3>1, <1>2, <1>4
    <3>2. CASE i \in DOMAIN pipe /\ f[i] = pipe[i]
      <4>1. /\ f[i].id[2] \in Turn /\ native[f[i].id[2]] # "none"
            /\ f[i].k = "result" => f[i].out \in Outcome /\ native[f[i].id[2]] \in {f[i].out, "past"}
        BY <2>1, <3>2 DEF AcpPipe
      <4>2. ASSUME f[i].k = "result", NEW j \in DOMAIN f, i < j, Speaks(f[j]) PROVE f[j].id[2] # f[i].id[2]
        <5>1. CASE f[j] = x BY <5>1, <3>2, <4>2, <1>2, <1>4
        <5>2. CASE j \in DOMAIN pipe /\ f[j] = pipe[j] BY <5>2, <3>2, <4>2, <2>1 DEF AcpPipe
        <5> QED BY <5>1, <5>2, <2>3
      <4> QED BY <4>1, <4>2
    <3> QED BY <3>1, <3>2, <2>3
  <2>6. k \in AcpState /\ k.s = session /\ k.t = turn /\ k.e = stream /\ k.c = c
    BY <2>k, <2>2, <1>6, AcpNow DEF AcpState
  <2>7. AcpLink(k, pipe, pending)
    BY <1>6, <2>1, <2>2, <2>6, AcpNow, AcpLinkKeeps
  <2>8. AcpOwed(k, w) BY <1>2, <2>6, AcpNow DEF AcpOwed
  <2>9. AcpLink(k, f, pending) BY <1>2, <1>4, <2>3, <2>7, <2>8 DEF AcpLink
  <2> QED BY <2>4, <2>5, <2>9 DEF c, f
<1> QED BY <1>1, <1>3, <1>5, <1>6, <1>7, AcpCliMoves

\* The CLI ends the prompt it works on, and can be cancelled only after a cancel of it.
LEMMA AcpCliEnds ==
    ASSUME AcpInv, client = "running", NEW out \in Outcome, Acp!CliEnds(out),
           UNCHANGED <<stream, session, turn, client, pending, child, ladder>>
    PROVE  AcpInv'
<1> DEFINE w == Head(cli.work)
           x == [k |-> "result", id |-> <<"prompt", w>>, out |-> out]
           k == [s |-> session, t |-> turn, e |-> stream, c |-> cli']
<1>1. /\ cli.work # <<>> /\ Acp!Writes(x) /\ (out = "cancelled" => cli.interrupted)
      /\ native' = [native EXCEPT ![w] = out]
      /\ cli' = [cli EXCEPT !.work = Tail(@), !.interrupted = FALSE, !.told = FALSE, !.ended = @ \cup {w}]
  BY AcpFrames DEF Acp!CliEnds
<1>2. /\ w \in Turn /\ native[w] = "working" /\ AcpOwed(Acp!g0, w)
      /\ \A i \in DOMAIN pipe : pipe[i].k = "result" => pipe[i].id[2] # w
      /\ cli.interrupted => turn[w].cancel \/ stream[w].ends # <<>>
      /\ 1 \in DOMAIN cli.work /\ cli.work[1] = w
  BY <1>1, AcpWorked
<1>c. cli \in CliSet BY AcpNow DEF AcpInv, AcpGood, AcpState
<1>s. /\ Tail(cli.work) \in Seq(Turn)
      /\ \A i \in DOMAIN Tail(cli.work) : i + 1 \in DOMAIN cli.work /\ Tail(cli.work)[i] = cli.work[i + 1] /\ i + 1 # 1
      /\ DOMAIN Tail(cli.work) \subseteq Nat
  <2>1. cli.work \in Seq(Turn) BY <1>c DEF CliSet
  <2>2. /\ Tail(cli.work) \in Seq(Turn) /\ Len(cli.work) \in Nat /\ DOMAIN Tail(cli.work) = 1..Len(cli.work) - 1
        /\ \A i \in DOMAIN Tail(cli.work) : i + 1 \in DOMAIN cli.work /\ Tail(cli.work)[i] = cli.work[i + 1]
    BY <1>1, <2>1, SeqTail
  <2> QED BY <2>2
<1>3. /\ cli' \in CliSet /\ cli'.work = Tail(cli.work) /\ ~cli'.interrupted
  BY <1>1, <1>2, <1>c, <1>s DEF CliSet
<1>4. /\ x \in FrameSet /\ Speaks(x) /\ x.k = "result" /\ x.id[2] = w /\ x.out = out
  BY <1>2 DEF FrameSet, Request, Subject, NativeSet, Speaks
<1> HIDE DEF x
<1>5. /\ pipe' \in Seq(FrameSet)
      /\ \A i \in DOMAIN pipe' : \/ i \in DOMAIN pipe /\ pipe'[i] = pipe[i]
                                 \/ pipe'[i] = x /\ \A j \in DOMAIN pipe' : ~(i < j)
  BY <1>1, <1>4, AcpWritten
<1>6. /\ native \in [Turn -> NativeSet] /\ StreamsOK(stream, native, turn, session.active)
      /\ Acp!g0 \in AcpState /\ stream \in [Turn -> StreamSet]
  BY AcpNow DEF AcpInv, AcpGood, AcpState
<1>7. native' \in [Turn -> NativeSet] /\ StreamsOK(stream, native', turn, session.active)
  BY <1>1, <1>2, <1>6, StreamsCli
<1>8. native'[w] = out /\ \A u \in Turn \ {w} : native'[u] = native[u] BY <1>1, <1>2, <1>6
<1>9. WorkOK(cli', native') /\ AcpPipe(pipe', native') /\ AcpLink(k, pipe', pending)
  <2>1. WorkOK(cli, native) /\ AcpPipe(pipe, native) /\ AcpLink(Acp!g0, pipe, pending)
    BY DEF AcpInv, AcpCalm
  <2> DEFINE f == pipe'
             c == cli'
             m == native'
  <2>2. c.work = Tail(cli.work) /\ ~c.interrupted /\ c \in CliSet BY <1>3
  <2>3. \A i \in DOMAIN f : \/ i \in DOMAIN pipe /\ f[i] = pipe[i]
                            \/ f[i] = x /\ \A j \in DOMAIN f : ~(i < j)
    BY <1>5
  <2>k. k = [s |-> session, t |-> turn, e |-> stream, c |-> c] OBVIOUS
  <2>m. m[w] = out /\ \A u \in Turn \ {w} : m[u] = native[u] BY <1>8
  <2> HIDE DEF f, c, m, k
  <2>4. WorkOK(c, m)
    <3>1. \A i \in DOMAIN c.work : i + 1 \in DOMAIN cli.work /\ c.work[i] = cli.work[i + 1] /\ i + 1 # 1
      BY <1>s, <2>2
    <3>2. \A i \in DOMAIN c.work : c.work[i] \in Turn BY <1>s, <2>2
    <3>3. \A i \in DOMAIN c.work : c.work[i] # w BY <3>1, <2>1, <1>2 DEF WorkOK
    <3>4. \A i \in DOMAIN c.work : m[c.work[i]] = "working" BY <2>1, <3>1, <3>2, <3>3, <2>m DEF WorkOK
    <3>5. \A i, j \in DOMAIN c.work : i # j => i + 1 # j + 1 BY <1>s, <2>2
    <3>6. \A i, j \in DOMAIN c.work : i # j => c.work[i] # c.work[j] BY <2>1, <3>1, <3>5 DEF WorkOK
    <3> QED BY <3>4, <3>6 DEF WorkOK
  <2>5. AcpPipe(f, m)
    <3> SUFFICES ASSUME NEW i \in DOMAIN f, Speaks(f[i])
                 PROVE  /\ f[i].id[2] \in Turn /\ m[f[i].id[2]] # "none"
                        /\ f[i].k = "result" =>
                            /\ f[i].out \in Outcome /\ m[f[i].id[2]] \in {f[i].out, "past"}
                            /\ \A j \in DOMAIN f : i < j /\ Speaks(f[j]) => f[j].id[2] # f[i].id[2]
      BY DEF AcpPipe
    <3>1. CASE f[i] = x /\ \A j \in DOMAIN f : ~(i < j) BY <3>1, <1>2, <1>4, <2>m DEF Outcome
    <3>2. CASE i \in DOMAIN pipe /\ f[i] = pipe[i]
      <4>0. /\ f[i].id[2] \in Turn /\ native[f[i].id[2]] # "none"
            /\ f[i].k = "result" => /\ f[i].out \in Outcome /\ native[f[i].id[2]] \in {f[i].out, "past"}
                                    /\ f[i].id[2] # w
        BY <2>1, <3>2, <1>2 DEF AcpPipe
      <4>1. /\ f[i].id[2] \in Turn /\ m[f[i].id[2]] # "none"
            /\ f[i].k = "result" => f[i].out \in Outcome /\ m[f[i].id[2]] \in {f[i].out, "past"}
        BY <4>0, <2>m DEF Outcome
      <4>2. ASSUME f[i].k = "result", NEW j \in DOMAIN f, i < j, Speaks(f[j]) PROVE f[j].id[2] # f[i].id[2]
        <5>1. CASE f[j] = x BY <5>1, <4>0, <4>2, <1>4
        <5>2. CASE j \in DOMAIN pipe /\ f[j] = pipe[j] BY <5>2, <3>2, <4>2, <2>1 DEF AcpPipe
        <5> QED BY <5>1, <5>2, <2>3
      <4> QED BY <4>1, <4>2
    <3> QED BY <3>1, <3>2, <2>3
  <2>6. k \in AcpState /\ k.s = session /\ k.t = turn /\ k.e = stream /\ k.c = c
    BY <2>k, <2>2, <1>6, AcpNow DEF AcpState
  <2>7. \A u : AcpOwed(k, u) <=> AcpOwed(Acp!g0, u) BY <2>6, AcpNow DEF AcpOwed
  <2>8. \A i \in DOMAIN c.work : AcpOwed(k, c.work[i])
    <3>1. \A i \in DOMAIN c.work : i + 1 \in DOMAIN cli.work /\ c.work[i] = cli.work[i + 1]
      BY <1>s, <2>2
    <3> QED BY <3>1, <2>1, <2>7, AcpNow DEF AcpLink
  <2>9. \A i \in DOMAIN f : Speaks(f[i]) => f[i].id[2] \in Turn /\ AcpOwed(k, f[i].id[2])
    BY <2>1, <2>3, <2>7, <1>2, <1>4 DEF AcpLink
  <2>10. AcpLink(k, f, pending) BY <2>1, <2>2, <2>6, <2>8, <2>9, AcpNow DEF AcpLink, Interruption
  <2> QED BY <2>4, <2>5, <2>10 DEF c, f, m
<1> QED BY <1>3, <1>5, <1>7, <1>9, AcpCliMoves

\* Nothing the CLI or the operating system does breaks the invariant.
LEMMA AcpEnvironment == ASSUME AcpInv, Acp!Environment PROVE AcpInv'
<1>e. UNCHANGED <<client, pending, session, turn>> BY DEF Acp!Environment, Acp!rpcVars
<1>c. cli \in CliSet /\ native \in [Turn -> NativeSet] BY AcpNow DEF AcpInv, AcpGood, AcpState
<1>p. pending' \subseteq Request BY <1>e DEF AcpInv
<1>1. CASE /\ client = "running" /\ UNCHANGED <<Acp!processVars, stream>>
           /\ Acp!CliSpeaks \/ Acp!CliAnswers \/ Acp!CliAsks \/ Acp!CliGarbles
              \/ \E out \in Acp!Outcome : Acp!CliEnds(out)
  <2>1. UNCHANGED <<stream, session, turn, client, pending, child, ladder>>
    BY <1>e, <1>1 DEF Acp!processVars
  <2>2. CASE Acp!CliSpeaks BY <1>1, <2>1, <2>2, AcpCliSpeaks
  <2>3. CASE \E out \in Acp!Outcome : Acp!CliEnds(out) BY <1>1, <2>1, <2>3, AcpNames, AcpCliEnds
  <2>4. CASE Acp!CliAnswers
    <3>1. PICK r \in cli.asked, ok \in BOOLEAN :
            /\ Acp!Writes(Acp!Frame("answer", r, CASE ~ok -> "error"
                                                   [] ok /\ r[2] = Acp!NoTurn -> "ok"
                                                   [] OTHER -> native[r[2]]))
            /\ cli' = [cli EXCEPT !.asked = @ \ {r}]
            /\ native' = native
      BY <2>4 DEF Acp!CliAnswers
    <3> DEFINE out == CASE ~ok -> "error"
                        [] ok /\ r[2] = Acp!NoTurn -> "ok"
                        [] OTHER -> native[r[2]]
               x == [k |-> "answer", id |-> r, out |-> out]
    <3>2. r \in Request /\ r[2] \in Subject BY <1>c DEF CliSet, Request
    <3>3. out \in NativeSet \cup {"ok", "error"}
      BY <1>c, <3>2, AcpNames DEF Subject
    <3> HIDE DEF out
    <3>4. x \in FrameSet /\ ~Speaks(x) BY <3>2, <3>3 DEF FrameSet, Speaks
    <3>5. Acp!Writes(x) BY <3>1, AcpFrames DEF out
    <3>6. cli' \in CliSet /\ cli'.work = cli.work /\ cli'.interrupted = cli.interrupted
      BY <1>c, <3>1 DEF CliSet
    <3> HIDE DEF x
    <3> QED BY <2>1, <3>1, <3>4, <3>5, <3>6, AcpWritesOther
  <2>5. CASE Acp!CliAsks
    <3> DEFINE x == [k |-> "ask", id |-> <<"prompt", IF cli.work = <<>> THEN NoTurn ELSE Head(cli.work)>>, out |-> "none"]
    <3>1. Acp!Writes(x) /\ cli' = cli /\ native' = native BY <2>5, AcpFrames, AcpNames DEF Acp!CliAsks
    <3>2. (IF cli.work = <<>> THEN NoTurn ELSE Head(cli.work)) \in Subject
      BY <1>c DEF CliSet, Subject
    <3>3. x \in FrameSet /\ ~Speaks(x) BY <3>2 DEF FrameSet, Speaks, Request, NativeSet
    <3> HIDE DEF x
    <3> QED BY <1>c, <2>1, <3>1, <3>3, AcpWritesOther
  <2>6. CASE Acp!CliGarbles
    <3> DEFINE x == [k |-> "garbage", id |-> <<"none", NoTurn>>, out |-> "none"]
    <3>1. Acp!Writes(x) /\ cli' = cli /\ native' = native BY <2>6, AcpFrames, AcpNames DEF Acp!CliGarbles
    <3>3. x \in FrameSet /\ ~Speaks(x) BY DEF FrameSet, Speaks, Request, NativeSet, Subject
    <3> HIDE DEF x
    <3> QED BY <1>c, <2>1, <3>1, <3>3, AcpWritesOther
  <2> QED BY <1>1, <2>2, <2>3, <2>4, <2>5, <2>6
<1>2. CASE Acp!ChildDies /\ UNCHANGED stream
  <2>1. /\ child' = "dead" /\ UNCHANGED <<stream, cli, native, pipe, ladder>>
    BY <1>2 DEF Acp!ChildDies
  <2>2. Acp!Become(Acp!g0) BY <1>e, <2>1, AcpNow DEF Acp!Become
  <2> QED BY <1>e, <1>p, <2>1, <2>2, AcpAlikeItself, AcpSettlesAlike
<1>3. CASE (Acp!Escalate \/ Acp!Finish) /\ UNCHANGED <<pipe, stream, Acp!cliVars>>
  <2>1. /\ UNCHANGED <<stream, cli, native, pipe>> /\ (ladder = "gaveUp" => ladder' = "gaveUp")
        /\ child' = child \/ child' = "gone"
    BY <1>3 DEF Acp!Escalate, Acp!Finish, Acp!cliVars
  <2>2. Acp!Become(Acp!g0) BY <1>e, <2>1, AcpNow DEF Acp!Become
  <2>3. child' = child \/ child' # "alive" BY <2>1
  <2> QED BY <1>e, <1>p, <2>1, <2>2, <2>3, AcpAlikeItself, AcpSettlesAlike
<1> QED BY <1>1, <1>2, <1>3 DEF Acp!Environment

\* Every step keeps the invariant of the ACP adapter.
LEMMA AcpNext == ASSUME AcpInv, Acp!Next PROVE AcpInv'
<1>1. CASE Acp!Requests
  BY <1>1, AcpLaunch, AcpCancel, AcpClose, AcpPrompt, AcpNames DEF Acp!Requests
<1>2. CASE Acp!Reactions
  BY <1>2, AcpLaunchTimesOut, AcpLaunchFails, AcpLaunchThrows, AcpWriteFails, AcpReadFrame, AcpTimerFires,
     AcpHandleExit, AcpPromptClosed DEF Acp!Reactions
<1>3. CASE Acp!Closing BY <1>3, AcpCloseNative, AcpClosesClient, AcpCloseEnds DEF Acp!Closing
<1>4. CASE Acp!HandleStderr BY <1>4, AcpHandleStderr
<1>5. CASE Acp!Environment BY <1>5, AcpEnvironment
<1> QED BY <1>1, <1>2, <1>3, <1>4, <1>5 DEF Acp!Next

\* The invariant gives the ACP adapter's half of both properties.
LEMMA AcpSafe == ASSUME AcpInv PROVE OneOwnOutcome /\ NoOrphan
<1>1. stream \in [Turn -> StreamSet] /\ StreamsOK(stream, native, turn, session.active)
  BY AcpNow DEF AcpInv, AcpGood, AcpState
<1>2. \A t \in Turn : Len(stream[t].ends) <= 1
  <2>1. \A o : Len(<<o>>) = 1 OBVIOUS
  <2>2. Len(<<>>) = 0 BY EmptySeq
  <2>3. \A x \in EndSet : x = <<>> \/ \E o : x = <<o>> BY DEF EndSet
  <2>4. ASSUME NEW x \in EndSet PROVE Len(x) <= 1
    <3>1. CASE x = <<>>
      <4>1. Len(x) = 0 BY <2>2, <3>1
      <4> QED BY <4>1
    <3>2. CASE \E o : x = <<o>>
      <4>1. PICK o : x = <<o>> BY <3>2
      <4>2. Len(x) = 1 BY <4>1
      <4> QED BY <4>2
    <3> QED BY <2>3, <2>4, <3>1, <3>2
  <2> QED BY <1>1, <2>4 DEF StreamSet
<1>3. OneOwnOutcome BY <1>1, <1>2 DEF OneOwnOutcome, StreamsOK
<1>4. NoOrphan BY DEF NoOrphan, AcpInv, Leashed
<1> QED BY <1>3, <1>4

==============================================================================
