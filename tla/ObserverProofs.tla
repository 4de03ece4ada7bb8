--------------------------- MODULE ObserverProofs ----------------------------
(***************************************************************************)
(* What those are told who follow the broker from outside: the pages that read*)
(* the room's events (EventStream), and the waits, watches and steers of   *)
(* callers (Supervision), for any number of each.  The two share no state, and*)
(* each is proved by itself.                                               *)
(*                                                                         *)
(* A page reads every durable event of its room once and in order, and the *)
(* stream implements OrderedFeed, for any number of events, any buffers and*)
(* any number of faults.  The buffers between the log and the page are     *)
(* numbered, each from where the one before it ends: wire, out, look and what*)
(* is still to be replayed; and what has arrived meanwhile, in boot, begins no*)
(* later than the replay will end.  What was accepted is remembered, as long*)
(* as DedupWindow has room for it.  The first part is about queues of frames*)
(* whose events follow each other without a gap, proved by induction along a*)
(* queue; what induction rests on is that a set of natural numbers has a   *)
(* least one.                                                              *)
(*                                                                         *)
(* The properties of Supervision are inductive together: a wait is told of *)
(* the end of a Turn because it is subscribed to every Turn that is not over,*)
(* and the last one to be told of keeps the wait from being forgotten.     *)
(***************************************************************************)
EXTENDS EventStream, Supervision, WellFoundedInduction, SequenceTheorems, FiniteSetTheorems, TLAPS

----------------------------------------------------------------------------
(* EventStream                                                              *)

----------------------------------------------------------------------------
(* A set of numbers has a least one: what induction is made of here           *)

Before == OpToRel(<, Nat)

LEMMA BeforeIsLess == \A x, y \in Nat : <<x, y>> \in Before <=> x < y
BY DEF Before, OpToRel

LEMMA LeastNumber ==
    ASSUME NEW T \in SUBSET Nat, T # {}
    PROVE  \E x \in T : \A y \in T : x <= y
<1>1. IsWellFoundedOn(Before, Nat) BY NatLessThanWellFounded DEF Before
<1>2. PICK x \in T : \A y \in T : ~ (<<y, x>> \in Before) BY <1>1, WFMin
<1>3. x \in Nat OBVIOUS
<1>4. ASSUME NEW y \in T PROVE x <= y
  <2>1. y \in Nat OBVIOUS
  <2>2. ~(y < x) BY <1>2, <1>3, <2>1, BeforeIsLess
  <2> QED BY <1>3, <2>1, <2>2
<1> QED BY <1>4

\* A set of numbers that holds 0 and the successor of each that is below n.
LEMMA UpTo ==
    ASSUME NEW n \in Nat, NEW Good, 0 \in Good,
           \A i \in 1..n : i - 1 \in Good => i \in Good
    PROVE  0..n \subseteq Good
<1> DEFINE Bad == (0..n) \ Good
<1> SUFFICES ASSUME Bad # {} PROVE FALSE OBVIOUS
<1>1. Bad \in SUBSET Nat OBVIOUS
<1> HIDE DEF Bad
<1>2. PICK i \in Bad : \A j \in Bad : i <= j BY <1>1, LeastNumber
<1>3. i \in 0..n /\ i \notin Good /\ i # 0 BY DEF Bad
<1>4. i \in 1..n /\ i - 1 \in 0..n /\ ~(i <= i - 1) BY <1>3
<1>5. i - 1 \in Good BY <1>2, <1>4 DEF Bad
<1> QED BY <1>3, <1>4, <1>5

----------------------------------------------------------------------------
(* Kept, by its recursion                                                     *)

KeptStep(q, frames, g, i) ==
    IF i = 0 THEN <<>>
    ELSE IF q[i] \in frames THEN Append(g[i - 1], q[i]) ELSE g[i - 1]

\* The prefixes of the result are there, as far as any n.
LEMMA KeptExists ==
    ASSUME NEW q, Len(q) \in Nat, NEW frames
    PROVE  \E g : g = [i \in 0..Len(q) |-> KeptStep(q, frames, g, i)]
<1> DEFINE Good == {n \in Nat : \E g : g = [i \in 0..n |-> KeptStep(q, frames, g, i)]}
<1>1. 0 \in Good
  <2> DEFINE g == [i \in 0..0 |-> <<>>]
  <2>1. g = [i \in 0..0 |-> KeptStep(q, frames, g, i)] BY DEF KeptStep
  <2> QED BY <2>1
<1>2. ASSUME NEW n \in 1..Len(q), n - 1 \in Good PROVE n \in Good
  <2>1. PICK g : g = [i \in 0..(n - 1) |-> KeptStep(q, frames, g, i)] BY <1>2
  <2> DEFINE h == [i \in 0..n |-> IF i = n THEN KeptStep(q, frames, g, n) ELSE g[i]]
  <2>2. ASSUME NEW i \in 0..n PROVE h[i] = KeptStep(q, frames, h, i)
    <3>1. CASE i = n BY <3>1 DEF KeptStep
    <3>2. CASE i # n
      <4>1. i \in 0..(n - 1) BY <3>2
      <4>2. h[i] = KeptStep(q, frames, g, i) BY <2>1, <3>2, <4>1
      <4>3. i # 0 => h[i - 1] = g[i - 1] BY <4>1
      <4> QED BY <4>2, <4>3 DEF KeptStep
    <3> QED BY <3>1, <3>2
  <2>3. h = [i \in 0..n |-> KeptStep(q, frames, h, i)] BY <2>2
  <2> HIDE DEF h
  <2>4. n \in Nat OBVIOUS
  <2> QED BY <2>3, <2>4
<1> HIDE DEF Good
<1>3. 0..Len(q) \subseteq Good BY <1>1, <1>2, UpTo
<1>4. Len(q) \in Good BY <1>3
<1> QED BY <1>4 DEF Good

LEMMA KeptIs ==
    ASSUME NEW q, Len(q) \in Nat, NEW frames
    PROVE  \E g : /\ Kept(q, frames) = g[Len(q)]
                  /\ g = [i \in 0..Len(q) |-> KeptStep(q, frames, g, i)]
<1> DEFINE kept == CHOOSE g : g = [i \in 0..Len(q) |->
                       IF i = 0 THEN <<>>
                       ELSE IF q[i] \in frames THEN Append(g[i - 1], q[i]) ELSE g[i - 1]]
<1>1. Kept(q, frames) = kept[Len(q)] BY DEF Kept
<1>2. PICK g : g = [i \in 0..Len(q) |-> KeptStep(q, frames, g, i)] BY KeptExists
<1>3. g = [i \in 0..Len(q) |->
             IF i = 0 THEN <<>>
             ELSE IF q[i] \in frames THEN Append(g[i - 1], q[i]) ELSE g[i - 1]]
  BY <1>2 DEF KeptStep
<1>4. kept = [i \in 0..Len(q) |-> KeptStep(q, frames, kept, i)] BY <1>3 DEF KeptStep
<1> HIDE DEF kept
<1> QED BY <1>1, <1>4

----------------------------------------------------------------------------
(* Numbered queues                                                           *)

\* The events of q are a + 1, a + 2, ..., b, in this order; other frames may stand
\* between them.
Numbered(q, a, b) ==
    \E c \in [0..Len(q) -> Nat] :
        /\ c[0] = a /\ c[Len(q)] = b
        /\ \A i \in 1..Len(q) :
               IF q[i].kind = "event" THEN c[i] = c[i - 1] + 1 /\ q[i].n = c[i]
               ELSE c[i] = c[i - 1]

LEMMA NumberedType ==
    ASSUME NEW q \in Seq(Frame), NEW a, NEW b, Numbered(q, a, b)
    PROVE  a \in Nat /\ b \in Nat
<1>1. Len(q) \in Nat OBVIOUS
<1> QED BY <1>1 DEF Numbered

LEMMA NumberedEmpty == \A a \in Nat : Numbered(<<>>, a, a)
<1> SUFFICES ASSUME NEW a \in Nat PROVE Numbered(<<>>, a, a) OBVIOUS
<1> DEFINE c == [i \in 0..0 |-> a]
<1>1. c \in [0..Len(<<>>) -> Nat] /\ c[0] = a /\ c[Len(<<>>)] = a OBVIOUS
<1>2. 1..Len(<<>>) = {} OBVIOUS
<1> QED BY <1>1, <1>2 DEF Numbered

LEMMA NumberedAppend ==
    ASSUME NEW q \in Seq(Frame), NEW a, NEW b, Numbered(q, a, b), NEW f \in Frame
    PROVE  /\ Append(q, f) \in Seq(Frame)
           /\ f.kind # "event" => Numbered(Append(q, f), a, b)
           /\ f.kind = "event" /\ f.n = b + 1 => Numbered(Append(q, f), a, b + 1)
<1> DEFINE p == Append(q, f)
           m == Len(q)
<1>1. p \in Seq(Frame) /\ m \in Nat /\ Len(p) = m + 1
      /\ p[m + 1] = f /\ \A i \in 1..m : p[i] = q[i]
  OBVIOUS
<1>2. PICK c \in [0..m -> Nat] :
        /\ c[0] = a /\ c[m] = b
        /\ \A i \in 1..m : IF q[i].kind = "event" THEN c[i] = c[i - 1] + 1 /\ q[i].n = c[i]
                           ELSE c[i] = c[i - 1]
  BY DEF Numbered
<1>3. ASSUME NEW e \in Nat,
             IF f.kind = "event" THEN e = b + 1 /\ f.n = e ELSE e = b
      PROVE  Numbered(p, a, e)
  <2> HIDE DEF p, m
  <2> DEFINE d == [i \in 0..(m + 1) |-> IF i = m + 1 THEN e ELSE c[i]]
  <2>1. d \in [0..(m + 1) -> Nat] BY <1>1
  <2>2. d[0] = a /\ d[m + 1] = e BY <1>1, <1>2
  <2>3. ASSUME NEW i \in 1..(m + 1)
        PROVE  IF p[i].kind = "event" THEN d[i] = d[i - 1] + 1 /\ p[i].n = d[i]
               ELSE d[i] = d[i - 1]
    <3>1. CASE i = m + 1
      <4>1. p[i] = f /\ d[i] = e /\ d[i - 1] = b BY <1>1, <1>2, <3>1
      <4> QED BY <1>3, <4>1
    <3>2. CASE i # m + 1
      <4>1. i \in 1..m BY <1>1, <3>2
      <4>2. p[i] = q[i] /\ d[i] = c[i] /\ d[i - 1] = c[i - 1] BY <1>1, <4>1
      <4> QED BY <1>2, <4>1, <4>2
    <3> QED BY <3>1, <3>2
  <2> HIDE DEF d
  <2> QED BY <1>1, <2>1, <2>2, <2>3 DEF Numbered
<1>4. b \in Nat BY NumberedType
<1> HIDE DEF m
<1> QED BY <1>1, <1>3, <1>4

\* Without its first frame, a queue goes on where that frame ends.
LEMMA NumberedTail ==
    ASSUME NEW q \in Seq(Frame), q # <<>>, NEW a, NEW b, Numbered(q, a, b)
    PROVE  /\ Head(q) \in Frame /\ Tail(q) \in Seq(Frame)
           /\ Head(q).kind = "event" => Head(q).n = a + 1 /\ Numbered(Tail(q), a + 1, b)
           /\ Head(q).kind # "event" => Numbered(Tail(q), a, b)
<1> DEFINE p == Tail(q)
           m == Len(q)
<1>1. p \in Seq(Frame) /\ m \in Nat \ {0} /\ Len(p) = m - 1
      /\ Head(q) = q[1] /\ Head(q) \in Frame /\ \A i \in 1..(m - 1) : p[i] = q[i + 1]
  OBVIOUS
<1>2. PICK c \in [0..m -> Nat] :
        /\ c[0] = a /\ c[m] = b
        /\ \A i \in 1..m : IF q[i].kind = "event" THEN c[i] = c[i - 1] + 1 /\ q[i].n = c[i]
                           ELSE c[i] = c[i - 1]
  BY DEF Numbered
<1> HIDE DEF p, m
<1> DEFINE d == [i \in 0..(m - 1) |-> c[i + 1]]
<1>3. d \in [0..(m - 1) -> Nat] BY <1>1
<1>4. d[0] = c[1] /\ d[m - 1] = b BY <1>1, <1>2
<1>5. ASSUME NEW i \in 1..(m - 1)
      PROVE  IF p[i].kind = "event" THEN d[i] = d[i - 1] + 1 /\ p[i].n = d[i]
             ELSE d[i] = d[i - 1]
  <2>1. i + 1 \in 1..m /\ p[i] = q[i + 1] /\ d[i] = c[i + 1] /\ d[i - 1] = c[i + 1 - 1]
    BY <1>1
  <2> QED BY <1>2, <2>1
<1> HIDE DEF d
<1>6. Numbered(p, c[1], b) BY <1>1, <1>3, <1>4, <1>5 DEF Numbered
<1>7. 1 \in 1..m BY <1>1
<1>8. IF Head(q).kind = "event" THEN c[1] = a + 1 /\ Head(q).n = c[1] ELSE c[1] = a
  <2>1. IF q[1].kind = "event" THEN c[1] = c[0] + 1 /\ q[1].n = c[1] ELSE c[1] = c[0]
    BY <1>2, <1>7
  <2> QED BY <1>1, <1>2, <2>1
<1> QED BY <1>1, <1>6, <1>8 DEF p

LEMMA NumberedConcat ==
    ASSUME NEW p \in Seq(Frame), NEW q \in Seq(Frame), NEW a, NEW b, NEW e,
           Numbered(p, a, b), Numbered(q, b, e)
    PROVE  p \o q \in Seq(Frame) /\ Numbered(p \o q, a, e)
<1> DEFINE r == p \o q
           m == Len(p)
           n == Len(q)
<1>1. r \in Seq(Frame) /\ m \in Nat /\ n \in Nat /\ Len(r) = m + n
      /\ (\A i \in 1..m : r[i] = p[i]) /\ (\A i \in (m + 1)..(m + n) : r[i] = q[i - m])
  OBVIOUS
<1>2. PICK c \in [0..m -> Nat] :
        /\ c[0] = a /\ c[m] = b
        /\ \A i \in 1..m : IF p[i].kind = "event" THEN c[i] = c[i - 1] + 1 /\ p[i].n = c[i]
                           ELSE c[i] = c[i - 1]
  BY DEF Numbered
<1>3. PICK d \in [0..n -> Nat] :
        /\ d[0] = b /\ d[n] = e
        /\ \A i \in 1..n : IF q[i].kind = "event" THEN d[i] = d[i - 1] + 1 /\ q[i].n = d[i]
                           ELSE d[i] = d[i - 1]
  BY DEF Numbered
<1> HIDE DEF r, m, n
<1> DEFINE x == [i \in 0..(m + n) |-> IF i <= m THEN c[i] ELSE d[i - m]]
<1>4. x \in [0..(m + n) -> Nat]
  <2>1. ASSUME NEW i \in 0..(m + n) PROVE (IF i <= m THEN c[i] ELSE d[i - m]) \in Nat
    <3>1. CASE i <= m
      <4>1. i \in 0..m BY <1>1, <3>1
      <4> QED BY <3>1, <4>1
    <3>2. CASE ~(i <= m)
      <4>1. i - m \in 0..n BY <1>1, <3>2
      <4> QED BY <3>2, <4>1
    <3> QED BY <3>1, <3>2
  <2> QED BY <2>1
<1>5. x[0] = a /\ x[m + n] = e
  <2>1. x[0] = c[0] BY <1>1
  <2>2. CASE n = 0 BY <1>1, <1>2, <1>3, <2>1, <2>2
  <2>3. CASE n # 0
    <3>1. x[m + n] = d[n] BY <1>1, <2>3
    <3> QED BY <1>2, <1>3, <2>1, <3>1
  <2> QED BY <2>2, <2>3
<1>6. ASSUME NEW i \in 1..(m + n)
      PROVE  IF r[i].kind = "event" THEN x[i] = x[i - 1] + 1 /\ r[i].n = x[i]
             ELSE x[i] = x[i - 1]
  <2>1. CASE i <= m
    <3>1. i \in 1..m /\ r[i] = p[i] /\ x[i] = c[i] /\ x[i - 1] = c[i - 1] BY <1>1, <2>1
    <3> QED BY <1>2, <3>1
  <2>2. CASE ~(i <= m)
    <3>1. i - m \in 1..n /\ i \in (m + 1)..(m + n) BY <1>1, <2>2
    <3>2. r[i] = q[i - m] /\ x[i] = d[i - m] BY <1>1, <2>2, <3>1
    <3>3. x[i - 1] = d[i - m - 1]
      <4>1. CASE i - 1 <= m
        <5>1. i - 1 = m /\ i - m - 1 = 0 BY <1>1, <2>2, <4>1
        <5>2. x[m] = c[m] BY <1>1
        <5> QED BY <1>2, <1>3, <5>1, <5>2
      <4>2. CASE ~(i - 1 <= m)
        <5>1. i - 1 \in 0..(m + n) /\ i - 1 - m = i - m - 1 BY <1>1
        <5> QED BY <4>2, <5>1
      <4> QED BY <4>1, <4>2
    <3> HIDE DEF x
    <3> QED BY <1>3, <3>1, <3>2, <3>3
  <2> QED BY <2>1, <2>2
<1> HIDE DEF x
<1> QED BY <1>1, <1>4, <1>5, <1>6 DEF Numbered, r

\* The beginning of a queue.
LEMMA NumberedPrefix ==
    ASSUME NEW q \in Seq(Frame), NEW a, NEW b, Numbered(q, a, b), NEW k \in 0..Len(q)
    PROVE  /\ SubSeq(q, 1, k) \in Seq(Frame)
           /\ \E e \in Nat : Numbered(SubSeq(q, 1, k), a, e)
<1> DEFINE p == SubSeq(q, 1, k)
           m == Len(q)
<1>1. p \in Seq(Frame) /\ m \in Nat /\ Len(p) = k /\ \A i \in 1..k : p[i] = q[i]
  OBVIOUS
<1>2. PICK c \in [0..m -> Nat] :
        /\ c[0] = a /\ c[m] = b
        /\ \A i \in 1..m : IF q[i].kind = "event" THEN c[i] = c[i - 1] + 1 /\ q[i].n = c[i]
                           ELSE c[i] = c[i - 1]
  BY DEF Numbered
<1>3. k \in 0..m OBVIOUS
<1> HIDE DEF p, m
<1> DEFINE d == [i \in 0..k |-> c[i]]
<1>4. d \in [0..k -> Nat] /\ d[0] = a /\ d[k] = c[k] /\ c[k] \in Nat BY <1>1, <1>2, <1>3
<1>5. ASSUME NEW i \in 1..k
      PROVE  IF p[i].kind = "event" THEN d[i] = d[i - 1] + 1 /\ p[i].n = d[i]
             ELSE d[i] = d[i - 1]
  <2>1. i \in 1..m /\ p[i] = q[i] /\ d[i] = c[i] /\ d[i - 1] = c[i - 1] BY <1>1, <1>3
  <2> QED BY <1>2, <2>1
<1> HIDE DEF d
<1>6. Numbered(p, a, c[k]) BY <1>1, <1>4, <1>5 DEF Numbered
<1> QED BY <1>1, <1>4, <1>6 DEF p

\* The numbers of its events are those between its ends.
LEMMA NumberedRange ==
    ASSUME NEW q \in Seq(Frame), NEW a, NEW b, Numbered(q, a, b)
    PROVE  a <= b /\ SeqsOf(q) = (a + 1)..b
<1> DEFINE m == Len(q)
<1>1. m \in Nat /\ DOMAIN q = 1..m /\ \A i \in 1..m : q[i] \in Frame OBVIOUS
<1>2. PICK c \in [0..m -> Nat] :
        /\ c[0] = a /\ c[m] = b
        /\ \A i \in 1..m : IF q[i].kind = "event" THEN c[i] = c[i - 1] + 1 /\ q[i].n = c[i]
                           ELSE c[i] = c[i - 1]
  BY DEF Numbered
<1> HIDE DEF m
<1> DEFINE Good == {k \in 0..m :
                      /\ a <= c[k]
                      /\ \A i \in 1..k : q[i].kind = "event" => q[i].n \in (a + 1)..c[k]
                      /\ \A x \in (a + 1)..c[k] :
                            \E i \in 1..k : q[i].kind = "event" /\ q[i].n = x}
<1>3. a \in Nat /\ 0 \in 0..m BY <1>1, <1>2
<1>4. 0 \in Good BY <1>2, <1>3
<1>5. ASSUME NEW k \in 1..m, k - 1 \in Good PROVE k \in Good
  <2>1. k \in 0..m /\ k - 1 \in 0..m /\ c[k] \in Nat /\ c[k - 1] \in Nat BY <1>1, <1>2
  <2>2. /\ a <= c[k - 1]
        /\ \A i \in 1..(k - 1) : q[i].kind = "event" => q[i].n \in (a + 1)..c[k - 1]
        /\ \A x \in (a + 1)..c[k - 1] :
              \E i \in 1..(k - 1) : q[i].kind = "event" /\ q[i].n = x
    BY <1>5
  <2>3. \A i \in 1..k : i = k \/ i \in 1..(k - 1) BY <2>1
  <2>3a. 1..(k - 1) \subseteq 1..k /\ k \in 1..k BY <2>1
  <2>4. CASE q[k].kind = "event"
    <3>1. c[k] = c[k - 1] + 1 /\ q[k].n = c[k] BY <1>2, <2>4
    <3>2. \A i \in 1..k : q[i].kind = "event" => q[i].n \in (a + 1)..c[k]
      BY <1>3, <2>1, <2>2, <2>3, <3>1
    <3>3. \A x \in (a + 1)..c[k] : x = c[k] \/ x \in (a + 1)..c[k - 1]
      BY <1>3, <2>1, <3>1
    <3>4. \A x \in (a + 1)..c[k] : \E i \in 1..k : q[i].kind = "event" /\ q[i].n = x
      BY <2>2, <2>3a, <2>4, <3>1, <3>3
    <3>5. a <= c[k] BY <1>3, <2>1, <2>2, <3>1
    <3> QED BY <2>1, <3>2, <3>4, <3>5
  <2>5. CASE q[k].kind # "event"
    <3>1. c[k] = c[k - 1] BY <1>2, <2>5
    <3>2. \A i \in 1..k : q[i].kind = "event" => q[i].n \in (a + 1)..c[k]
      BY <2>2, <2>3, <2>5, <3>1
    <3>3. \A x \in (a + 1)..c[k] : \E i \in 1..k : q[i].kind = "event" /\ q[i].n = x
      BY <2>2, <2>3a, <3>1
    <3> QED BY <2>1, <2>2, <3>1, <3>2, <3>3
  <2> QED BY <2>4, <2>5
<1> HIDE DEF Good
<1>6. 0..m \subseteq Good BY <1>1, <1>4, <1>5, UpTo
<1>7. m \in Good BY <1>1, <1>6
<1>8. /\ a <= b
      /\ \A i \in 1..m : q[i].kind = "event" => q[i].n \in (a + 1)..b
      /\ \A x \in (a + 1)..b : \E i \in 1..m : q[i].kind = "event" /\ q[i].n = x
  BY <1>2, <1>7 DEF Good
<1>9. SeqsOf(q) \subseteq (a + 1)..b BY <1>1, <1>8 DEF SeqsOf, Events, Frames
<1>10. (a + 1)..b \subseteq SeqsOf(q)
  <2> SUFFICES ASSUME NEW x \in (a + 1)..b PROVE x \in SeqsOf(q) OBVIOUS
  <2>1. PICK i \in 1..m : q[i].kind = "event" /\ q[i].n = x BY <1>8
  <2>2. q[i] \in Events(q) BY <1>1, <2>1 DEF Events, Frames
  <2> QED BY <2>1, <2>2 DEF SeqsOf
<1> QED BY <1>8, <1>9, <1>10

Above(x, h) == IF x > h THEN x ELSE h

\* Without its events up to h, whatever becomes of its other frames.
LEMMA NumberedKept ==
    ASSUME NEW q \in Seq(Frame), NEW a, NEW b, Numbered(q, a, b), NEW h \in Nat, NEW frames,
           \A f \in Events(q) : f \in frames <=> f.n > h
    PROVE  Kept(q, frames) \in Seq(Frame) /\ Numbered(Kept(q, frames), Above(a, h), Above(b, h))
<1> DEFINE m == Len(q)
<1>1. m \in Nat /\ DOMAIN q = 1..m /\ \A i \in 1..m : q[i] \in Frame OBVIOUS
<1>2. PICK c \in [0..m -> Nat] :
        /\ c[0] = a /\ c[m] = b
        /\ \A i \in 1..m : IF q[i].kind = "event" THEN c[i] = c[i - 1] + 1 /\ q[i].n = c[i]
                           ELSE c[i] = c[i - 1]
  BY DEF Numbered
<1>3. PICK g : /\ Kept(q, frames) = g[m]
               /\ g = [i \in 0..m |-> KeptStep(q, frames, g, i)]
  BY <1>1, KeptIs
<1> HIDE DEF m
<1> DEFINE Good == {k \in 0..m : g[k] \in Seq(Frame) /\ Numbered(g[k], Above(a, h), Above(c[k], h))}
<1>4. a \in Nat /\ 0 \in 0..m /\ Above(a, h) \in Nat BY <1>1, <1>2 DEF Above
<1>5. 0 \in Good
  <2>1. g[0] = <<>> BY <1>3, <1>4 DEF KeptStep
  <2>2. <<>> \in Seq(Frame) OBVIOUS
  <2> QED BY <1>2, <1>4, <2>1, <2>2, NumberedEmpty
<1>6. ASSUME NEW k \in 1..m, k - 1 \in Good PROVE k \in Good
  <2>1. k \in 0..m /\ k - 1 \in 0..m /\ c[k] \in Nat /\ c[k - 1] \in Nat /\ k # 0
    BY <1>1, <1>2
  <2>2. g[k - 1] \in Seq(Frame) /\ Numbered(g[k - 1], Above(a, h), Above(c[k - 1], h))
    BY <1>6
  <2>3. g[k] = IF q[k] \in frames THEN Append(g[k - 1], q[k]) ELSE g[k - 1]
    BY <1>3, <2>1 DEF KeptStep
  <2>4. q[k] \in Frame BY <1>1
  <2>5. CASE q[k].kind = "event"
    <3>1. c[k] = c[k - 1] + 1 /\ q[k].n = c[k] BY <1>2, <2>5
    <3>2. q[k] \in Events(q) BY <1>1, <2>5 DEF Events, Frames
    <3>3. CASE q[k].n > h
      <4>1. q[k].n = Above(c[k - 1], h) + 1 /\ Above(c[k], h) = Above(c[k - 1], h) + 1
        BY <2>1, <3>1, <3>3 DEF Above
      <4>2. g[k] = Append(g[k - 1], q[k]) BY <2>3, <3>2, <3>3
      <4>3. /\ Append(g[k - 1], q[k]) \in Seq(Frame)
            /\ Numbered(Append(g[k - 1], q[k]), Above(a, h), Above(c[k - 1], h) + 1)
        <5> HIDE DEF Good
        <5> QED BY <2>2, <2>4, <2>5, <4>1, NumberedAppend
      <4> QED BY <2>1, <4>1, <4>2, <4>3
    <3>4. CASE ~(q[k].n > h)
      <4>1. Above(c[k], h) = Above(c[k - 1], h) BY <2>1, <3>1, <3>4 DEF Above
      <4>2. g[k] = g[k - 1] BY <2>3, <3>2, <3>4
      <4> QED BY <2>1, <2>2, <4>1, <4>2
    <3> QED BY <3>3, <3>4
  <2>6. CASE q[k].kind # "event"
    <3>1. c[k] = c[k - 1] BY <1>2, <2>6
    <3>2. Append(g[k - 1], q[k]) \in Seq(Frame)
          /\ Numbered(Append(g[k - 1], q[k]), Above(a, h), Above(c[k - 1], h))
      BY <2>2, <2>4, <2>6, NumberedAppend
    <3> QED BY <2>1, <2>2, <2>3, <3>1, <3>2
  <2> QED BY <2>5, <2>6
<1> HIDE DEF Good
<1>7. 0..m \subseteq Good BY <1>1, <1>5, <1>6, UpTo
<1>8. m \in Good BY <1>1, <1>7
<1> QED BY <1>2, <1>3, <1>8 DEF Good

\* Its events alone are numbered one by one.
LEMMA NumberedOneByOne ==
    ASSUME NEW q \in Seq(Frame), NEW a, NEW b, Numbered(q, a, b)
    PROVE  \A i \in DOMAIN Kept(q, Events(q)) : Kept(q, Events(q))[i].n = a + i
<1> DEFINE m == Len(q)
<1>1. m \in Nat /\ DOMAIN q = 1..m /\ \A i \in 1..m : q[i] \in Frame OBVIOUS
<1>2. PICK c \in [0..m -> Nat] :
        /\ c[0] = a /\ c[m] = b
        /\ \A i \in 1..m : IF q[i].kind = "event" THEN c[i] = c[i - 1] + 1 /\ q[i].n = c[i]
                           ELSE c[i] = c[i - 1]
  BY DEF Numbered
<1>3. PICK g : /\ Kept(q, Events(q)) = g[m]
               /\ g = [i \in 0..m |-> KeptStep(q, Events(q), g, i)]
  BY <1>1, KeptIs
<1> HIDE DEF m
<1> DEFINE Good == {k \in 0..m : /\ g[k] \in Seq(Frame) /\ a + Len(g[k]) = c[k]
                                /\ \A i \in 1..Len(g[k]) : g[k][i].n = a + i}
<1>4. a \in Nat /\ 0 \in 0..m BY <1>1, <1>2
<1>5. 0 \in Good
  <2>1. g[0] = <<>> BY <1>3, <1>4 DEF KeptStep
  <2>2. <<>> \in Seq(Frame) /\ Len(<<>>) = 0 OBVIOUS
  <2>3. Len(g[0]) = 0 /\ g[0] \in Seq(Frame) BY <2>1, <2>2
  <2>4. a + Len(g[0]) = c[0] BY <1>2, <1>4, <2>3
  <2>5. \A i \in 1..Len(g[0]) : g[0][i].n = a + i BY <2>3
  <2> QED BY <1>4, <2>3, <2>4, <2>5
<1>6. ASSUME NEW k \in 1..m, k - 1 \in Good PROVE k \in Good
  <2>1. k \in 0..m /\ k - 1 \in 0..m /\ c[k] \in Nat /\ c[k - 1] \in Nat /\ k # 0
    BY <1>1, <1>2
  <2> DEFINE p == g[k - 1]
  <2>2. p \in Seq(Frame) /\ a + Len(p) = c[k - 1] /\ \A i \in 1..Len(p) : p[i].n = a + i
    BY <1>6
  <2>3. g[k] = IF q[k] \in Events(q) THEN Append(p, q[k]) ELSE p
    BY <1>3, <2>1 DEF KeptStep
  <2>4. q[k] \in Frame /\ (q[k] \in Events(q) <=> q[k].kind = "event")
    BY <1>1 DEF Events, Frames
  <2> HIDE DEF p
  <2>5. CASE q[k].kind = "event"
    <3>1. c[k] = c[k - 1] + 1 /\ q[k].n = c[k] BY <1>2, <2>5
    <3> DEFINE r == Append(p, q[k])
    <3>2. /\ r \in Seq(Frame) /\ Len(r) = Len(p) + 1 /\ Len(p) \in Nat
          /\ r[Len(p) + 1] = q[k] /\ \A i \in 1..Len(p) : r[i] = p[i]
      BY <2>2, <2>4
    <3>3. g[k] = r BY <2>3, <2>4, <2>5
    <3> HIDE DEF r
    <3>4. ASSUME NEW i \in 1..Len(r) PROVE r[i].n = a + i
      <4>1. CASE i = Len(p) + 1
        <5>1. r[i].n = c[k - 1] + 1 BY <3>1, <3>2, <4>1
        <5> QED BY <1>4, <2>2, <3>2, <4>1, <5>1
      <4>2. CASE i # Len(p) + 1
        <5>1. i \in 1..Len(p) BY <3>2, <4>2
        <5> QED BY <2>2, <3>2, <5>1
      <4> QED BY <4>1, <4>2
    <3>5. a + Len(r) = c[k] BY <1>4, <2>1, <2>2, <3>1, <3>2
    <3> QED BY <2>1, <3>2, <3>3, <3>4, <3>5
  <2>6. CASE q[k].kind # "event"
    <3>1. c[k] = c[k - 1] /\ g[k] = p BY <1>2, <2>3, <2>4, <2>6
    <3> QED BY <2>1, <2>2, <3>1
  <2> QED BY <2>5, <2>6
<1> HIDE DEF Good
<1>7. 0..m \subseteq Good BY <1>1, <1>5, <1>6, UpTo
<1>8. m \in Good BY <1>1, <1>7
<1>9. g[m] \in Seq(Frame) /\ \A i \in 1..Len(g[m]) : g[m][i].n = a + i BY <1>8 DEF Good
<1>10. DOMAIN g[m] = 1..Len(g[m]) BY <1>9
<1> QED BY <1>3, <1>9, <1>10

\* A queue without events is numbered from anywhere.
LEMMA NumberedNone ==
    ASSUME NEW q \in Seq(Frame), SeqsOf(q) = {}, NEW e \in Nat
    PROVE  Numbered(q, e, e)
<1> DEFINE m == Len(q)
<1>1. m \in Nat /\ DOMAIN q = 1..m OBVIOUS
<1>2. \A i \in 1..m : q[i].kind # "event"
  <2> SUFFICES ASSUME NEW i \in 1..m, q[i].kind = "event" PROVE FALSE OBVIOUS
  <2>1. q[i] \in Events(q) BY <1>1 DEF Events, Frames
  <2>2. q[i].n \in SeqsOf(q) BY <2>1 DEF SeqsOf
  <2> QED BY <2>2
<1> HIDE DEF m
<1> DEFINE c == [i \in 0..m |-> e]
<1>3. c \in [0..m -> Nat] /\ c[0] = e /\ c[m] = e BY <1>1
<1>4. \A i \in 1..m : c[i] = c[i - 1] BY <1>1
<1> HIDE DEF c
<1> QED BY <1>2, <1>3, <1>4 DEF Numbered, m

LEMMA KeptEmpty == \A frames : Kept(<<>>, frames) = <<>>
<1> SUFFICES ASSUME NEW frames PROVE Kept(<<>>, frames) = <<>> OBVIOUS
<1>1. Len(<<>>) = 0 /\ 0 \in 0..0 OBVIOUS
<1>2. PICK g : /\ Kept(<<>>, frames) = g[0]
               /\ g = [i \in 0..0 |-> KeptStep(<<>>, frames, g, i)]
  BY <1>1, KeptIs
<1> QED BY <1>1, <1>2 DEF KeptStep

\* The events alone, of a queue or of what is kept of it, are numbered as they were.
LEMMA NumberedEvents ==
    ASSUME NEW q \in Seq(Frame), NEW a, NEW b, Numbered(q, a, b)
    PROVE  Kept(q, Events(q)) \in Seq(Frame) /\ Numbered(Kept(q, Events(q)), a, b)
<1>1. a \in Nat /\ b \in Nat /\ a <= b BY NumberedType, NumberedRange
<1>2. \A f \in Events(q) : f.n > a
  <2> SUFFICES ASSUME NEW f \in Events(q) PROVE f.n > a OBVIOUS
  <2>1. f.n \in SeqsOf(q) BY DEF SeqsOf
  <2>2. f.n \in (a + 1)..b BY <2>1, NumberedRange
  <2> QED BY <1>1, <2>2
<1>3. /\ Kept(q, Events(q)) \in Seq(Frame)
      /\ Numbered(Kept(q, Events(q)), Above(a, a), Above(b, a))
  BY <1>1, <1>2, NumberedKept
<1>4. Above(a, a) = a /\ Above(b, a) = b BY <1>1 DEF Above
<1> QED BY <1>3, <1>4

\* The beginning of a queue ends no later than the queue.
LEMMA NumberedPrefixEnd ==
    ASSUME NEW q \in Seq(Frame), NEW a, NEW b, Numbered(q, a, b), NEW k \in 0..Len(q)
    PROVE  /\ SubSeq(q, 1, k) \in Seq(Frame)
           /\ \E e \in Nat : e <= b /\ Numbered(SubSeq(q, 1, k), a, e)
<1> DEFINE p == SubSeq(q, 1, k)
<1>1. a \in Nat /\ b \in Nat /\ a <= b /\ SeqsOf(q) = (a + 1)..b
  BY NumberedType, NumberedRange
<1>2. p \in Seq(Frame) /\ Len(p) = k /\ \A i \in 1..k : p[i] = q[i] OBVIOUS
<1>3. PICK e \in Nat : Numbered(p, a, e) BY NumberedPrefix
<1>4. SeqsOf(p) \subseteq SeqsOf(q)
  <2>1. DOMAIN p = 1..k /\ DOMAIN q = 1..Len(q) /\ 1..k \subseteq 1..Len(q) BY <1>2
  <2> HIDE DEF p
  <2> QED BY <1>2, <2>1 DEF SeqsOf, Events, Frames
<1> HIDE DEF p
<1>5. a <= e /\ SeqsOf(p) = (a + 1)..e BY <1>2, <1>3, NumberedRange
<1>6. e <= b
  <2>1. CASE e = a BY <1>1, <2>1
  <2>2. CASE e # a
    <3>1. e \in (a + 1)..e BY <1>1, <1>5, <2>2
    <3> QED BY <1>1, <1>4, <1>5, <3>1
  <2> QED BY <2>1, <2>2
<1> QED BY <1>2, <1>3, <1>6 DEF p

\* Transient frames may be exchanged for others.
LEMMA NumberedExchange ==
    ASSUME NEW q \in Seq(Frame), NEW a, NEW b, Numbered(q, a, b),
           NEW p \in Seq(Frame), Len(p) = Len(q),
           \A i \in 1..Len(q) : IF q[i].kind = "event" THEN p[i] = q[i]
                                ELSE p[i].kind # "event"
    PROVE  Numbered(p, a, b) /\ SeqsOf(p) = SeqsOf(q)
<1>1. Numbered(p, a, b) BY DEF Numbered
<1> QED BY <1>1, NumberedRange

-----------------------------------------------------------------------------
(* The invariant of the stream *)

ConnField == {"phase", "cause", "after", "pinned", "high", "read", "boot", "look", "out",
              "inFlight", "buffered", "accepted", "seen"}

Shape(c) ==
    /\ c = [f \in ConnField |-> c[f]]
    /\ c.phase \in {"replaying", "live", "closed"} /\ c.pinned \in BOOLEAN
    /\ c.after \in Nat /\ c.high \in Nat /\ c.read \in Nat /\ c.accepted \in Nat
    /\ c.seen \in SUBSET Nat
    /\ c.boot \in Seq(Frame) /\ c.look \in Seq(Frame) /\ c.out \in Seq(Frame)
    /\ c.inFlight \in Seq(Frame)

\* What has arrived during the replay: it ends with what was published last and begins
\* no later than the replay will end.
Meanwhile(c, p) ==
    /\ \E a \in Nat : a <= c.high /\ Numbered(c.boot, a, p)
    /\ c.pinned => \A s \in SeqsOf(c.boot) : s > c.high

Broken == {"sequence_error", "replay_error"}

\* As long as the window of numbers that are remembered is not full, what was accepted is
\* known, and so no connection is cut for a number that came twice.
Remembered(c, h) ==
    MaxSeq <= DedupWindow =>
        /\ h <= MaxSeq /\ c.cause \notin Broken
        /\ c.phase # "closed" =>
              \A s \in Nat : c.after < s /\ s <= c.accepted => s \in c.seen

\* A connection whose client has read, or will read on its wire, the events up to m, while
\* the publisher is at p and the log at h.
Core(c, m, p, h) ==
    /\ Shape(c)
    /\ c.phase = "closed" => c.out = <<>> /\ c.look = <<>>
    /\ c.phase # "closed" =>
          /\ c.after <= c.accepted /\ c.after <= c.high
          /\ c.accepted <= h /\ c.high <= h
          /\ \A s \in c.seen : s <= c.accepted
          /\ Numbered(c.out, m, c.accepted)
    /\ c.phase = "replaying" => Meanwhile(c, p)
    /\ c.phase = "live" => p <= c.accepted /\ c.boot = <<>> /\ c.look = <<>>
    /\ Remembered(c, h)

\* The last event that was read from the log waits in the look-ahead.
Lookahead(c) ==
    c.phase = "replaying" =>
        /\ c.after <= c.read /\ c.read <= c.high
        /\ IF c.look = <<>> THEN c.read = c.after /\ c.accepted = c.read
           ELSE c.look = <<Event(c.read)>> /\ c.accepted + 1 = c.read

Connection(c, m, p, h) == Core(c, m, p, h) /\ Lookahead(c)

SameBut(d, c, S) == \A f \in ConnField \ S : d[f] = c[f]

----------------------------------------------------------------------------
(* What the operations on a connection return                                *)

LEMMA ClosedConnection ==
    ASSUME NEW cause, NEW m, NEW p, NEW h,
           MaxSeq <= DedupWindow => h <= MaxSeq /\ cause \notin Broken
    PROVE  Connection(Closed(cause), m, p, h)
<1> DEFINE c == Closed(cause)
<1>1. <<>> \in Seq(Frame) OBVIOUS
<1>2. Shape(c) BY <1>1 DEF Shape, Closed, ConnField
<1>3. c.phase = "closed" /\ c.out = <<>> /\ c.look = <<>> BY DEF Closed
<1>4. c.cause = cause BY DEF Closed
<1> HIDE DEF c
<1>5. Core(c, m, p, h) /\ Lookahead(c) BY <1>2, <1>3, <1>4 DEF Core, Lookahead, Remembered
<1> QED BY <1>5 DEF Connection, c

LEMMA PutIs ==
    ASSUME NEW c, Shape(c), NEW q \in {"boot", "look", "out"}, NEW f \in Frame
    PROVE  /\ Shape(Put(c, q, f)) /\ Put(c, q, f)[q] = Append(c[q], f)
           /\ SameBut(Put(c, q, f), c, {q, "buffered"})
<1>1. c[q] \in Seq(Frame) BY DEF Shape
<1>2. Append(c[q], f) \in Seq(Frame) BY <1>1
<1> DEFINE x == Append(c[q], f)
           d == Put(c, q, f)
<1>3. d = [c EXCEPT ![q] = x, !.buffered = @ + 1] BY DEF Put
<1> HIDE DEF x
<1>4. d[q] = x /\ SameBut(d, c, {q, "buffered"}) /\ d = [g \in ConnField |-> d[g]]
  BY <1>3 DEF Shape, SameBut, ConnField
<1> HIDE DEF d
<1>5. Shape(d) BY <1>2, <1>4 DEF Shape, SameBut, ConnField, x
<1> QED BY <1>4, <1>5 DEF d, x

LEMMA RetainIs ==
    ASSUME NEW c, Shape(c), NEW q \in {"boot", "look", "out"}, NEW frames,
           Kept(c[q], frames) \in Seq(Frame)
    PROVE  /\ Shape(Retain(c, q, frames)) /\ Retain(c, q, frames)[q] = Kept(c[q], frames)
           /\ SameBut(Retain(c, q, frames), c, {q, "buffered"})
<1> DEFINE x == Kept(c[q], frames)
           d == Retain(c, q, frames)
           k == Cardinality({i \in DOMAIN c[q] : c[q][i] \notin frames})
<1>3. d = [c EXCEPT ![q] = x, !.buffered = @ - k] BY DEF Retain, Shape, ConnField
<1> HIDE DEF x, k
<1>4. d[q] = x /\ SameBut(d, c, {q, "buffered"}) /\ d = [g \in ConnField |-> d[g]]
  BY <1>3 DEF Shape, SameBut, ConnField
<1> HIDE DEF d
<1>5. Shape(d) BY <1>4 DEF Shape, SameBut, ConnField, x
<1> QED BY <1>4, <1>5 DEF d, x

\* What matters of a connection is its phase, its positions and the events in its buffers.
LEMMA SameCore ==
    ASSUME NEW c, NEW d, NEW m, NEW p, NEW h, Core(c, m, p, h), Shape(d),
           SameBut(d, c, {"boot", "out", "inFlight", "buffered"}),
           c.phase # "closed" => Numbered(d.out, m, c.accepted),
           c.phase = "closed" => d.out = <<>>,
           c.phase = "replaying" => Meanwhile(d, p),
           c.phase = "live" => d.boot = <<>>
    PROVE  /\ Core(d, m, p, h)
           /\ Lookahead(c) => Lookahead(d)
BY DEF Core, Lookahead, SameBut, ConnField, Remembered

\* The events of boot are those after its beginning.
LEMMA MeanwhileIs ==
    ASSUME NEW c, NEW p, Shape(c), Meanwhile(c, p)
    PROVE  \E a \in Nat : /\ a <= c.high /\ a <= p /\ p \in Nat /\ Numbered(c.boot, a, p)
                          /\ SeqsOf(c.boot) = (a + 1)..p
<1>1. PICK a \in Nat : a <= c.high /\ Numbered(c.boot, a, p) BY DEF Meanwhile
<1>2. c.boot \in Seq(Frame) BY DEF Shape
<1>3. a <= p /\ p \in Nat /\ SeqsOf(c.boot) = (a + 1)..p
  BY <1>1, <1>2, NumberedType, NumberedRange
<1> QED BY <1>1, <1>3

\* Buffers that are thinned out of their transient frames keep their events.
LEMMA DiscardIs ==
    ASSUME NEW c, NEW m, NEW p, NEW h, Core(c, m, p, h), c.phase # "closed"
    PROVE  LET d == DiscardQueuedTransient(c)
           IN  Core(d, m, p, h) /\ SameBut(d, c, {"boot", "out", "buffered"})
<1> DEFINE b == Kept(c.boot, Events(c.boot))
           o == Kept(c.out, Events(c.out))
           e == Retain(c, "boot", Events(c.boot))
           d == Retain(e, "out", Events(c.out))
<1>1. Shape(c) /\ c.boot \in Seq(Frame) /\ c.out \in Seq(Frame) BY DEF Core, Shape
<1>2. b \in Seq(Frame)
      /\ (c.phase = "replaying" => \E a \in Nat : a <= c.high /\ Numbered(b, a, p))
      /\ (c.phase = "live" => b = <<>>)
  <2>1. CASE c.phase = "replaying"
    <3>1. PICK a \in Nat : a <= c.high /\ Numbered(c.boot, a, p)
      BY <2>1 DEF Core, Meanwhile
    <3> QED BY <1>1, <2>1, <3>1, NumberedEvents
  <2>2. CASE c.phase = "live"
    <3>1. c.boot = <<>> BY <2>2 DEF Core
    <3>2. b = <<>> BY <3>1, KeptEmpty
    <3> QED BY <2>2, <3>2
  <2> QED BY <1>1, <2>1, <2>2 DEF Shape
<1>3. o \in Seq(Frame) /\ Numbered(o, m, c.accepted)
  BY <1>1, NumberedEvents DEF Core
<1>4. Shape(e) /\ e.boot = b /\ SameBut(e, c, {"boot", "buffered"})
  BY <1>1, <1>2, RetainIs
<1>5. e.out = c.out BY <1>4 DEF SameBut, ConnField
<1>6. Shape(d) /\ d.out = o /\ SameBut(d, e, {"out", "buffered"})
  BY <1>3, <1>4, <1>5, RetainIs
<1>7. SameBut(d, c, {"boot", "out", "buffered"}) /\ d.boot = b
  BY <1>4, <1>6 DEF SameBut, ConnField
<1>8. DiscardQueuedTransient(c) = d BY DEF DiscardQueuedTransient
<1> HIDE DEF b, o, e, d
<1>9. c.phase = "replaying" => Meanwhile(d, p)
  <2> SUFFICES ASSUME c.phase = "replaying" PROVE Meanwhile(d, p) OBVIOUS
  <2>1. PICK a \in Nat : a <= c.high /\ Numbered(b, a, p) BY <1>2
  <2>2. d.high = c.high /\ d.pinned = c.pinned BY <1>7 DEF SameBut, ConnField
  <2>3. \A s \in SeqsOf(b) : s \in SeqsOf(c.boot)
    <3>1. PICK x \in Nat : x <= c.high /\ Numbered(c.boot, x, p)
      BY DEF Core, Meanwhile
    <3>2. Numbered(b, x, p) BY <1>1, <3>1, NumberedEvents DEF b
    <3>3. SeqsOf(b) = (x + 1)..p /\ SeqsOf(c.boot) = (x + 1)..p
      BY <1>1, <1>2, <3>1, <3>2, NumberedRange
    <3> QED BY <3>3
  <2> QED BY <1>7, <2>1, <2>2, <2>3 DEF Core, Meanwhile
<1>10. SameBut(d, c, {"boot", "out", "inFlight", "buffered"}) BY <1>7 DEF SameBut
<1>11. Core(d, m, p, h)
  BY <1>2, <1>3, <1>6, <1>7, <1>9, <1>10, SameCore
<1> QED BY <1>7, <1>8, <1>11

\* A durable frame is put at the end of a buffer of this connection, perhaps thinned out,
\* or there is no room for it and the connection is closed.
LEMMA OfferDurableIs ==
    ASSUME NEW c, NEW m, NEW p, NEW h, Core(c, m, p, h), c.phase # "closed",
           NEW q \in {"boot", "look", "out"}, NEW s \in Nat
    PROVE  \/ OfferDurable(c, q, s) = Closed("durable_overflow")
           \/ \E d : /\ Core(d, m, p, h) /\ SameBut(d, c, {"boot", "out", "buffered"})
                     /\ OfferDurable(c, q, s) = Put(d, q, Event(s))
<1>1. SameBut(c, c, {"boot", "out", "buffered"}) BY DEF SameBut
<1> QED BY <1>1, DiscardIs DEF OfferDurable

LEMMA EventIsFrame == \A s \in Nat : Event(s) \in Frame /\ Event(s).kind = "event" /\ Event(s).n = s
BY DEF Event, Frame

\* Events that are remembered raise what is accepted to the last of them.
LEMMA RememberIs ==
    ASSUME NEW c, Shape(c), NEW S \in SUBSET Nat, NEW e \in Nat,
           e = IF S = {} THEN c.accepted ELSE Largest(S)
    PROVE  LET r == RememberDurable(c, S)
           IN  /\ Shape(r) /\ r.accepted = e /\ r.seen \subseteq c.seen \cup S
               /\ SameBut(r, c, {"accepted", "seen"})
<1> DEFINE seen == {x \in c.seen \cup S :
                      Cardinality({y \in c.seen \cup S : y > x}) < DedupWindow}
           r == RememberDurable(c, S)
<1>1. r = [c EXCEPT !.accepted = e, !.seen = seen] BY DEF RememberDurable
<1>2. seen \subseteq c.seen \cup S OBVIOUS
<1> HIDE DEF seen, r
<1>3. /\ r.accepted = e /\ r.seen = seen /\ SameBut(r, c, {"accepted", "seen"})
      /\ r = [f \in ConnField |-> r[f]]
  BY <1>1 DEF Shape, SameBut, ConnField
<1>4. Shape(r) BY <1>2, <1>3 DEF Shape, SameBut, ConnField
<1> QED BY <1>2, <1>3, <1>4 DEF r

\* A number that is remembered is not forgotten while the window has room for all.
LEMMA NothingIsForgotten ==
    ASSUME NEW c, NEW S, MaxSeq <= DedupWindow, c.seen \cup S \subseteq 0..MaxSeq,
           NEW s \in c.seen \cup S, s # 0
    PROVE  s \in RememberDurable(c, S).seen
<1> DEFINE all == c.seen \cup S
           later == {r \in all : r > s}
<1>1. MaxSeq \in Nat /\ DedupWindow \in Nat BY StreamAssumption
<1>2. s \in 1..MaxSeq /\ later \subseteq (s + 1)..MaxSeq BY <1>1
<1> HIDE DEF later
<1>3. IsFiniteSet((s + 1)..MaxSeq) /\ Cardinality((s + 1)..MaxSeq) <= MaxSeq - s
  <2>1. s + 1 \in Int /\ MaxSeq \in Int /\ s <= MaxSeq BY <1>1, <1>2
  <2>2. /\ Cardinality((s + 1)..MaxSeq) = IF s + 1 > MaxSeq THEN 0 ELSE MaxSeq - (s + 1) + 1
        /\ IsFiniteSet((s + 1)..MaxSeq)
    BY <2>1, FS_Interval
  <2> QED BY <1>1, <1>2, <2>2
<1>4. Cardinality(later) <= Cardinality((s + 1)..MaxSeq) /\ Cardinality(later) \in Nat
      /\ Cardinality((s + 1)..MaxSeq) \in Nat
  BY <1>2, <1>3, FS_Subset, FS_CardinalityType
<1>5. Cardinality(later) < DedupWindow BY <1>1, <1>2, <1>3, <1>4
<1>6. RememberDurable(c, S).seen = {x \in all : Cardinality({r \in all : r > x}) < DedupWindow}
  BY DEF RememberDurable
<1> QED BY <1>5, <1>6 DEF later

LEMMA LargestIs == \A a, e \in Nat : a < e => Largest((a + 1)..e) = e
<1> SUFFICES ASSUME NEW a \in Nat, NEW e \in Nat, a < e PROVE Largest((a + 1)..e) = e
  OBVIOUS
<1>1. e \in (a + 1)..e /\ \A x \in (a + 1)..e : x <= e OBVIOUS
<1>2. \A x \in (a + 1)..e : (\A y \in (a + 1)..e : y <= x) => x = e BY <1>1
<1> QED BY <1>1, <1>2 DEF Largest

\* What follows what was accepted is remembered with it.
LEMMA RememberedIs ==
    ASSUME NEW c, Shape(c), NEW h \in Nat, Remembered(c, h), c.phase # "closed",
           \A y \in c.seen : y <= c.accepted, NEW e \in Nat, c.accepted <= e, e <= h,
           NEW S, S = (c.accepted + 1)..e, e = IF S = {} THEN c.accepted ELSE Largest(S)
    PROVE  Remembered(RememberDurable(c, S), h)
<1> DEFINE r == RememberDurable(c, S)
<1>1. /\ c.accepted \in Nat /\ c.after \in Nat /\ c.seen \subseteq Nat /\ S \in SUBSET Nat
      /\ MaxSeq \in Nat
  <2>1. c.accepted \in Nat /\ c.after \in Nat /\ c.seen \subseteq Nat BY DEF Shape
  <2>2. S \in SUBSET Nat BY <2>1
  <2> QED BY <2>1, <2>2, StreamAssumption
<1>2. r.accepted = e /\ SameBut(r, c, {"accepted", "seen"})
  <2>1. ASSUME NEW T \in SUBSET Nat, e = IF T = {} THEN c.accepted ELSE Largest(T)
        PROVE  /\ RememberDurable(c, T).accepted = e
               /\ SameBut(RememberDurable(c, T), c, {"accepted", "seen"})
    BY <2>1, RememberIs
  <2> QED BY <1>1, <2>1
<1>3. r.after = c.after /\ r.cause = c.cause BY <1>2 DEF SameBut, ConnField
<1> SUFFICES ASSUME MaxSeq <= DedupWindow, NEW x \in Nat, c.after < x, x <= e
             PROVE  x \in r.seen
  BY <1>2, <1>3 DEF Remembered
<1>4. h <= MaxSeq BY DEF Remembered
<1>5. c.seen \cup S \subseteq 0..MaxSeq
  <2>1. \A y \in c.seen : y \in Nat /\ y <= MaxSeq BY <1>1, <1>4
  <2>2. \A y \in S : y \in Nat /\ y <= MaxSeq BY <1>1, <1>4
  <2> QED BY <1>1, <2>1, <2>2
<1>6. x \in c.seen \cup S
  <2>1. CASE x <= c.accepted BY <2>1 DEF Remembered
  <2>2. CASE ~(x <= c.accepted) BY <1>1, <2>2
  <2> QED BY <2>1, <2>2
<1>7. x # 0 BY <1>1
<1> QED BY <1>5, <1>6, <1>7, NothingIsForgotten

LEMMA OverflowCloses ==
    ASSUME NEW c, NEW m, NEW p, NEW h, Core(c, m, p, h), NEW q
    PROVE  Connection(Closed("durable_overflow"), m, q, h)
<1>1. "durable_overflow" \notin Broken BY DEF Broken
<1> QED BY <1>1, ClosedConnection DEF Core, Remembered

\* The event that waits in the look-ahead is the next one: it is sent.
LEMMA FlushReplayLookaheadIs ==
    ASSUME NEW c, NEW m \in Nat, NEW p \in Nat, NEW h \in Nat, Connection(c, m, p, h),
           c.phase = "replaying"
    PROVE  LET r == FlushReplayLookahead(c)
           IN  /\ Core(r, m, p, h) /\ r.phase = "replaying" /\ r.look = <<>>
               /\ r.accepted = c.read
               /\ SameBut(r, c, {"look", "out", "accepted", "seen"})
<1> DEFINE r == FlushReplayLookahead(c)
<1>1. Core(c, m, p, h) /\ Lookahead(c) /\ Shape(c) BY DEF Connection, Core
<1>2. CASE c.look = <<>>
  <2>1. r = c BY <1>2 DEF FlushReplayLookahead
  <2>2. c.accepted = c.read BY <1>1, <1>2 DEF Lookahead
  <2> HIDE DEF r
  <2>3. SameBut(r, c, {"look", "out", "accepted", "seen"}) BY <2>1 DEF SameBut
  <2> QED BY <1>1, <1>2, <2>1, <2>2, <2>3 DEF r
<1>3. CASE c.look # <<>>
  <2> DEFINE s == c.read
             rest == [c EXCEPT !.look = <<>>]
             o == [rest EXCEPT !.out = Append(@, Event(s))]
             x == Append(c.out, Event(s))
  <2>1. /\ s \in Nat /\ c.look = <<Event(s)>> /\ c.accepted + 1 = s /\ s <= c.high
        /\ c.accepted \in Nat /\ c.after \in Nat /\ c.high \in Nat /\ c.after <= c.accepted
        /\ c.high <= h /\ (\A y \in c.seen : y <= c.accepted) /\ c.seen \subseteq Nat
        /\ c.out \in Seq(Frame) /\ Numbered(c.out, m, c.accepted)
    BY <1>1, <1>3 DEF Core, Shape, Lookahead
  <2>2. Event(s) \in Frame /\ Event(s).kind = "event" /\ Event(s).n = s BY <2>1, EventIsFrame
  <2>3. Head(c.look).n = s BY <2>1, <2>2
  <2>4. ClassifyDurable(c, s) = "accept"
    <3>1. ~(s <= c.after) /\ s \notin c.seen /\ s > c.accepted BY <2>1
    <3> QED BY <3>1 DEF ClassifyDurable
  <2>5. r = RememberDurable(o, {s})
    BY <1>3, <2>3, <2>4 DEF FlushReplayLookahead
  <2>6. o = [c EXCEPT !.look = <<>>, !.out = x] BY <1>1 DEF Shape, ConnField
  <2>7. x \in Seq(Frame) /\ Numbered(x, m, s) BY <2>1, <2>2, NumberedAppend
  <2> HIDE DEF x, o, r
  <2>8. /\ o.look = <<>> /\ o.out = x /\ SameBut(o, c, {"look", "out"})
        /\ o = [f \in ConnField |-> o[f]]
    BY <1>1, <2>6 DEF Shape, SameBut, ConnField
  <2>9. <<>> \in Seq(Frame) OBVIOUS
  <2>10. Shape(o) BY <1>1, <2>7, <2>8, <2>9 DEF Shape, SameBut, ConnField
  <2>11. Largest({s}) = s BY <2>1 DEF Largest
  <2>12. /\ Shape(r) /\ r.accepted = s /\ r.seen \subseteq o.seen \cup {s}
         /\ SameBut(r, o, {"accepted", "seen"})
    <3>1. {s} \in SUBSET Nat /\ {s} # {} /\ s \in Nat BY <2>1
    <3> HIDE DEF s
    <3> QED BY <2>5, <2>10, <2>11, <3>1, RememberIs
  <2>13. /\ r.look = <<>> /\ r.out = x /\ r.phase = "replaying" /\ r.after = c.after
         /\ r.high = c.high /\ r.pinned = c.pinned /\ r.boot = c.boot /\ o.seen = c.seen
    BY <2>8, <2>12 DEF SameBut, ConnField
  <2>14. \A y \in r.seen : y <= s
    <3>1. \A y \in r.seen : y \in c.seen \/ y = s BY <2>12, <2>13
    <3> QED BY <2>1, <3>1
  <2>15. Meanwhile(r, p) BY <1>1, <2>13 DEF Core, Meanwhile
  <2>16. c.after <= s /\ c.after <= c.high /\ s <= h BY <1>1, <2>1
  <2>r. Remembered(r, h)
    <3>1. /\ o.accepted = c.accepted /\ o.seen = c.seen /\ o.after = c.after
          /\ o.cause = c.cause /\ o.phase = "replaying"
      BY <2>8 DEF SameBut, ConnField
    <3>2. Remembered(o, h) /\ \A y \in o.seen : y <= o.accepted
      BY <1>1, <2>1, <3>1 DEF Core, Remembered
    <3>3. {s} = (o.accepted + 1)..s /\ {s} # {} /\ o.accepted <= s BY <2>1, <3>1
    <3>4. s \in Nat BY <2>1
    <3> HIDE DEF s
    <3> QED BY <2>5, <2>10, <2>11, <2>16, <3>1, <3>2, <3>3, <3>4, RememberedIs
  <2>17. Core(r, m, p, h)
    BY <1>1, <2>1, <2>7, <2>12, <2>13, <2>14, <2>15, <2>16, <2>r DEF Core
  <2>18. SameBut(r, c, {"look", "out", "accepted", "seen"})
    BY <2>8, <2>12 DEF SameBut
  <2> QED BY <2>12, <2>13, <2>17, <2>18 DEF r
<1> QED BY <1>2, <1>3

----------------------------------------------------------------------------
(* The handlers of a connection                                              *)

\* Mutual position of the publisher and the connection after the next event.
LEMMA ReceiveLiveIs ==
    ASSUME NEW c, NEW m \in Nat, NEW p \in Nat, NEW h \in Nat, p + 1 <= h, Connection(c, m, p, h)
    PROVE  Connection(ReceiveLive(c, p + 1), m, p + 1, h)
<1> DEFINE s == p + 1
           r == ReceiveLive(c, s)
<1> USE DEF Connection
<1>s. s \in Nat /\ Event(s) \in Frame /\ Event(s).kind = "event" /\ Event(s).n = s
  BY EventIsFrame
<1>c. Shape(c) BY DEF Core
<1>1. CASE c.phase = "closed"
  <2>1. r = c BY <1>1 DEF ReceiveLive
  <2> QED BY <1>1, <2>1 DEF Core, Lookahead
<1>2. CASE c.phase = "replaying"
  <2>1. PICK a \in Nat : /\ a <= c.high /\ a <= p /\ Numbered(c.boot, a, p)
                         /\ SeqsOf(c.boot) = (a + 1)..p
    BY <1>2, <1>c, MeanwhileIs DEF Core
  <2>2. s \notin SeqsOf(c.boot) BY <2>1
  <2>3. CASE c.pinned /\ s <= c.high
    <3>1. r = c BY <1>2, <2>3 DEF ReceiveLive
    <3>2. \A x \in (a + 1)..p : x > c.high BY <1>2, <2>1, <2>3 DEF Core, Meanwhile
    <3>3. c.high \in Nat /\ c.boot \in Seq(Frame) BY <1>c DEF Shape
    <3>4. SeqsOf(c.boot) = {}
      <4>1. \A x \in (a + 1)..p : FALSE BY <2>3, <3>2, <3>3
      <4> QED BY <2>1, <4>1
    <3>5. Numbered(c.boot, s, s) BY <1>s, <3>3, <3>4, NumberedNone
    <3>6. Meanwhile(c, s) BY <1>s, <2>3, <3>4, <3>5 DEF Meanwhile
    <3>7. Core(c, m, s, h) BY <1>2, <3>6 DEF Core
    <3> QED BY <3>1, <3>7
  <2>4. CASE ~(c.pinned /\ s <= c.high)
    <3>1. r = OfferDurable(c, "boot", s) BY <1>2, <2>2, <2>4 DEF ReceiveLive
    <3>2. CASE r = Closed("durable_overflow") BY <3>2, OverflowCloses
    <3>3. CASE r # Closed("durable_overflow")
      <4>1. PICK d : /\ Core(d, m, p, h) /\ SameBut(d, c, {"boot", "out", "buffered"})
                     /\ r = Put(d, "boot", Event(s))
        BY <1>2, <1>s, <3>1, <3>3, OfferDurableIs
      <4>2. Shape(d) /\ d.boot \in Seq(Frame) /\ d.phase = "replaying"
            /\ d.high = c.high /\ d.pinned = c.pinned
        BY <1>2, <4>1 DEF Core, Shape, SameBut, ConnField
      <4>3. Shape(r) /\ r.boot = Append(d.boot, Event(s)) /\ SameBut(r, d, {"boot", "buffered"})
        BY <1>s, <4>1, <4>2, PutIs
      <4>4. PICK x \in Nat : x <= d.high /\ Numbered(d.boot, x, p)
        BY <4>1, <4>2 DEF Core, Meanwhile
      <4>5. Numbered(r.boot, x, s) /\ r.boot \in Seq(Frame)
        BY <1>s, <4>2, <4>3, <4>4, NumberedAppend
      <4>6. SeqsOf(r.boot) = (x + 1)..s /\ SeqsOf(d.boot) = (x + 1)..p
        BY <4>2, <4>4, <4>5, NumberedRange
      <4>7. r.high = d.high /\ r.pinned = d.pinned /\ r.out = d.out
        BY <4>3 DEF SameBut, ConnField
      <4>8. d.pinned => \A y \in SeqsOf(r.boot) : y > d.high
        <5>1. d.pinned => s > d.high BY <2>4, <4>2, <1>c DEF Shape
        <5>2. \A y \in (x + 1)..s : y = s \/ y \in (x + 1)..p OBVIOUS
        <5> QED BY <4>1, <4>2, <4>6, <5>1, <5>2 DEF Core, Meanwhile
      <4>9. Meanwhile(r, s) BY <4>4, <4>5, <4>7, <4>8 DEF Meanwhile
      <4>10. Core(r, m, s, h)
        BY <4>1, <4>2, <4>3, <4>9 DEF Core, SameBut, ConnField, Remembered
      <4>11. Lookahead(r) BY <4>1, <4>3 DEF Lookahead, SameBut, ConnField
      <4> QED BY <4>10, <4>11
    <3> QED BY <3>2, <3>3
  <2> QED BY <2>3, <2>4
<1>3. CASE c.phase = "live"
  <2>1. /\ p <= c.accepted /\ c.after <= c.accepted /\ c.accepted \in Nat /\ c.after \in Nat
        /\ \A x \in c.seen : x <= c.accepted
    BY <1>3 DEF Core, Shape
  <2>2. CASE ClassifyDurable(c, s) = "duplicate"
    <3>1. r = c BY <1>3, <2>2 DEF ReceiveLive
    <3>2. s <= c.accepted
      <4>1. s <= c.after \/ s \in c.seen BY <2>2 DEF ClassifyDurable
      <4> QED BY <2>1, <4>1
    <3>3. Core(c, m, s, h) BY <1>3, <3>2 DEF Core
    <3> QED BY <3>1, <3>3
  <2>3. CASE ClassifyDurable(c, s) = "violation"
    <3>1. r = Closed("sequence_error") BY <1>3, <2>3 DEF ReceiveLive
    <3>2. ~(s <= c.after) /\ s \notin c.seen /\ ~(s > c.accepted)
      BY <2>3 DEF ClassifyDurable
    <3>3. c.after < s /\ s <= c.accepted BY <1>s, <2>1, <3>2
    <3>4. ~(MaxSeq <= DedupWindow) BY <1>s, <1>3, <3>2, <3>3 DEF Core, Remembered
    <3> QED BY <3>1, <3>4, ClosedConnection
  <2>4. CASE ClassifyDurable(c, s) = "accept"
    <3>1. s > c.accepted BY <2>4 DEF ClassifyDurable
    <3>2. s = c.accepted + 1 BY <2>1, <3>1
    <3> DEFINE o == OfferDurable(c, "out", s)
    <3>3. r = IF o.phase = "closed" THEN o ELSE RememberDurable(o, {s})
      BY <1>3, <2>4 DEF ReceiveLive
    <3>4. CASE o = Closed("durable_overflow")
      <4>1. o.phase = "closed" BY <3>4 DEF Closed
      <4> QED BY <3>3, <3>4, <4>1, OverflowCloses
    <3>5. CASE o # Closed("durable_overflow")
      <4>1. PICK d : /\ Core(d, m, p, h) /\ SameBut(d, c, {"boot", "out", "buffered"})
                     /\ o = Put(d, "out", Event(s))
        BY <1>3, <1>s, <3>5, OfferDurableIs
      <4> HIDE DEF o
      <4>2. Shape(d) /\ d.out \in Seq(Frame) /\ d.phase = "live" /\ d.accepted = c.accepted
            /\ Numbered(d.out, m, d.accepted) /\ d.boot = <<>> /\ d.look = <<>>
        BY <1>3, <4>1 DEF Core, Shape, SameBut, ConnField
      <4>3. Shape(o) /\ o.out = Append(d.out, Event(s)) /\ SameBut(o, d, {"out", "buffered"})
        BY <1>s, <4>1, <4>2, PutIs
      <4>4. Numbered(o.out, m, s)
        BY <1>s, <3>2, <4>2, <4>3, NumberedAppend
      <4>5. o.phase = "live" /\ o.accepted = c.accepted /\ o.boot = <<>> /\ o.look = <<>>
            /\ o.seen = d.seen /\ o.after = d.after /\ o.high = d.high
        BY <4>2, <4>3 DEF SameBut, ConnField
      <4>6. r = RememberDurable(o, {s}) BY <3>3, <4>5
      <4>7. Largest({s}) = s BY <1>s DEF Largest
      <4> HIDE DEF r
      <4>8. /\ Shape(r) /\ r.accepted = s /\ r.seen \subseteq o.seen \cup {s}
            /\ SameBut(r, o, {"accepted", "seen"})
        <5>1. {s} \in SUBSET Nat /\ {s} # {} BY <1>s
        <5> HIDE DEF s
        <5> QED BY <1>s, <4>3, <4>6, <4>7, <5>1, RememberIs
      <4>12. \A x \in r.seen : x <= r.accepted
        <5>1. d.seen = c.seen /\ c.seen \subseteq Nat
          BY <1>c, <4>1 DEF SameBut, ConnField, Shape
        <5>2. \A x \in r.seen : x \in c.seen \/ x = s BY <4>5, <4>8, <5>1
        <5> QED BY <1>s, <2>1, <3>2, <4>8, <5>1, <5>2
      <4>13. /\ r.phase = "live" /\ r.out = o.out /\ r.boot = <<>> /\ r.look = <<>>
             /\ r.after = d.after /\ r.high = d.high
        BY <4>5, <4>8 DEF SameBut, ConnField
      <4>14. d.after <= d.accepted /\ d.after <= d.high /\ d.high <= h /\ d.after \in Nat
        BY <4>1, <4>2 DEF Core, Shape
      <4>r. Remembered(r, h)
        <5>1. o.cause = d.cause /\ d.seen = c.seen /\ s <= h BY <4>1, <4>3 DEF SameBut, ConnField
        <5>2. Remembered(o, h) /\ \A y \in o.seen : y <= o.accepted
          BY <2>1, <4>1, <4>2, <4>5, <5>1 DEF Core, Remembered
        <5>3. {s} = (o.accepted + 1)..s /\ {s} # {} /\ o.accepted <= s
          BY <1>s, <2>1, <3>2, <4>5
        <5>4. s \in Nat /\ o.phase # "closed" BY <1>s, <4>5
        <5> HIDE DEF s
        <5> QED BY <4>3, <4>6, <4>7, <5>1, <5>2, <5>3, <5>4, RememberedIs
      <4>15. Core(r, m, s, h)
        BY <4>r, <1>s, <2>1, <3>2, <4>2, <4>4, <4>8, <4>12, <4>13, <4>14 DEF Core
      <4>16. Lookahead(r) BY <4>13 DEF Lookahead
      <4> QED BY <4>15, <4>16 DEF r
    <3> QED BY <3>4, <3>5
  <2> QED BY <2>2, <2>3, <2>4 DEF ClassifyDurable
<1> QED BY <1>1, <1>2, <1>3, <1>c DEF Shape

\* The next event of the replay follows the one before it into the look-ahead.
LEMMA ReplayNextIs ==
    ASSUME NEW c, NEW m \in Nat, NEW p \in Nat, NEW h \in Nat, Connection(c, m, p, h),
           c.phase = "replaying", c.read < c.high
    PROVE  LET r == FlushReplayLookahead(c)
               staged == OfferDurable(r, "look", r.read + 1)
           IN  /\ r.phase # "closed"
               /\ Connection(IF staged.phase = "closed" THEN staged
                             ELSE [staged EXCEPT !.read = @ + 1], m, p, h)
<1> DEFINE r == FlushReplayLookahead(c)
           s == r.read + 1
           staged == OfferDurable(r, "look", s)
           d == [staged EXCEPT !.read = @ + 1]
<1>1. /\ Core(r, m, p, h) /\ r.phase = "replaying" /\ r.look = <<>> /\ r.accepted = c.read
      /\ SameBut(r, c, {"look", "out", "accepted", "seen"})
  BY FlushReplayLookaheadIs
<1>2. /\ c.read \in Nat /\ c.high \in Nat /\ c.after \in Nat /\ c.after <= c.read
  BY DEF Connection, Core, Shape, Lookahead
<1> HIDE DEF r
<1>3. r.read = c.read /\ r.high = c.high /\ r.after = c.after
  BY <1>1 DEF SameBut, ConnField
<1>4. s \in Nat /\ s = c.read + 1 /\ Event(s) \in Frame BY <1>2, <1>3, EventIsFrame
<1> HIDE DEF s
<1>5. CASE staged = Closed("durable_overflow")
  <2>1. staged.phase = "closed" BY <1>5 DEF Closed
  <2> HIDE DEF staged
  <2> QED BY <1>1, <1>5, <2>1, OverflowCloses DEF r, staged, s
<1>6. CASE staged # Closed("durable_overflow")
  <2>1. PICK e : /\ Core(e, m, p, h) /\ SameBut(e, r, {"boot", "out", "buffered"})
                 /\ staged = Put(e, "look", Event(s))
    BY <1>1, <1>4, <1>6, OfferDurableIs
  <2>2. Shape(e) BY <2>1 DEF Core
  <2>3. /\ e.phase = "replaying" /\ e.look = <<>> /\ e.read = c.read /\ e.high = c.high
        /\ e.after = c.after /\ e.accepted = c.read
    BY <1>1, <1>3, <2>1 DEF SameBut, ConnField
  <2> HIDE DEF staged
  <2>4. /\ Shape(staged) /\ staged.look = Append(<<>>, Event(s))
        /\ SameBut(staged, e, {"look", "buffered"})
    BY <1>4, <2>1, <2>2, <2>3, PutIs
  <2>5. Append(<<>>, Event(s)) = <<Event(s)>> OBVIOUS
  <2>6. staged.phase = "replaying" /\ staged.read = c.read
    BY <2>3, <2>4 DEF SameBut, ConnField
  <2>7. d = [staged EXCEPT !.read = s] BY <1>4, <2>6
  <2> HIDE DEF d
  <2>8. d.read = s /\ SameBut(d, staged, {"read"}) /\ d = [f \in ConnField |-> d[f]]
    BY <2>4, <2>7 DEF Shape, SameBut, ConnField
  <2>9. Shape(d) BY <1>4, <2>4, <2>8 DEF Shape, SameBut, ConnField
  <2>10. /\ d.look = <<Event(s)>> /\ d.phase = "replaying" /\ d.high = e.high
         /\ d.after = e.after /\ d.accepted = e.accepted /\ d.seen = e.seen
         /\ d.out = e.out /\ d.boot = e.boot /\ d.pinned = e.pinned /\ d.cause = e.cause
    BY <2>4, <2>5, <2>6, <2>8 DEF SameBut, ConnField
  <2>11. Core(d, m, p, h) BY <2>1, <2>3, <2>9, <2>10 DEF Core, Meanwhile, Remembered
  <2>12. d.look # <<>> BY <2>10
  <2>13. d.accepted + 1 = s /\ d.after <= s /\ s <= d.high BY <1>2, <1>4, <2>3, <2>10
  <2>14. Lookahead(d) BY <2>8, <2>10, <2>12, <2>13 DEF Lookahead
  <2> QED BY <1>1, <2>6, <2>11, <2>14 DEF Connection, d, staged, r, s
<1> QED BY <1>5, <1>6

\* What arrived meanwhile follows the replay without a gap: the connection goes live.
LEMMA HandOverIs ==
    ASSUME NEW c, NEW m \in Nat, NEW p \in Nat, NEW h \in Nat, p <= h, Core(c, m, p, h),
           c.phase = "replaying", c.look = <<>>, c.accepted = c.high
    PROVE  Connection(HandOver(c), m, p, h)
<1> DEFINE fresh == {f \in Frames(c.boot) :
                       f.kind = "delta" \/ (f.n > c.high /\ ClassifyDurable(c, f.n) # "duplicate")}
           d == Retain(c, "boot", fresh)
           durable == Kept(d.boot, Events(d.boot))
           x == RememberDurable(d, SeqsOf(durable))
           r == [x EXCEPT !.out = @ \o d.boot, !.boot = <<>>, !.phase = "live"]
           e == Above(p, c.high)
<1>2. /\ Shape(c) /\ c.boot \in Seq(Frame) /\ c.high \in Nat /\ c.after \in Nat
      /\ c.after <= c.high /\ c.high <= h /\ c.seen \subseteq Nat
      /\ (\A y \in c.seen : y <= c.high) /\ Numbered(c.out, m, c.high)
      /\ c.out \in Seq(Frame)
  BY DEF Core, Shape
<1>3. PICK a \in Nat : /\ a <= c.high /\ Numbered(c.boot, a, p)
                       /\ SeqsOf(c.boot) = (a + 1)..p
  BY <1>2, MeanwhileIs DEF Core
<1>4. \A f \in Events(c.boot) : f \in fresh <=> f.n > c.high
  <2> SUFFICES ASSUME NEW f \in Events(c.boot) PROVE f \in fresh <=> f.n > c.high OBVIOUS
  <2>1. f \in Frames(c.boot) /\ f.kind = "event" BY DEF Events
  <2>2. f.n \in Nat
    <3>1. f.n \in SeqsOf(c.boot) BY DEF SeqsOf
    <3> QED BY <1>3, <3>1
  <2>3. ASSUME f.n > c.high PROVE ClassifyDurable(c, f.n) # "duplicate"
    <3>1. ~(f.n <= c.after) /\ f.n \notin c.seen BY <1>2, <2>2, <2>3
    <3> QED BY <3>1 DEF ClassifyDurable
  <2>4. "event" # "delta" OBVIOUS
  <2> QED BY <2>1, <2>3, <2>4
<1> HIDE DEF fresh
<1>5. e \in Nat /\ Above(a, c.high) = c.high /\ p <= e /\ c.high <= e /\ e <= h
  BY <1>2, <1>3 DEF Above
<1>6. Kept(c.boot, fresh) \in Seq(Frame) /\ Numbered(Kept(c.boot, fresh), c.high, e)
  BY <1>2, <1>3, <1>4, <1>5, NumberedKept
<1> HIDE DEF e
<1>7. /\ Shape(d) /\ d.boot = Kept(c.boot, fresh) /\ SameBut(d, c, {"boot", "buffered"})
  BY <1>2, <1>6, RetainIs
<1> HIDE DEF d
<1>8. durable \in Seq(Frame) /\ Numbered(durable, c.high, e)
  BY <1>6, <1>7, NumberedEvents
<1>1. HandOver(c) = r
  <2>1. \A i \in DOMAIN durable : durable[i].n = c.high + i
    BY <1>6, <1>7, NumberedOneByOne
  <2>2. d.accepted = c.high BY <1>7 DEF SameBut, ConnField
  <2>3. DOMAIN durable = 1..Len(durable) /\ Len(durable) \in Nat BY <1>8
  <2>4. /\ \A i \in DOMAIN durable : durable[i].n > d.accepted
        /\ \A i, j \in DOMAIN durable : i < j => durable[i].n < durable[j].n
    <3> HIDE DEF durable
    <3> QED BY <1>2, <2>1, <2>2, <2>3
  <2> QED BY <2>4 DEF HandOver, d, fresh
<1> HIDE DEF durable
<1>9. SeqsOf(durable) = (c.high + 1)..e BY <1>8, NumberedRange
<1>10. d.accepted = c.high BY <1>7 DEF SameBut, ConnField
<1>11. e = IF SeqsOf(durable) = {} THEN d.accepted ELSE Largest(SeqsOf(durable))
  <2>1. CASE e = c.high
    <3>1. SeqsOf(durable) = {} BY <1>2, <1>9, <2>1
    <3> QED BY <1>10, <2>1, <3>1
  <2>2. CASE e # c.high
    <3>1. c.high < e BY <1>2, <1>5, <2>2
    <3>2. e \in SeqsOf(durable) BY <1>2, <1>5, <1>9, <3>1
    <3>3. SeqsOf(durable) # {} BY <3>2
    <3>4. Largest(SeqsOf(durable)) = e BY <1>2, <1>5, <1>9, <3>1, LargestIs
    <3> QED BY <3>3, <3>4
  <2> QED BY <2>1, <2>2
<1>12. SeqsOf(durable) \in SUBSET Nat BY <1>2, <1>5, <1>9
<1>13. /\ Shape(x) /\ x.accepted = e /\ x.seen \subseteq d.seen \cup SeqsOf(durable)
       /\ SameBut(x, d, {"accepted", "seen"})
  <2> DEFINE S == SeqsOf(durable)
  <2>1. S \in SUBSET Nat /\ e = IF S = {} THEN d.accepted ELSE Largest(S) BY <1>11, <1>12
  <2>2. x = RememberDurable(d, S) OBVIOUS
  <2> HIDE DEF S, x
  <2>3. /\ Shape(x) /\ x.accepted = e /\ x.seen \subseteq d.seen \cup S
        /\ SameBut(x, d, {"accepted", "seen"})
    BY <1>5, <1>7, <2>1, <2>2, RememberIs
  <2> QED BY <2>3 DEF S
<1> HIDE DEF x
<1>14. x.out = c.out /\ x.look = <<>> /\ x.after = c.after /\ x.high = c.high /\ d.seen = c.seen
  BY <1>7, <1>13 DEF SameBut, ConnField
<1> DEFINE y == c.out \o d.boot
<1>15. y \in Seq(Frame) /\ Numbered(y, m, e)
  BY <1>2, <1>6, <1>7, NumberedConcat
<1>16. r = [x EXCEPT !.out = y, !.boot = <<>>, !.phase = "live"]
  BY <1>13, <1>14 DEF Shape, ConnField
<1> HIDE DEF y, r
<1>17. /\ r.out = y /\ r.boot = <<>> /\ r.phase = "live" /\ SameBut(r, x, {"out", "boot", "phase"})
       /\ r = [f \in ConnField |-> r[f]]
  BY <1>13, <1>16 DEF Shape, SameBut, ConnField
<1>18. <<>> \in Seq(Frame) OBVIOUS
<1>19. Shape(r) BY <1>13, <1>15, <1>17, <1>18 DEF Shape, SameBut, ConnField
<1>20. /\ r.accepted = e /\ r.seen = x.seen /\ r.look = <<>> /\ r.after = c.after
       /\ r.high = c.high
  BY <1>13, <1>14, <1>17 DEF SameBut, ConnField
<1>21. \A z \in r.seen : z <= e
  <2>1. \A z \in r.seen : z \in c.seen \/ z \in (c.high + 1)..e BY <1>9, <1>13, <1>14, <1>20
  <2> QED BY <1>2, <1>5, <2>1
<1>22. c.after <= e BY <1>2, <1>5
<1>r. Remembered(r, h)
  <2>1. /\ d.seen = c.seen /\ d.after = c.after /\ d.cause = c.cause /\ d.phase = "replaying"
        /\ r.cause = x.cause /\ r.accepted = x.accepted /\ r.seen = x.seen /\ r.after = x.after
        /\ x.phase = "replaying"
    BY <1>7, <1>13, <1>17 DEF SameBut, ConnField
  <2>2. Remembered(d, h) /\ \A y2 \in d.seen : y2 <= d.accepted
    BY <1>2, <1>10, <2>1 DEF Core, Remembered
  <2> DEFINE S == SeqsOf(durable)
  <2>3. /\ x = RememberDurable(d, S) /\ S = (d.accepted + 1)..e /\ d.accepted <= e
        /\ e = IF S = {} THEN d.accepted ELSE Largest(S)
    BY <1>5, <1>9, <1>10, <1>11 DEF x
  <2> HIDE DEF S
  <2>4. Remembered(x, h)
    BY <1>5, <1>7, <2>1, <2>2, <2>3, RememberedIs
  <2> QED BY <1>17, <2>1, <2>4 DEF Remembered
<1>23. Core(r, m, p, h)
  BY <1>r, <1>2, <1>5, <1>15, <1>17, <1>19, <1>20, <1>21, <1>22 DEF Core
<1>24. Lookahead(r) BY <1>17 DEF Lookahead
<1> QED BY <1>1, <1>23, <1>24 DEF Connection

\* The high water is known: what the replay will bring is taken out of boot.
LEMMA PinHighWaterIs ==
    ASSUME NEW c, NEW m \in Nat, NEW p \in Nat, NEW h \in Nat, p <= h, Connection(c, m, p, h),
           c.phase = "replaying"
    PROVE  LET live == {f \in Frames(c.boot) : f.kind # "event" \/ f.n > c.high}
               d == [Retain(c, "boot", live) EXCEPT !.pinned = TRUE]
           IN  Connection(IF d.high > d.after THEN d ELSE HandOver(d), m, p, h)
<1> DEFINE live == {f \in Frames(c.boot) : f.kind # "event" \/ f.n > c.high}
           b == Retain(c, "boot", live)
           d == [b EXCEPT !.pinned = TRUE]
           e == Above(p, c.high)
<1>1. /\ Core(c, m, p, h) /\ Lookahead(c) /\ Shape(c) /\ c.boot \in Seq(Frame)
      /\ c.high \in Nat /\ c.after \in Nat /\ c.accepted \in Nat /\ c.read \in Nat
      /\ c.after <= c.high /\ c.after <= c.accepted
  BY DEF Connection, Core, Shape
<1>2. PICK a \in Nat : a <= c.high /\ Numbered(c.boot, a, p)
  BY <1>1, MeanwhileIs DEF Core
<1>3. \A f \in Events(c.boot) : f \in live <=> f.n > c.high BY DEF Events
<1> HIDE DEF live
<1>4. e \in Nat /\ Above(a, c.high) = c.high /\ p <= e /\ c.high <= e
      /\ (e = p \/ e = c.high)
  BY <1>1, <1>2 DEF Above
<1>5. Kept(c.boot, live) \in Seq(Frame) /\ Numbered(Kept(c.boot, live), c.high, e)
  BY <1>1, <1>2, <1>3, <1>4, NumberedKept
<1> HIDE DEF e
<1>6. Shape(b) /\ b.boot = Kept(c.boot, live) /\ SameBut(b, c, {"boot", "buffered"})
  BY <1>1, <1>5, RetainIs
<1> HIDE DEF b, d
<1>7. /\ d.pinned = TRUE /\ SameBut(d, b, {"pinned"}) /\ d = [f \in ConnField |-> d[f]]
  BY <1>6 DEF Shape, SameBut, ConnField, d
<1>8. Shape(d) BY <1>6, <1>7 DEF Shape, SameBut, ConnField
<1>9. /\ d.boot = b.boot /\ d.phase = "replaying" /\ d.high = c.high /\ d.after = c.after
      /\ d.accepted = c.accepted /\ d.read = c.read /\ d.look = c.look /\ d.out = c.out
      /\ d.seen = c.seen /\ d.cause = c.cause
  BY <1>6, <1>7 DEF SameBut, ConnField
<1>10. SeqsOf(d.boot) = (c.high + 1)..e BY <1>5, <1>6, <1>9, NumberedRange
<1>11. Meanwhile(d, p)
  <2>1. \A s \in SeqsOf(d.boot) : s > d.high BY <1>1, <1>4, <1>9, <1>10
  <2>2. \E x \in Nat : x <= d.high /\ Numbered(d.boot, x, p)
    <3>1. CASE e = p BY <1>1, <1>5, <1>6, <1>9, <3>1
    <3>2. CASE e # p
      <4>1. e = c.high BY <1>4, <3>2
      <4>2. SeqsOf(d.boot) = {} BY <1>1, <1>10, <4>1
      <4>3. Numbered(d.boot, p, p) BY <1>5, <1>6, <1>9, <4>2, NumberedNone
      <4>4. p <= d.high BY <1>4, <1>9, <4>1
      <4> QED BY <4>3, <4>4
    <3> QED BY <3>1, <3>2
  <2> QED BY <2>1, <2>2 DEF Meanwhile
<1>12. Core(d, m, p, h) BY <1>1, <1>8, <1>9, <1>11 DEF Core, Remembered
<1>13. Lookahead(d) BY <1>1, <1>9 DEF Lookahead
<1>14. CASE d.high > d.after BY <1>12, <1>13, <1>14 DEF Connection, d, b, live
<1>15. CASE ~(d.high > d.after)
  <2>1. c.high = c.after BY <1>1, <1>9, <1>15
  <2>2. c.look = <<>> /\ c.accepted = c.high
    <3>1. c.after <= c.read /\ c.read <= c.high BY <1>1 DEF Lookahead
    <3>2. c.read = c.after BY <1>1, <2>1, <3>1
    <3>3. ~(c.accepted + 1 = c.read) BY <1>1, <3>2
    <3> QED BY <1>1, <2>1, <3>3 DEF Lookahead
  <2>3. d.look = <<>> /\ d.accepted = d.high BY <1>9, <2>2
  <2>4. Connection(HandOver(d), m, p, h) BY <1>9, <1>12, <2>3, HandOverIs
  <2> QED BY <1>15, <2>4 DEF d, b, live
<1> QED BY <1>14, <1>15 DEF d, b, live

LEMMA ReplayEndsIs ==
    ASSUME NEW c, NEW m \in Nat, NEW p \in Nat, NEW h \in Nat, p <= h, Connection(c, m, p, h),
           c.phase = "replaying", c.read = c.high
    PROVE  /\ FlushReplayLookahead(c).phase # "closed"
           /\ Connection(HandOver(FlushReplayLookahead(c)), m, p, h)
<1> DEFINE r == FlushReplayLookahead(c)
<1>1. /\ Core(r, m, p, h) /\ r.phase = "replaying" /\ r.look = <<>> /\ r.accepted = c.read
      /\ SameBut(r, c, {"look", "out", "accepted", "seen"})
  BY FlushReplayLookaheadIs
<1> HIDE DEF r
<1>2. r.accepted = r.high BY <1>1 DEF SameBut, ConnField
<1>3. Connection(HandOver(r), m, p, h) BY <1>1, <1>2, HandOverIs
<1> QED BY <1>1, <1>3 DEF r

\* A transient frame at the end of a buffer does not disturb its numbers.
LEMMA PutTransient ==
    ASSUME NEW c, NEW m \in Nat, NEW p \in Nat, NEW h \in Nat, Connection(c, m, p, h),
           NEW q \in {"boot", "out"}, NEW f \in Frame, f.kind # "event", c.phase # "closed",
           q = "boot" => c.phase = "replaying"
    PROVE  Connection(Put(c, q, f), m, p, h)
<1> DEFINE d == Put(c, q, f)
<1>1. /\ Core(c, m, p, h) /\ Lookahead(c) /\ Shape(c) /\ c.boot \in Seq(Frame)
      /\ c.out \in Seq(Frame) /\ Numbered(c.out, m, c.accepted)
  BY DEF Connection, Core, Shape
<1>2. Shape(d) /\ d[q] = Append(c[q], f) /\ SameBut(d, c, {q, "buffered"})
  BY <1>1, PutIs
<1> HIDE DEF d
<1>3. Numbered(d.out, m, c.accepted)
  <2>1. CASE q = "out" BY <1>1, <1>2, <2>1, NumberedAppend
  <2>2. CASE q # "out"
    <3>1. d.out = c.out BY <1>2, <2>2 DEF SameBut, ConnField
    <3> QED BY <1>1, <3>1
  <2> QED BY <2>1, <2>2
<1>4. c.phase = "live" => d.boot = <<>>
  <2> SUFFICES ASSUME c.phase = "live" PROVE d.boot = <<>> OBVIOUS
  <2>1. d.boot = c.boot BY <1>2 DEF SameBut, ConnField
  <2> QED BY <1>1, <2>1 DEF Core
<1>5. c.phase = "replaying" => Meanwhile(d, p)
  <2> SUFFICES ASSUME c.phase = "replaying" PROVE Meanwhile(d, p) OBVIOUS
  <2>1. d.high = c.high /\ d.pinned = c.pinned BY <1>2 DEF SameBut, ConnField
  <2>2. CASE q = "boot"
    <3>1. PICK a \in Nat : a <= c.high /\ Numbered(c.boot, a, p)
      BY <1>1 DEF Core, Meanwhile
    <3>2. Numbered(d.boot, a, p) /\ d.boot \in Seq(Frame)
      BY <1>1, <1>2, <2>2, <3>1, NumberedAppend
    <3>3. SeqsOf(d.boot) = SeqsOf(c.boot) BY <1>1, <3>1, <3>2, NumberedRange
    <3> QED BY <1>1, <2>1, <3>1, <3>2, <3>3 DEF Core, Meanwhile
  <2>3. CASE q # "boot"
    <3>1. d.boot = c.boot BY <1>2, <2>3 DEF SameBut, ConnField
    <3> QED BY <1>1, <2>1, <3>1 DEF Core, Meanwhile
  <2> QED BY <2>2, <2>3
<1>6. SameBut(d, c, {"boot", "out", "inFlight", "buffered"}) BY <1>2 DEF SameBut
<1>7. Core(d, m, p, h) /\ Lookahead(d)
  BY <1>1, <1>2, <1>3, <1>4, <1>5, <1>6, SameCore
<1> QED BY <1>7 DEF Connection, d

LEMMA DeltaIsFrame ==
    \A n \in Nat : Delta(n) \in Frame /\ Delta(n).kind # "event"
BY DEF Delta, Frame

\* A delta that takes the place of another does not disturb the numbers of a buffer.
LEMMA CoalescedIs ==
    ASSUME NEW c, NEW m \in Nat, NEW p \in Nat, NEW h \in Nat, Connection(c, m, p, h),
           NEW q \in {"boot", "out"}, NEW n \in Nat, c.phase # "closed",
           NEW d \in Coalesced(c, q, n)
    PROVE  Connection(d, m, p, h)
<1> DEFINE Replaced(k) == [i \in DOMAIN c[q] |->
                             IF c[q][i].kind = "delta" THEN Delta(k) ELSE c[q][i]]
<1>1. /\ Core(c, m, p, h) /\ Lookahead(c) /\ Shape(c) /\ c[q] \in Seq(Frame)
      /\ c.boot \in Seq(Frame) /\ c.out \in Seq(Frame) /\ Numbered(c.out, m, c.accepted)
  BY DEF Connection, Core, Shape
<1>2. PICK k \in {n} \cup {f.n : f \in {g \in Frames(c[q]) : g.kind = "delta"}} :
         d = [c EXCEPT ![q] = Replaced(k)]
  BY DEF Coalesced
<1>3. k \in Nat
  <2>1. DOMAIN c[q] = 1..Len(c[q]) /\ \A i \in 1..Len(c[q]) : c[q][i] \in Frame BY <1>1
  <2>2. \A i \in DOMAIN c[q] : c[q][i].n \in Nat BY <2>1 DEF Frame
  <2>3. \A f \in Frames(c[q]) : f.n \in Nat BY <2>2 DEF Frames
  <2> QED BY <2>3
<1> DEFINE x == Replaced(k)
<1>4. /\ x \in Seq(Frame) /\ Len(x) = Len(c[q])
      /\ \A i \in 1..Len(c[q]) : IF c[q][i].kind = "event" THEN x[i] = c[q][i]
                                 ELSE x[i].kind # "event"
  <2>1. DOMAIN c[q] = 1..Len(c[q]) /\ Len(c[q]) \in Nat
        /\ \A i \in 1..Len(c[q]) : c[q][i] \in Frame
    BY <1>1
  <2>2. Delta(k) \in Frame /\ Delta(k).kind # "event" BY <1>3, DeltaIsFrame
  <2>3. "event" # "delta" OBVIOUS
  <2> DEFINE l == Len(c[q])
  <2> HIDE DEF l
  <2>4. x \in [1..l -> Frame] BY <2>1, <2>2 DEF l
  <2>5. x \in Seq(Frame) /\ Len(x) = l BY <2>1, <2>4 DEF l
  <2>6. ASSUME NEW i \in 1..l
        PROVE  IF c[q][i].kind = "event" THEN x[i] = c[q][i] ELSE x[i].kind # "event"
    <3>1. x[i] = IF c[q][i].kind = "delta" THEN Delta(k) ELSE c[q][i] BY <2>1 DEF l
    <3> HIDE DEF x
    <3> QED BY <2>2, <2>3, <3>1
  <2> QED BY <2>5, <2>6 DEF l
<1> HIDE DEF x
<1>5. d[q] = x /\ SameBut(d, c, {q}) /\ d = [f \in ConnField |-> d[f]]
  BY <1>1, <1>2 DEF Shape, SameBut, ConnField, x
<1>6. Shape(d) BY <1>1, <1>4, <1>5 DEF Shape, SameBut, ConnField
<1>7. Numbered(d.out, m, c.accepted)
  <2>1. CASE q = "out" BY <1>1, <1>4, <1>5, <2>1, NumberedExchange
  <2>2. CASE q # "out"
    <3>1. d.out = c.out BY <1>5, <2>2 DEF SameBut, ConnField
    <3> QED BY <1>1, <3>1
  <2> QED BY <2>1, <2>2
<1>8. c.phase = "live" => d.boot = <<>>
  <2> SUFFICES ASSUME c.phase = "live" PROVE d.boot = <<>> OBVIOUS
  <2>1. c.boot = <<>> BY <1>1 DEF Core
  <2>2. CASE q = "boot"
    <3>1. Len(d.boot) = 0 /\ d.boot \in Seq(Frame) BY <1>4, <1>5, <2>1, <2>2
    <3> QED BY <3>1
  <2>3. CASE q # "boot" BY <1>5, <2>1, <2>3 DEF SameBut, ConnField
  <2> QED BY <2>2, <2>3
<1>9. c.phase = "replaying" => Meanwhile(d, p)
  <2> SUFFICES ASSUME c.phase = "replaying" PROVE Meanwhile(d, p) OBVIOUS
  <2>1. d.high = c.high /\ d.pinned = c.pinned BY <1>5 DEF SameBut, ConnField
  <2>2. CASE q = "boot"
    <3>1. PICK a \in Nat : a <= c.high /\ Numbered(c.boot, a, p)
      BY <1>1 DEF Core, Meanwhile
    <3>2. Numbered(d.boot, a, p) /\ SeqsOf(d.boot) = SeqsOf(c.boot)
      BY <1>1, <1>4, <1>5, <2>2, <3>1, NumberedExchange
    <3> QED BY <1>1, <2>1, <3>1, <3>2 DEF Core, Meanwhile
  <2>3. CASE q # "boot"
    <3>1. d.boot = c.boot BY <1>5, <2>3 DEF SameBut, ConnField
    <3> QED BY <1>1, <2>1, <3>1 DEF Core, Meanwhile
  <2> QED BY <2>2, <2>3
<1>10. SameBut(d, c, {"boot", "out", "inFlight", "buffered"}) BY <1>5 DEF SameBut
<1>11. Core(d, m, p, h) /\ Lookahead(d)
  BY <1>1, <1>6, <1>7, <1>8, <1>9, <1>10, SameCore
<1> QED BY <1>11 DEF Connection

LEMMA OfferDeltaIs ==
    ASSUME NEW c, NEW m \in Nat, NEW p \in Nat, NEW h \in Nat, Connection(c, m, p, h),
           NEW n \in Nat, NEW d \in OfferDelta(c, n)
    PROVE  Connection(d, m, p, h)
<1>1. Delta(n) \in Frame /\ Delta(n).kind # "event" BY DeltaIsFrame
<1>2. c.phase \in {"closed", "replaying", "live"} BY DEF Connection, Core, Shape
<1>3. CASE d = c BY <1>3
<1>4. CASE c.phase # "closed" /\ d \in Coalesced(c, "boot", n) BY <1>4, CoalescedIs
<1>5. CASE c.phase # "closed" /\ d \in Coalesced(c, "out", n) BY <1>5, CoalescedIs
<1>6. CASE c.phase = "replaying" /\ d = Put(c, "boot", Delta(n))
  BY <1>1, <1>6, PutTransient
<1>7. CASE c.phase = "live" /\ d = Put(c, "out", Delta(n))
  BY <1>1, <1>7, PutTransient
<1> QED BY <1>2, <1>3, <1>4, <1>5, <1>6, <1>7 DEF OfferDelta

\* The first frame of out goes to the wire, and what the client will have read with it.
LEMMA SendIs ==
    ASSUME NEW c, NEW m \in Nat, NEW p \in Nat, NEW h \in Nat, Connection(c, m, p, h),
           m <= h, c.phase # "closed", c.out # <<>>,
           NEW d, Shape(d), SameBut(d, c, {"out", "inFlight", "buffered"}), d.out = Tail(c.out),
           NEW w \in Seq(Frame), NEW l \in Nat, Numbered(w, l, m)
    PROVE  /\ Append(w, Head(c.out)) \in Seq(Frame)
           /\ \E k \in Nat : /\ k <= h /\ Connection(d, k, p, h)
                             /\ Numbered(Append(w, Head(c.out)), l, k)
<1> DEFINE f == Head(c.out)
<1>1. /\ Core(c, m, p, h) /\ Lookahead(c) /\ Shape(c) /\ c.out \in Seq(Frame)
      /\ Numbered(c.out, m, c.accepted) /\ c.accepted \in Nat /\ c.accepted <= h
  BY DEF Connection, Core, Shape
<1>2. /\ f \in Frame /\ Tail(c.out) \in Seq(Frame)
      /\ f.kind = "event" => f.n = m + 1 /\ Numbered(Tail(c.out), m + 1, c.accepted)
      /\ f.kind # "event" => Numbered(Tail(c.out), m, c.accepted)
  BY <1>1, NumberedTail
<1> HIDE DEF f
<1>3. PICK k \in Nat : /\ k <= h /\ Numbered(Tail(c.out), k, c.accepted)
                       /\ Numbered(Append(w, f), l, k)
  <2>1. CASE f.kind = "event"
    <3>1. Numbered(Append(w, f), l, m + 1) BY <1>2, <2>1, NumberedAppend
    <3>2. m + 1 <= c.accepted BY <1>2, <2>1, NumberedRange
    <3>3. m + 1 \in Nat /\ m + 1 <= h BY <1>1, <3>2
    <3> QED BY <1>2, <2>1, <3>1, <3>3
  <2>2. CASE f.kind # "event"
    <3>1. Numbered(Append(w, f), l, m) BY <1>2, <2>2, NumberedAppend
    <3> QED BY <1>2, <2>2, <3>1
  <2> QED BY <2>1, <2>2
<1>4. Core(d, k, p, h) /\ Lookahead(d)
  <2>1. /\ d.boot = c.boot /\ d.high = c.high /\ d.pinned = c.pinned /\ d.phase = c.phase
        /\ d.after = c.after /\ d.accepted = c.accepted /\ d.seen = c.seen /\ d.look = c.look
        /\ d.read = c.read /\ d.cause = c.cause
    BY DEF SameBut, ConnField
  <2>2. Meanwhile(c, p) => Meanwhile(d, p) BY <2>1 DEF Meanwhile
  <2>3. Numbered(d.out, k, d.accepted) BY <1>3, <2>1
  <2>4. Core(d, k, p, h) BY <1>1, <2>1, <2>2, <2>3 DEF Core, Remembered
  <2>5. Lookahead(d) BY <1>1, <2>1 DEF Lookahead
  <2> QED BY <2>4, <2>5
<1>5. Append(w, f) \in Seq(Frame) BY <1>2
<1> QED BY <1>3, <1>4, <1>5 DEF Connection, f

----------------------------------------------------------------------------
(* The invariant                                                             *)

Clients == [at : {"loading", "connecting", "open", "failed"}, url : Nat, lastId : Nat,
            last : Nat]

\* The log, the publisher behind it, and what the publisher has been asked for.
Publisher ==
    /\ high \in Nat /\ publishedThrough \in Nat /\ through \in Nat
    /\ publishedThrough <= high /\ through <= high
    /\ deltas \in Nat /\ tail \in Seq(Nat)

\* The page holds events that exist, and asks for those after the last it has.
Page ==
    /\ client \in Clients /\ client.last <= high
    /\ client.at \in {"connecting", "open"} => ResolveEventCursor(client) = client.last

\* From the page to the publisher: each buffer goes on where the one before it ends.
Chain ==
    /\ wire \in Seq(Frame)
    /\ \E m \in Nat : /\ m <= high
                      /\ Connection(conn, m, publishedThrough, high)
                      /\ client.at = "open" => Numbered(wire, client.last, m)

StreamInvariant ==
    /\ Publisher /\ Page /\ Chain
    /\ conn.phase # "closed" => client.at = "open" /\ server # "down"

LEMMA StreamStarts == Init => StreamInvariant
<1> SUFFICES ASSUME Init PROVE StreamInvariant OBVIOUS
<1>1. high = 1 /\ publishedThrough = 1 /\ through = 0 /\ deltas = 0 /\ tail = <<>> /\ wire = <<>>
      /\ client = [at |-> "loading", url |-> 0, lastId |-> 0, last |-> 0]
      /\ conn = Closed("none") /\ server = "up"
  BY DEF Init, NoConnection
<1>2. <<>> \in Seq(Nat) /\ <<>> \in Seq(Frame) OBVIOUS
<1>3. Publisher BY <1>1, <1>2 DEF Publisher
<1>4. Page BY <1>1 DEF Page, Clients
<1>5. Connection(conn, 0, publishedThrough, high)
  <2>1. 1 <= MaxSeq /\ "none" \notin Broken BY StreamAssumption DEF Broken
  <2> QED BY <1>1, <2>1, ClosedConnection
<1>6. Chain BY <1>1, <1>2, <1>5 DEF Chain
<1> QED BY <1>1, <1>3, <1>4, <1>6 DEF StreamInvariant, Closed

\* A step after which the connection is closed keeps its part of the invariant.
LEMMA StreamCloses ==
    ASSUME wire' \in Seq(Frame), high' \in Nat, NEW m \in Nat, m <= high',
           NEW cause, conn' = Closed(cause), cause \notin Broken, high' = high,
           NEW k, NEW p, Core(conn, k, p, high),
           client'.at = "open" => Numbered(wire', client'.last, m)
    PROVE  Chain' /\ conn'.phase = "closed"
<1>1. MaxSeq <= DedupWindow => high' <= MaxSeq BY DEF Core, Remembered
<1>2. Connection(conn', m, publishedThrough', high') BY <1>1, ClosedConnection
<1> QED BY <1>2 DEF Chain, Closed

\* What a step of the connection alone has to keep.
LEMMA StreamServes ==
    ASSUME StreamInvariant, UNCHANGED <<high, publishedThrough, through, deltas, tail, wire, client, server>>,
           conn.phase # "closed",
           \A m \in Nat : Connection(conn, m, publishedThrough, high)
                            => Connection(conn', m, publishedThrough, high)
    PROVE  StreamInvariant'
<1>1. Publisher' /\ Page' BY DEF StreamInvariant, Publisher, Page
<1>2. Chain' BY DEF StreamInvariant, Chain
<1> QED BY <1>1, <1>2 DEF StreamInvariant

LEMMA StreamSteps == StreamInvariant /\ [Next]_vars => StreamInvariant'
<1> SUFFICES ASSUME StreamInvariant, [Next]_vars PROVE StreamInvariant' OBVIOUS
<1> USE DEF StreamInvariant
<1>1. PICK m \in Nat : /\ m <= high
                       /\ Connection(conn, m, publishedThrough, high)
                       /\ client.at = "open" => Numbered(wire, client.last, m)
  BY DEF Chain
<1>2. /\ wire \in Seq(Frame) /\ high \in Nat /\ publishedThrough \in Nat
      /\ publishedThrough <= high /\ client.last <= high /\ client \in Clients
      /\ client.last \in Nat
  BY DEF Chain, Publisher, Page, Clients
<1>3. Shape(conn) /\ conn.high \in Nat /\ conn.after \in Nat /\ conn.out \in Seq(Frame)
      /\ conn.phase \in {"replaying", "live", "closed"}
  BY <1>1 DEF Connection, Core, Shape
<1>4. CASE UNCHANGED vars
  BY <1>4 DEF vars, publisher, Publisher, Page, Chain, ResolveEventCursor
<1>5. CASE Commit
  <2>1. /\ high' = high + 1
        /\ UNCHANGED <<server, deltas, publishedThrough, tail, through, conn, wire, client>>
    BY <1>5 DEF Commit
  <2>2. Publisher' BY <1>2, <2>1 DEF Publisher
  <2>3. Page' BY <1>2, <2>1 DEF Page, ResolveEventCursor
  <2>4. Connection(conn, m, publishedThrough, high + 1)
    <3>1. conn.accepted \in Nat BY <1>3 DEF Shape
    <3>2. high + 1 <= MaxSeq
      <4>1. high < MaxSeq /\ MaxSeq \in Nat BY <1>5, StreamAssumption DEF Commit
      <4> QED BY <1>2, <4>1
    <3>3. Remembered(conn, high + 1) BY <1>1, <3>2 DEF Connection, Core, Remembered
    <3> QED BY <1>1, <1>2, <1>3, <3>1, <3>3 DEF Connection, Core
  <2>5. Chain' BY <1>1, <1>2, <2>1, <2>4 DEF Chain
  <2> QED BY <2>1, <2>2, <2>3, <2>5
<1>6. CASE PublishTransient
  <2>1. /\ deltas' = deltas + 1 /\ tail' = Append(tail, deltas + 1)
        /\ UNCHANGED <<high, server, publishedThrough, through, conn, wire, client>>
    BY <1>6 DEF PublishTransient
  <2>2. Publisher'
    <3>1. deltas + 1 \in Nat /\ tail \in Seq(Nat) BY DEF Publisher
    <3>2. Append(tail, deltas + 1) \in Seq(Nat) BY <3>1
    <3> QED BY <2>1, <3>1, <3>2 DEF Publisher
  <2> QED BY <2>1, <2>2 DEF Page, Chain, ResolveEventCursor
<1>7. CASE OfferHeartbeat
  <2>1. /\ conn.phase # "closed" /\ deltas' = deltas + 1
        /\ conn' = Put(conn, "out", Heartbeat)
        /\ UNCHANGED <<high, server, publishedThrough, tail, through, wire, client>>
    BY <1>7 DEF OfferHeartbeat
  <2>2. Heartbeat \in Frame /\ Heartbeat.kind # "event" BY DEF Heartbeat, Frame
  <2>3. Connection(conn', m, publishedThrough, high)
    BY <1>1, <1>2, <2>1, <2>2, PutTransient
  <2>4. Publisher' BY <2>1 DEF Publisher
  <2>5. Page' BY <2>1 DEF Page, ResolveEventCursor
  <2>6. Chain' BY <1>1, <2>1, <2>3 DEF Chain
  <2> QED BY <2>1, <2>4, <2>5, <2>6
<1>8. CASE PublishStored
  <2>1. /\ tail' = Append(tail, 0)
        /\ UNCHANGED <<high, server, deltas, publishedThrough, through, conn, wire, client>>
    BY <1>8 DEF PublishStored
  <2>2. Publisher'
    <3>1. tail \in Seq(Nat) BY DEF Publisher
    <3>2. Append(tail, 0) \in Seq(Nat) BY <3>1
    <3> QED BY <2>1, <3>2 DEF Publisher
  <2> QED BY <2>1, <2>2 DEF Page, Chain, ResolveEventCursor
<1>9. CASE DrainDurable
  <2>1. /\ through' = high
        /\ UNCHANGED <<high, server, deltas, publishedThrough, tail, conn, wire, client>>
    BY <1>9 DEF DrainDurable
  <2>2. Publisher' BY <2>1 DEF Publisher
  <2> QED BY <2>1, <2>2 DEF Page, Chain, ResolveEventCursor
<1>10. CASE PublishNext
  <2>1. /\ publishedThrough < through
        /\ conn' = ReceiveLive(conn, publishedThrough + 1)
        /\ publishedThrough' = publishedThrough + 1
        /\ UNCHANGED <<high, server, deltas, tail, through, wire, client>>
    BY <1>10 DEF PublishNext
  <2>2. publishedThrough + 1 <= through /\ publishedThrough + 1 <= high
    BY <2>1 DEF Publisher
  <2>3. Publisher' BY <2>1, <2>2 DEF Publisher
  <2>4. Connection(conn', m, publishedThrough', high')
    BY <1>1, <1>2, <2>1, <2>2, ReceiveLiveIs
  <2>5. Chain' BY <1>1, <2>1, <2>4 DEF Chain
  <2>6. conn.phase = "closed" => conn'.phase = "closed" BY <2>1 DEF ReceiveLive
  <2> QED BY <2>1, <2>3, <2>5, <2>6 DEF Page, ResolveEventCursor
<1>11. CASE PublishEnds
  <2>1. /\ tail # <<>> /\ tail' = Tail(tail) /\ through' = 0
        /\ conn' \in IF Head(tail) = 0 THEN {conn} ELSE OfferDelta(conn, Head(tail))
        /\ UNCHANGED <<high, server, deltas, publishedThrough, wire, client>>
    BY <1>11 DEF PublishEnds
  <2>2. Head(tail) \in Nat /\ Tail(tail) \in Seq(Nat)
    <3>1. tail \in Seq(Nat) BY DEF Publisher
    <3> QED BY <2>1, <3>1
  <2>3. Publisher' BY <2>1, <2>2 DEF Publisher
  <2>4. Connection(conn', m, publishedThrough, high)
    BY <1>1, <1>2, <2>1, <2>2, OfferDeltaIs
  <2>5. Chain' BY <1>1, <2>1, <2>4 DEF Chain
  <2>6. conn.phase = "closed" => conn'.phase = "closed" BY <2>1 DEF OfferDelta
  <2> QED BY <2>1, <2>3, <2>5, <2>6 DEF Page, ResolveEventCursor
<1>12. CASE PinHighWater
  <2>1. conn.phase = "replaying"
        /\ UNCHANGED <<high, publishedThrough, through, deltas, tail, wire, client, server>>
    BY <1>12 DEF PinHighWater, publisher
  <2> DEFINE live == {f \in Frames(conn.boot) : f.kind # "event" \/ f.n > conn.high}
             d == [Retain(conn, "boot", live) EXCEPT !.pinned = TRUE]
  <2>2. conn' = IF d.high > d.after THEN d ELSE HandOver(d) BY <1>12 DEF PinHighWater
  <2> HIDE DEF StreamInvariant
  <2>3. ASSUME NEW k \in Nat, Connection(conn, k, publishedThrough, high)
        PROVE  Connection(conn', k, publishedThrough, high)
    BY <1>2, <2>1, <2>2, <2>3, PinHighWaterIs
  <2> HIDE DEF d, live
  <2> QED BY <2>1, <2>3, StreamServes
<1>13. CASE ReplayNext
  <2>1. conn.phase = "replaying" /\ conn.read < conn.high
        /\ UNCHANGED <<high, publishedThrough, through, deltas, tail, wire, client, server>>
    BY <1>13 DEF ReplayNext, publisher
  <2> DEFINE r == FlushReplayLookahead(conn)
             staged == OfferDurable(r, "look", r.read + 1)
             d == IF staged.phase = "closed" THEN staged ELSE [staged EXCEPT !.read = @ + 1]
  <2>2. conn' = IF r.phase = "closed" THEN r ELSE d BY <1>13 DEF ReplayNext
  <2> HIDE DEF StreamInvariant
  <2>3. ASSUME NEW k \in Nat, Connection(conn, k, publishedThrough, high)
        PROVE  Connection(conn', k, publishedThrough, high)
    BY <1>2, <2>1, <2>2, <2>3, ReplayNextIs
  <2> HIDE DEF d, r, staged
  <2> QED BY <2>1, <2>3, StreamServes
<1>14. CASE ReplayEnds
  <2>1. conn.phase = "replaying" /\ conn.read = conn.high
        /\ UNCHANGED <<high, publishedThrough, through, deltas, tail, wire, client, server>>
    BY <1>14 DEF ReplayEnds, publisher
  <2> DEFINE r == FlushReplayLookahead(conn)
  <2>2. conn' = IF r.phase = "closed" THEN r ELSE HandOver(r) BY <1>14 DEF ReplayEnds
  <2> HIDE DEF StreamInvariant
  <2>3. ASSUME NEW k \in Nat, Connection(conn, k, publishedThrough, high)
        PROVE  Connection(conn', k, publishedThrough, high)
    BY <1>2, <2>1, <2>2, <2>3, ReplayEndsIs
  <2> HIDE DEF r
  <2> QED BY <2>1, <2>3, StreamServes
<1>15. CASE PumpWrites
  <2>1. /\ conn.phase # "closed" /\ conn.out # <<>>
        /\ conn' = [conn EXCEPT !.inFlight = <<Head(conn.out)>>, !.out = Tail(@)]
        /\ wire' = Append(wire, Head(conn.out))
        /\ UNCHANGED <<high, publishedThrough, through, deltas, tail, client, server>>
    BY <1>15 DEF PumpWrites, PumpQueued, publisher
  <2>2. Head(conn.out) \in Frame /\ Tail(conn.out) \in Seq(Frame) BY <1>3, <2>1
  <2>3. <<Head(conn.out)>> \in Seq(Frame) BY <2>2
  <2> DEFINE i == <<Head(conn.out)>>
             o == Tail(conn.out)
  <2>4. conn' = [conn EXCEPT !.inFlight = i, !.out = o] BY <1>3, <2>1 DEF Shape, ConnField
  <2> HIDE DEF i, o
  <2>5. /\ conn'.out = o /\ conn'.inFlight = i /\ SameBut(conn', conn, {"out", "inFlight"})
        /\ conn' = [f \in ConnField |-> conn'[f]]
    BY <1>3, <2>4 DEF Shape, SameBut, ConnField
  <2>6. Shape(conn') BY <1>3, <2>2, <2>3, <2>5 DEF Shape, SameBut, ConnField, i, o
  <2>7. SameBut(conn', conn, {"out", "inFlight", "buffered"}) BY <2>5 DEF SameBut
  <2>8. Numbered(wire, client.last, m) BY <1>1, <2>1
  <2>9. /\ wire' \in Seq(Frame)
        /\ \E k \in Nat : /\ k <= high /\ Connection(conn', k, publishedThrough, high)
                          /\ Numbered(wire', client.last, k)
    BY <1>1, <1>2, <2>1, <2>5, <2>6, <2>7, <2>8, SendIs DEF o
  <2>10. Chain' BY <2>1, <2>9 DEF Chain
  <2>11. Publisher' /\ Page' BY <2>1 DEF Publisher, Page, ResolveEventCursor
  <2> QED BY <2>1, <2>10, <2>11
<1>16. CASE WriteResolves
  <2> DEFINE next == SubSeq(conn.out, 1, IF conn.out = <<>> THEN 0 ELSE 1)
             o == SubSeq(conn.out, 1 + Len(next), Len(conn.out))
             b == conn.buffered - 1
  <2>1. /\ conn.phase # "closed"
        /\ conn' = [conn EXCEPT !.inFlight = next, !.buffered = b, !.out = o]
        /\ wire' = wire \o next
        /\ UNCHANGED <<high, publishedThrough, through, deltas, tail, client, server>>
    BY <1>3, <1>16 DEF WriteResolves, publisher, Shape, ConnField
  <2>2. /\ next \in Seq(Frame) /\ o \in Seq(Frame)
        /\ conn.out = <<>> => next = <<>> /\ o = <<>>
        /\ conn.out # <<>> => next = <<Head(conn.out)>> /\ o = Tail(conn.out)
    <3>1. CASE conn.out = <<>>
      <4>1. next = <<>> BY <1>3, <3>1
      <4>2. Len(next) = 0 BY <4>1
      <4>3. o = <<>> BY <1>3, <3>1, <4>2
      <4> QED BY <3>1, <4>1, <4>3
    <3>2. CASE conn.out # <<>>
      <4>1. next = <<Head(conn.out)>> /\ Head(conn.out) \in Frame
        <5>1. next = SubSeq(conn.out, 1, 1) BY <3>2
        <5> HIDE DEF next
        <5>2. Len(next) = 1 /\ next[1] = conn.out[1] /\ next \in Seq(Frame)
          BY <1>3, <3>2, <5>1
        <5>3. Head(conn.out) = conn.out[1] /\ Head(conn.out) \in Frame BY <1>3, <3>2
        <5> QED BY <5>2, <5>3
      <4>2. Len(next) = 1 /\ next \in Seq(Frame) BY <4>1
      <4>3. o = Tail(conn.out) /\ Tail(conn.out) \in Seq(Frame) BY <1>3, <3>2, <4>2
      <4> QED BY <3>2, <4>1, <4>2, <4>3
    <3> QED BY <3>1, <3>2
  <2>3. conn.out # <<>> => wire \o next = Append(wire, Head(conn.out))
    <3>1. ASSUME conn.out # <<>> PROVE wire \o <<Head(conn.out)>> = Append(wire, Head(conn.out))
      BY <1>2, <1>3, <3>1
    <3> HIDE DEF next
    <3> QED BY <2>2, <3>1
  <2>4. wire \o <<>> = wire BY <1>2
  <2> HIDE DEF next, o, b
  <2>5. /\ conn'.out = o /\ conn'.inFlight = next
        /\ SameBut(conn', conn, {"out", "inFlight", "buffered"})
        /\ conn' = [f \in ConnField |-> conn'[f]]
    BY <1>3, <2>1 DEF Shape, SameBut, ConnField
  <2>6. Shape(conn') BY <1>3, <2>2, <2>5 DEF Shape, SameBut, ConnField
  <2>7. Numbered(wire, client.last, m) BY <1>1, <2>1
  <2>8. /\ wire' \in Seq(Frame)
        /\ \E k \in Nat : /\ k <= high /\ Connection(conn', k, publishedThrough, high)
                          /\ Numbered(wire', client.last, k)
    <3>1. CASE conn.out = <<>>
      <4>1. wire' = wire /\ conn'.out = conn.out BY <2>1, <2>2, <2>4, <2>5, <3>1
      <4>2. /\ SameBut(conn', conn, {"boot", "out", "inFlight", "buffered"})
            /\ conn'.boot = conn.boot /\ conn'.high = conn.high /\ conn'.pinned = conn.pinned
        BY <2>5 DEF SameBut, ConnField
      <4>3. Core(conn, m, publishedThrough, high) /\ Lookahead(conn) BY <1>1 DEF Connection
      <4>4. /\ conn.phase # "closed" => Numbered(conn'.out, m, conn.accepted)
            /\ conn.phase = "closed" => conn'.out = <<>>
            /\ conn.phase = "live" => conn'.boot = <<>>
        BY <4>1, <4>2, <4>3 DEF Core
      <4>5. conn.phase = "replaying" => Meanwhile(conn', publishedThrough)
        BY <4>2, <4>3 DEF Core, Meanwhile
      <4>6. Connection(conn', m, publishedThrough, high)
        BY <2>6, <4>2, <4>3, <4>4, <4>5, SameCore DEF Connection
      <4> QED BY <1>1, <1>2, <2>7, <4>1, <4>6
    <3>2. CASE conn.out # <<>>
      <4>1. wire' = Append(wire, Head(conn.out)) /\ conn'.out = Tail(conn.out)
        BY <2>1, <2>2, <2>3, <2>5, <3>2
      <4> DEFINE d == conn'
      <4>2. d = conn' /\ Shape(d) /\ SameBut(d, conn, {"out", "inFlight", "buffered"})
            /\ d.out = Tail(conn.out)
        BY <2>5, <2>6, <4>1
      <4> HIDE DEF d
      <4>3. /\ Append(wire, Head(conn.out)) \in Seq(Frame)
            /\ \E k \in Nat : /\ k <= high /\ Connection(d, k, publishedThrough, high)
                              /\ Numbered(Append(wire, Head(conn.out)), client.last, k)
        BY <1>1, <1>2, <2>1, <2>7, <3>2, <4>2, SendIs
      <4> QED BY <4>1, <4>2, <4>3
    <3> QED BY <3>1, <3>2
  <2>9. Chain' BY <2>1, <2>8 DEF Chain
  <2>10. Publisher' /\ Page' BY <2>1 DEF Publisher, Page, ResolveEventCursor
  <2> QED BY <2>1, <2>9, <2>10
<1>17. CASE Bootstrap
  <2>1. /\ client' = [at |-> "connecting", url |-> high, lastId |-> 0, last |-> high]
        /\ client.at = "loading"
        /\ UNCHANGED <<high, server, deltas, publishedThrough, tail, through, conn, wire>>
    BY <1>17 DEF Bootstrap, publisher
  <2>2. Page' BY <1>2, <2>1 DEF Page, Clients, ResolveEventCursor
  <2>3. Chain' BY <1>1, <1>2, <2>1 DEF Chain
  <2>4. Publisher' BY <2>1 DEF Publisher
  <2> QED BY <2>1, <2>2, <2>3, <2>4
<1>18. CASE OpenSse
  <2>1. /\ client.at = "connecting" /\ server = "up"
        /\ conn' = Opened(ResolveEventCursor(client)) /\ wire' = <<>>
        /\ client' = [client EXCEPT !.at = "open"]
        /\ UNCHANGED <<high, server, deltas, publishedThrough, tail, through>>
    BY <1>18 DEF OpenSse, publisher
  <2>2. /\ client' \in Clients /\ client'.last = client.last /\ client'.at = "open"
        /\ client'.lastId = client.lastId /\ client'.url = client.url
    BY <1>2, <2>1 DEF Clients
  <2>3. Page' BY <2>1, <2>2 DEF Page, ResolveEventCursor
  <2>4. ResolveEventCursor(client) = client.last BY <2>1 DEF Page
  <2> DEFINE l == client.last
  <2>5. conn' = Opened(l) BY <2>1, <2>4
  <2>6. <<>> \in Seq(Frame) /\ l \in Nat /\ l <= high BY <1>2
  <2> HIDE DEF l
  <2>7. /\ Shape(conn') /\ conn'.phase = "replaying" /\ conn'.after = l /\ conn'.accepted = l
        /\ conn'.read = l /\ conn'.high = high /\ conn'.seen = {} /\ conn'.pinned = FALSE
        /\ conn'.boot = <<>> /\ conn'.out = <<>> /\ conn'.look = <<>> /\ conn'.cause = "none"
    BY <1>2, <2>5, <2>6 DEF Opened, NoConnection, Closed, Shape, ConnField
  <2>8. Numbered(<<>>, publishedThrough, publishedThrough) /\ Numbered(<<>>, l, l)
    BY <1>2, <2>6, NumberedEmpty
  <2>9. Meanwhile(conn', publishedThrough) BY <1>2, <2>7, <2>8 DEF Meanwhile
  <2>r. Remembered(conn', high)
    <3>1. \A s \in Nat : ~(l < s /\ s <= l) BY <2>6
    <3>2. "none" \notin Broken BY DEF Broken
    <3> QED BY <1>1, <2>7, <3>1, <3>2 DEF Connection, Core, Remembered
  <2>10. Connection(conn', l, publishedThrough, high)
    BY <2>r, <1>2, <2>6, <2>7, <2>8, <2>9 DEF Connection, Core, Lookahead
  <2>11. Chain' BY <2>1, <2>2, <2>6, <2>8, <2>10 DEF Chain, l
  <2>12. Publisher' BY <2>1 DEF Publisher
  <2> QED BY <2>1, <2>2, <2>3, <2>11, <2>12
<1>19. CASE ConnectRefused
  <2>1. /\ client' = [client EXCEPT !.at = "failed"] /\ client.at = "connecting"
        /\ UNCHANGED <<high, server, deltas, publishedThrough, tail, through, conn, wire>>
    BY <1>19 DEF ConnectRefused, publisher
  <2>2. client' \in Clients /\ client'.last = client.last /\ client'.at = "failed"
    BY <1>2, <2>1 DEF Clients
  <2>3. Page' BY <1>2, <2>1, <2>2 DEF Page
  <2>4. Chain' BY <1>1, <1>2, <2>1, <2>2 DEF Chain
  <2>5. Publisher' BY <2>1 DEF Publisher
  <2> QED BY <2>1, <2>3, <2>4, <2>5
<1>20. CASE ClientReceives
  <2> DEFINE frame == Head(wire)
             c == IF frame.kind = "event" THEN AcceptEnvelope(client, frame.n) ELSE client
  <2>1. /\ client.at = "open" /\ wire # <<>> /\ client' = c
        /\ wire' = IF c.at = "open" THEN Tail(wire) ELSE <<>>
        /\ conn' = IF c.at = "open" THEN conn ELSE Closed("aborted")
        /\ UNCHANGED <<high, server, deltas, publishedThrough, tail, through>>
    BY <1>20 DEF ClientReceives, publisher
  <2> DEFINE l == client.last
  <2>2. /\ frame \in Frame /\ Tail(wire) \in Seq(Frame)
        /\ frame.kind = "event" => frame.n = l + 1 /\ Numbered(Tail(wire), l + 1, m)
        /\ frame.kind # "event" => Numbered(Tail(wire), l, m)
    BY <1>1, <1>2, <2>1, NumberedTail
  <2> HIDE DEF frame
  <2>3. /\ c \in Clients /\ c.at = "open" /\ c.last <= high
        /\ ResolveEventCursor(c) = c.last /\ Numbered(Tail(wire), c.last, m)
    <3>1. CASE frame.kind = "event"
      <4>1. l \in Nat /\ ~(l + 1 <= l) /\ ~(l + 1 > l + 1) /\ l + 1 > 0 BY <1>2
      <4>2. c = [client EXCEPT !.lastId = l + 1, !.last = l + 1]
        BY <2>2, <3>1, <4>1 DEF AcceptEnvelope
      <4> HIDE DEF c
      <4>3. c.last = l + 1 /\ c.lastId = l + 1 /\ c.at = "open" /\ c \in Clients
        <5> DEFINE k == l + 1
        <5>1. k \in Nat /\ c = [client EXCEPT !.lastId = k, !.last = k] BY <4>1, <4>2
        <5> HIDE DEF k
        <5>2. c.last = k /\ c.lastId = k /\ c.at = "open" /\ c \in Clients
          BY <1>2, <2>1, <5>1 DEF Clients
        <5> QED BY <5>2 DEF k
      <4>4. Numbered(Tail(wire), l + 1, m) BY <2>2, <3>1
      <4>5. l + 1 <= m BY <2>2, <4>4, NumberedRange
      <4>6. l + 1 <= high BY <1>1, <1>2, <4>1, <4>5
      <4>7. ResolveEventCursor(c) = c.last BY <4>1, <4>3 DEF ResolveEventCursor
      <4> QED BY <4>3, <4>4, <4>6, <4>7
    <3>2. CASE frame.kind # "event"
      <4>1. c = client BY <3>2
      <4> HIDE DEF c
      <4> QED BY <1>2, <2>1, <2>2, <3>2, <4>1 DEF Page
    <3> QED BY <3>1, <3>2
  <2> HIDE DEF c
  <2>4. Page' BY <2>1, <2>3 DEF Page, ResolveEventCursor
  <2>5. Chain' BY <1>1, <2>1, <2>2, <2>3 DEF Chain
  <2>6. Publisher' BY <2>1 DEF Publisher
  <2> QED BY <2>1, <2>3, <2>4, <2>5, <2>6
<1>21. CASE StreamEnds
  <2>1. /\ conn.phase = "closed" /\ client.at = "open"
        /\ client' = [client EXCEPT !.at = "connecting"]
        /\ UNCHANGED <<high, server, deltas, publishedThrough, tail, through, conn, wire>>
    BY <1>21 DEF StreamEnds, publisher
  <2>2. /\ client' \in Clients /\ client'.last = client.last /\ client'.at = "connecting"
        /\ client'.lastId = client.lastId /\ client'.url = client.url
    BY <1>2, <2>1 DEF Clients
  <2>3. Page' BY <1>2, <2>1, <2>2 DEF Page, ResolveEventCursor
  <2>4. Chain' BY <1>1, <1>2, <2>1, <2>2 DEF Chain
  <2>5. Publisher' BY <2>1 DEF Publisher
  <2> QED BY <2>1, <2>3, <2>4, <2>5
<1>22. CASE ConnectionLost
  <2>1. /\ client.at = "open" /\ conn' = Closed("aborted") /\ wire' = <<>>
        /\ client' = [client EXCEPT !.at = "connecting"]
        /\ UNCHANGED <<high, server, deltas, publishedThrough, tail, through>>
    BY <1>22 DEF ConnectionLost, publisher
  <2>2. /\ client' \in Clients /\ client'.last = client.last /\ client'.at = "connecting"
        /\ client'.lastId = client.lastId /\ client'.url = client.url
    BY <1>2, <2>1 DEF Clients
  <2>3. Page' BY <1>2, <2>1, <2>2 DEF Page, ResolveEventCursor
  <2>4. <<>> \in Seq(Frame) OBVIOUS
  <2>5. Chain' /\ conn'.phase = "closed"
    <3>1. high' \in Nat /\ m <= high' BY <1>1, <1>2, <2>1
    <3> QED BY <2>1, <2>2, <2>4, <3>1, <1>1, StreamCloses DEF Connection, Broken
  <2>6. Publisher' BY <2>1 DEF Publisher
  <2> QED BY <2>3, <2>5, <2>6
<1>23. CASE Reload
  <2>1. /\ conn' = Closed("aborted") /\ wire' = <<>>
        /\ client' = [client EXCEPT !.at = "loading"]
        /\ UNCHANGED <<high, server, deltas, publishedThrough, tail, through>>
    BY <1>23 DEF Reload, publisher
  <2>2. client' \in Clients /\ client'.last = client.last /\ client'.at = "loading"
    BY <1>2, <2>1 DEF Clients
  <2>3. Page' BY <1>2, <2>1, <2>2 DEF Page
  <2>4. <<>> \in Seq(Frame) OBVIOUS
  <2>5. Chain' /\ conn'.phase = "closed"
    <3>1. high' \in Nat /\ m <= high' BY <1>1, <1>2, <2>1
    <3> QED BY <2>1, <2>2, <2>4, <3>1, <1>1, StreamCloses DEF Connection, Broken
  <2>6. Publisher' BY <2>1 DEF Publisher
  <2> QED BY <2>3, <2>5, <2>6
<1>24. CASE BeginClose
  <2>1. /\ conn' = Closed("server_closed")
        /\ UNCHANGED <<high, deltas, publishedThrough, tail, through, wire, client>>
    BY <1>24 DEF BeginClose, publisher
  <2>2. Page' BY <2>1 DEF Page, ResolveEventCursor
  <2>3. Chain' /\ conn'.phase = "closed"
    <3>1. wire' \in Seq(Frame) /\ high' \in Nat /\ m <= high' BY <1>1, <1>2, <2>1
    <3> QED BY <1>1, <2>1, <3>1, StreamCloses DEF Connection, Broken
  <2>4. Publisher' BY <2>1 DEF Publisher
  <2> QED BY <2>2, <2>3, <2>4
<1>25. CASE Exit
  <2>1. /\ conn' = Closed("server_closed") /\ tail' = <<>> /\ through' = 0
        /\ \E k \in 0..Len(wire) : wire' = SubSeq(wire, 1, k)
        /\ UNCHANGED <<high, deltas, publishedThrough, client>>
    BY <1>25 DEF Exit
  <2>2. Page' BY <2>1 DEF Page, ResolveEventCursor
  <2>3. PICK k \in 0..Len(wire) : wire' = SubSeq(wire, 1, k) BY <2>1
  <2>4. wire' \in Seq(Frame) BY <1>2, <2>3
  <2>5. Chain' /\ conn'.phase = "closed"
    <3>1. PICK e \in Nat : e <= high /\ (client.at = "open" => Numbered(wire', client.last, e))
      <4>1. CASE client.at = "open"
        <5>1. PICK e \in Nat : e <= m /\ Numbered(wire', client.last, e)
          BY <1>1, <1>2, <2>3, <4>1, NumberedPrefixEnd
        <5>2. e <= high BY <1>1, <1>2, <5>1
        <5> QED BY <5>1, <5>2
      <4>2. CASE client.at # "open" BY <1>1, <4>2
      <4> QED BY <4>1, <4>2
    <3>2. high' \in Nat /\ e <= high' BY <1>2, <2>1, <3>1
    <3> QED BY <2>1, <2>4, <3>1, <3>2, <1>1, StreamCloses DEF Connection, Broken
  <2>6. Publisher'
    <3>1. <<>> \in Seq(Nat) OBVIOUS
    <3> QED BY <1>2, <2>1, <3>1 DEF Publisher
  <2> QED BY <2>2, <2>5, <2>6
<1>26. CASE Initialize
  <2>1. /\ server = "down" /\ publishedThrough' = high
        /\ UNCHANGED <<high, deltas, tail, through, conn, wire, client>>
    BY <1>26 DEF Initialize
  <2>2. conn.phase = "closed" BY <2>1
  <2>3. Connection(conn, m, high, high)
    BY <1>1, <2>2 DEF Connection, Core, Lookahead
  <2>4. Chain' BY <1>1, <2>1, <2>3 DEF Chain
  <2>5. Publisher' BY <1>2, <2>1 DEF Publisher
  <2>6. Page' BY <2>1 DEF Page, ResolveEventCursor
  <2> QED BY <2>1, <2>2, <2>4, <2>5, <2>6
<1> QED
  BY <1>4, <1>5, <1>6, <1>7, <1>8, <1>9, <1>10, <1>11, <1>12, <1>13, <1>14, <1>15, <1>16,
     <1>17, <1>18, <1>19, <1>20, <1>21, <1>22, <1>23, <1>24, <1>25, <1>26
  DEF Next, Publish, Serve, Browse

\* The state of the stream is always one in which every buffer between the room's log and
\* the page goes on where the one before it ends: SequencedEventPublisher, SseConnection,
\* the socket and the page's EventSource together, for any sizes of their buffers.
THEOREM StreamInvariance == Spec => []StreamInvariant
<1>1. Init => StreamInvariant BY StreamStarts
<1>2. StreamInvariant /\ [Next]_vars => StreamInvariant' BY StreamSteps
<1> QED BY <1>1, <1>2, PTL DEF Spec

----------------------------------------------------------------------------
(* What follows                                                              *)

\* What is between the log and an open page is numbered from the page's cursor.
LEMMA PipelineIs ==
    ASSUME StreamInvariant, client.at = "open"
    PROVE  Pipeline \in Seq(Frame) /\ \E e : Numbered(Pipeline, client.last, e)
<1>1. PICK m \in Nat : Connection(conn, m, publishedThrough, high) /\ Numbered(wire, client.last, m)
  BY DEF StreamInvariant, Chain
<1>2. /\ wire \in Seq(Frame) /\ conn.out \in Seq(Frame) /\ conn.look \in Seq(Frame)
      /\ conn.accepted \in Nat /\ conn.read \in Nat
      /\ conn.phase \in {"replaying", "live", "closed"}
      /\ Core(conn, m, publishedThrough, high) /\ Lookahead(conn)
  BY <1>1 DEF StreamInvariant, Chain, Connection, Core, Shape
<1>3. PICK x : Numbered(conn.out, m, x) /\ x \in Nat
               /\ (conn.phase = "replaying" => x = conn.accepted)
  <2>1. CASE conn.phase = "closed"
    <3>1. conn.out = <<>> BY <1>2, <2>1 DEF Core
    <3> QED BY <2>1, <3>1, NumberedEmpty
  <2>2. CASE conn.phase # "closed" BY <1>2, <2>2 DEF Core
  <2> QED BY <2>1, <2>2
<1>4. PICK y : Numbered(conn.look, x, y)
  <2>1. CASE conn.look = <<>> BY <1>3, <2>1, NumberedEmpty
  <2>2. CASE conn.look # <<>>
    <3>1. conn.phase = "replaying" BY <1>2, <2>2 DEF Core
    <3>2. conn.look = <<Event(conn.read)>> /\ conn.read = x + 1
      BY <1>2, <1>3, <2>2, <3>1 DEF Lookahead
    <3>3. conn.look = Append(<<>>, Event(conn.read)) BY <3>2
    <3>4. <<>> \in Seq(Frame) /\ Numbered(<<>>, x, x) BY <1>3, NumberedEmpty
    <3>5. Event(conn.read) \in Frame /\ Event(conn.read).kind = "event"
          /\ Event(conn.read).n = x + 1
      BY <1>2, <3>2, EventIsFrame
    <3>6. Numbered(Append(<<>>, Event(conn.read)), x, x + 1) BY <3>4, <3>5, NumberedAppend
    <3> QED BY <3>3, <3>6
  <2> QED BY <2>1, <2>2
<1>5. wire \o conn.out \in Seq(Frame) /\ Numbered(wire \o conn.out, client.last, x)
  BY <1>1, <1>2, <1>3, NumberedConcat
<1>6. /\ (wire \o conn.out) \o conn.look \in Seq(Frame)
      /\ Numbered((wire \o conn.out) \o conn.look, client.last, y)
  BY <1>2, <1>4, <1>5, NumberedConcat
<1> QED BY <1>6 DEF Pipeline

\* EachEventOnce, for any number of events and any buffers: an open page reads the durable
\* events from its cursor on, one after the other (I-006, I-008), however few numbers
\* DURABLE_DEDUP_WINDOW remembers.
THEOREM EveryEventOnce == Spec => []EachEventOnce
<1>1. StreamInvariant => EachEventOnce
  <2> SUFFICES ASSUME StreamInvariant, client.at = "open"
               PROVE  LET durable == Kept(Pipeline, Events(Pipeline))
                      IN  \A i \in DOMAIN durable : durable[i].n = client.last + i
    BY DEF EachEventOnce
  <2>1. Pipeline \in Seq(Frame) BY PipelineIs
  <2>2. PICK e : Numbered(Pipeline, client.last, e) BY PipelineIs
  <2> QED BY <2>1, <2>2, NumberedOneByOne
<1> QED BY <1>1, StreamInvariance, PTL

\* NoGapNoRepeat: nor is a connection ever cut because SseConnection was about to send an
\* event twice or too late, as long as the publisher is no further behind than what
\* DURABLE_DEDUP_WINDOW remembers.
THEOREM NoGapAndNoRepeat ==
    ASSUME MaxSeq <= DedupWindow
    PROVE  Spec => []NoGapNoRepeat
<1>1. StreamInvariant => conn.cause \notin {"sequence_error", "replay_error"}
  BY DEF StreamInvariant, Chain, Connection, Core, Remembered, Broken
<1>2. StreamInvariant /\ EachEventOnce => NoGapNoRepeat BY <1>1 DEF NoGapNoRepeat
<1> QED BY <1>2, StreamInvariance, EveryEventOnce, PTL

\* A step of the stream is one of the feed or leaves the log and what the page has alone.
LEMMA StreamFeeds == StreamInvariant /\ [Next]_vars => [Feed!Next]_<<high, client.last>>
<1> SUFFICES ASSUME StreamInvariant, [Next]_vars
             PROVE  Feed!Next \/ UNCHANGED <<high, client.last>>
  OBVIOUS
<1>1. CASE Commit
  <2>1. high' = high + 1 /\ client' = client BY <1>1 DEF Commit
  <2> QED BY <2>1 DEF Feed!Next, Feed!Append
<1>2. CASE Bootstrap
  <2>1. client'.last = high /\ high' = high BY <1>2 DEF Bootstrap
  <2> QED BY <2>1 DEF Feed!Next, Feed!Snapshot
<1>3. CASE ClientReceives
  <2> DEFINE frame == Head(wire)
             c == IF frame.kind = "event" THEN AcceptEnvelope(client, frame.n) ELSE client
  <2>1. client.at = "open" /\ wire # <<>> /\ client' = c /\ high' = high
    BY <1>3 DEF ClientReceives
  <2>2. PICK m \in Nat : m <= high /\ Numbered(wire, client.last, m)
    BY <2>1 DEF StreamInvariant, Chain
  <2>3. wire \in Seq(Frame) /\ high \in Nat /\ client \in Clients /\ client.last \in Nat
    BY DEF StreamInvariant, Chain, Publisher, Page, Clients
  <2> DEFINE l == client.last
  <2>4. /\ Tail(wire) \in Seq(Frame)
        /\ frame.kind = "event" => frame.n = l + 1 /\ Numbered(Tail(wire), l + 1, m)
    BY <2>1, <2>2, <2>3, NumberedTail
  <2> HIDE DEF frame
  <2>5. CASE frame.kind = "event"
    <3>1. ~(l + 1 <= l) /\ ~(l + 1 > l + 1) BY <2>3
    <3>2. c = [client EXCEPT !.lastId = l + 1, !.last = l + 1]
      BY <2>4, <2>5, <3>1 DEF AcceptEnvelope
    <3>3. client'.last = l + 1
      <4> DEFINE k == l + 1
      <4>1. client' = [client EXCEPT !.lastId = k, !.last = k] BY <2>1, <3>2
      <4> HIDE DEF k
      <4>2. client'.last = k BY <2>3, <4>1 DEF Clients
      <4> QED BY <4>2 DEF k
    <3>4. l + 1 <= m BY <2>4, <2>5, NumberedRange
    <3>5. l < high BY <2>2, <2>3, <3>4
    <3> QED BY <2>1, <3>3, <3>5 DEF Feed!Next, Feed!Deliver
  <2>6. CASE frame.kind # "event" BY <2>1, <2>6
  <2> QED BY <2>5, <2>6
<1>4. CASE OpenSse \/ ConnectRefused \/ StreamEnds \/ ConnectionLost \/ Reload
  <2>1. high' = high /\ \E at : client' = [client EXCEPT !.at = at]
    BY <1>4 DEF OpenSse, ConnectRefused, StreamEnds, ConnectionLost, Reload
  <2>2. client \in Clients BY DEF StreamInvariant, Page
  <2>3. client'.last = client.last BY <2>1, <2>2 DEF Clients
  <2> QED BY <2>1, <2>3
<1>5. CASE UNCHANGED vars BY <1>5 DEF vars
<1>6. CASE PublishTransient \/ OfferHeartbeat \/ Publish
  BY <1>6 DEF PublishTransient, OfferHeartbeat, Publish, PublishStored, DrainDurable,
              PublishNext, PublishEnds
<1>7. CASE Serve
  BY <1>7 DEF Serve, PinHighWater, ReplayNext, ReplayEnds, PumpWrites, WriteResolves
<1>8. CASE BeginClose \/ Exit \/ Initialize
  BY <1>8 DEF BeginClose, Exit, Initialize
<1> QED
  BY <1>1, <1>2, <1>3, <1>4, <1>5, <1>6, <1>7, <1>8 DEF Next, Browse

\* ImplementsOrderedFeed, for any number of events, any buffers and any faults: the page is
\* given the next event of its room, or a snapshot of all of them, and nothing else.
THEOREM StreamIsAnOrderedFeed == Spec => ImplementsOrderedFeed
<1>1. Init => Feed!Init BY DEF Init, Feed!Init
<1>2. StreamInvariant /\ [Next]_vars => [Feed!Next]_<<high, client.last>> BY StreamFeeds
<1> QED BY <1>1, <1>2, StreamInvariance, PTL DEF Spec, ImplementsOrderedFeed, Feed!Spec

----------------------------------------------------------------------------
(* Supervision                                                              *)

\* A receipt names a Turn that was accepted.
ReceiptsExist ==
    \A k \in Command : receipt[k] # NoTurn => status[receipt[k]] # "absent"

SupervisionInvariant ==
    /\ SupervisionTypeOK /\ NoMissedEnd /\ TerminalWaitIsTrue /\ WatchMissesNothing
    /\ OneTurnPerSteer /\ GuidanceReachesPair /\ ReceiptsExist

\* The position of a new Turn in its lane is a number.
LEMMA NewOrder == 1 + Cardinality({u \in Turn : status[u] # "absent"}) \in Nat
<1>1. IsFiniteSet({u \in Turn : status[u] # "absent"})
  BY SupervisionAssumption, FS_Subset
<1> QED BY <1>1, FS_CardinalityType

\* What SettleWaits and SettleWatches make of a call is one.
LEMMA SettledWait ==
    ASSUME NEW x \in WaitState, NEW r \in {"terminal", "timeout", "aborted"}
    PROVE  [x EXCEPT !.pc = "settled", !.result = r] \in WaitState
BY DEF WaitState

LEMMA SettledWatch ==
    ASSUME NEW x \in WatchState, NEW r \in {"milestone", "timeout", "aborted"}
    PROVE  [x EXCEPT !.pc = "settled", !.result = r] \in WatchState
BY DEF WatchState

LEMMA InitType == SupervisionInit => SupervisionTypeOK
<1> SUFFICES ASSUME SupervisionInit PROVE SupervisionTypeOK OBVIOUS
<1>1. (CHOOSE k \in Command : TRUE) \in Command BY SupervisionAssumption
<1>2. IdleSteer \in SteerState BY <1>1 DEF IdleSteer, SteerState
<1>3. IdleWait \in WaitState BY DEF IdleWait, WaitState
<1>4. IdleWatch \in WatchState BY DEF IdleWatch, WatchState
<1>5. IdleSteer.pc # "attaching" BY DEF IdleSteer
<1>6. status \in [Turn -> TurnStatus] BY DEF SupervisionInit, TurnStatus
<1>7. steerCount \in [Turn -> 0..SteerLimit] BY SupervisionAssumption DEF SupervisionInit
<1> QED
  BY <1>2, <1>3, <1>4, <1>5, <1>6, <1>7, SupervisionAssumption DEF SupervisionInit, SupervisionTypeOK

\* Type correctness of the lane, one step per group of actions.
LEMMA TypeStep == SupervisionTypeOK /\ [SupervisionNext]_supervisionVars => SupervisionTypeOK'
<1> SUFFICES ASSUME SupervisionTypeOK, [SupervisionNext]_supervisionVars PROVE SupervisionTypeOK' OBVIOUS
<1> USE DEF SupervisionTypeOK, WaitState, WatchState, SteerState, lane, pair, waiting, watching
<1>s. TerminalStatus \subseteq TurnStatus /\ ActiveStatus \subseteq TurnStatus
      /\ "queued" \in TurnStatus
  BY DEF TurnStatus
<1>i. IdleSteer \in SteerState /\ IdleSteer.pc # "attaching"
  <2>1. (CHOOSE k \in Command : TRUE) \in Command BY SupervisionAssumption
  <2> QED BY <2>1 DEF IdleSteer
<1>w. ASSUME NEW S \in SUBSET Waiter, NEW r \in {"terminal", "timeout", "aborted"},
             SettleWaits(S, r)
      PROVE  /\ turnWaiters' \subseteq Turn \X Waiter
             /\ waits' \in [Waiter -> WaitState]
  <2>1. ASSUME NEW v \in Waiter
        PROVE  [waits[v] EXCEPT !.pc = "settled", !.result = r] \in WaitState
    BY SettledWait
  <2>2. turnWaiters' \subseteq Turn \X Waiter BY <1>w DEF SettleWaits, ForgetWaits
  <2>3. waits' \in [Waiter -> WaitState] BY <1>w, <2>1 DEF SettleWaits
  <2> QED BY <2>2, <2>3
<1>m. ASSUME NEW S \in SUBSET Watcher, NEW r \in {"milestone", "timeout", "aborted"},
             SettleWatches(S, r)
      PROVE  /\ milestoneWaiters' \subseteq Turn \X Watcher
             /\ watches' \in [Watcher -> WatchState]
  <2>1. ASSUME NEW v \in Watcher
        PROVE  [watches[v] EXCEPT !.pc = "settled", !.result = r] \in WatchState
    BY SettledWatch
  <2>2. milestoneWaiters' \subseteq Turn \X Watcher BY <1>m DEF SettleWatches
  <2>3. watches' \in [Watcher -> WatchState] BY <1>m, <2>1 DEF SettleWatches
  <2> QED BY <2>2, <2>3
<1>e. ASSUME NEW t \in Turn, EmitMilestone(t)
      PROVE  /\ cursor' \in [Turn -> Nat]
             /\ milestoneWaiters' \subseteq Turn \X Watcher
             /\ watches' \in [Watcher -> WatchState]
  <2>1. cursor' \in [Turn -> Nat] BY <1>e DEF EmitMilestone
  <2> QED BY <1>e, <1>m, <2>1 DEF EmitMilestone
<1>n. ASSUME NEW t \in Turn, NotifyTurnTerminal(t)
      PROVE  /\ cursor' \in [Turn -> Nat]
             /\ milestoneWaiters' \subseteq Turn \X Watcher
             /\ watches' \in [Watcher -> WatchState]
             /\ turnWaiters' \subseteq Turn \X Waiter
             /\ waits' \in [Waiter -> WaitState]
  <2>1. WokenBy(t) \in SUBSET Waiter BY DEF WokenBy
  <2> QED BY <1>n, <1>e, <1>w, <2>1 DEF NotifyTurnTerminal
<1>r. ASSUME NEW t \in Turn, RequestCancel(t)
      PROVE  /\ status' \in [Turn -> TurnStatus]
             /\ cursor' \in [Turn -> Nat]
             /\ milestoneWaiters' \subseteq Turn \X Watcher
             /\ watches' \in [Watcher -> WatchState]
             /\ turnWaiters' \subseteq Turn \X Waiter
             /\ waits' \in [Waiter -> WaitState]
  <2>1. CASE status[t] = "queued"
    <3>1. status' \in [Turn -> TurnStatus]
      BY <1>r, <1>s, <2>1 DEF RequestCancel, TerminalStatus
    <3> QED BY <1>r, <1>n, <2>1, <3>1 DEF RequestCancel
  <2>2. CASE status[t] # "queued"
    BY <1>r, <1>s, <2>2 DEF RequestCancel, ActiveStatus
  <2> QED BY <2>1, <2>2
<1>a. ASSUME NEW f \in Flight, NEW k \in Command, NEW u \in Turn, AcceptGuidance(f, k, u)
      PROVE  /\ status' \in [Turn -> TurnStatus]
             /\ order' \in [Turn -> Nat]
             /\ receipt' \in [Command -> Turn \cup {NoTurn}]
             /\ steers' \in [Flight -> SteerState]
             /\ \A g \in Flight : steers'[g].pc = "attaching" => steers'[g].next \in Turn
  <2>1. /\ status' \in [Turn -> TurnStatus] /\ order' \in [Turn -> Nat]
        /\ receipt' \in [Command -> Turn \cup {NoTurn}]
    BY <1>a, <1>s, NewOrder DEF AcceptGuidance
  <2>2. [pc |-> "attaching", command |-> k, next |-> u] \in SteerState OBVIOUS
  <2>3. steers' \in [Flight -> SteerState] BY <1>a, <2>2 DEF AcceptGuidance
  <2>4. \A g \in Flight : steers'[g].pc = "attaching" => steers'[g].next \in Turn
    BY <1>a, <2>2 DEF AcceptGuidance
  <2> QED BY <2>1, <2>3, <2>4
<1>p. ASSUME NEW t \in Turn, SpendSteer(t)
      PROVE  steerCount' \in [Turn -> 0..SteerLimit]
  BY <1>p, SupervisionAssumption DEF SpendSteer
<1>1. ASSUME NEW t \in Turn, Claim(t) \/ Start(t) \/ FailQueued(t) PROVE SupervisionTypeOK'
  BY <1>1, <1>s DEF Claim, Start, FailQueued, ActiveStatus, TerminalStatus
<1>2. ASSUME NEW t \in Turn, Milestone(t) PROVE SupervisionTypeOK'
  BY <1>2, <1>e DEF Milestone
<1>3. ASSUME NEW t \in Turn, NEW o \in TerminalStatus, Finish(t, o) PROVE SupervisionTypeOK'
  <2>1. status' \in [Turn -> TurnStatus] BY <1>3, <1>s DEF Finish
  <2> QED BY <1>3, <1>n, <2>1 DEF Finish
<1>4. ASSUME NEW t \in Turn, FailurePublished(t) PROVE SupervisionTypeOK'
  BY <1>4, <1>n DEF FailurePublished
<1>5. ASSUME NEW t \in Turn, CancelTurn(t) PROVE SupervisionTypeOK'
  BY <1>5, <1>r DEF CancelTurn
<1>6. CASE Close
  BY <1>6, <1>w, <1>m DEF Close
<1>7. ASSUME NEW w \in Waiter, NEW S \in SUBSET Turn, WaitForCorrelation(w, S) PROVE SupervisionTypeOK'
  <2>1. CASE \A t \in S : Terminal(t)
    <3>1. [pc |-> "settled", turns |-> S, result |-> "terminal"] \in WaitState OBVIOUS
    <3>2. waits' \in [Waiter -> WaitState] BY <1>7, <2>1, <3>1 DEF WaitForCorrelation
    <3> QED BY <1>7, <2>1, <3>2 DEF WaitForCorrelation
  <2>2. CASE ~ \A t \in S : Terminal(t)
    <3>1. [pc |-> "waiting", turns |-> S, result |-> "none"] \in WaitState OBVIOUS
    <3>2. turnWaiters' \subseteq Turn \X Waiter BY <1>7, <2>2 DEF WaitForCorrelation
    <3> QED BY <1>7, <2>2, <3>1, <3>2 DEF WaitForCorrelation
  <2> QED BY <2>1, <2>2
<1>8. ASSUME NEW w \in Waiter, NEW r \in {"timeout", "aborted"}, WaitEnds(w, r) PROVE SupervisionTypeOK'
  BY <1>8, <1>w DEF WaitEnds
<1>9. ASSUME NEW w \in Waiter, WaitReturns(w) PROVE SupervisionTypeOK'
  BY <1>9 DEF WaitReturns, IdleWait
<1>10. ASSUME NEW w \in Watcher, NEW t \in Turn, WatchSubject(w, t) PROVE SupervisionTypeOK'
  BY <1>10 DEF WatchSubject, Terminal
<1>11. ASSUME NEW w \in Watcher, NEW r \in {"timeout", "aborted"}, WatchEnds(w, r) PROVE SupervisionTypeOK'
  BY <1>11, <1>m DEF WatchEnds
<1>12. ASSUME NEW w \in Watcher, WatchReturns(w) PROVE SupervisionTypeOK'
  BY <1>12 DEF WatchReturns, IdleWatch
<1>13. ASSUME NEW t \in Turn, NudgeRejected(t) PROVE SupervisionTypeOK'
  BY <1>13, <1>p DEF NudgeRejected
<1>14. ASSUME NEW f \in Flight, NEW k \in Command, NEW t \in Turn, Nudge(f, k, t) PROVE SupervisionTypeOK'
  <2>1. PICK u \in Turn : AcceptGuidance(f, k, u) BY <1>14 DEF Nudge
  <2> QED BY <1>14, <1>p, <1>a, <2>1 DEF Nudge
<1>15. ASSUME NEW f \in Flight, NEW k \in Command, NEW t \in Turn, Interrupt(f, k, t)
       PROVE SupervisionTypeOK'
  <2>1. [pc |-> "cancelling", command |-> k, next |-> NoTurn] \in SteerState OBVIOUS
  <2>2. steers' \in [Flight -> SteerState]
        /\ \A g \in Flight : steers'[g].pc = "attaching" => steers'[g].next \in Turn
    BY <1>15, <2>1 DEF Interrupt
  <2> QED BY <1>15, <1>p, <1>r, <2>2 DEF Interrupt
<1>16. ASSUME NEW f \in Flight, InterruptAccepted(f) PROVE SupervisionTypeOK'
  <2>1. steers[f].command \in Command OBVIOUS
  <2>2. PICK u \in Turn : AcceptGuidance(f, steers[f].command, u)
    BY <1>16 DEF InterruptAccepted
  <2> QED BY <1>16, <1>a, <2>1, <2>2 DEF InterruptAccepted
<1>17. ASSUME NEW f \in Flight, InterruptRejected(f) PROVE SupervisionTypeOK'
  <2>1. steers' \in [Flight -> SteerState]
        /\ \A g \in Flight : steers'[g].pc = "attaching" => steers'[g].next \in Turn
    BY <1>17, <1>i DEF InterruptRejected
  <2> QED BY <1>17, <2>1 DEF InterruptRejected
<1>18. ASSUME NEW f \in Flight, SteerReturns(f) PROVE SupervisionTypeOK'
  <2>1. steers' \in [Flight -> SteerState]
        /\ \A g \in Flight : steers'[g].pc = "attaching" => steers'[g].next \in Turn
    BY <1>18, <1>i DEF SteerReturns
  <2>2. members' \subseteq Turn BY <1>18 DEF SteerReturns, Attach
  <2> QED BY <1>18, <2>1, <2>2 DEF SteerReturns
<1>19. CASE UNCHANGED supervisionVars
  BY <1>19 DEF supervisionVars
<1> QED
  BY <1>1, <1>2, <1>3, <1>4, <1>5, <1>6, <1>7, <1>8, <1>9, <1>10, <1>11, <1>12, <1>13, <1>14,
     <1>15, <1>16, <1>17, <1>18, <1>19
  DEF SupervisionNext, Lane, Wait, Watch, Steer

----------------------------------------------------------------------------
(* The lane: what is over stays over, and a Turn stays accepted *)

LEMMA StatusStep ==
    SupervisionTypeOK /\ [SupervisionNext]_supervisionVars =>
      \A t \in Turn : /\ Terminal(t) => Terminal(t)'
                      /\ status[t] # "absent" => status'[t] # "absent"
<1> SUFFICES ASSUME SupervisionTypeOK, [SupervisionNext]_supervisionVars
             PROVE  \A t \in Turn : /\ Terminal(t) => Terminal(t)'
                                    /\ status[t] # "absent" => status'[t] # "absent"
  OBVIOUS
<1> USE DEF SupervisionTypeOK, Terminal, TerminalStatus, ActiveStatus, lane, pair, waiting, watching
<1>r. ASSUME NEW t \in Turn, RequestCancel(t)
      PROVE  \A u \in Turn : /\ Terminal(u) => Terminal(u)'
                             /\ status[u] # "absent" => status'[u] # "absent"
  BY <1>r DEF RequestCancel
<1>a. ASSUME NEW f \in Flight, NEW k \in Command, NEW t \in Turn, AcceptGuidance(f, k, t)
      PROVE  \A u \in Turn : /\ Terminal(u) => Terminal(u)'
                             /\ status[u] # "absent" => status'[u] # "absent"
  BY <1>a DEF AcceptGuidance
<1>1. CASE Lane
  BY <1>1, <1>r DEF Lane, Claim, Start, Milestone, Finish, FailQueued, FailurePublished, CancelTurn
<1>2. CASE Close \/ Wait \/ Watch \/ UNCHANGED supervisionVars
  BY <1>2 DEF Close, Wait, Watch, WaitForCorrelation, WaitEnds, WaitReturns, WatchSubject,
              WatchEnds, WatchReturns, supervisionVars
<1>3. CASE Steer
  <2>1. ASSUME NEW f \in Flight, NEW k \in Command, NEW t \in Turn,
               Nudge(f, k, t) \/ Interrupt(f, k, t)
        PROVE  \A u \in Turn : /\ Terminal(u) => Terminal(u)'
                               /\ status[u] # "absent" => status'[u] # "absent"
    BY <2>1, <1>a, <1>r DEF Nudge, Interrupt
  <2>2. ASSUME NEW f \in Flight, InterruptAccepted(f)
        PROVE  \A u \in Turn : /\ Terminal(u) => Terminal(u)'
                               /\ status[u] # "absent" => status'[u] # "absent"
    <3>1. steers[f].command \in Command BY DEF SteerState
    <3> QED BY <2>2, <3>1, <1>a DEF InterruptAccepted
  <2>3. ASSUME NEW f \in Flight, InterruptRejected(f) \/ SteerReturns(f)
        PROVE  UNCHANGED status
    BY <2>3 DEF InterruptRejected, SteerReturns
  <2>4. ASSUME NEW t \in Turn, NudgeRejected(t) PROVE UNCHANGED status
    BY <2>4 DEF NudgeRejected
  <2> QED BY <1>3, <2>1, <2>2, <2>3, <2>4 DEF Steer
<1> QED BY <1>1, <1>2, <1>3 DEF SupervisionNext

----------------------------------------------------------------------------
(* Waits *)

\* A step that ends no Turn, or queues its event, leaves a wait something to
\* wait for.
LEMMA WaitsUntouched ==
    ASSUME NoMissedEnd, UNCHANGED waiting, unnotified \subseteq unnotified',
           \A w \in Waiter : waits[w].turns \subseteq Turn,
           \A t \in Turn : /\ Terminal(t) => Terminal(t)'
                           /\ Terminal(t)' => Terminal(t) \/ t \in unnotified'
    PROVE  NoMissedEnd'
BY DEF NoMissedEnd, waiting

\* The end of a Turn wakes the waits that have nothing else to wait for.
LEMMA WaitsNotified ==
    ASSUME SupervisionTypeOK, NoMissedEnd, NEW t \in Turn, NotifyTurnTerminal(t),
           unnotified \ {t} \subseteq unnotified', Terminal(t)',
           \A u \in Turn \ {t} : status'[u] = status[u]
    PROVE  NoMissedEnd'
<1> SUFFICES ASSUME NEW w \in Waiter, waits'[w].pc = "waiting"
             PROVE  /\ \A u \in waits'[w].turns : ~Terminal(u)' => <<u, w>> \in turnWaiters'
                    /\ \E u \in waits'[w].turns :
                         <<u, w>> \in turnWaiters' /\ (~Terminal(u)' \/ u \in unnotified')
  BY DEF NoMissedEnd
<1>1. w \notin WokenBy(t) /\ waits'[w] = waits[w]
  BY DEF NotifyTurnTerminal, SettleWaits, SupervisionTypeOK, WaitState
<1>2. \A u \in Turn : <<u, w>> \in turnWaiters' <=> <<u, w>> \in turnWaiters
  BY <1>1 DEF NotifyTurnTerminal, SettleWaits, ForgetWaits
<1>3. waits[w].turns \subseteq Turn
  BY DEF SupervisionTypeOK, WaitState
<1>4. \A u \in waits[w].turns : ~Terminal(u)' => <<u, w>> \in turnWaiters'
  BY <1>1, <1>2, <1>3 DEF NoMissedEnd, Terminal
<1>5. PICK u \in waits[w].turns :
        <<u, w>> \in turnWaiters /\ (~Terminal(u) \/ u \in unnotified)
  BY <1>1 DEF NoMissedEnd
<1>6. CASE u = t
  <2>1. PICK v \in waits[w].turns : ~Terminal(v)'
    BY <1>1, <1>5, <1>6 DEF WokenBy, Terminal
  <2> QED BY <1>1, <1>4, <2>1
<1>7. CASE u # t
  BY <1>1, <1>2, <1>3, <1>4, <1>5, <1>7 DEF Terminal
<1> QED BY <1>6, <1>7

LEMMA WaitStep == SupervisionTypeOK /\ NoMissedEnd /\ [SupervisionNext]_supervisionVars => NoMissedEnd'
<1> SUFFICES ASSUME SupervisionTypeOK, NoMissedEnd, [SupervisionNext]_supervisionVars PROVE NoMissedEnd' OBVIOUS
<1>s. \A t \in Turn : Terminal(t) => Terminal(t)' BY StatusStep
<1> USE DEF lane, pair, waiting, watching
<1>t. \A w \in Waiter : waits[w].turns \subseteq Turn BY DEF SupervisionTypeOK, WaitState
<1>u. ASSUME UNCHANGED waiting, unnotified \subseteq unnotified',
             \A t \in Turn : Terminal(t)' => Terminal(t) \/ t \in unnotified'
      PROVE  NoMissedEnd'
  BY <1>t, <1>s, <1>u, WaitsUntouched
<1>d. ASSUME NEW S \in SUBSET Waiter, NEW r, SettleWaits(S, r), UNCHANGED <<status, unnotified>>
      PROVE  NoMissedEnd'
  BY <1>d, <1>t
  DEF SettleWaits, ForgetWaits, NoMissedEnd, Terminal, SupervisionTypeOK, WaitState
<1>r. ASSUME NEW t \in Turn, RequestCancel(t), UNCHANGED unnotified PROVE NoMissedEnd'
  <2>1. CASE status[t] = "queued"
    <3>1. status' = [status EXCEPT ![t] = "cancelled"] /\ NotifyTurnTerminal(t)
      BY <1>r, <2>1 DEF RequestCancel
    <3>2. Terminal(t)' /\ \A u \in Turn \ {t} : status'[u] = status[u]
      BY <3>1 DEF SupervisionTypeOK, Terminal, TerminalStatus
    <3> QED BY <1>r, <3>1, <3>2, WaitsNotified
  <2>2. CASE status[t] # "queued"
    <3>1. UNCHANGED waiting BY <1>r, <2>2 DEF RequestCancel
    <3>2. \A u \in Turn : Terminal(u)' => Terminal(u)
      BY <1>r, <2>2 DEF RequestCancel, Terminal, TerminalStatus, SupervisionTypeOK
    <3> QED BY <1>r, <1>u, <3>1, <3>2
  <2> QED BY <2>1, <2>2
<1>a. ASSUME NEW f \in Flight, NEW k \in Command, NEW u \in Turn, AcceptGuidance(f, k, u),
             UNCHANGED <<unnotified, waiting>>
      PROVE  NoMissedEnd'
  <2>1. \A t \in Turn : Terminal(t)' => Terminal(t)
    BY <1>a DEF AcceptGuidance, Terminal, TerminalStatus, SupervisionTypeOK
  <2> QED BY <1>a, <1>u, <2>1
<1>1. ASSUME NEW t \in Turn, Claim(t) \/ Start(t) \/ FailQueued(t) PROVE NoMissedEnd'
  <2>1. UNCHANGED waiting /\ unnotified \subseteq unnotified'
    BY <1>1 DEF Claim, Start, FailQueued
  <2>2. \A u \in Turn : Terminal(u)' => Terminal(u) \/ u \in unnotified'
    BY <1>1 DEF Claim, Start, FailQueued, Terminal, TerminalStatus, SupervisionTypeOK
  <2> QED BY <1>u, <2>1, <2>2
<1>2. ASSUME NEW t \in Turn, Milestone(t) PROVE NoMissedEnd'
  BY <1>2, <1>u DEF Milestone, Terminal
<1>3. ASSUME NEW t \in Turn, NEW o \in TerminalStatus, Finish(t, o) PROVE NoMissedEnd'
  <2>1. Terminal(t)' /\ \A u \in Turn \ {t} : status'[u] = status[u]
    BY <1>3 DEF Finish, SupervisionTypeOK, Terminal
  <2> QED BY <1>3, <2>1, WaitsNotified DEF Finish
<1>4. ASSUME NEW t \in Turn, FailurePublished(t) PROVE NoMissedEnd'
  <2>1. UNCHANGED status /\ NotifyTurnTerminal(t) /\ unnotified \ {t} \subseteq unnotified'
    BY <1>4 DEF FailurePublished
  <2>2. CASE Terminal(t)
    BY <2>1, <2>2, WaitsNotified DEF Terminal
  <2>3. CASE ~Terminal(t)
    <3>1. WokenBy(t) = {w \in Waiter : /\ <<t, w>> \in turnWaiters
                                       /\ \A u \in waits[w].turns : Terminal(u)}
      BY <2>1 DEF WokenBy, Terminal
    <3> QED
      BY <1>t, <2>1, <2>3, <3>1
      DEF NotifyTurnTerminal, SettleWaits, ForgetWaits, NoMissedEnd, Terminal, SupervisionTypeOK, WaitState
  <2> QED BY <2>2, <2>3
<1>5. ASSUME NEW t \in Turn, CancelTurn(t) PROVE NoMissedEnd'
  BY <1>5, <1>r DEF CancelTurn
<1>6. CASE Close
  BY <1>6, <1>d DEF Close
<1>7. ASSUME NEW w \in Waiter, NEW S \in SUBSET Turn, WaitForCorrelation(w, S)
      PROVE  NoMissedEnd'
  <2>1. UNCHANGED <<status, unnotified>> /\ turnWaiters \subseteq turnWaiters'
        /\ \A v \in Waiter \ {w} : waits'[v] = waits[v]
    BY <1>7 DEF WaitForCorrelation, SupervisionTypeOK
  <2>2. CASE \A t \in S : Terminal(t)
    <3>1. waits'[w].pc # "waiting" BY <1>7, <2>2 DEF WaitForCorrelation, SupervisionTypeOK
    <3> QED BY <2>1, <3>1 DEF NoMissedEnd, Terminal
  <2>3. CASE ~ \A t \in S : Terminal(t)
    <3>1. waits'[w].turns = S BY <1>7, <2>3 DEF WaitForCorrelation, SupervisionTypeOK
    <3>2. \A t \in S : ~Terminal(t)' => <<t, w>> \in turnWaiters'
      BY <1>7, <2>1, <2>3 DEF WaitForCorrelation, Terminal
    <3>3. PICK t \in S : ~Terminal(t)' BY <2>1, <2>3 DEF Terminal
    <3> QED BY <2>1, <3>1, <3>2, <3>3 DEF NoMissedEnd, Terminal
  <2> QED BY <2>2, <2>3
<1>8. ASSUME NEW w \in Waiter, NEW r \in {"timeout", "aborted"}, WaitEnds(w, r)
      PROVE  NoMissedEnd'
  BY <1>8, <1>d DEF WaitEnds
<1>9. ASSUME NEW w \in Waiter, WaitReturns(w) PROVE NoMissedEnd'
  BY <1>9 DEF WaitReturns, IdleWait, NoMissedEnd, Terminal, SupervisionTypeOK
<1>10. CASE Watch
  BY <1>10, <1>u DEF Watch, WatchSubject, WatchEnds, WatchReturns, Terminal
<1>11. ASSUME NEW f \in Flight, NEW k \in Command, NEW t \in Turn, Nudge(f, k, t)
       PROVE  NoMissedEnd'
  BY <1>11, <1>a DEF Nudge
<1>12. ASSUME NEW f \in Flight, NEW k \in Command, NEW t \in Turn, Interrupt(f, k, t)
       PROVE  NoMissedEnd'
  BY <1>12, <1>r DEF Interrupt
<1>13. ASSUME NEW f \in Flight, InterruptAccepted(f) PROVE NoMissedEnd'
  <2>1. steers[f].command \in Command BY DEF SupervisionTypeOK, SteerState
  <2> QED BY <1>13, <1>a, <2>1 DEF InterruptAccepted
<1>14. ASSUME NEW f \in Flight, InterruptRejected(f) \/ SteerReturns(f) PROVE NoMissedEnd'
  BY <1>14, <1>u DEF InterruptRejected, SteerReturns, Terminal
<1>15. ASSUME NEW t \in Turn, NudgeRejected(t) PROVE NoMissedEnd'
  BY <1>15, <1>u DEF NudgeRejected, Terminal
<1>16. CASE UNCHANGED supervisionVars
  BY <1>16, <1>u DEF supervisionVars, Terminal
<1> QED
  BY <1>1, <1>2, <1>3, <1>4, <1>5, <1>6, <1>7, <1>8, <1>9, <1>10, <1>11, <1>12, <1>13, <1>14,
     <1>15, <1>16
  DEF SupervisionNext, Lane, Wait, Steer

\* The result "terminal" is only given when all Turns are over, and they stay so.
LEMMA TerminalWaitStep == SupervisionTypeOK /\ TerminalWaitIsTrue /\ [SupervisionNext]_supervisionVars => TerminalWaitIsTrue'
<1> SUFFICES ASSUME SupervisionTypeOK, TerminalWaitIsTrue, [SupervisionNext]_supervisionVars PROVE TerminalWaitIsTrue' OBVIOUS
<1>s. \A t \in Turn : Terminal(t) => Terminal(t)' BY StatusStep
<1>t. \A w \in Waiter : waits[w].turns \subseteq Turn BY DEF SupervisionTypeOK, WaitState
<1> USE DEF lane, pair, waiting, watching
<1>u. ASSUME UNCHANGED waits PROVE TerminalWaitIsTrue'
  BY <1>s, <1>t, <1>u DEF TerminalWaitIsTrue
<1>d. ASSUME NEW S \in SUBSET Waiter, NEW r, SettleWaits(S, r), r # "terminal"
      PROVE  TerminalWaitIsTrue'
  BY <1>d, <1>s, <1>t DEF SettleWaits, TerminalWaitIsTrue, SupervisionTypeOK, WaitState
<1>n. ASSUME NEW t \in Turn, NotifyTurnTerminal(t) PROVE TerminalWaitIsTrue'
  <2>1. \A w \in WokenBy(t) : \A u \in waits[w].turns : Terminal(u)'
    BY DEF WokenBy, Terminal
  <2>2. \A w \in Waiter : /\ waits'[w].turns = waits[w].turns
                          /\ w \notin WokenBy(t) => waits'[w] = waits[w]
    BY <1>n DEF NotifyTurnTerminal, SettleWaits, SupervisionTypeOK, WaitState
  <2> QED BY <1>s, <1>t, <2>1, <2>2 DEF TerminalWaitIsTrue
<1>r. ASSUME NEW t \in Turn, RequestCancel(t) PROVE TerminalWaitIsTrue'
  BY <1>r, <1>n, <1>u DEF RequestCancel
<1>1. CASE Lane
  BY <1>1, <1>n, <1>r, <1>u
  DEF Lane, Claim, Start, Milestone, Finish, FailQueued, FailurePublished, CancelTurn
<1>2. CASE Close
  BY <1>2, <1>d DEF Close
<1>3. ASSUME NEW w \in Waiter, NEW S \in SUBSET Turn, WaitForCorrelation(w, S)
      PROVE  TerminalWaitIsTrue'
  <2>1. UNCHANGED status /\ \A v \in Waiter \ {w} : waits'[v] = waits[v]
    BY <1>3 DEF WaitForCorrelation, SupervisionTypeOK
  <2>2. waits'[w].result = "terminal" => \A t \in waits'[w].turns : Terminal(t)
    BY <1>3 DEF WaitForCorrelation, SupervisionTypeOK
  <2> QED BY <2>1, <2>2 DEF TerminalWaitIsTrue, Terminal
<1>4. ASSUME NEW w \in Waiter, NEW r \in {"timeout", "aborted"}, WaitEnds(w, r)
      PROVE  TerminalWaitIsTrue'
  BY <1>4, <1>d DEF WaitEnds
<1>5. ASSUME NEW w \in Waiter, WaitReturns(w) PROVE TerminalWaitIsTrue'
  BY <1>5, <1>s, <1>t DEF WaitReturns, IdleWait, TerminalWaitIsTrue, SupervisionTypeOK
<1>6. CASE Watch
  BY <1>6, <1>u DEF Watch, WatchSubject, WatchEnds, WatchReturns
<1>7. CASE Steer
  BY <1>7, <1>r, <1>u
  DEF Steer, NudgeRejected, Nudge, Interrupt, InterruptAccepted, InterruptRejected, SteerReturns
<1>8. CASE UNCHANGED supervisionVars
  BY <1>8, <1>u DEF supervisionVars
<1> QED BY <1>1, <1>2, <1>3, <1>4, <1>5, <1>6, <1>7, <1>8 DEF SupervisionNext, Wait

----------------------------------------------------------------------------
(* Watches *)

LEMMA WatchStep == SupervisionTypeOK /\ WatchMissesNothing /\ [SupervisionNext]_supervisionVars => WatchMissesNothing'
<1> SUFFICES ASSUME SupervisionTypeOK, WatchMissesNothing, [SupervisionNext]_supervisionVars PROVE WatchMissesNothing' OBVIOUS
<1> USE DEF lane, pair, waiting, watching
<1>k. \A w \in Watcher : watches[w].pc = "waiting" => <<watches[w].subject, w>> \in milestoneWaiters
  BY DEF WatchMissesNothing
<1>m. \A w \in Watcher : watches[w].pc = "waiting" => watches[w].subject \in Turn
  BY <1>k DEF SupervisionTypeOK
<1>u. ASSUME UNCHANGED watching, unnotified \subseteq unnotified',
             \A t \in Turn : Terminal(t)' => Terminal(t) \/ t \in unnotified'
      PROVE  WatchMissesNothing'
  BY <1>m, <1>u DEF WatchMissesNothing
\* A milestone of t settles every watch of t.
<1>e. ASSUME NEW t \in Turn, EmitMilestone(t), unnotified \ {t} \subseteq unnotified',
             \A u \in Turn \ {t} : status'[u] = status[u]
      PROVE  WatchMissesNothing'
  <2> SUFFICES ASSUME NEW w \in Watcher, watches'[w].pc = "waiting"
               PROVE  /\ <<watches'[w].subject, w>> \in milestoneWaiters'
                      /\ cursor'[watches'[w].subject] = watches'[w].start
                      /\ \/ status'[watches'[w].subject] \notin TerminalStatus
                         \/ watches'[w].subject \in unnotified'
    BY DEF WatchMissesNothing, Terminal
  <2>1. <<t, w>> \notin milestoneWaiters /\ watches'[w] = watches[w]
    BY <1>e DEF EmitMilestone, SettleWatches, SupervisionTypeOK, WatchState
  <2>2. watches[w].subject \in Turn \ {t} BY <1>k, <1>m, <2>1
  <2>3. /\ <<watches[w].subject, w>> \in milestoneWaiters
        /\ cursor[watches[w].subject] = watches[w].start
        /\ ~Terminal(watches[w].subject) \/ watches[w].subject \in unnotified
    BY <2>1 DEF WatchMissesNothing
  <2>4. cursor'[watches[w].subject] = cursor[watches[w].subject]
    BY <1>e, <2>2 DEF EmitMilestone, SupervisionTypeOK
  <2>5. <<watches[w].subject, w>> \in milestoneWaiters'
    BY <1>e, <2>1, <2>3 DEF EmitMilestone, SettleWatches
  <2>6. \/ status'[watches[w].subject] \notin TerminalStatus
        \/ watches[w].subject \in unnotified'
    BY <1>e, <2>2, <2>3 DEF Terminal
  <2> QED BY <2>1, <2>3, <2>4, <2>5, <2>6
<1>d. ASSUME NEW S \in SUBSET Watcher, NEW r, SettleWatches(S, r),
             UNCHANGED <<status, unnotified, cursor>>
      PROVE  WatchMissesNothing'
  BY <1>d DEF SettleWatches, WatchMissesNothing, Terminal, SupervisionTypeOK, WatchState
<1>r. ASSUME NEW t \in Turn, RequestCancel(t), UNCHANGED unnotified PROVE WatchMissesNothing'
  <2>1. CASE status[t] = "queued"
    <3>1. status' = [status EXCEPT ![t] = "cancelled"] /\ EmitMilestone(t)
      BY <1>r, <2>1 DEF RequestCancel, NotifyTurnTerminal
    <3> QED BY <1>r, <1>e, <3>1 DEF SupervisionTypeOK
  <2>2. CASE status[t] # "queued"
    <3>1. UNCHANGED watching BY <1>r, <2>2 DEF RequestCancel
    <3>2. \A u \in Turn : Terminal(u)' => Terminal(u)
      BY <1>r, <2>2 DEF RequestCancel, Terminal, TerminalStatus, SupervisionTypeOK
    <3> QED BY <1>r, <1>u, <3>1, <3>2
  <2> QED BY <2>1, <2>2
<1>a. ASSUME NEW f \in Flight, NEW k \in Command, NEW u \in Turn, AcceptGuidance(f, k, u),
             UNCHANGED <<unnotified, watching>>
      PROVE  WatchMissesNothing'
  <2>1. \A t \in Turn : Terminal(t)' => Terminal(t)
    BY <1>a DEF AcceptGuidance, Terminal, TerminalStatus, SupervisionTypeOK
  <2> QED BY <1>a, <1>u, <2>1
<1>1. ASSUME NEW t \in Turn, Claim(t) \/ Start(t) \/ FailQueued(t) PROVE WatchMissesNothing'
  <2>1. UNCHANGED watching /\ unnotified \subseteq unnotified'
    BY <1>1 DEF Claim, Start, FailQueued
  <2>2. \A u \in Turn : Terminal(u)' => Terminal(u) \/ u \in unnotified'
    BY <1>1 DEF Claim, Start, FailQueued, Terminal, TerminalStatus, SupervisionTypeOK
  <2> QED BY <1>u, <2>1, <2>2
<1>2. ASSUME NEW t \in Turn, Milestone(t) PROVE WatchMissesNothing'
  BY <1>2, <1>e DEF Milestone
<1>3. ASSUME NEW t \in Turn, NEW o \in TerminalStatus, Finish(t, o) PROVE WatchMissesNothing'
  BY <1>3, <1>e DEF Finish, NotifyTurnTerminal, SupervisionTypeOK
<1>4. ASSUME NEW t \in Turn, FailurePublished(t) PROVE WatchMissesNothing'
  BY <1>4, <1>e DEF FailurePublished, NotifyTurnTerminal
<1>5. ASSUME NEW t \in Turn, CancelTurn(t) PROVE WatchMissesNothing'
  BY <1>5, <1>r DEF CancelTurn
<1>6. CASE Close
  BY <1>6, <1>d DEF Close
<1>7. CASE Wait
  BY <1>7, <1>u DEF Wait, WaitForCorrelation, WaitEnds, WaitReturns, Terminal
<1>8. ASSUME NEW w \in Watcher, NEW t \in Turn, WatchSubject(w, t) PROVE WatchMissesNothing'
  <2>1. UNCHANGED <<status, unnotified, cursor>> /\ milestoneWaiters \subseteq milestoneWaiters'
    BY <1>8 DEF WatchSubject
  <2>2. \A v \in Watcher \ {w} : watches'[v] = watches[v]
    BY <1>8 DEF WatchSubject, SupervisionTypeOK
  <2>3. watches'[w].subject = t /\ watches'[w].start = cursor[t]
    BY <1>8 DEF WatchSubject, SupervisionTypeOK
  <2>4. watches'[w].pc = "waiting" => ~Terminal(t) /\ <<t, w>> \in milestoneWaiters'
    BY <1>8 DEF WatchSubject, SupervisionTypeOK
  <2> QED BY <2>1, <2>2, <2>3, <2>4 DEF WatchMissesNothing, Terminal
<1>9. ASSUME NEW w \in Watcher, NEW r \in {"timeout", "aborted"}, WatchEnds(w, r)
      PROVE  WatchMissesNothing'
  BY <1>9, <1>d DEF WatchEnds
<1>10. ASSUME NEW w \in Watcher, WatchReturns(w) PROVE WatchMissesNothing'
  BY <1>10 DEF WatchReturns, IdleWatch, WatchMissesNothing, Terminal, SupervisionTypeOK
<1>11. ASSUME NEW f \in Flight, NEW k \in Command, NEW t \in Turn, Nudge(f, k, t)
       PROVE  WatchMissesNothing'
  BY <1>11, <1>a DEF Nudge
<1>12. ASSUME NEW f \in Flight, NEW k \in Command, NEW t \in Turn, Interrupt(f, k, t)
       PROVE  WatchMissesNothing'
  BY <1>12, <1>r DEF Interrupt
<1>13. ASSUME NEW f \in Flight, InterruptAccepted(f) PROVE WatchMissesNothing'
  <2>1. steers[f].command \in Command BY DEF SupervisionTypeOK, SteerState
  <2> QED BY <1>13, <1>a, <2>1 DEF InterruptAccepted
<1>14. ASSUME NEW f \in Flight, InterruptRejected(f) \/ SteerReturns(f)
       PROVE  WatchMissesNothing'
  BY <1>14, <1>u DEF InterruptRejected, SteerReturns, Terminal
<1>15. ASSUME NEW t \in Turn, NudgeRejected(t) PROVE WatchMissesNothing'
  BY <1>15, <1>u DEF NudgeRejected, Terminal
<1>16. CASE UNCHANGED supervisionVars
  BY <1>16, <1>u DEF supervisionVars, Terminal
<1> QED
  BY <1>1, <1>2, <1>3, <1>4, <1>5, <1>6, <1>7, <1>8, <1>9, <1>10, <1>11, <1>12, <1>13, <1>14,
     <1>15, <1>16
  DEF SupervisionNext, Lane, Watch, Steer

----------------------------------------------------------------------------
(* Steers *)

\* Turns are only accepted with a receipt of their own.
LEMMA ReceiptStep ==
    SupervisionTypeOK /\ OneTurnPerSteer /\ ReceiptsExist /\ [SupervisionNext]_supervisionVars => OneTurnPerSteer' /\ ReceiptsExist'
<1> SUFFICES ASSUME SupervisionTypeOK, OneTurnPerSteer, ReceiptsExist, [SupervisionNext]_supervisionVars
             PROVE  OneTurnPerSteer' /\ ReceiptsExist'
  OBVIOUS
<1>s. \A t \in Turn : status[t] # "absent" => status'[t] # "absent" BY StatusStep
<1>n. NoTurn \notin Turn BY SupervisionAssumption
<1> USE DEF lane, pair, waiting, watching
<1>u. ASSUME UNCHANGED receipt, \A t \in Turn : status[t] = "absent" => status'[t] = "absent"
      PROVE  OneTurnPerSteer' /\ ReceiptsExist'
  BY <1>s, <1>u DEF OneTurnPerSteer, ReceiptsExist, SupervisionTypeOK
<1>r. ASSUME NEW t \in Turn, RequestCancel(t)
      PROVE  \A u \in Turn : status[u] = "absent" => status'[u] = "absent"
  BY <1>r DEF RequestCancel, SupervisionTypeOK
<1>a. ASSUME NEW f \in Flight, NEW k \in Command, NEW u \in Turn, AcceptGuidance(f, k, u)
      PROVE  OneTurnPerSteer' /\ ReceiptsExist'
  <2>1. CASE receipt[k] # NoTurn
    BY <1>a, <1>u, <2>1 DEF AcceptGuidance
  <2>2. CASE receipt[k] = NoTurn
    <3>1. /\ status[u] = "absent" /\ status' = [status EXCEPT ![u] = "queued"]
          /\ receipt' = [receipt EXCEPT ![k] = u]
      BY <1>a, <2>2 DEF AcceptGuidance
    <3>2. \A j \in Command : receipt[j] # u
      BY <1>n, <3>1 DEF ReceiptsExist
    <3>3. ReceiptsExist' BY <1>s, <3>1 DEF ReceiptsExist, SupervisionTypeOK
    <3>4. \A t \in Turn \ {First} : status'[t] # "absent" => \E j \in Command : receipt'[j] = t
      <4> SUFFICES ASSUME NEW t \in Turn \ {First}, status'[t] # "absent"
                   PROVE  \E j \in Command : receipt'[j] = t
        OBVIOUS
      <4>1. CASE t = u BY <3>1, <4>1 DEF SupervisionTypeOK
      <4>2. CASE t # u
        <5>1. PICK j \in Command : receipt[j] = t BY <3>1, <4>2 DEF OneTurnPerSteer, SupervisionTypeOK
        <5> QED BY <1>n, <2>2, <3>1, <5>1 DEF SupervisionTypeOK
      <4> QED BY <4>1, <4>2
    <3>5. \A i, j \in Command : receipt'[i] = receipt'[j] /\ receipt'[j] # NoTurn => i = j
      BY <3>1, <3>2 DEF OneTurnPerSteer, SupervisionTypeOK
    <3> QED BY <3>3, <3>4, <3>5 DEF OneTurnPerSteer
  <2> QED BY <2>1, <2>2
<1>1. CASE Lane
  <2>1. UNCHANGED receipt
    BY <1>1 DEF Lane, Claim, Start, Milestone, Finish, FailQueued, FailurePublished, CancelTurn
  <2>2. \A t \in Turn : status[t] = "absent" => status'[t] = "absent"
    BY <1>1, <1>r
    DEF Lane, Claim, Start, Milestone, Finish, FailQueued, FailurePublished, CancelTurn,
        ActiveStatus, SupervisionTypeOK
  <2> QED BY <1>u, <2>1, <2>2
<1>2. CASE Close \/ Wait \/ Watch \/ UNCHANGED supervisionVars
  BY <1>2, <1>u DEF Close, Wait, Watch, WaitForCorrelation, WaitEnds, WaitReturns, WatchSubject,
                    WatchEnds, WatchReturns, supervisionVars
<1>3. ASSUME NEW f \in Flight, NEW k \in Command, NEW t \in Turn, Nudge(f, k, t)
      PROVE  OneTurnPerSteer' /\ ReceiptsExist'
  BY <1>3, <1>a DEF Nudge
<1>4. ASSUME NEW f \in Flight, NEW k \in Command, NEW t \in Turn, Interrupt(f, k, t)
      PROVE  OneTurnPerSteer' /\ ReceiptsExist'
  BY <1>4, <1>r, <1>u DEF Interrupt
<1>5. ASSUME NEW f \in Flight, InterruptAccepted(f) PROVE OneTurnPerSteer' /\ ReceiptsExist'
  <2>1. steers[f].command \in Command BY DEF SupervisionTypeOK, SteerState
  <2> QED BY <1>5, <1>a, <2>1 DEF InterruptAccepted
<1>6. ASSUME NEW f \in Flight, InterruptRejected(f) \/ SteerReturns(f)
      PROVE  OneTurnPerSteer' /\ ReceiptsExist'
  BY <1>6, <1>u DEF InterruptRejected, SteerReturns
<1>7. ASSUME NEW t \in Turn, NudgeRejected(t) PROVE OneTurnPerSteer' /\ ReceiptsExist'
  BY <1>7, <1>u DEF NudgeRejected
<1> QED BY <1>1, <1>2, <1>3, <1>4, <1>5, <1>6, <1>7 DEF SupervisionNext, Steer

\* Once guidance is accepted, its steer attaches it whatever happens meanwhile.
LEMMA GuidanceStep == SupervisionTypeOK /\ GuidanceReachesPair /\ [SupervisionNext]_supervisionVars => GuidanceReachesPair'
<1> SUFFICES ASSUME SupervisionTypeOK, GuidanceReachesPair, [SupervisionNext]_supervisionVars PROVE GuidanceReachesPair' OBVIOUS
<1> USE DEF lane, pair, waiting, watching
<1>u. ASSUME UNCHANGED <<receipt, members>>,
             \A f \in Flight : steers[f].pc = "attaching" => steers'[f] = steers[f]
      PROVE  GuidanceReachesPair'
  BY <1>u DEF GuidanceReachesPair
<1>a. ASSUME NEW f \in Flight, NEW k \in Command, NEW u \in Turn, AcceptGuidance(f, k, u),
             steers[f].pc # "attaching", UNCHANGED members
      PROVE  GuidanceReachesPair'
  <2>1. /\ steers'[f].pc = "attaching" /\ steers'[f].next = u
        /\ \A g \in Flight : steers[g].pc = "attaching" => steers'[g] = steers[g]
    BY <1>a DEF AcceptGuidance, SupervisionTypeOK
  <2>2. receipt'[k] = u /\ \A j \in Command \ {k} : receipt'[j] = receipt[j]
    BY <1>a DEF AcceptGuidance, SupervisionTypeOK
  <2> QED BY <1>a, <2>1, <2>2 DEF GuidanceReachesPair
<1>1. CASE Lane \/ Close \/ Wait \/ Watch \/ UNCHANGED supervisionVars
  BY <1>1, <1>u
  DEF Lane, Claim, Start, Milestone, Finish, FailQueued, FailurePublished, CancelTurn,
      Close, Wait, Watch, WaitForCorrelation, WaitEnds, WaitReturns, WatchSubject,
      WatchEnds, WatchReturns, supervisionVars
<1>2. ASSUME NEW t \in Turn, NudgeRejected(t) PROVE GuidanceReachesPair'
  BY <1>2, <1>u DEF NudgeRejected
<1>3. ASSUME NEW f \in Flight, NEW k \in Command, NEW t \in Turn, Nudge(f, k, t)
      PROVE  GuidanceReachesPair'
  BY <1>3, <1>a DEF Nudge
<1>4. ASSUME NEW f \in Flight, NEW k \in Command, NEW t \in Turn, Interrupt(f, k, t)
      PROVE  GuidanceReachesPair'
  <2>1. \A g \in Flight : steers[g].pc = "attaching" => steers'[g] = steers[g]
    BY <1>4 DEF Interrupt, SupervisionTypeOK
  <2> QED BY <1>4, <1>u, <2>1 DEF Interrupt
<1>5. ASSUME NEW f \in Flight, InterruptAccepted(f) PROVE GuidanceReachesPair'
  <2>1. steers[f].command \in Command BY DEF SupervisionTypeOK, SteerState
  <2> QED BY <1>5, <1>a, <2>1 DEF InterruptAccepted
<1>6. ASSUME NEW f \in Flight, InterruptRejected(f) PROVE GuidanceReachesPair'
  <2>1. \A g \in Flight : steers[g].pc = "attaching" => steers'[g] = steers[g]
    BY <1>6 DEF InterruptRejected, SupervisionTypeOK
  <2> QED BY <1>6, <1>u, <2>1 DEF InterruptRejected
<1>7. ASSUME NEW f \in Flight, SteerReturns(f) PROVE GuidanceReachesPair'
  <2>1. \A g \in Flight \ {f} : steers'[g] = steers[g]
    BY <1>7 DEF SteerReturns, SupervisionTypeOK
  <2>2. members' = members \cup {steers[f].next} /\ UNCHANGED receipt
    BY <1>7 DEF SteerReturns, Attach
  <2> QED BY <2>1, <2>2 DEF GuidanceReachesPair
<1> QED BY <1>1, <1>2, <1>3, <1>4, <1>5, <1>6, <1>7 DEF SupervisionNext, Steer

----------------------------------------------------------------------------
(* Theorems *)

LEMMA InvariantInit == SupervisionInit => SupervisionInvariant
<1> SUFFICES ASSUME SupervisionInit PROVE SupervisionInvariant OBVIOUS
<1>1. SupervisionTypeOK BY InitType
<1>2. NoMissedEnd /\ TerminalWaitIsTrue BY DEF SupervisionInit, IdleWait, NoMissedEnd, TerminalWaitIsTrue
<1>3. WatchMissesNothing BY DEF SupervisionInit, IdleWatch, WatchMissesNothing
<1>4. OneTurnPerSteer /\ GuidanceReachesPair /\ ReceiptsExist
  BY DEF SupervisionInit, OneTurnPerSteer, GuidanceReachesPair, ReceiptsExist
<1> QED BY <1>1, <1>2, <1>3, <1>4 DEF SupervisionInvariant

\* The invariant of Supervision holds in every state of every instance.
THEOREM SupervisionInvariance == SupervisionSpec => []SupervisionInvariant
<1>1. SupervisionInvariant /\ [SupervisionNext]_supervisionVars => SupervisionInvariant'
  BY TypeStep, WaitStep, TerminalWaitStep, WatchStep, ReceiptStep, GuidanceStep
  DEF SupervisionInvariant
<1> QED BY <1>1, InvariantInit, PTL DEF SupervisionSpec

\* The state of the broker's callers has its type.
THEOREM SupervisionTypes == SupervisionSpec => []SupervisionTypeOK
<1>1. SupervisionInvariant => SupervisionTypeOK BY DEF SupervisionInvariant
<1> QED BY <1>1, SupervisionInvariance, PTL

\* No wait of ask or collect misses the end of its Turns, however many wait for
\* the same Turns and whenever they come and go.
THEOREM WaitsMissNoEnd == SupervisionSpec => []NoMissedEnd
<1>1. SupervisionInvariant => NoMissedEnd BY DEF SupervisionInvariant
<1> QED BY <1>1, SupervisionInvariance, PTL

\* A wait that reports "terminal" is right.
THEOREM TerminalWaitsAreTrue == SupervisionSpec => []TerminalWaitIsTrue
<1>1. SupervisionInvariant => TerminalWaitIsTrue BY DEF SupervisionInvariant
<1> QED BY <1>1, SupervisionInvariance, PTL

\* No watch misses a milestone or the end of its subject.
THEOREM WatchesMissNothing == SupervisionSpec => []WatchMissesNothing
<1>1. SupervisionInvariant => WatchMissesNothing BY DEF SupervisionInvariant
<1> QED BY <1>1, SupervisionInvariance, PTL

\* However often and by however many flights a steer is sent, it queues one Turn.
THEOREM SteersQueueOneTurn == SupervisionSpec => []OneTurnPerSteer
<1>1. SupervisionInvariant => OneTurnPerSteer BY DEF SupervisionInvariant
<1> QED BY <1>1, SupervisionInvariance, PTL

\* No guidance is left outside its pair while the process lives.
THEOREM GuidanceJoinsPair == SupervisionSpec => []GuidanceReachesPair
<1>1. SupervisionInvariant => GuidanceReachesPair BY DEF SupervisionInvariant
<1> QED BY <1>1, SupervisionInvariance, PTL

==============================================================================
