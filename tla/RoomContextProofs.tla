-------------------------- MODULE RoomContextProofs --------------------------
(***************************************************************************)
(* No agent misses a message, and no Turn is forgotten or remembered twice, *)
(* for any number of agents, messages of any sizes, any budget and any      *)
(* number of compactions, resets, edits, failures and restarts.  What the   *)
(* room's part rests on: a summary that reaches beyond the last reset was   *)
(* made from every message after it, and so will be the one a compaction    *)
(* that is under way brings; a compaction the reset has overtaken brings    *)
(* one that does not reach beyond it and is not used.                       *)
(***************************************************************************)
EXTENDS RoomContext, FiniteSetTheorems, SequenceTheorems, TLAPS

----------------------------------------------------------------------------
(* The invariant *)

Disjoint(S, T) == S \cap T = {}

\* The sources of the daily memory: each waits, was found blank, is folded into the
\* record or was retracted with one.
Sources ==
    /\ completed = pending \cup blank \cup head.folds \cup retracted
    /\ Disjoint(pending, blank) /\ Disjoint(pending, head.folds) /\ Disjoint(pending, retracted)
    /\ Disjoint(blank, head.folds) /\ Disjoint(blank, retracted) /\ Disjoint(head.folds, retracted)
    /\ head = [folds |-> head.folds, edits |-> head.edits]
    /\ head.edits = edited

Engine ==
    /\ flush = [pc |-> flush.pc, expected |-> flush.expected, selected |-> flush.selected,
                left |-> flush.left, more |-> flush.more]
    /\ flush.pc \in {"idle", "generating", "retrying", "publishing"}
    /\ flush.selected \subseteq completed /\ flush.left \in 0..RollupAttempts
    /\ timer \in BOOLEAN /\ datedOpen \in BOOLEAN /\ noting \in BOOLEAN /\ overlooked \in BOOLEAN
    /\ edits \in 0..MaxEdits /\ rollupFaults \in 0..MaxRollupFaults

\* A source is known by its response, which is the newest message when it is registered.
Responses == \A x \in completed : x.response \in 0..high

DatedInvariant == Sources /\ Engine /\ Responses

SummaryRow == [from : Nat, through : Nat, covers : SUBSET Nat]
PacketRow == [after : Nat, reset : Nat, messages : SUBSET Nat]
LanePc == {"idle", "building", "waiting", "ready", "running"}
LaneRow == [pc : LanePc, source : Nat, pass : Nat, packet : PacketRow]
ManualRow == [pc : {"idle", "waiting", "looping"}, through : Nat, cutoff : Nat, before : Nat, pass : Nat]

RoomType ==
    /\ high \in 0..Len(Size) /\ reset \in 0..high
    /\ cursor \in [Agent -> 0..high]
    /\ queue \in [Agent -> Seq(1..high)]
    /\ ancestors \in Seq(SUBSET Nat) /\ Len(ancestors) = high
    /\ \A m \in 1..high : ancestors[m] \subseteq 1..(m - 1)
    /\ lane \in [Agent -> LaneRow] /\ \A a \in Agent : lane[a].source \in 0..high
    /\ manual \in ManualRow /\ manual.through <= high /\ manual.cutoff <= high
    /\ missed = [a \in Agent |-> {}]

\* A summary that reaches beyond the reset was made from all messages after it.
Summaries ==
    /\ summary \in SummaryRow /\ summary.from <= summary.through /\ summary.through <= high
    /\ summary.through > reset => summary.covers = (reset + 1)..summary.through

\* And so will be the one the compaction under way brings, unless a reset overtook it.
Flight ==
    /\ flight = [pc |-> flight.pc, after |-> flight.after, through |-> flight.through,
                 previous |-> flight.previous, left |-> flight.left, agents |-> flight.agents]
    /\ flight.pc \in {"idle", "flushing", "generating", "retrying"}
    /\ flight.pc # "idle" =>
        /\ flight.after \in Nat /\ flight.through \in Nat /\ flight.previous \in SummaryRow
        /\ flight.previous.from <= flight.previous.through
        /\ flight.previous.through <= flight.after
        /\ flight.after < flight.through /\ flight.through <= high
        /\ flight.through > reset =>
            /\ reset <= flight.after
            /\ flight.previous.covers \cup (flight.after + 1)..flight.through
                 = (reset + 1)..flight.through

\* A packet for the message s holds all that is new to the agent, and of what lies before
\* the reset only s and what s replies to.
Whole(p, s, a) ==
    /\ p.reset <= reset /\ (p.after <= cursor[a] \/ p.after <= p.reset)
    /\ (p.after + 1)..s \subseteq p.messages
    /\ p.messages \cap 1..p.reset \subseteq ancestors[s] \cup {s}

Prepares(a) ==
    /\ lane[a].pc \in {"building", "waiting", "ready"} => queue[a] # <<>>
    /\ lane[a].pc = "ready" => Whole(lane[a].packet, Head(queue[a]), a)

Waits == (\E a \in Agent : lane[a].pc = "waiting") \/ manual.pc = "waiting" => flight.pc # "idle"

RoomInvariant == RoomType /\ Summaries /\ Flight /\ (\A a \in Agent : Prepares(a)) /\ Waits

ContextInvariant == DatedInvariant /\ RoomInvariant

----------------------------------------------------------------------------
(* The greatest and the least of a set of numbers *)

LEMMA LeastNumber ==
    ASSUME NEW S \in SUBSET Nat, S # {}
    PROVE  Min(S) \in S /\ \A k \in S : Min(S) <= k
<1>1. IsWellFoundedOn(OpToRel(<, Nat), Nat) BY NatLessThanWellFounded
<1>2. PICK m \in S : \A k \in S : ~ (<<k, m>> \in OpToRel(<, Nat)) BY <1>1, WFMin
<1>3. \A k \in S : m <= k
  <2> TAKE k \in S
  <2>1. m \in Nat /\ k \in Nat OBVIOUS
  <2>2. ~ (k < m) BY <1>2, <2>1 DEF OpToRel
  <2> QED BY <2>1, <2>2
<1> QED BY <1>3 DEF Min

LEMMA GreatestNumber ==
    ASSUME NEW S \in SUBSET Nat, S # {}, NEW n \in Nat, \A k \in S : k <= n
    PROVE  Max(S) \in S /\ \A k \in S : k <= Max(S)
<1> DEFINE T == {n - k : k \in S}
<1>1. T \in SUBSET Nat /\ T # {}
  <2>1. \A k \in S : n - k \in Nat OBVIOUS
  <2>2. PICK k \in S : TRUE OBVIOUS
  <2>3. n - k \in T OBVIOUS
  <2> QED BY <2>1, <2>3
<1>2. Min(T) \in T /\ \A k \in T : Min(T) <= k BY <1>1, LeastNumber
<1>3. PICK m \in S : Min(T) = n - m BY <1>2
<1>4. \A k \in S : m >= k
  <2> TAKE k \in S
  <2>1. n - k \in T OBVIOUS
  <2>2. n - m <= n - k BY <1>2, <1>3, <2>1
  <2> QED BY <2>2
<1>5. \E m_1 \in S : \A k \in S : m_1 >= k BY <1>4
<1>6. Max(S) \in S /\ \A k \in S : Max(S) >= k BY <1>5 DEF Max
<1> QED BY <1>6

LEMMA MaxOfTwo ==
    ASSUME NEW m \in Nat, NEW n \in Nat
    PROVE  Max({m, n}) = IF m >= n THEN m ELSE n
<1>1. \A k \in {m, n} : k <= m + n OBVIOUS
<1>2. Max({m, n}) \in {m, n} /\ \A k \in {m, n} : k <= Max({m, n}) BY <1>1, GreatestNumber
<1> QED BY <1>2

LEMMA MaxOfThree ==
    ASSUME NEW m \in Nat, NEW n \in Nat, NEW r \in Nat
    PROVE  Max({m, n, r}) \in Nat /\ (Max({m, n, r}) = m \/ Max({m, n, r}) = n \/ Max({m, n, r}) = r)
<1>1. \A k \in {m, n, r} : k <= m + n + r OBVIOUS
<1>2. Max({m, n, r}) \in {m, n, r} BY <1>1, GreatestNumber
<1> QED BY <1>2

LEMMA MinOfTwo ==
    ASSUME NEW m \in Nat, NEW n \in Nat
    PROVE  Min({m, n}) = IF m <= n THEN m ELSE n
<1>1. Min({m, n}) \in {m, n} /\ \A k \in {m, n} : Min({m, n}) <= k BY LeastNumber
<1> QED BY <1>1

----------------------------------------------------------------------------
(* The daily memory *)

LEMMA DatedStart == DatedInit /\ high \in Nat => DatedInvariant
<1> SUFFICES ASSUME DatedInit, high \in Nat PROVE DatedInvariant OBVIOUS
<1> USE DEF DatedInit, NoMemory, NoFlush
<1>1. Sources BY DEF Sources, Disjoint
<1>2. Engine
  <2>1. 0 \in 0..RollupAttempts /\ 0 \in 0..MaxEdits /\ 0 \in 0..MaxRollupFaults BY DatedAssumption
  <2> QED BY <2>1 DEF Engine
<1>3. Responses BY DEF Responses
<1> QED BY <1>1, <1>2, <1>3 DEF DatedInvariant

\* Most steps of the engine leave the rows alone.
LEMMA RowsUntouched ==
    ASSUME Sources, UNCHANGED <<pending, head, completed, blank, retracted, edited>>
    PROVE  Sources'
BY DEF Sources, Disjoint

LEMMA FlightSelects ==
    ASSUME Sources, Engine, NEW eligible \in SUBSET pending, StartFlush(eligible)
    PROVE  /\ flush' = [pc |-> flush'.pc, expected |-> flush'.expected, selected |-> flush'.selected,
                        left |-> flush'.left, more |-> flush'.more]
           /\ flush'.pc \in {"idle", "generating", "retrying", "publishing"}
           /\ flush'.selected \subseteq completed /\ flush'.left \in 0..RollupAttempts
<1>1. CASE eligible = {} BY <1>1 DEF StartFlush, Engine
<1>2. CASE eligible # {}
  <2>1. PICK batch \in Batches(eligible) :
            flush' = [pc |-> "generating", expected |-> head, selected |-> batch,
                      left |-> RollupAttempts, more |-> FALSE]
    BY <1>2 DEF StartFlush
  <2>2. batch \subseteq completed BY DEF Batches, Sources
  <2> QED BY <2>1, <2>2, DatedAssumption
<1> QED BY <1>1, <1>2

\* The commit of a text moves what was selected from waiting to the record.
LEMMA CommitKeepsSources ==
    ASSUME Sources, Engine, Generated
    PROVE  Sources' /\ Engine' /\ completed' = completed
<1>1. CASE CommitText
  <2>1. /\ head' = [folds |-> head.folds \cup flush.selected, edits |-> head.edits]
        /\ pending' = pending \ flush.selected /\ flush.selected \subseteq pending
        /\ UNCHANGED <<timer, datedOpen, noting, edits, rollupFaults, completed, blank, retracted,
                       edited, overlooked>>
    BY <1>1 DEF CommitText, CommitApplies
  <2>2. Sources' BY <2>1 DEF Sources, Disjoint
  <2>3. flush' = [flush EXCEPT !.pc = "publishing", !.more = pending' # {}]
    BY <1>1 DEF CommitText
  <2>4. Engine' BY <2>1, <2>3 DEF Engine
  <2> QED BY <2>1, <2>2, <2>4
<1>2. CASE CommitBlank
  <2>1. /\ pending' = pending \ flush.selected /\ flush.selected \subseteq pending
        /\ blank' = blank \cup flush.selected
        /\ flush' = NoFlush
        /\ timer' = (timer \/ (pending' # {} /\ datedOpen))
        /\ UNCHANGED <<head, datedOpen, noting, edits, rollupFaults, completed, retracted, edited,
                       overlooked>>
    BY <1>2 DEF CommitBlank, CommitApplies
  <2>2. Sources' BY <2>1 DEF Sources, Disjoint
  <2>3. Engine' BY <2>1, DatedAssumption DEF Engine, NoFlush
  <2> QED BY <2>1, <2>2, <2>3
<1>3. CASE CommitConflicts
  <2>1. Sources' BY <1>3, RowsUntouched DEF CommitConflicts, storeVars
  <2>2. Engine' BY <1>3, DatedAssumption DEF CommitConflicts, storeVars, Engine, NoFlush
  <2> QED BY <1>3, <2>1, <2>2 DEF CommitConflicts, storeVars
<1> QED BY <1>1, <1>2, <1>3 DEF Generated

LEMMA FlightsKeepSources ==
    ASSUME Sources, Engine,
           \/ NoteCompleted \/ TimerFires \/ PublishEnds \/ RetryRollup \/ RollupAborted
           \/ GenerationFails \/ CloseDated \/ RecoverDated
           \/ \E through \in Nat : FlushBeforeCompaction(through)
    PROVE  Sources' /\ Engine' /\ completed' = completed
<1>1. UNCHANGED <<pending, head, completed, blank, retracted, edited>>
  BY DEF NoteCompleted, TimerFires, PublishEnds, RetryRollup, RollupAborted, GenerationFails,
     CloseDated, RecoverDated, FlushBeforeCompaction, storeVars
<1>2. Sources' BY <1>1, RowsUntouched
<1>3. Engine'
  <2>1. CASE NoteCompleted BY <2>1, <1>1 DEF NoteCompleted, storeVars, Engine
  <2>2. CASE TimerFires
    <3>1. CASE Flushing BY <2>2, <3>1, <1>1 DEF TimerFires, Engine
    <3>2. CASE ~Flushing
      <4>1. StartFlush(pending) BY <2>2, <3>2 DEF TimerFires
      <4> HIDE DEF StartFlush
      <4>2. /\ timer' = FALSE /\ UNCHANGED <<datedOpen, noting, edits, rollupFaults>>
            /\ overlooked' \in BOOLEAN
        BY <2>2 DEF TimerFires, Engine
      <4> QED BY <4>1, <4>2, <1>1, FlightSelects DEF Engine
    <3> QED BY <3>1, <3>2
  <2>3. CASE PublishEnds BY <2>3, <1>1, DatedAssumption DEF PublishEnds, storeVars, Engine, NoFlush
  <2>4. CASE RetryRollup BY <2>4, <1>1 DEF RetryRollup, storeVars, Engine
  <2>5. CASE RollupAborted
    BY <2>5, <1>1, DatedAssumption DEF RollupAborted, storeVars, Engine, NoFlush
  <2>6. CASE GenerationFails
    <3>1. rollupFaults' \in 0..MaxRollupFaults /\ UNCHANGED <<datedOpen, noting, edits>>
      BY <2>6, DatedAssumption DEF GenerationFails, Engine
    <3>4. timer' \in BOOLEAN /\ overlooked' \in BOOLEAN
      <4>1. \/ UNCHANGED <<timer, overlooked>>
            \/ RecordFailure
        BY <2>6 DEF GenerationFails
      <4>2. CASE UNCHANGED <<timer, overlooked>> BY <4>2 DEF Engine
      <4>3. CASE RecordFailure BY <4>3, Zenon DEF RecordFailure, Engine
      <4> QED BY <4>1, <4>2, <4>3
    <3>2. CASE flush.left > 1 /\ flush' = [flush EXCEPT !.pc = "retrying", !.left = @ - 1]
      <4>1. flush.left - 1 \in 0..RollupAttempts BY <3>2, DatedAssumption DEF Engine
      <4> QED BY <3>1, <3>2, <3>4, <4>1, <1>1 DEF Engine
    <3>3. CASE flush' = NoFlush
      <4>1. 0 \in 0..RollupAttempts BY DatedAssumption
      <4> QED BY <3>1, <3>3, <3>4, <4>1, <1>1 DEF Engine, NoFlush
    <3> QED BY <2>6, <3>2, <3>3 DEF GenerationFails
  <2>7. CASE CloseDated BY <2>7, <1>1 DEF CloseDated, storeVars, Engine
  <2>8. CASE RecoverDated
    <3>1. 0 \in 0..RollupAttempts BY DatedAssumption
    <3>2. timer' \in BOOLEAN /\ datedOpen' \in BOOLEAN /\ noting' \in BOOLEAN
      BY <2>8, Zenon DEF RecoverDated
    <3> QED BY <2>8, <3>1, <3>2, <1>1 DEF RecoverDated, storeVars, Engine, NoFlush
  <2>9. ASSUME NEW through \in Nat, FlushBeforeCompaction(through) PROVE Engine'
    <3>1. UNCHANGED <<timer, datedOpen, noting, edits, rollupFaults, overlooked>>
      BY <2>9 DEF FlushBeforeCompaction, storeVars
    <3>2. CASE Flushing \/ ~datedOpen BY <2>9, <3>1, <3>2, <1>1 DEF FlushBeforeCompaction, Engine
    <3>3. CASE ~(Flushing \/ ~datedOpen)
      <4>1. PICK eligible \in SUBSET pending : StartFlush(eligible)
        BY <2>9, <3>3 DEF FlushBeforeCompaction
      <4> QED BY <4>1, <3>1, <1>1, FlightSelects DEF Engine
    <3> QED BY <3>2, <3>3
  <2> QED BY <2>1, <2>2, <2>3, <2>4, <2>5, <2>6, <2>7, <2>8, <2>9
<1> QED BY <1>1, <1>2, <1>3

\* A user's edit goes to the record and a retraction takes its sources along.
LEMMA UsersKeepSources ==
    ASSUME Sources, Engine, EditHead \/ RetractHead
    PROVE  Sources' /\ Engine' /\ completed' = completed
<1>1. edits' \in 0..MaxEdits /\ UNCHANGED <<timer, flush, datedOpen, noting, rollupFaults, overlooked,
                                            completed, pending, blank>>
  BY DatedAssumption DEF EditHead, RetractHead, engineVars, Engine
<1>2. Engine' BY <1>1 DEF Engine
<1>3. CASE EditHead
  <2>1. /\ head' = [folds |-> head.folds, edits |-> head.edits \cup {edits'}]
        /\ edited' = edited \cup {edits'} /\ UNCHANGED retracted
    BY <1>3 DEF EditHead, Sources
  <2> QED BY <1>1, <1>2, <2>1 DEF Sources, Disjoint
<1>4. CASE RetractHead
  <2>1. /\ head' = [folds |-> {}, edits |-> {}] /\ edited' = {}
        /\ retracted' = retracted \cup head.folds
    BY <1>4 DEF RetractHead, NoMemory
  <2> QED BY <1>1, <1>2, <2>1 DEF Sources, Disjoint
<1> QED BY <1>3, <1>4

\* Registering a source that is newer than all there are.
LEMMA RegisterKeepsSources ==
    ASSUME Sources, Engine, NEW x, x \notin completed, RegisterSource(x)
    PROVE  Sources' /\ Engine' /\ completed' = completed \cup {x}
<1>1. Sources' BY DEF RegisterSource, Sources, Disjoint
<1>2. Engine' BY DEF RegisterSource, Engine
<1> QED BY <1>1, <1>2 DEF RegisterSource

\* None of these steps registers a source.
LEMMA DatedStep ==
    ASSUME DatedInvariant, high \in Nat, high' \in Nat, high <= high',
           \/ DatedNext \/ CloseDated \/ RecoverDated \/ UNCHANGED datedVars
           \/ \E through \in Nat : FlushBeforeCompaction(through)
    PROVE  DatedInvariant'
<1> USE DEF DatedInvariant
<1>1. Sources' /\ Engine' /\ completed' = completed
  <2>1. CASE UNCHANGED datedVars
    <3>1. UNCHANGED <<pending, head, completed, blank, retracted, edited>>
      BY <2>1 DEF datedVars, storeVars
    <3>2. Engine' BY <2>1 DEF datedVars, storeVars, engineVars, Engine
    <3> QED BY <3>1, <3>2, RowsUntouched
  <2>2. CASE DatedNext
    <3>1. CASE Generated BY <3>1, CommitKeepsSources
    <3>2. CASE EditHead \/ RetractHead BY <3>2, UsersKeepSources
    <3>3. CASE \/ NoteCompleted \/ TimerFires \/ PublishEnds \/ RetryRollup \/ RollupAborted
               \/ GenerationFails
      BY <3>3, FlightsKeepSources
    <3> QED BY <2>2, <3>1, <3>2, <3>3 DEF DatedNext, DatedReacts
  <2> QED BY <2>1, <2>2, FlightsKeepSources
<1>2. Responses' BY <1>1 DEF Responses
<1> QED BY <1>1, <1>2

\* The response of the Turn that completes is the newest message.
LEMMA CompletedIsNew ==
    ASSUME DatedInvariant, high \in Nat, high' = high + 1, NEW s,
           RegisterSource([source |-> s, response |-> high + 1])
    PROVE  DatedInvariant'
<1> DEFINE x == [source |-> s, response |-> high + 1]
<1>1. x \notin completed
  <2>1. x.response = high + 1 OBVIOUS
  <2> QED BY <2>1 DEF DatedInvariant, Responses
<1>2. Sources' /\ Engine' /\ completed' = completed \cup {x}
  BY <1>1, RegisterKeepsSources DEF DatedInvariant
<1>3. Responses'
  <2>1. x.response \in 0..high' OBVIOUS
  <2> HIDE DEF x
  <2> QED BY <1>2, <2>1 DEF Responses, DatedInvariant
<1> QED BY <1>2, <1>3 DEF DatedInvariant

\* A source is in one of the four places.
LEMMA OneOfFour == Sources => FoldedOnce
<1> SUFFICES ASSUME Sources, NEW x \in completed
             PROVE  Cardinality({w \in {"pending", "blank", "head", "retracted"} :
                        x \in CASE w = "pending" -> pending [] w = "blank" -> blank
                                [] w = "head" -> head.folds [] OTHER -> retracted}) = 1
  BY DEF FoldedOnce, Sources
<1> DEFINE Place(w) == CASE w = "pending" -> pending [] w = "blank" -> blank
                         [] w = "head" -> head.folds [] OTHER -> retracted
           Places == {w \in {"pending", "blank", "head", "retracted"} : x \in Place(w)}
<1>1. /\ Place("pending") = pending /\ Place("blank") = blank
      /\ Place("head") = head.folds /\ Place("retracted") = retracted
  OBVIOUS
<1>2. \E w \in {"pending", "blank", "head", "retracted"} : Places = {w}
  <2> HIDE DEF Place
  <2>1. CASE x \in pending
    <3>1. x \notin blank /\ x \notin head.folds /\ x \notin retracted
      BY <2>1 DEF Sources, Disjoint
    <3>2. Places = {"pending"} BY <1>1, <2>1, <3>1
    <3> QED BY <3>2
  <2>2. CASE x \in blank
    <3>1. x \notin pending /\ x \notin head.folds /\ x \notin retracted
      BY <2>2 DEF Sources, Disjoint
    <3>2. Places = {"blank"} BY <1>1, <2>2, <3>1
    <3> QED BY <3>2
  <2>3. CASE x \in head.folds
    <3>1. x \notin pending /\ x \notin blank /\ x \notin retracted
      BY <2>3 DEF Sources, Disjoint
    <3>2. Places = {"head"} BY <1>1, <2>3, <3>1
    <3> QED BY <3>2
  <2>4. CASE x \in retracted
    <3>1. x \notin pending /\ x \notin blank /\ x \notin head.folds
      BY <2>4 DEF Sources, Disjoint
    <3>2. Places = {"retracted"} BY <1>1, <2>4, <3>1
    <3> QED BY <3>2
  <2> QED BY <2>1, <2>2, <2>3, <2>4 DEF Sources
<1>3. PICK w : Places = {w} BY <1>2
<1>4. Cardinality(Places) = 1 BY <1>3, FS_Singleton
<1> QED BY <1>4

----------------------------------------------------------------------------
(* Packets *)

LEMMA UsableSummary ==
    ASSUME RoomType, Summaries, NEW through \in Nat
    PROVE  /\ Usable(through) \in SummaryRow
           /\ Usable(through).from <= Usable(through).through
           /\ Usable(through).through <= through /\ Usable(through).through <= high
           /\ \/ Usable(through) = NoSummary
              \/ /\ Usable(through).through > reset
                 /\ Usable(through).covers = (reset + 1)..Usable(through).through
<1>1. NoSummary \in SummaryRow /\ NoSummary.from = 0 /\ NoSummary.through = 0
  BY DEF NoSummary, SummaryRow
<1>2. CASE summary.through <= through /\ summary.through > reset
  <2>1. Usable(through) = summary BY <1>2 DEF Usable
  <2> QED BY <1>2, <2>1 DEF Summaries
<1>3. CASE ~(summary.through <= through /\ summary.through > reset)
  <2>1. Usable(through) = NoSummary BY <1>3 DEF Usable
  <2> QED BY <1>1, <2>1 DEF RoomType
<1> QED BY <1>2, <1>3

\* The unread transcript begins after the cursor and the reset, but not after the Turn's
\* own message.
LEMMA UnreadBegins ==
    ASSUME RoomType, NEW a \in Agent, NEW s \in Nat
    PROVE  /\ After(a, s) \in Nat /\ After(a, s) <= s
           /\ After(a, s) <= cursor[a] \/ After(a, s) <= reset
           /\ After(a, s) = s \/ (After(a, s) >= cursor[a] /\ After(a, s) >= reset)
<1>1. cursor[a] \in Nat /\ reset \in Nat BY DEF RoomType
<1>2. Max({cursor[a], reset}) = IF cursor[a] >= reset THEN cursor[a] ELSE reset
  BY <1>1, MaxOfTwo
<1>3. After(a, s) = IF Max({cursor[a], reset}) <= s THEN Max({cursor[a], reset}) ELSE s
  BY <1>1, <1>2, MinOfTwo DEF After
<1> QED BY <1>1, <1>2, <1>3

LEMMA UnreadIs ==
    ASSUME RoomType, Summaries, NEW a \in Agent, NEW s \in Nat
    PROVE  /\ Summary(a, s) = Usable(s) \/ Summary(a, s) = NoSummary
           /\ Usable(s).through > After(a, s) => Summary(a, s) = Usable(s)
           /\ Summary(a, s) \in SummaryRow
           /\ Unread(a, s) = ((IF After(a, s) >= Summary(a, s).through
                               THEN After(a, s) ELSE Summary(a, s).through) + 1 .. s - 1)
                              \ ancestors[s]
<1>1. NoSummary \in SummaryRow BY DEF NoSummary, SummaryRow
<1>2. Summary(a, s) \in SummaryRow BY <1>1, UsableSummary DEF Summary
<1>3. After(a, s) \in Nat /\ Summary(a, s).through \in Nat BY <1>2, UnreadBegins DEF SummaryRow
<1>4. Max({After(a, s), Summary(a, s).through})
        = IF After(a, s) >= Summary(a, s).through THEN After(a, s) ELSE Summary(a, s).through
  BY <1>3, MaxOfTwo
<1> QED BY <1>2, <1>4 DEF Summary, Unread

LEMMA FittingIsUnread ==
    ASSUME NEW a, NEW s, NEW limit
    PROVE  Fitting(a, s, limit) \subseteq Unread(a, s)
BY DEF Fitting, Kept

\* A packet into which everything unread fits is whole.
LEMMA PacketIsWhole ==
    ASSUME RoomType, Summaries, NEW a \in Agent, NEW s \in 1..high, NEW limit,
           Unread(a, s) \subseteq Fitting(a, s, limit)
    PROVE  Packet(a, s, limit) \in PacketRow /\ Whole(Packet(a, s, limit), s, a)
<1> DEFINE u == Usable(s)
           y == Summary(a, s)
           from == After(a, s)
           p == Packet(a, s, limit)
<1>1. /\ p.after = from /\ p.reset = reset
      /\ p.messages = y.covers \cup Unread(a, s) \cup ancestors[s] \cup {s}
      /\ p = [after |-> p.after, reset |-> p.reset, messages |-> p.messages]
  BY FittingIsUnread DEF Packet
<1>t. s \in Nat \ {0} BY DEF RoomType
<1>2. /\ from \in Nat /\ from <= s /\ (from <= cursor[a] \/ from <= reset)
      /\ from = s \/ (from >= cursor[a] /\ from >= reset)
  BY <1>t, UnreadBegins
<1>3. /\ y = u \/ y = NoSummary
      /\ u.through > from => y = u
      /\ y \in SummaryRow
      /\ Unread(a, s) = ((IF from >= y.through THEN from ELSE y.through) + 1 .. s - 1) \ ancestors[s]
  BY <1>t, UnreadIs
<1>4. /\ u \in SummaryRow /\ u.through <= s
      /\ u = NoSummary \/ (u.through > reset /\ u.covers = (reset + 1)..u.through)
  BY <1>t, UsableSummary
<1>5. reset \in Nat BY DEF RoomType
<1>6. y.covers \subseteq Nat /\ y.through \in Nat BY <1>3 DEF SummaryRow
<1>7. y = NoSummary \/ (y.through > reset /\ y.through <= s /\ y.covers = (reset + 1)..y.through)
  BY <1>3, <1>4
<1>8. NoSummary.covers = {} /\ NoSummary.through = 0 BY DEF NoSummary
<1>a. ancestors[s] \subseteq Nat BY DEF RoomType
<1>9. p \in PacketRow
  <2>1. Unread(a, s) \subseteq Nat BY <1>t, <1>2, <1>3, <1>6
  <2>2. p.messages \subseteq Nat BY <1>t, <1>a, <1>1, <1>6, <2>1
  <2> HIDE DEF p
  <2> QED BY <1>1, <1>2, <1>5, <2>2 DEF PacketRow
<1>10. (p.after + 1)..s \subseteq p.messages
  <2> SUFFICES ASSUME NEW k \in (from + 1)..s PROVE k \in p.messages BY <1>1
  <2>1. k \in Nat /\ from < k /\ k <= s BY <1>t, <1>2
  <2>2. from >= reset BY <1>2, <1>5, <2>1
  <2> HIDE DEF p, y, u, from
  <2>3. CASE k = s BY <1>1, <2>3
  <2>4. CASE k # s /\ k <= y.through
    <3>1. y # NoSummary BY <1>6, <1>8, <2>1, <2>4, <1>2
    <3>2. k \in (reset + 1)..y.through BY <1>5, <1>6, <2>1, <2>2, <2>4, <1>2
    <3> QED BY <1>1, <1>7, <3>1, <3>2
  <2>5. CASE k # s /\ k > y.through
    <3>1. k \in Unread(a, s) \cup ancestors[s] BY <1>t, <1>2, <1>3, <1>6, <2>1, <2>5
    <3> QED BY <1>1, <3>1
  <2> QED BY <2>1, <2>3, <2>4, <2>5, <1>6
<1>11. p.messages \cap 1..p.reset \subseteq ancestors[s] \cup {s}
  <2> SUFFICES ASSUME NEW k \in 1..reset, k \in p.messages, k # s, k \notin ancestors[s]
               PROVE  FALSE
    BY <1>1
  <2>1. k \in Nat /\ k <= reset BY <1>5
  <2> HIDE DEF p, y, u, from
  <2>2. CASE k \in y.covers
    <3>1. y # NoSummary BY <1>8, <2>2
    <3> QED BY <1>5, <1>6, <1>7, <2>1, <2>2, <3>1
  <2>3. CASE k \in Unread(a, s)
    <3>1. from < k /\ k < s BY <1>t, <1>2, <1>3, <1>6, <2>1, <2>3
    <3> QED BY <1>2, <1>5, <2>1, <3>1
  <2> QED BY <1>1, <2>2, <2>3
<1> HIDE DEF p, from, y, u
<1>12. Whole(p, s, a) BY <1>1, <1>2, <1>5, <1>10, <1>11 DEF Whole
<1> QED BY <1>9, <1>12 DEF p

\* Where there is nothing to roll up, nothing is unread.
LEMMA NothingUnread ==
    ASSUME RoomType, Summaries, NEW a \in Agent, NEW s \in Nat \ {0}, ~HasCompactableHistory(a, s)
    PROVE  Unread(a, s) = {}
<1> DEFINE u == Usable(s)
           y == Summary(a, s)
           from == After(a, s)
           m == Max({cursor[a], u.through, reset})
<1>1. u \in SummaryRow BY UsableSummary
<1>2. cursor[a] \in Nat /\ reset \in Nat /\ u.through \in Nat BY <1>1 DEF RoomType, SummaryRow
<1>3. m \in Nat /\ (m = cursor[a] \/ m = u.through \/ m = reset) BY <1>2, MaxOfThree
<1>4. m + 1 >= s BY <1>3 DEF HasCompactableHistory
<1>5. /\ from \in Nat /\ from <= s
      /\ from = s \/ (from >= cursor[a] /\ from >= reset)
  BY UnreadBegins
<1>6. /\ u.through > from => y = u
      /\ y \in SummaryRow
      /\ Unread(a, s) = ((IF from >= y.through THEN from ELSE y.through) + 1 .. s - 1) \ ancestors[s]
  BY UnreadIs
<1>7. y.through \in Nat BY <1>6 DEF SummaryRow
<1> HIDE DEF m, u, y, from
<1>8. from + 1 >= s \/ y.through + 1 >= s BY <1>2, <1>3, <1>4, <1>5, <1>6, <1>7
<1> QED BY <1>5, <1>6, <1>7, <1>8

----------------------------------------------------------------------------
(* Compactions *)

\* The messages a compaction reads go on from where the summary ends.
LEMMA ChunkSelected ==
    ASSUME NEW after \in Nat, NEW cutoff \in Nat, after < cutoff
    PROVE  /\ Max(Selected(after, cutoff)) \in Nat
           /\ after < Max(Selected(after, cutoff)) /\ Max(Selected(after, cutoff)) <= cutoff
<1> DEFINE S == Selected(after, cutoff)
<1>1. S \subseteq (after + 1)..cutoff BY DEF Selected
<1>2. after + 1 \in S BY DEF Selected
<1> HIDE DEF S
<1>3. Max(S) \in S
  <2>1. S \in SUBSET Nat /\ S # {} /\ \A k \in S : k <= cutoff BY <1>1, <1>2
  <2> QED BY <2>1, GreatestNumber
<1>4. Max(S) \in (after + 1)..cutoff BY <1>1, <1>3
<1> QED BY <1>4 DEF S

LEMMA ChunkStarts ==
    ASSUME RoomType, Summaries, NEW through \in Nat, NEW cutoff \in Nat, cutoff <= high,
           ~NothingToCompact(through, cutoff), StartChunk(through, cutoff),
           UNCHANGED <<high, reset>>
    PROVE  /\ Flight' /\ flight'.pc # "idle"
           /\ \E n \in Nat : FlushBeforeCompaction(n)
<1> DEFINE u == Usable(through)
           after == Max({u.through, reset})
           last == Max(Selected(after, cutoff))
<1>1. /\ u \in SummaryRow /\ u.from <= u.through
      /\ u = NoSummary \/ (u.through > reset /\ u.covers = (reset + 1)..u.through)
  BY UsableSummary
<1>2. u.through \in Nat /\ reset \in Nat /\ high \in Nat BY <1>1 DEF RoomType, SummaryRow
<1>3. after = IF u.through >= reset THEN u.through ELSE reset BY <1>2, MaxOfTwo
<1>4. after \in Nat /\ after < cutoff
  <2>1. ~(cutoff <= after) BY DEF NothingToCompact
  <2> QED BY <1>2, <1>3, <2>1
<1>5. last \in Nat /\ after < last /\ last <= cutoff BY <1>4, ChunkSelected
<1>6. FlushBeforeCompaction(last) BY DEF StartChunk
<1>7. PICK pc \in {"flushing", "generating"} :
        flight' = [pc |-> pc, after |-> after, through |-> last, previous |-> u,
                   left |-> CompactionAttempts, agents |-> Cardinality(Agent)]
  BY DEF StartChunk
<1> HIDE DEF u, after, last
<1>8. u.covers \cup (after + 1)..last = (reset + 1)..last
  <2>1. CASE u = NoSummary
    <3>1. u.covers = {} /\ u.through = 0 BY <2>1 DEF NoSummary
    <3>2. after = reset BY <1>2, <1>3, <3>1
    <3> QED BY <3>1, <3>2
  <2>2. CASE u # NoSummary
    <3>1. after = u.through /\ u.through > reset /\ u.covers = (reset + 1)..u.through
      BY <1>1, <1>2, <1>3, <2>2
    <3>2. (reset + 1)..u.through \cup (u.through + 1)..last = (reset + 1)..last
      BY <1>2, <1>4, <1>5, <3>1
    <3> QED BY <3>1, <3>2
  <2> QED BY <2>1, <2>2
<1>9. reset <= after /\ u.through <= after BY <1>2, <1>3
<1>10. last <= high BY <1>2, <1>5
<1>11. Flight' BY <1>1, <1>2, <1>4, <1>5, <1>7, <1>8, <1>9, <1>10 DEF Flight
<1> QED BY <1>5, <1>6, <1>7, <1>11

\* What the compaction brings takes the place of the summary it was made from.
LEMMA ReplacementIsWhole ==
    ASSUME RoomType, Flight, flight.pc # "idle", summary' = Replacement, UNCHANGED <<high, reset>>
    PROVE  Summaries'
<1> DEFINE f == flight
           new == f.previous.covers \cup (f.after + 1)..f.through
<1>1. /\ f.after \in Nat /\ f.through \in Nat /\ f.previous \in SummaryRow
      /\ f.previous.from <= f.previous.through /\ f.previous.through <= f.after
      /\ f.after < f.through /\ f.through <= high
      /\ f.through > reset => new = (reset + 1)..f.through
  BY DEF Flight
<1>2. f.previous.from \in Nat /\ f.previous.through \in Nat /\ f.previous.covers \subseteq Nat
  BY <1>1 DEF SummaryRow
<1>3. new \subseteq Nat BY <1>1, <1>2
<1> DEFINE from == IF f.previous = NoSummary THEN f.after + 1 ELSE f.previous.from
<1>4. from \in Nat /\ from <= f.through BY <1>1, <1>2
<1>5. summary' = [from |-> from, through |-> f.through, covers |-> new] BY DEF Replacement
<1> HIDE DEF new, from
<1> QED BY <1>1, <1>3, <1>4, <1>5 DEF Summaries, SummaryRow

----------------------------------------------------------------------------
(* What a step leaves alone stays as it should be *)

LEMMA SummariesStay ==
    ASSUME RoomType, Summaries, UNCHANGED <<summary, reset>>, high' \in Nat, high <= high'
    PROVE  Summaries'
BY DEF RoomType, Summaries, SummaryRow

LEMMA FlightStays ==
    ASSUME RoomType, Flight, UNCHANGED <<flight, reset>>, high' \in Nat, high <= high'
    PROVE  Flight'
BY DEF RoomType, Flight

LEMMA PreparesStays ==
    ASSUME NEW a \in Agent, Prepares(a),
           lane'[a] = lane[a], queue'[a] = queue[a], cursor'[a] = cursor[a], reset' = reset,
           queue[a] # <<>> => ancestors'[Head(queue[a])] = ancestors[Head(queue[a])]
    PROVE  Prepares(a)'
BY DEF Prepares, Whole

\* An idle lane, one that runs a Turn.
LEMMA NothingPrepared ==
    ASSUME NEW a \in Agent, lane'[a].pc \in {"idle", "running"}
    PROVE  Prepares(a)'
BY DEF Prepares

LEMMA PreparesAgain ==
    ASSUME NEW a \in Agent, lane'[a].pc \in {"building", "waiting"}, queue'[a] # <<>>
    PROVE  Prepares(a)'
BY DEF Prepares

LEMMA IdleRow == IdleLane \in LaneRow /\ IdleLane.pc = "idle" /\ IdleLane.source = 0
BY DEF IdleLane, NoPacket, LaneRow, LanePc, PacketRow

LEMMA QueueTail ==
    ASSUME RoomType, NEW a \in Agent, queue[a] # <<>>
    PROVE  /\ Tail(queue[a]) \in Seq(1..high)
           /\ Head(queue[a]) \in 1..high
BY HeadTailProperties DEF RoomType

----------------------------------------------------------------------------
(* The steps of a lane *)

LEMMA LaneMoves ==
    ASSUME NEW f \in [Agent -> LaneRow], NEW a \in Agent, NEW pc \in LanePc
    PROVE  LET g == [f EXCEPT ![a].pc = pc]
           IN  /\ g \in [Agent -> LaneRow] /\ g[a].pc = pc /\ g[a].source = f[a].source
               /\ \A b \in Agent \ {a} : g[b] = f[b]
<1> DEFINE r == f[a]
           row == [r EXCEPT !.pc = pc]
           g == [f EXCEPT ![a].pc = pc]
<1>1. r \in LaneRow OBVIOUS
<1>2. row \in LaneRow /\ row.pc = pc /\ row.source = r.source
  <2> HIDE DEF r
  <2> QED BY <1>1 DEF LaneRow
<1>3. g = [f EXCEPT ![a] = row] OBVIOUS
<1> HIDE DEF row
<1> QED BY <1>2, <1>3

\* A lane gives its Turn up, or is ready for it.
LEMMA FailLaneStep ==
    ASSUME ContextInvariant, NEW a \in Agent, queue[a] # <<>>, FailLane(a)
    PROVE  ContextInvariant'
<1> USE DEF ContextInvariant, RoomInvariant
<1>1. UNCHANGED <<high, ancestors, reset, summary, cursor, flight, manual, missed>> /\ UNCHANGED datedVars
      /\ lane' = [lane EXCEPT ![a] = IdleLane] /\ queue' = [queue EXCEPT ![a] = Tail(@)]
  BY DEF FailLane
<1>2. high \in Nat BY DEF RoomType
<1>3. DatedInvariant' BY <1>1, <1>2, DatedStep
<1>4. RoomType'
  <2>1. lane' \in [Agent -> LaneRow] /\ \A b \in Agent : lane'[b].source \in 0..high
    BY <1>1, <1>2, IdleRow DEF RoomType
  <2>2. queue' \in [Agent -> Seq(1..high)] BY <1>1, QueueTail DEF RoomType
  <2> QED BY <1>1, <2>1, <2>2 DEF RoomType
<1>5. Summaries' /\ Flight' BY <1>1, <1>2, SummariesStay, FlightStays
<1>6. ASSUME NEW b \in Agent PROVE Prepares(b)'
  <2>1. CASE b = a
    <3>1. lane'[b].pc = "idle" BY <1>1, <2>1, IdleRow DEF RoomType
    <3> QED BY <3>1, NothingPrepared
  <2>2. CASE b # a
    <3>1. lane'[b] = lane[b] /\ queue'[b] = queue[b] BY <1>1, <2>2 DEF RoomType
    <3> QED BY <1>1, <3>1, PreparesStays
  <2> QED BY <2>1, <2>2
<1>7. Waits'
  <2>1. \A b \in Agent : lane'[b].pc = "waiting" => lane[b].pc = "waiting"
    BY <1>1, IdleRow DEF RoomType
  <2> QED BY <1>1, <2>1 DEF Waits
<1> QED BY <1>3, <1>4, <1>5, <1>6, <1>7

LEMMA ReadyStep ==
    ASSUME ContextInvariant, NEW a \in Agent, queue[a] # <<>>, NEW limit,
           Unread(a, Head(queue[a])) \subseteq Fitting(a, Head(queue[a]), limit),
           PacketReady(a, limit)
    PROVE  ContextInvariant'
<1> USE DEF ContextInvariant, RoomInvariant
<1> DEFINE s == Head(queue[a])
           p == Packet(a, s, limit)
<1>1. UNCHANGED <<high, ancestors, reset, summary, cursor, queue, flight, manual, missed>> /\ UNCHANGED datedVars
      /\ lane' = [lane EXCEPT ![a].pc = "ready", ![a].packet = p]
  BY DEF PacketReady, roomVars
<1>2. high \in Nat /\ s \in 1..high BY QueueTail DEF RoomType
<1>3. p \in PacketRow /\ Whole(p, s, a) BY <1>2, PacketIsWhole
<1>4. DatedInvariant' BY <1>1, <1>2, DatedStep
<1> HIDE DEF p
<1>5. /\ lane' \in [Agent -> LaneRow] /\ lane'[a].pc = "ready" /\ lane'[a].packet = p
      /\ lane'[a].source = lane[a].source
      /\ \A b \in Agent \ {a} : lane'[b] = lane[b]
  <2> DEFINE r == lane[a]
             row == [[r EXCEPT !.pc = "ready"] EXCEPT !.packet = p]
  <2>1. lane \in [Agent -> LaneRow] BY DEF RoomType
  <2>2. row \in LaneRow /\ row.pc = "ready" /\ row.packet = p /\ row.source = r.source
    <3>1. r \in LaneRow BY <2>1
    <3> HIDE DEF r
    <3> QED BY <1>3, <3>1 DEF LaneRow, LanePc
  <2>3. lane' = [lane EXCEPT ![a] = row] BY <1>1, <2>1
  <2> HIDE DEF row
  <2> QED BY <2>1, <2>2, <2>3
<1>6. RoomType'
  <2>1. \A b \in Agent : lane'[b].source \in 0..high BY <1>5 DEF RoomType
  <2> QED BY <1>1, <1>5, <2>1 DEF RoomType
<1>7. Summaries' /\ Flight' BY <1>1, <1>2, SummariesStay, FlightStays
<1>8. ASSUME NEW b \in Agent PROVE Prepares(b)'
  <2>1. CASE b = a
    <3>1. lane'[a].packet = p /\ lane'[a].pc = "ready" BY <1>5
    <3>2. queue'[a] = queue[a] /\ cursor'[a] = cursor[a] /\ reset' = reset /\ ancestors' = ancestors
      BY <1>1
    <3>3. Whole(p, s, a) <=> (/\ p.reset <= reset' /\ (p.after <= cursor'[a] \/ p.after <= p.reset)
                              /\ (p.after + 1)..Head(queue'[a]) \subseteq p.messages
                              /\ p.messages \cap 1..p.reset
                                   \subseteq ancestors'[Head(queue'[a])] \cup {Head(queue'[a])})
      BY <3>2 DEF Whole
    <3> QED BY <1>3, <2>1, <3>1, <3>2, <3>3 DEF Prepares, Whole
  <2>2. CASE b # a
    <3>1. lane'[b] = lane[b] BY <1>1, <2>2 DEF RoomType
    <3> QED BY <1>1, <3>1, PreparesStays
  <2> QED BY <2>1, <2>2
<1>9. Waits'
  <2>1. \A b \in Agent : lane'[b].pc = "waiting" => lane[b].pc = "waiting"
    BY <1>5 DEF RoomType
  <2> QED BY <1>1, <2>1 DEF Waits
<1> QED BY <1>4, <1>6, <1>7, <1>8, <1>9

\* A lane joins the compaction there is, or starts one.
LEMMA CompactForStep ==
    ASSUME ContextInvariant, NEW a \in Agent, queue[a] # <<>>,
           NEW cutoff \in Nat, cutoff < Head(queue[a]), CompactFor(a, cutoff)
    PROVE  ContextInvariant'
<1> USE DEF ContextInvariant, RoomInvariant
<1> DEFINE s == Head(queue[a])
<1>1. high \in Nat /\ s \in 1..high BY QueueTail DEF RoomType
<1>2. CASE FailLane(a) BY <1>2, FailLaneStep
<1>3. CASE ~FailLane(a)
  <2>1. /\ UNCHANGED <<high, ancestors, reset, summary, cursor, queue, manual, missed>>
        /\ flight.pc # "idle" \/ ~NothingToCompact(s, cutoff)
        /\ lane' = [lane EXCEPT ![a].pc = "waiting"]
        /\ IF flight.pc # "idle" THEN UNCHANGED <<flight, datedVars>> ELSE StartChunk(s, cutoff)
    BY <1>3 DEF CompactFor, roomVars
  <2>2. DatedInvariant' /\ Flight' /\ flight'.pc # "idle"
    <3>1. CASE flight.pc # "idle"
      <4>1. UNCHANGED flight /\ UNCHANGED datedVars BY <2>1, <3>1
      <4> QED BY <1>1, <2>1, <3>1, <4>1, DatedStep, FlightStays
    <3>2. CASE flight.pc = "idle"
      <4>1. StartChunk(s, cutoff) /\ ~NothingToCompact(s, cutoff) BY <2>1, <3>2
      <4>2. cutoff <= high /\ s \in Nat BY <1>1
      <4>3. Flight' /\ flight'.pc # "idle" /\ \E n \in Nat : FlushBeforeCompaction(n)
        BY <2>1, <4>1, <4>2, ChunkStarts
      <4> QED BY <1>1, <2>1, <4>3, DatedStep
    <3> QED BY <3>1, <3>2
  <2>3. /\ lane' \in [Agent -> LaneRow] /\ lane'[a].pc = "waiting" /\ lane'[a].source = lane[a].source
        /\ \A b \in Agent \ {a} : lane'[b] = lane[b]
    <3>1. lane \in [Agent -> LaneRow] /\ "waiting" \in LanePc BY DEF RoomType, LanePc
    <3>2. LET g == [lane EXCEPT ![a].pc = "waiting"]
          IN  /\ g \in [Agent -> LaneRow] /\ g[a].pc = "waiting" /\ g[a].source = lane[a].source
              /\ \A b \in Agent \ {a} : g[b] = lane[b]
      BY <3>1, LaneMoves
    <3> QED BY <2>1, <3>2
  <2>4. RoomType'
    <3>1. \A b \in Agent : lane'[b].source \in 0..high BY <2>3 DEF RoomType
    <3> QED BY <2>1, <2>3, <3>1 DEF RoomType
  <2>5. Summaries' BY <1>1, <2>1, SummariesStay
  <2>6. ASSUME NEW b \in Agent PROVE Prepares(b)'
    <3>1. CASE b = a
      <4>1. lane'[b].pc = "waiting" /\ queue'[b] # <<>> BY <2>1, <2>3, <3>1 DEF RoomType
      <4> QED BY <4>1, PreparesAgain
    <3>2. CASE b # a
      <4>1. lane'[b] = lane[b] BY <2>3, <3>2 DEF RoomType
      <4> QED BY <2>1, <4>1, PreparesStays
    <3> QED BY <3>1, <3>2
  <2>7. Waits' BY <2>2 DEF Waits
  <2> QED BY <2>2, <2>4, <2>5, <2>6, <2>7
<1> QED BY <1>2, <1>3

LEMMA BuildStep ==
    ASSUME ContextInvariant, NEW a \in Agent, Build(a)
    PROVE  ContextInvariant'
<1> DEFINE s == Head(queue[a])
           kept == Fitting(a, s, Soft)
<1>1. queue[a] # <<>> BY DEF Build
<1>2. RoomType /\ Summaries BY DEF ContextInvariant, RoomInvariant
<1>3. s \in 1..high /\ s \in Nat \ {0} /\ s - 1 \in Nat BY <1>1, <1>2, QueueTail DEF RoomType
<1>4. CASE FailLane(a) BY <1>1, <1>4, FailLaneStep
<1>5. CASE ~HasCompactableHistory(a, s) /\ PacketReady(a, Hard)
  <2>1. Unread(a, s) = {} BY <1>2, <1>3, <1>5, NothingUnread
  <2> QED BY <1>1, <1>5, <2>1, ReadyStep
<1>6. CASE Unread(a, s) = kept /\ PacketReady(a, Soft) BY <1>1, <1>6, ReadyStep
<1>7. CASE CompactFor(a, s - 1)
  <2>1. s - 1 < s BY <1>3
  <2> QED BY <1>1, <1>3, <1>7, <2>1, CompactForStep
<1>8. CASE CompactFor(a, Min(kept \cup {s}) - 1)
  <2>1. kept \cup {s} \subseteq 1..s
    <3>1. kept \subseteq Unread(a, s) BY FittingIsUnread
    <3>2. /\ After(a, s) \in Nat /\ Summary(a, s).through \in Nat
          /\ Unread(a, s) = ((IF After(a, s) >= Summary(a, s).through
                              THEN After(a, s) ELSE Summary(a, s).through) + 1 .. s - 1)
                             \ ancestors[s]
      BY <1>2, <1>3, UnreadBegins, UnreadIs DEF SummaryRow
    <3>3. Unread(a, s) \subseteq 1..s BY <1>3, <3>2
    <3> QED BY <1>3, <3>1, <3>3
  <2> DEFINE m == Min(kept \cup {s})
  <2> HIDE DEF kept
  <2>2. m \in 1..s
    <3>1. kept \cup {s} \in SUBSET Nat /\ kept \cup {s} # {} BY <2>1
    <3> QED BY <2>1, <3>1, LeastNumber
  <2>3. CompactFor(a, m - 1) BY <1>8 DEF kept
  <2> HIDE DEF m
  <2>4. m - 1 \in Nat /\ m - 1 < s BY <1>3, <2>2
  <2> QED BY <1>1, <2>3, <2>4, CompactForStep
<1> QED BY <1>4, <1>5, <1>6, <1>7, <1>8 DEF Build

----------------------------------------------------------------------------
(* The steps of a compaction *)

\* The lanes that waited go on.
LEMMA FlightEndsStep ==
    ASSUME RoomInvariant, Summaries', FlightEnds, UNCHANGED <<high, ancestors, reset, cursor, missed>>
    PROVE  RoomInvariant'
<1> USE DEF RoomInvariant
<1> DEFINE On(r) == IF r.pc = "waiting" THEN [r EXCEPT !.pc = "building", !.pass = @ + 1] ELSE r
<1>1. lane' = [a \in Agent |-> On(lane[a])] /\ flight' = NoFlight /\ UNCHANGED queue
  BY DEF FlightEnds
<1>2. ASSUME NEW r \in LaneRow
      PROVE  /\ On(r) \in LaneRow /\ On(r).pc # "waiting" /\ On(r).source = r.source
             /\ r.pc = "waiting" => On(r).pc = "building"
             /\ r.pc # "waiting" => On(r) = r
  <2> DEFINE o == [r EXCEPT !.pc = "building", !.pass = @ + 1]
  <2>1. o = [pc |-> "building", source |-> r.source, pass |-> r.pass + 1, packet |-> r.packet]
    <3>1. r = [pc |-> r.pc, source |-> r.source, pass |-> r.pass, packet |-> r.packet]
      BY DEF LaneRow
    <3>2. o = [r EXCEPT !.pc = "building", !.pass = @ + 1] OBVIOUS
    <3> HIDE DEF o
    <3> QED BY ONLY <3>1, <3>2
  <2>2. r.source \in Nat /\ r.pass + 1 \in Nat /\ r.packet \in PacketRow BY DEF LaneRow
  <2> QED BY <2>1, <2>2 DEF LaneRow, LanePc
<1> HIDE DEF On
<1>3. manual' \in ManualRow /\ manual'.through = manual.through /\ manual'.cutoff = manual.cutoff
      /\ manual'.pc # "waiting"
  BY DEF FlightEnds, RoomType, ManualRow
<1>4. RoomType'
  <2>1. \A a \in Agent : lane[a] \in LaneRow /\ lane'[a] = On(lane[a]) BY <1>1 DEF RoomType
  <2>2. lane' \in [Agent -> LaneRow] BY <1>1, <1>2, <2>1
  <2>3. \A a \in Agent : lane'[a].source \in 0..high BY <1>2, <2>1 DEF RoomType
  <2> QED BY <1>1, <1>3, <2>2, <2>3 DEF RoomType
<1>5. Flight' BY <1>1 DEF Flight, NoFlight
<1>6. ASSUME NEW a \in Agent PROVE Prepares(a)'
  <2>1. lane[a] \in LaneRow /\ lane'[a] = On(lane[a]) BY <1>1 DEF RoomType
  <2>2. CASE lane[a].pc = "waiting"
    <3>1. lane'[a].pc = "building" /\ queue'[a] # <<>> BY <1>1, <1>2, <2>1, <2>2 DEF Prepares
    <3> QED BY <3>1, PreparesAgain
  <2>3. CASE lane[a].pc # "waiting"
    <3>1. lane'[a] = lane[a] BY <1>2, <2>1, <2>3
    <3> QED BY <1>1, <3>1, PreparesStays
  <2> QED BY <2>2, <2>3
<1>7. Waits' BY <1>1, <1>2, <1>3 DEF Waits, RoomType
<1> QED BY <1>4, <1>5, <1>6, <1>7

\* The Turns of the lanes that waited fail.
LEMMA FlightFailsStep ==
    ASSUME RoomInvariant, FlightFails, UNCHANGED <<high, ancestors, reset, summary, cursor, missed>>
    PROVE  RoomInvariant'
<1> USE DEF RoomInvariant
<1>1. /\ lane' = [a \in Agent |-> IF lane[a].pc = "waiting" THEN IdleLane ELSE lane[a]]
      /\ queue' = [a \in Agent |-> IF lane[a].pc = "waiting" THEN Tail(queue[a]) ELSE queue[a]]
      /\ flight' = NoFlight
  BY DEF FlightFails
<1>2. high \in Nat BY DEF RoomType
<1>3. manual' \in ManualRow /\ manual'.through <= high /\ manual'.cutoff <= high
      /\ manual'.pc # "waiting"
  BY <1>2 DEF FlightFails, RoomType, ManualRow, NoManual
<1>4. RoomType'
  <2>1. \A a \in Agent : lane[a].pc = "waiting" => queue[a] # <<>> BY DEF Prepares
  <2>2. queue' \in [Agent -> Seq(1..high)] BY <1>1, <2>1, QueueTail DEF RoomType
  <2>3. lane' \in [Agent -> LaneRow] /\ \A b \in Agent : lane'[b].source \in 0..high
    BY <1>1, <1>2, IdleRow DEF RoomType
  <2> QED BY <1>3, <2>2, <2>3 DEF RoomType
<1>5. Summaries' BY <1>2, SummariesStay
<1>6. Flight' BY <1>1 DEF Flight, NoFlight
<1>7. ASSUME NEW a \in Agent PROVE Prepares(a)'
  <2>1. CASE lane[a].pc = "waiting"
    <3>1. lane'[a].pc = "idle" BY <1>1, <2>1, IdleRow
    <3> QED BY <3>1, NothingPrepared
  <2>2. CASE lane[a].pc # "waiting"
    <3>1. lane'[a] = lane[a] /\ queue'[a] = queue[a] BY <1>1, <2>2
    <3> QED BY <3>1, PreparesStays
  <2> QED BY <2>1, <2>2
<1>8. Waits' BY <1>1, <1>3, IdleRow DEF Waits
<1> QED BY <1>4, <1>5, <1>6, <1>7, <1>8

\* The compaction goes on with the same messages.
LEMMA FlightMovesStep ==
    ASSUME RoomInvariant, flight.pc # "idle", UNCHANGED <<roomVars, lane, manual, missed>>,
           flight' = [pc |-> flight'.pc, after |-> flight.after, through |-> flight.through,
                      previous |-> flight.previous, left |-> flight'.left, agents |-> flight'.agents],
           flight'.pc \in {"flushing", "generating", "retrying"}
    PROVE  RoomInvariant'
<1> USE DEF RoomInvariant
<1>1. UNCHANGED <<high, ancestors, reset, summary, cursor, queue, lane, manual, missed>> BY DEF roomVars
<1>2. high \in Nat BY DEF RoomType
<1>3. RoomType' BY <1>1 DEF RoomType
<1>4. Summaries' BY <1>1, <1>2, SummariesStay
<1>5. Flight' BY <1>1 DEF Flight
<1>6. \A a \in Agent : Prepares(a)' BY <1>1, PreparesStays
<1>7. Waits' BY DEF Waits
<1> QED BY <1>3, <1>4, <1>5, <1>6, <1>7

LEMMA CompactionStep ==
    ASSUME ContextInvariant,
           \/ FlushSettles \/ CompactionGenerated \/ AgentFails \/ CompactionFails
           \/ RetryCompaction \/ CompactionAborted
    PROVE  ContextInvariant'
<1> USE DEF ContextInvariant
<1>1. high' = high /\ UNCHANGED <<ancestors, reset, cursor, missed>> /\ UNCHANGED datedVars
  BY DEF FlushSettles, CompactionGenerated, AgentFails, CompactionFails, RetryCompaction,
     CompactionAborted, roomVars
<1>2. high \in Nat BY DEF RoomInvariant, RoomType
<1>3. DatedInvariant' BY <1>1, <1>2, DatedStep
<1>4. /\ flight = [pc |-> flight.pc, after |-> flight.after, through |-> flight.through,
                   previous |-> flight.previous, left |-> flight.left, agents |-> flight.agents]
  BY DEF RoomInvariant, Flight
<1>5. CASE FlushSettles
  <2>1. UNCHANGED <<roomVars, lane, manual, missed>> /\ flight.pc # "idle" BY <1>5 DEF FlushSettles
  <2>2. flight' = [flight EXCEPT !.pc = "generating"] BY <1>5 DEF FlushSettles
  <2>3. flight' = [pc |-> "generating", after |-> flight.after, through |-> flight.through,
                   previous |-> flight.previous, left |-> flight.left, agents |-> flight.agents]
    BY <1>4, <2>2
  <2> QED BY <1>3, <2>1, <2>3, FlightMovesStep
<1>6. CASE AgentFails
  <2>1. UNCHANGED <<roomVars, lane, manual, missed>> /\ flight.pc # "idle" BY <1>6 DEF AgentFails
  <2>2. flight' = [flight EXCEPT !.agents = @ - 1] /\ flight.pc = "generating"
    BY <1>6 DEF AgentFails
  <2>3. flight' = [pc |-> "generating", after |-> flight.after, through |-> flight.through,
                   previous |-> flight.previous, left |-> flight.left, agents |-> flight.agents - 1]
    BY <1>4, <2>2
  <2> QED BY <1>3, <2>1, <2>3, FlightMovesStep
<1>7. CASE RetryCompaction
  <2>1. UNCHANGED <<roomVars, lane, manual, missed>> /\ flight.pc # "idle"
    BY <1>7 DEF RetryCompaction
  <2>2. flight' = [flight EXCEPT !.pc = "generating", !.agents = Cardinality(Agent)]
    BY <1>7 DEF RetryCompaction
  <2>3. flight' = [pc |-> "generating", after |-> flight.after, through |-> flight.through,
                   previous |-> flight.previous, left |-> flight.left,
                   agents |-> Cardinality(Agent)]
    BY <1>4, <2>2
  <2> QED BY <1>3, <2>1, <2>3, FlightMovesStep
<1>8. CASE CompactionFails
  <2>1. flight.pc = "generating" /\ UNCHANGED summary BY <1>8 DEF CompactionFails
  <2>2. CASE FlightFails BY <1>1, <1>3, <2>1, <2>2, FlightFailsStep
  <2>3. CASE ~FlightFails
    <3>1. /\ flight' = [flight EXCEPT !.pc = "retrying", !.left = @ - 1]
          /\ UNCHANGED <<lane, manual, queue>>
      BY <1>8, <2>3 DEF CompactionFails
    <3>2. flight' = [pc |-> "retrying", after |-> flight.after, through |-> flight.through,
                     previous |-> flight.previous, left |-> flight.left - 1,
                     agents |-> flight.agents]
      BY <1>4, <3>1
    <3>3. UNCHANGED <<roomVars, lane, manual, missed>> BY <1>1, <2>1, <3>1 DEF roomVars
    <3> QED BY <1>3, <2>1, <3>2, <3>3, FlightMovesStep
  <2> QED BY <2>2, <2>3
<1>9. CASE CompactionAborted
  <2>1. FlightFails /\ UNCHANGED summary BY <1>9 DEF CompactionAborted
  <2> QED BY <1>1, <1>3, <2>1, FlightFailsStep
<1>10. CASE CompactionGenerated
  <2>1. CASE Replaceable
    <3>1. flight.pc # "idle" /\ summary' = Replacement /\ FlightEnds
      BY <1>10, <2>1 DEF CompactionGenerated
    <3>2. Summaries' BY <1>1, <3>1, ReplacementIsWhole DEF RoomInvariant
    <3> QED BY <1>1, <1>3, <3>1, <3>2, FlightEndsStep
  <2>2. CASE ~Replaceable
    <3>1. FlightFails /\ UNCHANGED summary BY <1>10, <2>2 DEF CompactionGenerated
    <3> QED BY <1>1, <1>3, <3>1, FlightFailsStep
  <2> QED BY <2>1, <2>2
<1> QED BY <1>5, <1>6, <1>7, <1>8, <1>9, <1>10

----------------------------------------------------------------------------
(* The steps of users *)

\* The reset forgets the summary and overtakes the compaction.
LEMMA ResetStep == ASSUME ContextInvariant, Reset PROVE ContextInvariant'
<1> USE DEF ContextInvariant, RoomInvariant
<1>1. /\ reset' = high /\ reset < high /\ summary' = NoSummary
      /\ UNCHANGED <<high, ancestors, cursor, queue, lane, flight, manual, missed>> /\ UNCHANGED datedVars
  BY DEF Reset, prepVars
<1>2. high \in Nat /\ reset \in Nat BY DEF RoomType
<1>3. DatedInvariant' BY <1>1, <1>2, DatedStep
<1>4. RoomType' BY <1>1, <1>2 DEF RoomType
<1>5. Summaries' BY <1>1, <1>2 DEF Summaries, NoSummary, SummaryRow
<1>6. Flight'
  <2>1. flight.pc # "idle" => flight.through \in Nat /\ ~(flight.through > reset')
    BY <1>1, <1>2 DEF Flight
  <2> QED BY <1>1, <2>1 DEF Flight
<1>7. ASSUME NEW a \in Agent PROVE Prepares(a)'
  <2>1. lane[a].packet.reset \in Nat BY DEF RoomType, LaneRow, PacketRow
  <2>2. lane[a].packet.reset <= reset => lane[a].packet.reset <= reset' BY <1>1, <1>2, <2>1
  <2> QED BY <1>1, <2>2 DEF Prepares, Whole
<1>8. Waits' BY <1>1 DEF Waits
<1> QED BY <1>3, <1>4, <1>5, <1>6, <1>7, <1>8

LEMMA ManualPassStep ==
    ASSUME ContextInvariant, NEW asked \in ManualRow, asked.through <= high, asked.cutoff <= high,
           ManualPass(asked), UNCHANGED <<roomVars, lane, missed>>
    PROVE  ContextInvariant'
<1> USE DEF ContextInvariant, RoomInvariant
<1> DEFINE now == Usable(asked.through).through
           goes == [asked EXCEPT !.pc = "waiting", !.before = now, !.pass = @ + 1]
<1>1. UNCHANGED <<high, ancestors, reset, summary, cursor, queue, lane, missed>> BY DEF roomVars
<1>2. high \in Nat /\ asked.through \in Nat /\ asked.cutoff \in Nat BY DEF RoomType, ManualRow
<1>3. now \in Nat BY <1>2, UsableSummary DEF SummaryRow
<1> HIDE DEF now
<1>4. goes \in ManualRow /\ goes.through = asked.through /\ goes.cutoff = asked.cutoff
  <2>1. goes = [pc |-> "waiting", through |-> asked.through, cutoff |-> asked.cutoff,
                before |-> now, pass |-> asked.pass + 1]
    <3>1. asked = [pc |-> asked.pc, through |-> asked.through, cutoff |-> asked.cutoff,
                   before |-> asked.before, pass |-> asked.pass]
      BY DEF ManualRow
    <3>2. goes = [asked EXCEPT !.pc = "waiting", !.before = now, !.pass = @ + 1] OBVIOUS
    <3> HIDE DEF goes
    <3> QED BY ONLY <3>1, <3>2
  <2>2. asked.pass + 1 \in Nat BY DEF ManualRow
  <2> HIDE DEF goes
  <2> QED BY <1>2, <1>3, <2>1, <2>2 DEF ManualRow
<1> HIDE DEF goes
<1>5. /\ manual' \in ManualRow /\ manual'.through <= high /\ manual'.cutoff <= high
      /\ \/ UNCHANGED flight /\ UNCHANGED datedVars
         \/ /\ flight.pc = "idle" /\ ~NothingToCompact(asked.through, asked.cutoff)
            /\ StartChunk(asked.through, asked.cutoff)
      /\ manual'.pc = "waiting" => flight.pc # "idle" \/ StartChunk(asked.through, asked.cutoff)
  <2>1. CASE manual' = NoManual /\ UNCHANGED <<flight, datedVars>>
    BY <1>2, <2>1 DEF NoManual, ManualRow
  <2>2. CASE ~(manual' = NoManual /\ UNCHANGED <<flight, datedVars>>)
    <3>1. /\ manual' = goes
          /\ ~(flight.pc = "idle" /\ NothingToCompact(asked.through, asked.cutoff))
          /\ IF flight.pc # "idle" THEN UNCHANGED <<flight, datedVars>>
             ELSE StartChunk(asked.through, asked.cutoff)
      BY <2>2 DEF ManualPass, now, goes
    <3> QED BY <1>4, <3>1
  <2> QED BY <2>1, <2>2
<1>6. DatedInvariant' /\ Flight' /\ (flight'.pc = "idle" => UNCHANGED flight /\ manual'.pc # "waiting")
  <2>1. CASE UNCHANGED flight /\ UNCHANGED datedVars /\ (manual'.pc = "waiting" => flight.pc # "idle")
    BY <1>1, <1>2, <2>1, DatedStep, FlightStays
  <2>2. CASE /\ flight.pc = "idle" /\ ~NothingToCompact(asked.through, asked.cutoff)
             /\ StartChunk(asked.through, asked.cutoff)
    <3>1. Flight' /\ flight'.pc # "idle" /\ \E n \in Nat : FlushBeforeCompaction(n)
      BY <1>1, <1>2, <2>2, ChunkStarts
    <3> QED BY <1>1, <1>2, <3>1, DatedStep
  <2>3. CASE UNCHANGED flight /\ UNCHANGED datedVars /\ StartChunk(asked.through, asked.cutoff)
    <3>1. flight'.pc # "idle" BY <2>3 DEF StartChunk
    <3> QED BY <1>1, <1>2, <2>3, <3>1, DatedStep, FlightStays
  <2> QED BY <1>5, <2>1, <2>2, <2>3
<1>7. RoomType' BY <1>1, <1>5 DEF RoomType
<1>8. Summaries' BY <1>1, <1>2, SummariesStay
<1>9. \A a \in Agent : Prepares(a)' BY <1>1, PreparesStays
<1>10. Waits' BY <1>1, <1>6 DEF Waits
<1> QED BY <1>6, <1>7, <1>8, <1>9, <1>10

LEMMA ManualStep ==
    ASSUME ContextInvariant, CompactNow \/ ManualContinues
    PROVE  ContextInvariant'
<1>t. RoomType /\ Summaries BY DEF ContextInvariant, RoomInvariant
<1>1. CASE CompactNow
  <2> DEFINE u == Usable(high).through
             asked == [NoManual EXCEPT !.through = high, !.cutoff = high - Retain]
  <2>1. high \in Nat /\ reset \in Nat /\ Retain \in Nat BY <1>t, BudgetAssumption DEF RoomType
  <2>2. u \in Nat BY <1>t, <2>1, UsableSummary DEF SummaryRow
  <2>3. high - Max({u, reset}) > Retain BY <1>1 DEF CompactNow
  <2>4. Max({u, reset}) \in Nat BY <2>1, <2>2, MaxOfTwo
  <2> HIDE DEF u
  <2>5. high - Retain \in Nat /\ high - Retain <= high BY <2>1, <2>3, <2>4
  <2>6. asked \in ManualRow /\ asked.through = high /\ asked.cutoff = high - Retain
    BY <2>1, <2>5 DEF NoManual, ManualRow
  <2>7. ManualPass(asked) /\ UNCHANGED <<roomVars, lane, missed>> BY <1>1 DEF CompactNow
  <2> HIDE DEF asked
  <2> QED BY <2>1, <2>5, <2>6, <2>7, ManualPassStep
<1>2. CASE ManualContinues
  <2>1. ManualPass(manual) /\ UNCHANGED <<roomVars, lane, missed>> BY <1>2 DEF ManualContinues
  <2>2. manual \in ManualRow /\ manual.through <= high /\ manual.cutoff <= high
    BY <1>t DEF RoomType
  <2> QED BY <2>1, <2>2, ManualPassStep
<1> QED BY <1>1, <1>2

----------------------------------------------------------------------------
(* Messages and Turns *)

\* A queue that has a head keeps it when a message is posted.
LEMMA QueueGrows ==
    ASSUME NEW n \in Nat, NEW q \in Seq(1..n)
    PROVE  /\ q \in Seq(1..(n + 1))
           /\ Append(q, n + 1) \in Seq(1..(n + 1)) /\ Append(q, n + 1) # <<>>
           /\ q # <<>> => Head(Append(q, n + 1)) = Head(q)
<1>1. 1..n \subseteq 1..(n + 1) /\ n + 1 \in 1..(n + 1) OBVIOUS
<1>2. q \in Seq(1..(n + 1)) BY <1>1, SeqMonotonic
<1>3. Append(q, n + 1) \in Seq(1..(n + 1)) /\ Append(q, n + 1) # <<>>
  <2> DEFINE S == 1..(n + 1)
  <2>1. q \in Seq(S) /\ n + 1 \in S BY <1>1, <1>2
  <2> HIDE DEF S
  <2>2. Append(q, n + 1) \in Seq(S) /\ Append(q, n + 1) # <<>> BY <2>1, AppendProperties
  <2> QED BY <2>2 DEF S
<1>4. q # <<>> => Head(Append(q, n + 1)) = Head(q)
  <2>1. ASSUME q # <<>> PROVE Head(Append(q, n + 1)) = Head(q)
    <3>1. Len(q) \in Nat /\ Len(q) > 0 BY <1>2, <2>1, EmptySeq, LenProperties
    <3>2. Append(q, n + 1)[1] = q[1] BY <1>1, <1>2, <3>1, AppendProperties
    <3>3. Head(q) = q[1] BY <1>2, <2>1, HeadTailProperties
    <3>4. Head(Append(q, n + 1)) = Append(q, n + 1)[1] BY <1>3, HeadTailProperties
    <3> QED BY <3>2, <3>3, <3>4
  <2> QED BY <2>1
<1> QED BY <1>2, <1>3, <1>4

\* The new message replies to earlier ones, and the others to what they did.
LEMMA RepliesGrow ==
    ASSUME RoomType, NEW to \in 0..high, AddMessage(to)
    PROVE  /\ ancestors' \in Seq(SUBSET Nat) /\ Len(ancestors') = high'
           /\ \A m \in 1..high' : ancestors'[m] \subseteq 1..(m - 1)
           /\ \A m \in 1..high : ancestors'[m] = ancestors[m]
<1> DEFINE new == IF to = 0 THEN {} ELSE {to} \cup ancestors[to]
<1>1. high' = high + 1 /\ ancestors' = Append(ancestors, new) BY DEF AddMessage
<1>2. high \in Nat /\ ancestors \in Seq(SUBSET Nat) /\ Len(ancestors) = high BY DEF RoomType
<1>3. \A m \in 1..high : ancestors[m] \subseteq 1..(m - 1) BY DEF RoomType
<1>4. new \subseteq 1..high
  <2>1. CASE to = 0 BY <2>1
  <2>2. CASE to # 0
    <3>1. to \in 1..high BY <1>2, <2>2
    <3>2. ancestors[to] \subseteq 1..high BY <1>2, <1>3, <3>1
    <3> QED BY <2>2, <3>1, <3>2
  <2> QED BY <2>1, <2>2
<1>5. new \in SUBSET Nat BY <1>2, <1>4
<1> HIDE DEF new
<1>6. /\ ancestors' \in Seq(SUBSET Nat) /\ Len(ancestors') = high + 1
      /\ \A m \in 1..high : ancestors'[m] = ancestors[m]
      /\ ancestors'[high + 1] = new
  <2> DEFINE S == SUBSET Nat
  <2>1. ancestors \in Seq(S) /\ new \in S BY <1>2, <1>5
  <2> HIDE DEF S
  <2>2. /\ Append(ancestors, new) \in Seq(S) /\ Len(Append(ancestors, new)) = Len(ancestors) + 1
        /\ \A m \in 1..Len(ancestors) : Append(ancestors, new)[m] = ancestors[m]
        /\ Append(ancestors, new)[Len(ancestors) + 1] = new
    BY <2>1, AppendProperties
  <2> QED BY <1>1, <1>2, <2>2 DEF S
<1>7. ASSUME NEW m \in 1..high' PROVE ancestors'[m] \subseteq 1..(m - 1)
  <2>1. CASE m \in 1..high BY <1>3, <1>6, <2>1
  <2>2. CASE m = high + 1
    <3>1. m - 1 = high BY <1>2, <2>2
    <3> QED BY <1>4, <1>6, <2>2, <3>1
  <2> QED BY <1>1, <1>2, <2>1, <2>2
<1> QED BY <1>1, <1>6, <1>7

LEMMA PostStep ==
    ASSUME ContextInvariant, NEW targets \in SUBSET Agent, NEW to \in 0..high, Post(targets, to)
    PROVE  ContextInvariant'
<1> USE DEF ContextInvariant, RoomInvariant
<1>1. /\ high # Len(Size) /\ high' = high + 1 /\ AddMessage(to)
      /\ queue' = [a \in Agent |-> IF a \in targets THEN Append(queue[a], high + 1) ELSE queue[a]]
      /\ UNCHANGED <<reset, summary, cursor, lane, flight, manual, missed>> /\ UNCHANGED datedVars
  BY DEF Post, AddMessage, RoomFull, prepVars
<1>2. high \in Nat /\ high' \in Nat /\ high <= high' BY <1>1 DEF RoomType
<1>3. DatedInvariant' BY <1>1, <1>2, DatedStep
<1>r. /\ ancestors' \in Seq(SUBSET Nat) /\ Len(ancestors') = high'
      /\ \A m \in 1..high' : ancestors'[m] \subseteq 1..(m - 1)
      /\ \A m \in 1..high : ancestors'[m] = ancestors[m]
  BY <1>1, RepliesGrow
<1>4. RoomType'
  <2>1. queue' \in [Agent -> Seq(1..high')]
    <3>1. \A a \in Agent : queue[a] \in Seq(1..high) BY DEF RoomType
    <3>2. \A a \in Agent : queue'[a] \in Seq(1..(high + 1)) BY <1>1, <1>2, <3>1, QueueGrows
    <3> QED BY <1>1, <3>2
  <2>2. Len(Size) \in Nat BY BudgetAssumption, LenProperties
  <2>3. high' \in 0..Len(Size) /\ reset' \in 0..high' /\ manual'.through <= high'
        /\ manual'.cutoff <= high'
    BY <1>1, <1>2, <2>2 DEF RoomType, ManualRow
  <2>4. cursor' \in [Agent -> 0..high'] BY <1>1, <1>2 DEF RoomType
  <2>5. \A a \in Agent : lane'[a].source \in 0..high' BY <1>1, <1>2 DEF RoomType
  <2> QED BY <1>1, <1>r, <2>1, <2>3, <2>4, <2>5 DEF RoomType
<1>5. Summaries' /\ Flight' BY <1>1, <1>2, SummariesStay, FlightStays
<1>6. ASSUME NEW a \in Agent PROVE Prepares(a)'
  <2>1. queue[a] \in Seq(1..high) BY DEF RoomType
  <2>2. queue[a] # <<>> => queue'[a] # <<>> /\ Head(queue'[a]) = Head(queue[a])
    BY <1>1, <1>2, <2>1, QueueGrows
  <2>3. queue[a] # <<>> => ancestors'[Head(queue[a])] = ancestors[Head(queue[a])]
    BY <1>r, QueueTail
  <2> QED BY <1>1, <2>2, <2>3 DEF Prepares, Whole
<1>7. Waits' BY <1>1 DEF Waits
<1> QED BY <1>3, <1>4, <1>5, <1>6, <1>7

\* What the Turn was not given, its cursor had passed or the reset has cut off.
LEMMA DeliverStep ==
    ASSUME ContextInvariant, NEW a \in Agent, Deliver(a)
    PROVE  ContextInvariant'
<1> USE DEF ContextInvariant, RoomInvariant
<1> DEFINE s == Head(queue[a])
           p == lane[a].packet
           row == [IdleLane EXCEPT !.pc = "running", !.source = s]
<1>1. /\ lane[a].pc = "ready"
      /\ cursor' = [cursor EXCEPT ![a] = Max({@, s})]
      /\ missed' = [missed EXCEPT ![a] =
             @ \cup ({m \in (cursor[a] + 1)..s : m > reset} \ p.messages)]
      /\ queue' = [queue EXCEPT ![a] = Tail(@)]
      /\ lane' = [lane EXCEPT ![a] = row]
      /\ UNCHANGED <<high, ancestors, reset, summary, flight, manual>> /\ UNCHANGED datedVars
  BY DEF Deliver
<1>2. queue[a] # <<>> /\ Whole(p, s, a) BY <1>1 DEF Prepares
<1>3. high \in Nat /\ s \in 1..high /\ cursor[a] \in 0..high /\ reset \in Nat
  BY <1>2, QueueTail DEF RoomType
<1>4. DatedInvariant' BY <1>1, <1>3, DatedStep
<1>5. {m \in (cursor[a] + 1)..s : m > reset} \subseteq p.messages
  <2> SUFFICES ASSUME NEW m \in (cursor[a] + 1)..s, m > reset PROVE m \in p.messages OBVIOUS
  <2>1. p.after \in Nat /\ p.reset \in Nat BY DEF RoomType, LaneRow, PacketRow
  <2> HIDE DEF p, s
  <2>2. m \in (p.after + 1)..s BY <1>2, <1>3, <2>1 DEF Whole
  <2> QED BY <1>2, <2>2 DEF Whole
<1>6. row \in LaneRow /\ row.pc = "running" /\ row.source = s
  <2>1. row = [pc |-> "running", source |-> s, pass |-> 0, packet |-> NoPacket]
    <3>1. IdleLane = [pc |-> "idle", source |-> 0, pass |-> 0, packet |-> NoPacket] BY DEF IdleLane
    <3>2. row = [IdleLane EXCEPT !.pc = "running", !.source = s] OBVIOUS
    <3> HIDE DEF row, s
    <3> QED BY ONLY <3>1, <3>2
  <2> HIDE DEF row, s
  <2> QED BY <1>3, <2>1 DEF LaneRow, LanePc, PacketRow, NoPacket
<1>7. RoomType'
  <2>1. cursor' \in [Agent -> 0..high]
    <3>1. Max({cursor[a], s}) \in 0..high BY <1>3, MaxOfTwo
    <3> QED BY <1>1, <3>1 DEF RoomType
  <2>2. queue' \in [Agent -> Seq(1..high)] BY <1>1, <1>2, QueueTail DEF RoomType
  <2> HIDE DEF row
  <2>3. lane' \in [Agent -> LaneRow] /\ \A b \in Agent : lane'[b].source \in 0..high
    BY <1>1, <1>3, <1>6 DEF RoomType
  <2>4. missed' = [b \in Agent |-> {}] BY <1>1, <1>5 DEF RoomType
  <2> QED BY <1>1, <2>1, <2>2, <2>3, <2>4 DEF RoomType
<1>8. Summaries' /\ Flight' BY <1>1, <1>3, SummariesStay, FlightStays
<1> HIDE DEF row
<1>9. ASSUME NEW b \in Agent PROVE Prepares(b)'
  <2>1. CASE b = a
    <3>1. lane'[b].pc = "running" BY <1>1, <1>6, <2>1 DEF RoomType
    <3> QED BY <3>1, NothingPrepared
  <2>2. CASE b # a
    <3>1. lane'[b] = lane[b] /\ queue'[b] = queue[b] /\ cursor'[b] = cursor[b]
      BY <1>1, <2>2 DEF RoomType
    <3> QED BY <1>1, <3>1, PreparesStays
  <2> QED BY <2>1, <2>2
<1>10. Waits'
  <2>1. \A b \in Agent : lane'[b].pc = "waiting" => lane[b].pc = "waiting"
    BY <1>1, <1>6 DEF RoomType
  <2> QED BY <1>1, <2>1 DEF Waits
<1> QED BY <1>4, <1>7, <1>8, <1>9, <1>10

LEMMA CompleteStep ==
    ASSUME ContextInvariant, NEW a \in Agent, Complete(a)
    PROVE  ContextInvariant'
<1> USE DEF ContextInvariant, RoomInvariant
<1>1. /\ high # Len(Size) /\ high' = high + 1 /\ AddMessage(lane[a].source)
      /\ lane' = [lane EXCEPT ![a] = IdleLane]
      /\ UNCHANGED <<reset, summary, cursor, queue, flight, manual, missed>>
      /\ \/ RegisterSource([source |-> lane[a].source, response |-> high + 1])
         \/ UNCHANGED datedVars
  BY DEF Complete, AddMessage, RoomFull
<1>2. high \in Nat /\ high' \in Nat /\ high <= high' BY <1>1 DEF RoomType
<1>3. DatedInvariant' BY <1>1, <1>2, DatedStep, CompletedIsNew
<1>r. /\ ancestors' \in Seq(SUBSET Nat) /\ Len(ancestors') = high'
      /\ \A m \in 1..high' : ancestors'[m] \subseteq 1..(m - 1)
      /\ \A m \in 1..high : ancestors'[m] = ancestors[m]
  <2>1. lane[a].source \in 0..high BY DEF RoomType
  <2> QED BY <1>1, <2>1, RepliesGrow
<1>4. RoomType'
  <2>1. queue' \in [Agent -> Seq(1..high')]
    <3>1. \A b \in Agent : queue[b] \in Seq(1..high) BY DEF RoomType
    <3>2. \A b \in Agent : queue[b] \in Seq(1..(high + 1)) BY <1>2, <3>1, QueueGrows
    <3>3. queue \in [Agent -> Seq(1..(high + 1))] BY <3>2 DEF RoomType
    <3> QED BY <1>1, <3>3
  <2>2. Len(Size) \in Nat BY BudgetAssumption, LenProperties
  <2>3. high' \in 0..Len(Size) /\ reset' \in 0..high' /\ manual'.through <= high'
        /\ manual'.cutoff <= high'
    BY <1>1, <1>2, <2>2 DEF RoomType, ManualRow
  <2>4. cursor' \in [Agent -> 0..high'] BY <1>1, <1>2 DEF RoomType
  <2>5. lane' \in [Agent -> LaneRow] /\ \A b \in Agent : lane'[b].source \in 0..high'
    BY <1>1, <1>2, IdleRow DEF RoomType
  <2> QED BY <1>1, <1>r, <2>1, <2>3, <2>4, <2>5 DEF RoomType
<1>5. Summaries' /\ Flight' BY <1>1, <1>2, SummariesStay, FlightStays
<1>6. ASSUME NEW b \in Agent PROVE Prepares(b)'
  <2>1. CASE b = a
    <3>1. lane'[b].pc = "idle" BY <1>1, <2>1, IdleRow DEF RoomType
    <3> QED BY <3>1, NothingPrepared
  <2>2. CASE b # a
    <3>1. lane'[b] = lane[b] BY <1>1, <2>2 DEF RoomType
    <3>2. queue[b] # <<>> => ancestors'[Head(queue[b])] = ancestors[Head(queue[b])]
      BY <1>r, QueueTail
    <3> QED BY <1>1, <3>1, <3>2, PreparesStays
  <2> QED BY <2>1, <2>2
<1>7. Waits'
  <2>1. \A b \in Agent : lane'[b].pc = "waiting" => lane[b].pc = "waiting"
    BY <1>1, IdleRow DEF RoomType
  <2> QED BY <1>1, <2>1 DEF Waits
<1> QED BY <1>3, <1>4, <1>5, <1>6, <1>7

LEMMA TurnFailsStep ==
    ASSUME ContextInvariant, NEW a \in Agent, TurnFails(a)
    PROVE  ContextInvariant'
<1> USE DEF ContextInvariant, RoomInvariant
<1>1. /\ lane' = [lane EXCEPT ![a] = IdleLane]
      /\ queue' = [queue EXCEPT ![a] = IF lane[a].pc = "ready" THEN Tail(@) ELSE @]
      /\ UNCHANGED <<high, ancestors, reset, summary, cursor, flight, manual, missed>> /\ UNCHANGED datedVars
  BY DEF TurnFails
<1>2. high \in Nat BY DEF RoomType
<1>3. DatedInvariant' BY <1>1, <1>2, DatedStep
<1>4. RoomType'
  <2>1. lane' \in [Agent -> LaneRow] /\ \A b \in Agent : lane'[b].source \in 0..high
    BY <1>1, <1>2, IdleRow DEF RoomType
  <2>2. lane[a].pc = "ready" => queue[a] # <<>> BY DEF Prepares
  <2>3. queue' \in [Agent -> Seq(1..high)] BY <1>1, <2>2, QueueTail DEF RoomType
  <2> QED BY <1>1, <2>1, <2>3 DEF RoomType
<1>5. Summaries' /\ Flight' BY <1>1, <1>2, SummariesStay, FlightStays
<1>6. ASSUME NEW b \in Agent PROVE Prepares(b)'
  <2>1. CASE b = a
    <3>1. lane'[b].pc = "idle" BY <1>1, <2>1, IdleRow DEF RoomType
    <3> QED BY <3>1, NothingPrepared
  <2>2. CASE b # a
    <3>1. lane'[b] = lane[b] /\ queue'[b] = queue[b] BY <1>1, <2>2 DEF RoomType
    <3> QED BY <1>1, <3>1, PreparesStays
  <2> QED BY <2>1, <2>2
<1>7. Waits'
  <2>1. \A b \in Agent : lane'[b].pc = "waiting" => lane[b].pc = "waiting"
    BY <1>1, IdleRow DEF RoomType
  <2> QED BY <1>1, <2>1 DEF Waits
<1> QED BY <1>3, <1>4, <1>5, <1>6, <1>7

\* After a crash nothing is prepared and no compaction is under way.
LEMMA RestartStep == ASSUME ContextInvariant, Restart PROVE ContextInvariant'
<1> USE DEF ContextInvariant, RoomInvariant
<1>1. /\ lane' = [a \in Agent |-> IdleLane] /\ flight' = NoFlight /\ manual' = NoManual
      /\ UNCHANGED <<high, ancestors, reset, summary, cursor, queue, missed>> /\ RecoverDated
  BY DEF Restart, roomVars
<1>2. high \in Nat BY DEF RoomType
<1>3. DatedInvariant' BY <1>1, <1>2, DatedStep
<1>4. manual' \in ManualRow /\ manual'.through = 0 /\ manual'.cutoff = 0 /\ manual'.pc = "idle"
  BY <1>1 DEF NoManual, ManualRow
<1>5. RoomType' BY <1>1, <1>2, <1>4, IdleRow DEF RoomType
<1>6. Summaries' BY <1>1, <1>2, SummariesStay
<1>7. Flight' BY <1>1 DEF Flight, NoFlight
<1>8. \A a \in Agent : lane'[a].pc = "idle" BY <1>1, IdleRow
<1>9. \A a \in Agent : Prepares(a)' BY <1>8, NothingPrepared
<1>10. Waits' BY <1>4, <1>8 DEF Waits
<1> QED BY <1>3, <1>5, <1>6, <1>7, <1>9, <1>10

\* Steps that concern only the daily memory, and the end of the process.
LEMMA OtherStep ==
    ASSUME ContextInvariant, UNCHANGED <<roomVars, lane, flight, manual, missed>>,
           DatedNext \/ CloseDated \/ UNCHANGED datedVars
    PROVE  ContextInvariant'
<1> USE DEF ContextInvariant, RoomInvariant
<1>1. UNCHANGED <<high, ancestors, reset, summary, cursor, queue, lane, flight, manual, missed>> BY DEF roomVars
<1>2. high \in Nat BY DEF RoomType
<1>3. DatedInvariant' BY <1>1, <1>2, DatedStep
<1>4. RoomType' BY <1>1 DEF RoomType
<1>5. Summaries' /\ Flight' BY <1>1, <1>2, SummariesStay, FlightStays
<1>6. \A a \in Agent : Prepares(a)' BY <1>1, PreparesStays
<1>7. Waits' BY <1>1 DEF Waits
<1> QED BY <1>3, <1>4, <1>5, <1>6, <1>7

----------------------------------------------------------------------------
(* Theorems *)

LEMMA ContextStart == Init => ContextInvariant
<1> SUFFICES ASSUME Init PROVE ContextInvariant OBVIOUS
<1>1. /\ high = 0 /\ ancestors = <<>> /\ reset = 0 /\ summary = NoSummary
      /\ cursor = [a \in Agent |-> 0] /\ queue = [a \in Agent |-> <<>>]
      /\ lane = [a \in Agent |-> IdleLane] /\ flight = NoFlight /\ manual = NoManual
      /\ missed = [a \in Agent |-> {}] /\ DatedInit
  BY DEF Init
<1>2. DatedInvariant BY <1>1, DatedStart
<1>3. manual \in ManualRow /\ manual.through = 0 /\ manual.cutoff = 0 /\ manual.pc = "idle"
  BY <1>1 DEF NoManual, ManualRow
<1>4. Len(Size) \in Nat BY BudgetAssumption, LenProperties
<1>5. RoomType
  <2>1. ancestors \in Seq(SUBSET Nat) /\ Len(ancestors) = 0 BY <1>1, EmptySeq
  <2> QED BY <1>1, <1>3, <1>4, <2>1, IdleRow DEF RoomType
<1>6. Summaries BY <1>1 DEF Summaries, NoSummary, SummaryRow
<1>7. Flight BY <1>1 DEF Flight, NoFlight
<1>8. \A a \in Agent : lane[a].pc = "idle" BY <1>1, IdleRow
<1>9. (\A a \in Agent : Prepares(a)) /\ Waits BY <1>3, <1>8 DEF Prepares, Waits
<1> QED BY <1>2, <1>5, <1>6, <1>7, <1>9 DEF ContextInvariant, RoomInvariant

LEMMA ContextStep == ContextInvariant /\ [Next]_vars => ContextInvariant'
<1> SUFFICES ASSUME ContextInvariant, [Next]_vars PROVE ContextInvariant' OBVIOUS
<1>1. ASSUME NEW a \in Agent, Build(a) PROVE ContextInvariant' BY <1>1, BuildStep
<1>2. ASSUME NEW a \in Agent, Deliver(a) PROVE ContextInvariant' BY <1>2, DeliverStep
<1>3. CASE \/ FlushSettles \/ CompactionGenerated \/ AgentFails \/ CompactionFails
           \/ RetryCompaction \/ CompactionAborted
  BY <1>3, CompactionStep
<1>4. CASE CompactNow \/ ManualContinues BY <1>4, ManualStep
<1>5. ASSUME NEW a \in Agent, TurnFails(a) PROVE ContextInvariant' BY <1>5, TurnFailsStep
<1>6. ASSUME NEW a \in Agent, Complete(a) PROVE ContextInvariant' BY <1>6, CompleteStep
<1>7. ASSUME NEW targets \in SUBSET Agent, NEW to \in 0..high, Post(targets, to)
      PROVE  ContextInvariant'
  BY <1>7, PostStep
<1>8. CASE Reset BY <1>8, ResetStep
<1>9. CASE Restart BY <1>9, RestartStep
<1>10. CASE Close BY <1>10, OtherStep DEF Close
<1>11. CASE DatedNext /\ UNCHANGED <<roomVars, prepVars, boundVars, missed>>
  BY <1>11, OtherStep DEF prepVars
<1>12. CASE UNCHANGED vars BY <1>12, OtherStep DEF vars, prepVars
<1> QED
  BY <1>1, <1>2, <1>3, <1>4, <1>5, <1>6, <1>7, <1>8, <1>9, <1>10, <1>11, <1>12
  DEF Next, RoomReacts, Environment

\* The invariant behind the packets and the daily memory: a summary that reaches beyond the
\* reset holds all messages after it, a packet that is ready all that is new to its agent,
\* and each source is in one place (ContextEngine, buildContextPacket, DatedMemoryEngine).
THEOREM ContextInvariance == Spec => []ContextInvariant
BY ContextStart, ContextStep, PTL DEF Spec

\* The rows of the room and of its daily memory keep their types; who waits for a
\* compaction waits for one that is under way.
THEOREM TypeCorrect == Spec => []TypeOK
<1>1. ContextInvariant => TypeOK
  <2> SUFFICES ASSUME ContextInvariant PROVE TypeOK OBVIOUS
  <2> USE DEF ContextInvariant, DatedInvariant, RoomInvariant
  <2>1. DatedTypeOK
    <3>1. pending \subseteq completed /\ head.folds \subseteq completed BY DEF Sources
    <3>2. {timer, datedOpen, noting, overlooked} \subseteq BOOLEAN BY DEF Engine
    <3> QED BY <3>1, <3>2 DEF DatedTypeOK, Engine
  <2>2. \A a \in Agent : lane[a].pc \in {"idle", "building", "waiting", "ready", "running"}
    BY DEF RoomType, LaneRow, LanePc
  <2>3. summary.from <= summary.through /\ summary.through <= high BY DEF Summaries
  <2>4. flight.pc \in {"idle", "flushing", "generating", "retrying"} BY DEF Flight
  <2>5. /\ high \in 0..Len(Size) /\ reset \in 0..high
        /\ cursor \in [Agent -> 0..high]
        /\ DOMAIN ancestors = 1..high /\ \A m \in 1..high : ancestors[m] \subseteq 1..(m - 1)
    BY DEF RoomType
  <2> QED BY <2>1, <2>2, <2>3, <2>4, <2>5 DEF TypeOK, Waits
<1> QED BY <1>1, ContextInvariance, PTL

\* Every completed Turn is remembered in exactly one way and no generated record loses what
\* a user wrote (commitAgentDatedMemoryRollup, memory.supersede and memory.retract).
THEOREM TurnsAreFoldedOnce == Spec => []FoldedOnce
<1>1. ContextInvariant => FoldedOnce BY OneOfFour DEF ContextInvariant, DatedInvariant
<1> QED BY <1>1, ContextInvariance, PTL

\* No agent misses a message that its cursor has passed, but for those a reset cut off, and
\* none is given one from before the reset but its Turn's own and those that one replies to
\* (ContextEngine.prepare and compactNow, replaceActiveSummary, resetRoomContext).
THEOREM ContextAlwaysWhole == Spec => []ContextIsWhole
<1>1. ContextInvariant => ContextIsWhole
  <2> SUFFICES ASSUME ContextInvariant, NEW a \in Agent
               PROVE  /\ missed[a] = {}
                      /\ lane[a].pc = "ready" =>
                           LET packet == lane[a].packet
                           IN  /\ (packet.after + 1)..Head(queue[a]) \subseteq packet.messages
                               /\ packet.messages \cap 1..packet.reset
                                    \subseteq ancestors[Head(queue[a])] \cup {Head(queue[a])}
    BY DEF ContextIsWhole
  <2>1. RoomType /\ Prepares(a) BY DEF ContextInvariant, RoomInvariant
  <2>2. missed[a] = {} BY <2>1 DEF RoomType
  <2> QED BY <2>1, <2>2 DEF Prepares, Whole
<1> QED BY <1>1, ContextInvariance, PTL
=============================================================================
