---------------------------- MODULE RoomPageProofs ----------------------------
(***************************************************************************)
(* One Turn per draft, and a page that shows the room, for any number of    *)
(* drafts, requests, events and openings of the page.  A snapshot is a fold *)
(* over the last events; the first half shows that the fold is what the page *)
(* would show had it received them one by one, and that the log tells of    *)
(* every Turn and record.  The second half follows page and server step by  *)
(* step.                                                                    *)
(***************************************************************************)
EXTENDS RoomPage, FiniteSetTheorems, SequenceTheorems, TLAPS

RequestField == {"kind", "of", "cmd", "was", "server", "page"}
Kind == {"message", "cancel", "remember", "replace", "retract"}
Submission == {NoSubmission} \cup [draft : Nat \ {0}, cmd : Click]
Composer == [draft : Nat \ {0}, pending : Submission, busy : BOOLEAN]
TurnState == [status : Ended \cup {"queued", "running", "cancelling"}, draft : Nat]

SubmissionType ==
    /\ turns \in Seq(TurnState)
    /\ requests = [c \in Click |-> requests[c]]
    /\ \A c \in Click : /\ requests[c] = [f \in RequestField |-> requests[c][f]]
                        /\ requests[c].page = "waits" => requests[c].kind \in Kind
    /\ receipts = [c \in Click |-> receipts[c]]
    /\ composer \in Composer

\* The requests that send a message.
Messages == {c \in Click : requests[c].kind = "message"}

\* The composer keeps the command id of the draft it shows: each submission of it went
\* out under that id.
PendingIsKept ==
    \A c \in Messages :
        /\ requests[c].cmd \in Click /\ requests[c].of \in 1..composer.draft
        /\ requests[c].of = composer.draft =>
               composer.pending = [draft |-> composer.draft, cmd |-> requests[c].cmd]

\* The submissions of a draft have one command id.
OneCommandPerDraft ==
    \A c, d \in Messages : requests[c].of = requests[d].of => requests[c].cmd = requests[d].cmd

\* A Turn that was made of a draft is on the receipt of its command.
TurnsHaveReceipts ==
    \A t \in DOMAIN turns :
        turns[t].draft # 0 =>
            \E c \in Messages : requests[c].of = turns[t].draft /\ receipts[requests[c].cmd] = t

\* Nothing is sent before the page is open.
OpenFirst == loads \in Nat /\ (loads = 0 => Messages = {})

DraftInvariant ==
    /\ SubmissionType /\ PendingIsKept /\ OneCommandPerDraft /\ TurnsHaveReceipts
    /\ OpenFirst /\ OncePerDraft

----------------------------------------------------------------------------

LEMMA InitInvariant == Init => DraftInvariant
<1> SUFFICES ASSUME Init PROVE DraftInvariant OBVIOUS
<1> USE DEF Init, ServerInit, NoRequest
<1>1. SubmissionType
  <2>1. composer \in Composer BY DEF Composer, Submission, NoSubmission
  <2>2. \A c \in Click : requests[c] = [f \in RequestField |-> requests[c][f]]
    BY DEF RequestField
  <2> QED BY <2>1, <2>2 DEF SubmissionType
<1>2. Messages = {} BY DEF Messages
<1>3. DOMAIN turns = {} OBVIOUS
<1> QED
  BY <1>1, <1>2, <1>3 DEF DraftInvariant, PendingIsKept, OneCommandPerDraft, TurnsHaveReceipts,
     OpenFirst, OncePerDraft

\* What is asked by a request, and under which command, is never changed.
SameQuestions ==
    /\ requests' = [c \in Click |-> requests'[c]]
    /\ \A c \in Click : /\ requests'[c] = [f \in RequestField |-> requests'[c][f]]
                        /\ requests'[c].page = "waits" => requests[c].page = "waits"
                        /\ requests'[c].kind = requests[c].kind
                        /\ requests'[c].of = requests[c].of
                        /\ requests'[c].cmd = requests[c].cmd

\* One request gets on, at the server or at the page.
LEMMA GetsOn ==
    ASSUME SubmissionType, NEW c \in Click, NEW f \in {"server", "page"}, NEW x \in {"done", "left"},
           requests' = [requests EXCEPT ![c][f] = x]
    PROVE  SameQuestions
BY DEF SubmissionType, SameQuestions, RequestField

LEMMA NothingAsked == SubmissionType /\ UNCHANGED requests => SameQuestions
BY DEF SubmissionType, SameQuestions

\* The same Turns with other statuses, the same receipts where there are any.
KeepsTurns ==
    /\ turns' \in Seq(TurnState) /\ DOMAIN turns' = DOMAIN turns
    /\ \A t \in DOMAIN turns : turns'[t].draft = turns[t].draft
KeepsReceipts ==
    /\ receipts' = [c \in Click |-> receipts'[c]]
    /\ \A c \in Click : receipts[c] # 0 => receipts'[c] = receipts[c]

\* The page goes on with its draft, or begins another.
KeepsDraft ==
    /\ composer' \in Composer
    /\ \/ composer'.draft = composer.draft /\ composer'.pending = composer.pending
       \/ composer'.draft > composer.draft
       \/ composer'.draft = composer.draft /\ Messages = {}

\* A step that sends no message and makes no Turn.
LEMMA QuietStep ==
    ASSUME DraftInvariant, SameQuestions, KeepsTurns, KeepsReceipts, KeepsDraft,
           loads' \in Nat, loads' = 0 => loads = 0
    PROVE  DraftInvariant'
<1> USE DEF DraftInvariant
<1>1. Messages' = Messages BY DEF Messages, SameQuestions
<1>2. Messages \subseteq Click BY DEF Messages
<1>3. SubmissionType' BY DEF SubmissionType, SameQuestions, KeepsTurns, KeepsReceipts, KeepsDraft
<1>4. PendingIsKept'
  <2> SUFFICES ASSUME NEW c \in Messages
               PROVE  /\ requests'[c].cmd \in Click /\ requests'[c].of \in 1..composer'.draft
                      /\ requests'[c].of = composer'.draft =>
                           composer'.pending = [draft |-> composer'.draft, cmd |-> requests'[c].cmd]
    BY <1>1 DEF PendingIsKept
  <2>1. requests'[c].cmd = requests[c].cmd /\ requests'[c].of = requests[c].of
    BY <1>2 DEF SameQuestions
  <2>2. composer.draft \in Nat /\ composer'.draft \in Nat
    BY DEF KeepsDraft, SubmissionType, Composer
  <2>3. requests[c].cmd \in Click /\ requests[c].of \in 1..composer.draft BY DEF PendingIsKept
  <2>4. requests[c].of = composer.draft =>
          composer.pending = [draft |-> composer.draft, cmd |-> requests[c].cmd]
    BY DEF PendingIsKept
  <2>5. CASE composer'.draft = composer.draft /\ composer'.pending = composer.pending
    BY <2>1, <2>3, <2>4, <2>5
  <2>6. CASE composer'.draft > composer.draft
    BY <2>1, <2>2, <2>3, <2>6
  <2>7. CASE Messages = {} BY <2>7
  <2> QED BY <2>5, <2>6, <2>7 DEF KeepsDraft
<1>5. OneCommandPerDraft' BY <1>1, <1>2 DEF OneCommandPerDraft, SameQuestions
<1>6. TurnsHaveReceipts'
  <2> SUFFICES ASSUME NEW t \in DOMAIN turns, turns[t].draft # 0
               PROVE  \E c \in Messages : requests'[c].of = turns[t].draft
                                          /\ receipts'[requests'[c].cmd] = t
    BY <1>1 DEF TurnsHaveReceipts, KeepsTurns
  <2>1. PICK c \in Messages : requests[c].of = turns[t].draft /\ receipts[requests[c].cmd] = t
    BY DEF TurnsHaveReceipts
  <2>2. t # 0 BY DEF SubmissionType
  <2>3. requests[c].cmd \in Click BY DEF PendingIsKept
  <2>4. receipts'[requests[c].cmd] = t BY <2>1, <2>2, <2>3 DEF KeepsReceipts
  <2> QED BY <1>2, <2>1, <2>4 DEF SameQuestions
<1>7. OpenFirst' BY <1>1 DEF OpenFirst
<1>8. OncePerDraft' BY DEF OncePerDraft, KeepsTurns
<1> QED BY <1>3, <1>4, <1>5, <1>6, <1>7, <1>8

----------------------------------------------------------------------------
(* The server                                                                *)

\* A Turn that takes another status keeps its draft.
LEMMA StatusStep ==
    ASSUME SubmissionType, NEW t \in DOMAIN turns,
           NEW s \in Ended \cup {"queued", "running", "cancelling"},
           turns' = [turns EXCEPT ![t].status = s]
    PROVE  KeepsTurns
<1>1. turns \in [1..Len(turns) -> TurnState] /\ t \in 1..Len(turns) /\ DOMAIN turns = 1..Len(turns)
  BY DEF SubmissionType
<1>2. [turns[t] EXCEPT !.status = s] \in TurnState
      /\ [turns[t] EXCEPT !.status = s].draft = turns[t].draft
  BY <1>1 DEF TurnState
<1>3. turns' \in [1..Len(turns) -> TurnState] BY <1>1, <1>2
<1>4. \A u \in DOMAIN turns : turns'[u].draft = turns[u].draft BY <1>1, <1>2
<1>6. turns' \in Seq(TurnState)
  <2> DEFINE e == [turns[t] EXCEPT !.status = s]
  <2>1. turns' = [turns EXCEPT ![t] = e] OBVIOUS
  <2> HIDE DEF e
  <2>2. e \in TurnState BY <1>2 DEF e
  <2> QED BY <1>1, <2>1, <2>2, ExceptSeq DEF SubmissionType
<1> QED BY <1>1, <1>3, <1>4, <1>6 DEF KeepsTurns

LEMMA NoTurnMoves == SubmissionType /\ UNCHANGED turns => KeepsTurns
BY DEF SubmissionType, KeepsTurns

LEMMA NoReceipt == SubmissionType /\ UNCHANGED receipts => KeepsReceipts
BY DEF SubmissionType, KeepsReceipts

\* A command that runs writes a receipt where there was none.
LEMMA RunsOnce ==
    ASSUME DraftInvariant, NEW c \in Click, NEW made, Runs(c, made)
    PROVE  KeepsReceipts /\ SameQuestions
<1>1. SameQuestions BY GetsOn DEF Runs, DraftInvariant
<1>2. KeepsReceipts BY DEF Runs, KeepsReceipts, DraftInvariant, SubmissionType
<1> QED BY <1>1, <1>2

\* A new Turn of no draft: the message of another client.
LEMMA OthersStep ==
    ASSUME SubmissionType, OncePerDraft, NEW n \in Nat,
           turns' = Append(turns, [status |-> "queued", draft |-> n])
    PROVE  /\ turns' \in Seq(TurnState)
           /\ DOMAIN turns' = DOMAIN turns \cup {Len(turns) + 1} /\ Len(turns) + 1 \in Nat \ {0}
           /\ Len(turns) + 1 \notin DOMAIN turns
           /\ \A t \in DOMAIN turns : turns'[t] = turns[t]
           /\ turns'[Len(turns) + 1].draft = n
<1>1. [status |-> "queued", draft |-> n] \in TurnState BY DEF TurnState
<1>2. turns \in Seq(TurnState) BY DEF SubmissionType
<1> QED BY <1>1, <1>2

LEMMA OthersSendStep ==
    ASSUME DraftInvariant, OthersSend, UNCHANGED <<composer, loads>>
    PROVE  DraftInvariant'
<1> USE DEF DraftInvariant
<1>1. turns' = Append(turns, [status |-> "queued", draft |-> 0]) /\ UNCHANGED <<receipts, requests>>
  BY DEF OthersSend, NewTurn
<1>2. /\ turns' \in Seq(TurnState)
      /\ DOMAIN turns' = DOMAIN turns \cup {Len(turns) + 1}
      /\ \A t \in DOMAIN turns : turns'[t] = turns[t]
      /\ turns'[Len(turns) + 1].draft = 0
  BY <1>1, OthersStep
<1>3. SubmissionType' BY <1>1, <1>2 DEF SubmissionType
<1>4. Messages' = Messages BY <1>1 DEF Messages
<1>5. PendingIsKept' /\ OneCommandPerDraft' /\ OpenFirst'
  BY <1>1, <1>4 DEF PendingIsKept, OneCommandPerDraft, OpenFirst
<1>6. TurnsHaveReceipts' BY <1>1, <1>2, <1>4 DEF TurnsHaveReceipts
<1>7. OncePerDraft' BY <1>2 DEF OncePerDraft
<1> QED BY <1>3, <1>5, <1>6, <1>7

\* The command of a message runs: no Turn was made of its draft.
LEMMA AcceptStep ==
    ASSUME DraftInvariant, NEW c \in Click, Accept(c), UNCHANGED <<composer, loads>>
    PROVE  DraftInvariant'
<1> USE DEF DraftInvariant
<1> DEFINE n == requests[c].of
           new == Len(turns) + 1
           cmd == requests[c].cmd
<1>1. /\ c \in Messages /\ receipts[cmd] = 0 /\ Runs(c, new)
      /\ turns' = Append(turns, [status |-> "queued", draft |-> n])
      /\ receipts' = [receipts EXCEPT ![cmd] = new]
  BY DEF Accept, Runs, NewTurn, Messages
<1>2. n \in Nat /\ cmd \in Click
  <2>1. composer.draft \in Nat BY DEF SubmissionType, Composer
  <2>2. n \in 1..composer.draft /\ cmd \in Click BY <1>1 DEF PendingIsKept
  <2> QED BY <2>1, <2>2
<1>3. /\ turns' \in Seq(TurnState)
      /\ DOMAIN turns' = DOMAIN turns \cup {new} /\ new \in Nat \ {0}
      /\ new \notin DOMAIN turns
      /\ \A t \in DOMAIN turns : turns'[t] = turns[t]
      /\ turns'[new].draft = n
  BY <1>1, <1>2, OthersStep
<1>4. KeepsReceipts /\ SameQuestions BY <1>1, RunsOnce
<1>5. receipts'[cmd] = new BY <1>1, <1>2 DEF SubmissionType
<1>6. Messages' = Messages /\ Messages \subseteq Click BY <1>4 DEF Messages, SameQuestions
<1>7. SubmissionType' BY <1>3, <1>4 DEF SubmissionType, SameQuestions, KeepsReceipts
<1>8. PendingIsKept' BY <1>4, <1>6 DEF PendingIsKept, SameQuestions
<1>9. OneCommandPerDraft' /\ OpenFirst' BY <1>4, <1>6 DEF OneCommandPerDraft, OpenFirst, SameQuestions
<1>10. TurnsHaveReceipts'
  <2> SUFFICES ASSUME NEW t \in DOMAIN turns', turns'[t].draft # 0
               PROVE  \E d \in Messages : requests'[d].of = turns'[t].draft
                                          /\ receipts'[requests'[d].cmd] = t
    BY <1>6 DEF TurnsHaveReceipts
  <2>1. CASE t = new
    BY <1>1, <1>3, <1>4, <1>5, <1>6, <2>1 DEF SameQuestions
  <2>2. CASE t # new
    <3>1. t \in DOMAIN turns /\ turns'[t] = turns[t] BY <1>3, <2>2
    <3>2. PICK d \in Messages : requests[d].of = turns[t].draft /\ receipts[requests[d].cmd] = t
      BY <3>1 DEF TurnsHaveReceipts
    <3>3. requests[d].cmd \in Click BY DEF PendingIsKept
    <3>4. t # 0 BY <3>1 DEF SubmissionType
    <3>5. receipts'[requests[d].cmd] = t BY <1>4, <3>2, <3>3, <3>4 DEF KeepsReceipts
    <3> QED BY <1>4, <1>6, <3>1, <3>2, <3>5 DEF SameQuestions
  <2> QED BY <2>1, <2>2
<1>11. \A t \in DOMAIN turns : turns[t].draft # 0 => turns[t].draft # n
  <2> SUFFICES ASSUME NEW t \in DOMAIN turns, turns[t].draft # 0, turns[t].draft = n PROVE FALSE
    OBVIOUS
  <2>1. PICK d \in Messages : requests[d].of = n /\ receipts[requests[d].cmd] = t
    BY DEF TurnsHaveReceipts
  <2>2. requests[d].cmd = cmd BY <1>1, <2>1 DEF OneCommandPerDraft
  <2>3. t # 0 BY DEF SubmissionType
  <2> QED BY <1>1, <2>1, <2>2, <2>3
<1>12. OncePerDraft' BY <1>3, <1>11 DEF OncePerDraft
<1> QED BY <1>7, <1>8, <1>9, <1>10, <1>12

LEMMA ServerInvariant ==
    ASSUME DraftInvariant, ServerStep
    PROVE  DraftInvariant'
<1> USE DEF DraftInvariant
<1>u. UNCHANGED <<composer, loads>> /\ loads \in Nat BY DEF ServerStep, OpenFirst
<1>d. KeepsDraft BY <1>u DEF KeepsDraft, SubmissionType
<1>1. ASSUME NEW t \in DOMAIN turns, TurnStarts(t) \/ \E to \in Ended : TurnEnds(t, to)
      PROVE  DraftInvariant'
  <2>1. PICK s \in Ended \cup {"running"} : turns' = [turns EXCEPT ![t].status = s]
    BY <1>1 DEF TurnStarts, TurnEnds, Moves
  <2>2. UNCHANGED <<receipts, requests>> BY <1>1 DEF TurnStarts, TurnEnds, Moves
  <2>3. KeepsTurns BY <2>1, StatusStep
  <2> QED BY <1>u, <1>d, <2>2, <2>3, NothingAsked, NoReceipt, QuietStep
<1>2. CASE OthersWrite
  <2>1. UNCHANGED <<turns, receipts, requests>> BY <1>2 DEF OthersWrite
  <2> QED BY <1>u, <1>d, <2>1, NothingAsked, NoTurnMoves, NoReceipt, QuietStep
<1>3. CASE OthersSend BY <1>3, <1>u, OthersSendStep
<1>4. ASSUME NEW c \in Click, Replay(c) \/ Lost(c) PROVE DraftInvariant'
  <2>1. requests' = [requests EXCEPT ![c]["server"] = "done"] /\ UNCHANGED <<turns, receipts>>
    BY <1>4 DEF Replay, Lost, serverVars
  <2>2. SameQuestions BY <2>1, GetsOn
  <2> QED BY <1>u, <1>d, <2>1, <2>2, NoTurnMoves, NoReceipt, QuietStep
<1>5. ASSUME NEW c \in Click, Accept(c) PROVE DraftInvariant'
  BY <1>5, <1>u, AcceptStep
<1>6. ASSUME NEW c \in Click, Cancel(c) PROVE DraftInvariant'
  <2>1. KeepsReceipts /\ SameQuestions BY <1>6, RunsOnce DEF Cancel
  <2> DEFINE t == requests[c].of
  <2>2. CASE turns[t].status = "queued"
    <3>1. turns' = [turns EXCEPT ![t].status = "stopped"] BY <1>6, <2>2 DEF Cancel
    <3>2. KeepsTurns
      <4>1. CASE t \in DOMAIN turns BY <3>1, <4>1, StatusStep DEF Ended
      <4>2. CASE t \notin DOMAIN turns
        <5>1. turns' = turns BY <3>1, <4>2 DEF SubmissionType
        <5> QED BY <5>1, NoTurnMoves
      <4> QED BY <4>1, <4>2
    <3> QED BY <1>u, <1>d, <2>1, <3>2, QuietStep
  <2>3. CASE turns[t].status = "running"
    <3>1. turns' = [turns EXCEPT ![t].status = "cancelling"] BY <1>6, <2>3 DEF Cancel
    <3>2. KeepsTurns
      <4>1. CASE t \in DOMAIN turns BY <3>1, <4>1, StatusStep
      <4>2. CASE t \notin DOMAIN turns
        <5>1. turns' = turns BY <3>1, <4>2 DEF SubmissionType
        <5> QED BY <5>1, NoTurnMoves
      <4> QED BY <4>1, <4>2
    <3> QED BY <1>u, <1>d, <2>1, <3>2, QuietStep
  <2>4. CASE turns[t].status \notin {"queued", "running"}
    <3>1. UNCHANGED turns BY <1>6, <2>4 DEF Cancel
    <3> QED BY <1>u, <1>d, <2>1, <3>1, NoTurnMoves, QuietStep
  <2> QED BY <2>2, <2>3, <2>4
<1>7. ASSUME NEW c \in Click, Write(c) PROVE DraftInvariant'
  <2>1. KeepsReceipts /\ SameQuestions /\ UNCHANGED turns BY <1>7, RunsOnce DEF Write
  <2> QED BY <1>u, <1>d, <2>1, NoTurnMoves, QuietStep
<1> QED BY <1>1, <1>2, <1>3, <1>4, <1>5, <1>6, <1>7 DEF ServerStep, ServerNext

----------------------------------------------------------------------------
(* The page                                                                  *)

\* A request that sends no message.
LEMMA OtherRequest ==
    ASSUME DraftInvariant, NEW c \in Click, NEW kind, NEW of, NEW cmd, NEW was,
           kind \in Kind \ {"message"}, Sends(c, kind, of, cmd, was),
           KeepsDraft, UNCHANGED loads
    PROVE  DraftInvariant'
<1> USE DEF DraftInvariant
<1>1. /\ loads > 0 /\ UNCHANGED <<turns, receipts>> /\ requests[c] = NoRequest
      /\ requests' = [requests EXCEPT ![c] = [kind |-> kind, of |-> of, cmd |-> cmd, was |-> was,
                                              server |-> "waits", page |-> "waits"]]
  BY DEF Sends, serverVars
<1> DEFINE r == [kind |-> kind, of |-> of, cmd |-> cmd, was |-> was,
                 server |-> "waits", page |-> "waits"]
<1>2. r.kind = kind /\ r = [f \in RequestField |-> r[f]] BY DEF RequestField
<1>3. requests'[c] = r /\ \A d \in Click \ {c} : requests'[d] = requests[d]
  BY <1>1 DEF SubmissionType
<1>4. requests' = [d \in Click |-> requests'[d]] BY <1>1 DEF SubmissionType
<1>5. Messages' = Messages /\ c \notin Messages
  BY <1>1, <1>2, <1>3 DEF Messages, NoRequest
<1> HIDE DEF r
<1>6. SubmissionType'
  BY <1>1, <1>2, <1>3, <1>4 DEF SubmissionType, KeepsDraft
<1>7. \A d \in Messages : d \in Click \ {c} /\ requests'[d] = requests[d]
  BY <1>3, <1>5 DEF Messages
<1>8. PendingIsKept'
  <2> SUFFICES ASSUME NEW d \in Messages
               PROVE  /\ requests[d].cmd \in Click /\ requests[d].of \in 1..composer'.draft
                      /\ requests[d].of = composer'.draft =>
                           composer'.pending = [draft |-> composer'.draft, cmd |-> requests[d].cmd]
    BY <1>5, <1>7 DEF PendingIsKept
  <2>2. composer.draft \in Nat /\ composer'.draft \in Nat
    BY DEF KeepsDraft, SubmissionType, Composer
  <2>3. requests[d].cmd \in Click /\ requests[d].of \in 1..composer.draft BY DEF PendingIsKept
  <2>4. requests[d].of = composer.draft =>
          composer.pending = [draft |-> composer.draft, cmd |-> requests[d].cmd]
    BY DEF PendingIsKept
  <2>5. CASE composer'.draft = composer.draft /\ composer'.pending = composer.pending
    BY <2>3, <2>4, <2>5
  <2>6. CASE composer'.draft > composer.draft
    BY <2>2, <2>3, <2>6
  <2>7. CASE Messages = {} BY <2>7
  <2> QED BY <2>5, <2>6, <2>7 DEF KeepsDraft
<1>9. OneCommandPerDraft' BY <1>5, <1>7 DEF OneCommandPerDraft
<1>10. TurnsHaveReceipts' BY <1>1, <1>5, <1>7 DEF TurnsHaveReceipts
<1>11. OpenFirst' BY <1>1 DEF OpenFirst
<1>12. OncePerDraft' BY <1>1 DEF OncePerDraft
<1> QED BY <1>6, <1>8, <1>9, <1>10, <1>11, <1>12

\* A message goes out under the id kept for its draft, or is the first of it.
LEMMA SubmitStep ==
    ASSUME DraftInvariant, NEW c \in Click, SubmitMessage(c)
    PROVE  DraftInvariant'
<1> USE DEF DraftInvariant
<1> DEFINE n == composer.draft
           cmd == SubmissionFor(c)
           r == [kind |-> "message", of |-> n, cmd |-> cmd, was |-> "none",
                 server |-> "waits", page |-> "waits"]
<1>1. /\ loads > 0 /\ UNCHANGED <<turns, receipts, loads>> /\ requests[c] = NoRequest
      /\ requests' = [requests EXCEPT ![c] = r]
      /\ composer' = [composer EXCEPT !.busy = TRUE, !.pending = [draft |-> n, cmd |-> cmd]]
  BY DEF SubmitMessage, Sends, serverVars
<1>2. n \in Nat \ {0} /\ composer.pending \in Submission
  BY DEF SubmissionType, Composer
<1>3. cmd \in Click
  <2>1. CASE composer.pending.draft = n
    <3>1. cmd = composer.pending.cmd BY <2>1 DEF SubmissionFor
    <3>2. composer.pending # NoSubmission BY <1>2, <2>1 DEF NoSubmission
    <3>3. composer.pending.cmd \in Click BY <1>2, <3>2 DEF Submission
    <3> QED BY <3>1, <3>3
  <2>2. CASE composer.pending.draft # n BY <2>2 DEF SubmissionFor
  <2> QED BY <2>1, <2>2
<1>4. \A d \in Messages : requests[d].of = n => requests[d].cmd = cmd
  <2> SUFFICES ASSUME NEW d \in Messages, requests[d].of = n PROVE requests[d].cmd = cmd
    OBVIOUS
  <2>1. composer.pending = [draft |-> n, cmd |-> requests[d].cmd] BY DEF PendingIsKept
  <2>2. composer.pending.draft = n /\ composer.pending.cmd = requests[d].cmd BY <2>1
  <2> QED BY <2>2 DEF SubmissionFor
<1>5. /\ composer' \in Composer /\ composer'.draft = n
      /\ composer'.pending = [draft |-> n, cmd |-> cmd]
  <2> DEFINE sub == [draft |-> n, cmd |-> cmd]
  <2>1. sub \in Submission BY <1>2, <1>3 DEF Submission
  <2>2. composer' = [composer EXCEPT !.busy = TRUE, !.pending = sub] BY <1>1
  <2> HIDE DEF sub
  <2>3. composer' \in Composer /\ composer'.draft = n /\ composer'.pending = sub
    BY <2>1, <2>2 DEF SubmissionType, Composer
  <2> QED BY <2>3 DEF sub
<1>6. r.kind = "message" /\ r.kind \in Kind /\ r.of = n /\ r.cmd = cmd /\ r = [f \in RequestField |-> r[f]]
  BY DEF RequestField, Kind
<1>7. requests'[c] = r /\ \A d \in Click \ {c} : requests'[d] = requests[d]
  BY <1>1 DEF SubmissionType
<1>8. requests' = [d \in Click |-> requests'[d]] BY <1>1 DEF SubmissionType
<1>9. Messages' = Messages \cup {c} /\ c \notin Messages
  BY <1>1, <1>6, <1>7 DEF Messages, NoRequest
<1> HIDE DEF r, cmd
<1>10. \A d \in Messages : d \in Click \ {c} /\ requests'[d] = requests[d]
  BY <1>7, <1>9 DEF Messages
<1>11. SubmissionType'
  BY <1>1, <1>5, <1>6, <1>7, <1>8 DEF SubmissionType
<1>12. PendingIsKept'
  <2>1. requests'[c].cmd = cmd /\ requests'[c].of = n BY <1>6, <1>7
  <2>2. \A d \in Messages : /\ requests'[d].cmd \in Click /\ requests'[d].of \in 1..n
                            /\ requests'[d].of = n => requests'[d].cmd = cmd
    BY <1>4, <1>10 DEF PendingIsKept
  <2> QED BY <1>2, <1>3, <1>5, <1>9, <2>1, <2>2 DEF PendingIsKept
<1>13. OneCommandPerDraft'
  <2>1. \A d \in Messages : requests'[d].of = n => requests'[d].cmd = cmd BY <1>4, <1>10
  <2> QED BY <1>6, <1>7, <1>9, <1>10, <2>1 DEF OneCommandPerDraft
<1>14. TurnsHaveReceipts' BY <1>1, <1>9, <1>10 DEF TurnsHaveReceipts
<1>15. OpenFirst' BY <1>1 DEF OpenFirst
<1>16. OncePerDraft' BY <1>1 DEF OncePerDraft
<1> QED BY <1>11, <1>12, <1>13, <1>14, <1>15, <1>16

\* The other steps of the page ask nothing, or nothing that is a message.
LEMMA PageStep ==
    ASSUME DraftInvariant,
           \/ Open \/ ReadPage \/ ApplyPages \/ LoadFails \/ Receive \/ Flush \/ EditDraft
           \/ \E t \in DOMAIN turns : Delta(t) \/ ToolProgress(t)
    PROVE  DraftInvariant'
<1> USE DEF DraftInvariant
<1>l. loads \in Nat BY DEF OpenFirst
<1>n. composer.draft \in Nat \ {0} /\ composer \in Composer BY DEF SubmissionType, Composer
<1>1. CASE Open
  <2>1. loads' = loads + 1 /\ UNCHANGED <<turns, receipts>> BY <1>1 DEF Open, serverVars
  <2>2. composer' = [draft |-> composer.draft + (IF loads > 0 THEN 1 ELSE 0),
                     pending |-> NoSubmission, busy |-> FALSE]
    BY <1>1 DEF Open
  <2>3. KeepsDraft
    <3>1. composer' \in Composer BY <1>n, <2>2 DEF Composer, Submission
    <3>2. CASE loads > 0 BY <1>n, <2>2, <3>1, <3>2 DEF KeepsDraft
    <3>3. CASE ~(loads > 0)
      <4>1. Messages = {} BY <1>l, <3>3 DEF OpenFirst
      <4> QED BY <1>n, <2>2, <3>1, <3>3, <4>1 DEF KeepsDraft
    <3> QED BY <3>2, <3>3
  <2>4. SameQuestions
    <3>1. requests' = [c \in Click |-> IF requests[c].page = "waits"
                                      THEN [requests[c] EXCEPT !.page = "left"] ELSE requests[c]]
      BY <1>1 DEF Open
    <3> QED BY <3>1 DEF SameQuestions, SubmissionType, RequestField
  <2> QED BY <1>l, <2>1, <2>3, <2>4, NoTurnMoves, NoReceipt, QuietStep
<1>2. CASE EditDraft
  <2>1. UNCHANGED <<turns, receipts, requests, loads>> BY <1>2 DEF EditDraft, serverVars
  <2>2. composer' = [composer EXCEPT !.draft = @ + 1, !.pending = NoSubmission]
    BY <1>2 DEF EditDraft
  <2>3. composer.draft + 1 \in Nat \ {0} /\ NoSubmission \in Submission BY <1>n DEF Submission
  <2>4. composer' \in Composer /\ composer'.draft = composer.draft + 1
    BY <1>n, <2>2, <2>3 DEF Composer
  <2>5. KeepsDraft BY <1>n, <2>4 DEF KeepsDraft
  <2> QED BY <1>l, <2>1, <2>5, NothingAsked, NoTurnMoves, NoReceipt, QuietStep
<1>3. CASE \/ ReadPage \/ ApplyPages \/ LoadFails \/ Receive \/ Flush
           \/ \E t \in DOMAIN turns : Delta(t) \/ ToolProgress(t)
  <2>1. UNCHANGED <<turns, receipts, requests, loads, composer>>
    BY <1>3 DEF ReadPage, ApplyPages, LoadFails, Receive, Flush, Delta, ToolProgress, serverVars
  <2>2. KeepsDraft BY <1>n, <2>1 DEF KeepsDraft
  <2> QED BY <1>l, <2>1, <2>2, NothingAsked, NoTurnMoves, NoReceipt, QuietStep
<1> QED BY <1>1, <1>2, <1>3

LEMMA ClickStep ==
    ASSUME DraftInvariant, NEW c \in Click,
           \/ SubmitMessage(c) \/ RetractRecord(c) \/ Answered(c) \/ Failed(c)
           \/ \E t \in Turns : CancelTurn(c, t)
           \/ \E content \in Content : SubmitMemory(c, content)
    PROVE  DraftInvariant'
<1> USE DEF DraftInvariant
<1>l. loads \in Nat BY DEF OpenFirst
<1>n. composer.draft \in Nat \ {0} /\ composer \in Composer BY DEF SubmissionType, Composer
<1>1. CASE SubmitMessage(c) BY <1>1, SubmitStep
<1>2. CASE RetractRecord(c)
  <2>1. PICK m \in view.cards :
          Sends(c, "retract", m, CommandFor(Key("retract", m, Nothing), c), "none")
    BY <1>2 DEF RetractRecord, SendsUnder
  <2>2. UNCHANGED <<composer, loads>> /\ KeepsDraft
    BY <1>2, <1>n DEF RetractRecord, KeepsDraft
  <2> QED BY <2>1, <2>2, OtherRequest DEF Kind
<1>3. CASE \E t \in Turns : CancelTurn(c, t)
  <2>1. PICK t \in Turns : CancelTurn(c, t) BY <1>3
  <2>2. Sends(c, "cancel", t, CommandFor(Key("cancel", t, Nothing), c), view.shown[t])
    BY <2>1 DEF CancelTurn, SendsUnder
  <2>3. UNCHANGED <<composer, loads>> /\ KeepsDraft
    BY <2>1, <1>n DEF CancelTurn, KeepsDraft
  <2> QED BY <2>2, <2>3, OtherRequest DEF Kind
<1>4. CASE \E content \in Content : SubmitMemory(c, content)
  <2>1. PICK content \in Content : SubmitMemory(c, content) BY <1>4
  <2>2. UNCHANGED <<composer, loads>> /\ KeepsDraft
    BY <2>1, <1>n DEF SubmitMemory, KeepsDraft
  <2>3. CASE SendsUnder(c, "remember", 0, content, "none")
    BY <2>2, <2>3, OtherRequest DEF SendsUnder, Kind
  <2>4. CASE \E m \in view.cards : SendsUnder(c, "replace", m, content, "none")
    BY <2>2, <2>4, OtherRequest DEF SendsUnder, Kind
  <2> QED BY <2>1, <2>3, <2>4 DEF SubmitMemory
<1>5. CASE Answered(c)
  <2>1. UNCHANGED <<turns, receipts, loads>> /\ requests' = [requests EXCEPT ![c]["page"] = "left"]
    BY <1>5 DEF Answered, Leaves, serverVars
  <2>2. KeepsDraft
    <3>1. CASE requests[c].kind = "message"
      <4>1. composer' = [draft |-> composer.draft + 1, pending |-> NoSubmission, busy |-> FALSE]
        BY <1>5, <3>1 DEF Answered
      <4> QED BY <1>n, <4>1 DEF KeepsDraft, Composer, Submission
    <3>2. CASE requests[c].kind # "message"
      <4>1. UNCHANGED composer BY <1>5, <3>2 DEF Answered, SubmissionType, Kind
      <4> QED BY <1>n, <4>1 DEF KeepsDraft
    <3> QED BY <3>1, <3>2
  <2>3. SameQuestions BY <2>1, GetsOn
  <2> QED BY <1>l, <2>1, <2>2, <2>3, NoTurnMoves, NoReceipt, QuietStep
<1>6. CASE Failed(c)
  <2>1. UNCHANGED <<turns, receipts, loads>> /\ requests' = [requests EXCEPT ![c]["page"] = "left"]
    BY <1>6 DEF Failed, Leaves, serverVars
  <2>2. composer' \in {composer, [composer EXCEPT !.busy = FALSE]} BY <1>6 DEF Failed
  <2>3. KeepsDraft BY <1>n, <2>2 DEF KeepsDraft, Composer
  <2>4. SameQuestions BY <2>1, GetsOn
  <2> QED BY <1>l, <2>1, <2>3, <2>4, NoTurnMoves, NoReceipt, QuietStep
<1> QED BY <1>1, <1>2, <1>3, <1>4, <1>5, <1>6

LEMMA InvariantStep == DraftInvariant /\ [Next]_vars => DraftInvariant'
<1> SUFFICES ASSUME DraftInvariant, [Next]_vars PROVE DraftInvariant' OBVIOUS
<1>1. CASE ServerStep BY <1>1, ServerInvariant
<1>2. CASE \/ Open \/ ReadPage \/ ApplyPages \/ LoadFails \/ Receive \/ Flush \/ EditDraft
           \/ \E t \in DOMAIN turns : Delta(t) \/ ToolProgress(t)
  BY <1>2, PageStep
<1>3. ASSUME NEW c \in Click,
             \/ SubmitMessage(c) \/ RetractRecord(c) \/ Answered(c) \/ Failed(c)
             \/ \E t \in Turns : CancelTurn(c, t)
             \/ \E content \in Content : SubmitMemory(c, content)
      PROVE  DraftInvariant'
  BY <1>3, ClickStep
<1>4. CASE UNCHANGED vars
  <2>1. UNCHANGED <<turns, receipts, requests, loads, composer>>
    BY <1>4 DEF vars, serverVars, pageVars
  <2>2. KeepsDraft BY <2>1 DEF KeepsDraft, DraftInvariant, SubmissionType
  <2> QED
    BY <2>1, <2>2, NothingAsked, NoTurnMoves, NoReceipt, QuietStep DEF DraftInvariant, OpenFirst
<1> QED BY <1>1, <1>2, <1>3, <1>4 DEF Next

\* The invariant behind one Turn per draft: the submissions of a draft share a command id,
\* on whose receipt its Turn is (submitMessage, and the receipts of the web binding).
THEOREM DraftInvariance == Spec => []DraftInvariant
BY InitInvariant, InvariantStep, PTL DEF Spec

\* However often a draft is sent from a page, with answers lost or late, the room makes one
\* Turn of it (composer and pendingSubmission in web/app.ts).
THEOREM OneTurnPerDraft == Spec => []OncePerDraft
<1>1. DraftInvariant => OncePerDraft BY DEF DraftInvariant
<1> QED BY <1>1, DraftInvariance, PTL

----------------------------------------------------------------------------
(* The fold that a snapshot is, event by event *)

LEMMA LeastNumber ==
    ASSUME NEW S \in SUBSET Nat, S # {}
    PROVE  \E m \in S : \A k \in S : m <= k
<1>1. IsWellFoundedOn(OpToRel(<, Nat), Nat) BY NatLessThanWellFounded
<1>2. PICK m \in S : \A k \in S : ~ (<<k, m>> \in OpToRel(<, Nat)) BY <1>1, WFMin
<1>3. \A k \in S : m <= k
  <2> TAKE k \in S
  <2>1. m \in Nat /\ k \in Nat OBVIOUS
  <2>2. ~ (k < m) BY <1>2, <2>1 DEF OpToRel
  <2> QED BY <2>1, <2>2
<1> QED BY <1>3

LEMMA GreatestNumber ==
    ASSUME NEW n \in Nat, NEW S \in SUBSET (1..n), S # {}
    PROVE  Max(S) \in S /\ \A k \in S : k <= Max(S)
<1> DEFINE T == {n - k : k \in S}
<1>1. T \in SUBSET Nat /\ T # {}
  <2>1. \A k \in S : n - k \in Nat OBVIOUS
  <2>2. PICK k \in S : TRUE OBVIOUS
  <2>3. n - k \in T OBVIOUS
  <2> QED BY <2>1, <2>3
<1>2. PICK t \in T : \A k \in T : t <= k BY <1>1, LeastNumber
<1>3. PICK m \in S : t = n - m BY <1>2
<1>4. \A k \in S : m >= k
  <2> TAKE k \in S
  <2>1. n - k \in T OBVIOUS
  <2>2. n - m <= n - k BY <1>2, <1>3, <2>1
  <2> QED BY <2>2
<1>5. \E x \in S : \A k \in S : x >= k BY <1>4
<1>6. Max(S) \in S /\ \A k \in S : Max(S) >= k BY <1>5 DEF Max
<1> QED BY <1>6

LEMMA MaxOfTwo ==
    ASSUME NEW m \in Int
    PROVE  Max({1, m}) = IF m >= 1 THEN m ELSE 1
<1>1. CASE m >= 1
  <2>1. {1, m} \in SUBSET (1..m) /\ {1, m} # {} /\ m \in Nat BY <1>1
  <2>2. Max({1, m}) \in {1, m} /\ \A k \in {1, m} : k <= Max({1, m}) BY <2>1, GreatestNumber
  <2> QED BY <1>1, <2>2
<1>2. CASE ~(m >= 1)
  <2>1. 1 \in {1, m} /\ \A k \in {1, m} : 1 >= k BY <1>2
  <2>2. Max({1, m}) \in {1, m} /\ \A k \in {1, m} : Max({1, m}) >= k BY <2>1 DEF Max
  <2> QED BY <1>2, <2>2
<1> QED BY <1>1, <1>2

\* The function by which FoldLeft is defined, for the first n events of w.
Folds(w, n, g) ==
    g = [s \in SUBSET (1..n) |-> IF s = {} THEN EmptyView
                                 ELSE Dispatch(g[s \ {Max(s)}], w[Max(s)])]

LEMMA FoldGrows ==
    ASSUME NEW w, NEW n \in Nat, NEW g, Folds(w, n, g)
    PROVE  \E h : Folds(w, n + 1, h)
<1> DEFINE new(s) == Dispatch(g[s \ {n + 1}], w[n + 1])
           h == [s \in SUBSET (1..n + 1) |-> IF s \in SUBSET (1..n) THEN g[s] ELSE new(s)]
           step(s) == IF s = {} THEN EmptyView ELSE Dispatch(h[s \ {Max(s)}], w[Max(s)])
<1>1. ASSUME NEW s \in SUBSET (1..n + 1) PROVE h[s] = step(s)
  <2>1. CASE s = {}
    <3>1. h[s] = g[s] BY <2>1
    <3>2. g[s] = EmptyView BY <2>1 DEF Folds
    <3> QED BY <2>1, <3>1, <3>2
  <2>2. CASE s # {} /\ s \in SUBSET (1..n)
    <3>1. Max(s) \in s BY <2>2, GreatestNumber
    <3>2. s \ {Max(s)} \in SUBSET (1..n) /\ s \ {Max(s)} \in SUBSET (1..n + 1) BY <2>2
    <3>3. h[s \ {Max(s)}] = g[s \ {Max(s)}] BY <3>2
    <3>4. g[s] = Dispatch(g[s \ {Max(s)}], w[Max(s)]) BY <2>2 DEF Folds
    <3>5. h[s] = g[s] BY <2>2
    <3> QED BY <2>2, <3>3, <3>4, <3>5
  <2>3. CASE s \notin SUBSET (1..n)
    <3>1. n + 1 \in s /\ s # {} BY <2>3
    <3>2. Max(s) \in s /\ \A k \in s : k <= Max(s) BY <3>1, GreatestNumber
    <3>3. Max(s) = n + 1
      <4>1. Max(s) \in 1..n + 1 /\ n + 1 <= Max(s) BY <3>1, <3>2
      <4> QED BY <4>1
    <3>4. s \ {n + 1} \in SUBSET (1..n) /\ s \ {n + 1} \in SUBSET (1..n + 1) OBVIOUS
    <3>5. h[s \ {n + 1}] = g[s \ {n + 1}] BY <3>4
    <3>6. h[s] = new(s) BY <2>3
    <3> QED BY <3>1, <3>3, <3>5, <3>6
  <2> QED BY <2>1, <2>2, <2>3
<1>2. h = [s \in SUBSET (1..n + 1) |-> h[s]] OBVIOUS
<1> HIDE DEF h
<1>3. h = [s \in SUBSET (1..n + 1) |-> step(s)] BY <1>1, <1>2
<1> QED BY <1>3 DEF Folds

LEMMA FoldExists ==
    ASSUME NEW w, NEW n \in Nat
    PROVE  \E g : Folds(w, n, g)
<1> DEFINE Without == {k \in 0..n : ~ \E g : Folds(w, k, g)}
<1>1. SUFFICES ASSUME Without # {} PROVE FALSE
  <2>1. n \in 0..n OBVIOUS
  <2> QED BY <1>1, <2>1
<1>2. PICK k \in Without : \A j \in Without : k <= j
  <2>1. Without \in SUBSET Nat OBVIOUS
  <2> QED BY <1>1, <2>1, LeastNumber
<1>3. CASE k = 0
  <2> DEFINE g == [s \in SUBSET (1..0) |-> EmptyView]
  <2>1. \A s \in SUBSET (1..0) : s = {} OBVIOUS
  <2>2. g = [s \in SUBSET (1..0) |-> IF s = {} THEN EmptyView
                                     ELSE Dispatch(g[s \ {Max(s)}], w[Max(s)])]
    BY <2>1
  <2>3. Folds(w, 0, g) BY <2>2 DEF Folds
  <2> QED BY <1>2, <1>3, <2>3
<1>4. CASE k # 0
  <2>1. k - 1 \in 0..n /\ k - 1 \in Nat /\ k - 1 \notin Without BY <1>2, <1>4
  <2>2. PICK g : Folds(w, k - 1, g) BY <2>1
  <2>3. \E h : Folds(w, k - 1 + 1, h) BY <2>1, <2>2, FoldGrows
  <2>4. k - 1 + 1 = k BY <2>1
  <2> QED BY <1>2, <2>3, <2>4
<1> QED BY <1>3, <1>4

LEMMA FoldIsOne ==
    ASSUME NEW w, NEW n \in Nat, DOMAIN w = 1..n
    PROVE  \E g : Folds(w, n, g) /\ FoldLeft(Dispatch, EmptyView, w) = g[1..n]
<1> DEFINE h == CHOOSE g : Folds(w, n, g)
<1>1. Folds(w, n, h) BY FoldExists
<1>2. FoldLeft(Dispatch, EmptyView, w) = h[1..n] BY DEF FoldLeft, MapThenFoldSet, Folds
<1> QED BY <1>1, <1>2

\* A snapshot is what the page would show had it received the events one by one.
LEMMA FoldTrace ==
    ASSUME NEW w, NEW n \in Nat, DOMAIN w = 1..n
    PROVE  \E f : /\ f[0] = EmptyView
                  /\ \A k \in 1..n : f[k] = Dispatch(f[k - 1], w[k])
                  /\ FoldLeft(Dispatch, EmptyView, w) = f[n]
<1>1. PICK g : Folds(w, n, g) /\ FoldLeft(Dispatch, EmptyView, w) = g[1..n] BY FoldIsOne
<1> DEFINE f == [k \in 0..n |-> g[1..k]]
<1>2. f[0] = EmptyView
  <2>1. 1..0 = {} /\ {} \in SUBSET (1..n) /\ 0 \in 0..n OBVIOUS
  <2>2. g[{}] = EmptyView BY <1>1, <2>1 DEF Folds
  <2> QED BY <2>1, <2>2
<1>3. ASSUME NEW k \in 1..n PROVE f[k] = Dispatch(f[k - 1], w[k])
  <2>1. 1..k \in SUBSET (1..n) /\ 1..k # {} /\ k \in Nat /\ k \in 0..n /\ k - 1 \in 0..n OBVIOUS
  <2>2. Max(1..k) \in 1..k /\ \A j \in 1..k : j <= Max(1..k) BY <2>1, GreatestNumber
  <2>3. Max(1..k) = k BY <2>2
  <2>4. (1..k) \ {k} = 1..(k - 1) OBVIOUS
  <2>5. g[1..k] = Dispatch(g[(1..k) \ {Max(1..k)}], w[Max(1..k)]) BY <1>1, <2>1 DEF Folds
  <2> QED BY <2>1, <2>3, <2>4, <2>5
<1>4. FoldLeft(Dispatch, EmptyView, w) = f[n]
  <2>1. n \in 0..n OBVIOUS
  <2> QED BY <1>1, <2>1
<1> HIDE DEF f
<1> QED BY <1>2, <1>3, <1>4

----------------------------------------------------------------------------
(* The room and its log *)

Status == Ended \cup {"queued", "running", "cancelling"}
Shown == Status \cup {"none", "cancel_requested"}
View == [shown : [Turns -> Shown], answers : SUBSET Turns, streams : SUBSET Turns,
         buckets : SUBSET Turns, closed : SUBSET Turns, cards : SUBSET Nat]

\* The events there may be of the Turns and memories there are.
Entries ==
    {TurnEvent(t, to) : t \in DOMAIN turns, to \in {"queued", "running"} \cup Ended}
        \cup {ReplyEvent(t) : t \in DOMAIN turns}
        \cup {MemoryEvent(m, "retracted", 0) : m \in DOMAIN memories}
        \cup {MemoryEvent(m, "active", old) : m \in DOMAIN memories, old \in {0} \cup DOMAIN memories}

RoomType ==
    /\ Len(turns) <= MaxTurns /\ memories \in Seq([status : MemoryStatus])
    /\ log \in Seq(Entries)

\* What the event i says of a Turn and of a record, and what the first n of them say.
TellsOf(i, t) == log[i].kind = "turn" /\ log[i].of = t
TellsEnd(i, t) == TellsOf(i, t) /\ log[i].to \in Ended
Told(t, n) == \E i \in 1..n : TellsOf(i, t)
Over(t, n) == \E i \in 1..n : TellsEnd(i, t)

Creates(i, m) == log[i].kind = "memory" /\ log[i].of = m /\ log[i].to = "active"
Ends(i, m) ==
    /\ log[i].kind = "memory"
    /\ log[i].instead = m \/ (log[i].of = m /\ log[i].to = "retracted")
Gone(m, n) == \E i \in 1..n : Ends(i, m)

\* The log tells of every Turn, and of its end when it has ended, as the last of it.
TurnsLogged ==
    \A t \in DOMAIN turns :
        /\ Told(t, Len(log))
        /\ turns[t].status \in Ended <=> Over(t, Len(log))
        /\ \A i, j \in 1..Len(log) : TellsEnd(i, t) /\ TellsOf(j, t) => j <= i

\* The log tells of every record, and afterwards of its end when it is not in force.
MemoriesLogged ==
    \A m \in DOMAIN memories :
        /\ \E i \in 1..Len(log) : Creates(i, m)
        /\ memories[m].status = "active" <=> ~Gone(m, Len(log))
        /\ \A i, j \in 1..Len(log) : Creates(i, m) /\ Ends(j, m) => i < j

LogInvariant == RoomType /\ TurnsLogged /\ MemoriesLogged

----------------------------------------------------------------------------
(* What an event does to the cards *)

\* An answer, closed for deltas, has no stream beside it; neither has a Turn that ended.
Closed(v) ==
    /\ v.answers \subseteq v.closed /\ v.buckets \cap v.closed = {} /\ v.answers \cap v.streams = {}
    /\ \A t \in Turns : v.shown[t] \in Ended => t \in v.closed

LEMMA RenderTurnFacts ==
    ASSUME NEW v \in View, NEW t \in Turns, NEW to \in Shown
    PROVE  LET u == RenderTurn(v, t, to) IN
           /\ u \in View /\ u.cards = v.cards
           /\ u.shown = [v.shown EXCEPT ![t] = to]
           /\ Closed(v) => Closed(u)
<1> DEFINE u == RenderTurn(v, t, to)
           shown == [v.shown EXCEPT ![t] = to]
<1>1. shown \in [Turns -> Shown] /\ shown[t] = to /\ \A s \in Turns \ {t} : shown[s] = v.shown[s]
  BY DEF View
<1>2. CASE to \in Ended
  <2>1. u = [v EXCEPT !.shown = shown, !.closed = v.closed \cup {t}, !.buckets = v.buckets \ {t}]
    BY <1>2 DEF RenderTurn, View
  <2> HIDE DEF shown, u
  <2>2. /\ u \in View /\ u.cards = v.cards /\ u.shown = shown /\ u.answers = v.answers
        /\ u.streams = v.streams /\ u.closed = v.closed \cup {t} /\ u.buckets = v.buckets \ {t}
    BY <1>1, <2>1 DEF View
  <2>3. Closed(v) => Closed(u) BY <1>1, <2>2 DEF Closed
  <2> QED BY <2>2, <2>3 DEF u, shown
<1>3. CASE to \notin Ended
  <2>1. u = [v EXCEPT !.shown = shown]
    BY <1>3 DEF RenderTurn, View
  <2> HIDE DEF shown, u
  <2>2. /\ u \in View /\ u.cards = v.cards /\ u.shown = shown /\ u.answers = v.answers
        /\ u.streams = v.streams /\ u.closed = v.closed /\ u.buckets = v.buckets
    BY <1>1, <2>1 DEF View
  <2>3. Closed(v) => Closed(u) BY <1>1, <1>3, <2>2 DEF Closed
  <2> QED BY <2>2, <2>3 DEF u, shown
<1> QED BY <1>2, <1>3

LEMMA RenderMessageFacts ==
    ASSUME NEW v \in View, NEW t \in Turns
    PROVE  LET u == RenderMessage(v, t) IN
           /\ u \in View /\ u.cards = v.cards /\ u.shown = v.shown
           /\ Closed(v) => Closed(u)
<1> DEFINE u == RenderMessage(v, t)
<1>1. u = [v EXCEPT !.closed = v.closed \cup {t}, !.buckets = v.buckets \ {t},
                    !.streams = v.streams \ {t}, !.answers = v.answers \cup {t}]
  BY DEF RenderMessage, View
<1> HIDE DEF u
<1>2. /\ u \in View /\ u.cards = v.cards /\ u.shown = v.shown /\ u.answers = v.answers \cup {t}
      /\ u.streams = v.streams \ {t} /\ u.closed = v.closed \cup {t} /\ u.buckets = v.buckets \ {t}
  BY <1>1 DEF View
<1>3. Closed(v) => Closed(u) BY <1>2 DEF Closed
<1> QED BY <1>2, <1>3 DEF u

\* Only the cards of records change.
LEMMA CardsFacts ==
    ASSUME NEW v \in View, NEW cards \in SUBSET Nat
    PROVE  LET u == [v EXCEPT !.cards = cards] IN
           /\ u \in View /\ u.cards = cards /\ u.shown = v.shown
           /\ Closed(v) => Closed(u)
<1> DEFINE u == [v EXCEPT !.cards = cards]
<1>1. /\ u \in View /\ u.cards = cards /\ u.shown = v.shown /\ u.answers = v.answers
      /\ u.streams = v.streams /\ u.closed = v.closed /\ u.buckets = v.buckets
  BY DEF View
<1> HIDE DEF u
<1>2. Closed(v) => Closed(u) BY <1>1 DEF Closed
<1> QED BY <1>1, <1>2 DEF u

LEMMA EntryCases ==
    ASSUME LogInvariant, turns \in Seq(TurnState), NEW i \in 1..Len(log)
    PROVE  \/ /\ log[i].kind = "turn" /\ log[i].of \in DOMAIN turns
              /\ log[i].of \in Turns /\ log[i].to \in {"queued", "running"} \cup Ended
           \/ log[i].kind = "reply" /\ log[i].of \in DOMAIN turns /\ log[i].of \in Turns
           \/ /\ log[i].kind = "memory" /\ log[i].of \in DOMAIN memories /\ log[i].of \in Nat \ {0}
              /\ log[i].instead \in Nat
              /\ \/ log[i].to = "retracted" /\ log[i].instead = 0
                 \/ log[i].to = "active"
<1>1. log[i] \in Entries BY DEF LogInvariant, RoomType
<1>2. DOMAIN turns = 1..Len(turns) /\ Len(turns) \in Nat BY DEF LogInvariant
<1>3. DOMAIN memories = 1..Len(memories) /\ Len(memories) \in Nat BY DEF LogInvariant, RoomType
<1>4. DOMAIN turns \subseteq Turns
  BY <1>2, RoomAssumption DEF LogInvariant, RoomType, Turns
<1> QED BY <1>1, <1>3, <1>4 DEF Entries, TurnEvent, ReplyEvent, MemoryEvent

Takes(v, i, u) ==
    /\ u \in View /\ (Closed(v) => Closed(u))
    /\ u.shown = IF log[i].kind = "turn" THEN [v.shown EXCEPT ![log[i].of] = log[i].to]
                 ELSE v.shown
    /\ u.cards = IF log[i].kind # "memory" THEN v.cards
                 ELSE IF log[i].to = "retracted" THEN v.cards \ {log[i].of}
                 ELSE (v.cards \ {log[i].instead}) \cup {log[i].of}

LEMMA DispatchFacts ==
    ASSUME LogInvariant, turns \in Seq(TurnState), NEW i \in 1..Len(log), NEW v \in View
    PROVE  Takes(v, i, Dispatch(v, log[i]))
<1> DEFINE e == log[i]
           u == Dispatch(v, e)
<1>1. CASE e.kind = "turn"
  <2>1. u = RenderTurn(v, e.of, e.to) BY <1>1 DEF Dispatch
  <2>2. e.of \in Turns /\ e.to \in Shown BY <1>1, EntryCases DEF Shown, Status
  <2> QED BY <1>1, <2>1, <2>2, RenderTurnFacts DEF Takes
<1>2. CASE e.kind = "reply"
  <2>1. u = RenderMessage(v, e.of) BY <1>2 DEF Dispatch
  <2>2. e.of \in Turns BY <1>2, EntryCases
  <2> QED BY <1>2, <2>1, <2>2, RenderMessageFacts DEF Takes
<1>3. CASE e.kind = "memory"
  <2> DEFINE cards == IF e.to = "retracted" THEN v.cards \ {e.of}
                      ELSE (v.cards \ {e.instead}) \cup {e.of}
  <2>1. u = [v EXCEPT !.cards = cards] BY <1>3 DEF Dispatch, AddRecord, View
  <2>2. e.of \in Nat BY <1>3, EntryCases
  <2>3. cards \in SUBSET Nat BY <2>2 DEF View
  <2> HIDE DEF u, e
  <2>4. u \in View /\ u.cards = cards /\ u.shown = v.shown /\ (Closed(v) => Closed(u))
    <3> HIDE DEF cards
    <3> QED BY <2>1, <2>3, CardsFacts
  <2> QED BY <1>3, <2>4 DEF u, e, Takes
<1> QED BY <1>1, <1>2, <1>3, EntryCases DEF Takes

----------------------------------------------------------------------------
(* The snapshot a page starts from *)

\* What a view shows that was built from the events after a up to b.
Shows(v, a, b) ==
    /\ v \in View /\ Closed(v)
    /\ \A t \in Turns :
           /\ (\E i \in (a + 1)..b : TellsEnd(i, t)) => v.shown[t] \in Ended
           /\ (~ \E i \in (a + 1)..b : TellsOf(i, t)) => v.shown[t] = "none"
    /\ \A m \in v.cards :
           /\ m \in DOMAIN memories
           /\ \E i \in (a + 1)..b : Creates(i, m)
           /\ \A j \in (a + 1)..b : ~Ends(j, m)

LEMMA DispatchShows ==
    ASSUME LogInvariant, turns \in Seq(TurnState),
           NEW a \in Nat, NEW b \in Nat, a <= b, b < Len(log), NEW v, Shows(v, a, b)
    PROVE  Shows(Dispatch(v, log[b + 1]), a, b + 1)
<1> DEFINE e == log[b + 1]
           u == Dispatch(v, e)
<1>n. Len(log) \in Nat BY DEF LogInvariant, RoomType
<1>i. b + 1 \in 1..Len(log) BY <1>n
<1>v. v \in View /\ Closed(v) BY DEF Shows
<1>1. /\ u \in View /\ Closed(u)
      /\ u.shown = IF e.kind = "turn" THEN [v.shown EXCEPT ![e.of] = e.to] ELSE v.shown
      /\ u.cards = IF e.kind # "memory" THEN v.cards
                   ELSE IF e.to = "retracted" THEN v.cards \ {e.of}
                   ELSE (v.cards \ {e.instead}) \cup {e.of}
  BY <1>i, <1>v, DispatchFacts DEF Takes
<1>2. \/ /\ e.kind = "turn" /\ e.of \in Turns /\ e.to \in {"queued", "running"} \cup Ended
      \/ e.kind = "reply"
      \/ /\ e.kind = "memory" /\ e.of \in DOMAIN memories /\ e.of \in Nat \ {0}
         /\ \/ e.to = "retracted" /\ e.instead = 0
            \/ e.to = "active"
  BY <1>i, EntryCases
<1>r. (a + 1)..(b + 1) = ((a + 1)..b) \cup {b + 1} OBVIOUS
<1>w. (a + 1)..b \subseteq 1..Len(log) BY <1>n
<1> HIDE DEF u, e
<1>3. ASSUME NEW t \in Turns
      PROVE  /\ (\E i \in (a + 1)..(b + 1) : TellsEnd(i, t)) => u.shown[t] \in Ended
             /\ (~ \E i \in (a + 1)..(b + 1) : TellsOf(i, t)) => u.shown[t] = "none"
  <2>0. /\ (\E i \in (a + 1)..b : TellsEnd(i, t)) => v.shown[t] \in Ended
        /\ (~ \E i \in (a + 1)..b : TellsOf(i, t)) => v.shown[t] = "none"
    BY DEF Shows
  <2>1. CASE e.kind = "turn" /\ e.of = t
    <3>1. u.shown[t] = e.to BY <1>1, <1>v, <2>1 DEF View
    <3>2. TellsOf(b + 1, t) BY <2>1 DEF TellsOf, e
    <3>3. ASSUME NEW i \in (a + 1)..(b + 1), TellsEnd(i, t) PROVE e.to \in Ended
      <4>1. CASE i = b + 1 BY <3>3, <4>1 DEF TellsEnd, e
      <4>2. CASE i # b + 1
        <5>1. i \in 1..Len(log) /\ i \in Nat /\ i < b + 1 BY <1>r, <1>w, <4>2
        <5>2. t \in DOMAIN turns
          <6>1. log[b + 1].of \in DOMAIN turns BY <1>i, <2>1, EntryCases DEF e
          <6> QED BY <2>1, <6>1 DEF e
        <5>3. b + 1 <= i BY <1>i, <3>2, <3>3, <5>1, <5>2 DEF LogInvariant, TurnsLogged
        <5> QED BY <5>1, <5>3
      <4> QED BY <4>1, <4>2
    <3> QED BY <1>r, <3>1, <3>2, <3>3
  <2>2. CASE ~(e.kind = "turn" /\ e.of = t)
    <3>1. u.shown[t] = v.shown[t]
      <4>1. CASE e.kind = "turn" BY <1>1, <1>v, <2>2, <4>1 DEF View
      <4>2. CASE e.kind # "turn" BY <1>1, <4>2
      <4> QED BY <4>1, <4>2
    <3>2. ~TellsOf(b + 1, t) /\ ~TellsEnd(b + 1, t) BY <2>2 DEF TellsOf, TellsEnd, e
    <3> QED BY <1>r, <2>0, <3>1, <3>2
  <2> QED BY <2>1, <2>2
<1>4. ASSUME NEW m \in u.cards
      PROVE  /\ m \in DOMAIN memories
             /\ \E i \in (a + 1)..(b + 1) : Creates(i, m)
             /\ \A j \in (a + 1)..(b + 1) : ~Ends(j, m)
  <2>1. CASE Creates(b + 1, m)
    <3>1. m \in DOMAIN memories BY <1>2, <2>1 DEF Creates, e
    <3>2. ASSUME NEW j \in (a + 1)..(b + 1), Ends(j, m) PROVE FALSE
      <4>1. j \in 1..Len(log) /\ j <= b + 1 BY <1>i, <1>r, <1>w
      <4>2. b + 1 < j BY <1>i, <2>1, <3>1, <3>2, <4>1 DEF LogInvariant, MemoriesLogged
      <4> QED BY <4>1, <4>2
    <3> QED BY <1>r, <2>1, <3>1, <3>2
  <2>2. CASE ~Creates(b + 1, m)
    <3>1. m \in v.cards /\ ~Ends(b + 1, m)
      <4>0. m \in v.cards => m # 0
        <5>1. memories \in Seq([status : MemoryStatus]) BY DEF LogInvariant, RoomType
        <5>2. 0 \notin DOMAIN memories BY <5>1
        <5> QED BY <5>2 DEF Shows
      <4>1. CASE e.kind # "memory" BY <1>1, <4>1 DEF Ends, e
      <4>2. CASE e.kind = "memory" /\ e.to = "retracted"
        <5>1. e.instead = 0 BY <1>2, <4>2
        <5>2. m \in v.cards /\ m # e.of BY <1>1, <4>2
        <5> QED BY <4>0, <5>1, <5>2 DEF Ends, e
      <4>3. CASE e.kind = "memory" /\ e.to # "retracted"
        <5>1. e.to = "active" BY <1>2, <4>3
        <5>2. e.of # m BY <2>2, <4>3, <5>1 DEF Creates, e
        <5>3. m \in v.cards /\ m # e.instead BY <1>1, <4>3, <5>2
        <5> QED BY <4>3, <5>2, <5>3 DEF Ends, e
      <4> QED BY <4>1, <4>2, <4>3
    <3>2. /\ m \in DOMAIN memories
          /\ \E i \in (a + 1)..b : Creates(i, m)
          /\ \A j \in (a + 1)..b : ~Ends(j, m)
      BY <3>1 DEF Shows
    <3> QED BY <1>r, <3>1, <3>2
  <2> QED BY <2>1, <2>2
<1> QED BY <1>1, <1>3, <1>4 DEF Shows, u, e

LEMMA SnapshotFacts ==
    ASSUME LogInvariant, turns \in Seq(TurnState)
    PROVE  /\ Snapshot \in View /\ Closed(Snapshot)
           /\ \A t \in Turns :
                 /\ t \in Live => Snapshot.shown[t] = turns[t].status
                 /\ t \notin Live => Snapshot.shown[t] \in Ended \cup {"none"}
                 /\ t \notin DOMAIN turns => Snapshot.shown[t] = "none"
           /\ \A m \in Snapshot.cards : m \in DOMAIN memories /\ ~Gone(m, Len(log))
<1> DEFINE len == Len(log)
           first == Max({1, len - RecentLimit + 1})
           w == SubSeq(log, first, len)
           a == first - 1
           n == len - a
           recent == FoldLeft(Dispatch, EmptyView, w)
<1>1. len \in Nat /\ RecentLimit \in Nat \ {0} BY PageAssumption DEF LogInvariant, RoomType
<1>2. first \in 1..(len + 1) BY <1>1, MaxOfTwo
<1>3. a \in Nat /\ n \in Nat /\ a + n = len
  <2> HIDE DEF first, len
  <2> QED BY <1>1, <1>2
<1>4. Len(w) = n /\ DOMAIN w = 1..n /\ \A k \in 1..n : w[k] = log[a + k]
  <2>1. \A i \in first..len : log[i] \in Entries
    <3>1. log \in Seq(Entries) BY DEF LogInvariant, RoomType
    <3> HIDE DEF Entries
    <3>2. \A i \in first..len : i \in 1..len BY <1>1, <1>2
    <3> QED BY <3>1, <3>2
  <2> HIDE DEF first, len, Entries
  <2>2. /\ w \in Seq(Entries) /\ Len(w) = IF first <= len THEN len - first + 1 ELSE 0
        /\ \A i \in 1..len - first + 1 : w[i] = log[first + i - 1]
    BY <1>1, <1>2, <2>1, SubSeqProperties
  <2>3. Len(w) = n BY <1>1, <1>2, <2>2
  <2>4. DOMAIN w = 1..n BY <2>2, <2>3
  <2>5. ASSUME NEW k \in 1..n PROVE w[k] = log[a + k]
    <3>1. k \in 1..len - first + 1 /\ first + k - 1 = a + k BY <1>1, <1>2
    <3> QED BY <2>2, <3>1
  <2> QED BY <2>3, <2>4, <2>5
<1> HIDE DEF w, n, a, first
<1>5. PICK f : /\ f[0] = EmptyView
               /\ \A k \in 1..n : f[k] = Dispatch(f[k - 1], w[k])
               /\ recent = f[n]
  BY <1>3, <1>4, FoldTrace
<1>6. \A k \in 0..n : Shows(f[k], a, a + k)
  <2> DEFINE Not == {k \in 0..n : ~Shows(f[k], a, a + k)}
  <2>1. SUFFICES ASSUME Not # {} PROVE FALSE BY <2>1
  <2>2. PICK k \in Not : \A j \in Not : k <= j
    <3>1. Not \in SUBSET Nat OBVIOUS
    <3> QED BY <2>1, <3>1, LeastNumber
  <2>3. CASE k = 0
    <3>1. EmptyView \in View BY DEF EmptyView, View, Shown
    <3>2. Closed(EmptyView) BY DEF EmptyView, Closed, Ended
    <3>3. (a + 1)..(a + 0) = {} BY <1>3
    <3>4. EmptyView.cards = {} /\ \A t \in Turns : EmptyView.shown[t] = "none" BY DEF EmptyView
    <3>5. Shows(EmptyView, a, a + 0) BY <3>1, <3>2, <3>3, <3>4 DEF Shows
    <3> QED BY <1>5, <2>2, <2>3, <3>5
  <2>4. CASE k # 0
    <3>1. k - 1 \in 0..n /\ k \in 1..n /\ k - 1 \notin Not BY <1>3, <2>2, <2>4
    <3>2. Shows(f[k - 1], a, a + (k - 1)) BY <3>1
    <3>3. a + (k - 1) \in Nat /\ a <= a + (k - 1) /\ a + (k - 1) < Len(log)
          /\ a + (k - 1) + 1 = a + k
      BY <1>3, <3>1
    <3>4. Shows(Dispatch(f[k - 1], log[a + (k - 1) + 1]), a, a + (k - 1) + 1)
      BY <1>3, <3>2, <3>3, DispatchShows
    <3>5. w[k] = log[a + k] BY <1>4, <3>1
    <3> QED BY <1>5, <2>2, <3>1, <3>3, <3>4, <3>5
  <2> QED BY <2>3, <2>4
<1>7. Shows(recent, a, len)
  <2>1. n \in 0..n BY <1>3
  <2>2. Shows(f[n], a, a + n) BY <1>6, <2>1
  <2> QED BY <1>3, <1>5, <2>2
<1> DEFINE shown == [t \in Turns |-> IF t \in Live THEN turns[t].status ELSE recent.shown[t]]
<1>8. shown \in [Turns -> Shown]
  <2>1. \A t \in Live : turns[t].status \in Shown
    <3> TAKE t \in Live
    <3>1. turns[t] \in TurnState BY DEF Live
    <3> QED BY <3>1 DEF TurnState, Shown, Status
  <2>2. \A t \in Turns : recent.shown[t] \in Shown BY <1>7 DEF Shows, View
  <2> QED BY <2>1, <2>2
<1>9. Snapshot = [recent EXCEPT !.shown = shown]
  BY <1>7 DEF Snapshot, w, first, Shows, View
<1> HIDE DEF recent, shown
<1>10. /\ Snapshot \in View /\ Snapshot.shown = shown /\ Snapshot.cards = recent.cards
       /\ Snapshot.answers = recent.answers /\ Snapshot.streams = recent.streams
       /\ Snapshot.buckets = recent.buckets /\ Snapshot.closed = recent.closed
  <2>1. recent \in View BY <1>7 DEF Shows
  <2> QED BY <1>8, <1>9, <2>1 DEF View
<1>11. Closed(Snapshot)
  <2>1. Closed(recent) BY <1>7 DEF Shows
  <2>2. \A t \in Turns : shown[t] \in Ended => recent.shown[t] \in Ended BY DEF shown, Live
  <2> QED BY <1>10, <2>1, <2>2 DEF Closed
<1>12. ASSUME NEW t \in Turns
       PROVE  /\ t \in Live => Snapshot.shown[t] = turns[t].status
              /\ t \notin Live => Snapshot.shown[t] \in Ended \cup {"none"}
              /\ t \notin DOMAIN turns => Snapshot.shown[t] = "none"
  <2>0. t \in Live => Snapshot.shown[t] = turns[t].status BY <1>10 DEF shown
  <2>1. t \notin Live => Snapshot.shown[t] = recent.shown[t] BY <1>10 DEF shown
  <2>2. /\ (\E i \in (a + 1)..len : TellsEnd(i, t)) => recent.shown[t] \in Ended
        /\ (~ \E i \in (a + 1)..len : TellsOf(i, t)) => recent.shown[t] = "none"
    BY <1>7 DEF Shows
  <2>3. CASE t \notin DOMAIN turns
    <3>1. \A i \in (a + 1)..len : ~TellsOf(i, t)
      <4> TAKE i \in (a + 1)..len
      <4>1. i \in 1..Len(log) BY <1>1, <1>3
      <4> QED BY <2>3, <4>1, EntryCases DEF TellsOf
    <3> QED BY <2>1, <2>2, <2>3, <3>1 DEF Live
  <2>4. CASE t \in DOMAIN turns /\ t \notin Live
    <3>1. PICK i \in 1..Len(log) : TellsEnd(i, t)
      BY <2>4 DEF Live, LogInvariant, TurnsLogged, Over
    <3>2. ASSUME NEW j \in (a + 1)..len, TellsOf(j, t) PROVE i \in (a + 1)..len
      <4>1. j \in 1..Len(log) BY <1>1, <1>3
      <4>2. j <= i BY <2>4, <3>1, <3>2, <4>1 DEF LogInvariant, TurnsLogged
      <4> QED BY <1>1, <1>3, <3>1, <4>2
    <3> QED BY <2>1, <2>2, <2>4, <3>1, <3>2
  <2> QED BY <2>0, <2>3, <2>4 DEF Live
<1>13. ASSUME NEW m \in Snapshot.cards PROVE m \in DOMAIN memories /\ ~Gone(m, Len(log))
  <2>1. /\ m \in DOMAIN memories
        /\ \E i \in (a + 1)..len : Creates(i, m)
        /\ \A j \in (a + 1)..len : ~Ends(j, m)
    BY <1>7, <1>10 DEF Shows
  <2>2. PICK i \in (a + 1)..len : Creates(i, m) BY <2>1
  <2>3. ASSUME NEW j \in 1..Len(log), Ends(j, m) PROVE FALSE
    <3>1. i \in 1..Len(log) BY <1>1, <1>3
    <3>2. i < j BY <2>1, <2>2, <2>3, <3>1 DEF LogInvariant, MemoriesLogged
    <3>3. j \in (a + 1)..len BY <1>1, <1>3, <3>2
    <3> QED BY <2>1, <2>3, <3>3
  <2> QED BY <2>1, <2>3 DEF Gone
<1> QED BY <1>10, <1>11, <1>12, <1>13

----------------------------------------------------------------------------
(* The log keeps up with the room *)

\* A step that adds k events.
Extends(k) ==
    /\ log' \in Seq(Entries') /\ Len(log') = Len(log) + k
    /\ \A i \in 1..Len(log) : log'[i] = log[i]

LEMMA SameBefore ==
    ASSUME NEW k \in Nat, Extends(k), NEW i \in 1..Len(log)
    PROVE  /\ \A t : (TellsOf(i, t)' <=> TellsOf(i, t)) /\ (TellsEnd(i, t)' <=> TellsEnd(i, t))
           /\ \A m : (Creates(i, m)' <=> Creates(i, m)) /\ (Ends(i, m)' <=> Ends(i, m))
<1>1. log'[i] = log[i] BY DEF Extends
<1> QED BY <1>1 DEF TellsOf, TellsEnd, Creates, Ends

LEMMA EntriesGrow ==
    ASSUME DOMAIN turns \subseteq DOMAIN turns', DOMAIN memories \subseteq DOMAIN memories'
    PROVE  Entries \subseteq Entries'
BY DEF Entries

LEMMA LogAppended ==
    ASSUME LogInvariant, NEW e, e \in Entries', Entries \subseteq Entries', log' = Append(log, e)
    PROVE  Extends(1) /\ log'[Len(log')] = e
<1>1. log \in Seq(Entries) BY DEF LogInvariant, RoomType
<1> DEFINE E == Entries'
<1>2. Entries \subseteq E /\ e \in E OBVIOUS
<1> HIDE DEF E
<1>3. log \in Seq(E) BY <1>1, <1>2, SeqMonotonic
<1>4. /\ log' \in Seq(E) /\ Len(log') = Len(log) + 1
      /\ \A i \in 1..Len(log) : log'[i] = log[i]
      /\ log'[Len(log) + 1] = e
  BY <1>2, <1>3, AppendProperties
<1> QED BY <1>4 DEF E, Extends

LEMMA LogConcatenated ==
    ASSUME LogInvariant, NEW es, es \in Seq(Entries'), Entries \subseteq Entries', log' = log \o es
    PROVE  Extends(Len(es)) /\ \A i \in 1..Len(es) : log'[Len(log) + i] = es[i]
<1>1. log \in Seq(Entries) BY DEF LogInvariant, RoomType
<1> DEFINE E == Entries'
<1>2. Entries \subseteq E /\ es \in Seq(E) OBVIOUS
<1> HIDE DEF E
<1>3. log \in Seq(E) BY <1>1, <1>2, SeqMonotonic
<1>4. /\ log' \in Seq(E) /\ Len(log') = Len(log) + Len(es)
      /\ \A i \in 1..Len(log) + Len(es) : log'[i] = IF i <= Len(log) THEN log[i] ELSE es[i - Len(log)]
  BY <1>2, <1>3, ConcatProperties
<1>5. Len(log) \in Nat /\ Len(es) \in Nat BY <1>2, <1>3
<1>6. \A i \in 1..Len(log) : log'[i] = log[i] BY <1>4, <1>5
<1>7. ASSUME NEW i \in 1..Len(es) PROVE log'[Len(log) + i] = es[i]
  <2>1. Len(log) + i \in 1..Len(log) + Len(es) /\ ~(Len(log) + i <= Len(log))
        /\ Len(log) + i - Len(log) = i
    BY <1>5
  <2> QED BY <1>4, <2>1
<1> QED BY <1>4, <1>6, <1>7 DEF E, Extends

\* Nothing is logged and no Turn ends.
LEMMA NothingLogged ==
    ASSUME LogInvariant, UNCHANGED <<memories, log>>,
           DOMAIN turns' = DOMAIN turns, Len(turns') = Len(turns),
           \A t \in DOMAIN turns : turns'[t].status \in Ended <=> turns[t].status \in Ended
    PROVE  LogInvariant'
<1>1. Entries' = Entries BY DEF Entries
<1>2. RoomType' BY <1>1 DEF LogInvariant, RoomType
<1>3. TurnsLogged' BY DEF LogInvariant, TurnsLogged, Told, Over, TellsOf, TellsEnd
<1>4. MemoriesLogged' BY DEF LogInvariant, MemoriesLogged, Creates, Gone, Ends
<1> QED BY <1>2, <1>3, <1>4 DEF LogInvariant

\* The last event tells of the Turn t: it is new, or takes another status.
LEMMA TurnEventLogged ==
    ASSUME LogInvariant, turns \in Seq(TurnState), NEW t, NEW to,
           NEW k \in {1, 2}, Extends(k), log'[Len(log')] = TurnEvent(t, to),
           k = 2 => log'[Len(log) + 1].kind = "reply",
           memories' = memories, DOMAIN turns' = DOMAIN turns \cup {t}, Len(turns') <= MaxTurns,
           \A s \in DOMAIN turns \ {t} : turns'[s].status = turns[s].status,
           turns'[t].status = to, t \in DOMAIN turns => turns[t].status \notin Ended,
           t \notin DOMAIN turns => to \notin Ended
    PROVE  LogInvariant'
<1>l. PICK len : len = Len(log) OBVIOUS
<1> DEFINE end == len + k
<1>n. len \in Nat /\ end = Len(log') /\ end \in 1..end /\ end > len
  BY <1>l DEF LogInvariant, RoomType, Extends
<1>i. \A i \in 1..end : i \in 1..len \/ i = end \/ (k = 2 /\ i = len + 1) BY <1>n
<1>1. RoomType' BY DEF LogInvariant, RoomType, Extends
<1>2. /\ log'[end].kind = "turn" /\ log'[end].of = t /\ log'[end].to = to BY <1>n DEF TurnEvent
<1>3. \A s : TellsOf(end, s)' <=> s = t BY <1>2 DEF TellsOf
<1>4. \A s : TellsEnd(end, s)' <=> s = t /\ to \in Ended BY <1>2 DEF TellsOf, TellsEnd
<1>5. \A m : ~Creates(end, m)' /\ ~Ends(end, m)' BY <1>2 DEF Creates, Ends
<1>6. k = 2 => /\ \A s : ~TellsOf(len + 1, s)' /\ ~TellsEnd(len + 1, s)'
               /\ \A m : ~Creates(len + 1, m)' /\ ~Ends(len + 1, m)'
  BY <1>l DEF TellsOf, TellsEnd, Creates, Ends
<1>7. \A i \in 1..len :
        /\ \A s : (TellsOf(i, s)' <=> TellsOf(i, s)) /\ (TellsEnd(i, s)' <=> TellsEnd(i, s))
        /\ \A m : (Creates(i, m)' <=> Creates(i, m)) /\ (Ends(i, m)' <=> Ends(i, m))
  BY <1>l, SameBefore
<1>8. 1..len \subseteq 1..end BY <1>n
<1>s. \A i \in 1..len : i < end /\ i <= end BY <1>n
<1> HIDE DEF end
<1>9. ASSUME NEW s \in DOMAIN turns'
      PROVE  /\ Told(s, end)'
             /\ turns'[s].status \in Ended <=> Over(s, end)'
             /\ \A i, j \in 1..end : TellsEnd(i, s)' /\ TellsOf(j, s)' => j <= i
  <2>0. /\ Told(s, end)' <=> \E i \in 1..end : TellsOf(i, s)'
        /\ Over(s, end)' <=> \E i \in 1..end : TellsEnd(i, s)'
    BY DEF Told, Over
  <2>1. CASE s = t
    <3>1. \A i \in 1..len : ~TellsEnd(i, t)
      <4>1. CASE t \in DOMAIN turns
        BY <1>l, <4>1 DEF LogInvariant, TurnsLogged, Over
      <4>2. CASE t \notin DOMAIN turns
        BY <1>l, <4>2, EntryCases DEF TellsEnd, TellsOf
      <4> QED BY <4>1, <4>2
    <3>2. \A i \in 1..end : TellsEnd(i, t)' => i = end /\ to \in Ended
      BY <1>i, <1>4, <1>6, <1>7, <3>1
    <3>3. \A j \in 1..end : j <= end BY <1>n
    <3> QED BY <1>n, <1>3, <1>4, <2>0, <2>1, <3>2, <3>3
  <2>2. CASE s # t
    <3>1. s \in DOMAIN turns /\ turns'[s].status = turns[s].status BY <2>2
    <3>2. /\ Told(s, len)
          /\ turns[s].status \in Ended <=> Over(s, len)
          /\ \A i, j \in 1..len : TellsEnd(i, s) /\ TellsOf(j, s) => j <= i
      BY <1>l, <3>1 DEF LogInvariant, TurnsLogged
    <3>3. \A i \in 1..end : /\ TellsOf(i, s)' => i \in 1..len /\ TellsOf(i, s)
                            /\ TellsEnd(i, s)' => i \in 1..len /\ TellsEnd(i, s)
      BY <1>i, <1>3, <1>4, <1>6, <1>7, <2>2
    <3>4. (\E i \in 1..end : TellsOf(i, s)') <=> (\E i \in 1..len : TellsOf(i, s))
      BY <1>7, <1>8, <3>3
    <3>5. (\E i \in 1..end : TellsEnd(i, s)') <=> (\E i \in 1..len : TellsEnd(i, s))
      BY <1>7, <1>8, <3>3
    <3> QED BY <2>0, <3>1, <3>2, <3>3, <3>4, <3>5 DEF Told, Over
  <2> QED BY <2>1, <2>2
<1>10. TurnsLogged' BY <1>n, <1>9 DEF TurnsLogged
<1>11. ASSUME NEW m \in DOMAIN memories
       PROVE  /\ \E i \in 1..end : Creates(i, m)'
              /\ memories[m].status = "active" <=> ~Gone(m, end)'
              /\ \A i, j \in 1..end : Creates(i, m)' /\ Ends(j, m)' => i < j
  <2>1. /\ \E i \in 1..len : Creates(i, m)
        /\ memories[m].status = "active" <=> ~Gone(m, len)
        /\ \A i, j \in 1..len : Creates(i, m) /\ Ends(j, m) => i < j
    BY <1>l DEF LogInvariant, MemoriesLogged
  <2>2. \A i \in 1..end : /\ Creates(i, m)' => i \in 1..len /\ Creates(i, m)
                          /\ Ends(i, m)' => i \in 1..len /\ Ends(i, m)
    BY <1>i, <1>5, <1>6, <1>7
  <2>3. Gone(m, end)' <=> \E i \in 1..end : Ends(i, m)' BY DEF Gone
  <2>4. (\E i \in 1..end : Ends(i, m)') <=> (\E i \in 1..len : Ends(i, m)) BY <1>7, <1>8, <2>2
  <2> QED BY <1>7, <1>8, <2>1, <2>2, <2>3, <2>4 DEF Gone
<1>12. MemoriesLogged' BY <1>n, <1>11 DEF MemoriesLogged
<1> QED BY <1>1, <1>10, <1>12 DEF LogInvariant

\* The last event tells of the record m: it is new, in the place of old if there is one,
\* or withdrawn.
LEMMA MemoryEventLogged ==
    ASSUME LogInvariant, turns \in Seq(TurnState), NEW m \in Nat \ {0}, NEW to \in {"active", "retracted"}, NEW old,
           Extends(1), log'[Len(log')] = MemoryEvent(m, to, old),
           turns' = turns, DOMAIN memories' = DOMAIN memories \cup {m},
           memories' \in Seq([status : MemoryStatus]),
           to = "active" => m \notin DOMAIN memories /\ memories'[m].status = "active" /\ old # m,
           to = "retracted" => m \in DOMAIN memories /\ old = 0,
           \A x \in DOMAIN memories :
               memories'[x].status = "active" <=>
                   memories[x].status = "active" /\ x # old /\ ~(x = m /\ to = "retracted")
    PROVE  LogInvariant'
<1>l. PICK len : len = Len(log) OBVIOUS
<1> DEFINE end == len + 1
<1>n. len \in Nat /\ end = Len(log') /\ end \in 1..end /\ end > len
  BY <1>l DEF LogInvariant, RoomType, Extends
<1>i. \A i \in 1..end : i \in 1..len \/ i = end BY <1>n
<1>1. RoomType' BY DEF LogInvariant, RoomType, Extends
<1>2. /\ log'[end].kind = "memory" /\ log'[end].of = m /\ log'[end].to = to
      /\ log'[end].instead = old
  BY <1>n DEF MemoryEvent
<1>3. \A s : ~TellsOf(end, s)' /\ ~TellsEnd(end, s)' BY <1>2 DEF TellsOf, TellsEnd
<1>4. \A x : Creates(end, x)' <=> x = m /\ to = "active" BY <1>2 DEF Creates
<1>5. \A x : Ends(end, x)' <=> x = old \/ (x = m /\ to = "retracted") BY <1>2 DEF Ends
<1>7. \A i \in 1..len :
        /\ \A s : (TellsOf(i, s)' <=> TellsOf(i, s)) /\ (TellsEnd(i, s)' <=> TellsEnd(i, s))
        /\ \A x : (Creates(i, x)' <=> Creates(i, x)) /\ (Ends(i, x)' <=> Ends(i, x))
  BY <1>l, SameBefore
<1>8. 1..len \subseteq 1..end BY <1>n
<1>s. \A i \in 1..len : i < end BY <1>n
<1> HIDE DEF end
<1>9. ASSUME NEW s \in DOMAIN turns
      PROVE  /\ Told(s, end)'
             /\ turns[s].status \in Ended <=> Over(s, end)'
             /\ \A i, j \in 1..end : TellsEnd(i, s)' /\ TellsOf(j, s)' => j <= i
  <2>1. /\ Told(s, len)
        /\ turns[s].status \in Ended <=> Over(s, len)
        /\ \A i, j \in 1..len : TellsEnd(i, s) /\ TellsOf(j, s) => j <= i
    BY <1>l DEF LogInvariant, TurnsLogged
  <2>2. \A i \in 1..end : /\ TellsOf(i, s)' => i \in 1..len /\ TellsOf(i, s)
                          /\ TellsEnd(i, s)' => i \in 1..len /\ TellsEnd(i, s)
    BY <1>i, <1>3, <1>7
  <2>3. (\E i \in 1..end : TellsOf(i, s)') <=> (\E i \in 1..len : TellsOf(i, s))
    BY <1>7, <1>8, <2>2
  <2>4. (\E i \in 1..end : TellsEnd(i, s)') <=> (\E i \in 1..len : TellsEnd(i, s))
    BY <1>7, <1>8, <2>2
  <2>5. /\ Told(s, end)' <=> \E i \in 1..end : TellsOf(i, s)'
        /\ Over(s, end)' <=> \E i \in 1..end : TellsEnd(i, s)'
    BY DEF Told, Over
  <2> QED BY <2>1, <2>2, <2>3, <2>4, <2>5 DEF Told, Over
<1>10. TurnsLogged' BY <1>n, <1>9 DEF TurnsLogged
<1>11. ASSUME NEW x \in DOMAIN memories'
       PROVE  /\ \E i \in 1..end : Creates(i, x)'
              /\ memories'[x].status = "active" <=> ~Gone(x, end)'
              /\ \A i, j \in 1..end : Creates(i, x)' /\ Ends(j, x)' => i < j
  <2>0. Gone(x, end)' <=> \E i \in 1..end : Ends(i, x)' BY DEF Gone
  <2>1. CASE x \in DOMAIN memories
    <3>1. /\ \E i \in 1..len : Creates(i, x)
          /\ memories[x].status = "active" <=> ~Gone(x, len)
          /\ \A i, j \in 1..len : Creates(i, x) /\ Ends(j, x) => i < j
      BY <1>l, <2>1 DEF LogInvariant, MemoriesLogged
    <3>2. \A i \in 1..end : Creates(i, x)' => i \in 1..len /\ Creates(i, x)
      BY <1>i, <1>4, <1>7, <2>1
    <3>3. \A j \in 1..end : Ends(j, x)' => j = end \/ (j \in 1..len /\ Ends(j, x))
      BY <1>i, <1>7
    <3>4. (\E i \in 1..end : Ends(i, x)') <=> Ends(end, x)' \/ (\E i \in 1..len : Ends(i, x))
      BY <1>n, <1>7, <1>8, <3>3
    <3>5. \A i, j \in 1..end : Creates(i, x)' /\ Ends(j, x)' => i < j
      BY <1>s, <3>1, <3>2, <3>3
    <3>6. \E i \in 1..end : Creates(i, x)' BY <1>7, <1>8, <3>1
    <3>7. memories'[x].status = "active" <=> ~Gone(x, end)'
      BY <1>5, <2>0, <2>1, <3>1, <3>4 DEF Gone
    <3> QED BY <3>5, <3>6, <3>7
  <2>2. CASE x \notin DOMAIN memories
    <3>1. x = m /\ to = "active" /\ memories'[x].status = "active" /\ x # old BY <2>2
    <3>2. \A i \in 1..len : ~Ends(i, x) /\ ~Creates(i, x)
      <4> TAKE i \in 1..len
      <4>1. \/ log[i].kind # "memory"
            \/ log[i].of \in DOMAIN memories /\ log[i].instead \in {0} \cup DOMAIN memories
        <5>1. log[i] \in Entries BY <1>l DEF LogInvariant, RoomType
        <5> QED BY <5>1 DEF Entries, TurnEvent, ReplyEvent, MemoryEvent
      <4>2. x # 0 BY <3>1
      <4> QED BY <2>2, <4>1, <4>2 DEF Creates, Ends
    <3>3. \A j \in 1..end : ~Ends(j, x)' BY <1>i, <1>5, <1>7, <3>1, <3>2
    <3> QED BY <1>n, <1>4, <2>0, <3>1, <3>3
  <2> QED BY <2>1, <2>2
<1>12. MemoriesLogged' BY <1>n, <1>11 DEF MemoriesLogged
<1> QED BY <1>1, <1>10, <1>12 DEF LogInvariant

----------------------------------------------------------------------------
(* The steps of the server *)

\* A Turn that is being cancelled stays so until it ends.
Cancelling == {"cancelling"} \cup Ended

\* Nothing that was logged, asked for or ended is taken back.
Grows ==
    /\ Len(log) <= Len(log') /\ \A i \in 1..Len(log) : log'[i] = log[i]
    /\ \A t \in DOMAIN turns :
           t \in DOMAIN turns' /\ (turns[t].status \in Cancelling => turns'[t].status \in Cancelling)
    /\ \A m \in DOMAIN memories :
           m \in DOMAIN memories' /\ (memories[m].status # "active" => memories'[m].status # "active")

\* One record comes into force, one goes out of it, or one takes the place of another.
Moved ==
    LET new == Len(memories) + 1 IN
    \/ InForce' = InForce
    \/ InForce' = InForce \cup {new}
    \/ \E m \in InForce : InForce' = (InForce \ {m}) \cup {new}
    \/ \E m \in InForce : InForce' = InForce \ {m}

ServerKeeps == LogInvariant' /\ Grows /\ Moved

LEMMA DomainFacts ==
    ASSUME LogInvariant, turns \in Seq(TurnState)
    PROVE  /\ Len(log) \in Nat
           /\ DOMAIN turns = 1..Len(turns) /\ Len(turns) \in Nat /\ DOMAIN turns \subseteq Turns
           /\ DOMAIN memories = 1..Len(memories) /\ Len(memories) \in Nat
           /\ InForce \subseteq DOMAIN memories
           /\ \A t \in DOMAIN turns : turns[t].status \in Status
<1>1. memories \in Seq([status : MemoryStatus]) /\ log \in Seq(Entries) /\ Len(turns) <= MaxTurns
  BY DEF LogInvariant, RoomType
<1>2. DOMAIN turns = 1..Len(turns) /\ Len(turns) \in Nat OBVIOUS
<1>3. DOMAIN turns \subseteq Turns BY <1>1, <1>2, RoomAssumption DEF Turns
<1>4. \A t \in DOMAIN turns : turns[t].status \in Status
  <2> TAKE t \in DOMAIN turns
  <2>1. turns[t] \in TurnState OBVIOUS
  <2> QED BY <2>1 DEF TurnState, Status
<1> QED BY <1>1, <1>2, <1>3, <1>4 DEF InForce

LEMMA CreationLogged ==
    ASSUME LogInvariant, turns \in Seq(TurnState), turns' = turns, NEW m \in Nat \ {0}, NEW old,
           old # m, m \notin DOMAIN memories, DOMAIN memories' = DOMAIN memories \cup {m},
           Extends(1), log'[Len(log')] = MemoryEvent(m, "active", old),
           memories' \in Seq([status : MemoryStatus]), memories'[m].status = "active",
           \A x \in DOMAIN memories :
               memories'[x].status = "active" <=> memories[x].status = "active" /\ x # old
    PROVE  LogInvariant'
<1>1. PICK to \in {"active", "retracted"} : to = "active" OBVIOUS
<1>2. log'[Len(log')] = MemoryEvent(m, to, old) BY <1>1
<1>3. to = "active" => m \notin DOMAIN memories /\ memories'[m].status = "active" /\ old # m
  OBVIOUS
<1>4. to = "retracted" => m \in DOMAIN memories /\ old = 0 BY <1>1
<1>5. \A x \in DOMAIN memories :
        memories'[x].status = "active" <=>
          memories[x].status = "active" /\ x # old /\ ~(x = m /\ to = "retracted")
  BY <1>1
<1> QED BY <1>2, <1>3, <1>4, <1>5, MemoryEventLogged

LEMMA RemembersStep ==
    ASSUME LogInvariant, turns \in Seq(TurnState), turns' = turns, Remembers
    PROVE  ServerKeeps /\ Len(memories) + 1 \in DOMAIN memories'
<1>d. /\ Len(log) \in Nat /\ DOMAIN memories = 1..Len(memories) /\ Len(memories) \in Nat
      /\ InForce \subseteq DOMAIN memories
  BY DomainFacts
<1>l. PICK new : new = Len(memories) + 1 OBVIOUS
<1>1. /\ memories' = Append(memories, [status |-> "active"])
      /\ log' = Append(log, MemoryEvent(new, "active", 0))
  BY <1>l DEF Remembers
<1>2. memories \in Seq([status : MemoryStatus]) BY DEF LogInvariant, RoomType
<1>3. [status |-> "active"] \in [status : MemoryStatus] BY DEF MemoryStatus
<1>4. /\ memories' \in Seq([status : MemoryStatus]) /\ DOMAIN memories' = DOMAIN memories \cup {new}
      /\ new \in Nat \ {0} /\ new \notin DOMAIN memories
      /\ \A m \in DOMAIN memories : memories'[m] = memories[m]
      /\ memories'[new].status = "active"
  BY <1>l, <1>d, <1>1, <1>2, <1>3, AppendProperties
<1>5. Extends(1) /\ log'[Len(log')] = MemoryEvent(new, "active", 0)
  <2>1. MemoryEvent(new, "active", 0) \in Entries' BY <1>4 DEF Entries
  <2>2. Entries \subseteq Entries' BY <1>4, EntriesGrow
  <2> QED BY <1>1, <2>1, <2>2, LogAppended
<1>6. LogInvariant'
  <2>1. \A x \in DOMAIN memories :
          memories'[x].status = "active" <=> memories[x].status = "active" /\ x # 0
    BY <1>d, <1>4
  <2> QED BY <1>4, <1>5, <2>1, CreationLogged
<1>7. Grows BY <1>d, <1>4, <1>5 DEF Grows, Extends
<1>8. InForce' = InForce \cup {new} BY <1>4 DEF InForce
<1> QED BY <1>l, <1>4, <1>6, <1>7, <1>8 DEF ServerKeeps, Moved

LEMMA WithdrawsStep ==
    ASSUME LogInvariant, turns \in Seq(TurnState), turns' = turns, NEW m, Withdraws(m)
    PROVE  ServerKeeps /\ m \in DOMAIN memories /\ memories'[m].status # "active"
<1>d. /\ Len(log) \in Nat /\ DOMAIN memories = 1..Len(memories) /\ Len(memories) \in Nat
      /\ InForce \subseteq DOMAIN memories
  BY DomainFacts
<1>1. /\ m \in InForce /\ memories' = [memories EXCEPT ![m].status = "retracted"]
      /\ log' = Append(log, MemoryEvent(m, "retracted", 0))
  BY DEF Withdraws
<1>2. memories \in Seq([status : MemoryStatus]) BY DEF LogInvariant, RoomType
<1>3. [status |-> "retracted"] \in [status : MemoryStatus] BY DEF MemoryStatus
<1>4. memories' = [memories EXCEPT ![m] = [status |-> "retracted"]]
  <2>1. m \in 1..Len(memories) BY <1>d, <1>1
  <2>2. memories[m] \in [status : MemoryStatus] BY <1>2, <2>1, ElementOfSeq
  <2>3. [memories[m] EXCEPT !.status = "retracted"] = [status |-> "retracted"] BY <2>2
  <2> QED BY <1>1, <2>3
<1>5. /\ memories' \in Seq([status : MemoryStatus]) /\ Len(memories') = Len(memories)
      /\ DOMAIN memories' = DOMAIN memories
      /\ \A x \in DOMAIN memories : memories'[x] = IF x = m THEN [status |-> "retracted"] ELSE memories[x]
  BY <1>d, <1>1, <1>2, <1>3, <1>4, ExceptSeq
<1>6. Extends(1) /\ log'[Len(log')] = MemoryEvent(m, "retracted", 0)
  <2>1. MemoryEvent(m, "retracted", 0) \in Entries' BY <1>d, <1>1, <1>5 DEF Entries
  <2>2. Entries \subseteq Entries' BY <1>5, EntriesGrow
  <2> QED BY <1>1, <2>1, <2>2, LogAppended
<1>7. LogInvariant'
  <2>1. \A x \in DOMAIN memories :
          memories'[x].status = "active" <=>
            memories[x].status = "active" /\ x # 0 /\ ~(x = m /\ "retracted" = "retracted")
    BY <1>d, <1>1, <1>5
  <2>2. m \in DOMAIN memories /\ m \in Nat \ {0} /\ DOMAIN memories' = DOMAIN memories \cup {m}
    BY <1>d, <1>1, <1>5
  <2>3. memories' \in Seq([status : MemoryStatus]) BY <1>5
  <2> QED BY <1>6, <2>1, <2>2, <2>3, MemoryEventLogged
<1>8. Grows BY <1>d, <1>5, <1>6 DEF Grows, Extends
<1>9. InForce' = InForce \ {m} BY <1>5 DEF InForce
<1>10. m \in DOMAIN memories /\ memories'[m].status # "active" BY <1>d, <1>1, <1>5
<1> QED BY <1>1, <1>7, <1>8, <1>9, <1>10 DEF ServerKeeps, Moved

LEMMA ReplacesStep ==
    ASSUME LogInvariant, turns \in Seq(TurnState), turns' = turns, NEW m, Replaces(m)
    PROVE  /\ ServerKeeps /\ Len(memories) + 1 \in DOMAIN memories'
           /\ memories'[m].status # "active"
<1>d. /\ Len(log) \in Nat /\ DOMAIN memories = 1..Len(memories) /\ Len(memories) \in Nat
      /\ InForce \subseteq DOMAIN memories
  BY DomainFacts
<1>l. PICK new : new = Len(memories) + 1 OBVIOUS
<1> DEFINE rest == [memories EXCEPT ![m].status = "superseded"]
<1>1. /\ m \in InForce /\ memories' = Append(rest, [status |-> "active"])
      /\ log' = Append(log, MemoryEvent(new, "active", m))
  BY <1>l DEF Replaces
<1>2. memories \in Seq([status : MemoryStatus]) BY DEF LogInvariant, RoomType
<1>3. [status |-> "superseded"] \in [status : MemoryStatus]
      /\ [status |-> "active"] \in [status : MemoryStatus]
  BY DEF MemoryStatus
<1>4. rest = [memories EXCEPT ![m] = [status |-> "superseded"]]
  <2>1. m \in 1..Len(memories) BY <1>d, <1>1
  <2>2. memories[m] \in [status : MemoryStatus] BY <1>2, <2>1, ElementOfSeq
  <2>3. [memories[m] EXCEPT !.status = "superseded"] = [status |-> "superseded"] BY <2>2
  <2> QED BY <1>1, <2>3
<1> HIDE DEF rest
<1>5. /\ rest \in Seq([status : MemoryStatus]) /\ Len(rest) = Len(memories)
      /\ \A x \in DOMAIN memories : rest[x] = IF x = m THEN [status |-> "superseded"] ELSE memories[x]
  BY <1>d, <1>1, <1>2, <1>3, <1>4, ExceptSeq
<1>6. /\ memories' \in Seq([status : MemoryStatus]) /\ DOMAIN memories' = DOMAIN memories \cup {new}
      /\ new \in Nat \ {0} /\ new \notin DOMAIN memories
      /\ \A x \in DOMAIN memories : memories'[x] = rest[x]
      /\ memories'[new].status = "active"
  BY <1>l, <1>d, <1>1, <1>3, <1>5, AppendProperties
<1>7. Extends(1) /\ log'[Len(log')] = MemoryEvent(new, "active", m)
  <2>1. m \in DOMAIN memories' BY <1>d, <1>1, <1>6
  <2>2. MemoryEvent(new, "active", m) \in Entries' BY <1>6, <2>1 DEF Entries
  <2>3. Entries \subseteq Entries' BY <1>6, EntriesGrow
  <2> QED BY <1>1, <2>2, <2>3, LogAppended
<1>8. LogInvariant'
  <2>1. \A x \in DOMAIN memories :
          memories'[x].status = "active" <=> memories[x].status = "active" /\ x # m
    <3> TAKE x \in DOMAIN memories
    <3>1. memories'[x] = rest[x] /\ x # new BY <1>6
    <3>2. CASE x = m
      <4>1. memories'[x] = [status |-> "superseded"] BY <1>5, <3>1, <3>2
      <4> QED BY <3>2, <4>1
    <3>3. CASE x # m
      <4>1. memories'[x] = memories[x] BY <1>5, <3>1, <3>3
      <4> QED BY <3>1, <3>3, <4>1
    <3> QED BY <3>2, <3>3
  <2>2. m \in InForce BY <1>1
  <2>3. new \notin InForce BY <1>d, <1>6
  <2>4. m # new BY <2>2, <2>3
  <2>5. memories' \in Seq([status : MemoryStatus]) /\ DOMAIN memories' = DOMAIN memories \cup {new}
    BY <1>6
  <2>6. new \in Nat \ {0} /\ new \notin DOMAIN memories /\ memories'[new].status = "active" BY <1>6
  <2> QED BY <1>7, <2>1, <2>4, <2>5, <2>6, CreationLogged
<1>9. Grows
  <2>1. Len(log) <= Len(log') /\ \A i \in 1..Len(log) : log'[i] = log[i]
    BY <1>d, <1>7 DEF Extends
  <2>2. \A x \in DOMAIN memories :
          x \in DOMAIN memories' /\ (memories[x].status # "active" => memories'[x].status # "active")
    <3> TAKE x \in DOMAIN memories
    <3>1. memories'[x] = rest[x] /\ x \in DOMAIN memories' BY <1>6
    <3>2. rest[x] = IF x = m THEN [status |-> "superseded"] ELSE memories[x] BY <1>5
    <3> QED BY <3>1, <3>2
  <2>3. \A t \in DOMAIN turns :
          t \in DOMAIN turns' /\ (turns[t].status \in Cancelling => turns'[t].status \in Cancelling)
    OBVIOUS
  <2> QED BY <2>1, <2>2, <2>3 DEF Grows
<1>10. InForce' = (InForce \ {m}) \cup {new} BY <1>5, <1>6 DEF InForce
<1>11. new \in DOMAIN memories' /\ memories'[m].status # "active" BY <1>d, <1>1, <1>5, <1>6
<1> QED BY <1>l, <1>1, <1>8, <1>9, <1>10, <1>11 DEF ServerKeeps, Moved

\* A new Turn.
LEMMA NewTurnStep ==
    ASSUME LogInvariant, turns \in Seq(TurnState), memories' = memories, NEW n, NewTurn(n)
    PROVE  ServerKeeps
<1>d. Len(log) \in Nat /\ DOMAIN turns = 1..Len(turns) /\ Len(turns) \in Nat BY DomainFacts
<1>l. PICK new : new = Len(turns) + 1 OBVIOUS
<1> DEFINE S == TurnState \cup {[status |-> "queued", draft |-> n]}
<1>1. /\ turns' = Append(turns, [status |-> "queued", draft |-> n]) /\ Len(turns) < MaxTurns
      /\ log' = Append(log, TurnEvent(new, "queued"))
  BY <1>l DEF NewTurn
<1>2. turns \in Seq(S)
  <2>1. TurnState \subseteq S OBVIOUS
  <2> HIDE DEF S
  <2> QED BY <2>1, SeqMonotonic
<1>3. [status |-> "queued", draft |-> n] \in S OBVIOUS
<1> HIDE DEF S
<1>4. /\ DOMAIN turns' = DOMAIN turns \cup {new} /\ Len(turns') = Len(turns) + 1
      /\ new \notin DOMAIN turns
      /\ \A t \in DOMAIN turns : turns'[t] = turns[t]
      /\ turns'[new].status = "queued"
  BY <1>l, <1>d, <1>1, <1>2, <1>3, AppendProperties
<1>5. Extends(1) /\ log'[Len(log')] = TurnEvent(new, "queued")
  <2>1. TurnEvent(new, "queued") \in Entries' BY <1>4 DEF Entries
  <2>2. Entries \subseteq Entries' BY <1>4, EntriesGrow
  <2> QED BY <1>1, <2>1, <2>2, LogAppended
<1>6. LogInvariant'
  <2>1. Len(turns') <= MaxTurns BY <1>1, <1>4, <1>d, RoomAssumption
  <2>2. "queued" \notin Ended BY DEF Ended
  <2>3. \A s \in DOMAIN turns \ {new} : turns'[s].status = turns[s].status BY <1>4
  <2> QED BY <1>4, <1>5, <2>1, <2>2, <2>3, TurnEventLogged
<1>7. Grows BY <1>d, <1>4, <1>5 DEF Grows, Extends
<1>8. InForce' = InForce BY DEF InForce
<1> QED BY <1>6, <1>7, <1>8 DEF ServerKeeps, Moved

\* A Turn that has not ended takes another status.
LEMMA StatusFacts ==
    ASSUME LogInvariant, turns \in Seq(TurnState), NEW t \in DOMAIN turns, NEW to \in Status,
           turns' = [turns EXCEPT ![t].status = to]
    PROVE  /\ DOMAIN turns' = DOMAIN turns /\ Len(turns') = Len(turns) /\ Len(turns') <= MaxTurns
           /\ turns'[t].status = to /\ \A s \in DOMAIN turns \ {t} : turns'[s] = turns[s]
<1>1. DOMAIN turns = 1..Len(turns) /\ Len(turns) \in Nat BY DomainFacts
<1>2. turns[t] \in TurnState OBVIOUS
<1> DEFINE e == [turns[t] EXCEPT !.status = to]
<1>3. e \in TurnState /\ e.status = to BY <1>2 DEF TurnState, Status
<1>4. turns' = [turns EXCEPT ![t] = e] OBVIOUS
<1> HIDE DEF e
<1>5. /\ turns' \in Seq(TurnState) /\ Len(turns') = Len(turns)
      /\ \A s \in 1..Len(turns) : turns'[s] = IF s = t THEN e ELSE turns[s]
  BY <1>1, <1>3, <1>4, ExceptSeq
<1>6. DOMAIN turns' = DOMAIN turns BY <1>1, <1>5
<1>7. Len(turns') <= MaxTurns BY <1>5 DEF LogInvariant, RoomType
<1> QED BY <1>1, <1>3, <1>5, <1>6, <1>7

LEMMA TurnMoves ==
    ASSUME LogInvariant, turns \in Seq(TurnState), memories' = memories,
           NEW t \in Live, NEW to \in {"running"} \cup Ended,
           turns[t].status = "cancelling" => to \in Ended,
           turns' = [turns EXCEPT ![t].status = to],
           \/ log' = Append(log, TurnEvent(t, to))
           \/ log' = log \o <<TurnEvent(t, to)>>
           \/ log' = log \o <<ReplyEvent(t), TurnEvent(t, to)>>
    PROVE  ServerKeeps
<1>d. Len(log) \in Nat /\ DOMAIN turns = 1..Len(turns) /\ Len(turns) \in Nat BY DomainFacts
<1>1. t \in DOMAIN turns /\ turns[t].status \notin Ended /\ to \in Status
  BY DEF Live, Status
<1>2. /\ DOMAIN turns' = DOMAIN turns /\ Len(turns') = Len(turns) /\ Len(turns') <= MaxTurns
      /\ turns'[t].status = to /\ \A s \in DOMAIN turns \ {t} : turns'[s] = turns[s]
  BY <1>1, StatusFacts
<1>3. Entries \subseteq Entries' BY <1>2, EntriesGrow
<1>4. TurnEvent(t, to) \in Entries' /\ ReplyEvent(t) \in Entries' BY <1>1, <1>2 DEF Entries
<1>5. PICK k \in {1, 2} : Extends(k) /\ log'[Len(log')] = TurnEvent(t, to)
                          /\ (k = 2 => log'[Len(log) + 1].kind = "reply")
  <2>1. CASE log' = Append(log, TurnEvent(t, to))
    <3>1. Extends(1) /\ log'[Len(log')] = TurnEvent(t, to) BY <1>3, <1>4, <2>1, LogAppended
    <3> QED BY <3>1
  <2>2. CASE log' = log \o <<TurnEvent(t, to)>>
    <3> DEFINE es == <<TurnEvent(t, to)>>
    <3>1. es \in Seq(Entries') /\ Len(es) = 1 /\ es[1] = TurnEvent(t, to)
      <4> DEFINE E == Entries'
      <4>1. TurnEvent(t, to) \in E BY <1>4
      <4> HIDE DEF E
      <4>2. es \in Seq(E) BY <4>1
      <4> QED BY <4>2 DEF E
    <3> HIDE DEF es
    <3>2. Extends(Len(es)) /\ \A i \in 1..Len(es) : log'[Len(log) + i] = es[i]
      BY <1>3, <2>2, <3>1, LogConcatenated DEF es
    <3>3. Len(log') = Len(log) + 1 BY <3>1, <3>2 DEF Extends
    <3> QED BY <3>1, <3>2, <3>3
  <2>3. CASE log' = log \o <<ReplyEvent(t), TurnEvent(t, to)>>
    <3> DEFINE es == <<ReplyEvent(t), TurnEvent(t, to)>>
    <3>1. es \in Seq(Entries') /\ Len(es) = 2 /\ es[1] = ReplyEvent(t) /\ es[2] = TurnEvent(t, to)
      <4> DEFINE E == Entries'
      <4>1. TurnEvent(t, to) \in E /\ ReplyEvent(t) \in E BY <1>4
      <4> HIDE DEF E
      <4>2. es \in Seq(E) BY <4>1
      <4> QED BY <4>2 DEF E
    <3> HIDE DEF es
    <3>2. Extends(Len(es)) /\ \A i \in 1..Len(es) : log'[Len(log) + i] = es[i]
      BY <1>3, <2>3, <3>1, LogConcatenated DEF es
    <3>3. Len(log') = Len(log) + 2 BY <3>1, <3>2 DEF Extends
    <3>4. log'[Len(log) + 1].kind = "reply" BY <3>1, <3>2 DEF ReplyEvent
    <3> QED BY <3>1, <3>2, <3>3, <3>4
  <2> QED BY <2>1, <2>2, <2>3
<1>6. LogInvariant'
  <2>1. DOMAIN turns' = DOMAIN turns \cup {t} BY <1>1, <1>2
  <2> QED BY <1>1, <1>2, <1>5, <2>1, TurnEventLogged
<1>7. Grows
  <2>1. \A s \in DOMAIN turns : turns[s].status \in Cancelling => turns'[s].status \in Cancelling
    BY <1>1, <1>2 DEF Cancelling
  <2> QED BY <1>d, <1>2, <1>5, <2>1 DEF Grows, Extends
<1>8. InForce' = InForce BY DEF InForce
<1> QED BY <1>6, <1>7, <1>8 DEF ServerKeeps, Moved

\* A Turn that runs is asked to stop, or nothing changes.
LEMMA NothingMoves ==
    ASSUME LogInvariant, turns \in Seq(TurnState), UNCHANGED <<memories, log>>,
           \/ turns' = turns
           \/ \E t \in DOMAIN turns : /\ turns[t].status = "running"
                                      /\ turns' = [turns EXCEPT ![t].status = "cancelling"]
    PROVE  ServerKeeps
<1>d. Len(log) \in Nat /\ Len(log) <= Len(log) BY DomainFacts
<1> DEFINE GoOn ==
             /\ DOMAIN turns' = DOMAIN turns /\ Len(turns') = Len(turns)
             /\ \A t \in DOMAIN turns :
                   /\ turns'[t].status \in Ended <=> turns[t].status \in Ended
                   /\ turns[t].status \in Cancelling => turns'[t].status \in Cancelling
<1>1. GoOn
  <2>1. CASE turns' = turns BY <2>1
  <2>2. ASSUME NEW t \in DOMAIN turns, turns[t].status = "running",
               turns' = [turns EXCEPT ![t].status = "cancelling"]
        PROVE  GoOn
    <3>1. /\ DOMAIN turns' = DOMAIN turns /\ Len(turns') = Len(turns)
          /\ turns'[t].status = "cancelling" /\ \A s \in DOMAIN turns \ {t} : turns'[s] = turns[s]
      BY <2>2, StatusFacts DEF Status
    <3> QED BY <2>2, <3>1 DEF Ended, Cancelling
  <2> QED BY <2>1, <2>2
<1>2. LogInvariant' BY <1>1, NothingLogged
<1>3. Grows BY <1>d, <1>1 DEF Grows
<1>4. InForce' = InForce BY DEF InForce
<1> QED BY <1>2, <1>3, <1>4 DEF ServerKeeps, Moved

----------------------------------------------------------------------------
(* The requests and their receipts *)

\* The command d was sent for this.
Carries(d, kind, of) ==
    d \in Click /\ requests[d].kind = kind /\ requests[d].of = of /\ requests[d].cmd = d

\* What a command that ran has left behind.
Effective(kind, of, made) ==
    /\ kind = "cancel" => turns[of].status \in Cancelling
    /\ kind \in {"remember", "replace"} => made \in DOMAIN memories
    /\ kind \in {"replace", "retract"} => memories[of].status # "active"

\* The same of the state after the step.
Effected(kind, of, made) ==
    /\ kind = "cancel" => turns'[of].status \in Cancelling
    /\ kind \in {"remember", "replace"} => made \in DOMAIN memories'
    /\ kind \in {"replace", "retract"} => memories'[of].status # "active"

Request(c) ==
    /\ requests[c].kind \in {"none"} \cup Kind
    /\ requests[c].kind = "none" => requests[c] = NoRequest /\ receipts[c] = 0
    /\ requests[c].kind # "none" =>
        /\ Carries(requests[c].cmd, requests[c].kind, requests[c].of)
        /\ requests[c].server = "done" /\ requests[c].page = "waits" => receipts[requests[c].cmd] # 0
        /\ requests[c].kind = "cancel" =>
               requests[c].of \in DOMAIN turns /\ requests[c].was \in Status \ Ended
        /\ requests[c].kind \in {"replace", "retract"} => requests[c].of \in DOMAIN memories
        /\ receipts[requests[c].cmd] # 0 =>
               Effective(requests[c].kind, requests[c].of, receipts[requests[c].cmd])

Requests == \A c \in Click : Request(c)

\* The command ids the page keeps are those of what they are kept for.
KeptIds ==
    /\ \A p \in retry : p[1].kind \in Kind /\ Carries(p[2], p[1].kind, p[1].of)
    /\ composer.pending.draft = composer.draft =>
           Carries(composer.pending.cmd, "message", composer.draft)

RequestInvariant == Requests /\ KeptIds

\* Nothing new is asked.
SameRequests ==
    /\ SameQuestions
    /\ \A c \in Click : /\ requests'[c].was = requests[c].was
                        /\ requests[c].kind = "none" => requests'[c] = requests[c]

LEMMA CarriesOn ==
    ASSUME SameQuestions, NEW d, NEW kind, NEW of, Carries(d, kind, of)
    PROVE  Carries(d, kind, of)'
BY DEF SameQuestions, Carries

LEMMA EffectLasts ==
    ASSUME Grows, NEW kind, NEW of, NEW made, Effective(kind, of, made),
           kind = "cancel" => of \in DOMAIN turns,
           kind \in {"replace", "retract"} => of \in DOMAIN memories
    PROVE  Effected(kind, of, made)
BY DEF Grows, Effective, Effected

LEMMA RequestsGoOn ==
    ASSUME Requests, SameRequests, Grows,
           \A d \in Click :
               \/ receipts'[d] = receipts[d]
               \/ /\ receipts[d] = 0 /\ receipts'[d] # 0 /\ requests[d].kind # "none"
                  /\ Effected(requests[d].kind, requests[d].of, receipts'[d]),
           \A c \in Click :
               requests'[c].server = "done" /\ requests'[c].page = "waits" =>
                   requests[c].server = "done" \/ receipts'[requests[c].cmd] # 0
    PROVE  Requests'
<1> SUFFICES ASSUME NEW c \in Click PROVE Request(c)' BY DEF Requests
<1>1. Request(c) BY DEF Requests
<1>2. /\ requests'[c].kind = requests[c].kind /\ requests'[c].of = requests[c].of
      /\ requests'[c].cmd = requests[c].cmd /\ requests'[c].was = requests[c].was
      /\ requests'[c].page = "waits" => requests[c].page = "waits"
      /\ requests[c].kind = "none" => requests'[c] = requests[c]
  BY DEF SameRequests, SameQuestions
<1>3. CASE requests[c].kind = "none"
  <2>1. receipts'[c] = receipts[c] BY <1>3
  <2> QED BY <1>1, <1>2, <1>3, <2>1 DEF Request
<1>4. CASE requests[c].kind # "none"
  <2>1. PICK k, o, d : k = requests[c].kind /\ o = requests[c].of /\ d = requests[c].cmd OBVIOUS
  <2>2. Carries(d, k, o) BY <1>1, <1>4, <2>1 DEF Request
  <2>3. Carries(d, k, o)' BY <2>2, CarriesOn DEF SameRequests
  <2>4. /\ k = "cancel" => o \in DOMAIN turns /\ requests[c].was \in Status \ Ended
        /\ k \in {"replace", "retract"} => o \in DOMAIN memories
    BY <1>1, <1>4, <2>1 DEF Request
  <2>5. /\ k = "cancel" => o \in DOMAIN turns'
        /\ k \in {"replace", "retract"} => o \in DOMAIN memories'
    BY <2>4 DEF Grows
  <2>6. receipts'[d] # 0 => Effected(k, o, receipts'[d])
    <3>1. CASE receipts'[d] = receipts[d]
      <4>1. receipts[d] # 0 => Effective(k, o, receipts[d]) BY <1>1, <1>4, <2>1 DEF Request
      <4> QED BY <2>4, <3>1, <4>1, EffectLasts
    <3>2. CASE receipts'[d] # receipts[d]
      <4>1. d \in Click /\ requests[d].kind = k /\ requests[d].of = o BY <2>2 DEF Carries
      <4> QED BY <3>2, <4>1
    <3> QED BY <3>1, <3>2
  <2>7. requests'[c].server = "done" /\ requests'[c].page = "waits" => receipts'[d] # 0
    <3>1. d \in Click BY <2>2 DEF Carries
    <3>2. requests[c].server = "done" /\ requests[c].page = "waits" => receipts[d] # 0
      BY <1>1, <1>4, <2>1 DEF Request
    <3> QED BY <1>2, <2>1, <3>1, <3>2
  <2>8. k \in Kind BY <1>1, <1>4, <2>1 DEF Request
  <2>9. /\ requests'[c].kind = k /\ requests'[c].of = o /\ requests'[c].cmd = d
        /\ requests'[c].was = requests[c].was /\ k # "none"
    BY <1>2, <1>4, <2>1
  <2>10. Carries(requests[c].cmd, requests[c].kind, requests[c].of)'
    BY <2>3, <2>9 DEF Carries
  <2> QED BY <2>4, <2>5, <2>6, <2>7, <2>8, <2>9, <2>10 DEF Request, Effective, Effected
<1> QED BY <1>3, <1>4

\* A new request under the id c of its own or under one that was kept for it.
LEMMA RequestSent ==
    ASSUME SubmissionType, Requests, NEW c \in Click, NEW kind \in Kind, NEW of, NEW cmd, NEW was,
           Sends(c, kind, of, cmd, was), cmd = c \/ Carries(cmd, kind, of),
           kind = "cancel" => of \in DOMAIN turns /\ was \in Status \ Ended,
           kind \in {"replace", "retract"} => of \in DOMAIN memories
    PROVE  /\ Requests' /\ Carries(cmd, kind, of)'
           /\ \A d, k, o : k \in Kind /\ Carries(d, k, o) => Carries(d, k, o)'
<1> DEFINE r == [kind |-> kind, of |-> of, cmd |-> cmd, was |-> was,
                 server |-> "waits", page |-> "waits"]
<1>0. /\ r.kind = kind /\ r.of = of /\ r.cmd = cmd /\ r.was = was
      /\ r.server = "waits" /\ r.page = "waits"
  OBVIOUS
<1>1. /\ requests[c] = NoRequest /\ UNCHANGED <<turns, memories, receipts>>
      /\ requests' = [requests EXCEPT ![c] = r]
  BY DEF Sends, serverVars
<1> HIDE DEF r
<1>2. requests'[c] = r /\ \A d \in Click \ {c} : requests'[d] = requests[d]
  BY <1>1 DEF SubmissionType
<1>3. requests[c].kind = "none" /\ "none" \notin Kind BY <1>1 DEF NoRequest, Kind
<1>4. \A d, k, o : k \in Kind /\ Carries(d, k, o) => d # c /\ Carries(d, k, o)'
  BY <1>2, <1>3 DEF Carries
<1>5. Carries(cmd, kind, of)'
  <2>1. CASE cmd = c BY <1>0, <1>2, <2>1 DEF Carries
  <2>2. CASE Carries(cmd, kind, of) BY <1>4, <2>2
  <2> QED BY <2>1, <2>2
<1>6. \A k, o, made : Effective(k, o, made)' <=> Effective(k, o, made) BY <1>1 DEF Effective
<1>7. Request(c)'
  <2>1. receipts[cmd] # 0 => Effective(kind, of, receipts[cmd])
    <3>1. CASE cmd = c BY <1>3, <3>1 DEF Requests, Request
    <3>2. CASE Carries(cmd, kind, of)
      <4>1. Request(cmd) /\ requests[cmd].kind = kind /\ requests[cmd].of = of
            /\ requests[cmd].cmd = cmd
        BY <3>2 DEF Carries, Requests
      <4> QED BY <1>3, <4>1 DEF Request
    <3> QED BY <3>1, <3>2
  <2>2. receipts'[cmd] # 0 => Effective(kind, of, receipts[cmd])' BY <1>1, <2>1 DEF Effective
  <2>3. requests'[c] = r /\ receipts' = receipts /\ turns' = turns /\ memories' = memories
    BY <1>1, <1>2
  <2> QED BY <1>0, <1>3, <1>5, <2>2, <2>3 DEF Request, Effective
<1>8. ASSUME NEW d \in Click \ {c} PROVE Request(d)'
  <2>1. Request(d) /\ requests'[d] = requests[d] BY <1>2 DEF Requests
  <2>2. requests[d].kind # "none" =>
          Carries(requests[d].cmd, requests[d].kind, requests[d].of)'
    <3> SUFFICES ASSUME requests[d].kind # "none"
                 PROVE  Carries(requests[d].cmd, requests[d].kind, requests[d].of)'
      OBVIOUS
    <3>1. PICK k, o, e : k = requests[d].kind /\ o = requests[d].of /\ e = requests[d].cmd OBVIOUS
    <3>2. k \in Kind /\ Carries(e, k, o) BY <2>1, <3>1 DEF Request
    <3>3. Carries(e, k, o)' BY <1>4, <3>2
    <3>4. requests'[d].kind = k /\ requests'[d].of = o /\ requests'[d].cmd = e BY <2>1, <3>1
    <3> QED BY <3>3, <3>4 DEF Carries
  <2> QED BY <1>1, <2>1, <2>2 DEF Request, Effective
<1> QED BY <1>4, <1>5, <1>7, <1>8 DEF Requests
LEMMA OneGoesOn ==
    ASSUME SubmissionType, NEW c \in Click, requests[c].kind # "none",
           NEW f \in {"server", "page"}, NEW x \in {"done", "left"},
           requests' = [requests EXCEPT ![c][f] = x]
    PROVE  SameRequests /\ requests'[c][f] = x /\ \A d \in Click \ {c} : requests'[d] = requests[d]
<1>1. SameQuestions BY GetsOn
<1>2. \A d \in Click \ {c} : requests'[d] = requests[d] BY DEF SubmissionType
<1>3. requests[c] = [g \in RequestField |-> requests[c][g]] /\ c \in DOMAIN requests
  BY DEF SubmissionType
<1>4. requests'[c] = [requests[c] EXCEPT ![f] = x] BY <1>3
<1>5. requests'[c].was = requests[c].was /\ requests'[c][f] = x BY <1>3, <1>4 DEF RequestField
<1> QED BY <1>1, <1>2, <1>5 DEF SameRequests

LEMMA NothingRequested == SubmissionType /\ UNCHANGED requests => SameRequests
BY NothingAsked DEF SameRequests

LEMMA KeptStays ==
    ASSUME KeptIds, SameQuestions, retry' \subseteq retry,
           \/ composer'.pending.draft # composer'.draft
           \/ composer'.pending = composer.pending /\ composer'.draft = composer.draft
    PROVE  KeptIds'
<1>1. \A p \in retry : p[1].kind \in Kind /\ Carries(p[2], p[1].kind, p[1].of)'
  BY CarriesOn DEF KeptIds
<1>2. ASSUME composer'.pending.draft = composer'.draft
      PROVE  Carries(composer.pending.cmd, "message", composer.draft)'
  <2>1. Carries(composer.pending.cmd, "message", composer.draft) BY <1>2 DEF KeptIds
  <2>2. PICK e, n : e = composer.pending.cmd /\ n = composer.draft OBVIOUS
  <2>3. Carries(e, "message", n)' BY <2>1, <2>2, CarriesOn
  <2> QED BY <1>2, <2>2, <2>3 DEF Carries
<1> QED BY <1>1, <1>2 DEF KeptIds, Carries

\* A command that runs leaves its effect with its receipt.
LEMMA RunsStep ==
    ASSUME SubmissionType, Requests, Grows, NEW c \in Click, NEW made, made # 0, Runs(c, made),
           Effected(requests[c].kind, requests[c].of, made)
    PROVE  Requests' /\ SameRequests
<1>1. /\ requests[c].server = "waits" /\ receipts[requests[c].cmd] = 0
      /\ receipts' = [receipts EXCEPT ![requests[c].cmd] = made]
      /\ requests' = [requests EXCEPT ![c]["server"] = "done"]
  BY DEF Runs
<1>2. requests[c].kind # "none" BY <1>1 DEF Requests, Request, NoRequest
<1>3. SameRequests /\ \A d \in Click \ {c} : requests'[d] = requests[d] BY <1>1, <1>2, OneGoesOn
<1>4. /\ requests[c].cmd \in Click
      /\ requests[requests[c].cmd].kind = requests[c].kind
      /\ requests[requests[c].cmd].of = requests[c].of
  BY <1>2 DEF Requests, Request, Carries
<1>5. receipts'[requests[c].cmd] = made
      /\ \A d \in Click : d # requests[c].cmd => receipts'[d] = receipts[d]
  BY <1>1, <1>4 DEF SubmissionType
<1>6. \A d \in Click :
        \/ receipts'[d] = receipts[d]
        \/ /\ receipts[d] = 0 /\ receipts'[d] # 0 /\ requests[d].kind # "none"
           /\ Effected(requests[d].kind, requests[d].of, receipts'[d])
  BY <1>1, <1>2, <1>4, <1>5
<1>7. \A d \in Click : requests'[d].server = "done" /\ requests'[d].page = "waits" =>
                         requests[d].server = "done" \/ receipts'[requests[d].cmd] # 0
  BY <1>3, <1>5
<1> QED BY <1>3, <1>6, <1>7, RequestsGoOn

\* The server goes on with a request that changes nothing in the room.
LEMMA NothingRuns ==
    ASSUME SubmissionType, LogInvariant, Requests, NEW c \in Click, Replay(c) \/ Lost(c)
    PROVE  ServerKeeps /\ Requests' /\ SameRequests
<1>1. /\ UNCHANGED <<turns, memories, log, receipts>> /\ requests[c].server = "waits"
      /\ requests' = [requests EXCEPT ![c]["server"] = "done"]
      /\ receipts[requests[c].cmd] # 0 \/ requests[c].page = "left"
  BY DEF Replay, Lost, serverVars
<1>2. turns \in Seq(TurnState) BY DEF SubmissionType
<1>3. ServerKeeps BY <1>1, <1>2, NothingMoves
<1>4. requests[c].kind # "none" BY <1>1 DEF Requests, Request, NoRequest
<1>5. SameRequests /\ \A d \in Click \ {c} : requests'[d] = requests[d] BY <1>1, <1>4, OneGoesOn
<1>6. requests'[c].page = "waits" => requests[c].page = "waits"
  BY <1>5 DEF SameRequests, SameQuestions
<1>7. \A d \in Click : requests'[d].server = "done" /\ requests'[d].page = "waits" =>
                         requests[d].server = "done" \/ receipts'[requests[d].cmd] # 0
  BY <1>1, <1>5, <1>6
<1>8. \A d \in Click : receipts'[d] = receipts[d] BY <1>1
<1> QED BY <1>3, <1>5, <1>7, <1>8, RequestsGoOn DEF ServerKeeps

\* The server changes the room for others.
LEMMA NothingAskedRuns ==
    ASSUME SubmissionType, Requests, ServerKeeps, UNCHANGED <<receipts, requests>>
    PROVE  Requests' /\ SameRequests
<1>1. SameRequests BY NothingRequested
<1>2. \A d \in Click : receipts'[d] = receipts[d] /\ requests'[d] = requests[d] OBVIOUS
<1> QED BY <1>1, <1>2, RequestsGoOn DEF ServerKeeps

LEMMA CancelStep ==
    ASSUME SubmissionType, LogInvariant, Requests, NEW c \in Click, Cancel(c)
    PROVE  ServerKeeps /\ Requests' /\ SameRequests
<1>0. turns \in Seq(TurnState) BY DEF SubmissionType
<1>1. PICK t : t = requests[c].of OBVIOUS
<1>2. /\ requests[c].kind = "cancel" /\ Runs(c, t) /\ UNCHANGED memories
      /\ turns[t].status = "queued" => /\ turns' = [turns EXCEPT ![t].status = "stopped"]
                                       /\ log' = Append(log, TurnEvent(t, "stopped"))
      /\ turns[t].status = "running" =>
             turns' = [turns EXCEPT ![t].status = "cancelling"] /\ UNCHANGED log
      /\ turns[t].status \notin {"queued", "running"} => UNCHANGED <<turns, log>>
  BY <1>1 DEF Cancel
<1>3. t \in DOMAIN turns BY <1>1, <1>2 DEF Requests, Request
<1>d. t \in Nat \ {0} /\ turns[t].status \in Status BY <1>0, <1>3, DomainFacts
<1>4. ServerKeeps /\ turns'[t].status \in Cancelling
  <2>1. CASE turns[t].status = "queued"
    <3>1. t \in Live BY <1>3, <2>1 DEF Live, Ended
    <3>2. ServerKeeps BY <1>0, <1>2, <2>1, <3>1, TurnMoves DEF Ended
    <3>3. turns'[t].status = "stopped"
      BY <1>0, <1>2, <1>3, <2>1, StatusFacts DEF Status, Ended
    <3> QED BY <3>2, <3>3 DEF Cancelling, Ended
  <2>2. CASE turns[t].status = "running"
    <3>2. ServerKeeps BY <1>0, <1>2, <1>3, <2>2, NothingMoves
    <3>3. turns'[t].status = "cancelling"
      BY <1>0, <1>2, <1>3, <2>2, StatusFacts DEF Status
    <3> QED BY <3>2, <3>3 DEF Cancelling
  <2>3. CASE turns[t].status \notin {"queued", "running"}
    <3>1. ServerKeeps BY <1>0, <1>2, <2>3, NothingMoves
    <3> QED BY <1>d, <1>2, <2>3, <3>1 DEF Cancelling, Status
  <2> QED BY <2>1, <2>2, <2>3
<1>5. Effected(requests[c].kind, requests[c].of, t) BY <1>1, <1>2, <1>4 DEF Effected
<1>6. Grows BY <1>4 DEF ServerKeeps
<1> QED BY <1>2, <1>4, <1>5, <1>6, <1>d, RunsStep

LEMMA WriteStep ==
    ASSUME SubmissionType, LogInvariant, Requests, NEW c \in Click, Write(c)
    PROVE  ServerKeeps /\ Requests' /\ SameRequests
<1>0. turns \in Seq(TurnState) /\ turns' = turns BY DEF SubmissionType, Write
<1>n. PICK of, new : of = requests[c].of /\ new = Len(memories) + 1 OBVIOUS
<1>d. new # 0 BY <1>0, <1>n, DomainFacts
<1>m. DOMAIN memories = 1..Len(memories) /\ Len(memories) \in Nat BY <1>0, DomainFacts
<1>1. CASE requests[c].kind = "remember" /\ Remembers /\ Runs(c, new)
  <2>1. ServerKeeps /\ new \in DOMAIN memories' BY <1>0, <1>1, <1>n, RemembersStep
  <2>2. Effected(requests[c].kind, requests[c].of, new) BY <1>1, <2>1 DEF Effected
  <2> QED BY <1>1, <1>d, <2>1, <2>2, RunsStep DEF ServerKeeps
<1>2. CASE requests[c].kind = "replace" /\ Replaces(of) /\ Runs(c, new)
  <2>1. ServerKeeps /\ new \in DOMAIN memories' /\ memories'[of].status # "active"
    BY <1>0, <1>2, <1>n, ReplacesStep
  <2>2. Effected(requests[c].kind, requests[c].of, new) BY <1>2, <1>n, <2>1 DEF Effected
  <2> QED BY <1>2, <1>d, <2>1, <2>2, RunsStep DEF ServerKeeps
<1>3. CASE requests[c].kind = "retract" /\ Withdraws(of) /\ Runs(c, of)
  <2>1. ServerKeeps /\ of \in DOMAIN memories /\ memories'[of].status # "active"
    BY <1>0, <1>3, WithdrawsStep
  <2>2. Effected(requests[c].kind, requests[c].of, of) BY <1>3, <1>n, <2>1 DEF Effected
  <2>3. of # 0 BY <1>m, <2>1
  <2> QED BY <1>3, <2>1, <2>2, <2>3, RunsStep DEF ServerKeeps
<1> QED BY <1>n, <1>1, <1>2, <1>3 DEF Write

\* Every step of the server keeps the log, and the requests with their receipts.
LEMMA ServerFacts ==
    ASSUME SubmissionType, LogInvariant, Requests, ServerNext
    PROVE  ServerKeeps /\ Requests' /\ SameRequests
<1>0. turns \in Seq(TurnState) BY DEF SubmissionType
<1>1. ASSUME NEW t \in DOMAIN turns, TurnStarts(t)
      PROVE  ServerKeeps /\ UNCHANGED <<receipts, requests>>
  <2>1. /\ turns[t].status = "queued" /\ UNCHANGED <<memories, receipts, requests>>
        /\ turns' = [turns EXCEPT ![t].status = "running"]
        /\ log' = log \o <<TurnEvent(t, "running")>>
    BY <1>1 DEF TurnStarts, Moves
  <2>2. t \in Live BY <2>1 DEF Live, Ended
  <2>3. ServerKeeps BY <1>0, <2>1, <2>2, TurnMoves
  <2> QED BY <2>1, <2>3
<1>2. ASSUME NEW t \in DOMAIN turns, NEW to \in Ended, TurnEnds(t, to)
      PROVE  ServerKeeps /\ UNCHANGED <<receipts, requests>>
  <2>1. /\ turns[t].status \in {"running", "cancelling"} /\ UNCHANGED <<memories, receipts, requests>>
        /\ turns' = [turns EXCEPT ![t].status = to]
        /\ log' = log \o ((IF to = "completed" THEN <<ReplyEvent(t)>> ELSE <<>>) \o <<TurnEvent(t, to)>>)
    BY <1>2 DEF TurnEnds, Moves
  <2>2. t \in Live BY <2>1 DEF Live, Ended
  <2>3. <<ReplyEvent(t)>> \o <<TurnEvent(t, to)>> = <<ReplyEvent(t), TurnEvent(t, to)>>
        /\ <<>> \o <<TurnEvent(t, to)>> = <<TurnEvent(t, to)>>
    <3>1. \A S : <<>> \in Seq(S) OBVIOUS
    <3>2. PICK a, b : a = ReplyEvent(t) /\ b = TurnEvent(t, to) OBVIOUS
    <3>3. <<a>> \in Seq({a, b}) /\ <<b>> \in Seq({a, b}) /\ b \in {a, b} OBVIOUS
    <3>4. <<a>> \o <<b>> = Append(<<a>>, b) BY <3>3, AppendIsConcat
    <3>5. Append(<<a>>, b) = <<a, b>>
      <4> DEFINE S == {a, b}
      <4>1. a \in S /\ b \in S OBVIOUS
      <4> HIDE DEF S
      <4>2. <<a>> \in Seq(S) /\ <<a, b>> \in Seq(S) /\ Len(<<a>>) = 1 /\ Len(<<a, b>>) = 2
            /\ <<a>>[1] = a /\ <<a, b>>[1] = a /\ <<a, b>>[2] = b
        BY <4>1
      <4>3. /\ Append(<<a>>, b) \in Seq(S) /\ Len(Append(<<a>>, b)) = 2
            /\ Append(<<a>>, b)[1] = a /\ Append(<<a>>, b)[2] = b
        BY <4>1, <4>2, AppendProperties
      <4>4. \A i \in 1..2 : i = 1 \/ i = 2 OBVIOUS
      <4>5. \A i \in 1..2 : Append(<<a>>, b)[i] = <<a, b>>[i] BY <4>2, <4>3, <4>4
      <4> QED BY <4>2, <4>3, <4>5, SeqEqual
    <3>6. <<>> \o <<b>> = <<b>> BY <3>3, ConcatEmptySeq
    <3> QED BY <3>2, <3>4, <3>5, <3>6
  <2>4. \/ log' = log \o <<TurnEvent(t, to)>>
        \/ log' = log \o <<ReplyEvent(t), TurnEvent(t, to)>>
    BY <2>1, <2>3
  <2>5. ServerKeeps BY <1>0, <2>1, <2>2, <2>4, TurnMoves
  <2> QED BY <2>1, <2>5
<1>3. CASE OthersWrite
  <2>1. UNCHANGED <<turns, receipts, requests>> BY <1>3 DEF OthersWrite
  <2>2. ServerKeeps BY <1>0, <1>3, <2>1, RemembersStep, ReplacesStep, WithdrawsStep DEF OthersWrite
  <2> QED BY <2>1, <2>2, NothingAskedRuns
<1>4. CASE OthersSend
  <2>1. NewTurn(0) /\ UNCHANGED <<memories, receipts, requests>> BY <1>4 DEF OthersSend
  <2>2. ServerKeeps BY <1>0, <2>1, NewTurnStep
  <2> QED BY <2>1, <2>2, NothingAskedRuns
<1>5. ASSUME NEW c \in Click, Accept(c) PROVE ServerKeeps /\ Requests' /\ SameRequests
  <2>1. PICK of, new : of = requests[c].of /\ new = Len(turns) + 1 OBVIOUS
  <2>2. requests[c].kind = "message" /\ Runs(c, new) /\ NewTurn(of) /\ UNCHANGED memories
    BY <1>5, <2>1 DEF Accept
  <2>3. ServerKeeps BY <1>0, <2>2, NewTurnStep
  <2>4. new # 0 BY <1>0, <2>1, DomainFacts
  <2>5. Effected(requests[c].kind, requests[c].of, new) BY <2>2 DEF Effected
  <2> QED BY <2>2, <2>3, <2>4, <2>5, RunsStep DEF ServerKeeps
<1> QED
  BY <1>1, <1>2, <1>3, <1>4, <1>5, NothingAskedRuns, NothingRuns, CancelStep, WriteStep
  DEF ServerNext

----------------------------------------------------------------------------
(* The places of the records, which the pages are cut by *)

LEMMA InForceFacts ==
    ASSUME LogInvariant, turns \in Seq(TurnState)
    PROVE  IsFiniteSet(InForce) /\ InForce \subseteq Nat \ {0}
<1>1. DOMAIN memories = 1..Len(memories) /\ Len(memories) \in Nat /\ InForce \subseteq DOMAIN memories
  BY DomainFacts
<1>2. IsFiniteSet(1..Len(memories)) BY <1>1, FS_Interval
<1>3. IsFiniteSet(InForce) BY <1>1, <1>2, FS_Subset
<1> QED BY <1>1, <1>3

LEMMA PlaceFacts ==
    ASSUME LogInvariant, turns \in Seq(TurnState), NEW m \in InForce
    PROVE  /\ IsFiniteSet({x \in InForce : x >= m}) /\ Place(m) \in 1..Cardinality(InForce)
           /\ \A k \in InForce : k < m => Place(m) < Place(k)
<1> DEFINE S(k) == {x \in InForce : x >= k}
<1>1. IsFiniteSet(InForce) /\ InForce \subseteq Nat \ {0} BY InForceFacts
<1>2. ASSUME NEW k \in InForce
      PROVE  IsFiniteSet(S(k)) /\ Place(k) = Cardinality(S(k)) /\ Place(k) \in Nat
             /\ Place(k) <= Cardinality(InForce)
  <2>1. S(k) \in SUBSET InForce OBVIOUS
  <2>2. IsFiniteSet(S(k)) /\ Cardinality(S(k)) <= Cardinality(InForce) BY <1>1, <2>1, FS_Subset
  <2>3. Cardinality(S(k)) \in Nat BY <2>2, FS_CardinalityType
  <2> QED BY <2>2, <2>3 DEF Place
<1>3. Cardinality(InForce) \in Nat BY <1>1, FS_CardinalityType
<1>4. Place(m) # 0
  <2>1. m \in S(m) BY <1>1
  <2>2. S(m) # {} BY <2>1
  <2> QED BY <1>2, <2>2, FS_EmptySet
<1>5. ASSUME NEW k \in InForce, k < m PROVE Place(m) < Place(k)
  <2>0. m \in Nat /\ k \in Nat /\ \A x \in InForce : x \in Nat BY <1>1
  <2>1. S(m) \subseteq S(k) /\ k \in S(k) /\ k \notin S(m)
    <3>1. \A x \in InForce : x >= m => x >= k BY <2>0, <1>5
    <3>2. k >= k /\ ~(k >= m) BY <2>0, <1>5
    <3> QED BY <3>1, <3>2
  <2>2. /\ Cardinality(S(m)) <= Cardinality(S(k))
        /\ Cardinality(S(k)) = Cardinality(S(m)) => S(k) = S(m)
    BY <1>2, <2>1, FS_Subset
  <2>3. S(m) # S(k) BY <2>1
  <2>4. Place(m) \in Nat /\ Place(k) \in Nat /\ Place(m) <= Place(k) /\ Place(m) # Place(k)
    BY <1>2, <2>2, <2>3
  <2> QED BY <2>4
<1> HIDE DEF S
<1>6. Place(m) \in Nat /\ Place(m) <= Cardinality(InForce) BY <1>2
<1>7. Place(m) \in 1..Cardinality(InForce) BY <1>3, <1>4, <1>6
<1> QED BY <1>2, <1>5, <1>7 DEF S

\* A page with another behind it is full.
LEMMA PageIsFull ==
    ASSUME LogInvariant, turns \in Seq(TurnState), NEW offset \in Nat,
           NEW last \in InForce, Place(last) > offset + PageSize
    PROVE  Cardinality(PageAt(offset)) = PageSize
<1> DEFINE n == Cardinality(InForce)
           f == [m \in InForce |-> Place(m)]
           page == PageAt(offset)
           places == (offset + 1)..(offset + PageSize)
           g == [m \in page |-> Place(m)]
<1>1. IsFiniteSet(InForce) /\ InForce \subseteq Nat \ {0} BY InForceFacts
<1>2. n \in Nat BY <1>1, FS_CardinalityType
<1>3. PageSize \in Nat \ {0} BY PageAssumption
<1>4. \A m \in InForce : Place(m) \in 1..n BY PlaceFacts
<1>5. \A m, k \in InForce : Place(m) = Place(k) => m = k
  <2> SUFFICES ASSUME NEW m \in InForce, NEW k \in InForce, Place(m) = Place(k), m # k PROVE FALSE
    OBVIOUS
  <2>1. m < k \/ k < m BY <1>1
  <2>2. Place(m) \in Nat /\ Place(k) \in Nat BY <1>4
  <2>3. Place(k) < Place(m) \/ Place(m) < Place(k) BY <2>1, PlaceFacts
  <2> QED BY <2>2, <2>3
<1>6. f \in Injection(InForce, 1..n) BY <1>4, <1>5 DEF Injection, IsInjective
<1>7. IsFiniteSet(1..n) /\ Cardinality(1..n) = n BY <1>2, FS_Interval
<1>8. f \in Surjection(InForce, 1..n) BY <1>6, <1>7, FS_Injection
<1>9. \A k \in 1..n : \E m \in InForce : Place(m) = k BY <1>8 DEF Surjection
<1>10. places \subseteq 1..n
  <2>1. Place(last) \in 1..n BY <1>4
  <2> QED BY <1>2, <1>3, <2>1
<1>11. page = {m \in InForce : Place(m) \in places} BY DEF PageAt
<1> HIDE DEF n, f, page, places
<1>12. g \in Injection(page, places) BY <1>5, <1>11 DEF Injection, IsInjective
<1>13. g \in Surjection(page, places)
  <2>1. g \in [page -> places] BY <1>11
  <2>2. \A k \in places : \E m \in page : g[m] = k BY <1>9, <1>10, <1>11
  <2> QED BY <2>1, <2>2 DEF Surjection
<1>14. IsFiniteSet(places) /\ Cardinality(places) = PageSize BY <1>3, FS_Interval DEF places
<1>15. Cardinality(page) = Cardinality(places) BY <1>12, <1>13, <1>14, FS_Injection
<1> QED BY <1>14, <1>15 DEF page

\* A record stays behind those that were written after it, unless one of them is withdrawn.
LEMMA PlaceLasts ==
    ASSUME LogInvariant, turns \in Seq(TurnState), ServerKeeps,
           NEW m \in InForce, m \in InForce', ~(Cardinality(InForce') < Cardinality(InForce))
    PROVE  Place(m) <= Place(m)'
<1> DEFINE S == {x \in InForce : x >= m}
           T == {x \in InForce' : x >= m}
           new == Len(memories) + 1
<1>1. IsFiniteSet(InForce) /\ InForce \subseteq Nat \ {0} BY InForceFacts
<1>2. IsFiniteSet(S) /\ Place(m) = Cardinality(S) /\ Cardinality(S) \in Nat
  BY PlaceFacts, FS_CardinalityType DEF Place
<1>3. Place(m)' = Cardinality(T) BY DEF Place
<1>4. new \in Nat /\ \A x \in InForce : x < new
  BY DomainFacts
<1>5. new >= m /\ new \notin InForce BY <1>1, <1>4
<1>6. Cardinality(InForce) \in Nat BY <1>1, FS_CardinalityType
<1>7. CASE InForce' = InForce BY <1>2, <1>3, <1>7
<1>8. CASE InForce' = InForce \cup {new}
  <2>1. T = S \cup {new} BY <1>5, <1>8
  <2>2. Cardinality(T) = Cardinality(S) + 1 BY <1>2, <1>5, <2>1, FS_AddElement
  <2> QED BY <1>2, <1>3, <2>2
<1>9. ASSUME NEW k \in InForce, InForce' = (InForce \ {k}) \cup {new} PROVE Place(m) <= Place(m)'
  <2>1. T = (S \ {k}) \cup {new} BY <1>5, <1>9
  <2>2. IsFiniteSet(S \ {k}) /\ Cardinality(S \ {k}) \in {Cardinality(S), Cardinality(S) - 1}
    BY <1>2, FS_RemoveElement
  <2>3. Cardinality(T) = Cardinality(S \ {k}) + 1 BY <1>5, <2>1, <2>2, FS_AddElement
  <2> QED BY <1>2, <1>3, <2>2, <2>3
<1>10. ASSUME NEW k \in InForce, InForce' = InForce \ {k} PROVE FALSE
  <2>1. Cardinality(InForce') = Cardinality(InForce) - 1 BY <1>1, <1>10, FS_RemoveElement
  <2> QED BY <1>6, <2>1
<1> QED BY <1>7, <1>8, <1>9, <1>10 DEF ServerKeeps, Moved

----------------------------------------------------------------------------
(* What the page shows *)

ViewInvariant == view \in View /\ Closed(view) /\ seq \in 0..Len(log)

\* The request c has set the card of t to "being cancelled" and may set it back.
Awaits(c, t) == requests[c].kind = "cancel" /\ requests[c].of = t /\ requests[c].page = "waits"

\* The card of a Turn follows the events the page has received; "being cancelled" is what
\* the room does, or what the page has asked for and has no answer to.
TurnShown(t) ==
    /\ Over(t, seq) /\ t \notin reverted => view.shown[t] \in Ended \cup {"none"}
    /\ Told(t, seq) /\ ~Over(t, seq) => view.shown[t] \notin Ended \cup {"none"}
    /\ ~Told(t, seq) => view.shown[t] = "none"
    /\ view.shown[t] = "cancel_requested" /\ t \notin reverted =>
           turns[t].status \in Cancelling \/ \E c \in Click : Awaits(c, t)
    /\ \A c \in Click : Awaits(c, t) => view.shown[t] # "none"

TurnsShown == \A t \in Turns : TurnShown(t)

LoadState == [pc : {"none", "reads", "read", "done", "failed"}, offset : Nat, got : SUBSET Nat,
              from : Nat, shifted : BOOLEAN]

\* A record that the page has been told of has its card; an older one has been read, or
\* is on a page still to be read.
HasCard(m, i) ==
    IF i > load.from THEN m \in view.cards
    ELSE ~load.shifted => /\ load.pc = "reads" /\ Place(m) <= load.offset => m \in load.got
                          /\ load.pc = "read" => m \in load.got
                          /\ load.pc = "done" => m \in view.cards

CardsShown ==
    /\ load \in LoadState /\ load.from <= seq /\ load.got \subseteq DOMAIN memories
    /\ \A m \in view.cards : m \in DOMAIN memories /\ (Gone(m, seq) => m \in stale)
    /\ \A m \in InForce : \A i \in 1..seq : Creates(i, m) => HasCard(m, i)

PageInvariant ==
    DraftInvariant /\ LogInvariant /\ RequestInvariant /\ ViewInvariant /\ TurnsShown /\ CardsShown

LEMMA PageDomains ==
    ASSUME PageInvariant
    PROVE  /\ turns \in Seq(TurnState) /\ seq \in Nat /\ Len(log) \in Nat /\ seq <= Len(log)
           /\ DOMAIN turns \subseteq Turns /\ DOMAIN memories \subseteq Nat \ {0}
           /\ InForce \subseteq DOMAIN memories
           /\ \A t : Told(t, seq) => t \in DOMAIN turns
           /\ \A t \in Turns : view.shown[t] # "none" => t \in DOMAIN turns
           /\ load.from \in Nat /\ load.offset \in Nat
<1> USE DEF PageInvariant
<1>1. turns \in Seq(TurnState) BY DEF DraftInvariant, SubmissionType
<1>2. /\ Len(log) \in Nat /\ DOMAIN turns \subseteq Turns /\ InForce \subseteq DOMAIN memories
      /\ DOMAIN memories \subseteq Nat \ {0}
  BY <1>1, DomainFacts
<1>3. seq \in Nat /\ seq <= Len(log) BY <1>2 DEF ViewInvariant
<1>4. \A t : Told(t, seq) => t \in DOMAIN turns
  <2> SUFFICES ASSUME NEW t, NEW i \in 1..seq, TellsOf(i, t) PROVE t \in DOMAIN turns BY DEF Told
  <2>1. i \in 1..Len(log) BY <1>2, <1>3
  <2> QED BY <1>1, <2>1, EntryCases DEF TellsOf
<1>5. \A t \in Turns : view.shown[t] # "none" => t \in DOMAIN turns
  BY <1>4 DEF TurnsShown, TurnShown
<1>6. load.from \in Nat /\ load.offset \in Nat BY DEF CardsShown, LoadState
<1> QED BY <1>1, <1>2, <1>3, <1>4, <1>5, <1>6

\* What the log tells up to the place of the page stays told.
LEMMA ToldStays ==
    ASSUME PageInvariant, Grows, seq' = seq
    PROVE  /\ \A t : (Told(t, seq)' <=> Told(t, seq)) /\ (Over(t, seq)' <=> Over(t, seq))
           /\ \A m : Gone(m, seq)' <=> Gone(m, seq)
           /\ \A m : \A i \in 1..seq : Creates(i, m)' <=> Creates(i, m)
<1>1. \A i \in 1..seq : i \in 1..Len(log) BY PageDomains
<1>2. \A i \in 1..seq : log'[i] = log[i] BY <1>1 DEF Grows
<1>3. \A t : \A i \in 1..seq : (TellsOf(i, t)' <=> TellsOf(i, t)) /\ (TellsEnd(i, t)' <=> TellsEnd(i, t))
  BY <1>2 DEF TellsOf, TellsEnd
<1>4. \A m : \A i \in 1..seq : (Ends(i, m)' <=> Ends(i, m)) /\ (Creates(i, m)' <=> Creates(i, m))
  BY <1>2 DEF Ends, Creates
<1> QED BY <1>3, <1>4 DEF Told, Over, Gone

\* The cards of the Turns are as they were, and so are the cancellations asked for, unless
\* the room is cancelling.
LEMMA TurnsStay ==
    ASSUME PageInvariant, Grows, seq' = seq, reverted' = reverted, view'.shown = view.shown,
           \A c \in Click, t \in Turns :
               /\ Awaits(c, t)' => Awaits(c, t)
               /\ Awaits(c, t) => Awaits(c, t)' \/ turns'[t].status \in Cancelling
    PROVE  TurnsShown'
<1> SUFFICES ASSUME NEW t \in Turns PROVE TurnShown(t)' BY DEF TurnsShown, Turns
<1>1. TurnShown(t) BY DEF PageInvariant, TurnsShown
<1>2. (Told(t, seq)' <=> Told(t, seq)) /\ (Over(t, seq)' <=> Over(t, seq)) BY ToldStays
<1>3. view.shown[t] # "none" => t \in DOMAIN turns BY PageDomains
<1>4. view.shown[t] = "cancel_requested" /\ t \notin reverted =>
        turns'[t].status \in Cancelling \/ \E c \in Click : Awaits(c, t)'
  BY <1>1, <1>3 DEF TurnShown, Grows
<1>5. \A c \in Click : Awaits(c, t)' => view.shown[t] # "none" BY <1>1 DEF TurnShown
<1> QED BY <1>1, <1>2, <1>4, <1>5 DEF TurnShown

\* Nothing happens to the room, to the cards of the records or to their reading.
LEMMA CardsStay ==
    ASSUME PageInvariant, UNCHANGED <<memories, log, seq, load, stale>>, view'.cards = view.cards
    PROVE  CardsShown'
BY DEF PageInvariant, CardsShown, InForce, Gone, Ends, Creates, HasCard, Place

LEMMA NothingGrows ==
    ASSUME PageInvariant, UNCHANGED serverVars
    PROVE  Grows /\ LogInvariant'
<1>1. UNCHANGED <<turns, memories, log>> BY DEF serverVars
<1>2. Len(log) \in Nat BY PageDomains
<1>3. Grows BY <1>1, <1>2 DEF Grows
<1>4. Entries' = Entries BY <1>1 DEF Entries
<1>5. RoomType' BY <1>1, <1>4 DEF PageInvariant, LogInvariant, RoomType
<1>6. TurnsLogged' BY <1>1 DEF PageInvariant, LogInvariant, TurnsLogged, Told, Over, TellsOf, TellsEnd
<1>7. MemoriesLogged' BY <1>1 DEF PageInvariant, LogInvariant, MemoriesLogged, Creates, Gone, Ends
<1> QED BY <1>3, <1>5, <1>6, <1>7 DEF LogInvariant

----------------------------------------------------------------------------
(* The steps of the server, as the page sees them *)

LEMMA PagesWait ==
    ASSUME SubmissionType, ServerNext
    PROVE  \A c \in Click : requests'[c].page = requests[c].page
<1>1. ASSUME NEW c \in Click, requests' = [requests EXCEPT ![c]["server"] = "done"]
      PROVE  \A d \in Click : requests'[d].page = requests[d].page
  BY <1>1 DEF SubmissionType, RequestField
<1> QED
  BY <1>1 DEF ServerNext, TurnStarts, TurnEnds, Moves, OthersWrite, OthersSend, Replay, Lost, Accept,
     Cancel, Write, Runs

LEMMA ServerCards ==
    ASSUME PageInvariant, ServerStep, ServerKeeps
    PROVE  CardsShown'
<1> USE DEF PageInvariant
<1>1. /\ UNCHANGED <<seq, view, stale>>
      /\ load' = IF load.pc = "reads" /\ Cardinality(InForce') < Cardinality(InForce)
                 THEN [load EXCEPT !.shifted = TRUE] ELSE load
  BY DEF ServerStep
<1>2. /\ load' \in LoadState /\ load'.pc = load.pc /\ load'.offset = load.offset
      /\ load'.got = load.got /\ load'.from = load.from
      /\ ~load'.shifted => /\ ~load.shifted
                           /\ load.pc = "reads" => ~(Cardinality(InForce') < Cardinality(InForce))
  BY <1>1 DEF CardsShown, LoadState
<1>3. Grows BY DEF ServerKeeps
<1>4. /\ turns \in Seq(TurnState) /\ \A i \in 1..seq : i \in 1..Len(log)
      /\ load.offset \in Nat /\ load.from \in Nat
  BY PageDomains
<1>5. \A m \in DOMAIN memories : m \in DOMAIN memories' BY <1>3 DEF Grows
<1>6. \A m \in view.cards : m \in DOMAIN memories' /\ (Gone(m, seq)' => m \in stale)
  BY <1>1, <1>3, <1>5, ToldStays DEF CardsShown
<1>7. ASSUME NEW m \in InForce', NEW i \in 1..seq, Creates(i, m)' PROVE HasCard(m, i)'
  <2>1. Creates(i, m) BY <1>1, <1>3, <1>7, ToldStays
  <2>2. m \in DOMAIN memories BY <1>4, <2>1, EntryCases DEF Creates
  <2>3. m \in InForce BY <1>3, <1>7, <2>2 DEF Grows, InForce
  <2>4. HasCard(m, i) BY <2>1, <2>3 DEF CardsShown
  <2>5. load.pc = "reads" /\ ~load'.shifted => Place(m) <= Place(m)'
    BY <1>2, <1>4, <1>7, <2>3, PlaceLasts
  <2>6. Place(m) \in Nat /\ Place(m)' \in Nat
    <3>1. Place(m) \in Nat
      <4>1. Cardinality(InForce) \in Nat BY <1>4, InForceFacts, FS_CardinalityType
      <4>2. Place(m) \in 1..Cardinality(InForce) BY <1>4, <2>3, PlaceFacts
      <4> QED BY <4>1, <4>2
    <3>2. IsFiniteSet(InForce')
      <4>1. IsFiniteSet(InForce) BY <1>4, InForceFacts
      <4>2. \A k : IsFiniteSet(InForce \ {k}) BY <4>1, FS_RemoveElement
      <4>3. \A k, n : IsFiniteSet((InForce \ {k}) \cup {n}) BY <4>2, FS_AddElement
      <4>4. \A n : IsFiniteSet(InForce \cup {n}) BY <4>1, FS_AddElement
      <4> QED BY <4>1, <4>2, <4>3, <4>4 DEF ServerKeeps, Moved
    <3>3. {x \in InForce' : x >= m} \subseteq InForce' OBVIOUS
    <3>4. Cardinality({x \in InForce' : x >= m}) \in Nat
      <4>1. IsFiniteSet({x \in InForce' : x >= m}) BY <3>2, <3>3, FS_Subset
      <4> QED BY <4>1, FS_CardinalityType
    <3> QED BY <3>1, <3>4 DEF Place
  <2>7. load.pc = "reads" /\ ~load'.shifted /\ Place(m)' <= load.offset => Place(m) <= load.offset
    BY <1>4, <2>5, <2>6
  <2> QED BY <1>1, <1>2, <2>4, <2>7 DEF HasCard
<1>8. load'.from <= seq /\ load'.got \subseteq DOMAIN memories'
  BY <1>2, <1>5 DEF CardsShown
<1> QED BY <1>1, <1>2, <1>6, <1>7, <1>8 DEF CardsShown

LEMMA ServerPage ==
    ASSUME PageInvariant, ServerStep
    PROVE  PageInvariant'
<1> USE DEF PageInvariant
<1>1. ServerNext /\ UNCHANGED <<seq, view, composer, retry, loads, reverted, stale>> BY DEF ServerStep
<1>2. DraftInvariant' BY ServerInvariant
<1>3. ServerKeeps /\ Requests' /\ SameRequests
  BY <1>1, ServerFacts DEF DraftInvariant, RequestInvariant
<1>4. LogInvariant' /\ Grows BY <1>3 DEF ServerKeeps
<1>5. RequestInvariant' BY <1>1, <1>3, KeptStays DEF SameRequests, RequestInvariant
<1>6. ViewInvariant'
  <2>1. Len(log') \in Nat BY <1>4 DEF LogInvariant, RoomType
  <2>2. seq \in Nat /\ seq <= Len(log) /\ Len(log) \in Nat BY PageDomains
  <2>3. seq \in 0..Len(log') BY <1>4, <2>1, <2>2 DEF Grows
  <2> QED BY <1>1, <2>3 DEF ViewInvariant, Closed, View, Turns
<1>7. \A c \in Click : \A t : Awaits(c, t)' <=> Awaits(c, t)
  <2>1. \A c \in Click : requests'[c].page = requests[c].page
    BY <1>1, PagesWait DEF DraftInvariant
  <2> QED BY <1>3, <2>1 DEF SameRequests, SameQuestions, Awaits
<1>8. TurnsShown' BY <1>1, <1>4, <1>7, TurnsStay
<1>9. CardsShown' BY <1>3, ServerCards
<1> QED BY <1>2, <1>4, <1>5, <1>6, <1>8, <1>9

----------------------------------------------------------------------------
(* The steps of the page that ask nothing *)

LEMMA NothingHappens ==
    ASSUME PageInvariant, UNCHANGED <<serverVars, requests, retry>>,
           \/ composer'.pending.draft # composer'.draft
           \/ composer'.pending = composer.pending /\ composer'.draft = composer.draft
    PROVE  /\ LogInvariant' /\ Grows /\ RequestInvariant'
           /\ \A c \in Click : \A t : Awaits(c, t)' <=> Awaits(c, t)
<1>1. LogInvariant' /\ Grows BY NothingGrows
<1>2. SameRequests BY NothingRequested DEF PageInvariant, DraftInvariant
<1>3. UNCHANGED receipts BY DEF serverVars
<1>4. Requests' BY <1>1, <1>2, <1>3, RequestsGoOn DEF PageInvariant, RequestInvariant
<1>5. KeptIds' BY <1>2, KeptStays DEF PageInvariant, RequestInvariant, SameRequests
<1>6. \A c \in Click : \A t : Awaits(c, t)' <=> Awaits(c, t) BY DEF Awaits
<1> QED BY <1>1, <1>4, <1>5, <1>6 DEF RequestInvariant

LEMMA OpenPage ==
    ASSUME PageInvariant, Open
    PROVE  PageInvariant'
<1> USE DEF PageInvariant
<1>1. /\ seq' = Len(log) /\ view' = Snapshot /\ retry' = {} /\ reverted' = {} /\ stale' = {}
      /\ load' = [NoLoad EXCEPT !.pc = "reads", !.from = Len(log)]
      /\ composer' = [draft |-> composer.draft + (IF loads > 0 THEN 1 ELSE 0),
                      pending |-> NoSubmission, busy |-> FALSE]
      /\ requests' = [c \in Click |-> IF requests[c].page = "waits"
                                      THEN [requests[c] EXCEPT !.page = "left"] ELSE requests[c]]
      /\ UNCHANGED serverVars
  BY DEF Open
<1>2. DraftInvariant' BY PageStep
<1>3. LogInvariant' /\ Grows BY <1>1, NothingGrows
<1>d. /\ turns \in Seq(TurnState) /\ Len(log) \in Nat /\ InForce \subseteq DOMAIN memories
      /\ UNCHANGED <<turns, memories, log, receipts>>
  BY <1>1, PageDomains DEF serverVars
<1>4. \A c \in Click : requests'[c].page # "waits"
  BY <1>1 DEF DraftInvariant, SubmissionType, RequestField
<1>5. SameRequests
  <2>1. SameQuestions BY <1>1 DEF SameQuestions, DraftInvariant, SubmissionType, RequestField
  <2>2. \A c \in Click : requests'[c].was = requests[c].was
    BY <1>1 DEF DraftInvariant, SubmissionType, RequestField
  <2>3. \A c \in Click : requests[c].kind = "none" => requests[c] = NoRequest
    BY DEF RequestInvariant, Requests, Request
  <2>4. NoRequest.page # "waits" BY DEF NoRequest
  <2>5. \A c \in Click : requests[c].kind = "none" => requests'[c] = requests[c]
    BY <1>1, <2>3, <2>4
  <2> QED BY <2>1, <2>2, <2>5 DEF SameRequests
<1>6. RequestInvariant'
  <2>1. Requests' BY <1>3, <1>4, <1>5, <1>d, RequestsGoOn DEF RequestInvariant
  <2>2. composer' \in Composer BY <1>2 DEF DraftInvariant, SubmissionType
  <2>3. composer'.pending.draft # composer'.draft
    BY <1>1, <2>2 DEF NoSubmission, Composer
  <2>4. KeptIds' BY <1>1, <1>5, <2>3, KeptStays DEF RequestInvariant, SameRequests
  <2> QED BY <2>1, <2>4 DEF RequestInvariant
<1>7. /\ Snapshot \in View /\ Closed(Snapshot)
      /\ \A t \in Turns :
            /\ t \in Live => Snapshot.shown[t] = turns[t].status
            /\ t \notin Live => Snapshot.shown[t] \in Ended \cup {"none"}
            /\ t \notin DOMAIN turns => Snapshot.shown[t] = "none"
      /\ \A m \in Snapshot.cards : m \in DOMAIN memories /\ ~Gone(m, Len(log))
  BY <1>d, SnapshotFacts
<1> HIDE DEF PageInvariant
<1>8. ViewInvariant'
  <2>1. Len(log) \in 0..Len(log) BY <1>d
  <2>2. Closed(view)' <=> Closed(Snapshot) BY <1>1 DEF Closed, Turns
  <2> QED BY <1>1, <1>7, <1>d, <2>1, <2>2 DEF ViewInvariant, View, Turns
<1>l. PICK len : len = Len(log) OBVIOUS
<1>9. TurnsShown'
  <2> SUFFICES ASSUME NEW t \in Turns PROVE TurnShown(t)' BY DEF TurnsShown, Turns
  <2>1. (Told(t, seq)' <=> Told(t, len)) /\ (Over(t, seq)' <=> Over(t, len))
    BY <1>1, <1>d, <1>l DEF Told, Over, TellsOf, TellsEnd
  <2>2. \A c \in Click : ~Awaits(c, t)' BY <1>4 DEF Awaits
  <2>3. t \in DOMAIN turns =>
          Told(t, len) /\ (t \in Live <=> ~Over(t, len)) /\ turns[t].status \in Status
    BY <1>d, <1>l, DomainFacts DEF LogInvariant, TurnsLogged, Live, PageInvariant
  <2>4. t \notin DOMAIN turns => ~Told(t, len) /\ ~Over(t, len)
    BY <1>d, <1>l, EntryCases DEF Told, Over, TellsOf, TellsEnd, PageInvariant
  <2>5. Live \subseteq DOMAIN turns /\ \A x \in Live : turns[x].status \notin Ended BY DEF Live
  <2>6. "none" \notin Status \cup Ended /\ "cancel_requested" \notin Status \cup Ended
    BY DEF Status, Ended
  <2>7. \/ t \in Live /\ view'.shown[t] = turns[t].status /\ view'.shown[t] \in Status \ Ended
        \/ t \notin Live /\ t \in DOMAIN turns /\ view'.shown[t] \in Ended \cup {"none"}
        \/ t \notin DOMAIN turns /\ view'.shown[t] = "none"
    BY <1>1, <1>7, <2>3, <2>5
  <2>8. view'.shown[t] # "cancel_requested" BY <2>6, <2>7
  <2> QED BY <2>1, <2>2, <2>3, <2>4, <2>5, <2>6, <2>7, <2>8 DEF TurnShown
<1>10. CardsShown'
  <2>1. /\ load' \in LoadState /\ load'.from = Len(log) /\ load'.pc = "reads"
        /\ load'.got = {} /\ load'.offset = 0
    BY <1>1, <1>d DEF LoadState, NoLoad
  <2>2. \A m \in view'.cards : m \in DOMAIN memories /\ ~Gone(m, seq)'
    BY <1>1, <1>7, <1>d DEF Gone, Ends
  <2>3. ASSUME NEW m \in InForce', NEW i \in 1..seq' PROVE HasCard(m, i)'
    <3>1. InForce' = InForce /\ Place(m)' = Place(m) BY <1>d DEF InForce, Place
    <3>2. ~(i > load'.from) BY <1>1, <1>d, <2>1
    <3>3. ~(Place(m) <= 0)
      <4>1. Cardinality(InForce) \in Nat BY <1>d, InForceFacts, FS_CardinalityType DEF PageInvariant
      <4>2. Place(m) \in 1..Cardinality(InForce) BY <1>d, <3>1, PlaceFacts DEF PageInvariant
      <4> QED BY <4>1, <4>2
    <3> QED BY <2>1, <3>1, <3>2, <3>3 DEF HasCard
  <2>4. load'.from <= seq' BY <1>1, <1>d, <2>1
  <2> QED BY <1>d, <2>1, <2>2, <2>3, <2>4 DEF CardsShown
<1> QED BY <1>2, <1>3, <1>6, <1>8, <1>9, <1>10 DEF PageInvariant

\* The reading of the memories, which leaves the Turns alone.
LEMMA ReadingPage ==
    ASSUME PageInvariant, ReadPage \/ ApplyPages \/ LoadFails
    PROVE  PageInvariant'
<1> USE DEF PageInvariant
<1>1. /\ UNCHANGED <<serverVars, requests, seq, composer, retry, loads, reverted>>
      /\ UNCHANGED <<turns, memories, log>>
  BY DEF ReadPage, ApplyPages, LoadFails, serverVars
<1>2. DraftInvariant' BY PageStep
<1>3. /\ LogInvariant' /\ Grows /\ RequestInvariant'
      /\ \A c \in Click : \A t : Awaits(c, t)' <=> Awaits(c, t)
  BY <1>1, NothingHappens
<1>d. /\ turns \in Seq(TurnState) /\ InForce \subseteq DOMAIN memories
      /\ DOMAIN memories \subseteq Nat \ {0} /\ seq \in Nat /\ load.offset \in Nat /\ load.from \in Nat
  BY PageDomains
<1>s. InForce' = InForce /\ \A m : Place(m)' = Place(m) BY <1>1 DEF InForce, Place
<1>g. /\ \A m : Gone(m, seq)' <=> Gone(m, seq)
      /\ \A m : \A i \in 1..seq : Creates(i, m)' <=> Creates(i, m)
  BY <1>1, <1>3, ToldStays
<1>v. view \in View /\ Closed(view) BY DEF ViewInvariant
<1>c. /\ load \in LoadState /\ load.from <= seq /\ load.got \subseteq DOMAIN memories
      /\ \A m \in view.cards : m \in DOMAIN memories /\ (Gone(m, seq) => m \in stale)
      /\ \A m \in InForce : \A i \in 1..seq : Creates(i, m) => HasCard(m, i)
  BY DEF CardsShown
<1> HIDE DEF PageInvariant
<1>4. view' \in View /\ Closed(view)' /\ view'.shown = view.shown
  <2>1. CASE view' = view BY <1>v, <2>1 DEF Closed
  <2>2. CASE ApplyPages
    <3> DEFINE cards == view.cards \cup load.got
    <3>1. view' = [view EXCEPT !.cards = cards] BY <1>v, <2>2 DEF ApplyPages, Put, View
    <3>2. cards \in SUBSET Nat BY <1>v, <1>c, <1>d DEF View
    <3> HIDE DEF cards
    <3>3. PICK u : u = [view EXCEPT !.cards = cards] OBVIOUS
    <3>4. u \in View /\ u.shown = view.shown /\ Closed(u) BY <1>v, <3>2, <3>3, CardsFacts
    <3> QED BY <3>1, <3>3, <3>4 DEF Closed
  <2> QED BY <2>1, <2>2 DEF ReadPage, LoadFails
<1>5. ViewInvariant' BY <1>1, <1>4 DEF ViewInvariant, PageInvariant, View, Turns
<1>6. TurnsShown' BY <1>1, <1>3, <1>4, TurnsStay
<1>7. CASE ReadPage
  <2> DEFINE page == PageAt(load.offset)
  <2>0. /\ view' = view /\ stale' = stale /\ load.pc = "reads"
        /\ load' = [load EXCEPT !.got = load.got \cup page, !.offset = load.offset + PageSize,
                                !.pc = IF Cardinality(page) = PageSize THEN "reads" ELSE "read"]
    BY <1>7, <1>c DEF ReadPage, LoadState
  <2>1. PageSize \in Nat \ {0} BY PageAssumption
  <2>2. page \subseteq InForce /\ page \subseteq Nat BY <1>d DEF PageAt
  <2>p. page = {m \in InForce : Place(m) \in (load.offset + 1)..(load.offset + PageSize)}
    BY DEF PageAt
  <2>f. Cardinality(page) # PageSize => \A m \in InForce : ~(Place(m) > load.offset + PageSize)
    BY <1>d, PageIsFull DEF PageInvariant
  <2> HIDE DEF page
  <2>3. /\ load' \in LoadState /\ load'.got = load.got \cup page /\ load'.from = load.from
        /\ load'.offset = load.offset + PageSize /\ load'.shifted = load.shifted
        /\ load'.pc = IF Cardinality(page) = PageSize THEN "reads" ELSE "read"
    <3>1. PICK pc, got, offset :
            /\ pc = IF Cardinality(page) = PageSize THEN "reads" ELSE "read"
            /\ got = load.got \cup page /\ offset = load.offset + PageSize
      OBVIOUS
    <3>2. load' = [load EXCEPT !.got = got, !.offset = offset, !.pc = pc] BY <2>0, <3>1
    <3>3. pc \in {"reads", "read"} /\ offset \in Nat BY <1>d, <2>1, <3>1
    <3>4. got \in SUBSET Nat BY <1>c, <2>2, <3>1 DEF LoadState
    <3>5. /\ load' \in LoadState /\ load'.got = got /\ load'.from = load.from
          /\ load'.offset = offset /\ load'.shifted = load.shifted /\ load'.pc = pc
      BY <1>c, <3>2, <3>3, <3>4 DEF LoadState
    <3> QED BY <3>1, <3>5
  <2>4. ASSUME NEW m \in InForce, NEW i \in 1..seq, Creates(i, m) PROVE HasCard(m, i)'
    <3>1. HasCard(m, i) BY <1>c, <2>4
    <3>2. Place(m) \in Nat \ {0}
      <4>1. Cardinality(InForce) \in Nat BY <1>d, InForceFacts, FS_CardinalityType DEF PageInvariant
      <4>2. Place(m) \in 1..Cardinality(InForce) BY <1>d, PlaceFacts DEF PageInvariant
      <4> QED BY <4>1, <4>2
    <3>3. Place(m) <= load.offset + PageSize => Place(m) <= load.offset \/ m \in page
      BY <1>d, <2>1, <2>p, <3>2
    <3>4. load'.pc = "read" => Place(m) <= load.offset + PageSize
      BY <1>d, <2>1, <2>3, <2>f, <3>2
    <3> QED BY <1>s, <2>0, <2>3, <3>1, <3>3, <3>4 DEF HasCard
  <2>5. load'.got \subseteq DOMAIN memories BY <1>c, <1>d, <2>2, <2>3
  <2> QED BY <1>1, <1>2, <1>3, <1>5, <1>6, <1>s, <1>g, <1>c, <2>0, <2>3, <2>4, <2>5
      DEF PageInvariant, CardsShown
<1>8. CASE ApplyPages
  <2>0. /\ load.pc = "read" /\ load' = [load EXCEPT !.pc = "done", !.got = {}, !.offset = 0]
        /\ view'.cards = view.cards \cup load.got
        /\ stale' = stale \cup {m \in load.got : EndShown(m)}
    BY <1>8, <1>v DEF ApplyPages, Put, View
  <2>1. /\ load' \in LoadState /\ load'.from = load.from /\ load'.shifted = load.shifted
        /\ load'.pc = "done" /\ load'.got = {}
    BY <1>c, <2>0 DEF LoadState
  <2>2. \A m : Gone(m, seq) <=> EndShown(m) BY DEF Gone, Ends, EndShown
  <2>3. \A m \in view'.cards : m \in DOMAIN memories /\ (Gone(m, seq) => m \in stale')
    BY <1>c, <2>0, <2>2
  <2>4. ASSUME NEW m \in InForce, NEW i \in 1..seq, Creates(i, m) PROVE HasCard(m, i)'
    <3>1. HasCard(m, i) BY <1>c, <2>4
    <3> QED BY <2>0, <2>1, <3>1 DEF HasCard
  <2> QED BY <1>1, <1>2, <1>3, <1>5, <1>6, <1>s, <1>g, <1>c, <2>1, <2>3, <2>4
      DEF PageInvariant, CardsShown
<1>9. CASE LoadFails
  <2>0. /\ load' = [load EXCEPT !.pc = "failed", !.got = {}, !.offset = 0] /\ view' = view
        /\ stale' = stale
    BY <1>9 DEF LoadFails
  <2>1. /\ load' \in LoadState /\ load'.from = load.from /\ load'.shifted = load.shifted
        /\ load'.pc = "failed" /\ load'.got = {}
    BY <1>c, <2>0 DEF LoadState
  <2>4. ASSUME NEW m \in InForce, NEW i \in 1..seq, Creates(i, m) PROVE HasCard(m, i)'
    <3>1. HasCard(m, i) BY <1>c, <2>4
    <3> QED BY <2>0, <2>1, <3>1 DEF HasCard
  <2> QED BY <1>1, <1>2, <1>3, <1>5, <1>6, <1>s, <1>g, <1>c, <2>0, <2>1, <2>4
      DEF PageInvariant, CardsShown
<1> QED BY <1>7, <1>8, <1>9

----------------------------------------------------------------------------
(* The stream *)

\* An event gives a record its card, or takes it away with the end of the record.
LEMMA CardsTaken ==
    ASSUME LogInvariant, turns \in Seq(TurnState), NEW i \in 1..Len(log), NEW v, NEW u,
           Takes(v, i, u), NEW m \in Nat \ {0}
    PROVE  m \in u.cards <=> Creates(i, m) \/ (m \in v.cards /\ ~Ends(i, m))
<1> DEFINE e == log[i]
<1>1. \/ e.kind = "turn" \/ e.kind = "reply"
      \/ e.kind = "memory" /\ (e.to = "active" \/ (e.to = "retracted" /\ e.instead = 0))
  BY EntryCases
<1>2. /\ Creates(i, m) <=> e.kind = "memory" /\ e.of = m /\ e.to = "active"
      /\ Ends(i, m) <=> e.kind = "memory" /\ (e.instead = m \/ (e.of = m /\ e.to = "retracted"))
  BY DEF Creates, Ends
<1>3. u.cards = IF e.kind # "memory" THEN v.cards
                ELSE IF e.to = "retracted" THEN v.cards \ {e.of}
                ELSE (v.cards \ {e.instead}) \cup {e.of}
  BY DEF Takes
<1> HIDE DEF e
<1>4. CASE e.kind # "memory" BY <1>2, <1>3, <1>4
<1>5. CASE e.kind = "memory" /\ e.to = "active" BY <1>2, <1>3, <1>5
<1>6. CASE e.kind = "memory" /\ e.to = "retracted" /\ e.instead = 0 BY <1>2, <1>3, <1>6
<1> QED BY <1>1, <1>4, <1>5, <1>6

LEMMA ReceiveEvent ==
    ASSUME PageInvariant, Receive
    PROVE  PageInvariant'
<1> USE DEF PageInvariant
<1>i. PICK i : i = seq + 1 OBVIOUS
<1>1. /\ UNCHANGED <<serverVars, requests, load, composer, retry, loads, reverted>>
      /\ UNCHANGED <<turns, memories, log>>
      /\ seq < Len(log) /\ seq' = i /\ view' = Dispatch(view, log[i]) /\ stale' = stale \cap view'.cards
  BY <1>i DEF Receive, serverVars
<1>2. DraftInvariant' BY PageStep
<1>3. /\ LogInvariant' /\ Grows /\ RequestInvariant'
      /\ \A c \in Click : \A t : Awaits(c, t)' <=> Awaits(c, t)
  BY <1>1, NothingHappens
<1>d. /\ turns \in Seq(TurnState) /\ InForce \subseteq DOMAIN memories
      /\ DOMAIN memories \subseteq Nat \ {0} /\ seq \in Nat /\ load.from \in Nat
      /\ i \in 1..Len(log) /\ 1..i = (1..seq) \cup {i} /\ i \notin 1..seq
      /\ \A j \in 1..seq : j \in 1..Len(log) /\ j < i
      /\ i \in 0..Len(log) /\ load.from < i
  <2>1. load.from <= seq BY DEF CardsShown
  <2> QED BY <1>1, <1>i, <2>1, PageDomains
<1>v. view \in View /\ Closed(view) BY DEF ViewInvariant
<1>4. Takes(view, i, view') BY <1>d, <1>v, <1>1, DispatchFacts
<1>5. /\ view' \in View /\ Closed(view')
      /\ view'.shown = IF log[i].kind = "turn" THEN [view.shown EXCEPT ![log[i].of] = log[i].to]
                       ELSE view.shown
  BY <1>v, <1>4 DEF Takes
<1>6. ViewInvariant' BY <1>1, <1>5, <1>d DEF ViewInvariant, View, Turns, Closed
<1>7. TurnsShown'
  <2> SUFFICES ASSUME NEW t \in Turns PROVE TurnShown(t)' BY DEF TurnsShown, Turns
  <2>1. TurnShown(t) BY DEF TurnsShown
  <2>2. /\ Told(t, seq)' <=> Told(t, seq) \/ TellsOf(i, t)
        /\ Over(t, seq)' <=> Over(t, seq) \/ TellsEnd(i, t)
    BY <1>1, <1>d DEF Told, Over, TellsOf, TellsEnd
  <2>3. CASE ~TellsOf(i, t)
    <3>1. view'.shown[t] = view.shown[t]
      <4>1. view.shown \in [Turns -> Shown] BY <1>v DEF View
      <4> QED BY <1>5, <2>3, <4>1 DEF TellsOf
    <3>2. ~TellsEnd(i, t) BY <2>3 DEF TellsEnd
    <3>3. turns'[t].status = turns[t].status /\ reverted' = reverted BY <1>1
    <3> QED BY <1>3, <2>1, <2>2, <2>3, <3>1, <3>2, <3>3 DEF TurnShown
  <2>4. CASE TellsOf(i, t)
    <3>1. view'.shown[t] = log[i].to
      <4>1. view.shown \in [Turns -> Shown] BY <1>v DEF View
      <4> QED BY <1>5, <2>4, <4>1 DEF TellsOf
    <3>2. log[i].to \in {"queued", "running"} \cup Ended /\ t \in DOMAIN turns
      BY <1>d, <2>4, EntryCases DEF TellsOf
    <3>3. ~Over(t, seq)
      <4> SUFFICES ASSUME NEW j \in 1..seq, TellsEnd(j, t) PROVE FALSE BY DEF Over
      <4>1. i <= j BY <1>d, <2>4, <3>2 DEF LogInvariant, TurnsLogged
      <4>2. j < i /\ i \in Nat /\ j \in Nat BY <1>d
      <4> QED BY <4>1, <4>2
    <3>4. Over(t, seq)' <=> log[i].to \in Ended BY <2>2, <2>4, <3>3 DEF TellsEnd
    <3>5. log[i].to # "none" /\ log[i].to # "cancel_requested" BY <3>2 DEF Ended
    <3> QED BY <2>2, <2>4, <3>1, <3>4, <3>5 DEF TurnShown
  <2> QED BY <2>3, <2>4
<1>8. CardsShown'
  <2>0. \A m : Gone(m, seq)' <=> Gone(m, seq) \/ Ends(i, m)
    BY <1>1, <1>d DEF Gone, Ends
  <2>1. \A m \in Nat \ {0} : m \in view'.cards <=> Creates(i, m) \/ (m \in view.cards /\ ~Ends(i, m))
    BY <1>d, <1>4, CardsTaken
  <2>2. ASSUME NEW m \in view'.cards
        PROVE  m \in DOMAIN memories /\ (Gone(m, seq)' => m \in stale')
    <3>0. m # 0 /\ m \in Nat
      <4>1. view'.cards = IF log[i].kind # "memory" THEN view.cards
                          ELSE IF log[i].to = "retracted" THEN view.cards \ {log[i].of}
                          ELSE (view.cards \ {log[i].instead}) \cup {log[i].of}
        BY <1>4 DEF Takes
      <4>2. log[i].kind = "memory" => log[i].of \in Nat \ {0} BY <1>d, EntryCases
      <4>3. \A x \in view.cards : x \in Nat \ {0} BY <1>d DEF CardsShown
      <4> QED BY <4>1, <4>2, <4>3
    <3>1. CASE Creates(i, m)
      <4>1. m \in DOMAIN memories BY <1>d, <3>1, EntryCases DEF Creates
      <4>2. ASSUME NEW j \in 1..i, Ends(j, m) PROVE FALSE
        <5>1. j \in 1..Len(log) /\ j <= i BY <1>d
        <5>2. i < j BY <1>d, <3>1, <4>1, <4>2, <5>1 DEF LogInvariant, MemoriesLogged
        <5> QED BY <1>d, <5>1, <5>2
      <4>3. ~Gone(m, seq)' BY <1>1, <1>d, <2>0, <4>2 DEF Gone
      <4> QED BY <4>1, <4>3
    <3>2. CASE ~Creates(i, m)
      <4>1. m \in view.cards /\ ~Ends(i, m) BY <2>1, <3>0, <3>2
      <4>2. m \in DOMAIN memories /\ (Gone(m, seq) => m \in stale) BY <4>1 DEF CardsShown
      <4> QED BY <1>1, <2>0, <4>1, <4>2
    <3> QED BY <3>1, <3>2
  <2>3. ASSUME NEW m \in InForce PROVE m \in view.cards => m \in view'.cards
    <3>1. ~Gone(m, Len(log)) BY <1>d DEF LogInvariant, MemoriesLogged, InForce
    <3>2. ~Ends(i, m) BY <1>d, <3>1 DEF Gone
    <3> QED BY <1>d, <2>1, <3>2
  <2>4. ASSUME NEW m \in InForce, NEW j \in 1..i, Creates(j, m) PROVE HasCard(m, j)'
    <3>s. Place(m)' = Place(m) BY <1>1 DEF Place, InForce
    <3>1. CASE j = i
      <4>1. m \in view'.cards BY <1>d, <2>1, <2>4, <3>1
      <4> QED BY <1>1, <1>d, <3>1, <4>1 DEF HasCard
    <3>2. CASE j # i
      <4>1. HasCard(m, j) BY <1>d, <2>4, <3>2 DEF CardsShown
      <4> QED BY <1>1, <2>3, <3>s, <4>1 DEF HasCard
    <3> QED BY <3>1, <3>2
  <2>5. load' = load /\ load \in LoadState /\ load.from <= seq' /\ load.got \subseteq DOMAIN memories
    BY <1>1, <1>d DEF CardsShown
  <2>6. InForce' = InForce /\ \A m : \A j \in 1..i : Creates(j, m)' <=> Creates(j, m)
    BY <1>1 DEF InForce, Creates
  <2> QED BY <1>1, <2>2, <2>4, <2>5, <2>6 DEF CardsShown
<1> QED BY <1>2, <1>3, <1>6, <1>7, <1>8

\* What comes in beside the events opens or fills streams, where none is closed.
LEMMA StreamsFacts ==
    ASSUME NEW v \in View, Closed(v), NEW u, u.shown = v.shown, u.answers = v.answers,
           u.closed = v.closed, u.buckets \cap v.closed = {}, v.answers \cap u.streams = {}
    PROVE  Closed(u)
BY DEF Closed

LEMMA StreamStep ==
    ASSUME PageInvariant, Flush \/ EditDraft \/ \E t \in DOMAIN turns : Delta(t) \/ ToolProgress(t)
    PROVE  PageInvariant'
<1> USE DEF PageInvariant
<1>1. /\ UNCHANGED <<serverVars, requests, seq, load, retry, loads, reverted, stale>>
      /\ UNCHANGED <<turns, memories, log>>
  BY DEF Flush, EditDraft, Delta, ToolProgress, serverVars
<1>2. DraftInvariant' BY PageStep
<1>v. view \in View /\ Closed(view) BY DEF ViewInvariant
<1>d. DOMAIN turns \subseteq Turns BY PageDomains
<1>3. view' \in View /\ Closed(view') /\ view'.shown = view.shown /\ view'.cards = view.cards
  <2>1. CASE view' = view BY <1>v, <2>1
  <2>2. CASE Flush
    <3>1. view' = [view EXCEPT !.streams = view.streams \cup view.buckets, !.buckets = {}]
      BY <2>2 DEF Flush, Streaming
    <3>2. view.streams \cup view.buckets \in SUBSET Turns BY <1>v DEF View
    <3>3. view.answers \cap (view.streams \cup view.buckets) = {} BY <1>v DEF Closed
    <3>4. /\ view' \in View /\ view'.shown = view.shown /\ view'.cards = view.cards
          /\ view'.answers = view.answers /\ view'.closed = view.closed
          /\ view'.streams = view.streams \cup view.buckets /\ view'.buckets = {}
      BY <1>v, <3>1, <3>2 DEF View
    <3>5. Closed(view') BY <1>v, <3>3, <3>4, StreamsFacts
    <3> QED BY <3>4, <3>5
  <2>3. ASSUME NEW t \in DOMAIN turns, Delta(t), view' # view
        PROVE  view' \in View /\ Closed(view') /\ view'.shown = view.shown /\ view'.cards = view.cards
    <3>1. t \notin view.closed /\ view' = [view EXCEPT !.streams = view.streams,
                                                       !.buckets = view.buckets \cup {t}]
      BY <1>v, <2>3 DEF Delta, QueueDelta, View
    <3>2. view.buckets \cup {t} \in SUBSET Turns /\ view.streams \in SUBSET Turns BY <1>v, <1>d DEF View
    <3>3. (view.buckets \cup {t}) \cap view.closed = {} /\ view.answers \cap view.streams = {}
      BY <1>v, <3>1 DEF Closed
    <3>4. /\ view' \in View /\ view'.shown = view.shown /\ view'.cards = view.cards
          /\ view'.answers = view.answers /\ view'.closed = view.closed
          /\ view'.streams = view.streams /\ view'.buckets = view.buckets \cup {t}
      BY <1>v, <3>1, <3>2 DEF View
    <3>5. Closed(view') BY <1>v, <3>3, <3>4, StreamsFacts
    <3> QED BY <3>4, <3>5
  <2>4. ASSUME NEW t \in DOMAIN turns, ToolProgress(t)
        PROVE  view' \in View /\ Closed(view') /\ view'.shown = view.shown /\ view'.cards = view.cards
    <3>1. t \notin view.closed /\ view' = [view EXCEPT !.streams = view.streams \cup {t},
                                                       !.buckets = view.buckets]
      BY <1>v, <2>4 DEF ToolProgress, Streaming, View
    <3>2. view.streams \cup {t} \in SUBSET Turns /\ view.buckets \in SUBSET Turns BY <1>v, <1>d DEF View
    <3>3. view.answers \cap (view.streams \cup {t}) = {} /\ view.buckets \cap view.closed = {}
      BY <1>v, <3>1 DEF Closed
    <3>4. /\ view' \in View /\ view'.shown = view.shown /\ view'.cards = view.cards
          /\ view'.answers = view.answers /\ view'.closed = view.closed
          /\ view'.streams = view.streams \cup {t} /\ view'.buckets = view.buckets
      BY <1>v, <3>1, <3>2 DEF View
    <3>5. Closed(view') BY <1>v, <3>3, <3>4, StreamsFacts
    <3> QED BY <3>4, <3>5
  <2> QED BY <2>1, <2>2, <2>3, <2>4 DEF EditDraft
<1>4. \/ composer'.pending.draft # composer'.draft
      \/ composer'.pending = composer.pending /\ composer'.draft = composer.draft
  <2>1. CASE EditDraft
    <3>1. composer \in Composer /\ composer' = [composer EXCEPT !.draft = @ + 1, !.pending = NoSubmission]
      BY <2>1 DEF EditDraft, DraftInvariant, SubmissionType
    <3>2. composer'.pending = NoSubmission /\ composer'.draft = composer.draft + 1
          /\ composer.draft \in Nat
      BY <3>1 DEF Composer
    <3>3. NoSubmission.draft = 0 BY DEF NoSubmission
    <3> QED BY <3>2, <3>3
  <2>2. CASE composer' = composer BY <2>2
  <2> QED BY <2>1, <2>2 DEF Flush, Delta, ToolProgress
<1>5. /\ LogInvariant' /\ Grows /\ RequestInvariant'
      /\ \A c \in Click : \A t : Awaits(c, t)' <=> Awaits(c, t)
  BY <1>1, <1>4, NothingHappens
<1>6. ViewInvariant' BY <1>1, <1>3 DEF ViewInvariant, View, Turns, Closed
<1>7. TurnsShown' BY <1>1, <1>3, <1>5, TurnsStay
<1>8. CardsShown' BY <1>1, <1>3, CardsStay
<1> QED BY <1>2, <1>5, <1>6, <1>7, <1>8

----------------------------------------------------------------------------
(* The user's clicks *)

\* A new cancellation is awaited, the others as they were.
LEMMA SentAwaits ==
    ASSUME SubmissionType, NEW c \in Click, NEW kind, NEW of, NEW cmd, NEW was,
           Sends(c, kind, of, cmd, was)
    PROVE  \A d \in Click : \A t : Awaits(d, t)' <=> Awaits(d, t) \/ (d = c /\ kind = "cancel" /\ t = of)
<1> DEFINE r == [kind |-> kind, of |-> of, cmd |-> cmd, was |-> was,
                 server |-> "waits", page |-> "waits"]
<1>1. requests[c] = NoRequest /\ requests' = [requests EXCEPT ![c] = r] BY DEF Sends
<1>2. r.kind = kind /\ r.of = of /\ r.page = "waits" OBVIOUS
<1> HIDE DEF r
<1>3. requests'[c] = r /\ \A d \in Click \ {c} : requests'[d] = requests[d]
  BY <1>1 DEF SubmissionType
<1>4. requests[c].kind # "cancel" BY <1>1 DEF NoRequest
<1> QED BY <1>2, <1>3, <1>4 DEF Awaits

\* A request is sent again under the id that was kept for it.
LEMMA SentUnder ==
    ASSUME PageInvariant, NEW c \in Click, NEW kind \in Kind, NEW of, NEW content, NEW was,
           SendsUnder(c, kind, of, content, was), UNCHANGED composer,
           kind = "cancel" => of \in DOMAIN turns /\ was \in Status \ Ended,
           kind \in {"replace", "retract"} => of \in DOMAIN memories
    PROVE  RequestInvariant'
<1> USE DEF PageInvariant, RequestInvariant
<1>1. PICK key, cmd : key = Key(kind, of, content) /\ cmd = CommandFor(key, c) OBVIOUS
<1>2. Sends(c, kind, of, cmd, was) /\ retry' = retry \cup {<<key, cmd>>}
  BY <1>1 DEF SendsUnder
<1>3. key.kind = kind /\ key.of = of BY <1>1 DEF Key
<1>4. cmd = c \/ Carries(cmd, kind, of)
  <2>1. CASE \E p \in retry : p[1] = key
    <3>1. PICK p \in retry : p[1] = key /\ cmd = p[2] BY <1>1, <2>1 DEF CommandFor
    <3>2. Carries(p[2], p[1].kind, p[1].of) BY DEF KeptIds
    <3> QED BY <1>3, <3>1, <3>2
  <2>2. CASE ~ \E p \in retry : p[1] = key BY <1>1, <2>2 DEF CommandFor
  <2> QED BY <2>1, <2>2
<1>5. SubmissionType BY DEF DraftInvariant
<1>6. /\ Requests' /\ Carries(cmd, kind, of)'
      /\ \A d, k, o : k \in Kind /\ Carries(d, k, o) => Carries(d, k, o)'
  BY <1>2, <1>4, <1>5, RequestSent
<1>7. \A p \in retry' : p[1].kind \in Kind /\ Carries(p[2], p[1].kind, p[1].of)'
  <2> SUFFICES ASSUME NEW p \in retry'
               PROVE  p[1].kind \in Kind /\ Carries(p[2], p[1].kind, p[1].of)'
    OBVIOUS
  <2>1. CASE p = <<key, cmd>>
    <3>1. p[1] = key /\ p[2] = cmd BY <2>1
    <3> QED BY <1>3, <1>6, <3>1
  <2>2. CASE p \in retry BY <1>6, <2>2 DEF KeptIds
  <2> QED BY <1>2, <2>1, <2>2
<1>8. PICK e, n : e = composer.pending.cmd /\ n = composer.draft OBVIOUS
<1>9. composer.pending.draft = composer.draft => Carries(e, "message", n)'
  BY <1>6, <1>8 DEF KeptIds, Kind
<1>10. KeptIds' BY <1>7, <1>8, <1>9 DEF KeptIds, Carries
<1> QED BY <1>6, <1>10

LEMMA SubmitPage ==
    ASSUME PageInvariant, NEW c \in Click, SubmitMessage(c)
    PROVE  PageInvariant'
<1> USE DEF PageInvariant, RequestInvariant
<1>1. PICK n, cmd : n = composer.draft /\ cmd = SubmissionFor(c) OBVIOUS
<1>2. /\ Sends(c, "message", n, cmd, "none") /\ UNCHANGED <<seq, view, load, retry, loads, reverted, stale>>
      /\ composer' = [composer EXCEPT !.busy = TRUE, !.pending = [draft |-> n, cmd |-> cmd]]
      /\ UNCHANGED serverVars /\ UNCHANGED <<turns, memories, log>>
  BY <1>1 DEF SubmitMessage, Sends, serverVars
<1>3. DraftInvariant' BY SubmitStep
<1>4. SubmissionType /\ composer \in Composer BY DEF DraftInvariant, SubmissionType
<1>5. cmd = c \/ Carries(cmd, "message", n) BY <1>1 DEF SubmissionFor, KeptIds
<1>6. /\ Requests' /\ Carries(cmd, "message", n)'
      /\ \A d, k, o : k \in Kind /\ Carries(d, k, o) => Carries(d, k, o)'
  BY <1>2, <1>4, <1>5, RequestSent DEF Kind
<1>7. KeptIds'
  <2>1. composer'.draft = n /\ composer'.pending.cmd = cmd
    <3>1. PICK p : p = [draft |-> n, cmd |-> cmd] OBVIOUS
    <3>2. composer' = [composer EXCEPT !.busy = TRUE, !.pending = p] BY <1>2, <3>1
    <3>3. composer'.draft = composer.draft /\ composer'.pending = p BY <1>4, <3>2 DEF Composer
    <3> QED BY <1>1, <3>1, <3>3
  <2>2. \A p \in retry : p[1].kind \in Kind /\ Carries(p[2], p[1].kind, p[1].of)'
    BY <1>6 DEF KeptIds
  <2> QED BY <1>2, <1>6, <2>1, <2>2 DEF KeptIds, Carries
<1>8. LogInvariant' /\ Grows BY <1>2, NothingGrows
<1>9. \A d \in Click : \A t : Awaits(d, t)' <=> Awaits(d, t) BY <1>2, <1>4, SentAwaits
<1>10. ViewInvariant' BY <1>2 DEF ViewInvariant, View, Turns, Closed
<1>11. TurnsShown' BY <1>2, <1>8, <1>9, TurnsStay
<1>12. CardsShown' BY <1>2, CardsStay
<1> QED BY <1>3, <1>6, <1>7, <1>8, <1>10, <1>11, <1>12

LEMMA MemoryPage ==
    ASSUME PageInvariant, NEW c \in Click,
           RetractRecord(c) \/ \E content \in Content : SubmitMemory(c, content)
    PROVE  PageInvariant'
<1> USE DEF PageInvariant
<1>1. PICK kind, of, content :
        /\ kind \in {"remember", "replace", "retract"}
        /\ SendsUnder(c, kind, of, content, "none")
        /\ kind # "remember" => of \in view.cards
  BY DEF RetractRecord, SubmitMemory
<1>2. UNCHANGED <<seq, view, load, composer, loads, reverted, stale>>
  BY DEF RetractRecord, SubmitMemory
<1>3. PICK cmd : Sends(c, kind, of, cmd, "none") BY <1>1 DEF SendsUnder
<1>4. UNCHANGED serverVars /\ UNCHANGED <<turns, memories, log>> BY <1>3 DEF Sends, serverVars
<1>5. DraftInvariant' BY ClickStep
<1>6. RequestInvariant'
  <2>1. kind # "remember" => of \in DOMAIN memories BY <1>1 DEF CardsShown
  <2>2. kind \in Kind BY <1>1 DEF Kind
  <2>3. /\ kind = "cancel" => of \in DOMAIN turns /\ "none" \in Status \ Ended
        /\ kind \in {"replace", "retract"} => of \in DOMAIN memories
    BY <1>1, <2>1
  <2> QED BY <1>1, <1>2, <2>2, <2>3, SentUnder
<1>7. LogInvariant' /\ Grows BY <1>4, NothingGrows
<1>8. \A d \in Click : \A t : Awaits(d, t)' <=> Awaits(d, t)
  BY <1>1, <1>3, SentAwaits DEF DraftInvariant
<1>9. ViewInvariant' BY <1>2, <1>4 DEF ViewInvariant, View, Turns, Closed
<1>10. TurnsShown' BY <1>2, <1>7, <1>8, TurnsStay
<1>11. CardsShown' BY <1>2, <1>4, CardsStay
<1> QED BY <1>5, <1>6, <1>7, <1>9, <1>10, <1>11

LEMMA CancelPage ==
    ASSUME PageInvariant, NEW c \in Click, NEW t \in Turns, CancelTurn(c, t)
    PROVE  PageInvariant'
<1> USE DEF PageInvariant
<1>1. /\ view.shown[t] \notin Ended \cup {"none", "cancel_requested"}
      /\ SendsUnder(c, "cancel", t, Nothing, view.shown[t])
      /\ view' = RenderTurn(view, t, "cancel_requested")
      /\ UNCHANGED <<seq, load, composer, loads, reverted, stale>>
  BY DEF CancelTurn
<1>2. PICK cmd : Sends(c, "cancel", t, cmd, view.shown[t]) BY <1>1 DEF SendsUnder
<1>3. UNCHANGED serverVars /\ UNCHANGED <<turns, memories, log>> BY <1>2 DEF Sends, serverVars
<1>4. DraftInvariant' BY ClickStep
<1>v. view \in View /\ Closed(view) BY DEF ViewInvariant
<1>5. RequestInvariant'
  <2>1. t \in DOMAIN turns BY <1>1, PageDomains
  <2>2. view.shown[t] \in Shown BY <1>v DEF View
  <2>3. view.shown[t] \in Status \ Ended BY <1>1, <2>2 DEF Shown
  <2>4. PICK was : was = view.shown[t] OBVIOUS
  <2> QED BY <1>1, <2>1, <2>3, <2>4, SentUnder DEF Kind
<1>6. LogInvariant' /\ Grows BY <1>3, NothingGrows
<1>7. \A d \in Click : \A x : Awaits(d, x)' <=> Awaits(d, x) \/ (d = c /\ x = t)
  <2>1. PICK was : was = view.shown[t] OBVIOUS
  <2> QED BY <1>2, <2>1, SentAwaits DEF DraftInvariant
<1>8. /\ view' \in View /\ Closed(view') /\ view'.cards = view.cards
      /\ view'.shown = [view.shown EXCEPT ![t] = "cancel_requested"]
  <2>1. "cancel_requested" \in Shown BY DEF Shown
  <2> QED BY <1>1, <1>v, <2>1, RenderTurnFacts
<1>9. ViewInvariant' BY <1>1, <1>3, <1>8 DEF ViewInvariant, View, Turns, Closed
<1>10. TurnsShown'
  <2> SUFFICES ASSUME NEW x \in Turns PROVE TurnShown(x)' BY DEF TurnsShown, Turns
  <2>1. TurnShown(x) BY DEF TurnsShown
  <2>2. (Told(x, seq)' <=> Told(x, seq)) /\ (Over(x, seq)' <=> Over(x, seq))
    BY <1>1, <1>6, ToldStays
  <2>3. view.shown \in [Turns -> Shown] BY <1>v DEF View
  <2>4. CASE x = t
    <3>1. view'.shown[t] = "cancel_requested" BY <1>8, <2>3
    <3>2. Awaits(c, t)' BY <1>7
    <3>3. Told(t, seq) /\ (Over(t, seq) => t \in reverted) BY <1>1, <2>1, <2>4 DEF TurnShown
    <3>4. "cancel_requested" \notin Ended \cup {"none"} BY DEF Ended
    <3> QED BY <1>1, <2>2, <2>4, <3>1, <3>2, <3>3, <3>4 DEF TurnShown
  <2>5. CASE x # t
    <3>1. view'.shown[x] = view.shown[x] BY <1>8, <2>3, <2>5
    <3>2. \A d \in Click : Awaits(d, x)' <=> Awaits(d, x) BY <1>7, <2>5
    <3>3. turns'[x].status = turns[x].status /\ reverted' = reverted BY <1>1, <1>3
    <3> QED BY <2>1, <2>2, <3>1, <3>2, <3>3 DEF TurnShown
  <2> QED BY <2>4, <2>5
<1>11. CardsShown' BY <1>1, <1>3, <1>8, CardsStay
<1> QED BY <1>4, <1>5, <1>6, <1>9, <1>10, <1>11

----------------------------------------------------------------------------
(* The answers *)

LEMMA RequestLeaves ==
    ASSUME PageInvariant, NEW c \in Click, requests[c].page = "waits", Leaves(c),
           UNCHANGED serverVars, retry' \subseteq retry,
           \/ composer'.pending.draft # composer'.draft
           \/ composer'.pending = composer.pending /\ composer'.draft = composer.draft
    PROVE  /\ LogInvariant' /\ Grows /\ RequestInvariant'
           /\ \A d \in Click : \A t : Awaits(d, t)' <=> Awaits(d, t) /\ d # c
<1> USE DEF PageInvariant, RequestInvariant
<1>1. requests' = [requests EXCEPT ![c]["page"] = "left"] /\ UNCHANGED receipts
  BY DEF Leaves, serverVars
<1>2. SubmissionType BY DEF DraftInvariant
<1>3. requests[c].kind # "none" BY DEF Requests, Request, NoRequest
<1>4. /\ SameRequests /\ requests'[c].page = "left"
      /\ \A d \in Click \ {c} : requests'[d] = requests[d]
  BY <1>1, <1>2, <1>3, OneGoesOn
<1>5. LogInvariant' /\ Grows BY NothingGrows
<1>6. \A d \in Click : requests'[d].server = "done" /\ requests'[d].page = "waits" =>
                         requests[d].server = "done" \/ receipts'[requests[d].cmd] # 0
  BY <1>4
<1>7. \A d \in Click : receipts'[d] = receipts[d] BY <1>1
<1>8. Requests' BY <1>4, <1>5, <1>6, <1>7, RequestsGoOn
<1>9. KeptIds' BY <1>4, KeptStays DEF SameRequests
<1>10. \A d \in Click : \A t : Awaits(d, t)' <=> Awaits(d, t) /\ d # c
  BY <1>4 DEF Awaits
<1> QED BY <1>5, <1>8, <1>9, <1>10

\* What an answer does to the cards of the records.
LEMMA AnsweredCards ==
    ASSUME PageInvariant, NEW c \in Click, Answered(c)
    PROVE  CardsShown' /\ ViewInvariant' /\ view'.shown = view.shown
<1> USE DEF PageInvariant
<1>1. /\ requests[c].page = "waits" /\ requests[c].server = "done"
      /\ UNCHANGED <<turns, memories, log, receipts, seq, load>>
  BY DEF Answered, serverVars
<1>2. Request(c) /\ requests[c].kind \in Kind
  BY <1>1 DEF RequestInvariant, Requests, DraftInvariant, SubmissionType
<1>k. PICK kind, of, made : /\ kind = requests[c].kind /\ of = requests[c].of
                            /\ made = receipts[requests[c].cmd]
  OBVIOUS
<1>n. kind \in Kind /\ kind # "none" BY <1>2, <1>k DEF Kind
<1>3. /\ kind \in {"remember", "replace"} => made \in DOMAIN memories
      /\ kind \in {"replace", "retract"} => memories[of].status # "active"
  BY <1>1, <1>2, <1>k, <1>n DEF Request, Effective
<1>v. view \in View /\ Closed(view) /\ seq \in 0..Len(log) BY DEF ViewInvariant
<1>c. /\ load \in LoadState /\ load.from <= seq /\ load.got \subseteq DOMAIN memories
      /\ \A m \in view.cards : m \in DOMAIN memories /\ (Gone(m, seq) => m \in stale)
      /\ \A m \in InForce : \A i \in 1..seq : Creates(i, m) => HasCard(m, i)
  BY DEF CardsShown
<1>d. DOMAIN memories \subseteq Nat \ {0} BY PageDomains
<1>e. \A m : Gone(m, seq) <=> EndShown(m) BY DEF Gone, Ends, EndShown
<1> DEFINE Taken(cards) ==
             /\ view' = [view EXCEPT !.cards = cards]
             /\ \A m \in cards : m \in DOMAIN memories /\ (Gone(m, seq) => m \in stale')
             /\ \A m \in InForce : m \in view.cards => m \in cards
<1>4. ASSUME NEW cards, Taken(cards)
      PROVE  CardsShown' /\ ViewInvariant' /\ view'.shown = view.shown
  <2>1. cards \in SUBSET Nat BY <1>4, <1>d
  <2>2. PICK u : u = [view EXCEPT !.cards = cards] OBVIOUS
  <2>3. u \in View /\ u.cards = cards /\ u.shown = view.shown /\ Closed(u)
    BY <1>v, <2>1, <2>2, CardsFacts
  <2>4. view' = u BY <1>4, <2>2
  <2>5. ViewInvariant' BY <1>1, <1>v, <2>3, <2>4 DEF ViewInvariant, View, Turns, Closed
  <2>6. InForce' = InForce /\ \A m : Place(m)' = Place(m) BY <1>1 DEF InForce, Place
  <2>7. /\ \A m : Gone(m, seq)' <=> Gone(m, seq)
        /\ \A m : \A i \in 1..seq : Creates(i, m)' <=> Creates(i, m)
    BY <1>1 DEF Gone, Ends, Creates
  <2>8. ASSUME NEW m \in InForce, NEW i \in 1..seq, Creates(i, m) PROVE HasCard(m, i)'
    <3>1. HasCard(m, i) BY <1>c, <2>8
    <3>2. m \in view.cards => m \in view'.cards BY <1>4, <2>3, <2>4
    <3> QED BY <1>1, <2>6, <3>1, <3>2 DEF HasCard
  <2>9. \A m \in view'.cards : m \in DOMAIN memories /\ (Gone(m, seq) => m \in stale')
    BY <1>4, <2>3, <2>4
  <2>10. CardsShown' BY <1>1, <1>c, <2>6, <2>7, <2>8, <2>9 DEF CardsShown
  <2> QED BY <2>3, <2>4, <2>5, <2>10
<1>5. CASE kind \in {"message", "cancel"}
  <2>1. view' = view /\ stale' = stale BY <1>5, <1>k DEF Answered
  <2>2. ViewInvariant' BY <1>1, <1>v, <2>1 DEF ViewInvariant, View, Turns, Closed
  <2>3. CardsShown' BY <1>1, <2>1, CardsStay
  <2> QED BY <2>1, <2>2, <2>3
<1>6. CASE kind = "remember"
  <2>1. /\ view' = [view EXCEPT !.cards = view.cards \cup {made}]
        /\ stale' = stale \cup {m \in {made} : EndShown(m)}
    BY <1>6, <1>k, <1>v DEF Answered, Put, View
  <2>2. Taken(view.cards \cup {made}) BY <1>c, <1>e, <1>3, <1>6, <2>1
  <2> HIDE DEF Taken
  <2> QED BY <1>4, <2>2
<1>7. CASE kind = "replace"
  <2>1. /\ view' = [view EXCEPT !.cards = (view.cards \ {of}) \cup {made}]
        /\ stale' = (stale \ {of}) \cup {m \in {made} : EndShown(m)}
    BY <1>7, <1>k, <1>v DEF Answered, View
  <2>2. of \notin InForce BY <1>3, <1>7 DEF InForce
  <2>3. Taken((view.cards \ {of}) \cup {made}) BY <1>c, <1>e, <1>3, <1>7, <2>1, <2>2
  <2> HIDE DEF Taken
  <2> QED BY <1>4, <2>3
<1>8. CASE kind = "retract"
  <2>1. view' = [view EXCEPT !.cards = view.cards \ {of}] /\ stale' = stale \ {of}
    BY <1>8, <1>k, <1>v DEF Answered, View
  <2>2. of \notin InForce BY <1>3, <1>8 DEF InForce
  <2>3. Taken(view.cards \ {of}) BY <1>c, <2>1, <2>2
  <2> HIDE DEF Taken
  <2> QED BY <1>4, <2>3
<1> QED BY <1>n, <1>5, <1>6, <1>7, <1>8 DEF Kind

LEMMA AnsweredPage ==
    ASSUME PageInvariant, NEW c \in Click, Answered(c)
    PROVE  PageInvariant'
<1> USE DEF PageInvariant
<1>1. /\ requests[c].page = "waits" /\ requests[c].server = "done" /\ Leaves(c)
      /\ UNCHANGED <<serverVars, seq, load, loads, reverted>> /\ UNCHANGED <<turns, memories, log>>
  BY DEF Answered, serverVars
<1>2. DraftInvariant' BY ClickStep
<1>3. requests[c].kind \in Kind BY <1>1 DEF DraftInvariant, SubmissionType
<1>4. /\ retry' \subseteq retry
      /\ \/ composer'.pending.draft # composer'.draft
         \/ composer'.pending = composer.pending /\ composer'.draft = composer.draft
  <2>1. CASE requests[c].kind = "message"
    <3>1. /\ retry' = retry
          /\ composer' = [draft |-> composer.draft + 1, pending |-> NoSubmission, busy |-> FALSE]
      BY <2>1 DEF Answered
    <3>2. composer.draft \in Nat BY DEF DraftInvariant, SubmissionType, Composer
    <3>3. composer'.pending = NoSubmission /\ composer'.draft = composer.draft + 1 BY <3>1
    <3>4. NoSubmission.draft = 0 BY DEF NoSubmission
    <3>5. composer'.pending.draft = 0 /\ composer'.draft # 0 BY <3>2, <3>3, <3>4
    <3> QED BY <3>1, <3>5
  <2>2. CASE requests[c].kind # "message"
    BY <1>3, <2>2 DEF Answered, Forget, Kind
  <2> QED BY <2>1, <2>2
<1>5. /\ LogInvariant' /\ Grows /\ RequestInvariant'
      /\ \A d \in Click : \A t : Awaits(d, t)' <=> Awaits(d, t) /\ d # c
  BY <1>1, <1>4, RequestLeaves
<1>6. CardsShown' /\ ViewInvariant' /\ view'.shown = view.shown BY AnsweredCards
<1>7. \A t : Awaits(c, t) => turns'[t].status \in Cancelling
  <2> SUFFICES ASSUME NEW t, Awaits(c, t) PROVE turns[t].status \in Cancelling BY <1>1
  <2>1. Request(c) /\ requests[c].kind = "cancel" /\ requests[c].of = t
    BY DEF Awaits, RequestInvariant, Requests
  <2> QED BY <1>1, <2>1 DEF Request, Effective
<1>8. TurnsShown' BY <1>1, <1>5, <1>6, <1>7, TurnsStay
<1> QED BY <1>2, <1>5, <1>6, <1>8

LEMMA FailedPage ==
    ASSUME PageInvariant, NEW c \in Click, Failed(c)
    PROVE  PageInvariant'
<1> USE DEF PageInvariant
<1>1. /\ requests[c].page = "waits" /\ Leaves(c)
      /\ UNCHANGED <<serverVars, seq, load, retry, loads, stale>> /\ UNCHANGED <<turns, memories, log>>
  BY DEF Failed, serverVars
<1>2. DraftInvariant' BY ClickStep
<1>3. requests[c].kind \in Kind BY <1>1 DEF DraftInvariant, SubmissionType
<1>4. composer'.pending = composer.pending /\ composer'.draft = composer.draft
  BY DEF Failed, DraftInvariant, SubmissionType, Composer
<1>5. /\ LogInvariant' /\ Grows /\ RequestInvariant'
      /\ \A d \in Click : \A t : Awaits(d, t)' <=> Awaits(d, t) /\ d # c
  BY <1>1, <1>4, RequestLeaves
<1>v. view \in View /\ Closed(view) BY DEF ViewInvariant
<1>6. CASE requests[c].kind # "cancel"
  <2>1. UNCHANGED <<view, reverted>> BY <1>6 DEF Failed
  <2>2. \A t : ~Awaits(c, t) BY <1>6 DEF Awaits
  <2>3. TurnsShown' BY <1>1, <1>5, <2>1, <2>2, TurnsStay
  <2>4. CardsShown' BY <1>1, <2>1, CardsStay
  <2>5. ViewInvariant' BY <1>1, <2>1 DEF ViewInvariant, View, Turns, Closed
  <2> QED BY <1>2, <1>5, <2>3, <2>4, <2>5
<1>7. CASE requests[c].kind = "cancel"
  <2>1. PICK t, was : t = requests[c].of /\ was = requests[c].was OBVIOUS
  <2>2. /\ view' = RenderTurn(view, t, was)
        /\ reverted' = IF view.shown[t] \in Ended THEN reverted \cup {t} ELSE reverted
    BY <1>7, <2>1 DEF Failed
  <2>3. t \in DOMAIN turns /\ was \in Status \ Ended
    BY <1>7, <2>1 DEF RequestInvariant, Requests, Request
  <2>4. t \in Turns BY <2>3, PageDomains
  <2>5. /\ view' \in View /\ Closed(view') /\ view'.cards = view.cards
        /\ view'.shown = [view.shown EXCEPT ![t] = was]
    BY <1>v, <2>2, <2>3, <2>4, RenderTurnFacts DEF Shown
  <2>6. TurnsShown'
    <3> SUFFICES ASSUME NEW x \in Turns PROVE TurnShown(x)' BY DEF TurnsShown, Turns
    <3>1. TurnShown(x) BY DEF TurnsShown
    <3>2. (Told(x, seq)' <=> Told(x, seq)) /\ (Over(x, seq)' <=> Over(x, seq))
      BY <1>1, <1>5, ToldStays
    <3>3. view.shown \in [Turns -> Shown] BY <1>v DEF View
    <3>4. CASE x = t
      <4>1. view'.shown[t] = was BY <2>4, <2>5, <3>3
      <4>2. was \notin Ended \cup {"none"} /\ was # "cancel_requested"
        BY <2>3 DEF Status, Ended
      <4>3. view.shown[t] # "none"
        <5>1. Awaits(c, t) BY <1>1, <1>7, <2>1 DEF Awaits
        <5> QED BY <3>1, <3>4, <5>1 DEF TurnShown
      <4>4. Told(t, seq) BY <3>1, <3>4, <4>3 DEF TurnShown
      <4>5. Over(t, seq) => t \in reverted' BY <2>2, <3>1, <3>4, <4>3 DEF TurnShown
      <4> QED BY <3>2, <3>4, <4>1, <4>2, <4>4, <4>5 DEF TurnShown
    <3>5. CASE x # t
      <4>1. view'.shown[x] = view.shown[x] BY <2>5, <3>3, <3>5
      <4>2. \A d \in Click : Awaits(d, x)' <=> Awaits(d, x)
        <5>1. ~Awaits(c, x) BY <2>1, <3>5 DEF Awaits
        <5> QED BY <1>5, <5>1
      <4>3. turns'[x].status = turns[x].status /\ (x \in reverted' <=> x \in reverted)
        BY <1>1, <2>2, <3>5
      <4> QED BY <3>1, <3>2, <4>1, <4>2, <4>3 DEF TurnShown
    <3> QED BY <3>4, <3>5
  <2>7. CardsShown' BY <1>1, <2>5, CardsStay
  <2>8. ViewInvariant' BY <1>1, <2>5 DEF ViewInvariant, View, Turns, Closed
  <2> QED BY <1>2, <1>5, <2>6, <2>7, <2>8
<1> QED BY <1>6, <1>7

----------------------------------------------------------------------------
(* The page shows the room *)

LEMMA InitPage == Init => PageInvariant
<1> SUFFICES ASSUME Init PROVE PageInvariant OBVIOUS
<1>1. DraftInvariant BY InitInvariant
<1>2. /\ turns = <<>> /\ memories = <<>> /\ log = <<>> /\ receipts = [c \in Click |-> 0]
      /\ requests = [c \in Click |-> NoRequest] /\ seq = 0 /\ view = EmptyView /\ load = NoLoad
      /\ composer = [draft |-> 1, pending |-> NoSubmission, busy |-> FALSE]
      /\ retry = {} /\ reverted = {} /\ stale = {}
  BY DEF Init, ServerInit
<1>3. DOMAIN turns = {} /\ DOMAIN memories = {} /\ Len(turns) = 0 /\ Len(log) = 0 BY <1>2
<1>4. \A S : <<>> \in Seq(S) OBVIOUS
<1>5. RoomType BY <1>2, <1>3, <1>4, RoomAssumption DEF RoomType
<1>6. LogInvariant BY <1>3, <1>5 DEF LogInvariant, TurnsLogged, MemoriesLogged
<1>7. RequestInvariant
  <2>1. \A c \in Click : requests[c] = NoRequest /\ receipts[c] = 0 BY <1>2
  <2>2. Requests BY <2>1 DEF Requests, Request, NoRequest
  <2>3. composer.pending.draft # composer.draft BY <1>2 DEF NoSubmission
  <2>4. KeptIds BY <1>2, <2>3 DEF KeptIds
  <2> QED BY <2>2, <2>4 DEF RequestInvariant
<1>8. EmptyView \in View /\ Closed(EmptyView) BY DEF EmptyView, View, Shown, Closed, Ended
<1>9. ViewInvariant BY <1>2, <1>3, <1>8 DEF ViewInvariant
<1>10. TurnsShown
  <2>1. \A t \in Turns : view.shown[t] = "none" BY <1>2 DEF EmptyView
  <2>2. \A t : ~Told(t, seq) /\ ~Over(t, seq) BY <1>2 DEF Told, Over
  <2>3. \A c \in Click : \A t : ~Awaits(c, t) BY <1>2 DEF Awaits, NoRequest
  <2> QED BY <2>1, <2>2, <2>3 DEF TurnsShown, TurnShown
<1>11. CardsShown
  <2>1. load \in LoadState /\ load.from = 0 /\ load.got = {} BY <1>2 DEF NoLoad, LoadState
  <2>2. view.cards = {} /\ InForce = {} BY <1>2, <1>3 DEF EmptyView, InForce
  <2> QED BY <1>2, <2>1, <2>2 DEF CardsShown
<1> QED BY <1>1, <1>6, <1>7, <1>9, <1>10, <1>11 DEF PageInvariant

LEMMA PageKeeps == PageInvariant /\ [Next]_vars => PageInvariant'
<1> SUFFICES ASSUME PageInvariant, [Next]_vars PROVE PageInvariant' OBVIOUS
<1>1. CASE ServerStep BY <1>1, ServerPage
<1>2. CASE Open BY <1>2, OpenPage
<1>3. CASE ReadPage \/ ApplyPages \/ LoadFails BY <1>3, ReadingPage
<1>4. CASE Receive BY <1>4, ReceiveEvent
<1>5. CASE Flush \/ EditDraft \/ \E t \in DOMAIN turns : Delta(t) \/ ToolProgress(t)
  BY <1>5, StreamStep
<1>6. ASSUME NEW c \in Click,
             \/ SubmitMessage(c) \/ RetractRecord(c) \/ Answered(c) \/ Failed(c)
             \/ \E t \in Turns : CancelTurn(c, t)
             \/ \E content \in Content : SubmitMemory(c, content)
      PROVE  PageInvariant'
  BY <1>6, SubmitPage, MemoryPage, AnsweredPage, FailedPage, CancelPage
<1>7. CASE UNCHANGED vars
  <2>1. /\ UNCHANGED <<serverVars, requests, seq, view, load, composer, retry, loads, reverted, stale>>
        /\ UNCHANGED <<turns, memories, log>>
    BY <1>7 DEF vars, pageVars, serverVars
  <2>2. DraftInvariant' BY <1>7, InvariantStep DEF PageInvariant
  <2>3. /\ LogInvariant' /\ Grows /\ RequestInvariant'
        /\ \A c \in Click : \A t : Awaits(c, t)' <=> Awaits(c, t)
    BY <2>1, NothingHappens
  <2>4. ViewInvariant' BY <2>1 DEF PageInvariant, ViewInvariant, View, Turns, Closed
  <2>5. TurnsShown' BY <2>1, <2>3, TurnsStay
  <2>6. CardsShown' BY <2>1, CardsStay
  <2> QED BY <2>2, <2>3, <2>4, <2>5, <2>6 DEF PageInvariant
<1> QED BY <1>1, <1>2, <1>3, <1>4, <1>5, <1>6, <1>7 DEF Next

\* The invariant behind what the page shows: the log tells of every Turn and record there
\* is, a command that ran has left its effect with its receipt, and each card follows the
\* events up to the page's place in the log, an answer, or a guess that awaits its answer
\* (acceptEnvelope, renderTurn, upsertMemory and the submit handlers of web/app.ts).
THEOREM PageInvariance == Spec => []PageInvariant
BY InitPage, PageKeeps, PTL DEF Spec

\* A late delta opens no second card beside the answer of its Turn, and none that comes
\* after the end of its Turn is kept to be shown (closedStreamKeys in web/app.ts).
THEOREM StreamsNeverBesideAnswers == Spec => []NoStreamBesideAnswer
<1>1. PageInvariant => NoStreamBesideAnswer
  BY DEF PageInvariant, ViewInvariant, Closed, NoStreamBesideAnswer
<1> QED BY <1>1, PageInvariance, PTL

\* A page at rest shows the room's Turns as they are, but for the ended ones that a failed
\* cancellation has set back (renderTurn and the cancel button of web/app.ts).
THEOREM TurnsAlwaysCurrent == Spec => []TurnsAreCurrent
<1>1. PageInvariant => TurnsAreCurrent
  <2> SUFFICES ASSUME PageInvariant, Quiet
               PROVE  \A t \in DOMAIN turns :
                        /\ t \in Live => view.shown[t] \notin Ended \cup {"none"}
                        /\ t \notin Live \cup reverted => view.shown[t] \in Ended \cup {"none"}
                        /\ t \notin reverted /\ view.shown[t] = "cancel_requested" =>
                             turns[t].status = "cancelling"
    BY DEF TurnsAreCurrent, Live
  <2> TAKE t \in DOMAIN turns
  <2>1. t \in Turns /\ TurnShown(t) BY PageDomains DEF PageInvariant, TurnsShown
  <2>2. Told(t, seq) /\ (turns[t].status \in Ended <=> Over(t, seq))
    <3>1. PICK len : len = Len(log) OBVIOUS
    <3>2. Told(t, len) /\ (turns[t].status \in Ended <=> Over(t, len))
      BY <3>1 DEF PageInvariant, LogInvariant, TurnsLogged
    <3> QED BY <3>1, <3>2 DEF Quiet
  <2>3. \A c \in Click : ~Awaits(c, t) BY DEF Quiet, Awaits
  <2>4. "cancel_requested" \notin Ended \cup {"none"} BY DEF Ended
  <2> QED BY <2>1, <2>2, <2>3, <2>4 DEF TurnShown, Live, Cancelling
<1> QED BY <1>1, PageInvariance, PTL

\* A page at rest shows the records in force and no other, but for what a reading that
\* failed or was shifted has missed and for records that came late with an answer
\* (loadAllMemories and upsertMemory of web/app.ts).
THEOREM CardsAlwaysCurrent == Spec => []CardsAreCurrent
<1>1. PageInvariant => CardsAreCurrent
  <2> SUFFICES ASSUME PageInvariant, Quiet, load.pc \in {"done", "failed"}
               PROVE  InForce \subseteq view.cards \cup MayMiss /\ view.cards \subseteq InForce \cup stale
    BY DEF CardsAreCurrent
  <2>d. seq \in Nat /\ load.from \in Nat /\ InForce \subseteq DOMAIN memories BY PageDomains
  <2>q. PICK len : len = Len(log) /\ seq = len BY DEF Quiet
  <2>1. ASSUME NEW m \in InForce PROVE m \in view.cards \cup MayMiss
    <3>1. PICK i \in 1..seq : Creates(i, m)
      BY <2>d, <2>q DEF PageInvariant, LogInvariant, MemoriesLogged
    <3>2. HasCard(m, i) BY <3>1 DEF PageInvariant, CardsShown
    <3>3. CASE i > load.from BY <3>2, <3>3 DEF HasCard
    <3>4. CASE ~(i > load.from) /\ load.pc = "done" /\ ~load.shifted BY <3>2, <3>4 DEF HasCard
    <3>5. CASE ~(i > load.from) /\ (load.shifted \/ load.pc = "failed")
      <4>1. i \in 1..load.from BY <2>d, <3>5
      <4>2. log[i].kind = "memory" /\ log[i].of = m BY <3>1 DEF Creates
      <4> QED BY <3>5, <4>1, <4>2 DEF MayMiss
    <3> QED BY <3>3, <3>4, <3>5
  <2>2. ASSUME NEW m \in view.cards PROVE m \in InForce \cup stale
    <3>1. m \in DOMAIN memories /\ (Gone(m, len) => m \in stale)
      BY <2>q DEF PageInvariant, CardsShown
    <3>2. memories[m].status = "active" <=> ~Gone(m, len)
      BY <2>q, <3>1 DEF PageInvariant, LogInvariant, MemoriesLogged
    <3> QED BY <3>1, <3>2 DEF InForce
  <2> QED BY <2>1, <2>2
<1> QED BY <1>1, PageInvariance, PTL
=============================================================================
