----------------------------- MODULE DatedMemory -----------------------------
(***************************************************************************)
(* The daily memory of one agent in one room: completed Turns are sources,  *)
(* a background engine folds them into one generated record, users edit     *)
(* and retract that record meanwhile.  One rollup row, its sources, its     *)
(* records and the engine that serves it.                                   *)
(***************************************************************************)
EXTENDS Naturals, FiniteSets, Sequences

CONSTANTS
    RollupAttempts,    \* generations tried before a failure is recorded
    MaxRollupFaults,   \* bound: failed generations
    MaxEdits           \* bound: edits and retractions by users

ASSUME DatedAssumption == {RollupAttempts, MaxRollupFaults, MaxEdits} \subseteq Nat

VARIABLES
    pending,       \* sources not yet processed: [source, response] sequence numbers
    head,          \* the record rollup.memory_id refers to: the sources folded into it and
                   \* the user edits it keeps
    timer,         \* a timer is set for this rollup
    flush,         \* the flight of flushNow
    datedOpen,     \* the engine is not closed
    noting,        \* a completion is committed, noteCompleted is still to come
    edits, rollupFaults,
    completed,     \* history: every source registered
    blank,         \* history: sources found to hold nothing worth keeping
    retracted,     \* history: sources whose record a user retracted
    edited,        \* history: edits made to the head since it was first written
    overlooked     \* history: a flight or a timer ended that should have been followed

storeVars == <<pending, head, completed, blank, retracted, edited, overlooked>>
engineVars == <<timer, flush, datedOpen, noting>>
datedVars == <<storeVars, engineVars, edits, rollupFaults>>

NoMemory == [folds |-> {}, edits |-> {}]
NoFlush == [pc |-> "idle", expected |-> NoMemory, selected |-> {}, left |-> 0, more |-> FALSE]

DatedInit ==
    /\ pending = {} /\ head = NoMemory
    /\ timer = FALSE /\ flush = NoFlush /\ datedOpen = TRUE /\ noting = FALSE
    /\ edits = 0 /\ rollupFaults = 0
    /\ completed = {} /\ blank = {} /\ retracted = {} /\ edited = {} /\ overlooked = FALSE

Flushing == flush.pc # "idle"

----------------------------------------------------------------------------
(* Sources.                                                                *)

\* terminalize registers the source in the transaction that completes the Turn.
RegisterSource(x) ==
    /\ pending' = pending \cup {x}
    /\ completed' = completed \cup {x}
    /\ noting' = TRUE
    /\ UNCHANGED <<head, timer, flush, datedOpen, edits, rollupFaults, blank, retracted, edited, overlooked>>

\* After the terminal events are published; the rollup it carries had a source
\* pending, a flight may have taken it since.
NoteCompleted ==
    /\ noting
    /\ noting' = FALSE
    /\ timer' = (timer \/ datedOpen)
    /\ UNCHANGED <<storeVars, flush, datedOpen, edits, rollupFaults>>

----------------------------------------------------------------------------
(* Flushing.                                                               *)

\* The oldest sources that fit the input, at least one.
Batches(eligible) ==
    {S \in SUBSET eligible :
        S # {} /\ \A x \in S, y \in eligible : y.response < x.response => y \in S}

\* #flush up to its first await.
StartFlush(eligible) ==
    IF eligible = {}
    THEN UNCHANGED flush
    ELSE \E batch \in Batches(eligible) :
            flush' = [pc |-> "generating", expected |-> head, selected |-> batch,
                      left |-> RollupAttempts, more |-> FALSE]

\* flushNow joins the flight there is, whatever that one was asked to flush: one
\* that is publishing has made up its mind whether another is needed.
TimerFires ==
    /\ timer /\ datedOpen
    /\ timer' = FALSE
    /\ IF Flushing THEN UNCHANGED flush ELSE StartFlush(pending)
    /\ overlooked' = (overlooked \/ (flush.pc = "publishing" /\ ~flush.more /\ pending # {}))
    /\ UNCHANGED <<pending, head, completed, blank, retracted, edited, datedOpen, noting, edits, rollupFaults>>

FlushBeforeCompaction(through) ==
    /\ IF Flushing \/ ~datedOpen
       THEN UNCHANGED flush
       ELSE StartFlush({x \in pending : x.source <= through \/ x.response <= through})
    /\ UNCHANGED <<storeVars, timer, datedOpen, noting, edits, rollupFaults>>

\* mutant: the commit does not compare the record that was read
CommitUnchecked == pending # {} /\ flush.selected \subseteq pending

\* The compare-and-sets of the commit: the record read is still the head and
\* no selected source was taken.
CommitApplies == pending # {} /\ head = flush.expected /\ flush.selected \subseteq pending

\* commitAgentDatedMemoryRollup of a generated text: it replaces the head.
CommitText ==
    /\ CommitApplies
    /\ head' = [folds |-> flush.expected.folds \cup flush.selected, edits |-> flush.expected.edits]
    /\ pending' = pending \ flush.selected
    /\ flush' = [flush EXCEPT !.pc = "publishing", !.more = pending' # {}]
    /\ UNCHANGED <<timer, datedOpen, noting, edits, rollupFaults, completed, blank, retracted, edited, overlooked>>

\* The generator found nothing of lasting value: only the checkpoint moves.
CommitBlank ==
    /\ CommitApplies
    /\ pending' = pending \ flush.selected
    /\ blank' = blank \cup flush.selected
    /\ flush' = NoFlush
    /\ timer' = (timer \/ (pending' # {} /\ datedOpen))
    /\ UNCHANGED <<head, datedOpen, noting, edits, rollupFaults, completed, retracted, edited, overlooked>>

\* A user moved the head meanwhile: reschedule against the fresh one.
CommitConflicts ==
    /\ ~CommitApplies
    /\ flush' = NoFlush
    /\ timer' = (timer \/ (pending # {} /\ datedOpen))
    /\ UNCHANGED <<storeVars, datedOpen, noting, edits, rollupFaults>>

\* Only the owner of the memory summarizes it, in a session of its own.
OwnerIsAsked == flush.pc = "generating"

Generated == OwnerIsAsked /\ (CommitText \/ CommitBlank \/ CommitConflicts)

\* mutant: what was left behind is not scheduled again
PublishEndsForGood ==
    /\ flush.pc = "publishing"
    /\ flush' = NoFlush
    /\ UNCHANGED <<storeVars, timer, datedOpen, noting, edits, rollupFaults>>

PublishEnds ==
    /\ flush.pc = "publishing"
    /\ flush' = NoFlush
    /\ timer' = (timer \/ (flush.more /\ datedOpen))
    /\ UNCHANGED <<storeVars, datedOpen, noting, edits, rollupFaults>>

\* recordAgentDatedMemoryRollupFailure backs off and schedules, if the head is
\* still the one that was read; else the engine only reports.
RecordFailure ==
    /\ timer' = (timer \/ (datedOpen /\ pending # {} /\ head = flush.expected))
    /\ overlooked' = (overlooked \/ (pending # {} /\ head # flush.expected))

GenerationFails ==
    /\ OwnerIsAsked /\ datedOpen /\ rollupFaults < MaxRollupFaults
    /\ rollupFaults' = rollupFaults + 1
    /\ \/ /\ flush.left > 1    \* a failure worth another attempt
          /\ flush' = [flush EXCEPT !.pc = "retrying", !.left = @ - 1]
          /\ UNCHANGED <<timer, overlooked>>
       \/ /\ RecordFailure
          /\ flush' = NoFlush
    /\ UNCHANGED <<pending, head, completed, blank, retracted, edited, datedOpen, noting, edits>>

RetryRollup ==
    /\ flush.pc = "retrying" /\ datedOpen
    /\ flush' = [flush EXCEPT !.pc = "generating"]
    /\ UNCHANGED <<storeVars, timer, datedOpen, noting, edits, rollupFaults>>

RollupAborted ==
    /\ ~datedOpen /\ flush.pc \in {"generating", "retrying"}
    /\ flush' = NoFlush
    /\ UNCHANGED <<storeVars, timer, datedOpen, noting, edits, rollupFaults>>

----------------------------------------------------------------------------
(* Users.                                                                  *)

\* memory.supersede of the head by a user: the rollup follows the new record.
EditHead ==
    /\ head # NoMemory /\ edits < MaxEdits
    /\ edits' = edits + 1
    /\ head' = [head EXCEPT !.edits = @ \cup {edits'}]
    /\ edited' = edited \cup {edits'}
    /\ UNCHANGED <<pending, engineVars, rollupFaults, completed, blank, retracted, overlooked>>

\* memory.retract of the head.
RetractHead ==
    /\ head # NoMemory /\ edits < MaxEdits
    /\ edits' = edits + 1
    /\ retracted' = retracted \cup head.folds
    /\ head' = NoMemory
    /\ edited' = {}
    /\ UNCHANGED <<pending, engineVars, rollupFaults, completed, blank, overlooked>>

----------------------------------------------------------------------------
(* Shutdown and restart.                                                   *)

CloseDated ==
    /\ datedOpen' = FALSE /\ timer' = FALSE
    /\ UNCHANGED <<storeVars, flush, noting, edits, rollupFaults>>

\* recover reads the pending rollups back from the store.
RecoverDated ==
    /\ datedOpen' = TRUE /\ flush' = NoFlush /\ noting' = FALSE
    /\ timer' = (pending # {})
    /\ UNCHANGED <<storeVars, edits, rollupFaults>>

DatedReacts ==
    \/ NoteCompleted \/ TimerFires \/ Generated \/ PublishEnds \/ RetryRollup \/ RollupAborted

DatedNext == DatedReacts \/ GenerationFails \/ EditHead \/ RetractHead

----------------------------------------------------------------------------

DatedTypeOK ==
    /\ pending \subseteq completed
    /\ head.folds \subseteq completed
    /\ flush.pc \in {"idle", "generating", "retrying", "publishing"}
    /\ flush.selected \subseteq completed /\ flush.left \in 0..RollupAttempts
    /\ {timer, datedOpen, noting, overlooked} \subseteq BOOLEAN
    /\ edits \in 0..MaxEdits /\ rollupFaults \in 0..MaxRollupFaults

\* Every completed Turn is remembered in exactly one way: it waits, was found
\* to hold nothing, is in the record of the day, or was in one a user
\* retracted.  And no generated record loses what a user wrote into the one it
\* replaces: the generator worked from that very record.  Flights, edits,
\* retractions, forced flushes and restarts may fall in any order.
FoldedOnce ==
    /\ \A x \in completed :
        Cardinality({w \in {"pending", "blank", "head", "retracted"} :
            x \in CASE w = "pending" -> pending [] w = "blank" -> blank
                    [] w = "head" -> head.folds [] OTHER -> retracted}) = 1
    /\ head.edits = edited
=============================================================================
