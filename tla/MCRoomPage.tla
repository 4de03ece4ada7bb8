---------------------------- MODULE MCRoomPage ----------------------------
(* Small instances of RoomPage. *)
EXTENDS RoomPage

\* The bound that keeps the instance small: a behaviour is about Turns or about memories,
\* which share nothing on the page but the order of the events.  Where there are no
\* memories their reading stays under way.
OneTopic ==
    \/ /\ memories = <<>> /\ load.pc \in {"none", "reads"}
       /\ \A c \in Click : requests[c].kind \in {"none", "message", "cancel"}
    \/ turns = <<>> /\ \A c \in Click : requests[c].kind \notin {"message", "cancel"}

\* The agent streams the text of the first Turn only.
OneStream == view.streams \cup view.buckets \subseteq {1}

\* What happens in one behaviour, all told.
CONSTANT MaxEffort
Effort ==
    Len(turns) + Len(memories) + loads + Cardinality({c \in Click : requests[c] # NoRequest})
WithinEffort == Effort <= MaxEffort
=============================================================================
