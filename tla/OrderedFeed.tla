---------------------------- MODULE OrderedFeed ----------------------------
(***************************************************************************)
(* What a reader of a room is promised: it holds a prefix of the durable   *)
(* events, gets the next one or a snapshot of all there are, and never     *)
(* loses one it has.                                                       *)
(***************************************************************************)
EXTENDS Naturals

VARIABLES
    high,       \* events of the room
    received    \* events the reader has

Init == high \in Nat /\ received = 0

Append == high' = high + 1 /\ UNCHANGED received

Deliver == received < high /\ received' = received + 1 /\ UNCHANGED high

Snapshot == received' = high /\ UNCHANGED high

Next == Append \/ Deliver \/ Snapshot

Spec == Init /\ [][Next]_<<high, received>>
============================================================================
