---------------------------- MODULE MCRoomContext ----------------------------
(* Two agents, messages of two sizes and a packet of three units, four at most. *)
EXTENDS RoomContext
MCSize == <<2, 2, 1, 1>>
=============================================================================
