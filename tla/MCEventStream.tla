--------------------------- MODULE MCEventStream ---------------------------
(* Constants of the run of EventStream are in MCEventStream.cfg. *)
EXTENDS EventStream
============================================================================
