---------------------------- MODULE MCNativeAgents ----------------------------
(* Two prompts to one process, one misbehaviour of the CLI, a frame in flight. *)
EXTENDS NativeAgents
=============================================================================
