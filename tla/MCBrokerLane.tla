---------------------------- MODULE MCBrokerLane ----------------------------
(* BrokerLane for two Turns of one agent: one the pump works on, one behind it. *)
EXTENDS BrokerLane
============================================================================
