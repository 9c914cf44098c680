---------------------------- MODULE MCTimedKeys -----------------------------
(* Instances of TimedKeys for TLC. *)
EXTENDS TimedKeys

MCProgs == {"keypeek", "keyget"}
MCPeek == {"keypeek"}
=============================================================================
