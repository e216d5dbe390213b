------------------------- MODULE MCTurnOrchestrator -------------------------
(* Instances of TurnOrchestrator for TLC. *)
EXTENDS TurnOrchestrator

CONSTANTS t1, t2, t3  \* turns
=============================================================================
