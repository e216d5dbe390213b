---------------------------- MODULE MCPaneProcess ----------------------------
(* Instances of PaneProcess, with its history, for TLC. *)
EXTENDS PaneHistory

CONSTANTS p1, p2, p3, p4, p5,  \* processes
          r1, r2,              \* restarts
          d1                   \* destruction of the pane
=============================================================================
