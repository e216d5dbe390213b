-------------------------- MODULE MCSessionManager --------------------------
(* Instances of SessionManager for TLC. *)
EXTENDS SessionManager, TLC

CONSTANTS f1, f2, f3  \* files

\* Files are interchangeable.
Symmetry == Permutations(Files)
=============================================================================
