--------------------------- MODULE MCAuthStorage ---------------------------
(* Instances of AuthStorage for TLC. *)
EXTENDS AuthHistory, TLC

CONSTANTS p1, p2, k1, k2

\* One session begins its search at the first credential, the other at the second.
MCHash == (p1 :> 0) @@ (p2 :> 1)

\* Keys are interchangeable.
MCSymmetry == Permutations(Keys)
=============================================================================
