---------------------------- MODULE MCCardDisplay ----------------------------
(* CardDisplay on a small instance. *)
EXTENDS CardDisplay, TLC

CONSTANTS d1, r1, r2, p1, c1

\* Requests are only ever compared for equality.
Symmetry == Permutations(Request)
=============================================================================
