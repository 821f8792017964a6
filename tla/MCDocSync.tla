------------------------------ MODULE MCDocSync ------------------------------
(* DocSync on small instances. *)
EXTENDS DocSync

CONSTANTS r1, r2, c1, c2, p1, w1, w2

=============================================================================
