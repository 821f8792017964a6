-------------------------- MODULE MCDraftLifecycle --------------------------
(* DraftLifecycle on small instances. *)
EXTENDS DraftLifecycle, TLC

CONSTANTS d1, d2, d3, r1, r2, r3, p1, p2

\* Drafts, requests and paths are only ever compared for equality.
Symmetry == Permutations(Draft) \cup Permutations(Request) \cup Permutations(Path)
=============================================================================
