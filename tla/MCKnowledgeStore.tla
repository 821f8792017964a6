------------------------- MODULE MCKnowledgeStore -------------------------
(* KnowledgeStore on small instances. *)
EXTENDS KnowledgeStore, TLC

CONSTANTS r1, r2, r3, c1, c2, p1, p2

\* Requests are interchangeable, and so are texts and paths: the
\* specification only compares them for equality.
Symmetry == Permutations(Request) \cup Permutations(Content) \cup Permutations(Path)
=============================================================================
