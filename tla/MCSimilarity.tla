---------------------------- MODULE MCSimilarity ----------------------------
(* Similarity on a small instance; bigrams are numbers. *)
EXTENDS Similarity, TLC

CONSTANTS i1, i2, d1, r1, r2, r3

\* By the rules the draft has 83 % of its bigrams in common with i1 and 50 %
\* with i2, the bare text 11 % and 33 %.
MCGrams == (d1 :> 1..5) @@ (NoDraft :> {2, 7, 8, 9})
             @@ (i1 :> 1..6) @@ (i2 :> {1, 2, 3, 7})

\* Any check may be of the draft, one also of the text.
MCAbout == [r \in Request |-> IF r = r1 THEN {d1, NoDraft} ELSE {d1}]

\* Equal scores, so the records of an answer come in any order.
MCVerdict == {[new |-> TRUE, score |-> 10], [new |-> FALSE, score |-> 90]}
=============================================================================
