--------------------------- MODULE MCCategoryTree ---------------------------
(* CategoryTree on a small instance: two spellings of one name. *)
EXTENDS CategoryTree, TLC

CONSTANTS u1, u2, r1, r2, Work, work, api, space

MCLower == [n \in Name |-> IF n = Work THEN work ELSE n]

\* Two levels, four with another spelling and a path of blanks; the other user
\* has a category of the same path.
MCAsked ==
  [u \in User |-> IF u = u1 THEN {<<Work, api>>, <<work, space, api, api, api>>, <<space>>}
                            ELSE {<<work, api>>}]

MCDefault == <<work, work>>

Symmetry == Permutations(Request)
=============================================================================
