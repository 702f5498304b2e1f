------------------------------ MODULE MCTPool -------------------------------
(***************************************************************************)
(* How many jobs the posters of each run post.                             *)
(***************************************************************************)
EXTENDS TPool

CONSTANTS p1, p2

TwoAndOne == [p \in {p1, p2} |-> IF p = p1 THEN 2 ELSE 1]
Three     == [p \in {p1} |-> 3]
=============================================================================
