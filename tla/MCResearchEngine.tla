-------------------------- MODULE MCResearchEngine --------------------------
(* Bounds of ResearchEngine for TLC: pages are interchangeable.  The       *)
(* branches of the first level have two learnings each, the second dear.   *)
EXTENDS ResearchEngine, TLC

TwoAndOne == [p \in Branches |-> IF Len(p) = 1 THEN <<1, 2>> ELSE <<2>>]

Symmetry == Permutations(Urls)
=============================================================================
