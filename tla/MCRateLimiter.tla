---------------------------- MODULE MCRateLimiter ----------------------------
(* A small RateLimiter for TLC: a label has one point more than the others.*)
EXTENDS RateLimiter, TLC

CONSTANT Points

LabelsHaveMore == [l \in Callers |-> IF l \in Labels THEN Points + 1 ELSE Points]

Symmetry == Permutations(Labels) \cup Permutations(Addresses)
=============================================================================
