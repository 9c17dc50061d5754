--------------------------- MODULE MCResearchRuns ---------------------------
(* Small instances of ResearchRuns for TLC: calls are interchangeable.     *)
EXTENDS ResearchRuns, TLC

Symmetry == Permutations(Runs)
=============================================================================
