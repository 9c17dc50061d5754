---------------------------- MODULE MCJobStream -----------------------------
(* Bounds of JobStream for TLC: readers are interchangeable.               *)
EXTENDS JobStream, TLC

Symmetry == Permutations(Readers)
=============================================================================
