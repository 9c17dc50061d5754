--------------------------- MODULE MCJobLifecycle ---------------------------
(* TLC instances of JobLifecycle: a few interchangeable job ids.           *)
EXTENDS JobLifecycle, TLC

Symmetry == Permutations(Jobs)
=============================================================================
