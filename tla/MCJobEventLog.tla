--------------------------- MODULE MCJobEventLog ----------------------------
(* JobEventLog for TLC; its bounds are constants of the module.            *)
EXTENDS JobEventLog
=============================================================================
