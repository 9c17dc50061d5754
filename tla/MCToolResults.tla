---------------------------- MODULE MCToolResults ----------------------------
(* Bounds of ToolResults for TLC: a page without text, one that fits and one *)
(* that does not, and a ceiling that two pages' minimum exceeds.             *)
EXTENDS ToolResults
=============================================================================
