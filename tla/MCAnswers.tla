------------------------------ MODULE MCAnswers ------------------------------
(* Bounds of Answers for TLC.                                               *)
EXTENDS Answers
=============================================================================
