--------------------------- MODULE MCSearchClient ---------------------------
(* Bounds of SearchClient for TLC.                                         *)
EXTENDS SearchClient
=============================================================================
