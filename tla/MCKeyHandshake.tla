--------------------------- MODULE MCKeyHandshake ---------------------------
(* TLC instance of KeyHandshake. *)
EXTENDS KeyHandshake
=============================================================================
