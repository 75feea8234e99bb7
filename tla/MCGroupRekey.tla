---------------------------- MODULE MCGroupRekey ----------------------------
(* TLC instance of GroupRekey. *)
EXTENDS GroupRekey
=============================================================================
