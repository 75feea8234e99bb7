----------------------------- MODULE MCGasQuery -----------------------------
(***************************************************************************)
(* Instances of GasQuery for TLC.  Query and Peer are sets of model        *)
(* values; the dialog tokens and the fragment identifiers are few, so that *)
(* tokens run out and are reused and next_frag_id passes its last valid    *)
(* value.                                                                  *)
(***************************************************************************)
EXTENDS GasQuery

CONSTANTS q1, q2, q3, ap1, ap2, anqp, other
=============================================================================
