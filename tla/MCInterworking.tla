--------------------------- MODULE MCInterworking ---------------------------
(***************************************************************************)
(* Instances of Interworking for TLC.                                      *)
(***************************************************************************)
EXTENDS Interworking

\* home: a configured network without Interworking; spot: a hotspot that
\* passes all filters; paid: one that does not; dark: one with a hidden SSID.
CONSTANTS home, spot, paid, dark
=============================================================================
