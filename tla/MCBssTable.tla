----------------------------- MODULE MCBssTable -----------------------------
(***************************************************************************)
(* Instances of BssTable for TLC.                                          *)
(***************************************************************************)
EXTENDS BssTable, TLC

CONSTANTS ap1, ap2, home, hidden, m1, m2, m3

\* An access point that is also seen with an empty SSID, and another one.
Seen == {<<ap1, home>>, <<ap1, hidden>>, <<ap2, home>>}

\* The addresses are interchangeable.
Memory == Permutations(Addr)
=============================================================================
