-------------------------- MODULE MCGoNegotiation --------------------------
(* Instances of GoNegotiation: devices whose users have different          *)
(* preferences, and devices whose users leave it to the tie breaker.       *)
EXTENDS GoNegotiation

DecidedIntents == {<<7, 12>>, <<12, 7>>}
EqualIntents == {<<7, 7>>}
=============================================================================
