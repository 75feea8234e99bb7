---------------------------- MODULE MCOffchannel ----------------------------
(* Instance of Offchannel: a GAS client with one access point, a Wi-Fi     *)
(* Direct client with one peer, two channels.                              *)
EXTENDS Offchannel

MCDst == [c \in Clients |-> IF c = "gas" THEN {"ap"} ELSE {"peer"}]
=============================================================================
