---------------------------- MODULE MCWireMessage ----------------------------
(* The builds TLC takes: one of each byte order. *)
EXTENDS WireMessage

MCHosts == {Host("little", "builtin"), Host("big", "slow")}
=============================================================================
