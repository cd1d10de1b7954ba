---------------------------- MODULE MCPacketRate ----------------------------
(* Model-checking instance of PacketRate.                                  *)
EXTENDS PacketRate
=============================================================================
