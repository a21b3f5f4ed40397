--------------------------- MODULE MCPacketTunnel ---------------------------
(* A small instance of PacketTunnel for TLC.                               *)
EXTENDS PacketTunnel
=============================================================================
