---------------------------- MODULE MCPacketPipe ----------------------------
(* Instances of PacketPipe for TLC.                                        *)
EXTENDS PacketPipe

CONSTANTS p, q, r, u

(* Three TCP packets of different sizes and one of UDP.                    *)
MCPackets == {p, q, r, u}
MCTcp     == {p, q, r}
MCSize    == [x \in MCPackets |-> CASE x = p -> 1 [] x = q -> 2 [] x = r -> 4 [] x = u -> 1]
=============================================================================
