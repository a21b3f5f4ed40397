----------------------------- MODULE MCUdpRelay -----------------------------
(* Instances of UdpRelay for TLC.                                          *)
EXTENDS UdpRelay, TLC

Symmetry == Permutations(Locals) \cup Permutations(Remotes)
=============================================================================
