----------------------------- MODULE MCTcpRelay -----------------------------
(* The relay with the small buffers that the configurations give it.       *)
EXTENDS TcpRelay
=============================================================================
