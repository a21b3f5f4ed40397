-------------------------- MODULE MCSocksForwarder --------------------------
(* Instances of SocksForwarder for TLC.                                    *)
EXTENDS SocksForwarder
=============================================================================
