---------------------------- MODULE MCRequestLog ----------------------------
(* Instances of RequestLog for TLC.                                        *)
EXTENDS RequestLog, TLC

(* Addresses are interchangeable; no liveness is checked.                  *)
CspSymmetry == Permutations(Csps)

=============================================================================
