------------------------------ MODULE MCAppVpn ------------------------------
(* An instance of AppVpn for TLC.                                          *)
EXTENDS AppVpn

(* Its bounds: others act on the tunnel of an app that knows its group,    *)
(* and while there are blocks on the global queue, either nothing fails or *)
(* the switch is not turned on.                                            *)
FirstLaunch ==
    /\ known \/ alone
    /\ calm \/ ~pac \/ (known /\ \A j \in Jobs : job[j] = Idle)
=============================================================================
