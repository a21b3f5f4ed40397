--------------------------- MODULE TunnelContract ---------------------------
(***************************************************************************)
(* What the system may rely on when it starts and stops a packet tunnel    *)
(* provider, whatever happens inside the process: a start is answered at   *)
(* most once, with success or an error; a stop is asked for only after a   *)
(* start and is answered at most once, only by a tunnel that was reported  *)
(* as started; a process that ended says nothing more.                     *)
(***************************************************************************)
VARIABLES
    alive,  \* the provider's process exists
    start,  \* the start call and its answer
    stop    \* the stop call and its answer

vars == <<alive, start, stop>>

Init == alive = TRUE /\ start = "unset" /\ stop = "unset"

AskStart ==
    /\ alive /\ start = "unset"
    /\ start' = "pending"
    /\ UNCHANGED <<alive, stop>>

(* A provider that cannot even begin answers and ends.                     *)
RefuseStart ==
    /\ alive /\ start = "unset"
    /\ start' = "error"
    /\ alive' = FALSE
    /\ UNCHANGED stop

AnswerStart ==
    /\ alive /\ start = "pending"
    /\ start' \in {"ok", "error"}
    /\ UNCHANGED <<alive, stop>>

AskStop ==
    /\ alive /\ start # "unset" /\ stop = "unset"
    /\ stop' = "pending"
    /\ UNCHANGED <<alive, start>>

AnswerStop ==
    /\ alive /\ start = "ok" /\ stop = "pending"
    /\ stop' = "called"
    /\ UNCHANGED <<alive, start>>

End ==
    /\ alive
    /\ alive' = FALSE
    /\ UNCHANGED <<start, stop>>

Next == AskStart \/ RefuseStart \/ AnswerStart \/ AskStop \/ AnswerStop \/ End

Spec == Init /\ [][Next]_vars
=============================================================================
