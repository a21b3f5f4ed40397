---------------------------- MODULE PacketQueue ----------------------------
(***************************************************************************)
(* What the pipe between the packet flow and tun2socks is for: every TCP   *)
(* packet of the flow reaches lwIP once, whole and in order, until the     *)
(* receiver ends.                                                          *)
(***************************************************************************)
EXTENDS Naturals, Sequences

CONSTANT Packets

VARIABLES
    sent,   \* packets handed over, in order
    got,    \* packets received
    ended   \* the receiver may stop from now on

vars == <<sent, got, ended>>

Init == sent = <<>> /\ got = <<>> /\ ended = FALSE

Put(p) == sent' = Append(sent, p) /\ UNCHANGED <<got, ended>>

Get ==
    /\ Len(got) < Len(sent)
    /\ got' = Append(got, sent[Len(got) + 1])
    /\ UNCHANGED <<sent, ended>>

Stop == ended' = TRUE /\ UNCHANGED <<sent, got>>

Next == (\E p \in Packets : Put(p)) \/ Get \/ Stop

SafeSpec == Init /\ [][Next]_vars

Spec == SafeSpec /\ WF_vars(~ended /\ Get)
=============================================================================
