---------------------------- MODULE RelayContract ----------------------------
(***************************************************************************)
(* What the TCP relay of tun2socks promises to the two programs it joins:  *)
(* the client, whose connection ends in lwIP, and the SOCKS server.  Bytes *)
(* are numbered in the order their sender writes them.  The relay hands    *)
(* each side a prefix of what the other side gave it, and it ends a        *)
(* connection of its own accord only when nothing is left to hand over.    *)
(***************************************************************************)
EXTENDS Naturals, Sequences

VARIABLES
    upIn,     \* bytes taken from the client
    upOut,    \* bytes handed to the SOCKS server
    downIn,   \* bytes taken from the SOCKS server
    downOut,  \* bytes the client has acknowledged
    client,   \* "none", "open", "lost" (peer, network, exit), "closed" (by the relay)
    socks     \* the same for the SOCKS connection

vars == <<upIn, upOut, downIn, downOut, client, socks>>

Numbers(n) == [i \in 1 .. n |-> i]

Init == /\ upIn = 0 /\ upOut = <<>> /\ downIn = 0 /\ downOut = <<>>
        /\ client = "none" /\ socks = "none"

Connect == /\ client = "none"
           /\ client' \in {"open", "closed"}
           /\ socks' = IF client' = "open" THEN "open" ELSE "none"
           /\ UNCHANGED <<upIn, upOut, downIn, downOut>>

(* Bytes move towards the SOCKS server only while it is there, in order.   *)
Up == /\ client # "none"
      /\ upIn' \in Nat /\ upIn' >= upIn
      /\ upIn' > upIn => client = "open" /\ socks = "open"
      /\ \E m \in Len(upOut) .. upIn' : upOut' = Numbers(m)
      /\ upOut' # upOut => socks = "open"

(* Bytes move towards the client only while it is there, in order.         *)
Down == /\ client # "none"
        /\ downIn' \in Nat /\ downIn' >= downIn
        /\ downIn' > downIn => socks = "open" /\ client = "open"
        /\ \E m \in Len(downOut) .. downIn' : downOut' = Numbers(m)
        /\ downOut' # downOut => client = "open"

(* The relay may close the client once the SOCKS side is over and every    *)
(* byte it gave has been acknowledged, and release the SOCKS side once the *)
(* client is over and every byte it gave has been handed on.               *)
Ends == /\ client' = client \/ /\ client = "open"
                               /\ \/ client' = "lost"
                                  \/ /\ client' = "closed"
                                     /\ socks' \in {"lost", "closed"}
                                     /\ Len(downOut') = downIn'
        /\ socks' = socks \/ /\ socks = "open"
                             /\ \/ socks' = "lost"
                                \/ /\ socks' = "closed"
                                   /\ client' = "lost"
                                   /\ Len(upOut') = upIn'

Next == Connect \/ (Up /\ Down /\ Ends)

Spec == Init /\ [][Next]_vars
=============================================================================
