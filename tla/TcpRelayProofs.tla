--------------------------- MODULE TcpRelayProofs ---------------------------
(* What TcpRelay's runs check on small buffers, for buffers of every size  *)
(* and any number of bytes.                                                *)
EXTENDS TcpRelay, SequenceTheorems, TLAPS

(* The n bytes after `from`.                                               *)
LEMMA BytesFacts ==
    ASSUME NEW from \in Nat, NEW n \in Nat
    PROVE  /\ Bytes(from, n) \in Seq(Nat) /\ Len(Bytes(from, n)) = n
           /\ Follows(Bytes(from, n), from)
BY IsASeq DEF Bytes, Follows

(* Bytes that follow on from one another stay so when they are joined ...  *)
LEMMA JoinFacts ==
    ASSUME NEW s \in Seq(Nat), NEW t \in Seq(Nat), NEW n \in Nat,
           Follows(s, n), Follows(t, n + Len(s))
    PROVE  /\ s \o t \in Seq(Nat) /\ Len(s \o t) = Len(s) + Len(t)
           /\ Follows(s \o t, n)
<1>1. Len(s) \in Nat /\ Len(t) \in Nat
    OBVIOUS
<1>2. /\ s \o t \in Seq(Nat) /\ Len(s \o t) = Len(s) + Len(t)
      /\ \A i \in 1 .. Len(s) + Len(t) :
            (s \o t)[i] = IF i <= Len(s) THEN s[i] ELSE t[i - Len(s)]
    BY ConcatProperties
<1>3. ASSUME NEW i \in 1 .. Len(s \o t) PROVE (s \o t)[i] = n + i
    <2>1. CASE i <= Len(s)
        BY <1>1, <1>2, <2>1 DEF Follows
    <2>2. CASE i > Len(s)
        <3>1. i - Len(s) \in 1 .. Len(t) /\ (s \o t)[i] = t[i - Len(s)]
            BY <1>1, <1>2, <2>2
        <3>2. t[i - Len(s)] = n + Len(s) + (i - Len(s))
            BY <3>1 DEF Follows
        <3> QED BY <1>1, <1>2, <3>1, <3>2
    <2> QED BY <1>1, <1>2, <2>1, <2>2
<1> QED BY <1>2, <1>3 DEF Follows

(* ... and when they are taken apart: the bytes from a to b of s.          *)
LEMMA PartFacts ==
    ASSUME NEW s \in Seq(Nat), NEW n \in Nat, Follows(s, n),
           NEW a \in Nat \ {0}, NEW b \in Nat, b <= Len(s), a <= b + 1
    PROVE  /\ SubSeq(s, a, b) \in Seq(Nat) /\ Len(SubSeq(s, a, b)) = b - a + 1
           /\ Follows(SubSeq(s, a, b), n + a - 1)
<1>1. \A i \in a .. b : s[i] \in Nat
    BY ElementOfSeq
<1>2. /\ SubSeq(s, a, b) \in Seq(Nat) /\ Len(SubSeq(s, a, b)) = b - a + 1
      /\ \A i \in 1 .. b - a + 1 : SubSeq(s, a, b)[i] = s[a + i - 1]
    BY <1>1, SubSeqProperties
<1>3. ASSUME NEW i \in 1 .. b - a + 1 PROVE SubSeq(s, a, b)[i] = (n + a - 1) + i
    <2>1. a + i - 1 \in 1 .. Len(s)
        OBVIOUS
    <2>2. s[a + i - 1] = n + (a + i - 1)
        BY <2>1 DEF Follows
    <2> QED BY <1>2, <2>2
<1> QED BY <1>2, <1>3 DEF Follows

LEMMA EmptyFacts == <<>> \in Seq(Nat) /\ Len(<<>>) = 0
    OBVIOUS

LEMMA NonEmpty == \A s \in Seq(Nat) : Len(s) \in Nat /\ (s = <<>> <=> Len(s) = 0)
    BY EmptySeq

(* Every run starts in the invariant.                                      *)
LEMMA RelayInit == Init => RelayInv
<1> SUFFICES ASSUME Init PROVE RelayInv
    OBVIOUS
<1>1. UpInOrder /\ DownInOrder
    <2>1. SubSeq(<<>>, 1, 0) = <<>>
        BY SubSeqEmpty
    <2> QED BY <2>1, EmptyFacts DEF Init, UpInOrder, DownInOrder, Follows
<1>2. /\ TypeOK /\ SendGoing /\ ReceiveGoing /\ WillBeSent /\ WindowFits
      /\ CallbacksMatch /\ EndsMatch
    BY SizesAssumption, EmptyFacts
    DEF Init, TypeOK, SendGoing, ReceiveGoing, WillBeSent, WindowFits,
        CallbacksMatch, EndsMatch, Up
<1> QED BY <1>1, <1>2 DEF RelayInv

(* Nothing of the relay's data moves: only the ends change.                *)
LEMMA AcceptStep == RelayInv /\ (Accept \/ AcceptFails \/ Return) => RelayInv'
<1> SUFFICES ASSUME RelayInv, Accept \/ AcceptFails \/ Return PROVE RelayInv'
    OBVIOUS
<1>1. UpInOrder' /\ DownInOrder'
    BY DEF Accept, AcceptFails, Return, RelayInv, UpInOrder, DownInOrder,
           pcbVars, upVars, downVars
<1> USE SizesAssumption, EmptyFacts, NonEmpty
    DEF RelayInv, SendGoing, ReceiveGoing, WillBeSent, WindowFits,
        CallbacksMatch, EndsMatch, Up, endVars, pcbVars, upVars, downVars,
        jobVars, TypeOK
<1>2. CASE Accept BY <1>1, <1>2 DEF Accept
<1>3. CASE AcceptFails BY <1>1, <1>3 DEF AcceptFails
<1>4. CASE Return BY <1>1, <1>4 DEF Return
<1> QED BY <1>2, <1>3, <1>4

(* client_handle_freed_client: what it leaves is consistent, whatever the  *)
(* step does to the bytes on the way to the client, who is gone.           *)
LEMMA FreedClientStep ==
    ASSUME RelayInv, TypeOK', NEW p \in {"detached", "freed"},
           NEW why \in {"lost", "closed"}, HandleFreedClient(p, why),
           entry = "live", client = "open",
           UNCHANGED <<rcv_wnd, refused, buf, socks_up, cb>>,
           Len(flight') <= SndBuf,
           socks_up = 0 => flight' = <<>> /\ recv_buf' = <<>> /\ pending' = 0
    PROVE  /\ SendGoing' /\ ReceiveGoing' /\ WillBeSent' /\ WindowFits'
           /\ CallbacksMatch' /\ EndsMatch'
<1>1. /\ client' \in {"lost", "closed"} /\ pcb' = p /\ recv_cb' = "null"
      /\ dead' = IF cb = "none" THEN 0 ELSE 1
    BY DEF HandleFreedClient, Unhook, KillDead
<1>2. CASE buf # <<>> /\ socks = "open"
    <2>1. UNCHANGED <<entry, socks, send_len, receiving>>
        BY <1>2 DEF HandleFreedClient, jobVars
    <2> QED BY <1>1, <1>2, <2>1
            DEF RelayInv, SendGoing, ReceiveGoing, WillBeSent, WindowFits,
                CallbacksMatch, EndsMatch, Up
<1>3. CASE ~(buf # <<>> /\ socks = "open")
    <2>1. /\ entry' = "freed" /\ send_len' = 0 /\ receiving' = 0
          /\ socks' \in {"lost", "closed"}
        BY <1>3 DEF HandleFreedClient, RelayInv, EndsMatch, TypeOK
    <2> QED BY <1>1, <1>3, <2>1
            DEF RelayInv, SendGoing, ReceiveGoing, WillBeSent, WindowFits,
                CallbacksMatch, EndsMatch, Up
<1> QED BY <1>2, <1>3

(* client_free_socks keeps a client that bytes are on the way to.          *)
LEMMA FreeSocksStep ==
    ASSUME RelayInv, TypeOK', NEW why \in {"lost", "closed"}, FreeSocks(why),
           entry = "live",
           UNCHANGED <<refused, downVars, socks_up, cb>>,
           client = "open" => rcv_wnd' + Len(buf') = Wnd
    PROVE  /\ SendGoing' /\ ReceiveGoing' /\ WillBeSent' /\ WindowFits'
           /\ CallbacksMatch' /\ EndsMatch'
<1>1. socks' = why /\ send_len' = 0 /\ receiving' = 0 /\ socks = "open"
    BY DEF FreeSocks
<1>2. CASE client' = "open"
    <2>1. /\ client = "open" /\ socks_up = 1 /\ recv_cb' = "null"
          /\ UNCHANGED <<entry, pcb, dead>>
        BY <1>2 DEF FreeSocks, Unhook
    <2> QED BY <1>1, <1>2, <2>1
            DEF RelayInv, SendGoing, ReceiveGoing, WillBeSent, WindowFits,
                CallbacksMatch, EndsMatch, Up, downVars
<1>3. CASE client' # "open"
    <2>1. entry' = "freed" /\ client' \in {"lost", "closed"}
        BY <1>1, <1>3 DEF FreeSocks, RelayInv, TypeOK, EndsMatch
    <2>2. recv_cb' = "null"
        BY <1>1, <1>3 DEF FreeSocks, Unhook, RelayInv, TypeOK, CallbacksMatch
    <2>3. pcb' # "syn"
        BY <1>3 DEF FreeSocks, AfterClose, RelayInv, EndsMatch
    <2>4. cb = "none" => dead' = 0
        BY <1>3 DEF FreeSocks, KillDead, RelayInv, EndsMatch
    <2>5. cb # "none" /\ pcb' = "freed" => dead' = 1
        BY <1>3 DEF FreeSocks, KillDead, RelayInv, EndsMatch
    <2> QED BY <1>1, <1>3, <2>1, <2>2, <2>3, <2>4, <2>5
            DEF RelayInv, SendGoing, ReceiveGoing, WillBeSent, WindowFits,
                CallbacksMatch, EndsMatch, Up, downVars
<1> QED BY <1>2, <1>3

(* The client's connection ends.                                           *)
LEMMA FinStep == RelayInv /\ (ClientFin \/ ClientError \/ NullFin) => RelayInv'
<1> SUFFICES ASSUME RelayInv, ClientFin \/ ClientError \/ NullFin PROVE RelayInv'
    OBVIOUS
<1> USE SizesAssumption
<1>1. CASE ClientFin \/ ClientError
    <2>1. PICK p \in {"detached", "freed"} : HandleFreedClient(p, "lost")
        BY <1>1 DEF ClientFin, ClientError, FreeClient, AfterClose
    <2>2. /\ entry = "live" /\ client = "open" /\ ret' \in {"OK", "ABRT", "MEM"}
          /\ UNCHANGED <<pcbVars, upVars, downVars, socks_up, cb>>
        BY <1>1 DEF ClientFin, ClientError, Idle, RelayInv, TypeOK
    <2>3. TypeOK'
        BY <2>1, <2>2
        DEF RelayInv, TypeOK, HandleFreedClient, Unhook, KillDead, pcbVars,
            upVars, downVars, jobVars
    <2>4. UpInOrder' /\ DownInOrder'
        BY <2>2 DEF RelayInv, UpInOrder, DownInOrder, pcbVars, upVars, downVars
    <2> QED BY <2>1, <2>2, <2>3, <2>4, FreedClientStep
            DEF RelayInv, EndsMatch, pcbVars, upVars, downVars
<1>2. CASE NullFin
    BY <1>2, EmptyFacts, NonEmpty
    DEF NullFin, Idle, RelayInv, SendGoing, ReceiveGoing, WillBeSent, WindowFits,
        CallbacksMatch, UpInOrder, DownInOrder, EndsMatch, Up, pcbVars, upVars,
        downVars, jobVars, TypeOK
<1> QED BY <1>1, <1>2

(* The SOCKS connection comes up, fails or ends, or tun2socks exits.       *)
LEMMA SocksStep ==
    RelayInv /\ (SocksUp \/ SocksError \/ SocksClosed \/ Murder) => RelayInv'
<1> SUFFICES ASSUME RelayInv, SocksUp \/ SocksError \/ SocksClosed \/ Murder
             PROVE  RelayInv'
    OBVIOUS
<1> USE SizesAssumption
<1>1. CASE SocksUp \/ Murder
    <2>1. UpInOrder' /\ DownInOrder'
        BY <1>1 DEF SocksUp, Murder, RelayInv, UpInOrder, DownInOrder, pcbVars,
                    upVars, downVars
    <2>2. CASE SocksUp
        BY <2>1, <2>2, NonEmpty
        DEF SocksUp, Idle, RelayInv, SendGoing, ReceiveGoing, WillBeSent,
            WindowFits, CallbacksMatch, EndsMatch, Up, endVars, pcbVars,
            upVars, downVars, TypeOK
    <2>3. CASE Murder
        BY <2>1, <2>3
        DEF Murder, Idle, RelayInv, SendGoing, ReceiveGoing, WillBeSent,
            WindowFits, CallbacksMatch, EndsMatch, Up, pcbVars, upVars,
            downVars, TypeOK
    <2> QED BY <1>1, <2>2, <2>3
<1>2. CASE SocksError \/ SocksClosed
    <2>1. /\ entry = "live" /\ FreeSocks("lost")
          /\ UNCHANGED <<pcbVars, upVars, downVars, socks_up, cb, ret>>
        BY <1>2 DEF SocksError, SocksClosed
    <2>2. TypeOK'
        BY <2>1 DEF RelayInv, TypeOK, FreeSocks, AfterClose, Unhook, KillDead,
            pcbVars, upVars, downVars
    <2>3. UpInOrder' /\ DownInOrder'
        BY <2>1 DEF RelayInv, UpInOrder, DownInOrder, pcbVars, upVars, downVars
    <2>4. client = "open" => rcv_wnd' + Len(buf') = Wnd
        BY <2>1 DEF RelayInv, WindowFits, pcbVars, upVars
    <2> QED BY <2>1, <2>2, <2>3, <2>4, FreeSocksStep
            DEF RelayInv, pcbVars
<1> QED BY <1>1, <1>2

LEMMA AddBoth == \A a, b, c, n \in Nat : a + b = c => a + (b + n) = c + n
    OBVIOUS

LEMMA MoveOver == \A a, b, c, n \in Nat : a + b = c => (a - n) + (b + n) = c
    OBVIOUS

(* client_recv_func: bytes join the buffer and, if it was empty, are sent. *)
LEMMA DataStep == ASSUME RelayInv, NEW n \in 1 .. Wnd, ClientData(n) PROVE RelayInv'
<1>1. /\ buf \in Seq(Nat) /\ Len(buf) \in Nat /\ upIn \in Nat /\ n \in Nat \ {0}
      /\ upOut \in Seq(Nat) /\ Len(upOut) \in Nat /\ Wnd \in Nat
      /\ n <= rcv_wnd /\ rcv_wnd + Len(buf) = Wnd /\ rcv_wnd \in Nat
    BY SizesAssumption, NonEmpty DEF RelayInv, TypeOK, WindowFits, ClientData, Idle
<1>2. ~(n > Wnd - Len(buf))
    BY <1>1
<1>3. /\ buf' = buf \o Bytes(upIn, n) /\ StartSend(n)
      /\ UNCHANGED <<refused, endVars, upOut, downVars, receiving, socks_up>>
    BY <1>2 DEF ClientData
<1>4. upIn' = upIn + n /\ rcv_wnd' = rcv_wnd - n
    BY <1>2 DEF ClientData
<1>5. Follows(buf, Len(upOut)) /\ Len(upOut) + Len(buf) = upIn
    BY DEF RelayInv, UpInOrder
<1>6. /\ buf' \in Seq(Nat) /\ Len(buf') = Len(buf) + n
      /\ Follows(buf', Len(upOut))
    <2>1. /\ Bytes(upIn, n) \in Seq(Nat) /\ Len(Bytes(upIn, n)) = n
          /\ Follows(Bytes(upIn, n), Len(upOut) + Len(buf))
        BY <1>1, <1>5, BytesFacts
    <2> QED BY <1>1, <1>3, <1>5, <2>1, JoinFacts
<1>7. PICK len \in Nat : len = Len(buf')
    BY <1>6, NonEmpty
<1>8. len = Len(buf) + n
    BY <1>6, <1>7
<1>9. Len(upOut) + len = upIn' /\ rcv_wnd' + len = Wnd /\ len > 0
    <2>0. /\ Len(upOut) \in Nat /\ Len(buf) \in Nat /\ upIn \in Nat
          /\ n \in Nat /\ rcv_wnd \in Nat /\ Wnd \in Nat
        BY <1>1
    <2>1. Len(upOut) + len = upIn + n
        BY <2>0, <1>5, <1>8, AddBoth
    <2>2. (rcv_wnd - n) + len = Wnd
        <3>1. rcv_wnd + Len(buf) = Wnd
            BY <1>1
        <3> QED BY <2>0, <3>1, <1>8, MoveOver
    <2>3. len > 0
        BY <1>1, <1>8
    <2> QED BY <1>4, <2>1, <2>2, <2>3
<1>0. buf' # <<>>
    BY <1>6, <1>7, <1>9, NonEmpty
<1>10. UpInOrder'
    <2>1. upOut' = upOut /\ Follows(upOut, 0)
        BY <1>3 DEF RelayInv, UpInOrder
    <2>2. Len(upOut') + Len(buf') = upIn'
        BY <1>7, <1>9, <2>1
    <2> QED BY <1>6, <2>1, <2>2 DEF UpInOrder
<1>11. DownInOrder'
    BY <1>3 DEF RelayInv, DownInOrder, downVars
<1>12. /\ \/ buf = <<>> /\ socks_up = 1 /\ send_len' = n /\ cb' = "recv" /\ ret' = ret
          \/ /\ ~(buf = <<>> /\ socks_up = 1)
             /\ ret' = "OK" /\ send_len' = send_len /\ cb' = cb
       /\ entry = "live" /\ client = "open" /\ pcb = "est" /\ recv_cb = "relay"
       /\ cb = "none"
    BY <1>3 DEF StartSend, ClientData, Idle
<1>13. TypeOK'
    <2>1. rcv_wnd' \in 0 .. Wnd /\ upIn' \in Nat /\ send_len' \in Nat
        BY <1>1, <1>4, <1>12 DEF RelayInv, TypeOK
    <2> QED BY <1>3, <1>6, <1>12, <2>1 DEF RelayInv, TypeOK, endVars, downVars
<1>14. /\ UNCHANGED <<entry, client, socks, pcb, recv_cb, dead>>
       /\ UNCHANGED <<flight, recv_buf, recv_sent, waiting, pending>>
       /\ UNCHANGED <<refused, receiving, socks_up>>
    BY <1>3 DEF endVars, downVars
<1>15. SendGoing'
    <2>1. CASE buf = <<>>
        BY <2>1, <1>1, <1>7, <1>8, <1>0, <1>12, <1>14, EmptyFacts DEF SendGoing, Up
    <2>2. CASE buf # <<>>
        <3>1. Up' => send_len' > 0 /\ send_len' <= Len(buf)
            BY <2>2, <1>12, <1>14 DEF RelayInv, SendGoing, Up, TypeOK
        <3>2. send_len' \in Nat
            BY <1>13 DEF TypeOK
        <3> QED BY <3>1, <3>2, <1>1, <1>7, <1>8, <1>0 DEF SendGoing
    <2> QED BY <2>1, <2>2
<1>16. ReceiveGoing' /\ WillBeSent' /\ CallbacksMatch'
    BY <1>12, <1>14 DEF RelayInv, ReceiveGoing, WillBeSent, CallbacksMatch, Up
<1>17. WindowFits'
    BY <1>7, <1>9, <1>14 DEF RelayInv, WindowFits
<1>18. EndsMatch'
    BY <1>0, <1>12, <1>14, <1>13 DEF RelayInv, EndsMatch, CallbacksMatch, TypeOK
<1> QED BY <1>10, <1>11, <1>13, <1>15, <1>16, <1>17, <1>18 DEF RelayInv

LEMMA TakeAway == \A a, b, c, n \in Nat : a + b = c /\ n <= b =>
                      (a + n) + (b - n) = c /\ a + n \in Nat /\ b - n \in Nat
    OBVIOUS

(* client_socks_send_handler_done: bytes leave the buffer for the SOCKS    *)
(* server, and the window opens by as many.                                *)
LEMMA SendStep == ASSUME RelayInv, NEW k \in 1 .. Wnd, SendDone(k) PROVE RelayInv'
<1>1. /\ buf \in Seq(Nat) /\ Len(buf) \in Nat /\ upOut \in Seq(Nat)
      /\ Len(upOut) \in Nat /\ upIn \in Nat /\ rcv_wnd \in Nat /\ Wnd \in Nat
      /\ send_len \in Nat /\ k \in Nat /\ k > 0 /\ k <= send_len
    BY SizesAssumption, NonEmpty DEF RelayInv, TypeOK, SendDone
<1>2. entry = "live" /\ socks = "open" /\ socks_up = 1 /\ k <= Len(buf)
    <2>1. entry = "live" /\ socks = "open" /\ socks_up = 1
        BY <1>1 DEF RelayInv, EndsMatch, TypeOK, SendDone
    <2>2. send_len <= Len(buf)
        BY <2>1 DEF RelayInv, SendGoing, Up
    <2> QED BY <1>1, <2>1, <2>2
<1>3. /\ UNCHANGED <<refused, upIn, downVars, socks_up, cb, ret>>
      /\ MoveBuf(k) /\ Recved(k) /\ AfterSend(k)
    BY DEF SendDone
<1>4. Follows(buf, Len(upOut)) /\ Follows(upOut, 0) /\ Len(upOut) + Len(buf) = upIn
    BY DEF RelayInv, UpInOrder
<1>5. PICK rest \in Nat : rest = Len(buf) - k /\ k + rest = Len(buf)
    <2>1. Len(buf) - k \in Nat /\ k + (Len(buf) - k) = Len(buf)
        BY <1>1, <1>2
    <2> QED BY <2>1
<1>6. /\ buf' \in Seq(Nat) /\ Len(buf') = rest /\ Follows(buf', Len(upOut) + k)
    <2>1. k + 1 \in Nat \ {0} /\ k + 1 <= Len(buf) + 1 /\ Len(buf) <= Len(buf)
        BY <1>1, <1>2
    <2>2. /\ SubSeq(buf, k + 1, Len(buf)) \in Seq(Nat)
          /\ Len(SubSeq(buf, k + 1, Len(buf))) = Len(buf) - (k + 1) + 1
          /\ Follows(SubSeq(buf, k + 1, Len(buf)), Len(upOut) + (k + 1) - 1)
        BY <1>1, <1>4, <2>1, PartFacts
    <2>3. /\ Len(buf) - (k + 1) + 1 = rest
          /\ Len(upOut) + (k + 1) - 1 = Len(upOut) + k
        BY <1>1, <1>5
    <2> QED BY <1>3, <2>2, <2>3 DEF MoveBuf
<1>7. /\ upOut' \in Seq(Nat) /\ Len(upOut') = Len(upOut) + k /\ Follows(upOut', 0)
    <2>1. /\ SubSeq(buf, 1, k) \in Seq(Nat)
          /\ Len(SubSeq(buf, 1, k)) = k - 1 + 1
          /\ Follows(SubSeq(buf, 1, k), Len(upOut) + 1 - 1)
        BY <1>1, <1>2, <1>4, PartFacts
    <2>2. k - 1 + 1 = k /\ Len(upOut) + 1 - 1 = 0 + Len(upOut)
        BY <1>1
    <2> QED BY <1>1, <1>3, <1>4, <2>1, <2>2, JoinFacts DEF MoveBuf
<1>8. (Len(upOut) + k) + rest = upIn
    BY <1>1, <1>2, <1>4, <1>5, TakeAway
<1>9. UpInOrder'
    <2>1. upIn' = upIn
        BY <1>3
    <2>2. Len(upOut') + Len(buf') = upIn'
        BY <1>6, <1>7, <1>8, <2>1
    <2> QED BY <1>6, <1>7, <2>2 DEF UpInOrder
<1>10. DownInOrder'
    BY <1>3 DEF RelayInv, DownInOrder, downVars
<1>11. CASE client = "open"
    <2>1. rcv_wnd + Len(buf) = Wnd
        BY <1>2, <1>11 DEF RelayInv, WindowFits
    <2>2. (rcv_wnd + k) + rest = Wnd
        BY <1>1, <1>2, <1>5, <2>1, TakeAway
    <2>3. rcv_wnd' = rcv_wnd + k
        <3>1. rcv_wnd + k <= Wnd
            BY <1>1, <2>2
        <3> QED BY <1>1, <1>3, <1>11, <3>1 DEF Recved, Min2
    <2>4. rcv_wnd' \in 0 .. Wnd /\ rcv_wnd' + Len(buf') = Wnd
        BY <1>1, <1>6, <2>2, <2>3
    <2>5. send_len' = rest /\ UNCHANGED <<entry, client, socks, pcb, recv_cb, dead, receiving>>
        BY <1>3, <1>5, <1>11 DEF AfterSend, endVars
    <2>6. rest > 0 <=> buf' # <<>>
        BY <1>6, NonEmpty
    <2>7. TypeOK'
        BY <1>3, <1>6, <1>7, <2>4, <2>5 DEF RelayInv, TypeOK, downVars
    <2>8. SendGoing'
        BY <1>6, <2>5, <2>6 DEF SendGoing
    <2>9. ReceiveGoing' /\ WillBeSent' /\ CallbacksMatch'
        BY <1>2, <1>3, <2>5 DEF RelayInv, ReceiveGoing, WillBeSent, CallbacksMatch,
                              Up, downVars
    <2>10. WindowFits'
        BY <1>3, <2>4 DEF RelayInv, WindowFits
    <2>11. EndsMatch'
        BY <1>2, <1>3, <1>11, <2>5 DEF RelayInv, EndsMatch, downVars
    <2> QED BY <1>9, <1>10, <2>7, <2>8, <2>9, <2>10, <2>11 DEF RelayInv
<1>12. CASE client # "open" /\ rest > 0
    <2>1. rcv_wnd' = rcv_wnd
        BY <1>3, <1>12 DEF Recved
    <2>2. Len(buf) # k
        BY <1>1, <1>5, <1>12
    <2>3. send_len' = rest /\ UNCHANGED <<entry, client, socks, pcb, recv_cb, dead, receiving>>
        BY <1>3, <1>5, <2>2 DEF AfterSend, endVars
    <2>4. buf' # <<>>
        BY <1>6, <1>12, NonEmpty
    <2>5. TypeOK'
        BY <1>3, <1>6, <1>7, <2>1, <2>3 DEF RelayInv, TypeOK, downVars
    <2>6. SendGoing'
        BY <1>6, <1>12, <2>3, <2>4 DEF SendGoing
    <2>7. ReceiveGoing' /\ WillBeSent' /\ CallbacksMatch' /\ WindowFits'
        BY <1>2, <1>3, <1>12, <2>3 DEF RelayInv, ReceiveGoing, WillBeSent,
            CallbacksMatch, WindowFits, Up, downVars
    <2>8. EndsMatch'
        BY <1>2, <1>3, <1>12, <2>3, <2>4 DEF RelayInv, EndsMatch, downVars
    <2> QED BY <1>9, <1>10, <2>5, <2>6, <2>7, <2>8 DEF RelayInv
<1>13. CASE client # "open" /\ ~(rest > 0)
    <2>1. Len(buf) = k /\ rcv_wnd' = rcv_wnd
        BY <1>1, <1>3, <1>5, <1>13 DEF Recved
    <2>2. FreeSocks("closed")
        BY <1>1, <1>3, <1>13, <2>1 DEF AfterSend
    <2>3. TypeOK'
        BY <1>3, <1>6, <1>7, <2>1, <2>2
        DEF RelayInv, TypeOK, FreeSocks, AfterClose, Unhook, KillDead, downVars
    <2> QED BY <1>2, <1>3, <1>9, <1>10, <1>13, <2>2, <2>3, FreeSocksStep DEF RelayInv
<1> QED BY <1>11, <1>12, <1>13

(* A part of b that follows on from m, cut at any point.                   *)
LEMMA CutFacts ==
    ASSUME NEW b \in Seq(Nat), NEW s \in Nat, NEW m \in Nat, NEW k \in Nat,
           s + k <= Len(b), Follows(SubSeq(b, s + 1, Len(b)), m)
    PROVE  /\ SubSeq(b, s + 1, s + k) \in Seq(Nat)
           /\ Len(SubSeq(b, s + 1, s + k)) = k
           /\ Follows(SubSeq(b, s + 1, s + k), m)
           /\ Len(SubSeq(b, s + k + 1, Len(b))) = Len(b) - (s + k)
           /\ Follows(SubSeq(b, s + k + 1, Len(b)), m + k)
<1>1. \A x \in 1 .. Len(b) : b[x] \in Nat
    BY ElementOfSeq
<1>2. ASSUME NEW o \in Nat, NEW c \in Nat, o <= c, c <= Len(b)
      PROVE  /\ SubSeq(b, o + 1, c) \in Seq(Nat) /\ Len(SubSeq(b, o + 1, c)) = c - o
             /\ \A i \in 1 .. c - o : SubSeq(b, o + 1, c)[i] = b[o + i]
    <2>1. /\ SubSeq(b, o + 1, c) \in Seq(Nat)
          /\ Len(SubSeq(b, o + 1, c)) = c - (o + 1) + 1
          /\ \A i \in 1 .. c - (o + 1) + 1 :
                SubSeq(b, o + 1, c)[i] = b[(o + 1) + i - 1]
        <3>1. \A i \in o + 1 .. c : b[i] \in Nat
            BY <1>1, <1>2
        <3> QED BY <1>2, <3>1, SubSeqProperties
    <2>2. c - (o + 1) + 1 = c - o /\ \A i \in 1 .. c - o : (o + 1) + i - 1 = o + i
        BY <1>2
    <2> QED BY <2>1, <2>2
<1>3. \A i \in 1 .. Len(b) - s : b[s + i] = m + i
    <2>1. s \in Nat /\ Len(b) \in Nat /\ s <= Len(b) /\ Len(b) <= Len(b)
        OBVIOUS
    <2>2. /\ Len(SubSeq(b, s + 1, Len(b))) = Len(b) - s
          /\ \A i \in 1 .. Len(b) - s : SubSeq(b, s + 1, Len(b))[i] = b[s + i]
        BY <1>2, <2>1
    <2> QED BY <2>2 DEF Follows
<1>4. /\ SubSeq(b, s + 1, s + k) \in Seq(Nat)
      /\ Len(SubSeq(b, s + 1, s + k)) = k
      /\ \A i \in 1 .. k : SubSeq(b, s + 1, s + k)[i] = b[s + i]
    <2>1. s + k \in Nat /\ s <= s + k /\ (s + k) - s = k
        OBVIOUS
    <2>2. /\ SubSeq(b, s + 1, s + k) \in Seq(Nat)
          /\ Len(SubSeq(b, s + 1, s + k)) = (s + k) - s
          /\ \A i \in 1 .. (s + k) - s : SubSeq(b, s + 1, s + k)[i] = b[s + i]
        BY <1>2, <2>1
    <2> QED BY <2>1, <2>2
<1>5. /\ Len(SubSeq(b, s + k + 1, Len(b))) = Len(b) - (s + k)
      /\ \A i \in 1 .. Len(b) - (s + k) :
            SubSeq(b, s + k + 1, Len(b))[i] = b[s + (k + i)]
    <2>1. s + k \in Nat /\ Len(b) \in Nat
        OBVIOUS
    <2>2. /\ Len(SubSeq(b, (s + k) + 1, Len(b))) = Len(b) - (s + k)
          /\ \A i \in 1 .. Len(b) - (s + k) :
                SubSeq(b, (s + k) + 1, Len(b))[i] = b[(s + k) + i]
        BY <1>2, <2>1
    <2>3. \A i \in 1 .. Len(b) - (s + k) : (s + k) + i = s + (k + i)
        OBVIOUS
    <2> QED BY <2>2, <2>3
<1>6. \A i \in 1 .. k : i \in 1 .. Len(b) - s
    OBVIOUS
<1>7. \A i \in 1 .. Len(b) - (s + k) : k + i \in 1 .. Len(b) - s /\ m + (k + i) = (m + k) + i
    OBVIOUS
<1>8. Follows(SubSeq(b, s + 1, s + k), m)
    BY <1>3, <1>4, <1>6 DEF Follows
<1>9. Follows(SubSeq(b, s + k + 1, Len(b)), m + k)
    BY <1>3, <1>5, <1>7 DEF Follows
<1> QED BY <1>4, <1>5, <1>8, <1>9

LEMMA EmptyTail == SubSeq(<<>>, 1, 0) = <<>> /\ \A n : Follows(<<>>, n)
    BY SubSeqEmpty, EmptyFacts DEF Follows

(* client_socks_recv_send_out: what it queues follows on from what lwIP    *)
(* holds, what it could not queue waits, and then something is pending.    *)
LEMMA SendsOutFacts ==
    ASSUME NEW b \in Seq(Nat), NEW s \in Nat, s < Len(b), NEW f \in Seq(Nat),
           NEW d \in Nat, Len(f) <= SndBuf, Follows(f, d),
           Follows(SubSeq(b, s + 1, Len(b)), d + Len(f)),
           SendsOut(b, s, f, Len(f))
    PROVE  /\ flight' \in Seq(Nat) /\ recv_buf' \in Seq(Nat) /\ recv_sent' \in Nat
           /\ waiting' \in {0, 1} /\ pending' \in Nat
           /\ pending' = Len(flight') /\ Len(flight') <= SndBuf
           /\ recv_buf' # <<>> =>
                 waiting' = 1 /\ pending' > 0 /\ recv_sent' < Len(recv_buf')
           /\ recv_sent' <= Len(recv_buf') /\ Follows(flight', d)
           /\ Len(flight') + Len(SubSeq(recv_buf', recv_sent' + 1, Len(recv_buf'))) =
                 Len(f) + (Len(b) - s)
           /\ Follows(SubSeq(recv_buf', recv_sent' + 1, Len(recv_buf')),
                      d + Len(flight'))
<1>1. PICK k \in {0, Min2(Len(b) - s, SndBuf - Len(f))} :
        /\ s + k = Len(b) \/ Len(f) + k > 0
        /\ flight' = f \o SubSeq(b, s + 1, s + k)
        /\ pending' = Len(f) + k
        /\ IF s + k = Len(b)
           THEN recv_buf' = <<>> /\ recv_sent' = 0 /\ waiting' = 0
           ELSE recv_buf' = b /\ recv_sent' = s + k /\ waiting' = 1
    BY DEF SendsOut, Chunk
<1>2. /\ Len(b) \in Nat /\ Len(f) \in Nat /\ SndBuf \in Nat
    BY SizesAssumption
<1>3. k \in Nat /\ s + k <= Len(b) /\ Len(f) + k <= SndBuf
    <2>1. k \in {0, Min2(Len(b) - s, SndBuf - Len(f))}
        OBVIOUS
    <2>2. k = 0 \/ k = Len(b) - s \/ k = SndBuf - Len(f)
        BY <2>1 DEF Min2
    <2>3. k <= Len(b) - s /\ k <= SndBuf - Len(f)
        BY <1>2, <2>1 DEF Min2
    <2> QED BY <1>2, <2>2, <2>3
<1>4. /\ SubSeq(b, s + 1, s + k) \in Seq(Nat)
      /\ Len(SubSeq(b, s + 1, s + k)) = k
      /\ Follows(SubSeq(b, s + 1, s + k), d + Len(f))
      /\ Len(SubSeq(b, s + k + 1, Len(b))) = Len(b) - (s + k)
      /\ Follows(SubSeq(b, s + k + 1, Len(b)), (d + Len(f)) + k)
    <2>1. d + Len(f) \in Nat
        BY <1>2
    <2> QED BY <1>3, <2>1, CutFacts
<1>5. /\ flight' \in Seq(Nat) /\ Len(flight') = Len(f) + k /\ Follows(flight', d)
    BY <1>1, <1>4, JoinFacts
<1>6. PICK l \in Nat : l = Len(f) + k
    BY <1>2, <1>3
<1>7. CASE s + k = Len(b)
    <2>1. recv_buf' = <<>> /\ recv_sent' = 0 /\ waiting' = 0
        BY <1>1, <1>7
    <2>2. SubSeq(recv_buf', recv_sent' + 1, Len(recv_buf')) = <<>>
        BY <2>1, EmptyTail, EmptyFacts
    <2>3. Len(b) - s = k
        BY <1>2, <1>3, <1>7
    <2>4. /\ Len(SubSeq(recv_buf', recv_sent' + 1, Len(recv_buf'))) = 0
          /\ Follows(SubSeq(recv_buf', recv_sent' + 1, Len(recv_buf')),
                     d + Len(flight'))
        BY <2>2, EmptyFacts, EmptyTail
    <2>5. Len(flight') = l /\ pending' = l /\ l <= SndBuf /\ l + 0 = l
        BY <1>1, <1>3, <1>5, <1>6
    <2>6. Len(f) + (Len(b) - s) = l
        BY <1>6, <2>3
    <2>7. Len(flight') + Len(SubSeq(recv_buf', recv_sent' + 1, Len(recv_buf'))) =
            Len(f) + (Len(b) - s)
        BY <2>4, <2>5, <2>6
    <2>8. /\ recv_buf' \in Seq(Nat) /\ recv_sent' \in Nat /\ waiting' \in {0, 1}
          /\ recv_sent' <= Len(recv_buf')
        BY <2>1, EmptyFacts
    <2>9. pending' = Len(flight') /\ Len(flight') <= SndBuf /\ pending' \in Nat
        BY <2>5
    <2> QED BY <1>5, <2>1, <2>4, <2>7, <2>8, <2>9
<1>8. CASE s + k # Len(b)
    <2>1. recv_buf' = b /\ recv_sent' = s + k /\ waiting' = 1
        BY <1>1, <1>8
    <2>2. s + k \in Nat /\ s + k < Len(b) /\ l > 0
        BY <1>1, <1>2, <1>3, <1>6, <1>8
    <2>3. l + (Len(b) - (s + k)) = Len(f) + (Len(b) - s) /\ (d + Len(f)) + k = d + l
        BY <1>2, <1>3, <1>6
    <2>4. /\ Len(SubSeq(recv_buf', recv_sent' + 1, Len(recv_buf'))) = Len(b) - (s + k)
          /\ Follows(SubSeq(recv_buf', recv_sent' + 1, Len(recv_buf')), d + l)
        BY <1>4, <2>1, <2>3
    <2>5. Len(flight') = l /\ pending' = l /\ l <= SndBuf
        BY <1>1, <1>3, <1>5, <1>6
    <2>6. Len(flight') + Len(SubSeq(recv_buf', recv_sent' + 1, Len(recv_buf'))) =
            Len(f) + (Len(b) - s)
        BY <2>3, <2>4, <2>5
    <2>7. recv_sent' \in Nat /\ recv_sent' < Len(recv_buf') /\ recv_sent' <= Len(recv_buf')
        BY <1>2, <2>1, <2>2
    <2>8. pending' = Len(flight') /\ Len(flight') <= SndBuf /\ pending' > 0
        BY <2>2, <2>5
    <2>9. Follows(SubSeq(recv_buf', recv_sent' + 1, Len(recv_buf')), d + Len(flight'))
        BY <2>4, <2>5
    <2> QED BY <1>5, <2>1, <2>5, <2>6, <2>7, <2>8, <2>9
<1> QED BY <1>7, <1>8

LEMMA Regroup == \A a, b, c \in Nat : (a + b) + c = a + (b + c)
    OBVIOUS

LEMMA TailLen ==
    ASSUME NEW b \in Seq(Nat), NEW s \in Nat, s <= Len(b)
    PROVE  Len(SubSeq(b, s + 1, Len(b))) \in Nat
<1>1. \A i \in s + 1 .. Len(b) : b[i] \in Nat
    BY ElementOfSeq
<1>2. SubSeq(b, s + 1, Len(b)) \in Seq(Nat)
    BY <1>1, SubSeqProperties
<1> QED BY <1>2, NonEmpty

(* A part of what lwIP holds is acknowledged.                              *)
LEMMA AckFacts ==
    ASSUME RelayInv, NEW n \in 1 .. Len(flight)
    PROVE  /\ SubSeq(flight, n + 1, Len(flight)) \in Seq(Nat)
           /\ Len(SubSeq(flight, n + 1, Len(flight))) = Len(flight) - n
           /\ Follows(SubSeq(flight, n + 1, Len(flight)), Len(downOut) + n)
           /\ downOut \o SubSeq(flight, 1, n) \in Seq(Nat)
           /\ Len(downOut \o SubSeq(flight, 1, n)) = Len(downOut) + n
           /\ Follows(downOut \o SubSeq(flight, 1, n), 0)
<1>1. /\ flight \in Seq(Nat) /\ Len(flight) \in Nat /\ downOut \in Seq(Nat)
      /\ Len(downOut) \in Nat
    BY NonEmpty DEF RelayInv, TypeOK
<1>2. Follows(flight, Len(downOut)) /\ Follows(downOut, 0)
    BY DEF RelayInv, DownInOrder
<1>3. n \in Nat /\ n <= Len(flight)
    BY <1>1
<1>4. /\ SubSeq(flight, n + 1, Len(flight)) \in Seq(Nat)
      /\ Len(SubSeq(flight, n + 1, Len(flight))) = Len(flight) - n
      /\ Follows(SubSeq(flight, n + 1, Len(flight)), Len(downOut) + n)
    <2>1. /\ n + 1 \in Nat \ {0} /\ Len(flight) \in Nat /\ n + 1 <= Len(flight) + 1
          /\ Len(flight) <= Len(flight)
        BY <1>1, <1>3
    <2>2. /\ SubSeq(flight, n + 1, Len(flight)) \in Seq(Nat)
          /\ Len(SubSeq(flight, n + 1, Len(flight))) = Len(flight) - (n + 1) + 1
          /\ Follows(SubSeq(flight, n + 1, Len(flight)), Len(downOut) + (n + 1) - 1)
        BY <1>1, <1>2, <2>1, PartFacts
    <2>3. /\ Len(flight) - (n + 1) + 1 = Len(flight) - n
          /\ Len(downOut) + (n + 1) - 1 = Len(downOut) + n
        BY <1>1, <1>3
    <2> QED BY <2>2, <2>3
<1>5. /\ SubSeq(flight, 1, n) \in Seq(Nat) /\ Len(SubSeq(flight, 1, n)) = n
      /\ Follows(SubSeq(flight, 1, n), 0 + Len(downOut))
    <2>1. /\ SubSeq(flight, 1, n) \in Seq(Nat)
          /\ Len(SubSeq(flight, 1, n)) = n - 1 + 1
          /\ Follows(SubSeq(flight, 1, n), Len(downOut) + 1 - 1)
        BY <1>1, <1>2, <1>3, PartFacts
    <2>2. n - 1 + 1 = n /\ Len(downOut) + 1 - 1 = 0 + Len(downOut)
        BY <1>1, <1>3
    <2> QED BY <2>1, <2>2
<1> QED BY <1>1, <1>2, <1>4, <1>5, JoinFacts

(* client_sent_func, in the three ways it can end.                         *)
LEMMA AckStep ==
    ASSUME RelayInv, NEW n \in 1 .. SndBuf, ClientAck(n) PROVE RelayInv'
<1> DEFINE f == SubSeq(flight, n + 1, Len(flight))
<1>1. /\ entry = "live" /\ client = "open" /\ pcb \in {"est", "cw", "la"}
      /\ cb = "none" /\ n \in 1 .. Len(flight)
      /\ downOut' = downOut \o SubSeq(flight, 1, n)
      /\ UNCHANGED <<pcbVars, upVars, downIn, socks_up>>
    BY DEF ClientAck, Idle
<1>2. /\ flight \in Seq(Nat) /\ Len(flight) \in Nat /\ Len(downOut) \in Nat
      /\ n \in Nat /\ n > 0 /\ recv_buf \in Seq(Nat) /\ Len(recv_buf) \in Nat
      /\ recv_sent \in Nat /\ downIn \in Nat /\ SndBuf \in Nat
    BY SizesAssumption, NonEmpty DEF RelayInv, TypeOK
<1>3. socks_up = 1 /\ flight # <<>>
    BY <1>1, <1>2, EmptyFacts DEF RelayInv, EndsMatch, TypeOK
<1>4. /\ f \in Seq(Nat) /\ Len(f) = Len(flight) - n
      /\ Follows(f, Len(downOut) + n) /\ downOut' \in Seq(Nat)
      /\ Len(downOut') = Len(downOut) + n /\ Follows(downOut', 0)
    BY <1>1, AckFacts
<1>5. pending - n = Len(f) /\ Len(f) \in Nat /\ Len(f) <= SndBuf
    <2>1. pending = Len(flight) /\ n <= Len(flight)
        BY <1>1, <1>2 DEF RelayInv, WillBeSent
    <2>2. Len(flight) <= SndBuf
        BY DEF RelayInv, EndsMatch
    <2>3. Len(flight) - n \in Nat /\ Len(flight) - n <= SndBuf
        BY <1>2, <2>1, <2>2
    <2> QED BY <1>4, <2>1, <2>3
<1>6. UpInOrder'
    BY <1>1 DEF RelayInv, UpInOrder, pcbVars, upVars
<1>7. PICK d \in Nat : d = Len(downOut) + n /\ d = Len(downOut')
    <2>1. Len(downOut) + n \in Nat
        BY <1>2
    <2> QED BY <1>4, <2>1
<1>8. d + Len(f) = Len(downOut) + Len(flight)
    <2>1. (Len(downOut) + n) + (Len(flight) - n) = Len(downOut) + Len(flight)
        BY <1>2
    <2> QED BY <1>4, <1>7, <2>1
<1>9. PICK u \in Seq(Nat) :
        /\ u = SubSeq(recv_buf, recv_sent + 1, Len(recv_buf))
        /\ (Len(downOut) + Len(flight)) + Len(u) = downIn
        /\ Follows(u, Len(downOut) + Len(flight))
    <2>1. /\ recv_sent <= Len(recv_buf)
          /\ (Len(downOut) + Len(flight)) + Len(SubSeq(recv_buf, recv_sent + 1, Len(recv_buf))) = downIn
          /\ Follows(SubSeq(recv_buf, recv_sent + 1, Len(recv_buf)), Len(downOut) + Len(flight))
        BY DEF RelayInv, DownInOrder
    <2>2. SubSeq(recv_buf, recv_sent + 1, Len(recv_buf)) \in Seq(Nat)
        <3>1. \A i \in recv_sent + 1 .. Len(recv_buf) : recv_buf[i] \in Nat
            BY <1>2, ElementOfSeq
        <3> QED BY <1>2, <3>1, SubSeqProperties
    <2> QED BY <2>1, <2>2
<1>10. (d + Len(f)) + Len(u) = downIn /\ Follows(u, d + Len(f))
    BY <1>8, <1>9
(* Nothing more was queued.                                                *)
<1>11. ASSUME flight' = f, recv_buf' = recv_buf, recv_sent' = recv_sent
       PROVE  DownInOrder'
    <2>1. SubSeq(recv_buf', recv_sent' + 1, Len(recv_buf')) = u
        BY <1>9, <1>11
    <2>2. downIn' = downIn /\ recv_sent' <= Len(recv_buf')
        BY <1>1, <1>11 DEF RelayInv, DownInOrder
    <2>3. Len(downOut') + Len(flight') + Len(u) = downIn'
        BY <1>7, <1>10, <1>11, <2>2
    <2>4. Follows(downOut', 0) /\ Follows(flight', Len(downOut'))
        BY <1>4, <1>7, <1>11
    <2>5. Follows(u, Len(downOut') + Len(flight'))
        BY <1>7, <1>10, <1>11
    <2> QED BY <2>1, <2>2, <2>3, <2>4, <2>5 DEF DownInOrder
<1>12. CASE /\ recv_used > 0
            /\ SendsOut(recv_buf, recv_sent, f, pending - n)
            /\ Resume
            /\ UNCHANGED <<endVars, send_len>>
    <2>1. recv_buf # <<>> /\ recv_sent < Len(recv_buf)
        BY <1>1, <1>12 DEF recv_used, RelayInv, WillBeSent
    <2>2. /\ flight' \in Seq(Nat) /\ recv_buf' \in Seq(Nat) /\ recv_sent' \in Nat
          /\ waiting' \in {0, 1} /\ pending' \in Nat
          /\ pending' = Len(flight') /\ Len(flight') <= SndBuf
          /\ recv_buf' # <<>> =>
                waiting' = 1 /\ pending' > 0 /\ recv_sent' < Len(recv_buf')
          /\ recv_sent' <= Len(recv_buf') /\ Follows(flight', d)
          /\ Len(flight') + Len(SubSeq(recv_buf', recv_sent' + 1, Len(recv_buf'))) =
                Len(f) + (Len(recv_buf) - recv_sent)
          /\ Follows(SubSeq(recv_buf', recv_sent' + 1, Len(recv_buf')),
                     d + Len(flight'))
        <3>1. /\ Follows(SubSeq(recv_buf, recv_sent + 1, Len(recv_buf)), d + Len(f))
              /\ Follows(f, d)
            BY <1>4, <1>7, <1>9, <1>10
        <3>2. SendsOut(recv_buf, recv_sent, f, Len(f))
            BY <1>5, <1>12
        <3> QED BY <1>2, <1>4, <1>5, <2>1, <3>1, <3>2, SendsOutFacts
    <2>3. Len(recv_buf) - recv_sent = Len(u)
        <3>1. \A i \in recv_sent + 1 .. Len(recv_buf) : recv_buf[i] \in Nat
            BY <1>2, ElementOfSeq
        <3>2. Len(SubSeq(recv_buf, recv_sent + 1, Len(recv_buf)))
                = Len(recv_buf) - (recv_sent + 1) + 1
            BY <1>2, <2>1, <3>1, SubSeqProperties
        <3>3. Len(recv_buf) - (recv_sent + 1) + 1 = Len(recv_buf) - recv_sent
            BY <1>2
        <3> QED BY <1>9, <3>2, <3>3
    <2>4. DownInOrder'
        <3>1. PICK v : v = SubSeq(recv_buf', recv_sent' + 1, Len(recv_buf'))
            OBVIOUS
        <3>2. /\ Len(flight') + Len(v) = Len(f) + Len(u)
              /\ Follows(v, d + Len(flight')) /\ Follows(flight', d)
              /\ recv_sent' <= Len(recv_buf')
            BY <2>2, <2>3, <3>1
        <3>3. d + (Len(f) + Len(u)) = downIn
            <4>1. Len(u) \in Nat /\ Len(f) \in Nat
                BY <1>5, <1>9, NonEmpty
            <4> QED BY <1>10, <4>1, Regroup
        <3>4. d + (Len(flight') + Len(v)) = downIn
            BY <3>2, <3>3
        <3>5. Len(flight') \in Nat /\ Len(v) \in Nat
            BY <2>2, <3>1, TailLen, NonEmpty
        <3>6. (d + Len(flight')) + Len(v) = downIn
            BY <3>4, <3>5, Regroup
        <3> QED BY <1>1, <1>4, <1>7, <3>1, <3>2, <3>6 DEF DownInOrder
    <2>5. UNCHANGED <<entry, client, socks, pcb, recv_cb, dead, send_len, refused, rcv_wnd, buf>>
        BY <1>1, <1>12 DEF endVars, pcbVars, upVars
    <2>6. /\ \/ recv_buf' = <<>> /\ socks = "open" /\ receiving' = 1 /\ cb' = "sent" /\ ret' = ret
             \/ /\ ~(recv_buf' = <<>> /\ socks = "open")
                /\ ret' = "OK" /\ receiving' = receiving /\ cb' = cb
        BY <1>12 DEF Resume
    <2>7. TypeOK'
        BY <1>1, <1>4, <2>2, <2>5, <2>6 DEF RelayInv, TypeOK, pcbVars, upVars
    <2>8. ReceiveGoing'
        BY <1>1, <1>3, <2>1, <2>5, <2>6 DEF RelayInv, ReceiveGoing, Up
    <2>9. WillBeSent'
        BY <2>2 DEF WillBeSent
    <2>10. SendGoing' /\ WindowFits'
        BY <1>1, <2>5 DEF RelayInv, SendGoing, WindowFits, Up
    <2>11. CallbacksMatch'
        BY <1>1, <2>5 DEF RelayInv, CallbacksMatch
    <2>12. EndsMatch'
        BY <1>1, <1>3, <2>2, <2>5, <2>6 DEF RelayInv, EndsMatch
    <2> QED BY <1>6, <2>4, <2>7, <2>8, <2>9, <2>10, <2>11, <2>12 DEF RelayInv
<1>13. CASE \E p \in {"detached", "freed"}, why \in {"lost", "closed"} :
            /\ HandleFreedClient(p, why)
            /\ flight' = f /\ pending' = pending - n
            /\ recv_buf' = recv_buf /\ recv_sent' = recv_sent /\ waiting' \in {0, 1}
            /\ ret' = "ABRT" /\ cb' = cb
    <2>1. PICK p \in {"detached", "freed"}, why \in {"lost", "closed"} :
            /\ HandleFreedClient(p, why)
            /\ flight' = f /\ pending' = pending - n
            /\ recv_buf' = recv_buf /\ recv_sent' = recv_sent /\ waiting' \in {0, 1}
            /\ ret' = "ABRT" /\ cb' = cb
        BY <1>13
    <2>2. UNCHANGED <<rcv_wnd, refused, upIn, buf, upOut, downIn, socks_up, cb>>
        BY <1>1, <2>1 DEF pcbVars, upVars
    <2>3. TypeOK'
        <3>1. flight' \in Seq(Nat) /\ pending' \in Nat
            BY <1>4, <1>5, <2>1
        <3>2. /\ entry' \in {"none", "live", "freed"}
              /\ client' \in {"none", "open", "lost", "closed"}
              /\ socks' \in {"none", "open", "lost", "closed"}
              /\ pcb' \in {"syn", "est", "cw", "la", "detached", "freed"}
              /\ recv_cb' \in {"relay", "null"} /\ dead' \in {0, 1}
              /\ send_len' \in Nat /\ receiving' \in {0, 1}
            BY <2>1 DEF RelayInv, TypeOK, HandleFreedClient, Unhook, KillDead, jobVars
        <3> QED BY <1>4, <2>1, <2>2, <3>1, <3>2 DEF RelayInv, TypeOK
    <2>4. Len(flight') <= SndBuf
        BY <1>5, <2>1
    <2>5. /\ SendGoing' /\ ReceiveGoing' /\ WillBeSent' /\ WindowFits'
          /\ CallbacksMatch' /\ EndsMatch'
        BY <1>1, <1>3, <2>1, <2>2, <2>3, <2>4, FreedClientStep
    <2>6. DownInOrder'
        BY <1>11, <2>1
    <2> QED BY <1>6, <2>3, <2>5, <2>6 DEF RelayInv
<1>14. CASE /\ recv_used = -1
            /\ flight' = f /\ pending' = pending - n
            /\ ret' = "OK" /\ UNCHANGED <<endVars, jobVars>>
            /\ UNCHANGED <<recv_buf, recv_sent, waiting, cb>>
    <2>1. recv_buf = <<>>
        BY <1>2, <1>14 DEF recv_used
    <2>2. UNCHANGED <<entry, client, socks, pcb, recv_cb, dead, send_len,
                      receiving, refused, rcv_wnd, upIn, buf, upOut, downIn, socks_up, cb>>
        BY <1>1, <1>14 DEF endVars, jobVars, pcbVars, upVars
    <2>3. DownInOrder'
        BY <1>11, <1>14
    <2>4. flight' \in Seq(Nat) /\ pending' \in Nat /\ pending' = Len(flight')
          /\ Len(flight') <= SndBuf
        BY <1>4, <1>5, <1>14
    <2>5. TypeOK'
        BY <1>4, <1>14, <2>2, <2>4 DEF RelayInv, TypeOK
    <2>6. SendGoing' /\ ReceiveGoing' /\ WindowFits' /\ CallbacksMatch'
        BY <1>14, <2>2 DEF RelayInv, SendGoing, ReceiveGoing, WindowFits,
                           CallbacksMatch, Up
    <2>7. WillBeSent'
        BY <1>14, <2>1, <2>4 DEF WillBeSent
    <2>8. EndsMatch'
        BY <1>3, <1>14, <2>2, <2>4 DEF RelayInv, EndsMatch
    <2> QED BY <1>6, <2>3, <2>5, <2>6, <2>7, <2>8 DEF RelayInv
<1>15. AfterClose(pcb) \subseteq {"detached", "freed"}
    BY DEF AfterClose
<1>16. CASE /\ recv_used > 0
            /\ AbortsClient(recv_buf, recv_sent, f, pending - n)
            /\ ret' = "ABRT" /\ UNCHANGED cb
    BY <1>13, <1>16 DEF AbortsClient
<1>17. CASE /\ recv_used = -1
            /\ flight' = f /\ pending' = pending - n
            /\ FreeClient(pcb, "closed") /\ ret' = "ABRT"
            /\ UNCHANGED <<recv_buf, recv_sent, waiting, cb>>
    <2>1. PICK p \in AfterClose(pcb) : HandleFreedClient(p, "closed")
        BY <1>17 DEF FreeClient
    <2>2. waiting' \in {0, 1}
        BY <1>17 DEF RelayInv, TypeOK
    <2> QED BY <1>13, <1>15, <1>17, <2>1, <2>2
<1> QED BY <1>12, <1>14, <1>16, <1>17 DEF ClientAck

(* client_socks_recv_handler_done: nothing was left over from before, so   *)
(* what came from the SOCKS server follows on from what lwIP holds.        *)
LEMMA RecvStep ==
    ASSUME RelayInv, NEW n \in 1 .. RecvBuf, RecvDone(n) PROVE RelayInv'
<1> DEFINE b == Bytes(downIn, n)
<1>1. /\ entry = "live" /\ receiving = 1 /\ n \in Nat /\ n > 0 /\ downIn \in Nat
      /\ flight \in Seq(Nat) /\ Len(flight) \in Nat /\ Len(downOut) \in Nat
      /\ UNCHANGED <<pcbVars, upVars, socks_up, cb, ret>>
    BY SizesAssumption, NonEmpty DEF RecvDone, RelayInv, TypeOK
<1>2. socks = "open" /\ socks_up = 1
    BY <1>1 DEF RelayInv, EndsMatch, TypeOK
<1>3. UpInOrder'
    BY <1>1 DEF RelayInv, UpInOrder, pcbVars, upVars
<1>4. CASE client # "open"
    <2>1. receiving' = 0 /\ UNCHANGED <<endVars, downVars, send_len>>
        BY <1>4 DEF RecvDone
    <2>2. DownInOrder'
        BY <2>1 DEF RelayInv, DownInOrder, downVars
    <2> QED BY <1>1, <1>2, <1>3, <1>4, <2>1, <2>2
            DEF RelayInv, TypeOK, SendGoing, ReceiveGoing, WillBeSent, WindowFits,
                CallbacksMatch, EndsMatch, Up, endVars, pcbVars, upVars, downVars
<1>5. CASE client = "open"
    <2>1. /\ downIn' = downIn + n /\ downOut' = downOut
          /\ \/ /\ SendsOut(b, 0, flight, pending)
                /\ receiving' = IF recv_buf' = <<>> THEN 1 ELSE 0
                /\ UNCHANGED <<endVars, send_len>>
             \/ AbortsClient(b, 0, flight, pending)
        BY <1>5 DEF RecvDone
    <2>2. recv_buf = <<>> /\ pcb = "est" /\ pending = Len(flight)
        BY <1>1, <1>2, <1>5 DEF RelayInv, ReceiveGoing, WillBeSent, EndsMatch, Up
    <2>3. /\ Len(downOut) + Len(flight) = downIn /\ Follows(flight, Len(downOut))
          /\ Len(flight) <= SndBuf /\ Follows(downOut, 0)
        <3>1. recv_sent <= Len(recv_buf) /\ recv_sent \in Nat
            BY DEF RelayInv, DownInOrder, TypeOK
        <3>2. recv_sent = 0
            BY <2>2, <3>1, EmptyFacts
        <3>3. SubSeq(recv_buf, recv_sent + 1, Len(recv_buf)) = <<>>
            BY <2>2, <3>2, EmptyTail, EmptyFacts
        <3>4. (Len(downOut) + Len(flight)) + 0 = downIn
            BY <3>3, EmptyFacts DEF RelayInv, DownInOrder
        <3>5. Follows(flight, Len(downOut)) /\ Follows(downOut, 0) /\ Len(flight) <= SndBuf
            BY DEF RelayInv, DownInOrder, EndsMatch
        <3> QED BY <1>1, <3>4, <3>5
    <2>4. b \in Seq(Nat) /\ Len(b) = n /\ Follows(b, downIn)
        BY <1>1, BytesFacts
    <2>5. /\ SubSeq(b, 0 + 1, Len(b)) \in Seq(Nat)
          /\ Len(SubSeq(b, 0 + 1, Len(b))) = n
          /\ Follows(SubSeq(b, 0 + 1, Len(b)), downIn)
        <3>1. 1 \in Nat \ {0} /\ Len(b) \in Nat /\ 1 <= Len(b) + 1 /\ Len(b) <= Len(b)
            BY <1>1, <2>4
        <3>2. /\ SubSeq(b, 1, Len(b)) \in Seq(Nat) /\ Len(SubSeq(b, 1, Len(b))) = Len(b) - 1 + 1
              /\ Follows(SubSeq(b, 1, Len(b)), downIn + 1 - 1)
            BY <1>1, <2>4, <3>1, PartFacts
        <3>3. Len(b) - 1 + 1 = n /\ downIn + 1 - 1 = downIn /\ 0 + 1 = 1
            BY <1>1, <2>4
        <3> QED BY <3>2, <3>3
    <2>6. CASE /\ SendsOut(b, 0, flight, pending)
               /\ receiving' = IF recv_buf' = <<>> THEN 1 ELSE 0
               /\ UNCHANGED <<endVars, send_len>>
        <3>1. /\ flight' \in Seq(Nat) /\ recv_buf' \in Seq(Nat) /\ recv_sent' \in Nat
              /\ waiting' \in {0, 1} /\ pending' \in Nat
              /\ pending' = Len(flight') /\ Len(flight') <= SndBuf
              /\ recv_buf' # <<>> =>
                    waiting' = 1 /\ pending' > 0 /\ recv_sent' < Len(recv_buf')
              /\ recv_sent' <= Len(recv_buf') /\ Follows(flight', Len(downOut))
              /\ Len(flight') + Len(SubSeq(recv_buf', recv_sent' + 1, Len(recv_buf'))) =
                    Len(flight) + (Len(b) - 0)
              /\ Follows(SubSeq(recv_buf', recv_sent' + 1, Len(recv_buf')),
                         Len(downOut) + Len(flight'))
            <4>1. SendsOut(b, 0, flight, Len(flight)) /\ 0 \in Nat /\ 0 < Len(b)
                BY <1>1, <2>2, <2>4, <2>6
            <4>2. Follows(SubSeq(b, 0 + 1, Len(b)), Len(downOut) + Len(flight))
                BY <2>3, <2>5
            <4> QED BY <1>1, <2>3, <2>4, <4>1, <4>2, SendsOutFacts
        <3>2. DownInOrder'
            <4>1. PICK v : v = SubSeq(recv_buf', recv_sent' + 1, Len(recv_buf'))
                OBVIOUS
            <4>2. Len(v) \in Nat /\ Len(flight') \in Nat
                BY <3>1, <4>1, TailLen, NonEmpty
            <4>3. Len(flight') + Len(v) = Len(flight) + n
                <5>1. Len(b) - 0 = n
                    BY <1>1, <2>4
                <5> QED BY <3>1, <4>1, <5>1
            <4>4. Len(downOut) + (Len(flight) + n) = downIn + n
                BY <1>1, <2>3, AddBoth
            <4>5. (Len(downOut) + Len(flight')) + Len(v) = downIn + n
                BY <1>1, <4>2, <4>3, <4>4, Regroup
            <4> QED BY <2>1, <2>3, <3>1, <4>1, <4>5 DEF DownInOrder
        <3>3. UNCHANGED <<entry, client, socks, pcb, recv_cb, dead, send_len, refused,
                          rcv_wnd, upIn, buf, upOut, socks_up, cb, ret>>
            BY <1>1, <2>6 DEF endVars, pcbVars, upVars
        <3>4. receiving' \in {0, 1} /\ (receiving' = 1 <=> recv_buf' = <<>>)
            BY <2>6
        <3>5. TypeOK'
            <4>1. downIn' \in Nat
                BY <1>1, <2>1
            <4> QED BY <2>1, <3>1, <3>3, <3>4, <4>1 DEF RelayInv, TypeOK
        <3>6. ReceiveGoing' /\ WillBeSent'
            BY <3>1, <3>4 DEF ReceiveGoing, WillBeSent
        <3>7. SendGoing' /\ WindowFits' /\ CallbacksMatch'
            BY <1>1, <3>3 DEF RelayInv, SendGoing, WindowFits, CallbacksMatch, Up
        <3>8. EndsMatch'
            BY <1>1, <1>2, <3>1, <3>3 DEF RelayInv, EndsMatch
        <3> QED BY <1>3, <3>2, <3>5, <3>6, <3>7, <3>8 DEF RelayInv
    <2>7. CASE AbortsClient(b, 0, flight, pending)
        <3>1. /\ flight' = flight /\ pending' = pending /\ recv_buf' = b
              /\ recv_sent' = 0 /\ waiting' = 0 /\ HandleFreedClient("freed", "lost")
            BY <2>7 DEF AbortsClient
        <3>2. UNCHANGED <<rcv_wnd, refused, upIn, buf, upOut, socks_up, cb, ret>>
            BY <1>1 DEF pcbVars, upVars
        <3>3. DownInOrder'
            <4>1. recv_sent' <= Len(recv_buf')
                BY <1>1, <2>4, <3>1
            <4>2. Len(SubSeq(recv_buf', recv_sent' + 1, Len(recv_buf'))) = n
                BY <2>5, <3>1
            <4>3. Follows(SubSeq(recv_buf', recv_sent' + 1, Len(recv_buf')),
                          Len(downOut') + Len(flight'))
                BY <2>1, <2>3, <2>5, <3>1
            <4>4. (Len(downOut') + Len(flight')) + n = downIn'
                BY <2>1, <2>3, <3>1
            <4> QED BY <2>1, <2>3, <3>1, <4>1, <4>2, <4>3, <4>4 DEF DownInOrder
        <3>4. TypeOK'
            <4>1. downIn' \in Nat
                BY <1>1, <2>1
            <4>2. /\ entry' \in {"none", "live", "freed"}
                  /\ client' \in {"none", "open", "lost", "closed"}
                  /\ socks' \in {"none", "open", "lost", "closed"}
                  /\ pcb' \in {"syn", "est", "cw", "la", "detached", "freed"}
                  /\ recv_cb' \in {"relay", "null"} /\ dead' \in {0, 1}
                  /\ send_len' \in Nat /\ receiving' \in {0, 1}
                BY <3>1 DEF RelayInv, TypeOK, HandleFreedClient, Unhook, KillDead, jobVars
            <4> QED BY <2>1, <2>4, <3>1, <3>2, <4>1, <4>2 DEF RelayInv, TypeOK
        <3>5. Len(flight') <= SndBuf
            BY <2>3, <3>1
        <3> QED BY <1>1, <1>2, <1>3, <1>5, <3>1, <3>2, <3>3, <3>4, <3>5,
                   FreedClientStep DEF RelayInv
    <2> QED BY <2>1, <2>6, <2>7
<1> QED BY <1>4, <1>5

(* The pcb goes with the last acknowledgement.                             *)
LEMMA LastAckStep == RelayInv /\ LastAck => RelayInv'
<1> SUFFICES ASSUME RelayInv, LastAck PROVE RelayInv'
    OBVIOUS
<1>1. /\ entry = "live" /\ client = "open" /\ cb = "none" /\ pcb = "la"
      /\ pcb' = "freed" /\ flight' = <<>> /\ downOut' = downOut \o flight
      /\ UNCHANGED <<entry, client, socks, recv_cb, dead, rcv_wnd, refused, upIn,
                     buf, upOut, recv_buf, recv_sent, waiting, pending, downIn,
                     send_len, receiving, socks_up, cb, ret>>
    BY DEF LastAck, Idle, pcbVars, upVars, jobVars
<1>2. /\ flight \in Seq(Nat) /\ downOut \in Seq(Nat) /\ Len(flight) \in Nat
      /\ Len(downOut) \in Nat
    BY NonEmpty DEF RelayInv, TypeOK
<1>3. /\ downOut' \in Seq(Nat) /\ Len(downOut') = Len(downOut) + Len(flight)
      /\ Follows(downOut', 0)
    <2>1. Follows(downOut, 0) /\ Follows(flight, 0 + Len(downOut))
        BY <1>2 DEF RelayInv, DownInOrder
    <2> QED BY <1>1, <1>2, <2>1, JoinFacts
<1>4. UpInOrder'
    BY <1>1 DEF RelayInv, UpInOrder
<1>5. DownInOrder'
    <2>1. PICK u : u = SubSeq(recv_buf, recv_sent + 1, Len(recv_buf))
        OBVIOUS
    <2>2. /\ recv_sent <= Len(recv_buf) /\ (Len(downOut) + Len(flight)) + Len(u) = downIn
          /\ Follows(u, Len(downOut) + Len(flight))
        BY <2>1 DEF RelayInv, DownInOrder
    <2>3. u = SubSeq(recv_buf', recv_sent' + 1, Len(recv_buf'))
        BY <1>1, <2>1
    <2>4. Len(flight') = 0 /\ Follows(flight', Len(downOut'))
        BY <1>1, EmptyFacts, EmptyTail
    <2>5. Len(downOut') + Len(flight') = Len(downOut) + Len(flight)
        BY <1>2, <1>3, <2>4
    <2>6. /\ (Len(downOut') + Len(flight')) + Len(u) = downIn'
          /\ Follows(u, Len(downOut') + Len(flight'))
          /\ recv_sent' <= Len(recv_buf')
        BY <1>1, <2>2, <2>5
    <2> QED BY <1>3, <2>3, <2>4, <2>6 DEF DownInOrder
<1>6. TypeOK'
    BY <1>1, <1>3, EmptyFacts DEF RelayInv, TypeOK
<1>7. /\ SendGoing' /\ ReceiveGoing' /\ WillBeSent' /\ WindowFits' /\ CallbacksMatch'
    BY <1>1 DEF RelayInv, SendGoing, ReceiveGoing, WillBeSent, WindowFits,
                CallbacksMatch, Up
<1>8. EndsMatch'
    <2>1. Len(flight') <= SndBuf
        BY <1>1, EmptyFacts, SizesAssumption
    <2>2. socks # "open"
        BY <1>1 DEF RelayInv, EndsMatch
    <2> QED BY <1>1, <2>1, <2>2 DEF RelayInv, EndsMatch
<1> QED BY <1>4, <1>5, <1>6, <1>7, <1>8 DEF RelayInv

(* The invariant is kept by every step.                                    *)
LEMMA RelayStep == RelayInv /\ [Next]_vars => RelayInv'
<1> SUFFICES ASSUME RelayInv, [Next]_vars PROVE RelayInv'
    OBVIOUS
<1>1. CASE UNCHANGED vars
    <2>1. UpInOrder' /\ DownInOrder'
        BY <1>1 DEF vars, pcbVars, upVars, downVars, RelayInv, UpInOrder, DownInOrder
    <2> QED BY <1>1, <2>1
            DEF vars, endVars, pcbVars, upVars, downVars, jobVars, RelayInv, TypeOK,
                SendGoing, ReceiveGoing, WillBeSent, WindowFits, CallbacksMatch,
                EndsMatch, Up
<1>2. CASE Next
    BY <1>2, AcceptStep, DataStep, FinStep, LastAckStep, AckStep, SocksStep,
       SendStep, RecvStep DEF Next
<1> QED BY <1>1, <1>2

(* Every invariant of the relay, for all buffer sizes and any traffic.     *)
THEOREM RelaySafe == Spec => []RelayInv
<1>1. Init => RelayInv
    BY RelayInit
<1>2. RelayInv /\ [Next]_vars => RelayInv'
    BY RelayStep
<1> QED BY <1>1, <1>2, PTL DEF Spec

(* Type correctness of the relay.                                          *)
THEOREM RelayTyped == Spec => []TypeOK
<1>1. RelayInv => TypeOK
    BY DEF RelayInv
<1> QED BY <1>1, RelaySafe, PTL

(* The two ends, the callbacks, the pcb and DEAD agree on what is over.    *)
THEOREM EndsAgree == Spec => [](CallbacksMatch /\ EndsMatch)
<1>1. RelayInv => CallbacksMatch /\ EndsMatch
    BY DEF RelayInv
<1> QED BY <1>1, RelaySafe, PTL

(* Bytes that wait for either end are on their way: a send is in progress, *)
(* an acknowledgement to come, and the window is the room that is left.    *)
THEOREM NothingEverStalls == Spec => []NothingStalls
<1>1. RelayInv => NothingStalls
    BY DEF RelayInv, NothingStalls
<1> QED BY <1>1, RelaySafe, PTL

(* Each end gets the other's bytes in order, each once.                    *)
THEOREM BytesInOrder == Spec => [](UpInOrder /\ DownInOrder)
<1>1. RelayInv => UpInOrder /\ DownInOrder
    BY DEF RelayInv
<1> QED BY <1>1, RelaySafe, PTL

-----------------------------------------------------------------------------
(* A callback that lost its pcb says so: Return does by the DEAD variable, *)
(* the others in the branches that free it.                                *)
THEOREM FreedReported == Spec => FreedPcbReported
<1>1. RelayInv /\ [Next]_vars => ((Returns /\ pcb' = "freed") => ret' = "ABRT")
    <2> SUFFICES ASSUME RelayInv, Returns, pcb' = "freed" PROVE ret' = "ABRT"
        OBVIOUS
    <2>1. CASE Return
        BY <2>1 DEF Return, RelayInv, EndsMatch
    <2>2. CASE ClientFin
        BY <2>2 DEF ClientFin
    <2>3. ASSUME NEW n \in 1 .. SndBuf, ClientAck(n) PROVE ret' = "ABRT"
        <3>1. pcb # "freed"
            BY <2>3 DEF ClientAck
        <3> QED BY <2>3, <3>1 DEF ClientAck, endVars
    <2> QED BY <2>1, <2>2, <2>3 DEF Returns
<1> QED BY <1>1, RelaySafe, PTL DEF Spec, FreedPcbReported

(* A send in progress is never replaced: while there is one, the buffer is *)
(* not empty, so client_recv_func starts none.                             *)
THEOREM OneSend == Spec => OneSendAtATime
<1>1. RelayInv /\ [Next]_vars =>
        ((send_len > 0 /\ send_len' # send_len) => (upOut' # upOut \/ socks' # "open"))
    <2> SUFFICES ASSUME RelayInv, Next, send_len > 0, send_len' # send_len
                 PROVE  upOut' # upOut \/ socks' # "open"
        BY DEF vars, jobVars
    <2>1. entry = "live" /\ socks = "open" /\ socks_up = 1 /\ buf # <<>>
        BY DEF RelayInv, EndsMatch, SendGoing, Up, TypeOK
    <2>2. ASSUME NEW n \in 1 .. Wnd, ClientData(n) PROVE FALSE
        BY <2>1, <2>2 DEF ClientData, StartSend
    <2>3. ASSUME NEW p, NEW why, HandleFreedClient(p, why) PROVE FALSE
        BY <2>1, <2>3 DEF HandleFreedClient, jobVars
    <2>4. ASSUME NEW why \in {"lost", "closed"}, FreeSocks(why) PROVE socks' # "open"
        BY <2>4 DEF FreeSocks
    <2>5. ASSUME NEW k \in 1 .. Wnd, SendDone(k) PROVE upOut' # upOut
        <3>1. /\ upOut \in Seq(Nat) /\ buf \in Seq(Nat) /\ Len(upOut) \in Nat
              /\ k \in Nat \ {0} /\ k <= Len(buf) /\ Follows(buf, Len(upOut))
              /\ upOut' = upOut \o SubSeq(buf, 1, k)
            <4>1. k <= send_len /\ send_len <= Len(buf) /\ send_len \in Nat /\ k \in Nat \ {0}
                BY <2>1, <2>5, SizesAssumption DEF SendDone, RelayInv, SendGoing, Up, TypeOK
            <4>2. upOut' = upOut \o SubSeq(buf, 1, k)
                BY <2>5 DEF SendDone, MoveBuf
            <4>3. /\ upOut \in Seq(Nat) /\ buf \in Seq(Nat) /\ Len(upOut) \in Nat
                  /\ Len(buf) \in Nat
                BY NonEmpty DEF RelayInv, TypeOK
            <4> QED BY <4>1, <4>2, <4>3 DEF RelayInv, UpInOrder
        <3>2. SubSeq(buf, 1, k) \in Seq(Nat) /\ Len(SubSeq(buf, 1, k)) = k - 1 + 1
            BY <3>1, PartFacts
        <3>3. Len(upOut') = Len(upOut) + k
            BY <3>1, <3>2, ConcatProperties
        <3> QED BY <3>1, <3>3
    <2>6. ASSUME NEW n \in 1 .. SndBuf, ClientAck(n) PROVE FALSE
        <3>1. PICK f, q : AbortsClient(recv_buf, recv_sent, f, q) \/ FreeClient(pcb, "closed")
            BY <2>6 DEF ClientAck, jobVars
        <3> QED BY <2>3, <3>1 DEF AbortsClient, FreeClient
    <2>7. ASSUME NEW n \in 1 .. RecvBuf, RecvDone(n) PROVE FALSE
        <3>1. AbortsClient(Bytes(downIn, n), 0, flight, pending)
            BY <2>7 DEF RecvDone
        <3> QED BY <2>3, <3>1 DEF AbortsClient
    <2> QED BY <2>1, <2>2, <2>3, <2>4, <2>5, <2>6, <2>7
            DEF Next, Accept, AcceptFails, Return, ClientFin, FreeClient, NullFin,
                LastAck, ClientError, SocksUp, SocksError, SocksClosed, Murder,
                jobVars
<1> QED BY <1>1, RelaySafe, PTL DEF Spec, OneSendAtATime

-----------------------------------------------------------------------------
(* What ClientGoneFreed rests on, besides fairness.                        *)

Gone == entry = "live" /\ client # "open"

(* An entry that has lost its client waits for the SOCKS connection to come*)
(* up or for a send to complete, and never for anything else: the handlers *)
(* leave none behind that nobody will free (client_handle_freed_client).   *)
THEOREM GoneIsServed ==
    Spec => [](Gone => socks = "open" /\ buf # <<>> /\ (socks_up = 0 \/ send_len > 0))
<1>1. RelayInv =>
        (Gone => socks = "open" /\ buf # <<>> /\ (socks_up = 0 \/ send_len > 0))
    BY DEF Gone, RelayInv, EndsMatch, SendGoing, Up, TypeOK
<1> QED BY <1>1, RelaySafe, PTL

(* Its client does not come back and no step adds to its buffer: each      *)
(* completed send leaves less, and the last one frees it.                  *)
GoneShrinks ==
    Gone => entry' = "freed" \/ (Gone' /\ upIn' = upIn /\ (buf' = buf \/ Len(buf') < Len(buf)))

(* An entry without a client comes to its end by its sends.                *)
THEOREM GoneGoesForward == Spec => [][GoneShrinks]_vars
<1>1. RelayInv /\ [Next]_vars => GoneShrinks
    <2> SUFFICES ASSUME RelayInv, Next, Gone
                 PROVE  entry' = "freed"
                        \/ (Gone' /\ upIn' = upIn /\ (buf' = buf \/ Len(buf') < Len(buf)))
        BY DEF vars, endVars, pcbVars, upVars, Gone, GoneShrinks
    <2>1. CASE Gone' /\ UNCHANGED <<upIn, buf>>
        BY <2>1
    <2>2. ASSUME NEW why, FreeSocks(why) PROVE entry' = "freed"
        BY <2>2 DEF FreeSocks, Gone
    <2>3. ASSUME NEW k \in 1 .. Wnd, SendDone(k)
          PROVE  entry' = "freed" \/ (Gone' /\ upIn' = upIn /\ Len(buf') < Len(buf))
        <3>1. CASE FreeSocks("closed")
            BY <2>2, <3>1
        <3>2. CASE UNCHANGED endVars
            <4>1. /\ k \in Nat \ {0} /\ k <= send_len /\ send_len \in Nat
                  /\ buf \in Seq(Nat) /\ Len(buf) \in Nat
                BY <2>3, NonEmpty DEF SendDone, RelayInv, TypeOK
            <4>2. k <= Len(buf)
                BY <4>1 DEF RelayInv, EndsMatch, SendGoing, Up, TypeOK
            <4>3. buf' = SubSeq(buf, k + 1, Len(buf)) /\ upIn' = upIn
                BY <2>3 DEF SendDone, MoveBuf
            <4>4. Len(SubSeq(buf, k + 1, Len(buf))) = Len(buf) - k
                BY <4>1, <4>2
            <4>5. Len(buf') < Len(buf)
                BY <4>1, <4>3, <4>4
            <4> QED BY <3>2, <4>3, <4>5 DEF Gone, endVars
        <3> QED BY <2>3, <3>1, <3>2 DEF SendDone, AfterSend, endVars
    <2>4. ASSUME NEW n \in 1 .. RecvBuf, RecvDone(n) PROVE Gone' /\ UNCHANGED <<upIn, buf>>
        BY <2>4 DEF RecvDone, Gone, endVars, pcbVars, upVars
    <2>5. CASE Accept \/ AcceptFails \/ Return \/ Murder \/ SocksUp
        BY <2>1, <2>5 DEF Accept, AcceptFails, Return, Murder, SocksUp, Gone, endVars, pcbVars,
                     upVars
    <2>6. CASE SocksError \/ SocksClosed
        BY <2>2, <2>6 DEF SocksError, SocksClosed
    <2> QED
        BY <2>1, <2>3, <2>4, <2>5, <2>6 DEF Next, ClientData, ClientFin, ClientError, NullFin, LastAck,
           ClientAck, Idle, Gone
<1> QED BY <1>1, RelaySafe, PTL DEF Spec

-----------------------------------------------------------------------------
(* The relay implements its contract.  Beyond RelayInv that needs to know  *)
(* when the relay itself is the one to close a client.                     *)

ClosedLast == /\ pcb = "syn" => client = "none"
              /\ client = "closed" => socks # "open"

(* What the relay has handed over is the start of what it was given.       *)
Prefix ==
    /\ upOut = Contract!Numbers(Len(upOut)) /\ Len(upOut) <= upIn
    /\ downOut = Contract!Numbers(Len(downOut)) /\ Len(downOut) <= downIn
    /\ Len(upOut) \in Nat /\ Len(downOut) \in Nat /\ upIn \in Nat /\ downIn \in Nat
    /\ buf = <<>> => Len(upOut) = upIn
    /\ recv_buf = <<>> /\ flight = <<>> => Len(downOut) = downIn

LEMMA Prefixes == RelayInv => Prefix
<1> SUFFICES ASSUME RelayInv PROVE Prefix
    OBVIOUS
<1>1. ASSUME NEW s \in Seq(Nat), Follows(s, 0) PROVE s = Contract!Numbers(Len(s))
    <2>1. \A i \in 1 .. Len(s) : s[i] = i
        BY <1>1 DEF Follows
    <2>2. s = [i \in 1 .. Len(s) |-> s[i]]
        OBVIOUS
    <2> QED BY <2>1, <2>2 DEF Contract!Numbers
<1>2. /\ upOut \in Seq(Nat) /\ downOut \in Seq(Nat) /\ Len(upOut) \in Nat
      /\ Len(downOut) \in Nat /\ Len(buf) \in Nat /\ Len(flight) \in Nat
      /\ recv_buf \in Seq(Nat) /\ recv_sent \in Nat /\ upIn \in Nat /\ downIn \in Nat
    BY NonEmpty DEF RelayInv, TypeOK
<1>3. PICK u : u = SubSeq(recv_buf, recv_sent + 1, Len(recv_buf))
    OBVIOUS
<1>4. /\ Follows(upOut, 0) /\ Follows(downOut, 0) /\ Len(upOut) + Len(buf) = upIn
      /\ (Len(downOut) + Len(flight)) + Len(u) = downIn /\ recv_sent <= Len(recv_buf)
    BY <1>3 DEF RelayInv, UpInOrder, DownInOrder
<1>5. Len(u) \in Nat
    BY <1>2, <1>3, <1>4, TailLen
<1>6. Len(upOut) <= upIn /\ (buf = <<>> => Len(upOut) = upIn)
    <2>1. buf = <<>> => Len(buf) = 0
        BY EmptyFacts
    <2>2. \A a, c, d \in Nat : a + c = d => a <= d /\ (c = 0 => a = d)
        OBVIOUS
    <2> QED BY <1>2, <1>4, <2>1, <2>2
<1>7. Len(downOut) <= downIn /\ (recv_buf = <<>> /\ flight = <<>> => Len(downOut) = downIn)
    <2>1. recv_buf = <<>> /\ flight = <<>> => Len(flight) = 0 /\ Len(u) = 0
        <3> SUFFICES ASSUME recv_buf = <<>>, flight = <<>> PROVE Len(flight) = 0 /\ Len(u) = 0
            OBVIOUS
        <3>1. recv_sent = 0
            BY <1>2, <1>4, EmptyFacts
        <3> QED BY <1>3, <3>1, EmptyFacts, EmptyTail
    <2>2. \A a, c, e, d \in Nat : (a + c) + e = d => a <= d /\ (c = 0 /\ e = 0 => a = d)
        OBVIOUS
    <2> QED BY <1>2, <1>4, <1>5, <2>1, <2>2
<1> QED BY <1>1, <1>2, <1>4, <1>6, <1>7 DEF Prefix

LEMMA PrefixesNext == RelayInv' => Prefix'
    BY Prefixes, PTL

(* How the bytes of each direction may move in a step.                     *)
UpFlow ==
    /\ upIn' >= upIn /\ (upIn' > upIn => client = "open" /\ socks = "open")
    /\ Len(upOut') >= Len(upOut) /\ (upOut' # upOut => socks = "open")

DownFlow ==
    /\ downIn' >= downIn /\ (downIn' > downIn => client = "open" /\ socks = "open")
    /\ Len(downOut') >= Len(downOut) /\ (downOut' # downOut => client = "open")

LEMMA FlowIsContract ==
    ASSUME Prefix, Prefix', client # "none", UpFlow, DownFlow, Contract!Ends
    PROVE  Contract!Next
<1>1. Len(upOut') \in Len(upOut) .. upIn' /\ upOut' = Contract!Numbers(Len(upOut'))
    BY DEF UpFlow, Prefix
<1>2. Len(downOut') \in Len(downOut) .. downIn' /\ downOut' = Contract!Numbers(Len(downOut'))
    BY DEF DownFlow, Prefix
<1>3. Contract!Up
    BY <1>1 DEF Contract!Up, UpFlow, Prefix
<1>4. Contract!Down
    BY <1>2 DEF Contract!Down, DownFlow, Prefix
<1> QED BY <1>3, <1>4 DEF Contract!Next

(* What the two operators that end a connection do to both ends.           *)
LEMMA FreedClientEnds ==
    ASSUME RelayInv, Prefix, Prefix', ClosedLast, entry = "live", client = "open",
           NEW p \in {"detached", "freed"}, NEW why \in {"lost", "closed"},
           HandleFreedClient(p, why), UNCHANGED <<upIn, upOut>>,
           why = "closed" => socks # "open" /\ Len(downOut') = downIn'
    PROVE  Contract!Ends /\ ClosedLast'
<1>1. client' = why /\ pcb' = p /\ socks \in {"open", "lost", "closed"}
    BY DEF HandleFreedClient, RelayInv, EndsMatch, TypeOK
<1>2. CASE buf # <<>> /\ socks = "open"
    BY <1>1, <1>2 DEF HandleFreedClient, Contract!Ends, ClosedLast
<1>3. CASE buf = <<>> /\ socks = "open"
    <2>1. socks' = "closed" /\ Len(upOut') = upIn' /\ client' = "lost"
        BY <1>1, <1>3 DEF HandleFreedClient, Prefix
    <2> QED BY <1>1, <1>3, <2>1 DEF Contract!Ends, ClosedLast
<1>4. CASE socks # "open"
    <2>1. socks' = socks
        BY <1>4 DEF HandleFreedClient
    <2> QED BY <1>1, <1>4, <2>1 DEF Contract!Ends, ClosedLast
<1> QED BY <1>2, <1>3, <1>4

LEMMA FreeSocksEnds ==
    ASSUME RelayInv, Prefix, Prefix', ClosedLast, entry = "live",
           NEW why \in {"lost", "closed"}, FreeSocks(why),
           UNCHANGED <<downIn, downOut>>,
           why = "closed" => client # "open" /\ Len(upOut') = upIn'
    PROVE  Contract!Ends /\ ClosedLast'
<1>1. socks = "open" /\ socks' = why
    BY DEF FreeSocks
<1>2. CASE client = "open" /\ socks_up = 1 /\ (recv_used >= 0 \/ pending > 0)
    <2>1. client' = "open" /\ pcb' = pcb
        BY <1>2 DEF FreeSocks
    <2> QED BY <1>1, <1>2, <2>1 DEF Contract!Ends, ClosedLast
<1>3. CASE client = "open" /\ ~(socks_up = 1 /\ (recv_used >= 0 \/ pending > 0))
    <2>1. client' = "closed" /\ pcb' \in {"detached", "freed"} /\ why = "lost"
        BY <1>3 DEF FreeSocks, AfterClose
    <2>2. recv_buf = <<>> /\ flight = <<>>
        <3>1. CASE socks_up = 0
            BY <3>1 DEF RelayInv, EndsMatch
        <3>2. CASE socks_up = 1 /\ ~(recv_used >= 0) /\ ~(pending > 0)
            <4>1. /\ recv_buf \in Seq(Nat) /\ Len(recv_buf) \in Nat /\ Len(flight) \in Nat
                  /\ flight \in Seq(Nat) /\ pending \in Nat
                BY NonEmpty DEF RelayInv, TypeOK
            <4>2. recv_buf = <<>>
                BY <3>2, <4>1 DEF recv_used
            <4>3. pcb = "est"
                BY <1>1, <1>3 DEF RelayInv, EndsMatch
            <4>4. Len(flight) = 0
                BY <1>3, <3>2, <4>1, <4>3 DEF RelayInv, WillBeSent
            <4> QED BY <4>1, <4>2, <4>4, NonEmpty
        <3> QED BY <1>3, <3>1, <3>2 DEF RelayInv, TypeOK
    <2>3. Len(downOut') = downIn'
        BY <2>2 DEF Prefix
    <2> QED BY <1>1, <1>3, <2>1, <2>3 DEF Contract!Ends, ClosedLast
<1>4. CASE client # "open"
    <2>1. client' = client /\ pcb' = pcb
        BY <1>4 DEF FreeSocks
    <2>2. client = "lost"
        BY <1>1, <1>4 DEF RelayInv, EndsMatch, TypeOK, ClosedLast
    <2> QED BY <1>1, <2>1, <2>2 DEF Contract!Ends, ClosedLast
<1> QED BY <1>2, <1>3, <1>4

LEMMA StillFlows ==
    ASSUME Prefix, UNCHANGED <<upIn, upOut>> PROVE UpFlow
BY DEF Prefix, UpFlow

LEMMA StillFlowsDown ==
    ASSUME Prefix, UNCHANGED <<downIn, downOut>> PROVE DownFlow
BY DEF Prefix, DownFlow

(* A step of the relay is a step of the contract, or none at all.          *)
LEMMA RefineStep ==
    ASSUME RelayInv, RelayInv', ClosedLast, Prefix, Prefix', [Next]_vars
    PROVE  ClosedLast' /\ [Contract!Next]_(Contract!vars)
<1>1. CASE UNCHANGED vars \/ Return
    BY <1>1 DEF vars, endVars, pcbVars, upVars, downVars, Return, ClosedLast, Contract!vars
<1>2. CASE Accept \/ AcceptFails
    <2>1. client = "none" /\ socks = "none" /\ client' \in {"open", "closed"}
        BY <1>2 DEF Accept, AcceptFails, ClosedLast, RelayInv, EndsMatch
    <2>2. UNCHANGED <<upIn, upOut, downIn, downOut>>
        BY <1>2 DEF Accept, AcceptFails, pcbVars, upVars, downVars
    <2>3. /\ pcb' # "syn" /\ socks' = IF client' = "open" THEN "open" ELSE "none"
        BY <1>2, <2>1 DEF Accept, AcceptFails
    <2> QED BY <2>1, <2>2, <2>3 DEF Contract!Next, Contract!Connect, ClosedLast
<1>3. ASSUME entry = "live", UpFlow, DownFlow, Contract!Ends /\ ClosedLast'
      PROVE  ClosedLast' /\ [Contract!Next]_(Contract!vars)
    BY <1>3, FlowIsContract DEF RelayInv, EndsMatch
<1>4. ASSUME UNCHANGED <<client, socks, pcb>> PROVE Contract!Ends /\ ClosedLast'
    BY <1>4 DEF Contract!Ends, ClosedLast
<1>5. ASSUME NEW n \in 1 .. Wnd, ClientData(n)
      PROVE  entry = "live" /\ UpFlow /\ DownFlow /\ Contract!Ends /\ ClosedLast'
    <2>1. /\ entry = "live" /\ client = "open" /\ socks = "open" /\ upOut' = upOut
          /\ UNCHANGED <<client, socks, pcb>> /\ UNCHANGED <<downIn, downOut>>
        BY <1>5 DEF ClientData, Idle, endVars, downVars, RelayInv, CallbacksMatch
    <2>2. upIn' >= upIn
        <3>1. n \in Nat /\ upIn \in Nat
            BY SizesAssumption DEF Prefix
        <3>2. upIn' = upIn \/ upIn' = upIn + n
            BY <1>5 DEF ClientData
        <3> QED BY <3>1, <3>2
    <2>3. UpFlow
        BY <2>1, <2>2 DEF UpFlow, Prefix
    <2> QED BY <1>4, <2>1, <2>3, StillFlowsDown
<1>6. CASE ClientFin \/ ClientError
    <2>1. PICK p \in {"detached", "freed"} : HandleFreedClient(p, "lost")
        BY <1>6 DEF ClientFin, ClientError, FreeClient, AfterClose
    <2>2. /\ entry = "live" /\ client = "open"
          /\ UNCHANGED <<upIn, upOut>> /\ UNCHANGED <<downIn, downOut>>
        BY <1>6 DEF ClientFin, ClientError, Idle, pcbVars, upVars, downVars
    <2>3. Contract!Ends /\ ClosedLast'
        BY <2>1, <2>2, FreedClientEnds
    <2> QED BY <1>3, <2>2, <2>3, StillFlows, StillFlowsDown
<1>7. CASE NullFin \/ SocksUp
    <2>1. /\ entry = "live" /\ UNCHANGED <<client, socks>> /\ pcb' # "syn"
          /\ UNCHANGED <<upIn, upOut>> /\ UNCHANGED <<downIn, downOut>>
        BY <1>7 DEF NullFin, SocksUp, Idle, endVars, pcbVars, upVars, downVars,
                    RelayInv, EndsMatch
    <2>2. Contract!Ends /\ ClosedLast'
        BY <2>1 DEF Contract!Ends, ClosedLast
    <2> QED BY <1>3, <2>1, <2>2, StillFlows, StillFlowsDown
<1>8. CASE LastAck
    <2>1. /\ entry = "live" /\ client = "open" /\ UNCHANGED <<client, socks>>
          /\ pcb' = "freed" /\ UNCHANGED <<upIn, upOut>> /\ downIn' = downIn
          /\ downOut' = downOut \o flight
        BY <1>8 DEF LastAck, Idle, pcbVars, upVars
    <2>2. Len(downOut') >= Len(downOut)
        <3>1. downOut \in Seq(Nat) /\ flight \in Seq(Nat)
            BY DEF RelayInv, TypeOK
        <3> QED BY <2>1, <3>1, ConcatProperties
    <2>3. DownFlow
        BY <2>1, <2>2 DEF DownFlow, Prefix
    <2>4. Contract!Ends /\ ClosedLast'
        BY <2>1 DEF Contract!Ends, ClosedLast
    <2> QED BY <1>3, <2>1, <2>3, <2>4, StillFlows
<1>9. ASSUME NEW n \in 1 .. SndBuf, ClientAck(n)
      PROVE  entry = "live" /\ UpFlow /\ DownFlow /\ Contract!Ends /\ ClosedLast'
    <2>1. /\ entry = "live" /\ client = "open" /\ UNCHANGED <<upIn, upOut>>
          /\ downIn' = downIn /\ n \in 1 .. Len(flight)
          /\ downOut' = downOut \o SubSeq(flight, 1, n)
        BY <1>9 DEF ClientAck, Idle, pcbVars, upVars
    <2>2. DownFlow
        <3>1. Len(downOut') = Len(downOut) + n /\ n \in Nat
            BY <2>1, AckFacts
        <3>2. Len(downOut') >= Len(downOut)
            BY <3>1 DEF Prefix
        <3> QED BY <2>1, <3>2 DEF DownFlow, Prefix
    <2>3. CASE UNCHANGED endVars
        BY <1>4, <2>1, <2>2, <2>3, StillFlows DEF endVars
    <2>4. CASE HandleFreedClient("freed", "lost")
        BY <2>1, <2>2, <2>4, StillFlows, FreedClientEnds
    <2>5. CASE /\ recv_used = -1 /\ flight' = SubSeq(flight, n + 1, Len(flight))
               /\ pending' = pending - n /\ socks # "open" /\ pending - n = 0
               /\ FreeClient(pcb, "closed") /\ recv_buf' = recv_buf
        <3>1. PICK p \in {"detached", "freed"} : HandleFreedClient(p, "closed")
            BY <2>5 DEF FreeClient, AfterClose
        <3>2. recv_buf' = <<>>
            <4>1. Len(recv_buf) \in Nat
                BY NonEmpty DEF RelayInv, TypeOK
            <4> QED BY <2>5, <4>1 DEF recv_used
        <3>3. flight' = <<>>
            <4>1. pending = Len(flight)
                BY <1>9, <2>1 DEF ClientAck, RelayInv, WillBeSent
            <4>2. Len(flight') = 0 /\ flight' \in Seq(Nat)
                BY <2>1, <2>5, <4>1, AckFacts
            <4> QED BY <4>2, NonEmpty
        <3>4. Len(downOut') = downIn'
            BY <3>2, <3>3 DEF Prefix
        <3>5. Contract!Ends /\ ClosedLast'
            BY <2>1, <2>5, <3>1, <3>4, FreedClientEnds
        <3> QED BY <2>1, <2>2, <3>5, StillFlows
    <2> QED BY <1>9, <2>3, <2>4, <2>5 DEF ClientAck, AbortsClient
<1>10. CASE SocksError \/ SocksClosed
    <2>1. /\ entry = "live" /\ FreeSocks("lost")
          /\ UNCHANGED <<upIn, upOut>> /\ UNCHANGED <<downIn, downOut>>
        BY <1>10 DEF SocksError, SocksClosed, pcbVars, upVars, downVars
    <2>2. Contract!Ends /\ ClosedLast'
        BY <2>1, FreeSocksEnds
    <2> QED BY <1>3, <2>1, <2>2, StillFlows, StillFlowsDown
<1>11. CASE Murder
    <2>1. /\ entry = "live" /\ UNCHANGED <<upIn, upOut>> /\ UNCHANGED <<downIn, downOut>>
          /\ client' = IF client = "open" THEN "lost" ELSE client
          /\ socks' = IF socks = "open" THEN "lost" ELSE socks
          /\ pcb' = IF client = "open" THEN "freed" ELSE pcb
        BY <1>11 DEF Murder, Idle, pcbVars, upVars, downVars
    <2>2. Contract!Ends /\ ClosedLast'
        BY <2>1 DEF Contract!Ends, ClosedLast
    <2> QED BY <1>3, <2>1, <2>2, StillFlows, StillFlowsDown
<1>12. ASSUME NEW k \in 1 .. Wnd, SendDone(k)
       PROVE  entry = "live" /\ UpFlow /\ DownFlow /\ Contract!Ends /\ ClosedLast'
    <2>1. /\ entry = "live" /\ UNCHANGED <<downIn, downOut>> /\ upIn' = upIn
          /\ upOut' = upOut \o SubSeq(buf, 1, k) /\ buf' = SubSeq(buf, k + 1, Len(buf))
          /\ AfterSend(k) /\ k \in 1 .. send_len
        BY <1>12 DEF SendDone, MoveBuf, downVars
    <2>2. socks = "open"
        BY <2>1 DEF RelayInv, EndsMatch, TypeOK
    <2>3. /\ k \in Nat \ {0} /\ k <= Len(buf) /\ Len(buf) \in Nat /\ buf \in Seq(Nat)
          /\ upOut \in Seq(Nat) /\ Follows(buf, Len(upOut)) /\ Len(upOut) \in Nat
        <3>1. /\ send_len \in Nat /\ send_len > 0 /\ buf \in Seq(Nat) /\ upOut \in Seq(Nat)
              /\ Len(buf) \in Nat
            BY <2>1, NonEmpty DEF RelayInv, TypeOK
        <3>2. send_len <= Len(buf)
            BY <2>1, <2>2, <3>1 DEF RelayInv, EndsMatch, SendGoing, Up, TypeOK
        <3> QED BY <2>1, <3>1, <3>2 DEF Prefix, RelayInv, UpInOrder
    <2>4. SubSeq(buf, 1, k) \in Seq(Nat)
        BY <2>3, PartFacts
    <2>5. Len(upOut') >= Len(upOut)
        BY <2>1, <2>3, <2>4, ConcatProperties
    <2>6. UpFlow
        BY <2>1, <2>2, <2>5 DEF UpFlow, Prefix
    <2>7. CASE UNCHANGED endVars
        BY <1>4, <2>1, <2>6, <2>7, StillFlowsDown DEF endVars
    <2>8. CASE Len(buf) = k /\ client # "open" /\ FreeSocks("closed")
        <3>1. buf' = <<>>
            <4>1. \A n \in Nat : n + 1 > n
                OBVIOUS
            <4> QED BY <2>1, <2>3, <2>8, <4>1, SubSeqEmpty
        <3>2. Len(upOut') = upIn'
            BY <3>1 DEF Prefix
        <3>3. Contract!Ends /\ ClosedLast'
            BY <2>1, <2>8, <3>2, FreeSocksEnds
        <3> QED BY <2>1, <2>6, <3>3, StillFlowsDown
    <2> QED BY <2>1, <2>7, <2>8 DEF AfterSend
<1>13. ASSUME NEW n \in 1 .. RecvBuf, RecvDone(n)
       PROVE  entry = "live" /\ UpFlow /\ DownFlow /\ Contract!Ends /\ ClosedLast'
    <2>1. entry = "live" /\ UNCHANGED <<upIn, upOut>> /\ receiving = 1
        BY <1>13 DEF RecvDone, pcbVars, upVars
    <2>2. socks = "open"
        BY <2>1 DEF RelayInv, EndsMatch
    <2>3. CASE UNCHANGED endVars /\ UNCHANGED <<downIn, downOut>>
        BY <1>4, <2>1, <2>3, StillFlows, StillFlowsDown DEF endVars
    <2>4. ASSUME client = "open", downIn' = downIn + n, downOut' = downOut PROVE DownFlow
        <3>1. n \in Nat
            BY SizesAssumption
        <3>2. downIn' >= downIn
            BY <2>4, <3>1 DEF Prefix
        <3> QED BY <2>2, <2>4, <3>2 DEF DownFlow, Prefix
    <2>5. CASE client = "open" /\ downIn' = downIn + n /\ downOut' = downOut /\ UNCHANGED endVars
        BY <1>4, <2>1, <2>4, <2>5, StillFlows DEF endVars
    <2>6. CASE /\ client = "open" /\ downIn' = downIn + n /\ downOut' = downOut
               /\ HandleFreedClient("freed", "lost")
        BY <2>1, <2>4, <2>6, StillFlows, FreedClientEnds
    <2> QED BY <1>13, <2>3, <2>5, <2>6 DEF RecvDone, AbortsClient, downVars
<1> QED BY <1>1, <1>2, <1>3, <1>5, <1>6, <1>7, <1>8, <1>9, <1>10, <1>11, <1>12,
           <1>13 DEF Next

(* The relay implements its contract, for all buffer sizes.                *)
THEOREM RelayRefines == Spec => RelaysInOrder
<1>1. Init => Contract!Init /\ ClosedLast
    BY DEF Init, Contract!Init, ClosedLast
<1>2. RelayInv /\ RelayInv' /\ ClosedLast /\ [Next]_vars
        => ClosedLast' /\ [Contract!Next]_(Contract!vars)
    BY Prefixes, PrefixesNext, RefineStep
<1> QED BY <1>1, <1>2, RelaySafe, PTL DEF Spec, RelaysInOrder, Contract!Spec
=============================================================================
