------------------------------ MODULE TcpRelay ------------------------------
(***************************************************************************)
(* One entry of tun2socks' list of TCP clients: the relay between a lwIP   *)
(* connection and the SOCKS connection opened for it.  Everything runs on  *)
(* the reactor's thread; a handler is one action, except that three lwIP   *)
(* callbacks run pending SOCKS jobs before they return (SYNC_COMMIT): `cb` *)
(* names the callback that is doing so, and `dead` is its DEAD variable.   *)
(* Bytes are numbered by their sender; a buffer is a sequence of them.     *)
(***************************************************************************)
EXTENDS Integers, Sequences, FiniteSets

CONSTANTS
    Wnd,      \* TCP_WND: the receive window and the size of tcp_client.buf
    SndBuf,   \* TCP_SND_BUF: bytes lwIP queues for the client
    RecvBuf,  \* CLIENT_SOCKS_RECV_BUF_SIZE
    MaxUp,    \* bound: bytes the client sends
    MaxDown   \* bound: bytes the SOCKS server sends

ASSUME SizesAssumption ==
    /\ {Wnd, SndBuf, RecvBuf} \subseteq Nat \ {0}
    /\ MaxUp \in Nat /\ MaxDown \in Nat

VARIABLES
    entry,     \* the tcp_client: "none", "live", "freed"
    client,    \* client_closed is client # "open"; "lost" or "closed" says why
    socks,     \* socks_closed is socks # "open"; likewise
    socks_up,  \* 1 once the SOCKS server accepted the request
    pcb,       \* lwIP: "syn", "est", "cw" (CLOSE_WAIT), "la" (LAST_ACK),
               \* "detached" (closing without callbacks), "freed"
    recv_cb,   \* the pcb's recv callback: "relay" or "null" (tcp_recv_null)
    rcv_wnd,   \* the pcb's receive window
    refused,   \* 1 when a callback refused data
    flight,    \* bytes lwIP holds for the client, not acknowledged
    buf,       \* bytes for the SOCKS server (buf_used is Len(buf))
    send_len,  \* length of the send in progress, 0 when there is none
    receiving, \* 1 while a receive from the SOCKS server is in progress
    recv_buf,  \* bytes for the client; empty is socks_recv_buf_used = -1
    recv_sent, \* socks_recv_buf_sent
    waiting,   \* socks_recv_waiting
    pending,   \* socks_recv_tcp_pending
    cb, dead,  \* the callback inside SYNC_COMMIT, and its DEAD variable
    ret,       \* what the last lwIP callback returned: "OK", "ABRT", "MEM"
    upIn, upOut, downIn, downOut   \* history: bytes taken and handed over

pcbVars  == <<rcv_wnd, refused, upIn>>
upVars   == <<buf, upOut>>
downVars == <<flight, recv_buf, recv_sent, waiting, pending, downIn, downOut>>
jobVars  == <<send_len, receiving>>
endVars  == <<entry, client, socks, pcb, recv_cb, dead>>
vars == <<endVars, pcbVars, upVars, downVars, jobVars, socks_up, cb, ret>>

(* Mutant: the mark of bytes lwIP had no room for is lost.                 *)
MutRecvUsed == -1

(* socks_recv_buf_used.                                                    *)
recv_used == IF recv_buf = <<>> THEN -1 ELSE Len(recv_buf)
Min2(a, b) == IF a < b THEN a ELSE b
Bytes(from, n) == [i \in 1 .. n |-> from + i]
Idle == entry = "live" /\ cb = "none"

TypeOK ==
    /\ entry \in {"none", "live", "freed"}
    /\ client \in {"none", "open", "lost", "closed"}
    /\ socks \in {"none", "open", "lost", "closed"}
    /\ pcb \in {"syn", "est", "cw", "la", "detached", "freed"}
    /\ recv_cb \in {"relay", "null"}
    /\ socks_up \in {0, 1} /\ refused \in {0, 1} /\ receiving \in {0, 1}
    /\ waiting \in {0, 1} /\ dead \in {0, 1}
    /\ rcv_wnd \in 0 .. Wnd
    /\ flight \in Seq(Nat) /\ buf \in Seq(Nat) /\ recv_buf \in Seq(Nat)
    /\ upOut \in Seq(Nat) /\ downOut \in Seq(Nat)
    /\ send_len \in Nat /\ recv_sent \in Nat /\ pending \in Nat
    /\ upIn \in Nat /\ downIn \in Nat
    /\ cb \in {"none", "accept", "recv", "sent"}
    /\ ret \in {"OK", "ABRT", "MEM"}

Init ==
    /\ entry = "none" /\ client = "none" /\ socks = "none" /\ socks_up = 0
    /\ pcb = "syn" /\ recv_cb = "null" /\ rcv_wnd = Wnd /\ refused = 0
    /\ flight = <<>> /\ buf = <<>> /\ send_len = 0 /\ receiving = 0
    /\ recv_buf = <<>> /\ recv_sent = 0 /\ waiting = 0 /\ pending = 0
    /\ cb = "none" /\ dead = 0 /\ ret = "OK"
    /\ upIn = 0 /\ upOut = <<>> /\ downIn = 0 /\ downOut = <<>>

-----------------------------------------------------------------------------
(* How a connection ends.  Each operator fixes endVars and jobVars.        *)

(* What tcp_close leaves of a pcb in state s: unread data is answered with *)
(* a reset, which frees a pcb in CLOSE_WAIT; else a FIN is queued, and a   *)
(* caller that could not queue it aborts the pcb.                          *)
AfterClose(s) ==
    IF s # "la" /\ (rcv_wnd # Wnd \/ refused = 1)
    THEN {IF s = "cw" THEN "freed" ELSE "detached"}
    ELSE {"detached"} \cup (IF s = "la" THEN {} ELSE {"freed"})

(* Mutant: DEAD_KILL is left out.                                          *)
MutKillDead == dead' = 0

(* DEAD_KILL(dead_client): noted when a callback is inside SYNC_COMMIT.    *)
KillDead == dead' = IF cb = "none" THEN 0 ELSE 1

(* tcp_recv(pcb, NULL).                                                    *)
Unhook == recv_cb' = "null"

(* client_handle_freed_client: the pcb became p; buffered bytes still go   *)
(* to the SOCKS server.                                                    *)
HandleFreedClient(p, why) ==
    /\ pcb' = p /\ client' = why /\ Unhook /\ KillDead
    /\ IF buf # <<>> /\ socks = "open"
       THEN UNCHANGED <<entry, socks, jobVars>>
       ELSE /\ entry' = "freed"
            /\ socks' = IF socks = "open" THEN "closed" ELSE socks
            /\ send_len' = 0 /\ receiving' = 0

(* client_free_client, of a pcb that is in state s.                       *)
FreeClient(s, why) ==
    \E p \in AfterClose(s) : HandleFreedClient(p, why)

(* client_free_socks, for the reason `why`: a client with bytes on the way *)
(* to it stays until they are acknowledged.                                *)
FreeSocks(why) ==
    /\ socks = "open"
    /\ socks' = why /\ send_len' = 0 /\ receiving' = 0
    /\ LET draining == socks_up = 1 /\ (recv_used >= 0 \/ pending > 0)
       IN  \/ /\ client = "open" /\ draining
              /\ Unhook
              /\ UNCHANGED <<entry, client, pcb, dead>>
           \/ /\ client = "open" /\ ~draining
              /\ entry' = "freed" /\ client' = "closed"
              /\ pcb' \in AfterClose(pcb) /\ Unhook /\ KillDead
           \/ /\ client # "open"
              /\ entry' = "freed"
              /\ UNCHANGED <<client, pcb, recv_cb, dead>>

-----------------------------------------------------------------------------
(* listener_accept_func.                                                   *)

Accept ==
    /\ entry = "none" /\ pcb = "syn"
    /\ entry' = "live" /\ client' = "open" /\ socks' = "open"
    /\ pcb' = "est" /\ recv_cb' = "relay" /\ cb' = "accept" /\ dead' = 0
    /\ UNCHANGED <<pcbVars, upVars, downVars, jobVars, socks_up, ret>>

(* No memory, or no SOCKS client: lwIP aborts the pcb.                     *)
AcceptFails ==
    /\ entry = "none" /\ pcb = "syn"
    /\ pcb' = "freed" /\ client' = "closed" /\ ret' = "MEM"
    /\ UNCHANGED <<entry, socks, recv_cb, dead, pcbVars, upVars, downVars,
                   jobVars, socks_up, cb>>

(* SYNC_COMMIT is over: the callback returns to lwIP.                      *)
Return ==
    /\ cb # "none"
    /\ cb' = "none" /\ dead' = 0
    /\ ret' = IF dead = 1 THEN "ABRT" ELSE "OK"
    /\ UNCHANGED <<entry, client, socks, pcb, recv_cb, pcbVars, upVars,
                   downVars, jobVars, socks_up>>

-----------------------------------------------------------------------------
(* The client's segments, as lwIP hands them on.                           *)

(* The end of client_recv_func: bytes put into an empty buffer are sent.   *)
StartSend(n) ==
    IF buf = <<>> /\ socks_up = 1
    THEN send_len' = n /\ cb' = "recv" /\ UNCHANGED ret
    ELSE ret' = "OK" /\ UNCHANGED <<send_len, cb>>

(* client_recv_func with data: n bytes within the window.                  *)
ClientData(n) ==
    /\ Idle /\ client = "open" /\ pcb = "est" /\ recv_cb = "relay"
    /\ n \in 1 .. rcv_wnd /\ upIn + n <= MaxUp
    /\ rcv_wnd' = rcv_wnd - n
    /\ IF n > Wnd - Len(buf)
       THEN /\ ret' = "MEM" /\ refused' = 1
            /\ UNCHANGED <<upIn, buf, send_len, cb>>
       ELSE /\ buf' = buf \o Bytes(upIn, n) /\ upIn' = upIn + n
            /\ StartSend(n)
            /\ UNCHANGED refused
    /\ UNCHANGED <<endVars, upOut, downVars, receiving, socks_up>>

(* client_recv_func without data: the client closed.                       *)
ClientFin ==
    /\ Idle /\ client = "open" /\ pcb = "est" /\ rcv_wnd > 0
    /\ recv_cb = "relay"
    /\ FreeClient("cw", "lost")
    /\ ret' = "ABRT"
    /\ UNCHANGED <<pcbVars, upVars, downVars, socks_up, cb>>

(* tcp_recv_null: lwIP itself closes the pcb of a client that only waits   *)
(* for acknowledgements; a FIN it cannot queue is left out.                *)
NullFin ==
    /\ Idle /\ client = "open" /\ pcb = "est" /\ rcv_wnd > 0
    /\ recv_cb = "null"
    /\ pcb' \in IF rcv_wnd # Wnd \/ refused = 1 THEN {"freed"} ELSE {"la", "cw"}
    /\ ret' = "OK"
    /\ UNCHANGED <<entry, client, socks, recv_cb, dead, pcbVars, upVars,
                   downVars, jobVars, socks_up, cb>>

(* The last acknowledgement of a closed pcb: lwIP frees it and calls       *)
(* nothing, since the receive side is closed already.                      *)
LastAck ==
    /\ Idle /\ client = "open" /\ pcb = "la"
    /\ pcb' = "freed"
    /\ flight' = <<>> /\ downOut' = downOut \o flight
    /\ UNCHANGED <<entry, client, socks, recv_cb, dead, pcbVars, upVars,
                   recv_buf, recv_sent, waiting, pending, downIn, jobVars,
                   socks_up, cb, ret>>

(* client_err_func: a reset, a timeout of lwIP or memory it took back.     *)
ClientError ==
    /\ Idle /\ client = "open" /\ pcb \in {"est", "cw", "la"}
    /\ HandleFreedClient("freed", "lost")
    /\ UNCHANGED <<pcbVars, upVars, downVars, socks_up, cb, ret>>

-----------------------------------------------------------------------------

(* What tcp_write takes: k bytes of b, after the s queued before.          *)
Chunk(b, s, k) == SubSeq(b, s + 1, s + k)

(* client_socks_recv_send_out: bytes b, s of them queued before, to a pcb  *)
(* that holds f with `pend` bytes unconfirmed.  tcp_write queues all that  *)
(* fits or, out of memory, nothing.                                        *)
SendsOut(b, s, f, pend) ==
    \E k \in {0, Min2(Len(b) - s, SndBuf - Len(f))} :
        /\ pcb # "la" \/ Len(f) = SndBuf
        /\ s + k = Len(b) \/ pend + k > 0
        /\ flight' = f \o Chunk(b, s, k)
        /\ pending' = pend + k
        /\ IF s + k = Len(b)
           THEN recv_buf' = <<>> /\ recv_sent' = 0 /\ waiting' = 0
           ELSE recv_buf' = b /\ recv_sent' = s + k /\ waiting' = 1

(* The same, ending in client_abort_client: the pcb is closing, lwIP fails *)
(* to send, or nothing could be queued and nothing is unconfirmed.         *)
AbortsClient(b, s, f, pend) ==
    /\ flight' = f /\ pending' = pend
    /\ recv_buf' = b /\ recv_sent' = s /\ waiting' = 0
    /\ HandleFreedClient("freed", "lost")

(* Mutant: client_sent_func does not resume receiving.                     *)
MutResume == ret' = "OK" /\ UNCHANGED <<receiving, cb>>

(* The end of client_sent_func once more bytes were queued.                *)
Resume ==
    IF recv_buf' = <<>> /\ socks = "open"
    THEN receiving' = 1 /\ cb' = "sent" /\ UNCHANGED ret
    ELSE ret' = "OK" /\ UNCHANGED <<receiving, cb>>

(* client_sent_func: the client acknowledged n bytes.                      *)
ClientAck(n) ==
    /\ Idle /\ client = "open" /\ pcb \in {"est", "cw", "la"}
    /\ n \in 1 .. Len(flight)
    /\ downOut' = downOut \o SubSeq(flight, 1, n)
    /\ LET f == SubSeq(flight, n + 1, Len(flight))
           p == pending - n
       IN  \/ /\ recv_used > 0
              /\ SendsOut(recv_buf, recv_sent, f, p)
              /\ Resume
              /\ UNCHANGED <<endVars, send_len>>
           \/ /\ recv_used > 0
              /\ AbortsClient(recv_buf, recv_sent, f, p)
              /\ ret' = "ABRT" /\ UNCHANGED cb
           \/ /\ recv_used = -1
              /\ flight' = f /\ pending' = p
              /\ IF socks # "open" /\ p = 0
                 THEN FreeClient(pcb, "closed") /\ ret' = "ABRT"
                 ELSE ret' = "OK" /\ UNCHANGED <<endVars, jobVars>>
              /\ UNCHANGED <<recv_buf, recv_sent, waiting, cb>>
    /\ UNCHANGED <<pcbVars, upVars, downIn, socks_up>>

-----------------------------------------------------------------------------
(* The SOCKS connection.  A callback inside SYNC_COMMIT runs only the jobs *)
(* it started.                                                             *)

(* BSOCKSCLIENT_EVENT_UP.                                                  *)
SocksUp ==
    /\ Idle /\ socks = "open" /\ socks_up = 0
    /\ socks_up' = 1
    /\ send_len' = Len(buf)
    /\ receiving' = IF client = "open" THEN 1 ELSE 0
    /\ UNCHANGED <<endVars, pcbVars, upVars, downVars, cb, ret>>

(* BSOCKSCLIENT_EVENT_ERROR, before or after the connection is up.         *)
SocksError ==
    /\ entry = "live"
    /\ FreeSocks("lost")
    /\ UNCHANGED <<pcbVars, upVars, downVars, socks_up, cb, ret>>

(* BSOCKSCLIENT_EVENT_ERROR_CLOSED: end of stream, seen while receiving.   *)
SocksClosed ==
    /\ entry = "live" /\ receiving = 1 /\ cb \in {"none", "sent"}
    /\ FreeSocks("lost")
    /\ UNCHANGED <<pcbVars, upVars, downVars, socks_up, cb, ret>>

(* Mutant: the sent bytes stay at the front of the buffer.                 *)
MutMoveBuf(k) ==
    /\ upOut' = upOut \o SubSeq(buf, 1, k)
    /\ buf' = SubSeq(buf, 1, Len(buf) - k)

(* The first k bytes went out; memmove takes them from the buffer.         *)
MoveBuf(k) ==
    /\ upOut' = upOut \o SubSeq(buf, 1, k)
    /\ buf' = SubSeq(buf, k + 1, Len(buf))

(* tcp_recved, while there is a pcb.                                       *)
Recved(k) ==
    rcv_wnd' = IF client = "open" THEN Min2(rcv_wnd + k, Wnd) ELSE rcv_wnd

(* Mutant: a completed send neither sends the rest nor frees anything.     *)
MutAfterSend(k) == send_len' = 0 /\ UNCHANGED <<endVars, receiving>>

(* The rest is sent; with nothing left, a closed client is done with.      *)
AfterSend(k) ==
    \/ /\ Len(buf) > k \/ client = "open"
       /\ send_len' = Len(buf) - k
       /\ UNCHANGED <<endVars, receiving>>
    \/ /\ Len(buf) = k /\ client # "open"
       /\ FreeSocks("closed")

(* client_socks_send_handler_done: k bytes went to the SOCKS server.       *)
SendDone(k) ==
    /\ entry = "live" /\ cb \in {"none", "recv"} /\ k \in 1 .. send_len
    /\ MoveBuf(k) /\ Recved(k) /\ AfterSend(k)
    /\ UNCHANGED <<refused, upIn, downVars, socks_up, cb, ret>>

(* client_socks_recv_handler_done: n bytes came from the SOCKS server.     *)
RecvDone(n) ==
    /\ entry = "live" /\ receiving = 1 /\ cb \in {"none", "sent"}
    /\ n \in 1 .. RecvBuf
    /\ \/ /\ client # "open"
          /\ receiving' = 0
          /\ UNCHANGED <<endVars, downVars, send_len>>
       \/ /\ client = "open" /\ downIn + n <= MaxDown
          /\ downIn' = downIn + n
          /\ \/ /\ SendsOut(Bytes(downIn, n), 0, flight, pending)
                /\ receiving' = IF recv_buf' = <<>> THEN 1 ELSE 0
                /\ UNCHANGED <<endVars, send_len>>
             \/ AbortsClient(Bytes(downIn, n), 0, flight, pending)
          /\ UNCHANGED downOut
    /\ UNCHANGED <<pcbVars, upVars, socks_up, cb, ret>>

(* client_murder, when tun2socks' reactor has been told to quit.           *)
Murder ==
    /\ Idle
    /\ entry' = "freed"
    /\ client' = IF client = "open" THEN "lost" ELSE client
    /\ socks' = IF socks = "open" THEN "lost" ELSE socks
    /\ pcb' = IF client = "open" THEN "freed" ELSE pcb
    /\ recv_cb' = "null" /\ send_len' = 0 /\ receiving' = 0
    /\ UNCHANGED <<dead, pcbVars, upVars, downVars, socks_up, cb, ret>>

Next ==
    \/ Accept \/ AcceptFails \/ Return
    \/ \E n \in 1 .. Wnd : ClientData(n)
    \/ ClientFin \/ NullFin \/ LastAck \/ ClientError
    \/ \E n \in 1 .. SndBuf : ClientAck(n)
    \/ SocksUp \/ SocksError \/ SocksClosed
    \/ \E k \in 1 .. Wnd : SendDone(k)
    \/ \E n \in 1 .. RecvBuf : RecvDone(n)
    \/ Murder

Spec == Init /\ [][Next]_vars

-----------------------------------------------------------------------------
(* The reactor runs what is due; a connection attempt and a send that is   *)
(* in progress complete or fail, and a client that was sent bytes          *)
(* acknowledges them or its connection times out.                          *)
Fairness ==
    /\ WF_vars(Return)
    /\ WF_vars(socks_up = 0 /\ (SocksUp \/ SocksError))
    /\ WF_vars(send_len > 0 /\ (SocksError \/ \E k \in 1 .. Wnd : SendDone(k)))
    /\ WF_vars(flight # <<>> /\ (ClientError \/ \E n \in 1 .. SndBuf : ClientAck(n)))

FairSpec == Spec /\ Fairness

-----------------------------------------------------------------------------
(* What the entry's fields say of each other.                              *)

Up == entry = "live" /\ socks = "open" /\ socks_up = 1

(* Bytes wait for the SOCKS server exactly while a send is in progress,    *)
(* so client_recv_func's test of an empty buffer never starts a second     *)
(* send and never leaves bytes without one.                                *)
SendGoing == Up => (send_len > 0 <=> buf # <<>>) /\ send_len <= Len(buf)

(* A send in progress is never replaced: its length changes only when      *)
(* bytes went out or the SOCKS connection is freed.                        *)
OneSendAtATime ==
    [][(send_len > 0 /\ send_len' # send_len) => (upOut' # upOut \/ socks' # "open")]_vars

(* With both ends open the relay either receives from the SOCKS server or  *)
(* holds bytes that lwIP had no room for, never both and never neither.    *)
ReceiveGoing == (Up /\ client = "open") => (receiving = 1 <=> recv_buf = <<>>)

(* Bytes lwIP had no room for are marked as waiting and some byte is       *)
(* unconfirmed, so client_sent_func will be called for them; the pending   *)
(* count is what lwIP holds (the ASSERTs of client_sent_func).             *)
WillBeSent ==
    (entry = "live" /\ client = "open" /\ pcb # "freed") =>
        /\ pending = Len(flight)
        /\ recv_buf # <<>> => waiting = 1 /\ pending > 0 /\ recv_sent < Len(recv_buf)

(* Advertised window and buffered bytes together are the whole window, so  *)
(* a segment always fits ("no buffer for data !?!" is never logged).       *)
WindowFits ==
    /\ refused = 0
    /\ (entry = "live" /\ client = "open") => rcv_wnd + Len(buf) = Wnd

(* Neither direction stalls with bytes to move: what waits will be sent,   *)
(* what can come will be received, and the window says what fits.          *)
NothingStalls == SendGoing /\ ReceiveGoing /\ WillBeSent /\ WindowFits

(* The recv callback leads to the relay only while both ends are open, and *)
(* an entry is freed with both ends closed and no job of its own left.     *)
CallbacksMatch ==
    /\ recv_cb = "relay" => entry = "live" /\ client = "open" /\ socks = "open"
    /\ entry = "freed" => /\ client \in {"lost", "closed"}
                          /\ socks \in {"lost", "closed"}
                          /\ send_len = 0 /\ receiving = 0

(* The bytes of s are those its sender wrote after the first n.            *)
Follows(s, n) == \A i \in 1 .. Len(s) : s[i] = n + i

(* Nothing is lost, repeated or reordered on the way to the SOCKS server:  *)
(* what it got and what is buffered are the client's bytes, in order.      *)
UpInOrder ==
    /\ Len(upOut) + Len(buf) = upIn
    /\ Follows(upOut, 0) /\ Follows(buf, Len(upOut))

(* The same on the way to the client, through the part of recv_buf that    *)
(* lwIP had no room for and through its own queue.                         *)
DownInOrder ==
    LET unsent == SubSeq(recv_buf, recv_sent + 1, Len(recv_buf))
    IN  /\ recv_sent <= Len(recv_buf)
        /\ Len(downOut) + Len(flight) + Len(unsent) = downIn
        /\ Follows(downOut, 0) /\ Follows(flight, Len(downOut))
        /\ Follows(unsent, Len(downOut) + Len(flight))

(* What makes the invariants above inductive: which states of the two ends *)
(* go together, and what exists before an event that creates it.           *)
EndsMatch ==
    /\ entry = "none" => /\ socks = "none" /\ client \in {"none", "closed"}
                         /\ buf = <<>> /\ rcv_wnd = Wnd /\ socks_up = 0
                         /\ cb = "none"
    /\ entry # "none" => pcb # "syn" /\ client # "none" /\ socks # "none"
    /\ entry = "live" /\ client = "open" /\ socks = "open" =>
          pcb = "est" /\ recv_cb = "relay"
    /\ entry = "live" /\ client # "open" => socks = "open" /\ buf # <<>>
    /\ socks_up = 0 => /\ flight = <<>> /\ recv_buf = <<>> /\ pending = 0
                       /\ send_len = 0 /\ receiving = 0
    /\ send_len > 0 \/ receiving = 1 => entry = "live" /\ socks = "open"
    /\ Len(flight) <= SndBuf
    /\ cb = "none" => dead = 0
    /\ cb # "none" /\ pcb = "freed" => dead = 1

RelayInv ==
    /\ TypeOK /\ SendGoing /\ ReceiveGoing /\ WillBeSent /\ WindowFits
    /\ CallbacksMatch /\ UpInOrder /\ DownInOrder /\ EndsMatch

(* The steps in which a callback that may have lost its pcb returns.       *)
Returns == (Return \/ ClientFin \/ \E n \in 1 .. SndBuf : ClientAck(n)) /\ cb' = "none"

(* lwIP goes on with a pcb unless its callback returns ERR_ABRT: whenever  *)
(* the pcb was freed inside the callback, SYNC_COMMIT's jobs included, the *)
(* callback says so.                                                       *)
FreedPcbReported == [][(Returns /\ pcb' = "freed") => ret' = "ABRT"]_vars

(* An entry whose client is gone is freed: what the client sent before     *)
(* reaches the SOCKS server or its connection fails.                       *)
ClientGoneFreed == (entry = "live" /\ client # "open") ~> (entry = "freed")

(* Bytes taken from the SOCKS server are acknowledged unless the client    *)
(* goes away: no call of client_sent_func that would queue them is missed. *)
DownDelivered ==
    \A n \in 1 .. MaxDown :
        (downIn >= n) ~> (Len(downOut) >= n \/ client # "open" \/ pcb = "freed")

(* Once up, the relay hands on what the client sends unless the SOCKS      *)
(* connection fails: no completed send leaves bytes behind.                *)
UpDelivered ==
    \A n \in 1 .. MaxUp :
        (upIn >= n /\ socks_up = 1) ~> (Len(upOut) >= n \/ socks # "open")

(* Both directions deliver.                                                *)
BytesDelivered == DownDelivered /\ UpDelivered

(* The promise to both sides: each gets the other's bytes in order,        *)
(* without loss or repetition, and the relay ends a connection by itself   *)
(* only when the other end is over and nothing is left to hand over        *)
(* (client_free_socks, client_handle_freed_client, client_sent_func).      *)
Contract == INSTANCE RelayContract
RelaysInOrder == Contract!Spec
=============================================================================
