----------------------------- MODULE PacketPipe -----------------------------
(***************************************************************************)
(* The way of an IP packet from the packet flow into tun2socks: the thread *)
(* of the flow takes the packets of a read one by one and writes each TCP  *)
(* packet, behind two bytes with its length, into a pipe; the reactor of   *)
(* tun2socks reads the two bytes and then as many as they say, without     *)
(* blocking.  The pipe is kept byte by byte, since what can go wrong is    *)
(* where a read or a write stops.                                          *)
(***************************************************************************)
EXTENDS Naturals, Sequences

CONSTANTS
    Packets,   \* IP packets of the flow, each read once
    Tcp,       \* those that are TCP; the others do not enter the pipe
    Size,      \* bytes of each packet
    Capacity,  \* bytes that the pipe holds
    Atomic,    \* a write of at most so many bytes is not divided (PIPE_BUF)
    Misread,   \* lengths that bytes taken for a header may say
    MaxBatch,  \* bound: packets of one read
    Garbage    \* bytes that are no packet

Frame(p) == [k \in 1 .. Size[p] + 2 |-> <<p, k>>]

ASSUME PipeAssumption ==
    /\ Tcp \subseteq Packets /\ Garbage \notin Packets
    /\ Size \in [Packets -> Nat \ {0}] /\ Misread \subseteq Nat
    /\ Capacity \in Nat \ {0} /\ Atomic \in Nat /\ Atomic <= Capacity
    /\ MaxBatch \in Nat

VARIABLES
    unread,  \* packets that the flow has not handed over
    batch,   \* packets of the read that the flow's thread works on
    reading, \* readPackets has been called and not been answered
    left,    \* the frame in write(): the bytes that are still to go
    pipe,    \* the bytes in the pipe
    tun,     \* tun2socks: "absent", "running" or "ended"
    armed,   \* BREACTOR_READ is set: there is a buffer to read into
    sent,    \* history: TCP packets whose write has begun
    got,     \* history: what the device handed to lwIP
    divided, \* history: packets whose write stopped behind which byte
    failed   \* history: the device reported an error

flowVars == <<unread, batch, reading, left>>
tunVars  == <<tun, armed>>
vars == <<flowVars, pipe, tunVars, sent, got, divided, failed>>

TypeOK ==
    /\ unread \subseteq Packets /\ batch \in Seq(Packets) /\ reading \in BOOLEAN
    /\ left \in Seq(Tcp \X Nat) /\ pipe \in Seq(Tcp \X Nat) /\ Len(pipe) <= Capacity
    /\ tun \in {"absent", "running", "ended"} /\ armed \in BOOLEAN
    /\ sent \in Seq(Tcp) /\ got \in Seq(Tcp \cup {Garbage})
    /\ divided \subseteq Nat /\ failed \in BOOLEAN

Init ==
    /\ unread = Packets /\ batch = <<>> /\ reading = TRUE /\ left = <<>>
    /\ pipe = <<>> /\ tun = "absent" /\ armed = FALSE
    /\ sent = <<>> /\ got = <<>> /\ divided = {} /\ failed = FALSE

First(s, n) == SubSeq(s, 1, n)
Rest(s, n)  == SubSeq(s, n + 1, Len(s))
Least(m, n) == IF m < n THEN m ELSE n

-----------------------------------------------------------------------------
(* The flow's thread.                                                      *)

(* The read is answered with some packets.                                 *)
PacketsRead ==
    /\ reading /\ reading' = FALSE
    /\ \E n \in 1 .. MaxBatch : \E b \in [1 .. n -> unread] :
          /\ \A i, j \in 1 .. n : b[i] = b[j] => i = j
          /\ batch' = b /\ unread' = unread \ {b[i] : i \in 1 .. n}
    /\ UNCHANGED <<left, pipe, tunVars, sent, got, divided, failed>>

(* The block goes on to the next packet, and behind the last reads again.  *)
Go(b) == batch' = b /\ reading' = (b = <<>>)

(* handleTcpPacket up to its write.                                        *)
HandleTcpPacket ==
    /\ batch # <<>> /\ left = <<>> /\ Head(batch) \in Tcp
    /\ left' = Frame(Head(batch)) /\ sent' = Append(sent, Head(batch))
    /\ UNCHANGED <<unread, batch, reading, pipe, tunVars, got, divided, failed>>

(* A packet that is not TCP is sent by the UDP socket or dropped.          *)
HandleOther ==
    /\ batch # <<>> /\ left = <<>> /\ Head(batch) \notin Tcp
    /\ Go(Tail(batch))
    /\ UNCHANGED <<unread, left, pipe, tunVars, sent, got, divided, failed>>

(* What the kernel takes of a blocking write: a short one whole or not at  *)
(* all, of a longer one what fits.                                         *)
Room ==
    IF Size[left[1][1]] + 2 <= Atomic /\ Len(left) > Capacity - Len(pipe) THEN 0
    ELSE Least(Capacity - Len(pipe), Len(left))

(* Mutant: what write() took of a frame is taken for all of it.            *)
MutWrite ==
    /\ left # <<>> /\ Room > 0
    /\ pipe' = pipe \o First(left, Room) /\ left' = <<>>
    /\ Go(Tail(batch))
    /\ UNCHANGED <<unread, tunVars, sent, got, divided, failed>>

(* write(): it returns when all bytes are in the pipe.                     *)
Write ==
    /\ left # <<>> /\ Room > 0
    /\ pipe' = pipe \o First(left, Room) /\ left' = Rest(left, Room)
    /\ divided' = IF left' = <<>> THEN divided
                  ELSE divided \cup {left[1][2] + Room - 1}
    /\ IF left' = <<>> THEN Go(Tail(batch)) ELSE UNCHANGED <<batch, reading>>
    /\ UNCHANGED <<unread, tunVars, sent, got, failed>>

-----------------------------------------------------------------------------
(* The reactor's thread.                                                   *)

(* tun2socks enters its event loop with a receive scheduled.               *)
Tun2SocksStarts ==
    /\ tun = "absent" /\ tun' = "running" /\ armed' = TRUE
    /\ UNCHANGED <<flowVars, pipe, sent, got, divided, failed>>

(* One byte is no header, and is gone.                                     *)
ReadLoneByte ==
    /\ tun = "running" /\ armed /\ Len(pipe) = 1
    /\ pipe' = <<>>
    /\ UNCHANGED <<flowVars, tunVars, sent, got, divided, failed>>

(* What two bytes say when they are the header of a frame, and when not.   *)
IsHeader(a, b) == a[1] = b[1] /\ a[2] = 1 /\ b[2] = 2

Lengths(a, b) == IF IsHeader(a, b) THEN {Size[a[1]]} ELSE Misread

(* Mutant: what there is of a packet is taken for the packet.              *)
MutReport(bytes, n) == FALSE

(* The second read returned something else than the header announced.      *)
Report(bytes, n) == bytes # n

(* fd_handler: the header, the packet, and an error if less was there.     *)
ReadFrame ==
    /\ tun = "running" /\ armed /\ Len(pipe) > 1
    /\ \E n \in Lengths(pipe[1], pipe[2]) :
          LET bytes == Least(n, Len(pipe) - 2) IN
          /\ pipe' = Rest(pipe, bytes + 2)
          /\ \/ /\ Report(bytes, n)
                /\ tun' = "ended" /\ failed' = TRUE /\ UNCHANGED <<armed, got>>
             \/ /\ ~Report(bytes, n) /\ n = 0
                /\ UNCHANGED <<tunVars, got, failed>>
             \/ /\ ~Report(bytes, n) /\ n > 0 /\ armed' = FALSE
                /\ got' = Append(got,
                     IF IsHeader(pipe[1], pipe[2]) /\ bytes = n THEN pipe[1][1] ELSE Garbage)
                /\ UNCHANGED <<tun, failed>>
    /\ UNCHANGED <<flowVars, sent, divided>>

(* Mutant: the buffer is free again only when the pipe has been emptied.   *)
MutRecv ==
    /\ tun = "running" /\ ~armed /\ pipe = <<>> /\ armed' = TRUE
    /\ UNCHANGED <<flowVars, pipe, tun, sent, got, divided, failed>>

(* lwIP has the packet, and the buffer is free again.                      *)
Recv ==
    /\ tun = "running" /\ ~armed /\ armed' = TRUE
    /\ UNCHANGED <<flowVars, pipe, tun, sent, got, divided, failed>>

Stop ==
    /\ tun = "running" /\ tun' = "ended"
    /\ UNCHANGED <<flowVars, pipe, armed, sent, got, divided, failed>>

FlowThread == PacketsRead \/ HandleTcpPacket \/ HandleOther \/ Write
Reactor    == Tun2SocksStarts \/ ReadLoneByte \/ ReadFrame \/ Recv \/ Stop

Next == FlowThread \/ Reactor

Spec == Init /\ [][Next]_vars

(* Both threads run; nobody need send a packet or stop the tunnel.         *)
FairSpec ==
    /\ Spec /\ WF_vars(HandleTcpPacket \/ HandleOther \/ Write)
    /\ WF_vars(Tun2SocksStarts \/ ReadLoneByte \/ ReadFrame \/ Recv)

-----------------------------------------------------------------------------
(* lwIP receives the packets in the order of their writes, none twice, none*)
(* changed and none left out, unless a write was divided behind the first  *)
(* byte of a header; and unless a write was divided the device reports no  *)
(* error, at whatever speeds the two threads run.                          *)
InOrder ==
    /\ 1 \notin divided =>
          Len(got) <= Len(sent) /\ \A i \in 1 .. Len(got) : got[i] = sent[i]
    /\ failed => divided # {}

(* A full pipe holds the flow, and with it the UDP packets of the same     *)
(* read, only until tun2socks reads on or ends.                            *)
FlowGoesOn == batch # <<>> ~> batch = <<>> \/ tun = "ended"

(* The packets received before the first that is not the one sent.         *)
InStep ==
    First(got, CHOOSE n \in 0 .. Len(got) :
                  /\ n <= Len(sent) /\ First(got, n) = First(sent, n)
                  /\ n < Len(got) => n = Len(sent) \/ got[n + 1] # sent[n + 1])

(* The receiver is stopped, or fails after a write was divided, or a write *)
(* was divided behind the first byte of a header: the reader takes that    *)
(* byte away, and everything behind it for something else.                 *)
Over == 1 \in divided \/ (tun = "ended" /\ (failed => divided # {}))

(* The pipe is the queue it is meant to be until then.  Two threads that   *)
(* run at their own speeds never make the device fail.                     *)
Queue == INSTANCE PacketQueue WITH Packets <- Tcp, got <- InStep, ended <- Over

IsQueue == Queue!Spec
=============================================================================
