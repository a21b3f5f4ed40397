------------------------------ MODULE UdpRelay ------------------------------
(***************************************************************************)
(* UDP through the tunnel: every datagram leaves by one socket, and a      *)
(* table of the last local address that sent to each remote one says where *)
(* an answer goes.  The flow's thread writes the table, the socket's queue *)
(* reads it, and no lock is taken.  Between them is a network that loses,  *)
(* repeats and reorders, and a socket that is not connected: anyone who    *)
(* finds its port may send it a datagram.                                  *)
(***************************************************************************)
EXTENDS Naturals, FiniteSets

CONSTANTS
    Locals,    \* local addresses and ports
    Remotes,   \* remote addresses and ports
    MaxFlight, \* bound: datagrams coming in, and packets of the main queue
    Nobody     \* 0.0.0.0:0, which the parts of a missing entry amount to;
               \* and the asker of a datagram that nobody asked for

ASSUME UdpAssumption == Nobody \notin Locals /\ MaxFlight \in Nat

VARIABLES
    session,   \* _udpSession
    storing,   \* the entry that handleUdpPacket is adding, if any
    questions, \* datagrams on their way to a remote
    answers,   \* datagrams on their way in, with who asked
    queue,     \* packets for the main queue to write to the flow
    later,     \* history: <<r, a, b>> if b sent to r after a had
    raced,     \* history: an answer was looked up while an entry was added
    alive      \* the process has not crashed in such a race

udpVars == <<session, storing, questions, answers, queue, later, raced, alive>>

Sends   == [remote : Remotes, local : Locals]
Datagrams == [remote : Remotes, local : Locals \cup {Nobody}]
UdpPackets ==
    [remote : Remotes, to : Locals \cup {Nobody}, asker : Locals \cup {Nobody}]

UdpTypeOK ==
    /\ session \in [Remotes -> Locals \cup {Nobody}]
    /\ storing \subseteq Sends
    /\ questions \subseteq Sends /\ answers \subseteq Datagrams
    /\ queue \subseteq UdpPackets
    /\ later \subseteq Remotes \X Locals \X Locals
    /\ raced \in {"no", "yes"} /\ alive \in {"yes", "no"}

UdpInit ==
    /\ session = [r \in Remotes |-> Nobody] /\ storing = {}
    /\ questions = {} /\ answers = {} /\ queue = {}
    /\ later = {} /\ raced = "no" /\ alive = "yes"

-----------------------------------------------------------------------------
(* handleUdpPacket up to the table.                                        *)
HandleUdpPacket(local, remote) ==
    /\ alive = "yes" /\ storing = {}
    /\ storing' = {[remote |-> remote, local |-> local]}
    /\ UNCHANGED <<session, questions, answers, queue, later, raced, alive>>

(* Mutant: an entry that is there stays.                                   *)
MutEntry(s) ==
    [session EXCEPT ![s.remote] = IF @ = Nobody THEN s.local ELSE @]

(* The entry for the remote address, whoever had it.                       *)
Entry(s) == [session EXCEPT ![s.remote] = s.local]

(* The entry is in the table, and the datagram goes to the socket.         *)
Send(s) ==
    /\ alive = "yes" /\ s \in storing /\ storing' = {}
    /\ session' = Entry(s)
    /\ questions' = questions \cup {s}
    /\ later' = later \cup
         {<<s.remote, a, s.local>> :
             a \in {a \in Locals : [remote |-> s.remote, local |-> a] \in questions}}
    /\ UNCHANGED <<answers, queue, raced, alive>>

-----------------------------------------------------------------------------
(* The network.  A datagram that stays in its set can arrive again; one    *)
(* that nothing happens to is lost.                                        *)

Answer(q) ==
    /\ q \in questions /\ Cardinality(answers) < MaxFlight
    /\ answers' = answers \cup {q}
    /\ UNCHANGED <<session, storing, questions, queue, later, raced, alive>>

(* A datagram from a remote that was never sent one, or an unasked one.    *)
Unasked(remote) ==
    /\ Cardinality(answers) < MaxFlight
    /\ answers' = answers \cup {[remote |-> remote, local |-> Nobody]}
    /\ UNCHANGED <<session, storing, questions, queue, later, raced, alive>>

LoseAnswer(a) ==
    /\ a \in answers /\ answers' = answers \ {a}
    /\ UNCHANGED <<session, storing, questions, queue, later, raced, alive>>

-----------------------------------------------------------------------------
(* What a lookup finds: the entry, or nothing if no datagram went to this  *)
(* remote, and the parts of nothing are 0; while another thread adds an    *)
(* entry, also the new one if it is this one's, or nothing.                *)
Found(remote) ==
    {session[remote]} \cup {s.local : s \in {s \in storing : s.remote = remote}}
        \cup (IF storing = {} THEN {} ELSE {Nobody})

(* didReceiveData: whoever sent the datagram, a packet is addressed and    *)
(* posted to the main queue.                                               *)
DidReceiveData(a) ==
    /\ alive = "yes" /\ a \in answers /\ Cardinality(queue) < MaxFlight
    /\ answers' \in {answers, answers \ {a}}
    /\ \E to \in Found(a.remote) :
          queue' = queue \cup {[remote |-> a.remote, to |-> to, asker |-> a.local]}
    /\ raced' = IF storing = {} THEN raced ELSE "yes"
    /\ UNCHANGED <<session, storing, questions, later, alive>>

(* The table is torn under the lookup.                                     *)
Crash(a) ==
    /\ alive = "yes" /\ a \in answers /\ storing # {}
    /\ alive' = "no" /\ raced' = "yes"
    /\ UNCHANGED <<session, storing, questions, answers, queue, later>>

(* writePacket's block, on the main queue.                                 *)
WritePacket(p) ==
    /\ alive = "yes" /\ p \in queue
    /\ queue' = queue \ {p}
    /\ UNCHANGED <<session, storing, questions, answers, later, raced, alive>>

UdpNext ==
    \/ \E local \in Locals, remote \in Remotes : HandleUdpPacket(local, remote)
    \/ \E s \in Sends : Send(s) \/ Answer(s)
    \/ \E remote \in Remotes : Unasked(remote)
    \/ \E a \in Datagrams : LoseAnswer(a) \/ DidReceiveData(a) \/ Crash(a)
    \/ \E p \in UdpPackets : WritePacket(p)

UdpSpec == UdpInit /\ [][UdpNext]_udpVars

-----------------------------------------------------------------------------
(* An answer that goes to another than who asked goes to one who sent to   *)
(* the same remote address later: with one user of a remote address the    *)
(* table misleads no answer, however the network delays or repeats it.     *)
MisledOnlyByLater ==
    \A p \in queue :
        p.to \in Locals /\ p.asker \in Locals /\ p.to # p.asker =>
            \/ <<p.remote, p.asker, p.to>> \in later
            \/ [remote |-> p.remote, local |-> p.to] \in storing

(* A packet goes only to one who sent to the address it comes from: no     *)
(* datagram reaches a local address that did not begin to talk to its      *)
(* source, whoever sends what and however late.                            *)
OnlyToSenders ==
    \A p \in queue : p.to \in Locals =>
        [remote |-> p.remote, local |-> p.to] \in questions \cup storing

(* A packet is addressed to nobody only if nobody asked for its datagram,  *)
(* or the table was read while it was written: an answer cannot come       *)
(* before the entry of its question. A datagram from a source that was     *)
(* never sent to is not dropped, it goes to the flow for 0.0.0.0:0.        *)
NobodyOnlyUnasked ==
    raced = "no" => \A p \in queue : p.to = Nobody => p.asker = Nobody

(* Every answer reaches its asker but for these cases, and what was not    *)
(* asked for nobody who has not sent to its source.                        *)
AnswersAddressed == MisledOnlyByLater /\ OnlyToSenders /\ NobodyOnlyUnasked
=============================================================================
