--------------------------- MODULE SocksForwarder ---------------------------
(***************************************************************************)
(* One connection of the SOCKS server once its request is granted: a       *)
(* thread of its own copies what comes from the client ("local", tun2socks)*)
(* to the other end ("remote", ss-local or the server itself) and back.    *)
(* The thread serves both ways in turn, with sockets that block, and       *)
(* closes both when one has come to its end.                               *)
(***************************************************************************)
EXTENDS Integers, FiniteSets

CONSTANTS
    ReadLen,  \* what one recv takes at most: szBuffer
    Room,     \* what the system buffers for one way of one socket
    MaxBytes  \* bound: bytes that each end writes

ASSUME ForwarderAssumption ==
    ReadLen \in Nat \ {0} /\ Room \in Nat \ {0} /\ MaxBytes \in Nat

VARIABLES
    sent,    \* bytes that each end has written
    inbox,   \* those of them that wait in the thread's socket for that end
    passed,  \* those that the thread has passed to the socket of the other end
    got,     \* those that the other end has read
    ended,   \* ends that write no more
    reset,   \* ends whose connection is gone
    at,      \* where the thread is
    turn,    \* the end whose bytes it is about
    ready,   \* fds: the ends that select found readable
    held,    \* bytes of szBuffer that still have to be sent
    closing  \* bCloseConn: the ends that have turned out to be at their end

endVars == <<sent, got, ended, reset>>
threadVars == <<at, turn, ready, held, closing>>
vars == <<endVars, inbox, passed, threadVars>>

Sides == {"local", "remote"}
Other(s) == IF s = "local" THEN "remote" ELSE "local"

Least(i, j) == IF i <= j THEN i ELSE j

TypeOK ==
    /\ sent \in [Sides -> 0..MaxBytes] /\ inbox \in [Sides -> 0..Room]
    /\ passed \in [Sides -> Nat] /\ got \in [Sides -> Nat]
    /\ \A s \in Sides : passed[s] - got[s] \in 0..Room
    /\ ended \subseteq Sides /\ reset \subseteq Sides
    /\ at \in {"new", "lost", "select", "recv", "send", "test", "closed"}
    /\ turn \in Sides /\ ready \subseteq Sides /\ closing \subseteq Sides
    /\ held \in 0..ReadLen

(* The reply to the request has gone out.                                  *)
Init ==
    /\ sent = [s \in Sides |-> 0] /\ inbox = sent /\ passed = sent /\ got = sent
    /\ ended = {} /\ reset = {}
    /\ at = "new" /\ turn = "local" /\ ready = {} /\ held = 0 /\ closing = {}

-----------------------------------------------------------------------------
(* The two ends.  What they do after the thread has closed is left out.    *)

Alive(s) == at # "closed" /\ s \notin reset

Write(s) ==
    /\ Alive(s) /\ s \notin ended
    /\ sent[s] < MaxBytes /\ inbox[s] < Room
    /\ sent' = [sent EXCEPT ![s] = @ + 1] /\ inbox' = [inbox EXCEPT ![s] = @ + 1]
    /\ UNCHANGED <<passed, got, ended, reset, threadVars>>

(* End s reads what came from the other one.                               *)
Read(s) ==
    /\ s \notin reset
    /\ \E n \in 1..(passed[Other(s)] - got[Other(s)]) :
           got' = [got EXCEPT ![Other(s)] = @ + n]
    /\ UNCHANGED <<sent, inbox, passed, ended, reset, threadVars>>

EndOf(s) ==
    /\ Alive(s) /\ s \notin ended
    /\ ended' = ended \cup {s}
    /\ UNCHANGED <<sent, inbox, passed, got, reset, threadVars>>

(* With the connection goes what the thread has not read, or stays.        *)
ResetBy(s) ==
    /\ Alive(s)
    /\ reset' = reset \cup {s}
    /\ \E n \in {0, inbox[s]} : inbox' = [inbox EXCEPT ![s] = n]
    /\ UNCHANGED <<sent, passed, got, ended, threadVars>>

-----------------------------------------------------------------------------
(* The thread.                                                             *)

(* conn_forwardData ignores that no thread could be had.                   *)
CreateForwarderThread ==
    /\ at = "new" /\ at' \in {"select", "lost"}
    /\ UNCHANGED <<endVars, inbox, passed, turn, ready, held, closing>>

(* Mutant: the thread waits for the client alone.                          *)
MutReadable == {s \in {"local"} : inbox[s] > 0 \/ s \in ended \cup reset}

Readable == {s \in Sides : inbox[s] > 0 \/ s \in ended \cup reset}

Select ==
    /\ at = "select" /\ Readable # {}
    /\ ready' = Readable /\ closing' = {}
    /\ at' = "recv" /\ turn' = "local"
    /\ UNCHANGED <<endVars, inbox, passed, held>>

(* After the client's way comes the way back, and then the test.           *)
NextWay ==
    IF turn = "local" THEN at' = "recv" /\ turn' = "remote"
    ELSE at' = "test" /\ UNCHANGED turn

SkipWay ==
    /\ at = "recv" /\ turn \notin ready
    /\ NextWay
    /\ UNCHANGED <<endVars, inbox, passed, ready, held, closing>>

Recv ==
    /\ at = "recv" /\ turn \in ready /\ inbox[turn] > 0
    /\ held' = Least(inbox[turn], ReadLen)
    /\ inbox' = [inbox EXCEPT ![turn] = @ - held']
    /\ at' = "send"
    /\ UNCHANGED <<endVars, passed, turn, ready, closing>>

(* len <= 0                                                                *)
RecvEnd ==
    /\ at = "recv" /\ turn \in ready /\ inbox[turn] = 0
    /\ closing' = closing \cup {turn}
    /\ NextWay
    /\ UNCHANGED <<endVars, inbox, passed, ready, held>>

Space == Room - (passed[turn] - got[turn])

(* Mutant: a socket that does not block, and what does not fit is dropped. *)
MutSend ==
    /\ at = "send" /\ Other(turn) \notin reset
    /\ passed' = [passed EXCEPT ![turn] = @ + Least(held, Space)]
    /\ held' = 0 /\ NextWay
    /\ UNCHANGED <<endVars, inbox, ready, closing>>

(* send returns when everything is in the buffer.                          *)
Send ==
    /\ at = "send" /\ Other(turn) \notin reset /\ Space > 0
    /\ passed' = [passed EXCEPT ![turn] = @ + Least(held, Space)]
    /\ held' = held - Least(held, Space)
    /\ IF held' = 0 THEN NextWay ELSE UNCHANGED <<at, turn>>
    /\ UNCHANGED <<endVars, inbox, ready, closing>>

(* Its result is not looked at.                                            *)
SendFails ==
    /\ at = "send" /\ Other(turn) \in reset
    /\ held' = 0 /\ NextWay
    /\ UNCHANGED <<endVars, inbox, passed, ready, closing>>

(* Mutant: the thread closes when both ends have come to their end.        *)
MutTest ==
    /\ at = "test"
    /\ at' = IF closing = Sides THEN "closed" ELSE "select"
    /\ UNCHANGED <<endVars, inbox, passed, turn, ready, held, closing>>

Test ==
    /\ at = "test"
    /\ at' = IF closing = {} THEN "select" ELSE "closed"
    /\ UNCHANGED <<endVars, inbox, passed, turn, ready, held, closing>>

ForwarderThread ==
    \/ CreateForwarderThread \/ Select \/ SkipWay
    \/ Recv \/ RecvEnd \/ Send \/ SendFails \/ Test

Next ==
    \/ \E s \in Sides : Write(s) \/ Read(s) \/ EndOf(s) \/ ResetBy(s)
    \/ ForwarderThread

Spec == Init /\ [][Next]_vars

(* The thread runs, and each end reads whatever it does with its own bytes.*)
FairSpec ==
    /\ Spec /\ WF_vars(ForwarderThread)
    /\ \A s \in Sides : WF_vars(Read(s))

-----------------------------------------------------------------------------
(* While neither connection is gone every byte that was written is in a    *)
(* buffer, in the thread's hands, or with the other end: although the      *)
(* results of send and an_send are thrown away, a full socket loses none.  *)
NothingDropped ==
    reset = {} /\ at # "closed"
        => \A s \in Sides :
               sent[s] = passed[s] + inbox[s] + IF turn = s THEN held ELSE 0

(* The thread closes both sockets when one end has come to its end.  What  *)
(* that end wrote has all been passed on by then, unless the other one has *)
(* ended too: an answer that ends with its connection is whole.            *)
AnswerWhole ==
    at = "closed" /\ reset = {}
        => \A s \in Sides : Other(s) \in ended \/ passed[s] = sent[s]

(* No byte is lost while both stand, nor at the end of an answer.          *)
BytesKept == NothingDropped /\ AnswerWhole

(* What one end writes reaches the other, though a thread that waits for   *)
(* one end to take its bytes does nothing for the way back, unless there is*)
(* no thread or one of the connections ends.                               *)
Forwards ==
    \A s \in Sides : \A n \in 1..MaxBytes :
        sent[s] >= n ~> got[s] >= n \/ ended \cup reset # {} \/ at = "lost"

(* The end of either connection ends both.                                 *)
Closes == ended \cup reset # {} ~> at \in {"closed", "lost"}
=============================================================================
