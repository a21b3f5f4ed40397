------------------------ MODULE SocksForwarderProofs ------------------------
(* Proofs about SocksForwarder, for every size of the buffers.             *)
EXTENDS SocksForwarder, TLAPS

(* Outside of a send the thread holds nothing; before the end of either    *)
(* connection no byte is lost; an end that was found to have ended has     *)
(* ended, with everything read; the thread closes only for such an end.    *)
HeldOK == at # "send" => held = 0
Conserved ==
    reset = {} => \A s \in Sides :
                      sent[s] = passed[s] + inbox[s] + IF turn = s THEN held ELSE 0
ClosingOK == reset = {} => \A s \in closing : s \in ended /\ inbox[s] = 0
ClosedOK == at = "closed" => closing # {}

(* What select found readable stays so until its turn comes.               *)
Pending(s) ==
    \/ at = "recv" /\ (s = turn \/ turn = "local")
    \/ at = "send" /\ turn = "local" /\ s = "remote"
ReadyOK ==
    reset = {} => \A s \in ready : Pending(s) => inbox[s] > 0 \/ s \in ended

SFInv == TypeOK /\ HeldOK /\ Conserved /\ ClosingOK /\ ClosedOK /\ ReadyOK

LEMMA InitForwarder == Init => SFInv
  BY ForwarderAssumption
     DEF Init, SFInv, TypeOK, HeldOK, Conserved, ClosingOK, ClosedOK, ReadyOK,
         Pending, Sides

LEMMA LeastFact == ASSUME NEW i \in Int, NEW j \in Int
                   PROVE  Least(i, j) \in Int /\ Least(i, j) <= i /\ Least(i, j) <= j
                          /\ (Least(i, j) = i \/ Least(i, j) = j)
  BY DEF Least

(* The steps of the two ends.                                              *)
LEMMA WriteStep == ASSUME SFInv, NEW s \in Sides, Write(s) PROVE SFInv'
<1>0. SFInv /\ Write(s)  OBVIOUS
<1> USE ForwarderAssumption
<1>1. TypeOK'
  BY <1>0 DEF SFInv, TypeOK, Write, threadVars, Alive
<1>2. Conserved'
  BY <1>0 DEF SFInv, TypeOK, Conserved, Write, threadVars
<1>3. ClosingOK'
  BY <1>0 DEF SFInv, TypeOK, ClosingOK, Write, threadVars
<1>4. ReadyOK'
  BY <1>0 DEF SFInv, TypeOK, ReadyOK, Pending, Write, threadVars
<1> QED  BY <1>0, <1>1, <1>2, <1>3, <1>4 DEF SFInv, HeldOK, ClosedOK, Write, threadVars

LEMMA ReadStep == ASSUME SFInv, NEW s \in Sides, Read(s) PROVE SFInv'
<1>0. SFInv /\ Read(s)  OBVIOUS
<1>1. Other(s) \in Sides  BY DEF Other, Sides
<1>2. TypeOK'
  BY <1>0, <1>1, ForwarderAssumption DEF SFInv, TypeOK, Read, threadVars
<1> QED  BY <1>0, <1>2
         DEF SFInv, HeldOK, Conserved, ClosingOK, ClosedOK, ReadyOK, Pending, Read,
             threadVars

LEMMA EndStep == ASSUME SFInv, NEW s \in Sides, EndOf(s) PROVE SFInv'
  BY DEF SFInv, TypeOK, HeldOK, Conserved, ClosingOK, ClosedOK, ReadyOK, Pending,
         EndOf, threadVars

LEMMA ResetStep == ASSUME SFInv, NEW s \in Sides, ResetBy(s) PROVE SFInv'
<1>0. SFInv /\ ResetBy(s)  OBVIOUS
<1>1. reset' # {}  BY <1>0 DEF ResetBy
<1>2. TypeOK'
  BY <1>0, ForwarderAssumption DEF SFInv, TypeOK, ResetBy, threadVars
<1> QED  BY <1>0, <1>1, <1>2
         DEF SFInv, HeldOK, Conserved, ClosingOK, ClosedOK, ReadyOK, ResetBy,
             threadVars

(* The steps of the thread.                                                *)
LEMMA CreateStep == ASSUME SFInv, CreateForwarderThread PROVE SFInv'
  BY DEF SFInv, TypeOK, HeldOK, Conserved, ClosingOK, ClosedOK, ReadyOK,
         Pending, CreateForwarderThread, endVars

LEMMA SelectStep == ASSUME SFInv, Select PROVE SFInv'
<1>0. SFInv /\ Select  OBVIOUS
<1>1. held = 0  BY <1>0 DEF SFInv, HeldOK, Select
<1> QED  BY <1>0, <1>1 DEF SFInv, TypeOK, HeldOK, Conserved, ClosingOK, ClosedOK,
              ReadyOK, Pending, Select, Readable, endVars, Sides

LEMMA SkipStep == ASSUME SFInv, SkipWay PROVE SFInv'
<1>0. SFInv /\ SkipWay  OBVIOUS
<1>1. held = 0  BY <1>0 DEF SFInv, HeldOK, SkipWay
<1> QED  BY <1>0, <1>1 DEF SFInv, TypeOK, HeldOK, Conserved, ClosingOK, ClosedOK,
              ReadyOK, Pending, SkipWay, NextWay, endVars, Sides

LEMMA RecvStep == ASSUME SFInv, Recv PROVE SFInv'
<1>0. SFInv /\ Recv  OBVIOUS
<1> USE ForwarderAssumption
<1>1. held = 0 /\ turn \in Sides /\ inbox[turn] \in 0..Room
  BY <1>0 DEF SFInv, HeldOK, TypeOK, Recv
<1>2. held' \in 0..ReadLen /\ held' <= inbox[turn]
  BY <1>0, <1>1 DEF Recv, Least
<1>3. inbox' \in [Sides -> 0..Room]
  BY <1>0, <1>1, <1>2 DEF SFInv, TypeOK, Recv
<1>4. TypeOK'
  BY <1>0, <1>2, <1>3 DEF SFInv, TypeOK, Recv, endVars
<1>5. Conserved'
  BY <1>0, <1>1, <1>2 DEF SFInv, TypeOK, Conserved, Recv, endVars
<1>6. ClosingOK'
  BY <1>0, <1>1 DEF SFInv, TypeOK, ClosingOK, Recv, endVars
<1>7. ReadyOK'
  BY <1>0, <1>1 DEF SFInv, TypeOK, ReadyOK, Pending, Recv, endVars, Sides
<1> QED  BY <1>0, <1>4, <1>5, <1>6, <1>7 DEF SFInv, HeldOK, ClosedOK, Recv

LEMMA RecvEndStep == ASSUME SFInv, RecvEnd PROVE SFInv'
<1>0. SFInv /\ RecvEnd  OBVIOUS
<1>1. held = 0 /\ turn \in Sides  BY <1>0 DEF SFInv, HeldOK, TypeOK, RecvEnd
<1>2. TypeOK' /\ HeldOK' /\ Conserved' /\ ClosedOK'
  BY <1>0, <1>1 DEF SFInv, TypeOK, HeldOK, Conserved, ClosedOK, RecvEnd, NextWay,
       endVars, Sides
<1>3. reset = {} => turn \in ended
  BY <1>0, <1>1 DEF SFInv, ReadyOK, Pending, TypeOK, RecvEnd
<1>4. ClosingOK'
  BY <1>0, <1>1, <1>3 DEF SFInv, ClosingOK, RecvEnd, endVars
<1>5. ReadyOK'
  BY <1>0, <1>1 DEF SFInv, ReadyOK, Pending, RecvEnd, NextWay, endVars, Sides
<1> QED  BY <1>2, <1>4, <1>5 DEF SFInv

LEMMA SendStep == ASSUME SFInv, Send PROVE SFInv'
<1>0. SFInv /\ Send  OBVIOUS
<1> DEFINE n == Least(held, Space)
<1> USE ForwarderAssumption
<1>1. /\ turn \in Sides /\ held \in 0..ReadLen
      /\ passed[turn] \in Nat /\ got[turn] \in Nat /\ passed[turn] - got[turn] \in 0..Room
  BY <1>0 DEF SFInv, TypeOK
<1>2. n \in Nat /\ n <= held /\ n <= Space /\ Space \in Int
  BY <1>0, <1>1 DEF Space, Least, Send
<1>3. /\ passed' = [passed EXCEPT ![turn] = @ + n] /\ held' = held - n
      /\ UNCHANGED <<sent, got, ended, reset, inbox, ready, closing>>
  BY <1>0 DEF Send, endVars
<1>4. (at' = at /\ turn' = turn) \/ (held' = 0 /\ NextWay)
  BY <1>0 DEF Send
<1> HIDE DEF n
<1>5. /\ passed' \in [Sides -> Nat]
      /\ \A s \in Sides : passed'[s] - got[s] \in 0..Room
  BY <1>0, <1>1, <1>2, <1>3 DEF SFInv, TypeOK, Space
<1>6. TypeOK'
  BY <1>0, <1>1, <1>2, <1>3, <1>4, <1>5 DEF SFInv, TypeOK, NextWay, Sides
<1>7. HeldOK' /\ ClosedOK'
  BY <1>0, <1>3, <1>4 DEF SFInv, HeldOK, ClosedOK, NextWay, Send
<1>8. Conserved'
  BY <1>0, <1>1, <1>2, <1>3, <1>4 DEF SFInv, TypeOK, Conserved, NextWay
<1>9. ClosingOK' /\ ReadyOK'
  BY <1>0, <1>1, <1>3, <1>4 DEF SFInv, ClosingOK, ReadyOK, Pending, NextWay, Send, Sides
<1> QED  BY <1>6, <1>7, <1>8, <1>9 DEF SFInv

LEMMA SendFailsStep == ASSUME SFInv, SendFails PROVE SFInv'
<1>0. SFInv /\ SendFails  OBVIOUS
<1>1. reset' # {}  BY <1>0 DEF SendFails, endVars
<1>2. TypeOK'
  BY <1>0, ForwarderAssumption DEF SFInv, TypeOK, SendFails, NextWay, endVars, Sides
<1> QED  BY <1>0, <1>1, <1>2
         DEF SFInv, HeldOK, Conserved, ClosingOK, ClosedOK, ReadyOK, SendFails, NextWay

LEMMA TestStep == ASSUME SFInv, Test PROVE SFInv'
  BY DEF SFInv, TypeOK, HeldOK, Conserved, ClosingOK, ClosedOK, ReadyOK, Pending,
         Test, endVars

LEMMA StutterStep == ASSUME SFInv, UNCHANGED vars PROVE SFInv'
  BY DEF SFInv, TypeOK, HeldOK, Conserved, ClosingOK, ClosedOK, ReadyOK, Pending,
         vars, endVars, threadVars

(* The invariant of a forwarder thread (conn_forwarderThread): for every   *)
(* size of its buffer and of the sockets', whatever the ends do.           *)
THEOREM ForwarderSafe == Spec => []SFInv
<1>1. SFInv /\ [Next]_vars => SFInv'
  <2> SUFFICES ASSUME SFInv, [Next]_vars PROVE SFInv'
    OBVIOUS
  <2>1. CASE UNCHANGED vars  BY <2>1, StutterStep
  <2>2. ASSUME NEW s \in Sides, Write(s) \/ Read(s) \/ EndOf(s) \/ ResetBy(s)
        PROVE  SFInv'
    BY <2>2, WriteStep, ReadStep, EndStep, ResetStep
  <2>3. CASE ForwarderThread
    BY <2>3, CreateStep, SelectStep, SkipStep, RecvStep, RecvEndStep, SendStep,
       SendFailsStep, TestStep DEF ForwarderThread
  <2> QED  BY <2>1, <2>2, <2>3 DEF Next
<1> QED  BY <1>1, InitForwarder, PTL DEF Spec

(* Type correctness of the forwarder for every size of the buffers.        *)
THEOREM ForwarderTyped == Spec => []TypeOK
<1>1. SFInv => TypeOK  BY DEF SFInv
<1> QED  BY <1>1, ForwarderSafe, PTL

(* While both connections stand no byte is lost (conn_forwarderThread      *)
(* throws the results of send and an_send away).                           *)
THEOREM NoByteDropped == Spec => []NothingDropped
<1>1. SFInv => NothingDropped  BY DEF SFInv, Conserved, NothingDropped
<1> QED  BY <1>1, ForwarderSafe, PTL

(* When the thread closes both sockets, what the end that came to its end  *)
(* had written has been passed on, unless the other one ended too.         *)
THEOREM AnswersAreWhole == Spec => []AnswerWhole
<1>1. SFInv => AnswerWhole
  <2> SUFFICES ASSUME SFInv, at = "closed", reset = {}, NEW s \in Sides,
                      Other(s) \notin ended
               PROVE  passed[s] = sent[s]
    BY DEF AnswerWhole
  <2>1. closing # {} /\ Other(s) \notin closing /\ closing \subseteq Sides
    BY DEF SFInv, ClosedOK, ClosingOK, TypeOK
  <2>2. s \in closing
    BY <2>1 DEF Sides, Other
  <2>3. inbox[s] = 0 /\ held = 0
    BY <2>2 DEF SFInv, ClosingOK, HeldOK
  <2>4. passed[s] \in Nat /\ sent[s] = passed[s] + inbox[s] + (IF turn = s THEN held ELSE 0)
    BY DEF SFInv, TypeOK, Conserved
  <2> QED  BY <2>3, <2>4
<1> QED  BY <1>1, ForwarderSafe, PTL

(* Both: nothing is lost but by an end that goes without reading on.       *)
THEOREM BytesAreKept == Spec => []BytesKept
<1>1. NothingDropped /\ AnswerWhole => BytesKept  BY DEF BytesKept
<1> QED  BY <1>1, NoByteDropped, AnswersAreWhole, PTL
=============================================================================
