----------------------- MODULE TunnelInterfaceProofs -----------------------
(***************************************************************************)
(* Proofs about the two ways from the packet flow into the tunnel: the UDP *)
(* relay, for all local and remote addresses, and the pipe to tun2socks,   *)
(* for all packets and sizes, every capacity of the pipe and every         *)
(* boundary at which reads and writes may stop.                            *)
(***************************************************************************)
EXTENDS UdpRelay, PacketPipe, TLAPS

(* The UDP relay.                                                          *)

Question(p) == [remote |-> p.remote, local |-> p.asker]

(* Every datagram that left has an entry, its sender's or that of one who  *)
(* sent later, and every entry is of one who sent; what has an asker was   *)
(* asked for; one entry is added at a time.                                *)
EntryOK ==
    \A q \in questions :
        /\ session[q.remote] \in Locals
        /\ session[q.remote] # q.local => <<q.remote, q.local, session[q.remote]>> \in later

EntrySent ==
    \A r \in Remotes : session[r] \in Locals =>
        [remote |-> r, local |-> session[r]] \in questions

OneStore == \A s, t \in storing : s = t

Asked ==
    /\ \A a \in answers : a.local \in Locals => a \in questions
    /\ \A p \in queue : p.asker \in Locals => Question(p) \in questions

UdpInv ==
    /\ UdpTypeOK /\ EntryOK /\ EntrySent /\ OneStore /\ Asked
    /\ MisledOnlyByLater /\ OnlyToSenders /\ NobodyOnlyUnasked

LEMMA InitUdp == UdpInit => UdpInv
  BY UdpAssumption DEF UdpInit, UdpInv, UdpTypeOK, EntryOK, EntrySent, OneStore, Asked,
       MisledOnlyByLater, OnlyToSenders, NobodyOnlyUnasked

(* The step that puts an entry into the table.                             *)
LEMMA SendStep ==
    ASSUME UdpInv, NEW s \in Sends, Send(s)
    PROVE  UdpInv'
<1>0. UdpInv /\ Send(s)  OBVIOUS
<1> USE UdpAssumption
<1>1. /\ s.remote \in Remotes /\ s.local \in Locals
      /\ s = [remote |-> s.remote, local |-> s.local]
  BY DEF Sends
<1>2. /\ session' = [session EXCEPT ![s.remote] = s.local]
      /\ questions' = questions \cup {s} /\ storing' = {}
      /\ answers' = answers /\ queue' = queue /\ raced' = raced /\ alive' = alive
  BY <1>0 DEF Send, Entry
<1>3. /\ later \subseteq later'
      /\ \A a \in Locals : [remote |-> s.remote, local |-> a] \in questions
                              => <<s.remote, a, s.local>> \in later'
      /\ \A x \in later' : x \in later \/ \E a \in Locals : x = <<s.remote, a, s.local>>
  BY <1>0 DEF Send
<1>4. UdpTypeOK'
  <2>1. session' \in [Remotes -> Locals \cup {Nobody}]
    BY <1>0, <1>1, <1>2 DEF UdpInv, UdpTypeOK
  <2>2. later' \subseteq Remotes \X Locals \X Locals
    BY <1>0, <1>1, <1>3 DEF UdpInv, UdpTypeOK
  <2>3. questions' \subseteq Sends /\ answers' \subseteq Datagrams /\ storing' \subseteq Sends
    BY <1>0, <1>2 DEF UdpInv, UdpTypeOK
  <2>4. queue' \subseteq UdpPackets /\ raced' \in {"no", "yes"} /\ alive' \in {"yes", "no"}
    BY <1>0, <1>2 DEF UdpInv, UdpTypeOK
  <2> QED  BY <2>1, <2>2, <2>3, <2>4 DEF UdpTypeOK
<1>5. EntryOK'
  <2> SUFFICES ASSUME NEW q \in questions'
               PROVE  /\ session'[q.remote] \in Locals
                      /\ session'[q.remote] # q.local
                           => <<q.remote, q.local, session'[q.remote]>> \in later'
    BY DEF EntryOK
  <2>1. q \in Sends /\ q.remote \in Remotes /\ q.local \in Locals
        /\ q = [remote |-> q.remote, local |-> q.local]
    BY <1>4 DEF UdpTypeOK, Sends
  <2>2. CASE q.remote = s.remote
    <3>1. session'[q.remote] = s.local
      BY <1>0, <1>1, <1>2, <2>2 DEF UdpInv, UdpTypeOK
    <3>2. CASE q.local = s.local
      BY <1>1, <3>1, <3>2
    <3>3. CASE q.local # s.local
      <4>1. [remote |-> s.remote, local |-> q.local] \in questions
        BY <1>2, <2>1, <2>2, <3>3
      <4> QED  BY <1>1, <1>3, <2>1, <2>2, <3>1, <4>1
    <3> QED  BY <3>2, <3>3
  <2>3. CASE q.remote # s.remote
    <3>1. q \in questions /\ session'[q.remote] = session[q.remote]
      BY <1>0, <1>1, <1>2, <2>1, <2>3 DEF UdpInv, UdpTypeOK
    <3> QED  BY <1>0, <1>3, <3>1 DEF UdpInv, EntryOK
  <2> QED  BY <2>2, <2>3
<1>6. OneStore' /\ Asked'
  BY <1>0, <1>2 DEF UdpInv, OneStore, Asked, Question
<1>7. EntrySent'
  <2> SUFFICES ASSUME NEW r \in Remotes, session'[r] \in Locals
               PROVE  [remote |-> r, local |-> session'[r]] \in questions'
    BY DEF EntrySent
  <2>1. CASE r = s.remote
    <3>1. session'[r] = s.local BY <1>0, <1>2, <2>1 DEF UdpInv, UdpTypeOK
    <3> QED  BY <1>1, <1>2, <2>1, <3>1
  <2>2. CASE r # s.remote
    <3>1. session'[r] = session[r] BY <1>0, <1>2, <2>2 DEF UdpInv, UdpTypeOK
    <3> QED  BY <1>0, <1>2, <3>1 DEF UdpInv, EntrySent
  <2> QED  BY <2>1, <2>2
<1>8. MisledOnlyByLater'
  <2> SUFFICES ASSUME NEW p \in queue', p.to \in Locals, p.asker \in Locals,
                      p.to # p.asker
               PROVE  <<p.remote, p.asker, p.to>> \in later'
    BY DEF MisledOnlyByLater
  <2>1. p \in queue /\ p.remote \in Remotes
    BY <1>0, <1>2 DEF UdpInv, UdpTypeOK, UdpPackets
  <2>2. CASE <<p.remote, p.asker, p.to>> \in later
    BY <1>3, <2>2
  <2>3. CASE [remote |-> p.remote, local |-> p.to] \in storing
    <3>1. s \in storing
      BY <1>0 DEF Send
    <3>2. s = [remote |-> p.remote, local |-> p.to]
      BY <1>0, <2>3, <3>1 DEF UdpInv, OneStore
    <3>3. s.remote = p.remote /\ s.local = p.to
      BY <3>2
    <3>4. [remote |-> s.remote, local |-> p.asker] \in questions
      BY <1>0, <2>1, <3>3 DEF UdpInv, Asked, Question
    <3> QED  BY <1>3, <2>1, <3>3, <3>4
  <2> QED  BY <1>0, <2>1, <2>2, <2>3 DEF UdpInv, MisledOnlyByLater
<1>9. NobodyOnlyUnasked'
  BY <1>0, <1>2 DEF UdpInv, NobodyOnlyUnasked
<1>10. OnlyToSenders'
  <2>1. questions \cup storing \subseteq questions' \cup storing'
    BY <1>0, <1>2 DEF Send, UdpInv, OneStore
  <2> QED  BY <1>0, <1>2, <2>1 DEF UdpInv, OnlyToSenders
<1> QED  BY <1>4, <1>5, <1>6, <1>7, <1>8, <1>9, <1>10 DEF UdpInv

(* The step that addresses an answer.                                      *)
LEMMA ReceiveStep ==
    ASSUME UdpInv, NEW a \in Datagrams, DidReceiveData(a)
    PROVE  UdpInv'
<1>0. UdpInv /\ DidReceiveData(a)  OBVIOUS
<1> USE UdpAssumption
<1>1. /\ a \in answers /\ a.remote \in Remotes /\ a.local \in Locals \cup {Nobody}
      /\ a = [remote |-> a.remote, local |-> a.local]
      /\ a.local \in Locals => a \in questions
  BY <1>0 DEF DidReceiveData, UdpInv, Asked, Datagrams
<1>2. PICK to \in Found(a.remote) :
        queue' = queue \cup {[remote |-> a.remote, to |-> to, asker |-> a.local]}
  BY <1>0 DEF DidReceiveData
<1>3. /\ session' = session /\ storing' = storing /\ questions' = questions
      /\ later' = later /\ alive' = alive /\ answers' \subseteq answers
      /\ raced' = IF storing = {} THEN raced ELSE "yes"
  BY <1>0 DEF DidReceiveData
<1>4. to \in Locals \cup {Nobody}
  BY <1>0, <1>1, <1>2 DEF Found, UdpInv, UdpTypeOK, Sends
<1>5. UdpTypeOK'
  <2>1. queue' \subseteq UdpPackets
    BY <1>0, <1>1, <1>2, <1>4 DEF UdpInv, UdpTypeOK, UdpPackets
  <2> QED  BY <1>0, <1>3, <2>1 DEF UdpInv, UdpTypeOK
<1>6. EntryOK' /\ EntrySent' /\ OneStore'
  BY <1>0, <1>3 DEF UdpInv, EntryOK, EntrySent, OneStore
<1>7. Asked'
  BY <1>0, <1>1, <1>2, <1>3 DEF UdpInv, Asked, Question
<1>8. a.local \in Locals =>
        /\ session[a.remote] \in Locals
        /\ session[a.remote] # a.local => <<a.remote, a.local, session[a.remote]>> \in later
  BY <1>0, <1>1 DEF UdpInv, EntryOK
<1>9. \/ to = session[a.remote]
      \/ [remote |-> a.remote, local |-> to] \in storing
      \/ to = Nobody /\ storing # {}
  <2>1. \A s \in storing : s = [remote |-> s.remote, local |-> s.local]
    BY <1>0 DEF UdpInv, UdpTypeOK, Sends
  <2> QED  BY <1>2, <2>1 DEF Found
<1>10. MisledOnlyByLater'
  <2> SUFFICES ASSUME NEW p \in queue', p.to \in Locals, p.asker \in Locals,
                      p.to # p.asker
               PROVE  \/ <<p.remote, p.asker, p.to>> \in later
                      \/ [remote |-> p.remote, local |-> p.to] \in storing
    BY <1>3 DEF MisledOnlyByLater
  <2>1. CASE p \in queue
    BY <1>0, <2>1 DEF UdpInv, MisledOnlyByLater
  <2>2. CASE p = [remote |-> a.remote, to |-> to, asker |-> a.local]
    <3>1. p.remote = a.remote /\ p.to = to /\ p.asker = a.local
      BY <2>2
    <3> QED  BY <1>8, <1>9, <3>1
  <2> QED  BY <1>2, <2>1, <2>2
<1>11. NobodyOnlyUnasked'
  <2> SUFFICES ASSUME raced' = "no", NEW p \in queue', p.to = Nobody
               PROVE  p.asker = Nobody
    BY DEF NobodyOnlyUnasked
  <2>1. raced = "no" /\ storing = {}
    BY <1>3
  <2>2. CASE p \in queue
    BY <1>0, <2>1, <2>2 DEF UdpInv, NobodyOnlyUnasked
  <2>3. CASE p = [remote |-> a.remote, to |-> to, asker |-> a.local]
    <3>1. session[a.remote] = Nobody /\ p.asker = a.local
      BY <1>9, <2>1, <2>3
    <3> QED  BY <1>1, <1>8, <3>1
  <2> QED  BY <1>2, <2>2, <2>3
<1>12. OnlyToSenders'
  <2> SUFFICES ASSUME NEW p \in queue', p.to \in Locals
               PROVE  [remote |-> p.remote, local |-> p.to] \in questions \cup storing
    BY <1>3 DEF OnlyToSenders
  <2>1. CASE p \in queue
    BY <1>0, <2>1 DEF UdpInv, OnlyToSenders
  <2>2. CASE p = [remote |-> a.remote, to |-> to, asker |-> a.local]
    <3>1. p.remote = a.remote /\ p.to = to
      BY <2>2
    <3> QED  BY <1>0, <1>1, <1>9, <3>1 DEF UdpInv, EntrySent
  <2> QED  BY <1>2, <2>1, <2>2
<1> QED  BY <1>5, <1>6, <1>7, <1>10, <1>11, <1>12 DEF UdpInv

(* Every other step leaves the table as it is.                             *)
LEMMA StepUdp == UdpInv /\ [UdpNext]_udpVars => UdpInv'
<1> SUFFICES ASSUME UdpInv, [UdpNext]_udpVars  PROVE UdpInv'
  OBVIOUS
<1> USE UdpAssumption
<1>1. ASSUME NEW local \in Locals, NEW remote \in Remotes, HandleUdpPacket(local, remote)
      PROVE  UdpInv'
  <2>1. /\ storing = {} /\ storing' = {[remote |-> remote, local |-> local]}
        /\ UNCHANGED <<session, questions, answers, queue, later, raced, alive>>
    BY <1>1 DEF HandleUdpPacket
  <2>2. UdpTypeOK'
    BY <1>1, <2>1 DEF UdpInv, UdpTypeOK, Sends
  <2> QED  BY <2>1, <2>2 DEF UdpInv, EntryOK, EntrySent, OneStore, Asked, Question,
             MisledOnlyByLater, OnlyToSenders, NobodyOnlyUnasked
<1>2. ASSUME NEW s \in Sends, Send(s)  PROVE UdpInv'
  BY <1>2, SendStep
<1>3. ASSUME NEW s \in Sends, Answer(s)  PROVE UdpInv'
  <2>1. s \in questions /\ s \in Datagrams
    BY <1>3 DEF Answer, Sends, Datagrams
  <2>2. /\ answers' = answers \cup {s}
        /\ UNCHANGED <<session, storing, questions, queue, later, raced, alive>>
    BY <1>3 DEF Answer
  <2>3. UdpTypeOK' /\ Asked'
    BY <2>1, <2>2 DEF UdpInv, UdpTypeOK, Asked, Question
  <2> QED  BY <2>2, <2>3 DEF UdpInv, EntryOK, EntrySent, OneStore, MisledOnlyByLater,
             OnlyToSenders, NobodyOnlyUnasked
<1>4. ASSUME NEW a \in Datagrams, LoseAnswer(a)  PROVE UdpInv'
  BY <1>4 DEF LoseAnswer, UdpInv, UdpTypeOK, EntryOK, EntrySent, OneStore, Asked, Question,
       MisledOnlyByLater, OnlyToSenders, NobodyOnlyUnasked
<1>5. ASSUME NEW a \in Datagrams, DidReceiveData(a)  PROVE UdpInv'
  BY <1>5, ReceiveStep
<1>6. ASSUME NEW a \in Datagrams, Crash(a)  PROVE UdpInv'
  BY <1>6 DEF Crash, UdpInv, UdpTypeOK, EntryOK, EntrySent, OneStore, Asked, Question,
       MisledOnlyByLater, OnlyToSenders, NobodyOnlyUnasked
<1>7. ASSUME NEW p \in UdpPackets, WritePacket(p)  PROVE UdpInv'
  BY <1>7 DEF WritePacket, UdpInv, UdpTypeOK, EntryOK, EntrySent, OneStore, Asked, Question,
       MisledOnlyByLater, OnlyToSenders, NobodyOnlyUnasked
<1>8. ASSUME NEW remote \in Remotes, Unasked(remote)  PROVE UdpInv'
  <2>1. [remote |-> remote, local |-> Nobody] \in Datagrams
    BY DEF Datagrams
  <2> QED  BY <1>8, <2>1 DEF Unasked, UdpInv, UdpTypeOK, EntryOK, EntrySent, OneStore, Asked,
             Question, MisledOnlyByLater, OnlyToSenders, NobodyOnlyUnasked
<1>9. CASE UNCHANGED udpVars
  BY <1>9 DEF udpVars, UdpInv, UdpTypeOK, EntryOK, EntrySent, OneStore, Asked, Question,
       MisledOnlyByLater, OnlyToSenders, NobodyOnlyUnasked
<1> QED  BY <1>1, <1>2, <1>3, <1>4, <1>5, <1>6, <1>7, <1>8, <1>9 DEF UdpNext

(* The inductive invariant of the UDP relay.                               *)
THEOREM UdpSafe == UdpSpec => []UdpInv
  BY InitUdp, StepUdp, PTL DEF UdpSpec

(* Every variable of the UDP relay keeps its type.                         *)
THEOREM UdpTyped == UdpSpec => []UdpTypeOK
<1>1. UdpInv => UdpTypeOK  BY DEF UdpInv
<1> QED  BY <1>1, UdpSafe, PTL

(* An answer goes to who asked or to who sent to the same remote later,    *)
(* and to nobody only in a race over the table; any other datagram goes to *)
(* one who sent to its source, or to nobody.                               *)
THEOREM AnswersReach == UdpSpec => []AnswersAddressed
<1>1. UdpInv => AnswersAddressed  BY DEF UdpInv, AnswersAddressed
<1> QED  BY <1>1, UdpSafe, PTL

-----------------------------------------------------------------------------
(* The pipe: what its reads and writes do to sequences.                    *)

(* What a read or a write leaves of a sequence, and what it takes.         *)
LEMMA Parts ==
    ASSUME NEW S, NEW s \in Seq(S), NEW n \in 0 .. Len(s)
    PROVE  /\ First(s, n) \in Seq(S) /\ Len(First(s, n)) = n
           /\ \A i \in 1 .. n : First(s, n)[i] = s[i]
           /\ Rest(s, n) \in Seq(S) /\ Len(Rest(s, n)) = Len(s) - n
           /\ \A i \in 1 .. Len(s) - n : Rest(s, n)[i] = s[n + i]
<1>1. Len(s) \in Nat OBVIOUS
<1>2. First(s, n) \in Seq(S) /\ Len(First(s, n)) = n BY <1>1 DEF First
<1>3. \A i \in 1 .. n : First(s, n)[i] = s[i] BY <1>1 DEF First
<1>4. Rest(s, n) \in Seq(S) /\ Len(Rest(s, n)) = Len(s) - n BY <1>1 DEF Rest
<1>5. \A i \in 1 .. Len(s) - n : Rest(s, n)[i] = s[n + i]  BY <1>1 DEF Rest
<1> QED BY <1>2, <1>3, <1>4, <1>5

(* The other facts about sequences that the steps need.                    *)
LEMMA Length == ASSUME NEW S, NEW s \in Seq(S) PROVE Len(s) \in Nat
  OBVIOUS

LEMMA Joined ==
    ASSUME NEW S, NEW s \in Seq(S), NEW t \in Seq(S)
    PROVE  /\ s \o t \in Seq(S) /\ Len(s \o t) = Len(s) + Len(t)
           /\ \A i \in 1 .. Len(s) : (s \o t)[i] = s[i]
           /\ \A i \in 1 .. Len(t) : (s \o t)[Len(s) + i] = t[i]
  OBVIOUS

LEMMA Appended ==
    ASSUME NEW S, NEW s \in Seq(S), NEW x \in S
    PROVE  /\ Append(s, x) \in Seq(S) /\ Len(Append(s, x)) = Len(s) + 1
           /\ \A i \in 1 .. Len(s) : Append(s, x)[i] = s[i]
           /\ Append(s, x)[Len(s) + 1] = x
  OBVIOUS

LEMMA Tailed ==
    ASSUME NEW S, NEW s \in Seq(S), s # <<>>
    PROVE  /\ Head(s) = s[1] /\ s[1] \in S /\ Tail(s) \in Seq(S) /\ Len(s) > 0
           /\ Len(Tail(s)) = Len(s) - 1
           /\ \A i \in 1 .. Len(s) - 1 : Tail(s)[i] = s[i + 1]
  OBVIOUS

LEMMA SameSeq ==
    ASSUME NEW S, NEW s \in Seq(S), NEW t \in Seq(S), Len(s) = Len(t),
           \A i \in 1 .. Len(s) : s[i] = t[i]
    PROVE  s = t
  OBVIOUS

(* A sequence that is divided anywhere is still the same.                  *)
LEMMA Rejoined ==
    ASSUME NEW S, NEW s \in Seq(S), NEW t \in Seq(S), NEW m \in 0 .. Len(t)
    PROVE  (s \o First(t, m)) \o Rest(t, m) = s \o t
<1> DEFINE f == First(t, m)
           r == Rest(t, m)
<1>1. /\ f \in Seq(S) /\ Len(f) = m /\ \A i \in 1 .. m : f[i] = t[i]
      /\ r \in Seq(S) /\ Len(r) = Len(t) - m /\ \A i \in 1 .. Len(t) - m : r[i] = t[m + i]
  BY Parts
<1>2. Len(s) \in Nat /\ Len(t) \in Nat /\ m \in Nat /\ m <= Len(t)  BY Length
<1> HIDE DEF f, r
<1>3. /\ s \o f \in Seq(S) /\ Len(s \o f) = Len(s) + m
      /\ \A i \in 1 .. Len(s) : (s \o f)[i] = s[i]
      /\ \A i \in 1 .. m : (s \o f)[Len(s) + i] = t[i]
  <2>1. f \in Seq(S)  BY <1>1
  <2>2. \A y \in Seq(S) :
            /\ s \o y \in Seq(S) /\ Len(s \o y) = Len(s) + Len(y)
            /\ \A i \in 1 .. Len(s) : (s \o y)[i] = s[i]
            /\ \A i \in 1 .. Len(y) : (s \o y)[Len(s) + i] = y[i]
    BY Joined
  <2> QED  BY <1>1, <2>2
<1> DEFINE u == s \o f
<1>4. u \in Seq(S) /\ Len(u) = Len(s) + m  BY <1>3
<1> HIDE DEF u
<1>5. /\ u \o r \in Seq(S) /\ Len(u \o r) = Len(u) + Len(r)
      /\ \A i \in 1 .. Len(u) : (u \o r)[i] = u[i]
      /\ \A i \in 1 .. Len(r) : (u \o r)[Len(u) + i] = r[i]
  <2>1. r \in Seq(S) /\ u \in Seq(S)  BY <1>1, <1>4
  <2>2. \A y \in Seq(S) :
            /\ u \o y \in Seq(S) /\ Len(u \o y) = Len(u) + Len(y)
            /\ \A i \in 1 .. Len(u) : (u \o y)[i] = u[i]
            /\ \A i \in 1 .. Len(y) : (u \o y)[Len(u) + i] = y[i]
    BY <2>1, Joined
  <2> QED  BY ONLY <2>1, <2>2
<1>6. /\ s \o t \in Seq(S) /\ Len(s \o t) = Len(s) + Len(t)
      /\ \A i \in 1 .. Len(s) : (s \o t)[i] = s[i]
      /\ \A i \in 1 .. Len(t) : (s \o t)[Len(s) + i] = t[i]
  BY Joined
<1>7. Len(u \o r) = Len(s \o t)  BY <1>1, <1>2, <1>4, <1>5, <1>6
<1>8. ASSUME NEW i \in 1 .. Len(s \o t)  PROVE (u \o r)[i] = (s \o t)[i]
  <2>1. CASE i \in 1 .. Len(s)
    <3>1. i \in 1 .. Len(u)  BY <1>2, <1>4, <2>1
    <3> QED  BY <1>3, <1>5, <1>6, <2>1, <3>1 DEF u
  <2>2. CASE i \in Len(s) + 1 .. Len(s) + m
    <3>1. i \in 1 .. Len(u)  BY <1>2, <1>4, <2>2
    <3>2. PICK k \in 1 .. m : i = Len(s) + k
      <4>1. i - Len(s) \in 1 .. m /\ i = Len(s) + (i - Len(s))  BY <1>2, <2>2
      <4> QED  BY <4>1
    <3>3. k \in 1 .. Len(t)  BY <1>2
    <3> QED  BY <1>3, <1>5, <1>6, <3>1, <3>2, <3>3 DEF u
  <2>3. CASE i \in Len(s) + m + 1 .. Len(s) + Len(t)
    <3>1. PICK k \in 1 .. Len(r) : i = Len(u) + k
      <4>1. i - Len(u) \in 1 .. Len(r) /\ i = Len(u) + (i - Len(u))
        BY <1>1, <1>2, <1>4, <2>3
      <4> QED  BY <4>1
    <3>2. k \in 1 .. Len(t) - m /\ m + k \in 1 .. Len(t) /\ i = Len(s) + (m + k)
      BY <1>1, <1>2, <1>4, <3>1
    <3>3. (u \o r)[i] = r[k]  BY <1>5, <3>1
    <3>4. r[k] = t[m + k]  BY <1>1, <3>2
    <3>5. (s \o t)[i] = t[m + k]  BY <1>6, <3>2
    <3> QED  BY ONLY <3>3, <3>4, <3>5
  <2>4. i \in 1 .. Len(s) + Len(t)  BY <1>6
  <2>5. \/ i \in 1 .. Len(s) \/ i \in Len(s) + 1 .. Len(s) + m
        \/ i \in Len(s) + m + 1 .. Len(s) + Len(t)
    BY ONLY <1>2, <2>4
  <2> QED  BY <2>1, <2>2, <2>3, <2>5
<1>9. u \o r = s \o t  BY <1>5, <1>6, <1>7, <1>8, SameSeq
<1> QED  BY <1>9 DEF u, f, r

(* What is taken from the front of two joined is taken from the first.     *)
LEMMA RestJoined ==
    ASSUME NEW S, NEW s \in Seq(S), NEW t \in Seq(S), NEW m \in 0 .. Len(s)
    PROVE  Rest(s, m) \o t = Rest(s \o t, m)
<1> DEFINE r == Rest(s, m)
           u == s \o t
           v == Rest(u, m)
<1>1. /\ r \in Seq(S) /\ Len(r) = Len(s) - m /\ \A i \in 1 .. Len(s) - m : r[i] = s[m + i]
  BY Parts
<1>2. Len(s) \in Nat /\ Len(t) \in Nat /\ m \in Nat /\ m <= Len(s)  BY Length
<1>3. /\ u \in Seq(S) /\ Len(u) = Len(s) + Len(t)
      /\ \A i \in 1 .. Len(s) : u[i] = s[i]
      /\ \A i \in 1 .. Len(t) : u[Len(s) + i] = t[i]
  BY Joined
<1>4. /\ v \in Seq(S) /\ Len(v) = Len(u) - m /\ \A i \in 1 .. Len(u) - m : v[i] = u[m + i]
  <2>1. m \in 0 .. Len(u)  BY <1>2, <1>3
  <2> QED  BY <1>3, <2>1, Parts
<1> HIDE DEF r, u, v
<1>5. /\ r \o t \in Seq(S) /\ Len(r \o t) = Len(r) + Len(t)
      /\ \A i \in 1 .. Len(r) : (r \o t)[i] = r[i]
      /\ \A i \in 1 .. Len(t) : (r \o t)[Len(r) + i] = t[i]
  <2>1. r \in Seq(S)  BY <1>1
  <2> QED  BY <2>1, Joined
<1>6. Len(r \o t) = Len(v)  BY <1>1, <1>2, <1>3, <1>4, <1>5
<1>7. ASSUME NEW i \in 1 .. Len(r \o t)  PROVE (r \o t)[i] = v[i]
  <2>1. i \in 1 .. Len(u) - m /\ v[i] = u[m + i]  BY <1>4, <1>6
  <2>2. CASE i \in 1 .. Len(r)
    <3>1. m + i \in 1 .. Len(s) /\ i \in 1 .. Len(s) - m  BY <1>1, <1>2, <2>2
    <3> QED  BY <1>1, <1>3, <1>5, <2>1, <2>2, <3>1
  <2>3. CASE i \in Len(r) + 1 .. Len(r) + Len(t)
    <3>1. PICK k \in 1 .. Len(t) : i = Len(r) + k
      <4>1. i - Len(r) \in 1 .. Len(t) /\ i = Len(r) + (i - Len(r))  BY <1>1, <1>2, <2>3
      <4> QED  BY <4>1
    <3>2. m + i = Len(s) + k  BY <1>1, <1>2, <3>1
    <3> QED  BY <1>3, <1>5, <2>1, <3>1, <3>2
  <2> QED  BY <1>1, <1>2, <1>5, <2>2, <2>3
<1>8. r \o t = v  BY <1>4, <1>5, <1>6, <1>7, SameSeq
<1> QED  BY <1>8 DEF r, u, v
(* A frame is the header and the packet.                                   *)
LEMMA Framed ==
    ASSUME NEW x \in Tcp
    PROVE  /\ Frame(x) \in Seq(Tcp \X Nat) /\ Len(Frame(x)) = Size[x] + 2
           /\ \A k \in 1 .. Size[x] + 2 : Frame(x)[k] = <<x, k>>
<1>1. Size[x] \in Nat /\ Size[x] + 2 \in Nat BY PipeAssumption
<1>2. \A k \in 1 .. Size[x] + 2 : <<x, k>> \in Tcp \X Nat BY <1>1
<1> QED BY <1>1, <1>2 DEF Frame

-----------------------------------------------------------------------------
(* The bytes on their way: those in the pipe, then those still to go.      *)
Stream == pipe \o left

FrameLen(x) == Size[x] + 2

(* at says behind which byte of b the frame of each packet of s stands, but*)
(* for the first g: one frame behind the other, and the last to the end.   *)
Laid(at, g, s, b) ==
    /\ at[g + 1] = 0 /\ at[Len(s) + 1] = Len(b)
    /\ \A i \in g + 1 .. Len(s) : at[i + 1] = at[i] + FrameLen(s[i])
    /\ \A i \in g + 1 .. Len(s), j \in g + 1 .. Len(s) + 1 :
          i < j => at[i] + FrameLen(s[i]) <= at[j]
    /\ \A i \in g + 1 .. Len(s) : \A k \in 1 .. FrameLen(s[i]) : b[at[i] + k] = <<s[i], k>>

InPlace ==
    1 \notin divided /\ tun # "ended" =>
        \E at \in [Nat -> Nat] : Laid(at, Len(got), sent, Stream)

(* A frame that has begun is that of the last packet, and a part of it that*)
(* is gone was divided there.                                              *)
LastSent == sent[Len(sent)]

LeftOK ==
    left # <<>> =>
        /\ batch # <<>> /\ sent # <<>> /\ Head(batch) = LastSent
        /\ Len(left) <= FrameLen(LastSent)
        /\ \A k \in 1 .. Len(left) :
              left[k] = <<LastSent, FrameLen(LastSent) - Len(left) + k>>
        /\ Len(left) < FrameLen(LastSent) => FrameLen(LastSent) - Len(left) \in divided

(* A packet is where it is once: with the flow, in the read, or sent.      *)
Once ==
    /\ reading => batch = <<>>
    /\ \A i, j \in 1 .. Len(batch) : batch[i] = batch[j] => i = j
    /\ \A i \in 1 .. Len(batch) : batch[i] \notin unread
    /\ \A j \in 1 .. Len(sent) : sent[j] \notin unread
    /\ \A i \in 1 .. Len(batch), j \in 1 .. Len(sent) :
          batch[i] = sent[j] => left # <<>> /\ i = 1

(* Whatever is read belongs to packets that were sent.                     *)
Known ==
    /\ \A i \in 1 .. Len(pipe) : \E j \in 1 .. Len(sent) : pipe[i][1] = sent[j]
    /\ \A i \in 1 .. Len(got) : got[i] = Garbage \/ \E j \in 1 .. Len(sent) : got[i] = sent[j]

(* The inductive invariant of the pipe.                                    *)
PipeInv == TypeOK /\ InPlace /\ InOrder /\ LeftOK /\ Once /\ Known

(* It holds of an empty pipe.                                              *)
LEMMA InitPipe == Init => PipeInv
<1> SUFFICES ASSUME Init PROVE PipeInv  OBVIOUS
<1>1. TypeOK
  <2>1. <<>> \in Seq(Packets) /\ <<>> \in Seq(Tcp \X Nat) /\ <<>> \in Seq(Tcp)
        /\ <<>> \in Seq(Tcp \cup {Garbage}) /\ Len(<<>>) = 0 /\ 0 <= Capacity
    BY PipeAssumption
  <2> QED  BY ONLY <2>1, Init DEF Init, TypeOK
<1>2. Laid([i \in Nat |-> 0], 0, <<>>, <<>> \o <<>>)  BY DEF Laid
<1>3. InPlace
  <2>1. [i \in Nat |-> 0] \in [Nat -> Nat] /\ Len(got) = 0 /\ sent = <<>> /\ Stream = <<>> \o <<>>
    BY DEF Init, Stream
  <2> QED  BY <1>2, <2>1 DEF InPlace
<1>4. InOrder /\ LeftOK /\ Once /\ Known
  BY DEF Init, InOrder, LeftOK, Once, Known
<1> QED  BY <1>1, <1>3, <1>4 DEF PipeInv

(* No packet is empty, and two bytes stand in front of it.                *)
LEMMA Sizes ==
    ASSUME NEW x \in Tcp
    PROVE  Size[x] \in Nat /\ Size[x] > 0 /\ FrameLen(x) \in Nat /\ FrameLen(x) > 2
  BY PipeAssumption DEF FrameLen

(* What lies within a frame lies within the stream.                        *)
LEMMA Inside ==
    ASSUME NEW a \in Nat, NEW n \in Nat, NEW w \in Nat, NEW k \in 1 .. n, a + n <= w
    PROVE  a + k \in 1 .. w
  OBVIOUS

(* What lies within one stream lies within a longer one.                   *)
LEMMA Further ==
    ASSUME NEW a \in Nat, NEW n \in Nat, NEW w \in Nat, NEW m \in Nat, a + n <= w
    PROVE  a + n <= w + m
  OBVIOUS

(* One more place can be noted.                                            *)
LEMMA Extended ==
    ASSUME NEW at \in [Nat -> Nat], NEW m \in Nat, NEW v \in Nat
    PROVE  \E bt \in [Nat -> Nat] : bt[m] = v /\ \A i \in Nat : i # m => bt[i] = at[i]
<1>1. WITNESS [at EXCEPT ![m] = v] \in [Nat -> Nat]
<1> QED  OBVIOUS

(* Where a frame stands.                                                   *)
LEMMA Places ==
    ASSUME NEW g \in Nat, NEW s \in Seq(Tcp), g <= Len(s), NEW b \in Seq(Tcp \X Nat),
           NEW at \in [Nat -> Nat], Laid(at, g, s, b), NEW i \in g + 1 .. Len(s)
    PROVE  /\ i \in Nat /\ i \in 1 .. Len(s) /\ i + 1 \in Nat /\ i < Len(s) + 1
           /\ s[i] \in Tcp /\ FrameLen(s[i]) \in Nat /\ at[i] \in Nat
           /\ at[i] + FrameLen(s[i]) <= Len(b)
           /\ \A k \in 1 .. FrameLen(s[i]) : at[i] + k \in 1 .. Len(b)
<1>1. Len(s) \in Nat /\ Len(b) \in Nat  BY Length
<1>2. i \in Nat /\ i \in 1 .. Len(s) /\ i + 1 \in Nat /\ i < Len(s) + 1  BY <1>1
<1>3. s[i] \in Tcp /\ at[i] \in Nat  BY <1>2
<1>4. FrameLen(s[i]) \in Nat  BY <1>3, Sizes
<1>5. at[i] + FrameLen(s[i]) <= Len(b)
  <2>1. Len(s) + 1 \in g + 1 .. Len(s) + 1  BY <1>1
  <2> QED  BY <1>2, <2>1 DEF Laid
<1>6. \A k \in 1 .. FrameLen(s[i]) : at[i] + k \in 1 .. Len(b)
  BY <1>1, <1>3, <1>4, <1>5, Inside
<1> QED  BY <1>2, <1>3, <1>4, <1>5, <1>6

(* A new frame is laid behind all that are on their way.                   *)
LEMMA FrameAdded ==
    ASSUME NEW g \in Nat, NEW s \in Seq(Tcp), g <= Len(s), NEW b \in Seq(Tcp \X Nat),
           NEW at \in [Nat -> Nat], Laid(at, g, s, b), NEW x \in Tcp,
           NEW t, t = Append(s, x), NEW c, c = b \o Frame(x)
    PROVE  \E bt \in [Nat -> Nat] : Laid(bt, g, t, c)
<1> DEFINE n == Len(s)
           w == Len(b)
           f == FrameLen(x)
<1>1. n \in Nat /\ w \in Nat /\ f \in Nat /\ f > 2 /\ g <= n
  <2>1. n \in Nat /\ w \in Nat  BY Length
  <2>2. f \in Nat /\ f > 2  BY Sizes
  <2> QED  BY <2>1, <2>2
<1>2. /\ Len(c) = w + f /\ \A i \in 1 .. w : c[i] = b[i]
      /\ \A k \in 1 .. f : c[w + k] = <<x, k>>
  <2>1. /\ Frame(x) \in Seq(Tcp \X Nat) /\ Len(Frame(x)) = f
        /\ \A k \in 1 .. f : Frame(x)[k] = <<x, k>>
    BY Framed DEF FrameLen
  <2>2. \A y \in Seq(Tcp \X Nat) :
            /\ Len(b \o y) = Len(b) + Len(y) /\ \A i \in 1 .. Len(b) : (b \o y)[i] = b[i]
            /\ \A k \in 1 .. Len(y) : (b \o y)[Len(b) + k] = y[k]
    BY Joined
  <2> QED  BY <2>1, <2>2
<1>3. Len(t) = n + 1 /\ t[n + 1] = x /\ \A i \in 1 .. n : t[i] = s[i]  BY Appended
<1> HIDE DEF n, w, f
<1>4. /\ g + 1 \in Nat /\ n + 1 \in Nat /\ n + 2 \in Nat /\ w + f \in Nat
      /\ g + 1 # n + 2 /\ n + 1 # n + 2 /\ n + 1 + 1 = n + 2 /\ Len(t) + 1 = n + 2
  BY ONLY <1>1, <1>3
<1>11. \A i \in g + 1 .. Len(t) : i = n + 1 \/ i \in g + 1 .. n
  BY ONLY <1>1, <1>3
<1>5. PICK bt \in [Nat -> Nat] :
          bt[n + 2] = w + f /\ \A i \in Nat : i # n + 2 => bt[i] = at[i]
  <2>1. \A m, v \in Nat : \E bt \in [Nat -> Nat] :
            bt[m] = v /\ \A i \in Nat : i # m => bt[i] = at[i]
    BY Extended
  <2>2. n + 2 \in Nat /\ w + f \in Nat  BY <1>4
  <2> QED  BY ONLY <2>1, <2>2, Zenon
<1>6. ASSUME NEW i \in g + 1 .. n
      PROVE  /\ i \in Nat /\ i \in 1 .. n /\ i + 1 \in Nat /\ i # n + 2 /\ i + 1 # n + 2
             /\ FrameLen(s[i]) \in Nat /\ at[i] \in Nat
             /\ bt[i] = at[i] /\ bt[i + 1] = at[i + 1] /\ t[i] = s[i]
             /\ at[i] + FrameLen(s[i]) <= w
             /\ \A k \in 1 .. FrameLen(s[i]) : at[i] + k \in 1 .. w
  <2>1. /\ i \in Nat /\ i \in 1 .. n /\ i + 1 \in Nat /\ i < n + 1
        /\ FrameLen(s[i]) \in Nat /\ at[i] \in Nat /\ at[i] + FrameLen(s[i]) <= w
        /\ \A k \in 1 .. FrameLen(s[i]) : at[i] + k \in 1 .. w
    BY Places DEF n, w
  <2>2. i # n + 2 /\ i + 1 # n + 2  BY <1>1, <2>1
  <2> QED  BY <1>3, <1>5, <2>1, <2>2
<1>7. bt[g + 1] = 0 /\ bt[n + 1] = w /\ bt[Len(t) + 1] = Len(c)
  BY <1>2, <1>4, <1>5 DEF Laid, n, w
<1>8. ASSUME NEW i \in g + 1 .. Len(t)
      PROVE  bt[i + 1] = bt[i] + FrameLen(t[i])
  <2>1. CASE i = n + 1
    BY <2>1, <1>3, <1>4, <1>5, <1>7 DEF f
  <2>2. CASE i # n + 1
    <3>1. i \in g + 1 .. n  BY <2>2, <1>11
    <3>2. at[i + 1] = at[i] + FrameLen(s[i])  BY <3>1 DEF Laid, n
    <3> QED  BY <3>1, <3>2, <1>6
  <2> QED  BY <2>1, <2>2
<1>9. ASSUME NEW i \in g + 1 .. Len(t), NEW j \in g + 1 .. Len(t) + 1, i < j
      PROVE  bt[i] + FrameLen(t[i]) <= bt[j]
  <2>1. CASE i = n + 1
    <3>1. j = n + 2  BY <2>1, <1>1, <1>3, <1>9
    <3>2. bt[i] + FrameLen(t[i]) = w + f  BY <2>1, <1>3, <1>7 DEF f
    <3>3. w + f <= w + f  BY <1>4
    <3> QED  BY <3>1, <3>2, <3>3, <1>5
  <2>2. CASE i # n + 1
    <3>1. i \in g + 1 .. n  BY <2>2, <1>11
    <3>2. bt[i] = at[i] /\ t[i] = s[i] /\ at[i] + FrameLen(s[i]) <= w
          /\ at[i] \in Nat /\ FrameLen(s[i]) \in Nat
      BY <3>1, <1>6
    <3>3. CASE j = n + 2
      <4>1. at[i] + FrameLen(s[i]) <= w + f  BY <3>2, <1>1, Further
      <4> QED  BY <3>2, <3>3, <4>1, <1>5
    <3>4. CASE j # n + 2
      <4>1. j \in g + 1 .. n + 1 /\ j \in Nat  BY <3>4, <1>1, <1>3
      <4>2. bt[j] = at[j]  BY <3>4, <4>1, <1>5
      <4>3. at[i] + FrameLen(s[i]) <= at[j]  BY <3>1, <4>1, <1>9 DEF Laid, n
      <4> QED  BY <3>2, <4>2, <4>3
    <3> QED  BY <3>3, <3>4
  <2> QED  BY <2>1, <2>2
<1>10. ASSUME NEW i \in g + 1 .. Len(t), NEW k \in 1 .. FrameLen(t[i])
       PROVE  c[bt[i] + k] = <<t[i], k>>
  <2>1. CASE i = n + 1
    <3>1. t[i] = x /\ bt[i] = w /\ k \in 1 .. f
      BY <2>1, <1>3, <1>7, <1>10 DEF f
    <3> QED  BY <3>1, <1>2
  <2>2. CASE i # n + 1
    <3>1. i \in g + 1 .. n  BY <2>2, <1>11
    <3>2. bt[i] = at[i] /\ t[i] = s[i] /\ k \in 1 .. FrameLen(s[i])
      BY <3>1, <1>6, <1>10
    <3>3. b[at[i] + k] = <<s[i], k>>  BY <3>1, <3>2 DEF Laid, n
    <3>4. at[i] + k \in 1 .. w  BY <3>1, <3>2, <1>6
    <3> QED  BY <3>2, <3>3, <3>4, <1>2
  <2> QED  BY <2>1, <2>2
<1> QED  BY <1>7, <1>8, <1>9, <1>10 DEF Laid

(* The numbers from one behind g to n.                                     *)
LEMMA Between ==
    ASSUME NEW g \in Nat, NEW n \in Nat, g < n
    PROVE  /\ g + 1 \in g + 1 .. n /\ n \in g + 1 .. n /\ g + 1 \in Nat /\ g <= n /\ g + 1 <= n
           /\ n \in g + 1 .. n + 1
           /\ g + 1 # n => g + 1 < n
  OBVIOUS

(* The first frame is where the reader looks for one.                      *)
LEMMA FrameFirst ==
    ASSUME NEW g \in Nat, NEW s \in Seq(Tcp), g < Len(s), NEW b \in Seq(Tcp \X Nat),
           NEW at \in [Nat -> Nat], Laid(at, g, s, b)
    PROVE  /\ s[g + 1] \in Tcp /\ FrameLen(s[g + 1]) <= Len(b)
           /\ \A k \in 1 .. FrameLen(s[g + 1]) : b[k] = <<s[g + 1], k>>
           /\ s[Len(s)] \in Tcp
           /\ \/ g + 1 = Len(s) /\ Len(b) = FrameLen(s[g + 1])
              \/ FrameLen(s[g + 1]) + FrameLen(s[Len(s)]) <= Len(b)
<1> DEFINE n == Len(s)
<1>1. n \in Nat /\ Len(b) \in Nat  BY Length
<1>2. g + 1 \in g + 1 .. n /\ n \in g + 1 .. n /\ g + 1 \in Nat /\ g <= n
  BY <1>1, Between
<1>3. /\ s[g + 1] \in Tcp /\ FrameLen(s[g + 1]) \in Nat /\ at[g + 1] \in Nat
      /\ at[g + 1] + FrameLen(s[g + 1]) <= Len(b)
  BY <1>2, Places
<1>4. s[n] \in Tcp /\ FrameLen(s[n]) \in Nat /\ at[n] \in Nat
  BY <1>2, Places
<1>5. at[g + 1] = 0 /\ at[n + 1] = Len(b) /\ at[n + 1] = at[n] + FrameLen(s[n])
      /\ \A k \in 1 .. FrameLen(s[g + 1]) : b[at[g + 1] + k] = <<s[g + 1], k>>
  BY <1>2 DEF Laid
<1>6. ASSUME NEW k \in 1 .. FrameLen(s[g + 1])  PROVE b[k] = <<s[g + 1], k>>
  <2>1. 0 + k = k  BY <1>3
  <2> QED  BY <1>5, <2>1
<1>7. FrameLen(s[g + 1]) <= Len(b)  BY <1>3, <1>5
<1>8. CASE g + 1 = n
  <2>1. 0 + FrameLen(s[n]) = FrameLen(s[n])  BY <1>4
  <2> QED  BY <1>3, <1>4, <1>5, <1>6, <1>7, <1>8, <2>1
<1>9. CASE g + 1 # n
  <2>1. g + 1 < n /\ n \in g + 1 .. n + 1  BY <1>1, <1>9, Between
  <2>2. at[g + 1] + FrameLen(s[g + 1]) <= at[n]  BY <1>2, <2>1 DEF Laid
  <2>3. FrameLen(s[g + 1]) <= at[n]  BY <1>3, <1>5, <2>2
  <2>4. FrameLen(s[g + 1]) + FrameLen(s[n]) <= at[n] + FrameLen(s[n])
    BY ONLY <1>3, <1>4, <2>3
  <2> QED  BY <1>3, <1>4, <1>5, <1>6, <1>7, <2>4
<1> QED  BY <1>8, <1>9

(* Behind the first frame the others are laid as they were.                *)
LEMMA FrameTaken ==
    ASSUME NEW g \in Nat, NEW s \in Seq(Tcp), g < Len(s), NEW b \in Seq(Tcp \X Nat),
           NEW at \in [Nat -> Nat], Laid(at, g, s, b), NEW c, c = Rest(b, FrameLen(s[g + 1]))
    PROVE  \E bt \in [Nat -> Nat] : Laid(bt, g + 1, s, c)
<1> DEFINE n == Len(s)
           w == Len(b)
           f == FrameLen(s[g + 1])
<1>1. n \in Nat /\ w \in Nat  BY Length
<1>2. g + 1 \in g + 1 .. n /\ g + 1 \in Nat /\ g <= n /\ g + 1 <= n
  BY <1>1, Between
<1>3. f \in Nat /\ f <= w /\ at[g + 1] = 0 /\ at[n + 1] = w
  BY <1>2, Places, FrameFirst DEF Laid
<1>4. Len(c) = w - f /\ \A i \in 1 .. w - f : c[i] = b[f + i]
  <2>1. f \in 0 .. w  BY ONLY <1>1, <1>3
  <2> QED  BY <2>1, Parts, ZenonT(60)
<1> HIDE DEF n, w, f
<1>5. ASSUME NEW j \in g + 2 .. n + 1  PROVE at[j] \in Nat /\ f <= at[j]
  <2>1. j \in g + 1 .. n + 1 /\ g + 1 < j /\ j \in Nat  BY ONLY <1>1, <1>5, g \in Nat
  <2>2. at[g + 1] + f <= at[j]  BY <1>2, <2>1 DEF Laid, n, f
  <2>3. 0 + f <= at[j]  BY ONLY <1>3, <2>2
  <2> QED  BY <1>3, <2>1, <2>3
<1>6. PICK bt \in [Nat -> Nat] : \A j \in g + 2 .. n + 1 : bt[j] = at[j] - f
  <2>1. \A j \in g + 2 .. n + 1 : at[j] - f \in Nat
    <3>1. \A x \in Nat : f <= x => x - f \in Nat  BY ONLY <1>3
    <3> QED  BY ONLY <1>5, <3>1
  <2>2. [j \in Nat |-> IF j \in g + 2 .. n + 1 THEN at[j] - f ELSE 0] \in [Nat -> Nat]
    BY <2>1
  <2>3. \A j \in g + 2 .. n + 1 : j \in Nat  BY <1>1
  <2> QED  BY <2>2, <2>3
<1>7. g + 1 + 1 = g + 2 /\ g + 2 \in g + 2 .. n + 1 /\ n + 1 \in g + 2 .. n + 1
  BY ONLY <1>1, <1>2, g \in Nat
<1>8. bt[g + 1 + 1] = 0
  <2>1. at[g + 1 + 1] = at[g + 1] + f  BY <1>2 DEF Laid, n, f
  <2>2. at[g + 2] = f  BY ONLY <1>3, <1>7, <2>1
  <2> QED  BY ONLY <1>3, <1>6, <1>7, <2>2
<1>9. bt[n + 1] = Len(c)  BY <1>3, <1>4, <1>6, <1>7
<1>10. ASSUME NEW i \in g + 1 + 1 .. n
       PROVE  /\ i \in g + 1 .. n /\ i \in g + 2 .. n + 1 /\ i + 1 \in g + 2 .. n + 1
              /\ at[i] \in Nat /\ FrameLen(s[i]) \in Nat
              /\ at[i + 1] = at[i] + FrameLen(s[i])
              /\ f <= at[i] /\ bt[i] = at[i] - f
  <2>1. i \in g + 1 .. n /\ i \in g + 2 .. n + 1 /\ i + 1 \in g + 2 .. n + 1
    BY ONLY <1>1, <1>10, g \in Nat
  <2>2. FrameLen(s[i]) \in Nat  BY <2>1, <1>2, Places DEF n
  <2>3. at[i + 1] = at[i] + FrameLen(s[i])  BY <2>1 DEF Laid, n
  <2> QED  BY <1>5, <1>6, <2>1, <2>2, <2>3
<1>11. ASSUME NEW i \in g + 1 + 1 .. n  PROVE bt[i + 1] = bt[i] + FrameLen(s[i])
  <2>1. at[i] \in Nat /\ FrameLen(s[i]) \in Nat /\ bt[i] = at[i] - f
    BY <1>10
  <2>2. bt[i + 1] = at[i + 1] - f /\ at[i + 1] = at[i] + FrameLen(s[i])
    BY <1>6, <1>10
  <2>3. \A x, y \in Nat : (x + y) - f = (x - f) + y  BY ONLY <1>3
  <2>4. (at[i] + FrameLen(s[i])) - f = (at[i] - f) + FrameLen(s[i])  BY ONLY <2>1, <2>3
  <2>5. bt[i + 1] = (at[i] + FrameLen(s[i])) - f  BY ONLY <2>2, Zenon
  <2> QED  BY ONLY <2>1, <2>4, <2>5
<1>12. ASSUME NEW i \in g + 1 + 1 .. n, NEW j \in g + 1 + 1 .. n + 1, i < j
       PROVE  bt[i] + FrameLen(s[i]) <= bt[j]
  <2>1. j \in g + 2 .. n + 1 /\ j \in g + 1 .. n + 1
    BY ONLY <1>1, <1>12, g \in Nat
  <2>2. at[i] + FrameLen(s[i]) <= at[j]  BY <1>10, <1>12, <2>1 DEF Laid, n
  <2>3. bt[j] = at[j] - f /\ at[j] \in Nat  BY <1>5, <1>6, <2>1
  <2>4. \A x, y, z \in Nat : x + y <= z => x - f + y <= z - f  BY ONLY <1>3
  <2> QED  BY ONLY <1>10, <2>2, <2>3, <2>4
<1>13. ASSUME NEW i \in g + 1 + 1 .. n, NEW k \in 1 .. FrameLen(s[i])
       PROVE  c[bt[i] + k] = <<s[i], k>>
  <2>1. b[at[i] + k] = <<s[i], k>>  BY <1>10 DEF Laid, n
  <2>2. at[i] + k \in 1 .. w  BY <1>2, <1>10, Places DEF n, w
  <2>3. \A x \in Nat : \A m \in 1 .. FrameLen(s[i]) :
            f <= x /\ x + m \in 1 .. w => x - f + m \in 1 .. w - f /\ f + (x - f + m) = x + m
    BY ONLY <1>1, <1>3, <1>10
  <2>4. at[i] - f + k \in 1 .. w - f /\ f + (at[i] - f + k) = at[i] + k
    BY <1>10, <2>2, <2>3
  <2> QED  BY <1>4, <1>10, <2>1, <2>4
<1> QED  BY <1>8, <1>9, <1>11, <1>12, <1>13 DEF Laid, n

-----------------------------------------------------------------------------

(* The flow's thread.                                                      *)

(* The packets of a read were with the flow, and nothing is being written. *)
LEMMA PacketsReadStep == PipeInv /\ PacketsRead => PipeInv'
<1> SUFFICES ASSUME PipeInv, PacketsRead PROVE PipeInv'  OBVIOUS
<1> USE DEF PipeInv
<1>1. PICK n \in 1 .. MaxBatch : \E b \in [1 .. n -> unread] :
          /\ \A i, j \in 1 .. n : b[i] = b[j] => i = j
          /\ batch' = b /\ unread' = unread \ {b[i] : i \in 1 .. n}
  BY DEF PacketsRead
<1>2. /\ batch' \in [1 .. n -> unread] /\ unread' = unread \ {batch'[i] : i \in 1 .. n}
      /\ \A i, j \in 1 .. n : batch'[i] = batch'[j] => i = j
      /\ reading /\ reading' = FALSE
      /\ UNCHANGED <<left, pipe, tun, armed, sent, got, divided, failed>>
  BY <1>1 DEF PacketsRead, tunVars
<1>3. n \in Nat /\ n > 0  BY PipeAssumption
<1>4. batch' \in Seq(unread) /\ Len(batch') = n
  BY <1>2, <1>3
<1>5. batch = <<>> /\ left = <<>>  BY <1>2 DEF Once, LeftOK
<1>6. TypeOK'
  <2>1. batch' \in Seq(Packets)  BY <1>4, <1>2, <1>3 DEF TypeOK
  <2>2. reading' \in BOOLEAN  BY <1>2
  <2> QED  BY <1>2, <2>1, <2>2 DEF TypeOK
<1>7. InPlace'
  BY <1>2 DEF InPlace, Stream
<1>8. InOrder'  BY <1>2 DEF InOrder
<1>9. LeftOK'  BY <1>2, <1>5 DEF LeftOK
<1>10. Once'  BY <1>2, <1>3, <1>4, <1>5 DEF Once
<1>11. Known'  BY <1>2 DEF Known
<1> QED  BY <1>6, <1>7, <1>8, <1>9, <1>10, <1>11

(* A packet that was read is sent once, behind all others.                 *)
LEMMA HandleTcpPacketStep == PipeInv /\ HandleTcpPacket => PipeInv'
<1> SUFFICES ASSUME PipeInv, HandleTcpPacket PROVE PipeInv'  OBVIOUS
<1> USE DEF PipeInv
<1> DEFINE x == Head(batch)
<1>1. /\ batch # <<>> /\ left = <<>> /\ x \in Tcp
      /\ left' = Frame(x) /\ sent' = Append(sent, x)
      /\ UNCHANGED <<unread, batch, reading, pipe, tun, armed, got, divided, failed>>
  BY DEF HandleTcpPacket, tunVars
<1>2. x = batch[1] /\ 1 \in 1 .. Len(batch)
  BY <1>1, Tailed DEF TypeOK
<1> HIDE DEF x
<1>3. /\ Len(left') = FrameLen(x) /\ left' \in Seq(Tcp \X Nat)
      /\ \A k \in 1 .. FrameLen(x) : left'[k] = <<x, k>>
      /\ FrameLen(x) \in Nat /\ FrameLen(x) > 2
  BY <1>1, Framed, Sizes DEF FrameLen
<1>4. /\ sent' \in Seq(Tcp) /\ Len(sent') = Len(sent) + 1 /\ sent'[Len(sent) + 1] = x
      /\ \A i \in 1 .. Len(sent) : sent'[i] = sent[i]
      /\ Len(sent) \in Nat
  BY <1>1, Appended, Length DEF TypeOK
<1>5. TypeOK'  BY <1>1, <1>3, <1>4 DEF TypeOK
<1>6. InPlace'
  <2> SUFFICES ASSUME 1 \notin divided, tun # "ended"
               PROVE  \E bt \in [Nat -> Nat] : Laid(bt, Len(got'), sent', Stream')
    BY <1>1 DEF InPlace
  <2>1. PICK at \in [Nat -> Nat] : Laid(at, Len(got), sent, Stream)
    BY DEF InPlace
  <2>2. Stream = pipe /\ Stream' = Stream \o Frame(x) /\ Stream \in Seq(Tcp \X Nat)
    <3>1. pipe \in Seq(Tcp \X Nat)  BY DEF TypeOK
    <3>2. pipe \o <<>> = pipe  BY <3>1
    <3> QED  BY <1>1, <3>1, <3>2 DEF Stream
  <2>3. Len(got) \in Nat /\ Len(got) <= Len(sent)
    BY Length DEF TypeOK, InOrder
  <2>4. sent \in Seq(Tcp) /\ got' = got  BY <1>1 DEF TypeOK
  <2>5. \E bt \in [Nat -> Nat] : Laid(bt, Len(got), sent', Stream')
    BY <1>1, <2>1, <2>2, <2>3, <2>4, FrameAdded
  <2> QED  BY <2>4, <2>5
<1>7. InOrder'
  <2>1. got' = got /\ divided' = divided /\ failed' = failed /\ Len(got) \in Nat
    BY <1>1, Length DEF TypeOK
  <2>2. ASSUME 1 \notin divided
        PROVE  Len(got) <= Len(sent') /\ \A i \in 1 .. Len(got) : got[i] = sent'[i]
    BY <1>4, <2>1, <2>2 DEF InOrder
  <2> QED  BY <2>1, <2>2 DEF InOrder
<1>8. LeftOK'
  <2>1. sent' # <<>> /\ LastSent' = x /\ batch' # <<>> /\ Head(batch') = x
    BY <1>1, <1>4 DEF LastSent, x
  <2>2. \A k \in 1 .. FrameLen(x) : FrameLen(x) - FrameLen(x) + k = k
    BY <1>3
  <2> QED  BY <1>3, <2>1, <2>2 DEF LeftOK, FrameLen
<1>9. Once'
  <2>1. left' # <<>>  BY <1>3
  <2>2. \A j \in 1 .. Len(sent') : j \in 1 .. Len(sent) \/ j = Len(sent) + 1
    BY <1>4
  <2> QED  BY <1>1, <1>2, <1>4, <2>1, <2>2 DEF Once
<1>10. Known'
  <2>1. \A j \in 1 .. Len(sent) : j \in 1 .. Len(sent')  BY <1>4
  <2> QED  BY <1>1, <1>4, <2>1 DEF Known
<1> QED  BY <1>5, <1>6, <1>7, <1>8, <1>9, <1>10

(* The block goes on: what it leaves behind is not read again.              *)
LEMMA GoesOn ==
    ASSUME TypeOK, Once, batch # <<>>, Go(Tail(batch)), UNCHANGED <<unread, sent>>
    PROVE  Once' /\ batch' \in Seq(Packets) /\ reading' \in BOOLEAN
<1>1. batch' = Tail(batch) /\ reading' = (batch' = <<>>)  BY DEF Go
<1>2. /\ batch' \in Seq(Packets) /\ Len(batch) \in Nat /\ Len(batch') = Len(batch) - 1
      /\ \A i \in 1 .. Len(batch) - 1 : batch'[i] = batch[i + 1]
  BY <1>1, Tailed, Length DEF TypeOK
<1>3. \A i \in 1 .. Len(batch') :
          i \in Nat /\ i + 1 \in 1 .. Len(batch) /\ i + 1 # 1 /\ batch'[i] = batch[i + 1]
  BY <1>2
<1>4. \A i, j \in 1 .. Len(batch') : batch'[i] = batch'[j] => i = j
  <2>1. ASSUME NEW i \in 1 .. Len(batch'), NEW j \in 1 .. Len(batch'), batch'[i] = batch'[j]
        PROVE  i = j
    <3>1. i + 1 = j + 1  BY <1>3, <2>1 DEF Once
    <3>2. i \in Nat /\ j \in Nat  BY <1>3
    <3> QED  BY ONLY <3>1, <3>2
  <2> QED  BY <2>1
<1>5. \A i \in 1 .. Len(batch') : batch'[i] \notin unread'  BY <1>3 DEF Once
<1>6. \A i \in 1 .. Len(batch'), j \in 1 .. Len(sent') : batch'[i] # sent'[j]
  BY <1>3 DEF Once
<1>7. \A j \in 1 .. Len(sent') : sent'[j] \notin unread'  BY DEF Once
<1>8. reading' => batch' = <<>>  BY <1>1
<1>9. reading' \in BOOLEAN  BY <1>1
<1>10. Once'  BY ONLY <1>4, <1>5, <1>6, <1>7, <1>8 DEF Once
<1> QED  BY <1>2, <1>9, <1>10

(* A packet that is not TCP leaves the pipe alone.                         *)
LEMMA HandleOtherStep == PipeInv /\ HandleOther => PipeInv'
<1> SUFFICES ASSUME PipeInv, HandleOther PROVE PipeInv'  OBVIOUS
<1> USE DEF PipeInv
<1>1. /\ batch # <<>> /\ left = <<>> /\ Go(Tail(batch))
      /\ UNCHANGED <<unread, left, pipe, tun, armed, sent, got, divided, failed>>
  BY DEF HandleOther, tunVars
<1>2. Once' /\ batch' \in Seq(Packets) /\ reading' \in BOOLEAN
  BY <1>1, GoesOn
<1>3. TypeOK'  BY <1>1, <1>2 DEF TypeOK
<1>4. InPlace' /\ InOrder' /\ LeftOK' /\ Known'
  BY <1>1 DEF InPlace, Stream, InOrder, LeftOK, Known
<1> QED  BY <1>2, <1>3, <1>4

(* What a write takes of a frame goes from one end to the other.           *)
LEMMA WriteMoves ==
    ASSUME TypeOK, LeftOK, Write
    PROVE  \E m \in 1 .. Len(left) :
              /\ Room = m /\ Len(pipe) + m <= Capacity
              /\ pipe' = pipe \o First(left, m) /\ left' = Rest(left, m)
<1>1. left # <<>> /\ left \in Seq(Tcp \X Nat) /\ pipe \in Seq(Tcp \X Nat)
      /\ Len(pipe) <= Capacity
  BY DEF TypeOK, Write
<1>2. Len(left) \in Nat /\ Len(pipe) \in Nat /\ Len(left) > 0 /\ Capacity \in Nat
  BY <1>1, Length, Tailed, PipeAssumption
<1>3. Room > 0 /\ Room = Least(Capacity - Len(pipe), Len(left))
  BY DEF Write, Room
<1>4. Room \in 1 .. Len(left) /\ Len(pipe) + Room <= Capacity
  BY <1>1, <1>2, <1>3 DEF Least
<1> QED  BY <1>4 DEF Write

(* A write moves the boundary between pipe and writer, and nothing else.   *)
LEMMA WriteStep == PipeInv /\ Write => PipeInv'
<1> SUFFICES ASSUME PipeInv, Write PROVE PipeInv'  OBVIOUS
<1> USE DEF PipeInv
<1>1. PICK m \in 1 .. Len(left) :
              /\ Room = m /\ Len(pipe) + m <= Capacity
              /\ pipe' = pipe \o First(left, m) /\ left' = Rest(left, m)
  BY WriteMoves
<1>2. /\ left # <<>> /\ left \in Seq(Tcp \X Nat) /\ pipe \in Seq(Tcp \X Nat)
      /\ Len(left) \in Nat /\ Len(pipe) \in Nat /\ m \in Nat /\ m > 0
      /\ UNCHANGED <<unread, tun, armed, sent, got, failed>>
  BY Length DEF Write, TypeOK, tunVars
<1>3. /\ First(left, m) \in Seq(Tcp \X Nat) /\ Len(First(left, m)) = m
      /\ \A k \in 1 .. m : First(left, m)[k] = left[k]
      /\ left' \in Seq(Tcp \X Nat) /\ Len(left') = Len(left) - m
      /\ \A k \in 1 .. Len(left) - m : left'[k] = left[m + k]
  <2>1. m \in 0 .. Len(left)  OBVIOUS
  <2> QED  BY <1>1, <1>2, <2>1, Parts, ZenonT(60)
<1>4. /\ pipe' \in Seq(Tcp \X Nat) /\ Len(pipe') = Len(pipe) + m
      /\ \A i \in 1 .. Len(pipe) : pipe'[i] = pipe[i]
      /\ \A i \in 1 .. m : pipe'[Len(pipe) + i] = left[i]
  <2>1. pipe \in Seq(Tcp \X Nat)  BY <1>2
  <2>2. \A y \in Seq(Tcp \X Nat) :
            /\ pipe \o y \in Seq(Tcp \X Nat) /\ Len(pipe \o y) = Len(pipe) + Len(y)
            /\ \A i \in 1 .. Len(pipe) : (pipe \o y)[i] = pipe[i]
            /\ \A k \in 1 .. Len(y) : (pipe \o y)[Len(pipe) + k] = y[k]
    BY <2>1, Joined
  <2> DEFINE y == First(left, m)
  <2>3. /\ pipe \o y \in Seq(Tcp \X Nat) /\ Len(pipe \o y) = Len(pipe) + Len(y)
        /\ \A i \in 1 .. Len(pipe) : (pipe \o y)[i] = pipe[i]
        /\ \A k \in 1 .. Len(y) : (pipe \o y)[Len(pipe) + k] = y[k]
    BY <1>3, <2>2, Zenon
  <2>4. pipe' = pipe \o y  BY <1>1
  <2>5. Len(y) = m /\ \A k \in 1 .. m : y[k] = left[k]  BY <1>3
  <2> QED  BY ONLY <2>3, <2>4, <2>5
<1>5. Stream' = Stream
  <2>1. m \in 0 .. Len(left)  OBVIOUS
  <2> QED  BY <1>1, <1>2, <2>1, Rejoined DEF Stream
<1>6. sent # <<>> /\ sent \in Seq(Tcp) /\ Len(sent) \in Nat /\ Len(sent) > 0
      /\ Len(sent) \in 1 .. Len(sent) /\ LastSent \in Tcp
  <2>1. sent # <<>> /\ sent \in Seq(Tcp)  BY <1>2 DEF LeftOK, TypeOK
  <2>2. Len(sent) \in Nat /\ Len(sent) > 0  BY <2>1, Length, Tailed
  <2> QED  BY <2>1, <2>2 DEF LastSent
<1> DEFINE l == Len(left)
           L == FrameLen(LastSent)
<1>7. /\ l \in Nat /\ L \in Nat /\ m \in Nat /\ m > 0 /\ m <= l /\ l <= L
      /\ batch # <<>> /\ Head(batch) = LastSent
      /\ \A k \in 1 .. l : left[k] = <<LastSent, L - l + k>>
  <2>1. L \in Nat  BY <1>6, Sizes
  <2>2. /\ batch # <<>> /\ Head(batch) = LastSent /\ l <= L
        /\ \A k \in 1 .. l : left[k] = <<LastSent, L - l + k>>
    BY <1>2 DEF LeftOK
  <2>3. l \in Nat /\ m \in Nat /\ m > 0 /\ m <= l  BY ONLY <1>2
  <2> QED  BY <2>1, <2>2, <2>3
<1>8. left' # <<>> => divided' = divided \cup {L - Len(left')}
  <2>1. 1 \in 1 .. l  BY <1>7
  <2>2. left[1][2] = L - l + 1  BY <1>7, <2>1
  <2>3. L - l + 1 + m - 1 = L - Len(left')  BY <1>3, <1>7
  <2> QED  BY <1>1, <2>2, <2>3 DEF Write
<1>9. left' = <<>> => divided' = divided  BY DEF Write
<1> HIDE DEF l, L
<1>10. Len(left') = l - m /\ \A k \in 1 .. l - m : left'[k] = left[m + k]  BY <1>3 DEF l
<1>11. divided \subseteq divided' /\ divided' \subseteq Nat
  <2>1. L - Len(left') \in Nat  BY <1>7, <1>10
  <2> QED  BY <1>8, <1>9, <2>1 DEF TypeOK
<1>12. Once' /\ batch' \in Seq(Packets) /\ reading' \in BOOLEAN
  <2>1. CASE left' = <<>>
    BY <1>2, <1>7, <2>1, GoesOn DEF Write
  <2>2. CASE left' # <<>>
    <3>1. UNCHANGED <<batch, reading>>  BY <2>2 DEF Write
    <3> QED  BY <1>2, <2>2, <3>1 DEF Once, TypeOK
  <2> QED  BY <2>1, <2>2
<1>13. TypeOK'
  <2>1. Len(pipe') <= Capacity  BY <1>1, <1>4
  <2> QED  BY <1>2, <1>3, <1>4, <1>11, <1>12, <2>1 DEF TypeOK
<1>14. InPlace'  BY <1>2, <1>5, <1>11 DEF InPlace
<1>15. InOrder'  BY <1>2, <1>11 DEF InOrder
<1>16. LeftOK'
  <2> SUFFICES ASSUME left' # <<>> PROVE LeftOK'  BY DEF LeftOK
  <2>1. batch' = batch /\ sent' = sent /\ LastSent' = LastSent /\ FrameLen(LastSent)' = L
    BY <1>2 DEF Write, LastSent, L, FrameLen
  <2>2. Len(left') <= L /\ L - Len(left') \in divided'  BY <1>7, <1>8, <1>10
  <2>3. ASSUME NEW k \in 1 .. Len(left')  PROVE left'[k] = <<LastSent, L - Len(left') + k>>
    <3>1. m + k \in 1 .. l /\ k \in 1 .. l - m  BY <1>7, <1>10
    <3>2. L - l + (m + k) = L - Len(left') + k  BY <1>7, <1>10, <3>1
    <3>3. left'[k] = <<LastSent, L - l + (m + k)>>  BY <1>7, <1>10, <3>1
    <3> QED  BY <3>2, <3>3
  <2>4. \A k \in 1 .. Len(left') : left'[k] = <<LastSent, L - Len(left') + k>>  BY <2>3
  <2> QED  BY <1>6, <1>7, <2>1, <2>2, <2>4 DEF LeftOK, FrameLen, L
<1>17. Known'
  <2>1. ASSUME NEW i \in 1 .. Len(pipe')  PROVE \E j \in 1 .. Len(sent) : pipe'[i][1] = sent[j]
    <3>1. CASE i \in 1 .. Len(pipe)
      <4>1. pipe'[i] = pipe[i]  BY <1>4, <3>1
      <4>2. \E j \in 1 .. Len(sent) : pipe[i][1] = sent[j]  BY <3>1 DEF Known
      <4> QED  BY ONLY <4>1, <4>2
    <3>2. CASE i \in Len(pipe) + 1 .. Len(pipe) + m
      <4>1. PICK k \in 1 .. m : i = Len(pipe) + k
        <5>1. i - Len(pipe) \in 1 .. m /\ i = Len(pipe) + (i - Len(pipe))  BY <1>2, <3>2
        <5> QED  BY <5>1
      <4>2. k \in 1 .. l  BY <1>7
      <4>3. pipe'[i] = <<LastSent, L - l + k>>  BY <1>4, <1>7, <4>1, <4>2
      <4> QED  BY <1>6, <4>3 DEF LastSent
    <3> QED  BY <1>2, <1>4, <3>1, <3>2
  <2> QED  BY <1>2, <2>1 DEF Known
<1> QED  BY <1>12, <1>13, <1>14, <1>15, <1>16, <1>17

-----------------------------------------------------------------------------
(* The reactor's thread.                                                   *)

(* What a reader finds: the first frame that was not received.  One that is*)
(* not all there is the last, and its write was divided where the pipe ends*)
LEMMA ReaderFinds ==
    ASSUME PipeInv, 1 \notin divided, tun = "running", Len(pipe) > 0
    PROVE  /\ Len(got) \in Nat /\ Len(got) < Len(sent) /\ sent[Len(got) + 1] \in Tcp
           /\ \A k \in 1 .. FrameLen(sent[Len(got) + 1]) :
                 k <= Len(pipe) => pipe[k] = <<sent[Len(got) + 1], k>>
           /\ Len(pipe) < FrameLen(sent[Len(got) + 1]) => Len(pipe) \in divided
<1> USE DEF PipeInv
<1>1. PICK at \in [Nat -> Nat] : Laid(at, Len(got), sent, Stream)
  BY DEF InPlace
<1>2. /\ sent \in Seq(Tcp) /\ pipe \in Seq(Tcp \X Nat) /\ left \in Seq(Tcp \X Nat)
      /\ Len(got) \in Nat /\ Len(got) <= Len(sent) /\ Len(sent) \in Nat
      /\ Len(pipe) \in Nat /\ Len(left) \in Nat
  BY Length DEF TypeOK, InOrder
<1>3. /\ Stream \in Seq(Tcp \X Nat) /\ Len(Stream) = Len(pipe) + Len(left)
      /\ \A i \in 1 .. Len(pipe) : Stream[i] = pipe[i]
  BY <1>2, Joined DEF Stream
<1>9. /\ Len(Stream) = Len(pipe) + Len(left) /\ Len(pipe) > 0
      /\ Len(pipe) \in Nat /\ Len(left) \in Nat
  BY <1>2, <1>3
<1>4. Len(got) < Len(sent)
  <2>1. CASE Len(got) = Len(sent)
    <3>1. Len(Stream) = 0  BY <1>1, <2>1 DEF Laid
    <3>2. \A y, v \in Nat : y > 0 => y + v # 0  OBVIOUS
    <3> QED  BY ONLY <1>9, <3>1, <3>2
  <2> QED  BY <1>2, <2>1
<1> DEFINE x == sent[Len(got) + 1]
           f == FrameLen(x)
           z == FrameLen(LastSent)
<1>5. /\ x \in Tcp /\ f <= Len(Stream) /\ \A k \in 1 .. f : Stream[k] = <<x, k>>
      /\ LastSent \in Tcp
      /\ \/ Len(got) + 1 = Len(sent) /\ Len(Stream) = f
         \/ f + z <= Len(Stream)
  BY <1>1, <1>2, <1>3, <1>4, FrameFirst DEF LastSent
<1>6. f \in Nat /\ z \in Nat  BY <1>5, Sizes
<1>7. \A k \in 1 .. f : k <= Len(pipe) => pipe[k] = <<x, k>>
  <2>1. ASSUME NEW k \in 1 .. f, k <= Len(pipe)  PROVE pipe[k] = <<x, k>>
    <3>1. k \in 1 .. Len(pipe)  BY <1>6, <1>9, <2>1
    <3> QED  BY <1>3, <1>5, <3>1
  <2> QED  BY <2>1
<1>8. ASSUME Len(pipe) < f  PROVE Len(pipe) \in divided
  <2>1. left # <<>>
    <3>1. Len(left) # 0  BY ONLY <1>5, <1>6, <1>8, <1>9
    <3> QED  BY <3>1
  <2>2. Len(left) <= z /\ (Len(left) < z => z - Len(left) \in divided)
    BY <2>1 DEF LeftOK
  <2>3. Len(got) + 1 = Len(sent) /\ Len(Stream) = f
    BY ONLY <1>5, <1>6, <1>8, <1>9, <2>2
  <2>4. z = f  BY <2>3 DEF LastSent
  <2>5. Len(left) < z /\ z - Len(left) = Len(pipe)
    <3>1. \A y, v \in Nat : y > 0 => v < y + v /\ (y + v) - v = y  OBVIOUS
    <3>2. z = Len(pipe) + Len(left)  BY ONLY <1>9, <2>3, <2>4
    <3> QED  BY ONLY <1>9, <3>1, <3>2
  <2> QED  BY <2>2, <2>5
<1> QED  BY <1>2, <1>4, <1>5, <1>7, <1>8

(* A lone byte is there only when a header was divided.                    *)
LEMMA ReadLoneByteStep == PipeInv /\ ReadLoneByte => PipeInv'
<1> SUFFICES ASSUME PipeInv, ReadLoneByte PROVE PipeInv'  OBVIOUS
<1>1. /\ tun = "running" /\ Len(pipe) = 1 /\ pipe' = <<>>
      /\ UNCHANGED <<unread, batch, reading, left, tun, armed, sent, got, divided, failed>>
  BY DEF ReadLoneByte, flowVars, tunVars
<1>2. 1 \in divided
  <2> SUFFICES ASSUME 1 \notin divided PROVE FALSE  OBVIOUS
  <2>1. Len(pipe) > 0  BY <1>1
  <2>2. /\ sent[Len(got) + 1] \in Tcp
        /\ Len(pipe) < FrameLen(sent[Len(got) + 1]) => Len(pipe) \in divided
    BY <1>1, <2>1, ReaderFinds
  <2>3. 1 < FrameLen(sent[Len(got) + 1])  BY <2>2, Sizes
  <2> QED  BY <1>1, <2>2, <2>3
<1> USE DEF PipeInv
<1>3. TypeOK'
  <2>1. pipe' \in Seq(Tcp \X Nat) /\ Len(pipe') <= Capacity  BY <1>1, PipeAssumption
  <2> QED  BY <1>1, <2>1 DEF TypeOK
<1>4. InPlace' /\ InOrder' /\ LeftOK' /\ Once'
  BY <1>1, <1>2 DEF InPlace, InOrder, LeftOK, LastSent, Once
<1>5. Known'  BY <1>1 DEF Known
<1> QED  BY <1>3, <1>4, <1>5

(* What a read of a frame does, whatever is taken for the header.          *)
LEMMA ReadFrameDoes ==
    ASSUME TypeOK, ReadFrame
    PROVE  \E n \in Lengths(pipe[1], pipe[2]) : \E bytes \in Nat :
              /\ n \in Nat /\ Len(pipe) \in Nat /\ Len(pipe) > 1
              /\ bytes = Least(n, Len(pipe) - 2) /\ bytes + 2 \in 0 .. Len(pipe)
              /\ pipe' = Rest(pipe, bytes + 2)
              /\ \/ bytes # n /\ tun' = "ended" /\ failed' = TRUE /\ UNCHANGED <<armed, got>>
                 \/ bytes = n /\ n = 0 /\ UNCHANGED <<tun, armed, got, failed>>
                 \/ /\ bytes = n /\ n > 0 /\ armed' = FALSE /\ UNCHANGED <<tun, failed>>
                    /\ got' = Append(got,
                         IF IsHeader(pipe[1], pipe[2]) THEN pipe[1][1] ELSE Garbage)
<1>1. PICK n \in Lengths(pipe[1], pipe[2]) :
          LET bytes == Least(n, Len(pipe) - 2) IN
          /\ pipe' = Rest(pipe, bytes + 2)
          /\ \/ bytes # n /\ tun' = "ended" /\ failed' = TRUE /\ UNCHANGED <<armed, got>>
             \/ bytes = n /\ n = 0 /\ UNCHANGED <<tunVars, got, failed>>
             \/ /\ bytes = n /\ n > 0 /\ armed' = FALSE
                /\ got' = Append(got,
                     IF IsHeader(pipe[1], pipe[2]) /\ bytes = n THEN pipe[1][1] ELSE Garbage)
                /\ UNCHANGED <<tun, failed>>
  BY DEF ReadFrame, Report
<1>2. pipe \in Seq(Tcp \X Nat) /\ Len(pipe) \in Nat /\ Len(pipe) > 1
  BY Length DEF TypeOK, ReadFrame
<1>3. n \in Nat
  <2>1. pipe[1] \in Tcp \X Nat  BY <1>2
  <2>2. pipe[1][1] \in Tcp  BY <2>1
  <2> QED  BY <2>2, PipeAssumption DEF Lengths
<1> DEFINE bytes == Least(n, Len(pipe) - 2)
<1>4. bytes \in Nat /\ bytes + 2 \in 0 .. Len(pipe)  BY <1>2, <1>3 DEF Least
<1> QED  BY <1>1, <1>2, <1>3, <1>4 DEF tunVars

(* A frame is read whole, or it was divided.                               *)
LEMMA ReadFrameStep == PipeInv /\ ReadFrame => PipeInv'
<1> SUFFICES ASSUME PipeInv, ReadFrame PROVE PipeInv'  OBVIOUS
<1>0. TypeOK /\ PipeInv  BY DEF PipeInv
<1>1. PICK n \in Lengths(pipe[1], pipe[2]), bytes \in Nat :
              /\ n \in Nat /\ Len(pipe) \in Nat /\ Len(pipe) > 1
              /\ bytes = Least(n, Len(pipe) - 2) /\ bytes + 2 \in 0 .. Len(pipe)
              /\ pipe' = Rest(pipe, bytes + 2)
              /\ \/ bytes # n /\ tun' = "ended" /\ failed' = TRUE /\ UNCHANGED <<armed, got>>
                 \/ bytes = n /\ n = 0 /\ UNCHANGED <<tun, armed, got, failed>>
                 \/ /\ bytes = n /\ n > 0 /\ armed' = FALSE /\ UNCHANGED <<tun, failed>>
                    /\ got' = Append(got,
                         IF IsHeader(pipe[1], pipe[2]) THEN pipe[1][1] ELSE Garbage)
  BY <1>0, ReadFrameDoes
<1>2. /\ tun = "running" /\ Len(pipe) > 0
      /\ UNCHANGED <<unread, batch, reading, left, sent, divided>>
  BY <1>1 DEF ReadFrame, flowVars
<1>3. /\ pipe \in Seq(Tcp \X Nat) /\ left \in Seq(Tcp \X Nat) /\ sent \in Seq(Tcp)
      /\ got \in Seq(Tcp \cup {Garbage}) /\ Len(got) \in Nat /\ Len(pipe) \in Nat
  BY <1>0, Length DEF TypeOK
<1>4. /\ pipe' \in Seq(Tcp \X Nat) /\ Len(pipe') = Len(pipe) - (bytes + 2)
      /\ \A i \in 1 .. Len(pipe) - (bytes + 2) : pipe'[i] = pipe[bytes + 2 + i]
  <2>1. \A m \in 0 .. Len(pipe) :
            /\ Rest(pipe, m) \in Seq(Tcp \X Nat) /\ Len(Rest(pipe, m)) = Len(pipe) - m
            /\ \A i \in 1 .. Len(pipe) - m : Rest(pipe, m)[i] = pipe[m + i]
    BY <1>3, Parts, ZenonT(60)
  <2>2. bytes + 2 \in 0 .. Len(pipe) /\ pipe' = Rest(pipe, bytes + 2)  BY <1>1
  <2> QED  BY ONLY <2>1, <2>2
<1>5. pipe[1] \in Tcp \X Nat /\ pipe[1][1] \in Tcp
  <2>1. pipe[1] \in Tcp \X Nat  BY ONLY <1>2, <1>3
  <2> QED  BY ONLY <2>1
<1> DEFINE v == IF IsHeader(pipe[1], pipe[2]) THEN pipe[1][1] ELSE Garbage
<1>6. v \in Tcp \cup {Garbage}  BY <1>5
<1>7. (v = Garbage) \/ \E j \in 1 .. Len(sent) : v = sent[j]
  <2>1. 1 \in 1 .. Len(pipe)  BY <1>1
  <2>2. \E j \in 1 .. Len(sent) : pipe[1][1] = sent[j]  BY <2>1 DEF PipeInv, Known
  <2> QED  BY <2>2
<1>14. \/ bytes # n /\ tun' = "ended" /\ got' = got
       \/ bytes = n /\ n = 0 /\ got' = got
       \/ bytes = n /\ n > 0 /\ got' = Append(got, v)
  BY <1>1
<1> HIDE DEF v
(* What is found in place when no header was divided.                      *)
<1> DEFINE x == sent[Len(got) + 1]
<1>8. ASSUME 1 \notin divided
      PROVE  /\ x \in Tcp /\ n = Size[x] /\ v = x /\ FrameLen(x) = n + 2 /\ n > 0
             /\ Len(got) < Len(sent)
             /\ bytes # n => divided # {}
  <2>1. /\ Len(got) < Len(sent) /\ x \in Tcp
        /\ \A k \in 1 .. FrameLen(x) : k <= Len(pipe) => pipe[k] = <<x, k>>
        /\ Len(pipe) < FrameLen(x) => Len(pipe) \in divided
    BY <1>0, <1>2, <1>8, ReaderFinds
  <2> HIDE DEF x
  <2>2. Size[x] \in Nat /\ Size[x] > 0 /\ FrameLen(x) \in Nat /\ FrameLen(x) > 2
        /\ FrameLen(x) = Size[x] + 2
    BY <2>1, Sizes DEF FrameLen
  <2>3. pipe[1] = <<x, 1>> /\ pipe[2] = <<x, 2>>
    <3>1. 1 \in 1 .. FrameLen(x) /\ 2 \in 1 .. FrameLen(x)  BY <2>2
    <3>2. 1 <= Len(pipe) /\ 2 <= Len(pipe)  BY <1>1
    <3> QED  BY <2>1, <3>1, <3>2
  <2>4. IsHeader(pipe[1], pipe[2]) /\ pipe[1][1] = x  BY <2>3 DEF IsHeader
  <2>5. n = Size[x] /\ v = x  BY <1>1, <2>4 DEF Lengths, v
  <2>6. ASSUME bytes # n  PROVE Len(pipe) < FrameLen(x)
    BY <1>1, <2>2, <2>5, <2>6 DEF Least
  <2> QED  BY <2>1, <2>2, <2>5, <2>6
<1>9. TypeOK'
  <2>1. Len(pipe') <= Capacity
    <3>1. Len(pipe) <= Capacity /\ Capacity \in Nat  BY <1>0, PipeAssumption DEF TypeOK
    <3> QED  BY <1>1, <1>4, <3>1
  <2>2. got' \in Seq(Tcp \cup {Garbage})
    <3>1. CASE got' = got
      BY <1>3, <3>1
    <3>2. CASE got' = Append(got, v)
      BY <1>3, <1>6, <3>2, Appended
    <3> QED  BY <1>14, <3>1, <3>2
  <2>3. tun' \in {"absent", "running", "ended"} /\ armed' \in BOOLEAN /\ failed' \in BOOLEAN
    BY <1>0, <1>1 DEF TypeOK
  <2> QED  BY <1>0, <1>2, <1>3, <1>4, <2>1, <2>2, <2>3 DEF TypeOK
<1>10. InPlace'
  <2> SUFFICES ASSUME 1 \notin divided, tun' # "ended"
               PROVE  \E bt \in [Nat -> Nat] : Laid(bt, Len(got'), sent', Stream')
    BY <1>2 DEF InPlace
  <2>1. bytes = n /\ got' = Append(got, x) /\ x \in Tcp /\ bytes + 2 = FrameLen(x)
        /\ Len(got) < Len(sent)
    <3>1. x \in Tcp /\ v = x /\ FrameLen(x) = n + 2 /\ n > 0 /\ Len(got) < Len(sent)
      BY <1>8
    <3>2. n # 0  BY <1>1, <3>1
    <3> QED  BY <1>14, <3>1, <3>2
  <2>2. PICK at \in [Nat -> Nat] : Laid(at, Len(got), sent, Stream)
    BY <1>0, <1>2 DEF PipeInv, InPlace
  <2>3. Stream \in Seq(Tcp \X Nat)  BY <1>3, Joined DEF Stream
  <2>4. Stream' = Rest(Stream, FrameLen(x))
    <3>1. Rest(pipe, bytes + 2) \o left = Rest(pipe \o left, bytes + 2)
      <4>1. \A m \in 0 .. Len(pipe) : Rest(pipe, m) \o left = Rest(pipe \o left, m)
        BY <1>3, RestJoined
      <4> QED  BY <1>1, <4>1
    <3> QED  BY <1>1, <1>2, <2>1, <3>1 DEF Stream
  <2>5. Len(got') = Len(got) + 1  BY <1>3, <2>1, Appended
  <2>6. \E bt \in [Nat -> Nat] : Laid(bt, Len(got) + 1, sent, Stream')
    BY <1>3, <2>1, <2>2, <2>3, <2>4, FrameTaken
  <2> QED  BY <1>2, <2>5, <2>6
<1>11. InOrder'
  <2>1. failed' => divided' # {}
    <3>1. CASE bytes # n
      <4>1. divided # {}
        <5>1. CASE 1 \notin divided
          BY <1>8, <3>1, <5>1
        <5> QED  BY <5>1
      <4> QED  BY <1>2, <4>1
    <3>2. CASE bytes = n
      BY <1>0, <1>1, <1>2, <3>2 DEF PipeInv, InOrder
    <3> QED  BY <3>1, <3>2
  <2>2. ASSUME 1 \notin divided
        PROVE  Len(got') <= Len(sent) /\ \A i \in 1 .. Len(got') : got'[i] = sent[i]
    <3>1. Len(got) <= Len(sent) /\ \A i \in 1 .. Len(got) : got[i] = sent[i]
      BY <1>0, <2>2 DEF PipeInv, InOrder
    <3>2. CASE got' = got
      BY <3>1, <3>2
    <3>3. CASE got' = Append(got, v)
      <4>1. /\ Len(got') = Len(got) + 1 /\ got'[Len(got) + 1] = sent[Len(got) + 1]
            /\ \A i \in 1 .. Len(got) : got'[i] = got[i]
        BY <1>3, <1>6, <1>8, <2>2, <3>3, Appended
      <4>2. Len(sent) \in Nat /\ Len(got) < Len(sent)
        <5>1. Len(got) < Len(sent)  BY <1>8, <2>2
        <5> QED  BY <1>3, <5>1, Length
      <4>3. \A i \in 1 .. Len(got) + 1 : i \in 1 .. Len(got) \/ i = Len(got) + 1
        BY <1>3
      <4>4. Len(got') <= Len(sent)  BY <1>3, <4>1, <4>2
      <4>5. \A i \in 1 .. Len(got) + 1 : got'[i] = sent[i]  BY <3>1, <4>1, <4>3
      <4> QED  BY <4>1, <4>4, <4>5
    <3> QED  BY <1>1, <3>2, <3>3 DEF v
  <2> QED  BY <1>2, <2>1, <2>2 DEF InOrder
<1>12. LeftOK' /\ Once'
  BY <1>0, <1>2 DEF PipeInv, LeftOK, LastSent, Once
<1>13. Known'
  <2>1. ASSUME NEW i \in 1 .. Len(pipe')  PROVE \E j \in 1 .. Len(sent) : pipe'[i][1] = sent[j]
    <3>1. bytes + 2 + i \in 1 .. Len(pipe) /\ i \in 1 .. Len(pipe) - (bytes + 2)
      <4>1. i \in 1 .. Len(pipe) - (bytes + 2)  BY <1>4
      <4>2. bytes + 2 \in Nat /\ bytes + 2 <= Len(pipe) /\ Len(pipe) \in Nat  BY <1>1
      <4>3. \A y, z \in Nat : z <= y => \A k \in 1 .. y - z : z + k \in 1 .. y  OBVIOUS
      <4> QED  BY ONLY <4>1, <4>2, <4>3
    <3>2. pipe'[i] = pipe[bytes + 2 + i]  BY <1>4, <3>1
    <3>3. \E j \in 1 .. Len(sent) : pipe[bytes + 2 + i][1] = sent[j]
      BY <1>0, <3>1 DEF PipeInv, Known
    <3> QED  BY <3>2, <3>3
  <2>2. \A i \in 1 .. Len(got) : got[i] = Garbage \/ \E j \in 1 .. Len(sent) : got[i] = sent[j]
    BY <1>0 DEF PipeInv, Known
  <2>3. ASSUME NEW i \in 1 .. Len(got')
        PROVE  got'[i] = Garbage \/ \E j \in 1 .. Len(sent) : got'[i] = sent[j]
    <3>1. CASE got' = got
      BY <2>2, <2>3, <3>1
    <3>2. CASE got' = Append(got, v)
      <4>1. /\ Len(got') = Len(got) + 1 /\ got'[Len(got) + 1] = v
            /\ \A k \in 1 .. Len(got) : got'[k] = got[k]
        BY <1>3, <1>6, <3>2, Appended
      <4>2. i \in 1 .. Len(got) \/ i = Len(got) + 1  BY <1>3, <4>1
      <4> QED  BY <1>7, <2>2, <4>1, <4>2
    <3> QED  BY <1>1, <3>1, <3>2 DEF v
  <2> QED  BY <1>2, <2>1, <2>3 DEF Known
<1> QED  BY <1>9, <1>10, <1>11, <1>12, <1>13 DEF PipeInv

(* Every step keeps the invariant.                                         *)
LEMMA PipeStep == PipeInv /\ [Next]_vars => PipeInv'
<1> SUFFICES ASSUME PipeInv, [Next]_vars PROVE PipeInv'  OBVIOUS
<1>1. CASE /\ UNCHANGED <<unread, batch, reading, left, pipe, sent, got, divided, failed>>
           /\ tun' \in {"absent", "running", "ended"} /\ armed' \in BOOLEAN
           /\ tun = "ended" => tun' = "ended"
  <2> USE DEF PipeInv
  <2>1. TypeOK'  BY <1>1 DEF TypeOK
  <2>2. InPlace'  BY <1>1 DEF InPlace, Stream
  <2>3. InOrder' /\ LeftOK' /\ Once' /\ Known'
    BY <1>1 DEF InOrder, LeftOK, LastSent, Once, Known
  <2> QED  BY <2>1, <2>2, <2>3
<1>2. CASE Tun2SocksStarts
  <2>1. armed' \in BOOLEAN  BY <1>2 DEF Tun2SocksStarts
  <2> QED  BY <1>1, <1>2, <2>1 DEF Tun2SocksStarts, flowVars
<1>3. CASE Recv
  <2>1. armed' \in BOOLEAN  BY <1>3 DEF Recv
  <2> QED  BY <1>1, <1>3, <2>1 DEF Recv, flowVars
<1>4. CASE Stop
  <2>1. armed' \in BOOLEAN  BY <1>4 DEF Stop, PipeInv, TypeOK
  <2> QED  BY <1>1, <1>4, <2>1 DEF Stop, flowVars
<1>5. CASE UNCHANGED vars
  <2>1. tun' \in {"absent", "running", "ended"} /\ armed' \in BOOLEAN
    BY <1>5 DEF vars, tunVars, PipeInv, TypeOK
  <2> QED  BY <1>1, <1>5, <2>1 DEF vars, flowVars, tunVars
<1> QED
  BY <1>2, <1>3, <1>4, <1>5, PacketsReadStep, HandleTcpPacketStep, HandleOtherStep, WriteStep,
     ReadLoneByteStep, ReadFrameStep
  DEF Next, FlowThread, Reactor

(* The inductive invariant of the pipe.                                    *)
THEOREM PipeSafe == Spec => []PipeInv
  BY InitPipe, PipeStep, PTL DEF Spec

(* Every variable keeps its type, and the pipe its capacity.               *)
THEOREM PipeTyped == Spec => []TypeOK
<1>1. PipeInv => TypeOK  BY DEF PipeInv
<1> QED  BY <1>1, PipeSafe, PTL

(* lwIP receives what was sent, in order, and the device does not fail,    *)
(* unless a write was divided (handleTcpPacket against fd_handler).        *)
THEOREM ReceivesInOrder == Spec => []InOrder
<1>1. PipeInv => InOrder  BY DEF PipeInv
<1> QED  BY <1>1, PipeSafe, PTL

(* A writer that waits with an empty pipe would wait for ever, since then  *)
(* the reader has nothing to do either: an empty pipe always has room, for *)
(* a frame that may be divided and for the whole of one that may not.      *)
THEOREM WriterGoesOn == Spec => [](left # <<>> /\ pipe = <<>> => Room > 0)
<1>1. ASSUME PipeInv, left # <<>>, pipe = <<>> PROVE Room > 0
  <2>1. sent \in Seq(Tcp) /\ Len(sent) \in Nat /\ Len(sent) > 0
        /\ left \in Seq(Tcp \X Nat) /\ Len(left) \in Nat /\ Len(left) > 0
    BY <1>1, Length, Tailed DEF PipeInv, TypeOK, LeftOK
  <2>2. LastSent \in Tcp  BY <2>1 DEF LastSent
  <2>3. Size[LastSent] \in Nat /\ FrameLen(LastSent) = Size[LastSent] + 2
    BY <2>2, Sizes DEF FrameLen
  <2>4. left[1] = <<LastSent, FrameLen(LastSent) - Len(left) + 1>>
        /\ Len(left) <= FrameLen(LastSent)
    BY <1>1, <2>1 DEF PipeInv, LeftOK
  <2>5. left[1][1] = LastSent  BY <2>4
  <2>6. Len(pipe) = 0  BY <1>1
  <2>7. Capacity \in Nat /\ Capacity > 0 /\ Atomic \in Nat /\ Atomic <= Capacity
    BY PipeAssumption
  <2>8. \A size, n \in Nat : n > 0 /\ n <= size + 2 =>
           ~(size + 2 <= Atomic /\ n > Capacity - 0) /\ Least(Capacity - 0, n) > 0
    BY ONLY <2>7 DEF Least
  <2>9. /\ ~(Size[LastSent] + 2 <= Atomic /\ Len(left) > Capacity - 0)
        /\ Least(Capacity - 0, Len(left)) > 0
    BY <2>1, <2>3, <2>4, <2>8
  <2> QED  BY ONLY <2>5, <2>6, <2>9 DEF Room
<1> QED  BY <1>1, PipeSafe, PTL

-----------------------------------------------------------------------------
(* The pipe as a queue.                                                   *)

(* The first n packets received are the first n sent, and no more agree.   *)
Agrees(n, g, s) ==
    /\ n \in 0 .. Len(g) /\ n <= Len(s)
    /\ \A i \in 1 .. n : g[i] = s[i]
    /\ n < Len(g) => n = Len(s) \/ g[n + 1] # s[n + 1]

(* Agreement packet by packet is that of the sequences.                    *)
LEMMA FirstSame ==
    ASSUME NEW S, NEW g \in Seq(S), NEW s \in Seq(S), NEW n \in Nat, n <= Len(g), n <= Len(s)
    PROVE  First(g, n) = First(s, n) <=> \A i \in 1 .. n : g[i] = s[i]
<1>1. Len(g) \in Nat /\ Len(s) \in Nat  BY Length
<1>2. n \in 0 .. Len(g) /\ n \in 0 .. Len(s)  BY <1>1
<1>3. /\ First(g, n) \in Seq(S) /\ Len(First(g, n)) = n
      /\ \A i \in 1 .. n : First(g, n)[i] = g[i]
  BY <1>2, Parts
<1>4. /\ First(s, n) \in Seq(S) /\ Len(First(s, n)) = n
      /\ \A i \in 1 .. n : First(s, n)[i] = s[i]
  BY <1>2, Parts
<1>5. ASSUME First(g, n) = First(s, n)  PROVE \A i \in 1 .. n : g[i] = s[i]
  BY <1>3, <1>4, <1>5
<1>6. ASSUME \A i \in 1 .. n : g[i] = s[i]  PROVE First(g, n) = First(s, n)
  <2>1. \A i \in 1 .. n : First(g, n)[i] = First(s, n)[i]  BY <1>3, <1>4, <1>6
  <2> QED  BY <1>3, <1>4, <2>1, SameSeq
<1> QED  BY <1>5, <1>6

(* InStep is what agrees.                                                  *)
LEMMA Chosen ==
    ASSUME NEW g \in Seq(Tcp \cup {Garbage}), NEW s \in Seq(Tcp), NEW n, Agrees(n, g, s)
    PROVE  First(g, CHOOSE m \in 0 .. Len(g) :
                      /\ m <= Len(s) /\ First(g, m) = First(s, m)
                      /\ m < Len(g) => m = Len(s) \/ g[m + 1] # s[m + 1]) = First(g, n)
<1> DEFINE P(m) == /\ m <= Len(s) /\ First(g, m) = First(s, m)
                   /\ m < Len(g) => m = Len(s) \/ g[m + 1] # s[m + 1]
<1>1. Len(g) \in Nat /\ Len(s) \in Nat /\ s \in Seq(Tcp \cup {Garbage})
  <2>1. s \in Seq(Tcp \cup {Garbage})  OBVIOUS
  <2> QED  BY <2>1, Length
<1>2. n \in 0 .. Len(g) /\ n \in Nat /\ n <= Len(s) /\ n <= Len(g)
  BY <1>1 DEF Agrees
<1>3. P(n)
  <2>1. First(g, n) = First(s, n)  BY <1>1, <1>2, FirstSame DEF Agrees
  <2> QED  BY <1>2, <2>1 DEF Agrees
<1>4. ASSUME NEW m \in 0 .. Len(g), P(m)  PROVE m = n
  <2>1. m \in Nat /\ m <= Len(s) /\ m <= Len(g)  BY <1>1, <1>4
  <2>2. \A i \in 1 .. m : g[i] = s[i]  BY <1>1, <1>4, <2>1, FirstSame
  <2>3. CASE m < n
    <3>1. m + 1 \in 1 .. n /\ m < Len(g) /\ m # Len(s)  BY <1>1, <1>2, <2>1, <2>3
    <3>2. g[m + 1] = s[m + 1]  BY <3>1 DEF Agrees
    <3> QED  BY <1>4, <3>1, <3>2
  <2>4. CASE n < m
    <3>1. n + 1 \in 1 .. m /\ n < Len(g) /\ n # Len(s)  BY <1>1, <1>2, <2>1, <2>4
    <3>2. g[n + 1] = s[n + 1]  BY <2>2, <3>1
    <3> QED  BY <3>1, <3>2 DEF Agrees
  <2> QED  BY <1>2, <2>1, <2>3, <2>4
<1> HIDE DEF P
<1>5. (CHOOSE m \in 0 .. Len(g) : P(m)) = n  BY <1>2, <1>3, <1>4
<1> QED  BY <1>5 DEF P

(* A packet that was not sent before does not agree with what came before. *)
LEMMA AgreesPut ==
    ASSUME NEW g \in Seq(Tcp \cup {Garbage}), NEW s \in Seq(Tcp), NEW n, Agrees(n, g, s),
           NEW x \in Tcp, \A j \in 1 .. Len(s) : s[j] # x,
           \A i \in 1 .. Len(g) : g[i] = Garbage \/ \E j \in 1 .. Len(s) : g[i] = s[j],
           NEW t, t = Append(s, x)
    PROVE  Agrees(n, g, t)
<1>1. Len(g) \in Nat /\ Len(s) \in Nat  BY Length
<1>2. Len(t) = Len(s) + 1 /\ t[Len(s) + 1] = x /\ \A i \in 1 .. Len(s) : t[i] = s[i]
  BY Appended
<1>3. n \in 0 .. Len(g) /\ n \in Nat /\ n <= Len(s)  BY <1>1 DEF Agrees
<1>4. \A i \in 1 .. n : i \in 1 .. Len(s)  BY <1>1, <1>3
<1>5. \A i \in 1 .. n : g[i] = t[i]  BY <1>2, <1>4 DEF Agrees
<1>6. ASSUME n < Len(g)  PROVE g[n + 1] # t[n + 1]
  <2>1. n + 1 \in 1 .. Len(g)  BY <1>1, <1>3, <1>6
  <2>2. CASE n = Len(s)
    <3>1. Garbage # x  BY PipeAssumption
    <3> QED  BY <1>2, <2>1, <2>2, <3>1
  <2>3. CASE n # Len(s)
    <3>1. n + 1 \in 1 .. Len(s)  BY <1>1, <1>3, <2>3
    <3> QED  BY <1>2, <1>6, <2>3, <3>1 DEF Agrees
  <2> QED  BY <2>2, <2>3
<1>7. n <= Len(t)  BY <1>1, <1>2, <1>3
<1> QED  BY <1>3, <1>5, <1>6, <1>7 DEF Agrees

(* One more packet received is the next one sent, or changes nothing.      *)
LEMMA AgreesGot ==
    ASSUME NEW g \in Seq(Tcp \cup {Garbage}), NEW s \in Seq(Tcp), NEW n, Agrees(n, g, s),
           NEW v \in Tcp \cup {Garbage}, NEW h, h = Append(g, v)
    PROVE  \/ Agrees(n, h, s) /\ First(h, n) = First(g, n)
           \/ /\ n < Len(s) /\ Agrees(n + 1, h, s)
              /\ First(h, n + 1) = Append(First(g, n), s[n + 1])
<1>1. Len(g) \in Nat /\ Len(s) \in Nat  BY Length
<1>2. /\ h \in Seq(Tcp \cup {Garbage}) /\ Len(h) = Len(g) + 1 /\ h[Len(g) + 1] = v
      /\ \A i \in 1 .. Len(g) : h[i] = g[i]
  BY Appended
<1>3. n \in 0 .. Len(g) /\ n \in Nat /\ n <= Len(s) /\ n <= Len(g) /\ n \in 0 .. Len(h)
  BY <1>1, <1>2 DEF Agrees
<1>4. \A i \in 1 .. n : i \in 1 .. Len(g)  BY <1>1, <1>3
<1>5. \A i \in 1 .. n : h[i] = s[i]  BY <1>2, <1>4 DEF Agrees
<1>6. /\ First(g, n) \in Seq(Tcp \cup {Garbage}) /\ Len(First(g, n)) = n
      /\ \A i \in 1 .. n : First(g, n)[i] = g[i]
  BY <1>3, Parts
<1>7. First(h, n) = First(g, n)
  <2>1. /\ First(h, n) \in Seq(Tcp \cup {Garbage}) /\ Len(First(h, n)) = n
        /\ \A i \in 1 .. n : First(h, n)[i] = h[i]
    BY <1>2, <1>3, Parts
  <2>2. \A i \in 1 .. n : First(h, n)[i] = First(g, n)[i]  BY <1>2, <1>4, <1>6, <2>1
  <2> QED  BY <1>6, <2>1, <2>2, SameSeq
<1>8. CASE n < Len(g)
  <2>1. n + 1 \in 1 .. Len(g)  BY <1>1, <1>3, <1>8
  <2>2. n = Len(s) \/ h[n + 1] # s[n + 1]  BY <1>2, <1>8, <2>1 DEF Agrees
  <2> QED  BY <1>3, <1>5, <1>7, <2>2 DEF Agrees
<1>9. CASE n = Len(g) /\ (n = Len(s) \/ v # s[n + 1])
  BY <1>2, <1>3, <1>5, <1>7, <1>9 DEF Agrees
<1>10. CASE n = Len(g) /\ n # Len(s) /\ v = s[n + 1]
  <2>1. n < Len(s) /\ n + 1 <= Len(s) /\ n + 1 \in 0 .. Len(h) /\ ~(n + 1 < Len(h))
    BY <1>1, <1>2, <1>3, <1>10
  <2>2. \A i \in 1 .. n + 1 : i \in 1 .. n \/ i = n + 1  BY <1>3
  <2>3. \A i \in 1 .. n + 1 : h[i] = s[i]  BY <1>2, <1>5, <1>10, <2>2
  <2>4. Agrees(n + 1, h, s)  BY <2>1, <2>3 DEF Agrees
  <2>5. /\ First(h, n + 1) \in Seq(Tcp \cup {Garbage}) /\ Len(First(h, n + 1)) = n + 1
        /\ \A i \in 1 .. n + 1 : First(h, n + 1)[i] = h[i]
    BY <1>2, <2>1, Parts
  <2>6. /\ Append(First(g, n), v) \in Seq(Tcp \cup {Garbage})
        /\ Len(Append(First(g, n), v)) = n + 1 /\ Append(First(g, n), v)[n + 1] = v
        /\ \A i \in 1 .. n : Append(First(g, n), v)[i] = First(g, n)[i]
    BY <1>6, Appended
  <2>7. n + 1 \in 1 .. n + 1 /\ \A i \in 1 .. n : i \in 1 .. n + 1  BY <1>3
  <2>8. \A i \in 1 .. n + 1 : First(h, n + 1)[i] = Append(First(g, n), v)[i]
    BY <1>2, <1>4, <1>6, <1>10, <2>2, <2>5, <2>6, <2>7
  <2>9. First(h, n + 1) = Append(First(g, n), v)  BY <2>5, <2>6, <2>8, SameSeq
  <2> QED  BY <1>10, <2>1, <2>4, <2>9
<1> QED  BY <1>3, <1>8, <1>9, <1>10, <1>1

(* Some number of packets agrees: kept by the steps, so that InStep means  *)
(* something; that there is a greatest one needs no induction then.        *)
AgreeInv == \E n \in Nat : Agrees(n, got, sent)

(* InStep, before a step and behind it.                                    *)
LEMMA InStepIs ==
    ASSUME NEW n, Agrees(n, got, sent), TypeOK
    PROVE  InStep = First(got, n)
  BY Chosen DEF InStep, TypeOK

LEMMA InStepIsNext ==
    ASSUME NEW n, Agrees(n, got', sent'), TypeOK'
    PROVE  InStep' = First(got', n)
  BY Chosen DEF InStep, TypeOK

(* Since only a divided write makes the device fail, the promise ends with *)
(* the first byte of a header divided or with tun2socks.                   *)
LEMMA OverIsNext == PipeInv' => (Over' <=> (1 \in divided' \/ tun' = "ended"))
  BY DEF PipeInv, InOrder, Over

LEMMA OverKept ==
    ASSUME PipeInv, PipeInv', (1 \in divided' \/ tun' = "ended") <=> (1 \in divided \/ tun = "ended")
    PROVE  Over' = Over
  BY DEF PipeInv, InOrder, Over

(* Every step of the pipe is one of the queue, or leaves it alone.         *)
LEMMA PipeStaysQueue ==
    PipeInv /\ PipeInv' /\ AgreeInv /\ [Next]_vars
        => AgreeInv' /\ [Queue!Next]_(Queue!vars)
<1> SUFFICES ASSUME PipeInv, PipeInv', AgreeInv, [Next]_vars
             PROVE  AgreeInv' /\ [Queue!Next]_(Queue!vars)
  OBVIOUS
<1>0. TypeOK /\ TypeOK'  BY DEF PipeInv
<1>1. PICK n \in Nat : Agrees(n, got, sent)  BY DEF AgreeInv
<1>2. ASSUME UNCHANGED <<got, sent>>
      PROVE  AgreeInv' /\ InStep' = InStep
  BY <1>1, <1>2 DEF AgreeInv, InStep
<1>3. ASSUME UNCHANGED <<got, sent>>, Over' = Over
      PROVE  AgreeInv' /\ [Queue!Next]_(Queue!vars)
  BY <1>2, <1>3 DEF Queue!vars
<1>4. ASSUME UNCHANGED <<got, sent>>, 1 \in divided' \/ tun' = "ended"
      PROVE  AgreeInv' /\ [Queue!Next]_(Queue!vars)
  <2>1. Over' = TRUE  BY <1>4, OverIsNext
  <2> QED  BY <1>2, <1>4, <2>1 DEF Queue!Next, Queue!Stop
<1>5. CASE UNCHANGED <<got, sent, divided, tun, failed>>
  BY <1>3, <1>5 DEF Over
<1>6. CASE PacketsRead \/ HandleOther \/ ReadLoneByte \/ Recv \/ UNCHANGED vars
  BY <1>5, <1>6 DEF PacketsRead, HandleOther, ReadLoneByte, Recv, vars, tunVars
<1>7. CASE Tun2SocksStarts
  <2>1. Over' = Over  BY <1>7, OverKept DEF Tun2SocksStarts
  <2> QED  BY <1>3, <1>7, <2>1 DEF Tun2SocksStarts
<1>8. CASE Stop
  BY <1>4, <1>8 DEF Stop
<1>9. CASE Write
  <2>1. UNCHANGED <<got, sent, tun>> /\ divided \subseteq divided'
    BY <1>9 DEF Write, tunVars
  <2>2. CASE 1 \in divided'
    BY <1>4, <2>1, <2>2
  <2>3. CASE 1 \notin divided'
    <3>1. Over' = Over  BY <2>1, <2>3, OverKept
    <3> QED  BY <1>3, <2>1, <3>1
  <2> QED  BY <2>2, <2>3
<1>10. CASE HandleTcpPacket
  <2> DEFINE x == Head(batch)
  <2>1. /\ x \in Tcp /\ x = batch[1] /\ 1 \in 1 .. Len(batch) /\ left = <<>>
        /\ sent' = Append(sent, x) /\ UNCHANGED <<got, divided, tun, failed>>
    BY <1>0, <1>10, Tailed DEF HandleTcpPacket, TypeOK, tunVars
  <2> HIDE DEF x
  <2>2. \A j \in 1 .. Len(sent) : sent[j] # x
    BY <2>1 DEF PipeInv, Once
  <2>3. \A i \in 1 .. Len(got) : got[i] = Garbage \/ \E j \in 1 .. Len(sent) : got[i] = sent[j]
    BY DEF PipeInv, Known
  <2>4. got \in Seq(Tcp \cup {Garbage}) /\ sent \in Seq(Tcp)  BY <1>0 DEF TypeOK
  <2>5. Agrees(n, got, sent')  BY <1>1, <2>1, <2>2, <2>3, <2>4, AgreesPut
  <2>6. Agrees(n, got', sent')  BY <2>1, <2>5
  <2>7. InStep' = InStep
    <3>1. InStep = First(got, n)  BY <1>0, <1>1, InStepIs
    <3>2. InStep' = First(got', n)  BY <1>0, <2>6, InStepIsNext
    <3> QED  BY <2>1, <3>1, <3>2
  <2>8. Over' = Over  BY <2>1 DEF Over
  <2>9. Queue!Put(x)  BY <2>1, <2>7, <2>8 DEF Queue!Put
  <2> QED  BY <2>1, <2>6, <2>9 DEF AgreeInv, Queue!Next
<1>11. CASE ReadFrame
  <2>1. \/ tun' = "ended" /\ got' = got
        \/ UNCHANGED <<tun, got, failed>>
        \/ UNCHANGED <<tun, failed>>
             /\ \E v \in Tcp \cup {Garbage} : got' = Append(got, v)
    <3>1. pipe[1][1] \in Tcp
      <4>1. pipe \in Seq(Tcp \X Nat) /\ Len(pipe) \in Nat /\ Len(pipe) > 1
        BY <1>0, <1>11, Length DEF TypeOK, ReadFrame
      <4>2. pipe[1] \in Tcp \X Nat  BY <4>1
      <4> QED  BY <4>2
    <3> QED  BY <1>0, <1>11, <3>1, ReadFrameDoes
  <2>2. sent' = sent /\ divided' = divided  BY <1>11 DEF ReadFrame
  <2>3. CASE tun' = "ended" /\ got' = got
    BY <1>4, <2>2, <2>3
  <2>4. CASE UNCHANGED <<tun, got, failed>>
    BY <1>5, <2>2, <2>4
  <2>5. ASSUME UNCHANGED <<tun, failed>>, NEW v \in Tcp \cup {Garbage}, got' = Append(got, v)
        PROVE  AgreeInv' /\ [Queue!Next]_(Queue!vars)
    <3>1. got \in Seq(Tcp \cup {Garbage}) /\ sent \in Seq(Tcp)  BY <1>0 DEF TypeOK
    <3>2. Over' = Over  BY <2>2, <2>5 DEF Over
    <3>3. InStep = First(got, n)  BY <1>0, <1>1, InStepIs
    <3>4. \/ Agrees(n, got', sent) /\ First(got', n) = First(got, n)
          \/ /\ n < Len(sent) /\ Agrees(n + 1, got', sent)
             /\ First(got', n + 1) = Append(First(got, n), sent[n + 1])
      BY <1>1, <2>5, <3>1, AgreesGot
    <3>5. CASE Agrees(n, got', sent) /\ First(got', n) = First(got, n)
      <4>1. Agrees(n, got', sent')  BY <2>2, <3>5
      <4>2. InStep' = InStep  BY <1>0, <3>3, <3>5, <4>1, InStepIsNext
      <4> QED  BY <1>1, <2>2, <3>2, <4>1, <4>2 DEF AgreeInv, Queue!vars
    <3>6. CASE /\ n < Len(sent) /\ Agrees(n + 1, got', sent)
               /\ First(got', n + 1) = Append(First(got, n), sent[n + 1])
      <4>1. Agrees(n + 1, got', sent')  BY <2>2, <3>6
      <4>2. InStep' = Append(InStep, sent[n + 1])  BY <1>0, <3>3, <3>6, <4>1, InStepIsNext
      <4>3. Len(InStep) = n
        <5>1. n \in 0 .. Len(got)  BY <1>1 DEF Agrees
        <5> QED  BY <3>1, <3>3, <5>1, Parts
      <4>4. Queue!Get  BY <2>2, <3>2, <3>6, <4>2, <4>3 DEF Queue!Get
      <4>5. n + 1 \in Nat  OBVIOUS
      <4> QED  BY <4>1, <4>4, <4>5 DEF AgreeInv, Queue!Next
    <3> QED  BY <3>4, <3>5, <3>6
  <2> QED  BY <2>1, <2>3, <2>4, <2>5
<1> QED
  BY <1>6, <1>7, <1>8, <1>9, <1>10, <1>11 DEF Next, FlowThread, Reactor

(* An empty pipe is an empty queue.                                        *)
LEMMA QueueBegins == Init => AgreeInv /\ Queue!Init
<1> SUFFICES ASSUME Init PROVE AgreeInv /\ Queue!Init  OBVIOUS
<1>1. Agrees(0, got, sent)  BY DEF Init, Agrees
<1>2. InStep = <<>>
  <2>1. TypeOK  BY InitPipe DEF PipeInv
  <2>2. InStep = First(got, 0)  BY <1>1, <2>1, InStepIs
  <2> QED  BY <2>2 DEF Init, First
<1>3. Over = FALSE  BY DEF Init, Over
<1> QED  BY <1>1, <1>2, <1>3 DEF Init, AgreeInv, Queue!Init

(* The pipe implements the safety half of PacketQueue: until the promise   *)
(* ends, every step puts a packet in, takes the next one out, or neither.  *)
THEOREM PipeIsQueue == Spec => Queue!SafeSpec
<1>1. PipeInv /\ PipeInv' /\ AgreeInv /\ [Next]_vars
        => AgreeInv' /\ [Queue!Next]_(Queue!vars)
  BY PipeStaysQueue
<1> QED  BY <1>1, QueueBegins, PipeSafe, PTL DEF Spec, Queue!SafeSpec
=============================================================================
