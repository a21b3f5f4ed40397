-------------------------- MODULE RequestLogProofs --------------------------
(***************************************************************************)
(* Proofs about RequestLog, for every set of addresses and all limits.     *)
(* RequestInv is inductive. Its first half (OwnInv) says what the two      *)
(* flags of a client mean while reads and writes of the flag word          *)
(* interleave; the second half counts the served clients.                  *)
(***************************************************************************)
EXTENDS RequestLog, FiniteSetTheorems, TLAPS

USE CspsAssumption, LimitsAssumption

OwnInv == TypeOK /\ LogOwned /\ ServeOwned /\ Evicting

(* The invariant holds before the first connection.                        *)
LEMMA OwnInit == Init => OwnInv
BY DEF Init, OwnInv, TypeOK, LogOwned, EntryOwned, EnteredOnce, Evicted,
       ServeOwned, Evicting, Flags, NoFlags

(* It is preserved by the listener.                                        *)
LEMMA ListenOwn == OwnInv /\ Listen => OwnInv'
<1> SUFFICES ASSUME OwnInv, Listen PROVE OwnInv' OBVIOUS
<1> USE DEF OwnInv, TypeOK, Flags, logVars, listenVars
<1>1. ASSUME NEW c \in Csps, SweepClient(c) PROVE OwnInv'
  <2> USE <1>1 DEF SweepClient, InUse
  <2>1. TypeOK' OBVIOUS
  <2>2. LogOwned' BY DEF LogOwned, EntryOwned, EnteredOnce, Evicted
  <2>3. ServeOwned' BY DEF ServeOwned
  <2>4. Evicting' BY DEF Evicting
  <2> QED BY <2>1, <2>2, <2>3, <2>4
<1>2. ASSUME NEW c \in Csps, Accept(c) PROVE OwnInv'
  <2> USE <1>2 DEF Accept, NextRound
  <2>1. thread[c] = "none" /\ thread'[c] \in {"none", "chat"}
    BY DEF ServeOwned
  <2>2. TypeOK' OBVIOUS
  <2>3. LogOwned'
    <3>1. /\ log' = log /\ lock' = lock
          /\ lock # NoCsp => lock \in Csps \ {c}
      BY <2>1 DEF Evicting
    <3>2. \A i \in 1 .. Len(log) : Evicted(i)' <=> Evicted(i)
      BY <3>1 DEF Evicted
    <3>3. \A d \in clients : flags'[d] = flags[d] /\ thread'[d] = thread[d]
      BY <2>1
    <3>4. ASSUME NEW i \in 1 .. Len(log), EntryOwned(i)
          PROVE  EntryOwned(i)'
      BY <3>1, <3>3, <3>4 DEF EntryOwned
    <3>5. ASSUME NEW i \in 1 .. Len(log), EnteredOnce(i)
          PROVE  EnteredOnce(i)'
      BY <3>1, <3>5 DEF EnteredOnce
    <3> HIDE DEF TypeOK, NextRound
    <3> QED BY <3>1, <3>2, <3>4, <3>5 DEF LogOwned
  <2>4. ServeOwned' BY DEF ServeOwned
  <2>5. Evicting'
    <3> SUFFICES ASSUME NEW d \in Csps, thread[d] = "evict", d # c
                 PROVE  thread'[log[1]] # "none" => evictSaved.active = 1
      BY <2>1 DEF Evicting
    <3>1. lock = d /\ d # NoCsp /\ 1 \in 1 .. Len(log)
      BY DEF Evicting
    <3>2. log[1] \in clients
      BY <3>1 DEF LogOwned, EntryOwned, Evicted
    <3> QED BY <3>2 DEF Evicting
  <2> QED BY <2>2, <2>3, <2>4, <2>5
<1>3. CASE SweepReturns
  BY <1>3 DEF SweepReturns, LogOwned, EntryOwned, EnteredOnce, Evicted,
              ServeOwned, Evicting
<1>4. CASE Reject
  BY <1>4 DEF Reject, NextRound, LogOwned, EntryOwned, EnteredOnce,
              Evicted, ServeOwned, Evicting
<1> QED BY <1>1, <1>2, <1>3, <1>4 DEF Listen

(* It is preserved by a thread that enters its client in the log.          *)
LEMMA AddLogOwn ==
  ASSUME NEW c \in Csps, OwnInv, AddLogCsp(c)
  PROVE  OwnInv'
<1> DEFINE n == Len(log)
<1>1. /\ log \in Seq(Csps) /\ n \in Nat /\ n <= MaxLog
      /\ \A i \in 1 .. n : log[i] \in Csps
      /\ lock = NoCsp /\ NoCsp \notin Csps /\ log' = Append(log, c)
  BY DEF OwnInv, TypeOK, AddLogCsp
<1>2. /\ log' \in Seq(Csps) /\ Len(log') = n + 1
      /\ \A i \in 1 .. n : log'[i] = log[i]
      /\ log'[n + 1] = c
  BY <1>1
<1>3. /\ log' # <<>> /\ log'[1] \in Csps
      /\ n > 0 => log'[1] = log[1]
  BY <1>1, <1>2
<1>4. Head(log') = log'[1]
  BY <1>2, <1>3
<1>5. /\ flags' \in [Csps -> Flags]
      /\ flags'[c].log = 1 /\ flags'[c].active = flags[c].active
      /\ \A d \in Csps \ {c} : flags'[d] = flags[d]
      /\ \A d \in Csps \ {c} : thread'[d] = thread[d]
      /\ thread[c] = "chat" /\ thread'[c] \in {"evict", "serve"}
      /\ saved' = saved /\ clients' = clients
  BY DEF OwnInv, TypeOK, AddLogCsp, SetLog, Flags, listenVars
<1>6. \/ /\ n + 1 > MaxLog
         /\ lock' = c
         /\ thread'[c] = "evict"
         /\ evictSaved' = flags'[log'[1]]
      \/ /\ n + 1 <= MaxLog
         /\ lock' = NoCsp
         /\ thread'[c] = "serve"
         /\ evictSaved' = evictSaved
  BY <1>1, <1>2, <1>4 DEF AddLogCsp, OwnInv, TypeOK
<1>7. TypeOK'
  <2>1. evictSaved' \in Flags BY <1>3, <1>5, <1>6 DEF OwnInv, TypeOK
  <2>2. Len(log') <= IF lock' = NoCsp THEN MaxLog ELSE MaxLog + 1
    BY <1>1, <1>2, <1>6
  <2> QED BY <1>2, <1>5, <2>1, <2>2 DEF OwnInv, TypeOK, AddLogCsp, listenVars
<1>8. \A j \in 1 .. n : log[j] # c
  BY <1>1, <1>5 DEF OwnInv, LogOwned, EntryOwned, Evicted
<1>9. c \in clients
  BY <1>5 DEF OwnInv, ServeOwned
<1>10. LogOwned'
  <2> SUFFICES ASSUME NEW i \in 1 .. n + 1
               PROVE  EnteredOnce(i)' /\ EntryOwned(i)'
    BY <1>2 DEF LogOwned
  <2>1. CASE i = n + 1
    BY <1>1, <1>2, <1>5, <1>8, <1>9, <2>1 DEF EntryOwned, EnteredOnce
  <2>2. CASE i \in 1 .. n
    <3>1. EntryOwned(i) /\ EnteredOnce(i)
      BY <1>1, <2>2 DEF OwnInv, LogOwned, Evicted
    <3>2. log'[i] = log[i] /\ log[i] \in Csps \ {c} BY <1>1, <1>2, <1>8, <2>2
    <3>3. ASSUME NEW j \in 1 .. n + 1, log'[i] = log'[j] PROVE i = j
      <4>1. j # n + 1 BY <1>2, <3>2, <3>3
      <4>2. j \in 1 .. n BY <1>1, <4>1
      <4> QED BY <1>2, <3>1, <3>2, <3>3, <4>2 DEF EnteredOnce
    <3> QED BY <1>2, <1>5, <3>1, <3>2, <3>3 DEF EntryOwned, EnteredOnce
  <2> QED BY <1>1, <2>1, <2>2
<1>11. ServeOwned' BY <1>5 DEF OwnInv, ServeOwned
<1>12. Evicting'
  <2>1. ASSUME NEW d \in Csps
        PROVE  thread'[d] \in {"evict", "unlink"} <=> lock' = d
    BY <1>1, <1>5, <1>6 DEF OwnInv, Evicting
  <2>2. ASSUME lock' # NoCsp PROVE Len(log') = MaxLog + 1
    BY <1>1, <1>2, <1>6, <2>2
  <2>3. ASSUME NEW d \in Csps, thread'[d] = "evict"
        PROVE  /\ log'[1] # d
               /\ thread'[log'[1]] # "none" => evictSaved'.active = 1
    <3>1. lock' = d /\ d # NoCsp BY <1>1, <2>1, <2>3
    <3>2. n = MaxLog /\ n > 0 /\ d = c /\ evictSaved' = flags'[log'[1]]
      BY <1>1, <1>6, <3>1
    <3>3. log'[1] = log[1] /\ log[1] \in Csps \ {c}
      BY <1>1, <1>3, <1>8, <3>2
    <3> QED BY <1>2, <1>5, <3>2, <3>3 DEF OwnInv, ServeOwned
  <2> QED BY <2>1, <2>2, <2>3 DEF Evicting
<1> QED BY <1>7, <1>10, <1>11, <1>12 DEF OwnInv

(* It is preserved by a thread that clears the flag of the log's head: the *)
(* head keeps its place, but nothing is promised of its client any more.   *)
LEMMA ClearOwn ==
  ASSUME NEW c \in Csps, OwnInv, ClearHead(c)
  PROVE  OwnInv'
<1> DEFINE n == Len(log)
           h == log[1]
<1>1. /\ lock = c /\ c # NoCsp /\ log \in Seq(Csps) /\ n = MaxLog + 1
      /\ thread[h] # "none" => evictSaved.active = 1
      /\ h # c /\ n \in Nat /\ n > 0 /\ h \in Csps /\ Head(log) = h
      /\ \A i \in 1 .. n : log[i] \in Csps
  BY DEF OwnInv, TypeOK, ClearHead, Evicting
<1>2. /\ flags' \in [Csps -> Flags]
      /\ flags'[h].active = evictSaved.active
      /\ \A d \in Csps \ {h} : flags'[d] = flags[d]
      /\ \A d \in Csps \ {c} : thread'[d] = thread[d]
      /\ thread[c] = "evict" /\ thread'[c] = "unlink"
      /\ saved' = saved /\ clients' = clients
      /\ log' = log /\ lock' = lock /\ evictSaved' = evictSaved
  BY <1>1 DEF OwnInv, TypeOK, ClearHead, ClearLog, Flags, listenVars, logVars
<1>3. TypeOK'
  BY <1>1, <1>2 DEF OwnInv, TypeOK, ClearHead, listenVars
<1>4. LogOwned'
  <2> SUFFICES ASSUME NEW i \in 1 .. n
               PROVE  EnteredOnce(i)' /\ (Evicted(i)' \/ EntryOwned(i)')
    BY <1>2 DEF LogOwned
  <2>1. EnteredOnce(i)' BY <1>2 DEF EnteredOnce, OwnInv, LogOwned
  <2>2. CASE i = 1 BY <1>1, <1>2, <2>1, <2>2 DEF Evicted
  <2>3. CASE i # 1
    <3>1. EntryOwned(i) /\ EnteredOnce(i)
      BY <2>3 DEF OwnInv, LogOwned, Evicted
    <3>2. log[i] \in Csps \ {h} BY <1>1, <2>3, <3>1 DEF EnteredOnce
    <3> QED BY <1>2, <2>1, <3>1, <3>2 DEF EntryOwned
  <2> QED BY <2>2, <2>3
<1>5. ServeOwned'
  <2> SUFFICES ASSUME NEW d \in Csps, thread'[d] # "none"
               PROVE  /\ d \in clients'
                      /\ flags'[d].active = 1
                      /\ thread'[d] = "update" => saved'[d].active = 1
    BY DEF ServeOwned
  <2>1. CASE d = h BY <1>1, <1>2, <2>1 DEF OwnInv, ServeOwned
  <2>2. CASE d # h BY <1>1, <1>2, <2>2 DEF OwnInv, ServeOwned
  <2> QED BY <2>1, <2>2
<1>6. Evicting' BY <1>1, <1>2 DEF OwnInv, Evicting, TypeOK
<1> QED BY <1>3, <1>4, <1>5, <1>6 DEF OwnInv

(* It is preserved by a thread that unlinks the head: the entry of which   *)
(* nothing was promised is gone, and the others move up by one.            *)
LEMMA UnlinkOwn ==
  ASSUME NEW c \in Csps, OwnInv, UnlinkHead(c)
  PROVE  OwnInv'
<1> DEFINE n == Len(log)
<1>1. /\ lock = c /\ log \in Seq(Csps) /\ n = MaxLog + 1
      /\ log' = Tail(log) /\ n \in Nat /\ n > 0
      /\ thread[c] = "unlink" /\ NoCsp \notin Csps
  BY DEF OwnInv, TypeOK, UnlinkHead, Evicting
<1>2. /\ \A i \in 1 .. n : log[i] \in Csps
      /\ log' \in Seq(Csps) /\ Len(log') = n - 1
      /\ \A i \in 1 .. n - 1 : log'[i] = log[i + 1]
  BY <1>1
<1>3. /\ flags' = flags /\ saved' = saved /\ clients' = clients
      /\ \A d \in Csps \ {c} : thread'[d] = thread[d]
      /\ thread'[c] = "serve" /\ lock' = NoCsp
  BY DEF OwnInv, TypeOK, UnlinkHead, listenVars
<1>4. TypeOK'
  BY <1>1, <1>2, <1>3 DEF OwnInv, TypeOK, UnlinkHead, listenVars
<1>5. LogOwned'
  <2> SUFFICES ASSUME NEW i \in 1 .. n - 1
               PROVE  EnteredOnce(i)' /\ EntryOwned(i)'
    BY <1>2 DEF LogOwned
  <2> DEFINE k == i + 1
  <2>1. k \in 1 .. n /\ k # 1 /\ log'[i] = log[k]
    BY <1>1, <1>2
  <2>2. EntryOwned(k) /\ EnteredOnce(k)
    BY <2>1 DEF OwnInv, LogOwned, Evicted
  <2>3. ASSUME NEW j \in 1 .. n - 1, log'[i] = log'[j] PROVE i = j
    <3>1. j + 1 \in 1 .. n /\ log'[j] = log[j + 1]
      BY <1>1, <1>2
    <3>2. k = j + 1 BY <2>1, <2>2, <2>3, <3>1 DEF EnteredOnce
    <3> QED BY <1>1, <3>2
  <2> HIDE DEF k
  <2>4. log[k] \in Csps BY <1>2, <2>1
  <2>5. EntryOwned(i)'
    BY <1>1, <1>3, <2>1, <2>2, <2>4 DEF EntryOwned
  <2> QED BY <1>2, <2>3, <2>5 DEF EnteredOnce
<1>6. ServeOwned' BY <1>1, <1>3 DEF OwnInv, ServeOwned
<1>7. Evicting' BY <1>1, <1>3 DEF OwnInv, Evicting, TypeOK
<1> QED BY <1>4, <1>5, <1>6, <1>7 DEF OwnInv

(* It is preserved by the other steps of a client's thread.                *)
LEMMA ServeOwn ==
  ASSUME NEW c \in Csps, OwnInv, Serve(c)
  PROVE  OwnInv'
<1> USE DEF OwnInv, TypeOK, Flags, logVars, listenVars
<1>1. CASE ServeEnds(c)
  <2> USE <1>1 DEF ServeEnds
  <2>1. TypeOK' OBVIOUS
  <2>2. LogOwned' BY DEF LogOwned, EntryOwned, EnteredOnce, Evicted
  <2>3. ServeOwned' BY DEF ServeOwned
  <2>4. Evicting' BY DEF Evicting
  <2> QED BY <2>1, <2>2, <2>3, <2>4
<1>2. CASE ThreadEnds(c)
  <2> USE <1>2 DEF ThreadEnds, ClearActive
  <2>1. TypeOK' OBVIOUS
  <2>2. LogOwned' BY DEF LogOwned, EntryOwned, EnteredOnce, Evicted
  <2>3. ServeOwned' BY DEF ServeOwned
  <2>4. Evicting' BY DEF Evicting, LogOwned, EntryOwned
  <2> QED BY <2>1, <2>2, <2>3, <2>4
<1>3. CASE AddLogCsp(c) BY <1>3, AddLogOwn
<1>4. CASE ClearHead(c) BY <1>4, ClearOwn
<1>5. CASE UnlinkHead(c) BY <1>5, UnlinkOwn
<1>6. CASE ReadFlags(c)
  <2> USE <1>6 DEF ReadFlags
  <2>1. TypeOK' OBVIOUS
  <2>2. LogOwned' BY DEF LogOwned, EntryOwned, EnteredOnce, Evicted
  <2>3. ServeOwned' BY DEF ServeOwned
  <2>4. Evicting' BY DEF Evicting
  <2> QED BY <2>1, <2>2, <2>3, <2>4
<1>7. CASE WriteFlags(c)
  <2> USE <1>7 DEF WriteFlags
  <2>1. TypeOK' OBVIOUS
  <2>2. LogOwned' BY DEF LogOwned, EntryOwned, EnteredOnce, Evicted
  <2>3. ServeOwned' BY DEF ServeOwned
  <2>4. Evicting' BY DEF Evicting
  <2> QED BY <2>1, <2>2, <2>3, <2>4
<1> QED BY <1>1, <1>2, <1>3, <1>4, <1>5, <1>6, <1>7 DEF Serve

(* The invariant of the flags is inductive.                                *)
LEMMA OwnStep == OwnInv /\ [Next]_vars => OwnInv'
<1>1. ASSUME OwnInv, UNCHANGED vars PROVE OwnInv'
  BY <1>1 DEF OwnInv, TypeOK, LogOwned, EntryOwned, EnteredOnce, Evicted,
              ServeOwned, Evicting, vars, listenVars, logVars
<1> QED BY <1>1, ListenOwn, ServeOwn DEF Next

(* Served clients are few enough to count.                                 *)
LEMMA FiniteServing ==
  ASSUME NEW S \in SUBSET Csps
  PROVE  IsFiniteSet(S) /\ Cardinality(S) \in Nat
BY FS_Subset, FS_CardinalityType

LEMMA FewerServing ==
  ASSUME NEW S \in SUBSET Csps, NEW T \in SUBSET S
  PROVE  Cardinality(T) <= Cardinality(S)
BY FiniteServing, FS_Subset

Counting == Counted /\ ClientLimit

LEMMA CountInit == Init => Counting
<1> SUFFICES ASSUME Init PROVE Counting OBVIOUS
<1>1. Serving = {} /\ Serving \ todo = {} BY DEF Init, Serving
<1> QED BY <1>1, FS_EmptySet DEF Init, Counting, Counted, ClientLimit

(* The number of served clients only grows in Accept.                      *)
LEMMA ServeCounting ==
  ASSUME NEW c \in Csps, TypeOK, Counting, Serve(c)
  PROVE  Counting'
<1>1. /\ Serving' \subseteq Serving
      /\ UNCHANGED <<listener, todo, clients, activeThreads>>
  BY DEF Serve, ServeEnds, ThreadEnds, AddLogCsp, ClearHead, UnlinkHead,
         ReadFlags, WriteFlags, Serving, TypeOK, listenVars
<1>2. /\ Serving \in SUBSET Csps /\ Serving' \in SUBSET Serving
      /\ Serving' \ todo \in SUBSET (Serving \ todo)
      /\ Serving \ todo \in SUBSET Csps
  BY <1>1 DEF Serving
<1>3. /\ Cardinality(Serving') <= Cardinality(Serving)
      /\ Cardinality(Serving' \ todo) <= Cardinality(Serving \ todo)
  BY <1>2, FewerServing
<1>4. /\ Cardinality(Serving) \in Nat /\ Cardinality(Serving') \in Nat
      /\ Cardinality(Serving \ todo) \in Nat
      /\ Cardinality(Serving' \ todo) \in Nat
  BY <1>2, FiniteServing
<1>5. activeThreads \in Nat BY DEF TypeOK
<1>6. Counted' BY <1>1, <1>3, <1>4, <1>5 DEF Counting, Counted
<1>7. ClientLimit' BY <1>3, <1>4 DEF Counting, ClientLimit
<1> QED BY <1>6, <1>7 DEF Counting

(* A new round of the listener has counted nothing and has all to visit.   *)
LEMMA RoundCounts ==
  ASSUME NextRound, Serving' \subseteq clients'
  PROVE  Counted'
<1>1. Serving' \ todo' = {} BY DEF NextRound
<1>2. Cardinality(Serving' \ todo') = 0 BY <1>1, FS_EmptySet
<1> QED BY <1>2 DEF NextRound, Counted

LEMMA ListenCounting == OwnInv /\ OwnInv' /\ Counting /\ Listen => Counting'
<1> SUFFICES ASSUME OwnInv, OwnInv', Counting, Listen PROVE Counting'
  OBVIOUS
<1>1. /\ Serving \subseteq clients /\ Serving' \subseteq clients'
      /\ Serving \in SUBSET Csps
      /\ activeThreads \in Nat
  BY DEF OwnInv, ServeOwned, Serving, TypeOK
<1>2. ASSUME NEW c \in Csps, SweepClient(c) PROVE Counting'
  <2>1. Serving' = Serving /\ todo' = todo \ {c} /\ c \in todo
    BY <1>2 DEF SweepClient, Serving
  <2>2. ClientLimit' BY <2>1 DEF Counting, ClientLimit
  <2>3. IsFiniteSet(Serving \ todo) /\ Cardinality(Serving \ todo) \in Nat
    BY <1>1, FiniteServing
  <2>4. CASE c \in Serving
    <3>1. (Serving \ todo) \cup {c} = Serving' \ todo' BY <2>1, <2>4
    <3>2. Cardinality(Serving' \ todo') = Cardinality(Serving \ todo) + 1
      BY <2>1, <2>3, <3>1, FS_AddElement
    <3>3. listener' = "sweep" /\ InUse(c)
      BY <1>2, <2>4 DEF SweepClient, OwnInv, ServeOwned, Serving, InUse
    <3>4. activeThreads' = activeThreads + 1 /\ clients' = clients
      BY <1>2, <3>3 DEF SweepClient
    <3> QED BY <1>1, <2>1, <2>2, <2>3, <3>2, <3>3, <3>4
            DEF Counting, Counted
  <2>5. CASE c \notin Serving
    <3>1. Serving' \ todo' = Serving \ todo BY <2>1, <2>5
    <3>2. activeThreads' \in {activeThreads, activeThreads + 1}
      BY <1>2 DEF SweepClient
    <3>3. todo' \subseteq clients'
      BY <1>2, <2>1 DEF SweepClient, Counting, Counted
    <3>4. listener' = "sweep" BY <1>2 DEF SweepClient
    <3> QED BY <1>1, <2>2, <2>3, <3>1, <3>2, <3>3, <3>4
            DEF Counting, Counted
  <2> QED BY <2>4, <2>5
<1>3. ASSUME NEW c \in Csps, Accept(c) PROVE Counting'
  <2>1. Counted' BY <1>1, <1>3, RoundCounts DEF Accept
  <2>2. Serving' \in SUBSET (Serving \cup {c})
    BY <1>3 DEF Accept, Serving, OwnInv, TypeOK
  <2>3. ClientLimit'
    <3> SUFFICES ASSUME MaxClients > 0
                 PROVE  Cardinality(Serving') <= MaxClients
      BY DEF ClientLimit
    <3>1. todo = {} /\ activeThreads < MaxClients
      BY <1>1, <1>3 DEF Accept, Full, Counting, Counted
    <3>2. Cardinality(Serving) <= activeThreads
      BY <3>1 DEF Counting, Counted
    <3>3. IsFiniteSet(Serving) /\ Cardinality(Serving) \in Nat
      BY <1>1, FiniteServing
    <3>4. Cardinality(Serving \cup {c}) \in
            {Cardinality(Serving), Cardinality(Serving) + 1}
      BY <3>3, FS_AddElement
    <3>5. Serving \cup {c} \in SUBSET Csps BY <1>1
    <3>6. Cardinality(Serving') <= Cardinality(Serving \cup {c})
      BY <2>2, <3>5, FewerServing
    <3>7. Cardinality(Serving') \in Nat /\ Cardinality(Serving \cup {c}) \in Nat
      BY <2>2, <3>5, FiniteServing
    <3> QED BY <1>1, <3>1, <3>2, <3>3, <3>4, <3>6, <3>7
  <2> QED BY <2>1, <2>3 DEF Counting
<1>4. CASE SweepReturns
  BY <1>4 DEF SweepReturns, Counting, Counted, ClientLimit, Serving
<1>5. CASE Reject
  <2>1. Counted' BY <1>1, <1>5, RoundCounts DEF Reject
  <2>2. ClientLimit' BY <1>5 DEF Reject, Counting, ClientLimit, Serving
  <2> QED BY <2>1, <2>2 DEF Counting
<1> QED BY <1>2, <1>3, <1>4, <1>5 DEF Listen

(* The inductive invariant holds in every reachable state.                 *)
THEOREM RequestSafe == Spec => []RequestInv
<1>1. Init => OwnInv /\ Counting BY OwnInit, CountInit
<1>2. OwnInv /\ Counting /\ [Next]_vars => (OwnInv /\ Counting)'
  <2> SUFFICES ASSUME OwnInv, Counting, [Next]_vars
               PROVE  OwnInv' /\ Counting'
    OBVIOUS
  <2>1. OwnInv' BY OwnStep
  <2>2. CASE UNCHANGED vars
    BY <2>1, <2>2 DEF Counting, Counted, ClientLimit, Serving, vars, listenVars
  <2>3. CASE Listen BY <2>1, <2>3, ListenCounting
  <2>4. ASSUME NEW c \in Csps, Serve(c) PROVE Counting'
    BY <2>4, ServeCounting DEF OwnInv
  <2> QED BY <2>1, <2>2, <2>3, <2>4 DEF Next
<1>3. OwnInv /\ Counting => RequestInv
  BY DEF OwnInv, Counting, RequestInv
<1> QED BY <1>1, <1>2, <1>3, PTL DEF Spec

(* Every variable holds what it may hold: the log, in particular, is only  *)
(* longer than max_log_clients_count inside add_log_csp.                   *)
THEOREM TypeCorrect == Spec => []TypeOK
<1>1. RequestInv => TypeOK BY DEF RequestInv
<1> QED BY <1>1, RequestSafe, PTL

(* The log only points to clients that are allocated, but for the head     *)
(* between the clearing of its flag and its unlinking.                     *)
THEOREM LogIsLive == Spec => []LogLive
<1>1. RequestInv => LogLive
  BY DEF RequestInv, LogOwned, EntryOwned, LogLive
<1> QED BY <1>1, RequestSafe, PTL

(* No sweep frees a client that is served.                                 *)
THEOREM ServedIsLive == Spec => []ServedLive
<1>1. RequestInv => ServedLive
  BY DEF RequestInv, ServeOwned, ServedLive, Serving
<1> QED BY <1>1, RequestSafe, PTL

(* The listener keeps max_client_connections.                              *)
THEOREM LimitsKept == Spec => []LimitsHold
<1>1. RequestInv => LimitsHold
  BY DEF RequestInv, TypeOK, LimitsHold, LogLimit
<1> QED BY <1>1, RequestSafe, PTL

=============================================================================
