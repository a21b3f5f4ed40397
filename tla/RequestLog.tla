----------------------------- MODULE RequestLog -----------------------------
(***************************************************************************)
(* The client list and the request log of the HTTP proxy (Privoxy, as      *)
(* changed by ShadowCoel): who may free a client_state, and when.          *)
(*                                                                         *)
(* One listener thread accepts connections and, before each accept, sweeps *)
(* the client list (sweep, loaders.c); one thread per connection serves it *)
(* (serve, chat) and enters it in the request log (add_log_csp), which     *)
(* keeps the newest MaxLog requests for the app to display. A client_state *)
(* carries two of its flags in one word: ACTIVE, cleared by its thread     *)
(* when it ends, and LOG_REQUEST, cleared by whichever thread evicts it    *)
(* from the log. It is freed by a sweep that finds neither. The mutex      *)
(* log_request_mutex protects the log; nothing protects the flag word, so  *)
(* "flags |= x" and "flags &= ~x" are a read and a write that other        *)
(* threads interleave with.                                                *)
(*                                                                         *)
(* The configuration the app writes has no keep-alive-timeout, so the      *)
(* proxy serves one request per connection (loadcfg.c:531).                *)
(***************************************************************************)
EXTENDS Integers, Sequences, FiniteSets

CONSTANTS
    Csps,        \* the addresses a client_state can be allocated at
    MaxLog,      \* max_log_clients_count (jcc.m:127)
    MaxClients,  \* max_client_connections, 0 for no limit (loadcfg.c:526)
    NoCsp        \* no client_state

ASSUME CspsAssumption == IsFiniteSet(Csps) /\ NoCsp \notin Csps
ASSUME LimitsAssumption == MaxLog \in Nat \ {0} /\ MaxClients \in Nat

VARIABLES
    listener,       \* "sweep" or "accept": where listen_loop is
    todo,           \* the clients the running sweep has yet to look at
    activeThreads,  \* active_threads, what the sweep has counted so far
    clients,        \* the client list
    thread,         \* where the thread that serves a client is
    flags,          \* the two flags of a client_state
    saved,          \* what a client's thread read of its own flags
    log,            \* log_clients, oldest first
    lock,           \* the client whose thread holds log_request_mutex
    evictSaved      \* what the evicting thread read of its victim's flags

listenVars == <<listener, todo, activeThreads, clients>>
logVars == <<log, lock, evictSaved>>
vars == <<listenVars, thread, flags, saved, logVars>>

Flags == [active : {0, 1}, log : {0, 1}]
NoFlags == [active |-> 0, log |-> 0]

(* The updates "|= LOG_REQUEST", "&= ~LOG_REQUEST", "&= ~ACTIVE".          *)
SetLog(f) == [active |-> f.active, log |-> 1]
ClearLog(f) == [active |-> f.active, log |-> 0]
ClearActive(f) == [active |-> 0, log |-> f.log]

Serving == {c \in Csps : thread[c] # "none"}

(* What each variable may hold; the log is one longer than its limit only  *)
(* while the mutex is held.                                                *)
TypeOK ==
    /\ listener \in {"sweep", "accept"}
    /\ todo \subseteq Csps
    /\ activeThreads \in Nat
    /\ clients \subseteq Csps
    /\ thread \in [Csps -> {"none", "chat", "evict", "unlink", "serve",
                            "update", "finish"}]
    /\ flags \in [Csps -> Flags]
    /\ saved \in [Csps -> Flags]
    /\ log \in Seq(Csps)
    /\ lock \in Csps \cup {NoCsp}
    /\ Len(log) <= IF lock = NoCsp THEN MaxLog ELSE MaxLog + 1
    /\ evictSaved \in Flags

(* listen_loop has bound its socket; no client was accepted.               *)
Init ==
    /\ listener = "sweep"
    /\ todo = {}
    /\ activeThreads = 0
    /\ clients = {}
    /\ thread = [c \in Csps |-> "none"]
    /\ flags = [c \in Csps |-> NoFlags]
    /\ saved = [c \in Csps |-> NoFlags]
    /\ log = <<>>
    /\ lock = NoCsp
    /\ evictSaved = NoFlags

-----------------------------------------------------------------------------
(* The listener.                                                           *)

(* Mutant: only the ACTIVE flag keeps a client, as in the original sweep.  *)
MutInUseActiveOnly(c) == flags[c].active = 1

(* What keeps a client_state from being freed.                             *)
InUse(c) == flags[c].active = 1 \/ flags[c].log = 1

(* sweep looks at a client: it counts one in use and frees any other. The  *)
(* order of the list is left out: what a visit does depends on c alone.    *)
SweepClient(c) ==
    /\ listener = "sweep"
    /\ c \in todo
    /\ todo' = todo \ {c}
    /\ \/ /\ InUse(c)
          /\ activeThreads' = activeThreads + 1
          /\ UNCHANGED clients
       \/ /\ ~InUse(c)
          /\ clients' = clients \ {c}
          /\ UNCHANGED activeThreads
    /\ UNCHANGED <<listener, thread, flags, saved, logVars>>

(* sweep returns and the listener waits in accept_connection.              *)
SweepReturns ==
    /\ listener = "sweep"
    /\ todo = {}
    /\ listener' = "accept"
    /\ UNCHANGED <<todo, activeThreads, clients, thread, flags, saved,
                   logVars>>

(* The next round of listen_loop begins with a sweep.                      *)
NextRound ==
    /\ listener' = "sweep"
    /\ todo' = clients'
    /\ activeThreads' = 0

(* Mutant: the limit is compared the wrong way round at the boundary.      *)
MutFullOffByOne == 0 < MaxClients /\ MaxClients < activeThreads

(* The limit is reached, as far as the last sweep knows.                   *)
Full == 0 < MaxClients /\ MaxClients <= activeThreads

(* accept_connection fails, or the client is rejected: too many of them.   *)
Reject ==
    /\ listener = "accept"
    /\ UNCHANGED clients
    /\ NextRound
    /\ UNCHANGED <<thread, flags, saved, logVars>>

(* A connection becomes a client, with a thread to serve it unless         *)
(* pthread_create fails. Until then the client is the listener's alone, so *)
(* setting and clearing its ACTIVE flag is one step.                       *)
Accept(c) ==
    /\ listener = "accept"
    /\ ~Full
    /\ c \notin clients
    /\ clients' = clients \cup {c}
    /\ \E spawned \in {0, 1} :
        /\ flags' = [flags EXCEPT ![c] = [active |-> spawned, log |-> 0]]
        /\ thread' = [thread EXCEPT ![c] =
                        IF spawned = 1 THEN "chat" ELSE @]
    /\ NextRound
    /\ UNCHANGED <<saved, logVars>>

-----------------------------------------------------------------------------
(* The thread of a client.                                                 *)

(* The client sends no request, or one that does not parse: chat returns,  *)
(* and serve reads the flags to clear ACTIVE. It also does after a request *)
(* it served.                                                              *)
ServeEnds(c) ==
    /\ thread[c] \in {"chat", "serve"}
    /\ saved' = [saved EXCEPT ![c] = flags[c]]
    /\ thread' = [thread EXCEPT ![c] = "finish"]
    /\ UNCHANGED <<listenVars, flags, logVars>>

(* flags &= ~ACTIVE is written, the last thing the thread does.            *)
ThreadEnds(c) ==
    /\ thread[c] = "finish"
    /\ flags' = [flags EXCEPT ![c] = ClearActive(saved[c])]
    /\ thread' = [thread EXCEPT ![c] = "none"]
    /\ UNCHANGED <<listenVars, saved, logVars>>

(* add_log_csp enters the request. If the log is too long now, the thread  *)
(* reads its head's flags and keeps the mutex until they are written.      *)
AddLogCsp(c) ==
    /\ thread[c] = "chat"
    /\ lock = NoCsp
    /\ log' = Append(log, c)
    /\ flags' = [flags EXCEPT ![c] = SetLog(@)]
    /\ \/ /\ Len(log') > MaxLog
          /\ evictSaved' = flags'[Head(log')]
          /\ lock' = c
          /\ thread' = [thread EXCEPT ![c] = "evict"]
       \/ /\ Len(log') <= MaxLog
          /\ thread' = [thread EXCEPT ![c] = "serve"]
          /\ UNCHANGED <<lock, evictSaved>>
    /\ UNCHANGED <<listenVars, saved>>

(* Mutant: the eviction clears the whole flag word.                        *)
MutEvictClearsAll(c) ==
    /\ thread[c] = "evict"
    /\ flags' = [flags EXCEPT ![Head(log)] = NoFlags]
    /\ thread' = [thread EXCEPT ![c] = "unlink"]
    /\ UNCHANGED <<listenVars, saved, logVars>>

(* The head's LOG_REQUEST flag is cleared. The head may be a client whose  *)
(* thread still runs; one whose thread has ended may be freed by a sweep,  *)
(* which takes no mutex, as soon as the flag is gone.                      *)
ClearHead(c) ==
    /\ thread[c] = "evict"
    /\ flags' = [flags EXCEPT ![Head(log)] = ClearLog(evictSaved)]
    /\ thread' = [thread EXCEPT ![c] = "unlink"]
    /\ UNCHANGED <<listenVars, saved, logVars>>

(* Only then is its entry unlinked and freed, and the mutex released. The  *)
(* client itself is not looked at any more.                                *)
UnlinkHead(c) ==
    /\ thread[c] = "unlink"
    /\ log' = Tail(log)
    /\ lock' = NoCsp
    /\ thread' = [thread EXCEPT ![c] = "serve"]
    /\ UNCHANGED <<listenVars, flags, saved, evictSaved>>

(* chat sets one of the other flags of its client: it reads the word ...   *)
ReadFlags(c) ==
    /\ thread[c] = "serve"
    /\ saved' = [saved EXCEPT ![c] = flags[c]]
    /\ thread' = [thread EXCEPT ![c] = "update"]
    /\ UNCHANGED <<listenVars, flags, logVars>>

(* ... and writes it, with the ACTIVE and LOG_REQUEST it read.             *)
WriteFlags(c) ==
    /\ thread[c] = "update"
    /\ flags' = [flags EXCEPT ![c] = saved[c]]
    /\ thread' = [thread EXCEPT ![c] = "serve"]
    /\ UNCHANGED <<listenVars, saved, logVars>>

-----------------------------------------------------------------------------
Listen ==
    \/ \E c \in Csps : SweepClient(c) \/ Accept(c)
    \/ SweepReturns
    \/ Reject

Serve(c) ==
    \/ ServeEnds(c)
    \/ ThreadEnds(c)
    \/ AddLogCsp(c)
    \/ ClearHead(c)
    \/ UnlinkHead(c)
    \/ ReadFlags(c)
    \/ WriteFlags(c)

Next == Listen \/ \E c \in Csps : Serve(c)

Spec == Init /\ [][Next]_vars

-----------------------------------------------------------------------------
(* Properties.                                                             *)

(* The entry whose client has lost its LOG_REQUEST flag and that is yet to *)
(* be unlinked: the head, while the thread with the mutex is between both. *)
Evicted(i) == i = 1 /\ lock # NoCsp /\ thread[lock] = "unlink"

(* Every entry of the request log is of a client that is still allocated,  *)
(* so the thread that evicts it may follow the pointer to clear its flag:  *)
(* two threads and the listener decide about one client, and no update of  *)
(* the flag word that is lost may free it. Only the head that is about to  *)
(* be unlinked may be freed already, and then nobody who holds the mutex   *)
(* follows it; the app's request for the records takes no mutex and can    *)
(* meet it (PacketTunnelProvider.m:121).                                   *)
LogLive == \A i \in 1 .. Len(log) : Evicted(i) \/ log[i] \in clients

(* A sweep never frees a client while the thread that serves it runs, also *)
(* when another thread evicts the client from the log in between.          *)
ServedLive == Serving \subseteq clients

(* No more threads serve clients than max_client_connections: listen_loop  *)
(* decides by a count its sweep took while threads were ending.            *)
ClientLimit == MaxClients > 0 => Cardinality(Serving) <= MaxClients

(* The log is over its length only between an addition and its eviction.   *)
LogLimit == Len(log) <= IF lock = NoCsp THEN MaxLog ELSE MaxLog + 1

(* Both stay within their limits, although the threads that add, end and   *)
(* evict decide by counts that others change.                              *)
LimitsHold == ClientLimit /\ LogLimit

-----------------------------------------------------------------------------
(* The inductive invariant: what the proofs need besides the properties.   *)

(* A client in the log keeps its LOG_REQUEST flag until it is evicted,     *)
(* whatever its thread is about to write back, and has been entered once.  *)
EntryOwned(i) ==
    /\ log[i] \in clients
    /\ flags[log[i]].log = 1
    /\ thread[log[i]] # "chat"
    /\ thread[log[i]] \in {"update", "finish"} => saved[log[i]].log = 1

EnteredOnce(i) == \A j \in 1 .. Len(log) : log[i] = log[j] => i = j

LogOwned ==
    \A i \in 1 .. Len(log) :
        /\ EnteredOnce(i)
        /\ Evicted(i) \/ EntryOwned(i)

(* A client that is served keeps its ACTIVE flag.                          *)
ServeOwned ==
    \A c \in Csps : thread[c] # "none" =>
        /\ c \in clients
        /\ flags[c].active = 1
        /\ thread[c] = "update" => saved[c].active = 1

(* The thread that holds the mutex evicts another client than its own, and *)
(* will not clear the ACTIVE flag of one that is served.                   *)
Evicting ==
    /\ \A c \in Csps : thread[c] \in {"evict", "unlink"} <=> lock = c
    /\ lock # NoCsp => Len(log) = MaxLog + 1
    /\ \A c \in Csps : thread[c] = "evict" =>
        /\ log[1] # c
        /\ thread[log[1]] # "none" => evictSaved.active = 1

(* A sweep has counted every served client it is done with.                *)
Counted ==
    /\ todo \subseteq clients
    /\ listener = "accept" => todo = {}
    /\ Cardinality(Serving \ todo) <= activeThreads

RequestInv ==
    /\ TypeOK
    /\ LogOwned
    /\ ServeOwned
    /\ Evicting
    /\ Counted
    /\ ClientLimit

=============================================================================
