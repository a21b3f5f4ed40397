------------------------- MODULE PacketTunnelProofs -------------------------
(***************************************************************************)
(* Proofs about PacketTunnel, for every set of ports and every value of    *)
(* the bounds. TunnelInv is inductive: it adds to the properties the order *)
(* in which the start sequence, the proxy threads and the settings         *)
(* callback come to write and to read the ports (StartOrder), and the      *)
(* order of the two completions (AnswerOrder). The safety properties and   *)
(* the refinement of TunnelContract follow from it.                        *)
(***************************************************************************)
EXTENDS PacketTunnel, NetworkPath, TLAPS

USE PortsAssumption, BoundsAssumption
USE DEF Proxies, Threads, MaybePort, NoPort

(* The invariant holds in a fresh process.                                 *)
LEMMA InitInv == Init => TunnelInv
<1> SUFFICES ASSUME Init PROVE TunnelInv OBVIOUS
<1> USE DEF Init
<1>1. TypeOK BY DEF TypeOK
<1>2. StartOrder
  BY DEF StartOrder, AfterForward, AfterSocks, AfterHttp, AfterSs
<1>3. AnswerOrder BY DEF AnswerOrder
<1>4. ProxyChain BY DEF ProxyChain
<1>5. StopClearsStatus BY DEF StopClearsStatus
<1>6. StopAnswerAfterLoop BY DEF StopAnswerAfterLoop
<1> QED BY <1>1, <1>2, <1>3, <1>4, <1>5, <1>6 DEF TunnelInv

(* The invariant is preserved by the provider's queue.                     *)
LEMMA ProviderStepInv == TunnelInv /\ ProviderStep => TunnelInv'
<1> SUFFICES ASSUME TunnelInv, ProviderStep PROVE TunnelInv' OBVIOUS
<1> USE DEF TunnelInv, TypeOK, StartOrder, AnswerOrder, ProxyChain,
        StopClearsStatus, StopAnswerAfterLoop, AfterForward, AfterSocks,
        AfterHttp, AfterSs, Ends, Exit, ExitSilently, startVars, forwardVars,
        reactorVars, antinatVars, stopVars
<1>1. CASE StartTunnelFails BY <1>1 DEF StartTunnelFails
<1>2. CASE StartTunnel BY <1>2 DEF StartTunnel
<1>3. CASE ShadowsocksStarted BY <1>3 DEF ShadowsocksStarted, SyncStartProxy
<1>4. CASE ShadowsocksFails BY <1>4 DEF ShadowsocksFails, SyncStartProxyFails
<1>5. CASE HttpProxyStarted BY <1>5 DEF HttpProxyStarted, SyncStartProxy
<1>6. CASE HttpProxyFails BY <1>6 DEF HttpProxyFails, SyncStartProxyFails
<1>7. CASE StartSocksProxy
  BY <1>7 DEF StartSocksProxy, ProxyCallback, SockPort, FreshPorts
<1>8. CASE StartSocksProxyFails BY <1>8 DEF StartSocksProxyFails
<1>9. CASE StartPacketForwarders BY <1>9 DEF StartPacketForwarders
<1>10. CASE SetupWormhole BY <1>10 DEF SetupWormhole, SockPort, FreshPorts
<1>11. CASE ReactorQuit BY <1>11 DEF ReactorQuit
<1> QED BY <1>1, <1>2, <1>3, <1>4, <1>5, <1>6, <1>7, <1>8, <1>9, <1>10, <1>11
        DEF ProviderStep

(* The invariant is preserved by the proxy threads.                        *)
LEMMA ProxyStepInv == TunnelInv /\ ProxyStep => TunnelInv'
<1> SUFFICES ASSUME TunnelInv, ProxyStep PROVE TunnelInv' OBVIOUS
<1> USE DEF TunnelInv, TypeOK, StartOrder, AnswerOrder, ProxyChain,
        StopClearsStatus, StopAnswerAfterLoop, AfterForward, AfterSocks,
        AfterHttp, AfterSs, Ends, Exit, ExitSilently, startVars, forwardVars,
        reactorVars, antinatVars, stopVars
<1>1. CASE ShadowsocksNoProfile
  BY <1>1 DEF ShadowsocksNoProfile, ProxyCallback
<1>2. CASE ShadowsocksListens
  BY <1>2 DEF ShadowsocksListens, ProxyCallback, SockPort, FreshPorts
<1>3. CASE ShadowsocksReturns BY <1>3 DEF ShadowsocksReturns
<1>4. CASE HttpProxyReadsGateway BY <1>4 DEF HttpProxyReadsGateway
<1>5. CASE HttpProxyListens
  <2> USE <1>5 DEF HttpProxyListens, ProxyCallback, SockPort, FreshPorts
  <2>1. port' \in [Proxies -> MaybePort] OBVIOUS
  <2>2. proxyError' \in {"nil", "error"} OBVIOUS
  <2>3. left' \subseteq Proxies OBVIOUS
  <2>4. \E to \in {"serving", "gone"} :
           thread' = [thread EXCEPT !["http"] = to]
    OBVIOUS
  <2>5. TypeOK' BY <2>1, <2>4, <2>2, <2>3
  <2>6. StartOrder' OBVIOUS
  <2>7. AnswerOrder' OBVIOUS
  <2>8. ProxyChain' OBVIOUS
  <2>9. StopClearsStatus' /\ StopAnswerAfterLoop' OBVIOUS
  <2> QED BY <2>5, <2>6, <2>7, <2>8, <2>9
<1>6. CASE ProxyFatal BY <1>6 DEF ProxyFatal
<1> QED BY <1>1, <1>2, <1>3, <1>4, <1>5, <1>6
        DEF ProxyStep

(* The invariant is preserved by the tun2socks thread.                     *)
LEMMA T2sStepInv == TunnelInv /\ T2sStep => TunnelInv'
<1> SUFFICES ASSUME TunnelInv, T2sStep PROVE TunnelInv' OBVIOUS
<1> USE DEF TunnelInv, TypeOK, StartOrder, AnswerOrder, ProxyChain,
        StopClearsStatus, StopAnswerAfterLoop, AfterForward, AfterSocks,
        AfterHttp, AfterSs, Ends, Exit, ExitSilently, startVars, forwardVars,
        reactorVars, antinatVars, stopVars
<1>1. CASE T2sInitFails BY <1>1 DEF T2sInitFails
<1>2. CASE T2sInitReactor BY <1>2 DEF T2sInitReactor
<1>3. CASE T2sSetNotQuitting BY <1>3 DEF T2sSetNotQuitting
<1>4. CASE T2sInitDevice BY <1>4 DEF T2sInitDevice
<1>5. CASE T2sDispatch BY <1>5 DEF T2sDispatch
<1>6. CASE T2sHandler BY <1>6 DEF T2sHandler
<1>7. CASE T2sHandlerTerminates BY <1>7 DEF T2sHandlerTerminates
<1>8. CASE OnTun2SocksFinished BY <1>8 DEF OnTun2SocksFinished
<1>9. CASE Tun2SocksExit BY <1>9 DEF Tun2SocksExit
<1> QED BY <1>1, <1>2, <1>3, <1>4, <1>5, <1>6, <1>7, <1>8, <1>9
        DEF T2sStep

(* The invariant is preserved by the SOCKS server.                         *)
LEMMA AntinatStepInv == TunnelInv /\ AntinatStep => TunnelInv'
<1> SUFFICES ASSUME TunnelInv, AntinatStep PROVE TunnelInv' OBVIOUS
<1> USE DEF TunnelInv, TypeOK, StartOrder, AnswerOrder, ProxyChain,
        StopClearsStatus, StopAnswerAfterLoop, AfterForward, AfterSocks,
        AfterHttp, AfterSs, Ends, Exit, ExitSilently, startVars, forwardVars,
        reactorVars, antinatVars, stopVars
<1>1. CASE AntinatStarts BY <1>1 DEF AntinatStarts
<1>2. CASE AntinatAccepts BY <1>2 DEF AntinatAccepts
<1>3. CASE AntinatConnectionEnds BY <1>3 DEF AntinatConnectionEnds
<1> QED BY <1>1, <1>2, <1>3
        DEF AntinatStep

(* The invariant is preserved by the system, the widget and the keepalive thread.*)
LEMMA SystemStepInv == TunnelInv /\ SystemStep => TunnelInv'
<1> SUFFICES ASSUME TunnelInv, SystemStep PROVE TunnelInv' OBVIOUS
<1> USE DEF TunnelInv, TypeOK, StartOrder, AnswerOrder, ProxyChain,
        StopClearsStatus, StopAnswerAfterLoop, AfterForward, AfterSocks,
        AfterHttp, AfterSs, Ends, Exit, ExitSilently, startVars, forwardVars,
        reactorVars, antinatVars, stopVars
<1>1. CASE SettingsApplied BY <1>1 DEF SettingsApplied
<1>2. CASE SettingsRefused BY <1>2 DEF SettingsRefused
<1>3. CASE StopTunnel BY <1>3 DEF StopTunnel, Stop
<1>4. CASE WidgetStop BY <1>4 DEF WidgetStop, Stop
<1>5. CASE KeepaliveNoToken BY <1>5 DEF KeepaliveNoToken, KeepaliveRuns
<1>6. CASE KeepaliveSend BY <1>6 DEF KeepaliveSend, KeepaliveRuns
<1>7. CASE KeepaliveReply BY <1>7 DEF KeepaliveReply
<1>8. CASE KeepaliveRejected BY <1>8 DEF KeepaliveRejected
<1>9. CASE Kill BY <1>9 DEF Kill
<1> QED BY <1>1, <1>2, <1>3, <1>4, <1>5, <1>6, <1>7, <1>8, <1>9
        DEF SystemStep

(* TunnelInv is inductive.                                                 *)
LEMMA NextInv == TunnelInv /\ [Next]_vars => TunnelInv'
<1> SUFFICES ASSUME TunnelInv, [Next]_vars PROVE TunnelInv' OBVIOUS
<1>1. CASE ProviderStep BY <1>1, ProviderStepInv
<1>2. CASE ProxyStep BY <1>2, ProxyStepInv
<1>3. CASE T2sStep BY <1>3, T2sStepInv
<1>4. CASE AntinatStep BY <1>4, AntinatStepInv
<1>5. CASE SystemStep BY <1>5, SystemStepInv
<1>6. CASE UNCHANGED vars
  BY <1>6 DEF vars, TunnelInv, TypeOK, StartOrder, AnswerOrder, ProxyChain,
       StopClearsStatus, StopAnswerAfterLoop, startVars, forwardVars,
       reactorVars, antinatVars, stopVars
<1> QED BY <1>1, <1>2, <1>3, <1>4, <1>5, <1>6 DEF Next, Ended

(* Every reachable state satisfies the inductive invariant.                *)
THEOREM Invariance == Spec => []TunnelInv
<1>1. Init => TunnelInv BY InitInv
<1>2. TunnelInv /\ [Next]_vars => TunnelInv' BY NextInv
<1> QED BY <1>1, <1>2, PTL DEF Spec

(* Type correctness of PacketTunnel.                                       *)
THEOREM TypeCorrect == Spec => []TypeOK
<1>1. TunnelInv => TypeOK BY DEF TunnelInv
<1> QED BY <1>1, Invariance, PTL

(* Each stage of the proxy chain holds the port of the stage behind it.    *)
THEOREM ChainCorrect == Spec => []ProxyChain
<1>1. TunnelInv => ProxyChain BY DEF TunnelInv
<1> QED BY <1>1, Invariance, PTL

(* A tunnel reported as started has all of its parts.                      *)
THEOREM StartCorrect == Spec => []StartMeansReady
<1>1. TunnelInv => StartMeansReady
  BY DEF TunnelInv, TypeOK, StartOrder, AnswerOrder, StartMeansReady,
         AfterForward, AfterSocks, AfterHttp, AfterSs
<1> QED BY <1>1, Invariance, PTL

(* A stop clears the status port for good.                                 *)
THEOREM StopCorrect == Spec => []StopClearsStatus
<1>1. TunnelInv => StopClearsStatus BY DEF TunnelInv
<1> QED BY <1>1, Invariance, PTL

(* A stop is answered only after tun2socks_main returned.                  *)
THEOREM StopAnswered == Spec => []StopAnswerAfterLoop
<1>1. TunnelInv => StopAnswerAfterLoop BY DEF TunnelInv
<1> QED BY <1>1, Invariance, PTL

(* The process implements TunnelContract: its initial states are initial   *)
(* states of the contract, and every step is one of the contract's steps   *)
(* or is invisible to the system.                                          *)
THEOREM ContractRefined == Spec => ImplementsContract
<1>1. Init => Contract!Init BY DEF Init, Contract!Init
<1>2. TunnelInv /\ [Next]_vars => [Contract!Next]_Contract!vars
  <2> SUFFICES ASSUME TunnelInv, [Next]_vars
               PROVE  [Contract!Next]_Contract!vars
    OBVIOUS
  <2> USE DEF Contract!Next, Contract!vars, Contract!AskStart,
        Contract!RefuseStart, Contract!AnswerStart, Contract!AskStop,
        Contract!AnswerStop, Contract!End, TunnelInv, TypeOK, StartOrder,
        AnswerOrder, Ends, Exit, ExitSilently, startVars, forwardVars,
        reactorVars, antinatVars, stopVars, AfterForward, AfterSocks,
        AfterHttp, AfterSs
  <2>1. CASE ProviderStep
    BY <2>1 DEF ProviderStep, StartTunnelFails, StartTunnel,
         ShadowsocksStarted, ShadowsocksFails, HttpProxyStarted,
         HttpProxyFails, SyncStartProxy, SyncStartProxyFails,
         StartSocksProxy, StartSocksProxyFails, StartPacketForwarders,
         SetupWormhole, ReactorQuit
  <2>2. CASE ProxyStep
    BY <2>2 DEF ProxyStep, ShadowsocksNoProfile, ShadowsocksListens,
         ShadowsocksReturns, HttpProxyReadsGateway, HttpProxyListens,
         ProxyFatal
  <2>3. CASE T2sStep
    BY <2>3 DEF T2sStep, T2sInitFails, T2sInitReactor, T2sSetNotQuitting,
         T2sInitDevice, T2sDispatch, T2sHandler, T2sHandlerTerminates,
         OnTun2SocksFinished, Tun2SocksExit
  <2>4. CASE AntinatStep
    BY <2>4 DEF AntinatStep, AntinatStarts, AntinatAccepts,
         AntinatConnectionEnds
  <2>5. CASE SystemStep
    BY <2>5 DEF SystemStep, SettingsApplied, SettingsRefused, StopTunnel,
         WidgetStop, Stop, KeepaliveRuns, KeepaliveNoToken, KeepaliveSend,
         KeepaliveReply, KeepaliveRejected, Kill
  <2>6. CASE UNCHANGED vars BY <2>6 DEF vars
  <2> QED BY <2>1, <2>2, <2>3, <2>4, <2>5, <2>6 DEF Next, Ended
<1> QED BY <1>1, <1>2, Invariance, PTL DEF Spec, ImplementsContract, Contract!Spec

-----------------------------------------------------------------------------
(* What StartAnswered and StopEnds rest on, besides fairness: something    *)
(* that was begun is always under way, and no step takes it back.          *)

(* How far the start sequence is; behind startPacketForwarders it waits    *)
(* for the answer to the settings.                                         *)
StartRank ==
    CASE mainPc = "waitSs" -> 1 [] mainPc = "waitHttp" -> 2
      [] mainPc = "startSocks" -> 3 [] mainPc = "forward" -> 4 [] OTHER -> 5

(* A start that is not answered is in the sequence or waits for the        *)
(* system's answer: startTunnelWithOptions has no way out that forgets it. *)
THEOREM StartUnderWay ==
    Spec => [](startCb = "pending" /\ proc = "running"
                  => settings = "pending" \/ StartRank < 5)
<1>1. TunnelInv =>
        (startCb = "pending" /\ proc = "running" => settings = "pending" \/ StartRank < 5)
  BY DEF TunnelInv, TypeOK, StartOrder, AnswerOrder, StartRank,
         AfterForward, AfterSocks, AfterHttp, AfterSs
<1> QED  BY <1>1, Invariance, PTL

(* No step of any thread takes the sequence back, and each step of the     *)
(* provider's queue before the settings are asked for takes it further.    *)
StartAdvances ==
    startCb = "pending" /\ startCb' = "pending" /\ proc' = "running" =>
        /\ StartRank <= StartRank'
        /\ ProviderStep /\ settings = "none" => StartRank < StartRank'

(* startTunnelWithOptions goes forward, unless a step answers the start or *)
(* ends the process.                                                       *)
THEOREM StartGoesForward == Spec => [][StartAdvances]_vars
<1>1. ASSUME TunnelInv, [Next]_vars PROVE StartAdvances
  <2> USE DEF TunnelInv, TypeOK, StartOrder, AnswerOrder, StartAdvances, StartRank, Ends, Exit,
        ExitSilently, startVars, forwardVars, reactorVars, antinatVars, stopVars,
        AfterForward, AfterSocks, AfterHttp, AfterSs
  <2>1. CASE ProviderStep
    BY <1>1, <2>1 DEF ProviderStep, StartTunnelFails, StartTunnel,
         ShadowsocksStarted, ShadowsocksFails, HttpProxyStarted,
         HttpProxyFails, SyncStartProxy, SyncStartProxyFails,
         StartSocksProxy, StartSocksProxyFails, StartPacketForwarders,
         SetupWormhole, ReactorQuit
  <2>2. SUFFICES ASSUME ~ProviderStep, StartRank \in Nat
                 PROVE  proc' = "running" => StartRank <= StartRank'
    BY <2>1
  <2>3. CASE mainPc' = mainPc  BY <2>2, <2>3
  <2>4. CASE StopTunnel \/ WidgetStop  BY <2>2, <2>4 DEF StopTunnel, WidgetStop, Stop
  <2>5. CASE ProxyStep
    BY <2>3, <2>5 DEF ProxyStep, ShadowsocksNoProfile, ShadowsocksListens,
         ShadowsocksReturns, HttpProxyReadsGateway, HttpProxyListens, ProxyFatal
  <2>6. CASE T2sStep
    BY <2>3, <2>6 DEF T2sStep, T2sInitFails, T2sInitReactor, T2sSetNotQuitting,
         T2sInitDevice, T2sDispatch, T2sHandler, T2sHandlerTerminates,
         OnTun2SocksFinished, Tun2SocksExit
  <2>7. CASE AntinatStep
    BY <2>3, <2>7 DEF AntinatStep, AntinatStarts, AntinatAccepts, AntinatConnectionEnds
  <2>8. CASE SystemStep
    BY <2>3, <2>4, <2>8 DEF SystemStep, SettingsApplied, SettingsRefused,
         KeepaliveRuns, KeepaliveNoToken, KeepaliveSend, KeepaliveReply,
         KeepaliveRejected, Kill
  <2>9. CASE UNCHANGED vars  BY <2>3, <2>9 DEF vars
  <2> QED  BY <1>1, <2>2, <2>5, <2>6, <2>7, <2>8, <2>9 DEF Next, Ended
<1> QED  BY <1>1, Invariance, PTL DEF Spec

(* How far tun2socks_main is from its end once it has to quit; 0 before    *)
(* BReactor_Init, which would forget a stop.                               *)
T2sRank ==
    CASE thread["t2s"] = "reactor" -> 1 [] thread["t2s"] = "device" -> 2
      [] thread["t2s"] = "handler" -> 3 [] thread["t2s"] = "loop" -> 4
      [] thread["t2s"] = "finished" -> 5 [] thread["t2s"] = "exit" -> 6
      [] OTHER -> 0

(* A stop that is in terminate, or has set exiting, behind BReactor_Init.  *)
StopHeld == T2sRank > 0 /\ (mainPc = "terminate" \/ exiting = 1)

(* Until the process ends such a stop stays, and once exiting is set each  *)
(* step of tun2socks brings it nearer to its end: it handles no event more *)
(* than the one it is in.                                                  *)
StopAdvances ==
    StopHeld /\ proc' = "running" =>
        /\ StopHeld'
        /\ exiting = 1 => exiting' = 1 /\ T2sRank <= T2sRank'
        /\ exiting = 1 /\ T2sStep => T2sRank < T2sRank'

(* terminate's effect on tun2socks_main is not lost.                       *)
THEOREM StopGoesForward == Spec => [][StopAdvances]_vars
<1>1. ASSUME TunnelInv, [Next]_vars PROVE StopAdvances
  <2> USE DEF startVars, forwardVars, reactorVars, antinatVars, stopVars, Exit, ExitSilently
  <2>2. CASE T2sStep
    <3> USE <2>2 DEF StopAdvances, StopHeld, T2sRank
    <3>1. thread \in [Threads -> {thread[t] : t \in Threads}] /\ "t2s" \in Threads
      BY <1>1 DEF TunnelInv, TypeOK
    <3>2. exiting = 1 => exiting # 0  OBVIOUS
    <3>3. CASE T2sInitFails  BY <3>3 DEF T2sInitFails
    <3>4. CASE T2sInitReactor  BY <3>4 DEF T2sInitReactor
    <3>5. CASE T2sSetNotQuitting  BY <3>1, <3>5 DEF T2sSetNotQuitting
    <3>6. CASE T2sInitDevice  BY <3>1, <3>6 DEF T2sInitDevice
    <3>7. CASE T2sDispatch  BY <3>1, <3>7 DEF T2sDispatch
    <3>8. CASE T2sHandler  BY <3>1, <3>8 DEF T2sHandler
    <3>9. CASE T2sHandlerTerminates  BY <3>1, <3>9 DEF T2sHandlerTerminates
    <3>10. CASE OnTun2SocksFinished  BY <3>1, <3>10 DEF OnTun2SocksFinished
    <3>11. CASE Tun2SocksExit  BY <3>11 DEF Tun2SocksExit
    <3> QED
      BY <3>3, <3>4, <3>5, <3>6, <3>7, <3>8, <3>9, <3>10, <3>11 DEF T2sStep
  <2>3. ASSUME ~T2sStep, thread'["t2s"] = thread["t2s"], exiting' \in {exiting, 1},
               mainPc = "terminate" => mainPc' = "terminate" \/ exiting' = 1
        PROVE  StopAdvances
    <3>1. T2sRank' = T2sRank  BY <2>3 DEF T2sRank
    <3>2. T2sRank \in Nat  BY DEF T2sRank
    <3> QED  BY <2>3, <3>1, <3>2 DEF StopAdvances, StopHeld
  <2>4. SUFFICES ASSUME ~T2sStep PROVE StopAdvances  BY <2>2
  <2>5. thread \in [Threads -> {thread[t] : t \in Threads}]
    BY <1>1 DEF TunnelInv, TypeOK
  <2>6. CASE ProviderStep
    BY <2>3, <2>4, <2>5, <2>6 DEF ProviderStep, StartTunnelFails, StartTunnel,
         ShadowsocksStarted, ShadowsocksFails, HttpProxyStarted,
         HttpProxyFails, SyncStartProxy, SyncStartProxyFails,
         StartSocksProxy, StartSocksProxyFails, StartPacketForwarders,
         SetupWormhole, ReactorQuit
  <2>7. CASE ProxyStep
    BY <2>3, <2>4, <2>5, <2>7 DEF ProxyStep, ShadowsocksNoProfile, ShadowsocksListens,
         ShadowsocksReturns, HttpProxyReadsGateway, HttpProxyListens, ProxyFatal
  <2>8. CASE AntinatStep
    BY <2>3, <2>4, <2>5, <2>8
       DEF AntinatStep, AntinatStarts, AntinatAccepts, AntinatConnectionEnds
  <2>9. CASE SettingsApplied
    <3>1. thread["t2s"] = "none"  BY <1>1, <2>9 DEF SettingsApplied, TunnelInv, StartOrder
    <3> QED  BY <3>1 DEF StopAdvances, StopHeld, T2sRank
  <2>10. CASE SystemStep
    BY <2>3, <2>4, <2>9, <2>10 DEF SystemStep, SettingsRefused, StopTunnel, WidgetStop,
         Stop, KeepaliveRuns, KeepaliveNoToken, KeepaliveSend, KeepaliveReply,
         KeepaliveRejected, Kill
  <2>11. CASE UNCHANGED vars  BY <2>3, <2>4, <2>11 DEF vars
  <2> QED  BY <1>1, <2>4, <2>6, <2>7, <2>8, <2>10, <2>11 DEF Next, Ended
<1> QED  BY <1>1, Invariance, PTL DEF Spec

-----------------------------------------------------------------------------
(* The path of the device, for every set of paths.                         *)

(* What the observer does to the remembered path and to the waiting        *)
(* blocks: the path it read is remembered, or one more block waits and a   *)
(* remembered path stays.                                                  *)
LEMMA ObserverEffect ==
    ASSUME NEW p \in Paths, Observe(p)
    PROVE  \/ lastPath' = p /\ timers' = timers
           \/ lastPath # NoPath /\ lastPath' = lastPath /\ timers' = timers + 1
    BY DEF Observe

(* The invariant of the provider that follows the network is inductive: a  *)
(* change of the path waits for its block, or was asked for.               *)
THEOREM PathSafe == PathSpec => []PathInv
<1>1. PathInit => PathInv
    BY TimerAssumption, PathAssumption
    DEF PathInit, PathInv, PathTypeOK, NothingSeen, GrantedInForce, NoChangeLost, Paths
<1>2. PathInv /\ [PathNext]_pathVars => PathInv'
    <2> SUFFICES ASSUME PathInv, [PathNext]_pathVars PROVE PathInv'
        OBVIOUS
    <2> USE TimerAssumption DEF PathInv
    <2>1. CASE AskFirst
        BY <2>1 DEF AskFirst, AskSettings, PathTypeOK, NothingSeen,
                    GrantedInForce, NoChangeLost
    <2>2. CASE FirstAnswered
        <3>1. CASE phase' = "observing" /\ applied' = asked /\ Observe(path)
            <4>1. lastPath' = path /\ timers' = timers
                BY <2>2, <3>1, ObserverEffect
                DEF FirstAnswered, PathTypeOK, NothingSeen
            <4> QED
                BY <2>2, <3>1, <4>1 DEF FirstAnswered, PathTypeOK, NothingSeen,
                    GrantedInForce, NoChangeLost
        <3>2. CASE phase' = "failed"
            BY <2>2, <3>2 DEF FirstAnswered, PathTypeOK, NothingSeen,
                GrantedInForce, NoChangeLost
        <3> QED BY <2>2, <3>1, <3>2 DEF FirstAnswered
    <2>3. CASE Answer
        BY <2>3 DEF Answer, PathTypeOK, NothingSeen, GrantedInForce, NoChangeLost
    <2>4. CASE TimerFires
        BY <2>4 DEF TimerFires, AskSettings, PathTypeOK, NothingSeen,
                    GrantedInForce, NoChangeLost
    <2>5. CASE PathChanges
        <3>1. PICK p \in Paths :
                /\ path' = p
                /\ \/ phase = "observing" /\ Observe(p)
                   \/ phase # "observing" /\ UNCHANGED <<lastPath, timers>>
            BY <2>5 DEF PathChanges
        <3>2. \/ lastPath' = p /\ timers' = timers
              \/ lastPath' = lastPath /\ timers' = timers + 1
              \/ phase # "observing" /\ lastPath' = lastPath /\ timers' = timers
            BY <3>1, ObserverEffect
        <3>3. PathTypeOK'
            BY <2>5, <3>1, <3>2 DEF PathChanges, PathTypeOK
        <3>4. NothingSeen' /\ GrantedInForce'
            BY <2>5, <3>1 DEF PathChanges, NothingSeen, GrantedInForce
        <3>5. NoChangeLost'
            BY <2>5, <3>1, <3>2 DEF PathChanges, PathTypeOK, NoChangeLost
        <3> QED BY <3>3, <3>4, <3>5
    <2>6. CASE UNCHANGED pathVars
        BY <2>6 DEF pathVars, PathTypeOK, NothingSeen, GrantedInForce, NoChangeLost
    <2> QED
        BY <2>1, <2>2, <2>3, <2>4, <2>5, <2>6 DEF PathNext
<1> QED BY <1>1, <1>2, PTL DEF PathSpec

(* Once the newest request is granted and nothing waits, the settings name *)
(* the servers of the network the device is on, unless that network is     *)
(* unusable or the remembered one.                                         *)
THEOREM PathIsFollowed == PathSpec => []FollowsPath
<1>1. PathInv => FollowsPath
    BY DEF PathInv, NoChangeLost, GrantedInForce, FollowsPath, Settled
<1> QED BY <1>1, PathSafe, PTL

(* Type correctness of NetworkPath.                                        *)
THEOREM PathTyped == PathSpec => []PathTypeOK
<1>1. PathInv => PathTypeOK BY DEF PathInv
<1> QED BY <1>1, PathSafe, PTL
=============================================================================
