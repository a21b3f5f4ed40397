---------------------------- MODULE PacketTunnel ----------------------------
(***************************************************************************)
(* The life of one packet-tunnel extension process: the start sequence of  *)
(* PacketTunnelProvider.m, the three local proxies that ProxyManager.m     *)
(* starts (shadowsocks, HTTP, SOCKS), the tun2socks thread that            *)
(* TunnelInterface.m runs, and the ways the process is stopped.            *)
(*                                                                         *)
(* Threads of control, and what stands for each of them:                   *)
(*   - the provider's serial queue (mainPc): startTunnelWithOptions,       *)
(*     stopTunnelWithReason and the wormhole listener run on it, so the    *)
(*     start sequence, which blocks in dispatch_group_wait, is not         *)
(*     interrupted by a stop;                                              *)
(*   - thread["ss"], thread["http"]: the detached proxy threads;           *)
(*   - thread["an"]: the accept loop of Antinat, the SOCKS server;         *)
(*   - thread["t2s"]: the dispatch queue block that runs tun2socks_main;   *)
(*   - callbacks of NetworkExtension and of NSURLSession, on queues of     *)
(*     their own: SettingsCallback, KeepaliveReply.                        *)
(* An exit() in any of them ends all of them: every action needs           *)
(* proc = "running".                                                       *)
(***************************************************************************)
EXTENDS Integers

CONSTANTS
    Ports,           \* the ports the kernel may bind a local listener to
    MaxWidgetStops,  \* bound: "stopTunnel" messages of the Today widget
    MaxKeepalives,   \* bound: keepalive requests in flight
    MaxConns         \* bound: SOCKS connections that hold the configuration

ASSUME PortsAssumption == Ports \subseteq Nat \ {0}
ASSUME BoundsAssumption ==
    /\ MaxWidgetStops \in Nat
    /\ MaxKeepalives \in Nat
    /\ MaxConns \in Nat

Proxies == {"ss", "http", "socks"}
Threads == {"ss", "http", "an", "t2s"}

(* The port of a listener that is not there; also what sock_port answers   *)
(* when getsockname fails, and _shadowsocksProxyPort without a profile.    *)
NoPort == 0
MaybePort == Ports \cup {NoPort}

VARIABLES
    proc,         \* "running", or what ended the process
    mainPc,       \* where the provider's serial queue is
    thread,       \* where each of the other threads is
    port,         \* _shadowsocksProxyPort, _httpProxyPort, _socksProxyPort
    left,         \* the proxies whose dispatch group was left
    proxyError,   \* the proxyError of the group being waited for
    httpGateway,  \* gateway_port of the forward_spec the HTTP proxy got
    socksGateway, \* the ${ssport} of the configuration Antinat was given
    settings,     \* the first setTunnelNetworkSettings request
    systemProxy,  \* the HTTP proxy port in those settings
    t2sServer,    \* the --socks-server-addr of tun2socks
    startCb,      \* _pendingStartCompletion and what it was called with
    stopCb,       \* _pendingStopCompletion, and whether it was called
    quitting,     \* tun2socks.c: quitting
    exiting,      \* BReactor: exiting
    anActive,     \* an_main.m: an_active
    confRefs,     \* an_main.m: conf->refcount
    conns,        \* SOCKS connections being served
    statusPort,   \* the user default "tunnelStatusPort"
    keepalives,   \* keepalive requests in flight
    widgetStops   \* "stopTunnel" messages handled so far

startVars == <<port, left, proxyError, httpGateway, socksGateway>>
forwardVars == <<settings, systemProxy, t2sServer, startCb>>
reactorVars == <<quitting, exiting>>
antinatVars == <<anActive, confRefs, conns>>
stopVars == <<stopCb, statusPort, widgetStops>>
vars == <<proc, mainPc, thread, startVars, forwardVars, reactorVars,
          antinatVars, stopVars, keepalives>>

Ends == {"startError", "proxyError", "finished", "keepalive", "killed"}

(* What each variable may hold.                                            *)
TypeOK ==
    /\ proc \in {"running"} \cup Ends
    /\ mainPc \in {"idle", "waitSs", "waitHttp", "startSocks", "forward",
                   "wormhole", "queue", "terminate"}
    /\ thread \in [Threads -> {"none", "starting", "reading", "serving",
                               "gone", "queued", "reactor", "device", "loop",
                               "handler", "finished", "exit"}]
    /\ port \in [Proxies -> MaybePort]
    /\ left \subseteq Proxies
    /\ proxyError \in {"nil", "error"}
    /\ httpGateway \in MaybePort /\ socksGateway \in MaybePort
    /\ systemProxy \in MaybePort /\ t2sServer \in MaybePort
    /\ settings \in {"none", "pending", "ok", "error"}
    /\ startCb \in {"unset", "pending", "ok", "error"}
    /\ stopCb \in {"unset", "pending", "called"}
    /\ quitting \in {0, 1} /\ exiting \in {0, 1} /\ anActive \in {0, 1}
    /\ confRefs \in Int
    /\ conns \in Nat
    /\ statusPort \in MaybePort
    /\ keepalives \in 0 .. MaxKeepalives
    /\ widgetStops \in 0 .. MaxWidgetStops

(* A fresh process. tunnelStatusPort lives in the shared user defaults and *)
(* may still hold the port of an earlier process that ended without stop.  *)
Init ==
    /\ proc = "running"
    /\ mainPc = "idle"
    /\ thread = [t \in Threads |-> "none"]
    /\ port = [x \in Proxies |-> NoPort]
    /\ left = {}
    /\ proxyError = "nil"
    /\ httpGateway = NoPort
    /\ socksGateway = NoPort
    /\ settings = "none"
    /\ systemProxy = NoPort
    /\ t2sServer = NoPort
    /\ startCb = "unset"
    /\ stopCb = "unset"
    /\ quitting = 0
    /\ exiting = 0
    /\ anActive = 0
    /\ confRefs = 0
    /\ conns = 0
    /\ statusPort \in MaybePort
    /\ keepalives = 0
    /\ widgetStops = 0

-----------------------------------------------------------------------------
(* exit(): the process and all of its threads are gone, nothing else is    *)
(* written.                                                                *)
Exit(end) ==
    /\ proc' = end
    /\ UNCHANGED <<mainPc, thread, startVars, reactorVars, antinatVars,
                   statusPort, widgetStops, keepalives>>

ExitSilently(end) == Exit(end) /\ UNCHANGED <<forwardVars, stopCb>>

(* The kernel's choice of a port for a new listener.                       *)
FreshPorts == Ports \ {port[x] : x \in Proxies}

(* sock_port(fd): the port a listening socket was bound to, 0 on error.    *)
SockPort == FreshPorts \cup {NoPort}

-----------------------------------------------------------------------------
(* startTunnelWithOptions, up to the wait for the first proxy. A failing   *)
(* setupWithPacketTunnelFlow answers the caller and exits.                 *)
StartTunnelFails ==
    /\ proc = "running" /\ mainPc = "idle"
    /\ startCb' = "error"
    /\ Exit("startError")
    /\ UNCHANGED <<settings, systemProxy, t2sServer, stopCb>>

StartTunnel ==
    /\ proc = "running" /\ mainPc = "idle"
    /\ startCb' = "pending"
    /\ thread' = [thread EXCEPT !["ss"] = "starting"]
    /\ mainPc' = "waitSs"
    /\ UNCHANGED <<proc, startVars, settings, systemProxy, t2sServer,
                   reactorVars, antinatVars, stopVars, keepalives>>

(* The end of dispatch_group_wait in syncStartProxy: the group was left    *)
(* without an error and the next step of startProxies runs ...             *)
SyncStartProxy(pc, x, next, started) ==
    /\ proc = "running" /\ mainPc = pc
    /\ x \in left /\ proxyError = "nil"
    /\ mainPc' = next
    /\ thread' = started
    /\ UNCHANGED <<proc, startVars, forwardVars, reactorVars, antinatVars,
                   stopVars, keepalives>>

(* Mutant: DISPATCH_TIME_FOREVER, no timeout.                              *)
MutWaitForever(pc, x) ==
    /\ proc = "running" /\ mainPc = pc
    /\ x \in left /\ proxyError = "error"
    /\ ExitSilently("proxyError")

(* Mutants: startShadowsocks does not wait for its group; startHttpProxy   *)
(* drops the error its callback reported.                                  *)
MutShadowsocksNotAwaited ==
    /\ proc = "running" /\ mainPc = "waitSs"
    /\ mainPc' = "waitHttp"
    /\ thread' = [thread EXCEPT !["http"] = "starting"]
    /\ UNCHANGED <<proc, startVars, forwardVars, reactorVars, antinatVars,
                   stopVars, keepalives>>

MutHttpErrorDropped ==
    /\ proc = "running" /\ mainPc = "waitHttp" /\ "http" \in left
    /\ mainPc' = "startSocks"
    /\ UNCHANGED <<proc, thread, startVars, forwardVars, reactorVars,
                   antinatVars, stopVars, keepalives>>

(* ... or it reported an error, or was not left within WAIT_TIME: exit(1), *)
(* and the start completion is never called.                               *)
SyncStartProxyFails(pc, x) ==
    /\ proc = "running" /\ mainPc = pc
    /\ x \in left => proxyError = "error"
    /\ ExitSilently("proxyError")

ShadowsocksStarted ==
    SyncStartProxy("waitSs", "ss", "waitHttp",
                   [thread EXCEPT !["http"] = "starting"])
ShadowsocksFails == SyncStartProxyFails("waitSs", "ss")
HttpProxyStarted == SyncStartProxy("waitHttp", "http", "startSocks", thread)
HttpProxyFails == SyncStartProxyFails("waitHttp", "http")

-----------------------------------------------------------------------------
(* A proxy thread reports to ProxyManager, which records the port and      *)
(* leaves the group that startProxies waits for.                           *)
ProxyCallback(x, p, error) ==
    /\ port' = [port EXCEPT ![x] = p]
    /\ proxyError' = error
    /\ left' = left \cup {x}

(* _startShadowsocks without a complete profile: no server, port 0 and no  *)
(* error.                                                                  *)
ShadowsocksNoProfile ==
    /\ proc = "running" /\ thread["ss"] = "starting"
    /\ ProxyCallback("ss", port["ss"], "nil")
    /\ thread' = [thread EXCEPT !["ss"] = "gone"]
    /\ UNCHANGED <<proc, mainPc, httpGateway, socksGateway, forwardVars,
                   reactorVars, antinatVars, stopVars, keepalives>>

(* ss-local listens, reports its descriptor and enters its event loop.     *)
ShadowsocksListens ==
    /\ proc = "running" /\ thread["ss"] = "starting"
    /\ \E p \in SockPort : ProxyCallback("ss", p, "nil")
    /\ thread' = [thread EXCEPT !["ss"] = "serving"]
    /\ UNCHANGED <<proc, mainPc, httpGateway, socksGateway, forwardVars,
                   reactorVars, antinatVars, stopVars, keepalives>>

(* The server's name does not resolve, or bind or listen fails: ss-local   *)
(* returns -1 and never calls back.                                        *)
ShadowsocksReturns ==
    /\ proc = "running" /\ thread["ss"] = "starting"
    /\ thread' = [thread EXCEPT !["ss"] = "gone"]
    /\ UNCHANGED <<proc, mainPc, startVars, forwardVars, reactorVars,
                   antinatVars, stopVars, keepalives>>

(* FATAL("failed to init ciphers") in ss-local, LOG_LEVEL_FATAL in Privoxy *)
(* (the configuration or the listening port): both exit.                   *)
ProxyFatal ==
    /\ proc = "running"
    /\ thread["ss"] = "starting" \/ thread["http"] \in {"starting", "reading"}
    /\ ExitSilently("proxyError")

(* _startHttpProxy reads _shadowsocksProxyPort and hands Privoxy a         *)
(* forward_spec for it, or none when the port is 0.                        *)
HttpProxyReadsGateway ==
    /\ proc = "running" /\ thread["http"] = "starting"
    /\ httpGateway' = port["ss"]
    /\ thread' = [thread EXCEPT !["http"] = "reading"]
    /\ UNCHANGED <<proc, mainPc, port, left, proxyError, socksGateway,
                   forwardVars, reactorVars, antinatVars, stopVars, keepalives>>

(* listen_loop binds and calls back before it accepts. Without a listen    *)
(* address the descriptor is JB_INVALID_SOCKET and the callback an error.  *)
HttpProxyListens ==
    /\ proc = "running" /\ thread["http"] = "reading"
    /\ \/ /\ \E p \in SockPort : ProxyCallback("http", p, "nil")
          /\ thread' = [thread EXCEPT !["http"] = "serving"]
       \/ /\ ProxyCallback("http", port["http"], "error")
          /\ thread' = [thread EXCEPT !["http"] = "gone"]
    /\ UNCHANGED <<proc, mainPc, httpGateway, socksGateway, forwardVars,
                   reactorVars, antinatVars, stopVars, keepalives>>

(* startSocksProxy runs on the provider's queue: Antinat gets the          *)
(* configuration with ${ssport} replaced, listens, and its accept loop is  *)
(* detached. A configuration or a port that fails is an exit in            *)
(* reloadconfig.                                                           *)
StartSocksProxy ==
    /\ proc = "running" /\ mainPc = "startSocks"
    /\ socksGateway' = port["ss"]
    /\ \E p \in SockPort : ProxyCallback("socks", p, "nil")
    /\ confRefs' = 1
    /\ thread' = [thread EXCEPT !["an"] = "starting"]
    /\ mainPc' = "forward"
    /\ UNCHANGED <<proc, httpGateway, forwardVars, reactorVars, anActive,
                   conns, stopVars, keepalives>>

StartSocksProxyFails ==
    /\ proc = "running" /\ mainPc = "startSocks"
    /\ ExitSilently("proxyError")

(* startPacketForwarders: the network settings, with the HTTP proxy's      *)
(* port, are requested; the answer comes later.                            *)
StartPacketForwarders ==
    /\ proc = "running" /\ mainPc = "forward"
    /\ settings' = "pending"
    /\ systemProxy' = port["http"]
    /\ mainPc' = "wormhole"
    /\ UNCHANGED <<proc, thread, startVars, t2sServer, startCb, reactorVars,
                   antinatVars, stopVars, keepalives>>

(* setupWormhole and setupStatusSocket: the widget's socket is bound, or   *)
(* is not and the port is 0. Then the keepalive thread is detached and the *)
(* queue is free for the next call.                                        *)
SetupWormhole ==
    /\ proc = "running" /\ mainPc = "wormhole"
    /\ statusPort' \in SockPort
    /\ mainPc' = "queue"
    /\ UNCHANGED <<proc, thread, startVars, forwardVars, reactorVars,
                   antinatVars, stopCb, widgetStops, keepalives>>

(* Mutant: _pendingStartCompletion is not reset and a second answer to the *)
(* settings request calls it again.                                        *)
MutSettingsAppliedAgain ==
    /\ proc = "running" /\ settings \in {"pending", "error"}
    /\ settings' = "ok"
    /\ t2sServer' = port["socks"]
    /\ thread' = [thread EXCEPT !["t2s"] = "queued"]
    /\ startCb' = "ok"
    /\ UNCHANGED <<proc, mainPc, startVars, systemProxy, reactorVars,
                   antinatVars, stopVars, keepalives>>

(* The completion handler of startPacketForwarders. Without an error the   *)
(* tun2socks block is queued; either way the start completion is called.   *)
SettingsApplied ==
    /\ proc = "running" /\ settings = "pending"
    /\ settings' = "ok"
    /\ t2sServer' = port["socks"]
    /\ thread' = [thread EXCEPT !["t2s"] = "queued"]
    /\ startCb' = "ok"
    /\ UNCHANGED <<proc, mainPc, startVars, systemProxy, reactorVars,
                   antinatVars, stopVars, keepalives>>

SettingsRefused ==
    /\ proc = "running" /\ settings = "pending"
    /\ settings' = "error"
    /\ startCb' = "error"
    /\ UNCHANGED <<proc, mainPc, thread, startVars, systemProxy, t2sServer,
                   reactorVars, antinatVars, stopVars, keepalives>>

-----------------------------------------------------------------------------
(* tun2socks_main, on its own thread. It may fail before or in             *)
(* BReactor_Init, after which it returns.                                  *)
T2sInitFails ==
    /\ proc = "running" /\ thread["t2s"] = "queued"
    /\ exiting' \in {exiting, 0}
    /\ thread' = [thread EXCEPT !["t2s"] = "finished"]
    /\ UNCHANGED <<proc, mainPc, startVars, forwardVars, quitting,
                   antinatVars, stopVars, keepalives>>

(* Mutant: the reactor is initialised again after the stop flag.           *)
MutReactorReset ==
    /\ proc = "running" /\ thread["t2s"] = "reactor"
    /\ quitting' = 0
    /\ exiting' = 0
    /\ thread' = [thread EXCEPT !["t2s"] = "device"]
    /\ UNCHANGED <<proc, mainPc, startVars, forwardVars,
                   antinatVars, stopVars, keepalives>>

T2sInitReactor ==
    /\ proc = "running" /\ thread["t2s"] = "queued"
    /\ exiting' = 0
    /\ thread' = [thread EXCEPT !["t2s"] = "reactor"]
    /\ UNCHANGED <<proc, mainPc, startVars, forwardVars, quitting,
                   antinatVars, stopVars, keepalives>>

T2sSetNotQuitting ==
    /\ proc = "running" /\ thread["t2s"] = "reactor"
    /\ quitting' = 0
    /\ thread' = [thread EXCEPT !["t2s"] = "device"]
    /\ UNCHANGED <<proc, mainPc, startVars, forwardVars, exiting,
                   antinatVars, stopVars, keepalives>>

(* The TUN device and the buffers, or one of the fail labels.              *)
T2sInitDevice ==
    /\ proc = "running" /\ thread["t2s"] = "device"
    /\ \E to \in {"loop", "finished"} :
          thread' = [thread EXCEPT !["t2s"] = to]
    /\ UNCHANGED <<proc, mainPc, startVars, forwardVars, reactorVars,
                   antinatVars, stopVars, keepalives>>

(* BReactor_Exec: while (!exiting) dispatch one handler. The TCP timer     *)
(* keeps the loop from waiting for long.                                   *)
T2sDispatch ==
    /\ proc = "running" /\ thread["t2s"] = "loop"
    /\ thread' = [thread EXCEPT !["t2s"] =
                     IF exiting = 1 THEN "finished" ELSE "handler"]
    /\ UNCHANGED <<proc, mainPc, startVars, forwardVars, reactorVars,
                   antinatVars, stopVars, keepalives>>

T2sHandler ==
    /\ proc = "running" /\ thread["t2s"] = "handler"
    /\ thread' = [thread EXCEPT !["t2s"] = "loop"]
    /\ UNCHANGED <<proc, mainPc, startVars, forwardVars, reactorVars,
                   antinatVars, stopVars, keepalives>>

(* A handler that calls terminate: the device failed, or lwip did not      *)
(* initialise.                                                             *)
T2sHandlerTerminates ==
    /\ proc = "running" /\ thread["t2s"] = "handler"
    /\ quitting' = 1
    /\ exiting' = 1
    /\ thread' = [thread EXCEPT !["t2s"] = "loop"]
    /\ UNCHANGED <<proc, mainPc, startVars, forwardVars,
                   antinatVars, stopVars, keepalives>>

(* kTun2SocksStoppedNotification is posted, and onTun2SocksFinished runs,  *)
(* on the tun2socks thread: it answers a pending stop ...                  *)
OnTun2SocksFinished ==
    /\ proc = "running" /\ thread["t2s"] = "finished"
    /\ stopCb' = IF stopCb = "pending" THEN "called" ELSE stopCb
    /\ thread' = [thread EXCEPT !["t2s"] = "exit"]
    /\ UNCHANGED <<proc, mainPc, startVars, forwardVars, reactorVars,
                   antinatVars, statusPort, widgetStops, keepalives>>

(* ... and exits.                                                          *)
Tun2SocksExit ==
    /\ proc = "running" /\ thread["t2s"] = "exit"
    /\ ExitSilently("finished")

(* Mutants: stop leaves the status port alone; stopTunnelWithReason calls  *)
(* its completion at once.                                                 *)
MutStopKeepsStatus ==
    /\ anActive' = 0
    /\ confRefs' = confRefs - 1
    /\ quitting' = 1
    /\ mainPc' = "terminate"
    /\ UNCHANGED <<proc, thread, startVars, forwardVars, exiting, conns,
                   statusPort, keepalives>>

-----------------------------------------------------------------------------
(* stop: the status port is cleared, closeup clears an_active and drops    *)
(* the server's reference to its configuration, and terminate sets         *)
(* quitting; ReactorQuit is its last statement.                            *)
Stop ==
    /\ statusPort' = NoPort
    /\ anActive' = 0
    /\ confRefs' = confRefs - 1
    /\ quitting' = 1
    /\ mainPc' = "terminate"
    /\ UNCHANGED <<proc, thread, startVars, forwardVars, exiting, conns,
                   keepalives>>

MutStopAnsweredAtOnce ==
    /\ proc = "running" /\ mainPc = "queue"
    /\ stopCb = "unset"
    /\ stopCb' = "called"
    /\ Stop
    /\ UNCHANGED widgetStops

(* stopTunnelWithReason, called by the system at most once.                *)
StopTunnel ==
    /\ proc = "running" /\ mainPc = "queue"
    /\ stopCb = "unset"
    /\ stopCb' = "pending"
    /\ Stop
    /\ UNCHANGED widgetStops

(* The wormhole listener "stopTunnel".                                     *)
WidgetStop ==
    /\ proc = "running" /\ mainPc = "queue"
    /\ widgetStops < MaxWidgetStops
    /\ widgetStops' = widgetStops + 1
    /\ Stop
    /\ UNCHANGED stopCb

(* BReactor_Quit.                                                          *)
ReactorQuit ==
    /\ proc = "running" /\ mainPc = "terminate"
    /\ exiting' = 1
    /\ mainPc' = "queue"
    /\ UNCHANGED <<proc, thread, startVars, forwardVars, quitting,
                   antinatVars, stopVars, keepalives>>

-----------------------------------------------------------------------------
(* realapp: the detached thread sets an_active itself before it accepts.   *)
AntinatStarts ==
    /\ proc = "running" /\ thread["an"] = "starting"
    /\ anActive' = 1
    /\ thread' = [thread EXCEPT !["an"] = "serving"]
    /\ UNCHANGED <<proc, mainPc, startVars, forwardVars, reactorVars,
                   confRefs, conns, stopVars, keepalives>>

(* HandleRequest: a connection to the local port is accepted and takes a   *)
(* reference to the configuration, which it gives back at once if it       *)
(* cannot be served; then an_active is tested again.                       *)
AntinatAccepts ==
    /\ proc = "running" /\ thread["an"] = "serving"
    /\ \/ /\ conns < MaxConns
          /\ confRefs' = confRefs + 1
          /\ conns' = conns + 1
       \/ UNCHANGED <<confRefs, conns>>
    /\ thread' = [thread EXCEPT !["an"] =
                     IF anActive = 1 THEN "serving" ELSE "gone"]
    /\ UNCHANGED <<proc, mainPc, startVars, forwardVars, reactorVars,
                   anActive, stopVars, keepalives>>

(* ChildThread ends and drops its reference.                               *)
AntinatConnectionEnds ==
    /\ proc = "running" /\ conns > 0
    /\ conns' = conns - 1
    /\ confRefs' = confRefs - 1
    /\ UNCHANGED <<proc, mainPc, thread, startVars, forwardVars, reactorVars,
                   anActive, stopVars, keepalives>>

-----------------------------------------------------------------------------
KeepaliveRuns == proc = "running" /\ mainPc \in {"queue", "terminate"}

(* keepalive, every 30 seconds: without a token exit(0), else one request. *)
KeepaliveNoToken ==
    /\ KeepaliveRuns
    /\ ExitSilently("keepalive")

KeepaliveSend ==
    /\ KeepaliveRuns
    /\ keepalives < MaxKeepalives
    /\ keepalives' = keepalives + 1
    /\ UNCHANGED <<proc, mainPc, thread, startVars, forwardVars, reactorVars,
                   antinatVars, stopVars>>

(* The answer: an error of the transport or of the service is exit(0).     *)
KeepaliveReply ==
    /\ proc = "running" /\ keepalives > 0
    /\ keepalives' = keepalives - 1
    /\ UNCHANGED <<proc, mainPc, thread, startVars, forwardVars, reactorVars,
                   antinatVars, stopVars>>

KeepaliveRejected ==
    /\ proc = "running" /\ keepalives > 0
    /\ ExitSilently("keepalive")

(* The system ends the extension: memory limit, crash, reboot.             *)
Kill ==
    /\ proc = "running"
    /\ ExitSilently("killed")

(* An ended process stays ended.                                           *)
Ended ==
    /\ proc \in Ends
    /\ UNCHANGED vars

-----------------------------------------------------------------------------
ProviderStep ==
    \/ StartTunnelFails \/ StartTunnel
    \/ ShadowsocksStarted \/ ShadowsocksFails
    \/ HttpProxyStarted \/ HttpProxyFails
    \/ StartSocksProxy \/ StartSocksProxyFails
    \/ StartPacketForwarders \/ SetupWormhole \/ ReactorQuit

ProxyStep ==
    \/ ShadowsocksNoProfile \/ ShadowsocksListens \/ ShadowsocksReturns
    \/ HttpProxyReadsGateway \/ HttpProxyListens \/ ProxyFatal

T2sStep ==
    \/ T2sInitFails \/ T2sInitReactor \/ T2sSetNotQuitting \/ T2sInitDevice
    \/ T2sDispatch \/ T2sHandler \/ T2sHandlerTerminates
    \/ OnTun2SocksFinished \/ Tun2SocksExit

AntinatStep == AntinatStarts \/ AntinatAccepts \/ AntinatConnectionEnds

SystemStep ==
    \/ SettingsApplied \/ SettingsRefused \/ StopTunnel \/ WidgetStop
    \/ KeepaliveNoToken \/ KeepaliveSend \/ KeepaliveReply
    \/ KeepaliveRejected \/ Kill

Next ==
    \/ ProviderStep \/ ProxyStep \/ T2sStep \/ AntinatStep \/ SystemStep
    \/ Ended

Spec == Init /\ [][Next]_vars

(* The provider's queue runs what it was given, dispatch_group_wait ends   *)
(* at the latest with its timeout, the tun2socks thread is scheduled and   *)
(* its handlers return, and NetworkExtension answers a settings request.   *)
Fairness ==
    /\ WF_vars(ProviderStep)
    /\ WF_vars(T2sStep)
    /\ WF_vars(SettingsApplied \/ SettingsRefused)

FairSpec == Spec /\ Fairness

-----------------------------------------------------------------------------
(* Every stage was given the port on which the stage behind it listens:    *)
(* the HTTP proxy and Antinat the port of ss-local, tun2socks the port of  *)
(* Antinat, and the system the port of the HTTP proxy. The values are read *)
(* by other threads than the ones that write them; only the waits of       *)
(* startProxies order them.                                                *)
ProxyChain ==
    /\ thread["http"] \in {"reading", "serving"} => httpGateway = port["ss"]
    /\ thread["an"] # "none" => socksGateway = port["ss"]
    /\ thread["t2s"] # "none" => t2sServer = port["socks"]
    /\ settings # "none" => systemProxy = port["http"]

(* The system is told that the tunnel started only when every proxy has    *)
(* reported to startProxies, the network settings are in force and the     *)
(* tun2socks thread was created.                                           *)
StartMeansReady ==
    startCb = "ok" =>
        /\ left = Proxies /\ proxyError = "nil"
        /\ thread["http"] = "serving" /\ thread["an"] # "none"
        /\ settings = "ok" /\ thread["t2s"] # "none"

(* Once any stop was handled the status port stays 0, whatever the start   *)
(* sequence and the other threads still do: the widget is not told of a    *)
(* tunnel that is being stopped.                                           *)
StopClearsStatus ==
    (stopCb # "unset" \/ widgetStops > 0) => statusPort = NoPort

(* The stop completion is called only when tun2socks_main has returned:    *)
(* the system never takes a tunnel for stopped that still moves packets.   *)
StopAnswerAfterLoop == stopCb = "called" => thread["t2s"] = "exit"

(* A stop that reaches BReactor_Quit while tun2socks is past BReactor_Init *)
(* is not lost: the process ends.                                          *)
StopEnds ==
    (mainPc = "terminate"
       /\ thread["t2s"] \in {"reactor", "device", "loop", "handler"})
    ~> proc # "running"

(* startTunnelWithOptions always leads to its completion or to the end of  *)
(* the process, even if a proxy thread never calls back.                   *)
StartAnswered == (startCb = "pending") ~> (startCb # "pending" \/ proc # "running")

(* Seen from the system, the process keeps the contract of TunnelContract: *)
(* every step is one of its steps or changes nothing the system sees.      *)
Contract == INSTANCE TunnelContract WITH
    alive <- (proc = "running"), start <- startCb, stop <- stopCb

ImplementsContract == Contract!Spec

-----------------------------------------------------------------------------
(* The order that the waits of startProxies and the settings callback      *)
(* impose: with TypeOK, an inductive invariant that implies ProxyChain,    *)
(* StartMeansReady and StopAnswerAfterLoop.                                *)
AfterForward == {"wormhole", "queue", "terminate"}
AfterSocks == {"forward"} \cup AfterForward
AfterHttp == {"startSocks"} \cup AfterSocks
AfterSs == {"waitHttp"} \cup AfterHttp

(* Where each proxy thread is, given how far the start sequence is. The    *)
(* thread of ss-local is past the write of its port before anything reads  *)
(* it, and so is the thread of the HTTP proxy.                             *)
StartOrder ==
    /\ mainPc = "idle" => thread["ss"] = "none"
    /\ "ss" \in left => thread["ss"] \in {"serving", "gone"}
    /\ mainPc \in AfterSs => "ss" \in left
    /\ thread["http"] # "none" <=> mainPc \in AfterSs
    /\ "http" \in left => thread["http"] \in {"serving", "gone"}
    /\ thread["http"] = "gone" => proxyError = "error"
    /\ mainPc \in AfterHttp =>
          "http" \in left /\ thread["http"] = "serving" /\ proxyError = "nil"
    /\ thread["an"] # "none" <=> mainPc \in AfterSocks
    /\ mainPc \in AfterSocks => "socks" \in left
    /\ settings # "none" <=> mainPc \in AfterForward
    /\ thread["t2s"] # "none" <=> settings = "ok"

(* How the two completions follow the start sequence.                      *)
AnswerOrder ==
    /\ startCb = "ok" <=> settings = "ok"
    /\ (mainPc # "idle" /\ settings \in {"none", "pending"}) =>
          startCb = "pending"
    /\ settings = "error" => startCb = "error"
    /\ proc = "running" => (startCb = "unset" <=> mainPc = "idle")
    /\ (stopCb # "unset" \/ widgetStops > 0) => mainPc \in {"queue", "terminate"}

TunnelInv ==
    /\ TypeOK /\ StartOrder /\ AnswerOrder
    /\ ProxyChain /\ StopClearsStatus /\ StopAnswerAfterLoop

-----------------------------------------------------------------------------
(* What a comment of Antinat says of this code.                            *)

(* config_dereference frees the configuration when the count reaches 0:    *)
(* "we know nothing is using it". No connection is accepted, and takes a   *)
(* reference, after that.                                                  *)
FreedConfigUnused == [][conns' > conns => confRefs > 0]_vars
=============================================================================
