# ShadowCoel: a verification model

ShadowCoel is an iOS proxy client (a fork of Potatso). The app keeps proxies and
rules in a database, writes configuration files from them, and starts a packet
tunnel extension. The extension runs three local proxies and a user-space TCP
stack: packets of the device go through tun2socks to a SOCKS proxy (Antinat), web
requests go to an HTTP proxy (Privoxy), and both hand what the rules say to the
local Shadowsocks client.

These modules model the logic of both. Of the extension: how it starts and stops,
how packets enter tun2socks, how a TCP connection is relayed to the SOCKS proxy and
forwarded by it, how UDP answers find their way back, how the HTTP proxy keeps its
clients and request log, how a request is routed, and how the tunnel follows the
device between networks. Of the app: the switch and what it knows of the tunnel,
the configuration a start uses, the Today widget, and iCloud synchronisation.
Paths below are relative to `src/`.

## Checking

    tlc -workers 2 -config MCPacketTunnel_safety.cfg MCPacketTunnel
    tlapm PacketTunnelProofs.tla

and likewise for the other `MC*.cfg` files and `*Proofs.tla` modules.
`PROJECT.json` lists the runs with what each must find, the source lines of every
definition, the mutants each property must reject, the hazards and the theorems.

## Inventory

| Component | Where | State it keeps | Operations | Modelled by |
|---|---|---|---|---|
| Packet tunnel provider | `PacketTunnel/PacketTunnelProvider.m` | start and stop completions, status port in the shared defaults | start, stop, widget stop, keepalive, exit | `PacketTunnel` |
| Proxy start-up | `PacketTunnel/ProxyManager.m` | the three ports, the callbacks | start of ss-local, Privoxy, Antinat | `PacketTunnel` |
| tun2socks life cycle | `PacketProcessor/tun2socks-iOS` | `quitting`, reactor `exiting` | `tun2socks_main`, handlers, `terminate` | `PacketTunnel` |
| Packet pipe | `TunnelInterface.m`, `tuntap/BTap.m` | pipe, reads under way | packet out, read of the device | `PacketPipe` |
| tun2socks TCP relay | `tun2socks.c` 1120-1900 | list of clients, two buffers each | every lwIP and SOCKS callback | `TcpRelay` |
| Antinat SOCKS server | `Library/ShadowPath/ShadowPath/Antinat` | `an_active`, the counted configuration | accept, close, connection threads | `PacketTunnel` |
| Antinat forwarder threads | Antinat `conn.m` 290-640 | two sockets and a buffer | select, copy, close | `SocksForwarder` |
| UDP relay | `TunnelInterface.m` | session table | packet out, datagram in | `UdpRelay` |
| HTTP proxy clients and request log | `.../Privoxy/jcc.m`, `loaders.c` | client list, flag words, `log_clients` | accept, sweep, serve, evict | `RequestLog` |
| Request routing | `.../Privoxy/{filters.c,jbsockets.c,actions.m}`, Antinat `config.m` | IP rules and their trees, `csp->routing` | URL stage, resolve, decide, connect | `Routing` |
| Network changes | `PacketTunnelProvider.m`, `dns.m` | `_lastPath`, waiting blocks, settings | observe, ask, answer | `NetworkPath` |
| VPN manager and app paths | `ShadowCoelLibrary/Manager.swift`, `Core/VPN.swift`, `SimpleVC.swift`, `UrlHandler.swift` | `vpnStatus`, the profile, rules, the files | connect, restart, routing switch, URL actions | `AppVpn` |
| Today widget | `TodayWidget` | status, a socket | tick, callbacks of the socket | `Widget` (its stop message is in `PacketTunnel`) |
| iCloud synchronisation | `ShadowCoel/Sync` | zone change token, local objects | fetch, apply, push, retry | `CloudSync` |
| Configuration store | `ShadowCoelModel`, `JRule.swift` | proxies, rule sets, groups, files | add, modify, delete, regenerate | its reachable parts in `AppVpn`, `CloudSync` |
| Account, purchase, downloads | `HTTP.swift`, `SubscribeManager.swift`, ... | tokens | one request, one write | not modelled: one request and one write each |
| View controllers | `ShadowCoel/*VC.swift` | presentation | | not modelled: layout |
| Vendored protocol code | lwIP, Shadowsocks and HTTP parsing, sockets, crypto | | | not modelled: external definitions |

How they interact. The app and the extension are two processes. They share user
defaults (`tunnelStatusPort`, default group), configuration files and wormhole
messages. In the extension, the provider starts the proxies on threads of their
own, one after the other, and waits for each by a dispatch group; ports travel
from one to the next through plain instance variables. The system calls the
provider and is answered through completion blocks. The HTTP proxy runs one
listener and a thread per connection over shared lists; routing rules are filled
by blocks on a concurrent queue while requests already run.

What is hard, and what must hold:

- *start and stop*: a proxy that never calls back, settings refused after the
  proxies run, a stop from the widget and one from the system, `exit` from any
  thread. A start is answered once, only with everything in place; a stop is
  answered only when no packet moves any more; the port chain is consistent.
- *request log*: three threads decide about one client by an unprotected flag
  word, and the one that frees takes no mutex. Nothing in use is freed; limits hold
  although the counts are stale.
- *routing*: the decision falls in the middle of a walk over addresses, rules are
  incomplete for a while, two proxies decide in two pieces of code. What a rule
  refuses or proxies is never contacted directly, and the log tells the truth.
- *network changes*: changes overlap with waiting blocks and unanswered
  requests. No change that stays is lost.
- *packet pipe*: a full pipe divides a write, a read does not block. tun2socks gets
  the packets in order, and a full pipe never stops the flow for good.
- *TCP relay and forwarder*: either end may go first while bytes for the other are
  buffered, and callbacks of lwIP run those of the SOCKS client inside them. Each
  side gets the other's bytes in order, and nothing is freed twice or kept.
- *UDP relay*: two threads, one table, no lock, a key that is only half an
  address, and a socket that takes a datagram from anyone. An answer goes to one who
  asked, and no datagram to one who has not sent to its source.
- *app and widget*: the status is read at one time and acted on at another, files
  are written by several callers. What the app shows, and starts with, is current.
- *synchronisation*: fetches overlap, pages are applied bit by bit, the app may end
  at any point. What the token says was fetched has been applied.

`PROJECT.json` lists every hazard with its line and the properties that address it.

## How the project was built

In this order, the packet's way first: `PacketTunnel` with `TunnelContract`,
`RequestLog`, `Routing`, `NetworkPath`; then `TcpRelay` with `RelayContract`,
`CloudSync`, `AppVpn`, `PacketPipe` with `PacketQueue`, `UdpRelay`, `Widget` and
`SocksForwarder`. Each was checked with TLC, its mutants included, before anything
was proved about it. The modules are composed where components share state:
`PacketTunnel` holds the provider, the proxies' threads, tun2socks and Antinat;
`AppVpn` the app, NetworkExtension and the files. Elsewhere a component's neighbour
is an environment that may do whatever its interface allows: `TcpRelay` and
`SocksForwarder` meet in a TCP connection, `PacketPipe` and `TcpRelay` in lwIP,
`Widget` and `PacketTunnel` in a status port that may hold any value.

`AppProofs` covers the app and its widget, `TunnelInterfaceProofs` both ways of
`TunnelInterface.m`, `PacketTunnelProofs` the provider with its network changes.

What is left: the links of a group in `CloudSync`, and the editing screens should a
build install them.

## The modules

### PacketTunnel

One extension process, from `startTunnelWithOptions` to its end.

| In the model | In the code |
|---|---|
| `mainPc` | the provider's serial queue: where `startProxies` / `startPacketForwarders` is, or which handler waits |
| `thread` | the threads of ss-local, Privoxy, Antinat's accept loop and tun2socks |
| `port`, `httpGateway`, `socksGateway`, `systemProxy`, `t2sServer` | the ports, and the copies each stage takes |
| `left`, `proxyError` | the dispatch group and the error variable of `syncStartProxy` |
| `startCb`, `stopCb` | `_pendingStartCompletion`, `_pendingStopCompletion` and their answers |
| `quitting`, `exiting` | the variables of `tun2socks.c` and of the reactor |
| `anActive`, `confRefs`, `conns` | Antinat's flag, its configuration's count, the connections that hold it |
| `statusPort` | the user default `tunnelStatusPort`; `Init` allows any value an earlier process left |

Actions follow the provider (`StartTunnel`, `ShadowsocksStarted`, ..., `Stop`
through `StopTunnel` and `WidgetStop`, `ReactorQuit`), the proxy threads, the
phases of `tun2socks_main`, Antinat, and the system's callbacks. `Stop` and
`ReactorQuit` are two steps, since `terminate` writes two variables that the
tun2socks thread reads in between.

Assumptions about code that is not in the repository: NetworkExtension calls the
provider's methods, and the wormhole its listeners, on one serial queue;
`GCDAsyncSocket performBlock:` waits for its block; the system asks at most once
to stop. ss-local and Privoxy have empty stop methods: they run until the process
ends, and so they do in the model.

`TunnelContract` is what the system may rely on: a start is answered at most once,
a stop after a start and at most once. `PacketTunnel` implements it
(`ImplementsContract`).

### RequestLog

The client list, its flag words and the request log of the HTTP proxy. A flag
word is updated by a read and a write that are separate steps, as compiled code
does for `|=` and `&=` without a lock; `log_request_mutex` is `lock`, which the
sweep does not take. An eviction is three steps: the head's flag word is read
(`EvictHead`), written without `LOG_REQUEST` (`ClearHead`, `jcc.m` 3371), and the entry is
unlinked (`UnlinkHead`, 3373). Between the last two the sweep may free the client
while its entry is still the head: `LogLive` excepts this entry alone
(`Evicted`), since the evicting thread does not follow it any more and no other can
hold the mutex. The app's request for the records takes no mutex, and may. The order in
which a sweep visits the list is left open, which allows every order of the code.
`chat` is reduced to the updates of the flag word it makes. The configuration the
app writes does not enable keep-alive, so a connection carries one request.
A failed allocation ends the process (`LOG_LEVEL_FATAL`) and is left out.

### Routing

One request from its URL to its outcome, and the blocks that fill the rule trees
in any order. A URL rule, up to two IP rules, the list of forged addresses, a
proxy and the default route are chosen in `Init`. `DecideIpv4` is the decision of
`forward_ip` and `forward_dns_pollution_ip`; `SocksRoute` is `config_isallowed`,
the SOCKS proxy's own decision. Requests share nothing but the rules, so one is
enough; the trees fill while it runs. `tried`, `stage`, `ruledOn` and `outcome`
record what happened, for the properties.

What the model makes plain and no property forbids, since the code promises
nothing else: rules do not act until their trees are filled; IPv6 addresses are
always contacted directly, and after a failed one the forged list and default
route are skipped; a second IPv4 address is contacted under the first one's
decision; a DIRECT rule is overridden when the name does not resolve.

### NetworkPath

The provider's observer of `defaultPath`. `path` is the network the device is on,
`timers` the blocks that wait for their second, `asked`, `answered` and `applied`
the newest request for settings and what is in force. The DNS servers that a
request names are those of the path at the time the block runs. The general
configuration's own `dns` entry, which makes the settings independent of the path,
is left out. `_lastPath` is not updated by a change that asks for settings, so a
device that returns to it keeps the other network's servers: `FollowsPath`
excludes exactly this case.

### TcpRelay and RelayContract

One `tcp_client` of `tun2socks.c`, from its accept to its end. Entries share only
the list and its count, so one is enough; the abstract state of lwIP's pcb is an
external definition, made of what the handlers see of it.

| In the model | In the code |
|---|---|
| `entry`, `client`, `socks`, `socks_up` | the entry's life, `client_closed`, `socks_closed` (and which side closed first), `socks_up` |
| `pcb`, `recv_cb`, `rcv_wnd`, `refused`, `flight` | lwIP's pcb: state, receive callback, window, refused segment, bytes not acknowledged |
| `buf`, `send_len` | `buf` and `buf_used`, the send under way |
| `recv_buf`, `recv_sent`, `waiting`, `pending` | `socks_recv_buf` and the counters that go with it |
| `cb`, `dead`, `ret` | the lwIP callback that is running jobs, its `DEAD` variable, what it returned |

`client_recv_func`, `client_sent_func` and `listener_accept_func` run pending SOCKS
jobs before they return (`SYNC_COMMIT`): for these the model has the part before,
any jobs, and `Return`. The pcb may be freed in between, in which case a callback
must return `ERR_ABRT`. `tcp_recv_null`, the callback of a pcb that outlived its
entry, drops data: a stutter. The SOCKS handshake is one event, `SocksUp`.

`RelayContract` says what a relay is: two streams in order, each delivered in
prefixes of what was taken, and ends that never come back. `RelaysInOrder` is the
refinement.

### CloudSync

`ICloudSyncService.sync` and the operations it queues, against the cloud as
CloudKit shows it: each record's last change, in the order of the changes. A token
is the number of a change. `page` is what a fetch still has to process, `cur` the
record whose time was compared and that is not written yet: the comparison and the
Realm transaction are two steps (`CloudKitRecord.swift` 189). The `synced` flags are
left out, since the two queries that read them return nothing; the push is one
step. Links between a group and its proxies are not modelled. A sync is `stuck`
when its fetch operation ended in a branch that never finishes it; an app that
ends starts over with what is stored.

`TokenCovers` is about one fetch at a time, and `mixed` remembers if two
overlapped: then one may store the token of a page whose records the other is
still to write, and neither a flag nor the queue keeps them apart. A sync
by hand clears the token first, and another sync's page may put one back before
its fetch starts, so that it does not start from nothing.

### AppVpn

`Manager`, and of the screens the one that the build installs (`SimpleVC`), with
one configuration group. `shown` is the status the Manager caches; `observer`,
`notice` and `loads` are how it comes by it. `store` and `files` are the
configuration in the database and in the files the extension reads, of which
`regenerateConfigFiles` writes the rules last. `alone` and `calm` are chosen at the
beginning: `alone` says that only the user of this screen acts on the tunnel and that
the app goes on running, `calm` that besides nothing fails and a stop is done within
the second that `restartVPN` waits. `ConnectConnects` and `RestartApplies` hold in calm
behaviours only, and say so; the second gives up when the rules change again, or when a
block (below) has read older ones. `unseen` is the Manager's blind time: a change that no
notification told of, until the status is read again; `StatusTold` says that there is
no other.

`ReplaceRules` is `setAll` and the end of `setGFW`: three transactions, any of which may
fail, and the failure is printed. The group then keeps its old rules, has the
changed rule set, or has none. `odd` remembers it, and what else keeps the rules
from being the switch's.

Everything runs on the main queue but for one thing: until the id of the default
group is stored (`known`), `getDefaultConfigGroup` queues a block on a global queue that
regenerates the files there (`Manager.swift` 186). `job` holds these blocks. Each
reads the server, writes it, reads the rules and writes those, from the version of
the store that it finds, which may be one from between the transactions of
`ReplaceRules`, and stores the id in the end. A block that has read what the store
does not hold any more is `Stale`, and may put an older server or older rules in the
place of what a start has just written: nothing in the code prevents it.
`StartsWhole` says that this is the only way to a start with mixed files: `fresh` holds
the starts since whose regeneration the store is unchanged and no block was stale.

A start that is asked for while the tunnel disconnects is reported as a success
and is lost (`Manager.swift` 414).

### PacketPipe and PacketQueue

The pipe between the packet flow and tun2socks, byte by byte: `HandleTcpPacket` and
`Write` on one thread, `ReadFrame` and `Recv` on the other. A write of at
most `Atomic` bytes (`PIPE_BUF`, 512 on Darwin) is taken whole or waits, a longer one
may be divided anywhere; packets have up to 1602 bytes. The reader takes two bytes
of length, then as many as they say, and fails if less is there, although the
comment in `BTap.m` (192-196) speaks of trying again. One lone byte is read as half a
header and thrown away, and from then on lengths come from wrong places: `Misread`
says which lengths these may be. When tun2socks has ended, the process does too.

`PacketQueue` is a queue with a fair receiver. `IsQueue` shows the pipe implements it
until tun2socks is stopped, fails after a divided write, or a header was divided;
the mapping passes on only what came in step, so a packet out of step counts as
one that never comes. The liveness of the queue is part of it. `InOrder` says of the
pipe itself what holds beyond that: in order, and no failure, unless a write was divided.

### UdpRelay

Every datagram leaves by one socket that is not connected. `answers` are the
datagrams on their way to it: answers to a question, and those that nobody asked for
(`Unasked`), from any remote address, which `DidReceiveData` treats alike.
`session` is the dictionary of `TunnelInterface.m`, keyed by the remote address, and
`storing` the entry the flow's thread is adding while the socket's queue may look
one up. Such a lookup may find the old entry, the new one or nothing, or crash.
The network loses, repeats and reorders. Packets of the main queue are kept as a
set, without their order.

For a source that nobody sent to, the lookup finds nothing, and the packet that is
made of it is addressed to 0.0.0.0:0 and written to the flow (`TunnelInterface.m`
177-180), not dropped. `AnswersAddressed` therefore has three parts: an answer is
misled only to one who sent to its source later; a packet goes to no local address
that has not sent to where it comes from, whoever sends what; and without a race on
the table a packet is addressed to nobody only when nobody had asked for it.

### Widget

The Today widget's view of the tunnel: a tick each second, a socket whose callbacks
run on a concurrent queue, and a port that may be stale or somebody else's.
`didConnect` has two statements that set the status and drop the connection, and
between them other callbacks run. `calls` counts the unfinished callbacks of each
stage. A connection that nobody ended would make every later tick say that there is
no tunnel; `OpenIsEnded` is that there is none.

### SocksForwarder

The thread `realapp` leaves behind: `select`, `recv`, `send`, in turn for both ways,
and the close of both sockets. Bytes are counts. What the code makes of its
options decides the model: `conn_dict` is static in a header (`an_serv.h` 82), so the
table of pipes of one file is not that of the other and stays empty; no throttle is
configured; the sockets block, since `an_set_blocking` does nothing by default.
A thread that could not be created (`conn.m` 622) is the state `lost`: nobody serves
the connection. Sends that block hold both ways, and an end that reads
only after it has written all would block for good: the fairness below excludes it.
What the ends do after the close is left out.

## Runs

| Run | Instance | Distinct states | What it shows |
|---|---|---|---|
| `tunnel_safety` | 3 ports, one widget stop, one keepalive, one connection | 315,828 | port chain, a successful start is complete, stop clears the status port and is answered after the loop, the contract; a late enough stop ends the process, a start is answered |
| `tunnel_config` | 2 ports | 3,260 | a connection takes a reference to a freed configuration |
| `requests_safety` | 4 clients, log of 2, limit 3, symmetric | 43,728 | nothing served is freed, nothing logged but the entry being unlinked; the limits hold |
| `routing_safety` | 2 IPv4, 1 IPv6 address, 19 rule lists, answers of up to 2 addresses | 482,894 | rules, log, agreement of the two proxies, no fallback |
| `network_safety` | 3 usable networks and none, 3 waiting blocks | 1,305 | granted settings follow the path; no change is lost |
| `relay_safety` | window 3, send buffer 3, receive buffer 2, 4 bytes up, 5 down | 12,317 | no stall, a freed pcb is reported, the contract, all bytes arrive, the entry is freed |
| `sync_safety` | 2 records (one a rule set), 2 syncs, 1 retry, 2 changes | 141,884 | the token covers what is applied, no record goes back, a sync ends or is stuck where the code leaves it |
| `app_safety` | 1 operation of the user at a time, 1 server, 1 download, 1 block of the global queue | 303,263 | the status is told and settles; rules follow the switch but for failures; no mixed files at a start but by a block with older ones; connect and restart do what they say |
| `pipe_safety` | 4 packets, pipe of 5 bytes, atomic up to 3 | 2,159 | packets arrive in order; a queue with its liveness; a full pipe does not stop the flow for good |
| `udp_safety` | 2 local, 2 remote addresses, 2 under way, symmetric | 1,922,757 | an answer goes to one who asked, nothing to one who did not |
| `widget_live` | 2 ports, 3 unfinished callbacks | 17,140 | an open connection will be ended; the widget comes to show what is so |
| `forwarder_safety` | reads of 2, room for 2, 3 bytes each way | 199,236 | no byte is dropped, all are forwarded, both sockets close |

Every type invariant is a theorem, and so is every invariant and action property
of the runs.

Bounds. Three ports let all three listeners have different ones, and a mixed-up
chain shows with two. One widget stop and one system stop are the two
stops that can meet; a second widget stop adds only repetitions of the first. One
connection is enough for the configuration to be freed while it is held or taken.
Four clients with a log of two let one be served, one evicted (and freed before it is
unlinked), one evicting and one newly accepted. Two rules over two addresses give the
first match, a late tree before and behind another rule, and both kinds of lookup; two addresses in
an answer give the fall-through from one to the next, in each family. Three
networks let the device leave one for two others before any answer. The relay's
sizes are different, and smaller than what is sent: each buffer fills, is
emptied in part, and is filled again. Two syncs overlap, and two
records let a page end between them. A pipe of five bytes takes the smallest
frame whole, divides the second size and can never hold the largest. Two
local addresses can share a remote one. Three bytes through room for two need
a second pass. `AppVpn` has one operation of
the user at a time beside its own stop, loads, downloads, notifications, sessions of
others and a block of the global queue: two operations that wait together pass the
time limit. One value stands for every server, so the mixed files that TLC can see are
of rules. `FirstLaunch` lets others act on the tunnel only where the app knows its group,
and goes on from a first launch whose block is under way only as long as nothing may
fail or the routing switch stays off. `RulesFollowSwitch`, `StartsWhole` and
`StatusTold` are theorems without any of these bounds; for the three liveness properties
they are the bounds here that may hide a case.
The theorems remove the bounds for the safety properties they state.

`CHECK_DEADLOCK FALSE` is set where the system stops: a request that is done, a
provider that is on one network with nothing waiting, a relay whose entry is
freed, syncs with no changes left, packets all read, a datagram bound reached, a
forwarder that closed, an app or widget that nobody uses. A process that ended
stutters in `PacketTunnel` (`Ended`).

Fairness.

- `PacketTunnel`: the provider's queue, the tun2socks thread and the system's answer
  to a settings request are weakly fair: the first two are threads the kernel
  schedules, the third is what NetworkExtension does. The proxies' threads, keepalive
  and connections are not: ss-local may never call back, which is why the provider
  waits with a limit. A stop that comes before `BReactor_Init` is overwritten by it and
  is never answered; `StopEnds` is therefore about later stops only.
- `NetworkPath`: the main queue runs its blocks and the system answers requests.
- `TcpRelay`: a callback returns; the SOCKS server accepts or fails; a send
  progresses or fails; lwIP's retransmissions get an acknowledgement or end the
  connection. Nothing makes either end send or close.
- `CloudSync`: each sync's next step, since CloudKit answers every request, with an
  error if need be, and the queues run. The user and other devices are free.
- `AppVpn`: the system and the services answer what they were asked, queued
  notifications are delivered, and a tunnel that connects or disconnects ends doing
  so. The user need not act, and nothing is assumed of the profile's loads for the
  Manager, of downloads and of the global queue.
- `PacketPipe`: both threads run. No packet need come, and nobody need stop.
- `Widget`: the timer fires, a connection attempt ends, callbacks run.
- `SocksForwarder`: the thread runs, and each end that is alive reads what came.

## Findings

One run ends in a violation by design, of what the source itself says: the
comment "we know nothing is using it" of Antinat's `config.m` 1482 against a
connection that is accepted after the stop (`tunnel_config`; `PROJECT.json` quotes it).

Other things the models show that the source says otherwise or does not expect,
without a run of their own:

- `ASSERT(!quitting)` in `terminate` (`tun2socks.c` 470) after a widget stop and a
  system stop, and in the handlers (983) when a stop comes while they are being
  dispatched. A build with `NDEBUG` ignores them.
- "If it is inactive, free its resources" (`loaders.c` 97): a lost update of the flag
  word (`jcc.m` 3016 against 3371) leaves a client that no sweep ever frees.
- An evicted client can be freed while the log still has its entry (`jcc.m` 3371 before
  3373), where the app's request for the records may meet it.
- A datagram from an address that nobody sent to becomes a packet for 0.0.0.0:0.
- On a first launch, a regeneration on the global queue can put older files, even
  without any rules, in the place of those a start has just written: it may have opened
  the store before `setAll` changed it. A failed `setAll` leaves the group with the
  rules of the list, or without any, until the next launch.
- `client_recv_func` (`tun2socks.c` 1531) returns `ERR_ABRT` also for a pcb that was
  closed and not aborted. After `tcp_recv(pcb, NULL)` (1432) a client's end is answered by
  lwIP itself, which may free the pcb while the entry, with `client_closed` unset,
  still holds it.
- `BTap.m` 187 reports an error before its own comment "retry later" (192).
- A sync by hand that another one overtakes does not start from nothing.
- The URL action `connect` reports success although no tunnel comes up when one is
  disconnecting.

## Proofs

All theorems hold for every value of the constants, from the named assumptions
of each module alone (ports are nonzero, bounds are natural numbers, sizes
positive, a pipe holds a byte and any write that is not divided, addresses of the two
families differ, there is a finite set of clients).

- `PacketTunnelProofs`: `TunnelInv` is inductive. `ProxyChain` is not: that a copied
  port is the right one depends on which waits the start sequence is past, so
  `StartOrder` ties each thread's place to `mainPc`, and `AnswerOrder` ties the two
  completions to it. From it: `TypeOK`, `ProxyChain`, `StartMeansReady`,
  `StopClearsStatus`, `StopAnswerAfterLoop`, and the step simulation that gives
  `Contract!Spec`. For the network changes `PathInv` is inductive: `FollowsPath` needs
  that a change with no waiting block has been asked for (`NoChangeLost`) and that a
  granted request is in force (`GrantedInForce`).
  `StartUnderWay`, `StartGoesForward` and `StopGoesForward` are what the liveness of the
  start and of a stop rests on besides fairness (see below).
- `RequestLogProofs`: `RequestInv` is inductive. `LogLive` needs that every copy of
  the flag word a thread is about to write back still has the bit (`LogOwned`,
  `ServeOwned`), except the head between the clearing of its flag and its unlinking
  (`Evicted`); that there is one such thread, another client's, and that the log is
  then one over its length (`Evicting`); and that a log entry occurs once
  (`EnteredOnce`). `ClientLimit`, half of `LimitsHold`, needs that the sweep has
  counted every served client it is done with (`Counted`); the proof counts finite sets.
- `RoutingProofs`: `RoutingInv` is inductive. `ControlInv` says what each step implies
  of the stage and the route; the theorem about rules needs the smallest matching
  index, taken by well-founded minimum.
- `TcpRelayProofs`: `RelayInv` is inductive. Its parts tie the callback that is
  running to the send it started (`CallbacksMatch`), the flags of the two ends to each
  other (`EndsMatch`), and both histories to what is buffered (`UpInOrder`,
  `DownInOrder`): what an end got, what lwIP or the send holds and what waits are, one
  after the other, what was taken. From it: `NothingStalls`, `FreedPcbReported`, and
  the step simulation that gives `Contract!Spec`. `GoneIsServed` and
  `GoneGoesForward`: an entry without a client waits only for what will free it.
- `CloudSyncProofs`: `TokenCovers` needs that while no two fetches overlap, what is not
  local is in the page or behind its token. `NeverOlder` is an action property: a
  write needs the comparison it rests on to be still true, unless an edit fell between.
- `TunnelInterfaceProofs`. UDP: an answer's asker is in the table, or `later` has who
  came after; and an entry of the table is of one who has sent (`EntrySent`), which
  is what a datagram that nobody asked for meets. The pipe: `PipeInv` is inductive.
  `InOrder` rests on where the bytes are:
  what is in the pipe and what is left of the frame in `write()` are one stream, in
  which the frames of the packets not received stand one behind the other, at places
  that exist as long as no header is torn (`InPlace`); what is missing of the frame in
  `write()` was divided where it ends (`LeftOK`); no packet comes twice (`Once`), and
  nothing that was not sent (`Known`). `WriterGoesOn`: an empty pipe has room for a
  waiting writer, so the flow and the device never wait for each other. `PipeIsQueue` is
  the step simulation of the queue: the number of packets in step is the `n` of the
  mapping, and a step adds one to it or leaves it (`AgreeInv`).
- `AppProofs`: `AppInv` is inductive. `RulesFollowSwitch` needs that a download under way
  was asked for by a switch that is still on (`DownloadsOwed`), and that a change of
  the rules that failed anywhere is in `odd` (`ReplaceRulesStep`). `StartsWhole` needs that no
  block is stale while a start counts as fresh (`FilesInv`): then each block writes
  what is there (`JobFiles`). `StatusTold` is inductive by itself with the types.
  `WidgetInv` is inductive: an
  open socket without a delegate hears no callback of its own, and is ended by the one
  that took the delegate (`Unguarded`).
- `SocksForwarderProofs`: what is sent is read, waiting, or held by the thread
  while both connections stand; the thread's `closing` says whose end was seen.

Only model-checked: all liveness, which needs fairness and is out of the prover's
reach (`StopEnds`, `StartAnswered`, `ChangeIsAsked`, `ClientGoneFreed`,
`BytesDelivered`, `SyncEnds`, `StatusSettles`, `ConnectConnects`, `RestartApplies`,
`FlowGoesOn`, `StatusFollows`, `Forwards`, `Closes`, and in `IsQueue` the queue's own
fairness, whose safety half is `PipeIsQueue`); and the violation.

For some of these the part that needs no fairness is proved: what must lead on is
under way in every state, and for the first three a measure that never goes back and
advances with each step that fairness speaks of. The step from there to "eventually"
is left to TLC, since it rests on what is enabled.

| Liveness | What is under way | What advances |
|---|---|---|
| `StartAnswered` | `StartUnderWay` | `StartGoesForward`: the place in the start sequence |
| `StopEnds` | `StopGoesForward`: a stop that came stays | the same: the phase of `tun2socks_main` |
| `ClientGoneFreed` | `GoneIsServed` | `GoneGoesForward`: what is left in the buffer |
| `BytesDelivered` | `NothingEverStalls` | |
| `FlowGoesOn` | `WriterGoesOn` | |
| `StatusSettles` | `StatusIsTold` | |
| `ChangeIsAsked` | `PathSafe` (`NoChangeLost`) | |

## Not modelled

- Account, purchase, subscription and rule set downloads: one request and one write
  each. Of the rule list's download, `AppVpn` has the completion.
- View controllers and cells, and the editing screens, which the installed
  root view does not reach; of the configuration store, what the app and the
  sync do to it is in `AppVpn` and `CloudSync`.
- Vendored libraries: lwIP, ss-local's and Privoxy's protocols, CocoaAsyncSocket,
  MMWormhole, OpenSSL, mbedTLS, c-ares, libev, PCRE, Realm. They make up most of the
  repository's lines, and have specifications and tests of their own; the models
  state what they rely on of them as external definitions.
- Within modelled parts: URL patterns, GEOIP lookups and file parsing (which rule
  holds which address); the reader of the request log in the provider, which
  walks the list without the mutex and about which nothing in the repository promises
  anything; keep-alive connections of the HTTP proxy, which the generated
  configuration turns off; header bytes and checksums of packets, IPv6 UDP (dropped),
  and `sizeof(struct udp_hdr *)` in place of the header's size (`TunnelInterface.m`
  156), which is the same number on 64-bit devices; links of a group in a sync.
- Every data race is a choice among its outcomes: the old value, the new one,
  nothing, or a crash.
