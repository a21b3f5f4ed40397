------------------------------- MODULE Widget -------------------------------
(***************************************************************************)
(* The Today widget guesses the state of the tunnel: each second it takes  *)
(* the port that the tunnel left in the shared defaults and tries to       *)
(* connect to it.  The socket belongs to a queue of its own and calls back *)
(* on a concurrent one, so that a callback runs beside the next tick and   *)
(* beside other callbacks, and may set the status after a later one.       *)
(***************************************************************************)
EXTENDS Naturals

CONSTANTS
    Ports,    \* ports of 127.0.0.1
    NoPort,   \* no port in the defaults, or nobody listens
    MaxCalls  \* bound: callbacks that a tick finds unfinished

ASSUME WidgetAssumption == NoPort \notin Ports /\ MaxCalls \in Nat

VARIABLES
    stored,   \* tunnelStatusPort in the shared defaults
    tunnel,   \* where the tunnel listens
    foreign,  \* ports where someone else listens
    timer,    \* the view is visible and its timer runs
    sock,     \* the widget's socket: "closed", "connecting" or "open"
    target,   \* the port it connects to
    delegate, \* the socket has its delegate
    calls,    \* callbacks: queued ones, and didConnect between its statements
    status    \* what the switch shows and acts on

sockVars == <<sock, target, delegate, calls>>
widgetVars == <<stored, tunnel, foreign, timer, sockVars, status>>

Stages == {"connected", "shown", "cleared", "ended"}

WidgetTypeOK ==
    /\ stored \in Ports \cup {NoPort} /\ tunnel \in Ports \cup {NoPort}
    /\ foreign \subseteq Ports \ {tunnel} /\ timer \in BOOLEAN
    /\ sock \in {"closed", "connecting", "open"} /\ target \in Ports \cup {NoPort}
    /\ sock # "closed" => target # NoPort
    /\ delegate \in BOOLEAN /\ calls \in [Stages -> Nat] /\ status \in BOOLEAN

Listening == (foreign \cup {tunnel}) \ {NoPort}

(* viewDidLoad takes any port that was left for a tunnel that runs.        *)
WidgetInit ==
    /\ stored \in Ports \cup {NoPort} /\ tunnel \in {stored, NoPort}
    /\ foreign \in SUBSET (Ports \ {tunnel}) /\ timer = FALSE
    /\ sock = "closed" /\ target = NoPort /\ delegate = TRUE
    /\ calls = [s \in Stages |-> 0] /\ status = (stored # NoPort)

-----------------------------------------------------------------------------
(* The tunnel, and others that listen.                                     *)

TunnelStarts(p) ==
    /\ tunnel = NoPort /\ p \notin foreign
    /\ tunnel' = p /\ stored' = p
    /\ UNCHANGED <<foreign, timer, sockVars, status>>

(* A stop takes the port away before the process ends.                     *)
PortCleared ==
    /\ tunnel # NoPort /\ stored' = NoPort
    /\ UNCHANGED <<tunnel, foreign, timer, sockVars, status>>

(* The process ends, in a stop or otherwise.                               *)
TunnelEnds ==
    /\ tunnel # NoPort /\ tunnel' = NoPort
    /\ UNCHANGED <<stored, foreign, timer, sockVars, status>>

OthersListen ==
    /\ foreign' \in SUBSET (Ports \ {tunnel})
    /\ UNCHANGED <<stored, tunnel, timer, sockVars, status>>

-----------------------------------------------------------------------------
(* The timer.                                                              *)

Unfinished ==
    calls["connected"] + calls["shown"] + calls["cleared"] + calls["ended"]

(* Mutant: the socket keeps the delegate that it has.                      *)
MutTryConnect ==
    IF stored = NoPort THEN status' = FALSE /\ UNCHANGED sockVars
    ELSE /\ IF sock = "closed"
            THEN sock' = "connecting" /\ target' = stored /\ UNCHANGED status
            ELSE status' = FALSE /\ UNCHANGED <<sock, target>>
         /\ UNCHANGED <<calls, delegate>>

(* tryConnectStatusSocket: a socket in use refuses to connect.             *)
TryConnect ==
    IF stored = NoPort THEN status' = FALSE /\ UNCHANGED sockVars
    ELSE /\ delegate' = TRUE
         /\ IF sock = "closed"
            THEN sock' = "connecting" /\ target' = stored /\ UNCHANGED status
            ELSE status' = FALSE /\ UNCHANGED <<sock, target>>
         /\ UNCHANGED calls

Tick ==
    /\ timer /\ Unfinished < MaxCalls
    /\ TryConnect
    /\ UNCHANGED <<stored, tunnel, foreign, timer>>

(* viewWillAppear starts the timer and fires it.                           *)
Appear ==
    /\ ~timer /\ Unfinished < MaxCalls /\ timer' = TRUE
    /\ TryConnect
    /\ UNCHANGED <<stored, tunnel, foreign>>

-----------------------------------------------------------------------------
(* The socket.                                                             *)

Queued(s) == [calls EXCEPT ![s] = @ + 1]

(* Mutant: a socket that is closed keeps its connection.                   *)
MutClosed(after) == UNCHANGED sock /\ calls' = after

(* The socket is closed; the delegate hears of it if there is one.         *)
Closed(after) ==
    /\ sock' = "closed"
    /\ calls' = IF delegate /\ sock # "closed"
                THEN [after EXCEPT !["ended"] = @ + 1] ELSE after

Established ==
    /\ sock = "connecting" /\ target \in Listening
    /\ sock' = "open"
    /\ calls' = IF delegate THEN Queued("connected") ELSE calls
    /\ UNCHANGED <<stored, tunnel, foreign, timer, target, delegate, status>>

(* The connection is refused, or the other side closes it.                 *)
Fails ==
    /\ \/ sock = "connecting" /\ target \notin Listening
       \/ sock = "open"
    /\ Closed(calls)
    /\ UNCHANGED <<stored, tunnel, foreign, timer, target, delegate, status>>

Disappear ==
    /\ timer /\ timer' = FALSE
    /\ Closed(calls)
    /\ UNCHANGED <<stored, tunnel, foreign, target, delegate, status>>

-----------------------------------------------------------------------------
(* The callbacks, statement by statement.                                  *)

Moved(from, to) == [calls EXCEPT ![from] = @ - 1, ![to] = @ + 1]

(* didConnect: the status,                                                 *)
DidConnect ==
    /\ calls["connected"] > 0 /\ calls' = Moved("connected", "shown")
    /\ status' = TRUE
    /\ UNCHANGED <<stored, tunnel, foreign, timer, sock, target, delegate>>

(* the delegate,                                                           *)
ClearDelegate ==
    /\ calls["shown"] > 0 /\ calls' = Moved("shown", "cleared")
    /\ delegate' = FALSE
    /\ UNCHANGED <<stored, tunnel, foreign, timer, sock, target, status>>

(* and the end of the connection.                                          *)
Disconnect ==
    /\ calls["cleared"] > 0
    /\ Closed([calls EXCEPT !["cleared"] = @ - 1])
    /\ UNCHANGED <<stored, tunnel, foreign, timer, target, delegate, status>>

DidDisconnect ==
    /\ calls["ended"] > 0 /\ calls' = [calls EXCEPT !["ended"] = @ - 1]
    /\ status' = FALSE
    /\ UNCHANGED <<stored, tunnel, foreign, timer, sock, target, delegate>>

WidgetNext ==
    \/ \E p \in Ports : TunnelStarts(p)
    \/ PortCleared \/ TunnelEnds \/ OthersListen
    \/ Tick \/ Appear \/ Disappear
    \/ Established \/ Fails
    \/ DidConnect \/ ClearDelegate \/ Disconnect \/ DidDisconnect

WidgetSpec == WidgetInit /\ [][WidgetNext]_widgetVars

(* The timer ticks, a connection is made or refused, callbacks run.  The   *)
(* other side need not close a connection.                                 *)
WidgetFairSpec ==
    /\ WidgetSpec /\ WF_widgetVars(Tick)
    /\ WF_widgetVars(sock = "connecting" /\ (Established \/ Fails))
    /\ WF_widgetVars(DidConnect) /\ WF_widgetVars(ClearDelegate)
    /\ WF_widgetVars(Disconnect) /\ WF_widgetVars(DidDisconnect)

-----------------------------------------------------------------------------
(* An open connection has a callback that will end it, though callbacks of *)
(* earlier connections take the delegate away and close what they find: no *)
(* connection is left to refuse every later tick.                          *)
OpenIsEnded ==
    sock = "open" => calls["connected"] + calls["shown"] + calls["cleared"] > 0

(* Without a tunnel a visible widget comes to show that there is none, even*)
(* when the port of one that crashed is still stored, unless someone else  *)
(* listens there.                                                          *)
DownShown == <>[](timer /\ stored \notin Listening) => <>[](~status)

(* With a tunnel that stays a visible widget shows it again and again; the *)
(* code cannot promise that it keeps showing it.                           *)
UpShown == <>[](timer /\ tunnel = stored /\ stored # NoPort) => []<>status

(* Both: the widget finds out what became of the tunnel.                   *)
StatusFollows == DownShown /\ UpShown
=============================================================================
