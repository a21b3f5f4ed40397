----------------------------- MODULE NetworkPath -----------------------------
(***************************************************************************)
(* How the tunnel follows the device from network to network.              *)
(*                                                                         *)
(* startVPNWithOptions reads the DNS servers of the network the device is  *)
(* on (DNSConfig) and asks the system for tunnel settings that name them.  *)
(* The provider does so once when it starts. When these settings are       *)
(* applied it begins to observe defaultPath, and asks again, one second    *)
(* after the fact, when the path has changed to another usable one. What   *)
(* it compares the path with, _lastPath, is the first path it saw, or the  *)
(* newest one that was unusable or equal to it; a change that makes it ask *)
(* again leaves _lastPath alone.                                           *)
(*                                                                         *)
(* The general configuration names no DNS server of its own; with one, the *)
(* settings do not depend on the path.                                     *)
(***************************************************************************)
EXTENDS Integers

CONSTANTS
    Usable,      \* the paths whose status is NWPathStatusSatisfied
    Unusable,    \* the other paths
    NoPath,      \* nil
    MaxTimers    \* bound: changes of the path within one second

Paths == Usable \cup Unusable

ASSUME PathAssumption ==
    /\ Usable \cap Unusable = {}
    /\ NoPath \notin Usable \cup Unusable
ASSUME TimerAssumption == MaxTimers \in Nat

VARIABLES
    path,      \* defaultPath
    lastPath,  \* _lastPath
    phase,     \* "start", "asked", "observing" or "failed": the start's progress
    timers,    \* dispatch_after blocks that are yet to run
    asked,     \* the path whose servers the newest request names
    answered,  \* what became of the newest request
    applied    \* the path whose servers the settings in force name

pathVars == <<path, lastPath, phase, timers, asked, answered, applied>>

(* What each variable may hold.                                            *)
PathTypeOK ==
    /\ path \in Paths
    /\ lastPath \in Paths \cup {NoPath}
    /\ phase \in {"start", "asked", "observing", "failed"}
    /\ timers \in 0 .. MaxTimers
    /\ asked \in Paths \cup {NoPath}
    /\ answered \in {"none", "pending", "applied", "refused"}
    /\ applied \in Paths \cup {NoPath}

(* The proxies run; startPacketForwarders is about to ask for settings.    *)
PathInit ==
    /\ path \in Paths
    /\ lastPath = NoPath
    /\ phase = "start"
    /\ timers = 0
    /\ asked = NoPath
    /\ answered = "none"
    /\ applied = NoPath

-----------------------------------------------------------------------------
(* The settings.                                                           *)

(* Mutant: the servers are those of the remembered path.                   *)
MutAskSettings ==
    /\ asked' = IF lastPath = NoPath THEN path ELSE lastPath
    /\ answered' = "pending"

(* startVPNWithOptions: the DNS servers are those of the path the device   *)
(* is on when it runs. A newer request overrides one still unanswered.     *)
AskSettings == asked' = path /\ answered' = "pending"

AskFirst ==
    /\ phase = "start"
    /\ AskSettings
    /\ phase' = "asked"
    /\ UNCHANGED <<path, lastPath, timers, applied>>

(* observeValueForKeyPath, with p the path it reads.                       *)
Observe(p) ==
    \/ /\ p \in Usable /\ p # lastPath /\ lastPath = NoPath
       /\ lastPath' = p
       /\ UNCHANGED timers
    \/ /\ p \in Usable /\ p # lastPath /\ lastPath # NoPath
       /\ timers' = timers + 1
       /\ UNCHANGED lastPath
    \/ /\ p \in Unusable \/ p = lastPath
       /\ lastPath' = p
       /\ UNCHANGED timers

(* The system answers the first request: the provider begins to observe,   *)
(* with NSKeyValueObservingOptionInitial, or reports that it cannot start. *)
FirstAnswered ==
    /\ phase = "asked"
    /\ \/ /\ phase' = "observing"
          /\ answered' = "applied"
          /\ applied' = asked
          /\ Observe(path)
       \/ /\ phase' = "failed"
          /\ answered' = "refused"
          /\ UNCHANGED <<lastPath, timers, applied>>
    /\ UNCHANGED <<path, asked>>

(* The system answers a later request; nobody looks at the answer.         *)
Answer ==
    /\ phase = "observing"
    /\ answered = "pending"
    /\ \/ answered' = "applied" /\ applied' = asked
       \/ answered' = "refused" /\ UNCHANGED applied
    /\ UNCHANGED <<path, lastPath, phase, timers, asked>>

(* Mutant: the block asks for nothing while a request is unanswered.       *)
MutTimerFires ==
    /\ timers > 0
    /\ timers' = timers - 1
    /\ \/ answered # "pending" /\ AskSettings
       \/ answered = "pending" /\ UNCHANGED <<asked, answered>>
    /\ UNCHANGED <<path, lastPath, phase, applied>>

(* The block of dispatch_after runs, one second after the change.          *)
TimerFires ==
    /\ timers > 0
    /\ timers' = timers - 1
    /\ AskSettings
    /\ UNCHANGED <<path, lastPath, phase, applied>>

(* The device moves to another network; the observer runs at once.         *)
PathChanges ==
    /\ timers < MaxTimers
    /\ \E p \in Paths \ {path} :
           /\ path' = p
           /\ \/ phase = "observing" /\ Observe(p)
              \/ phase # "observing" /\ UNCHANGED <<lastPath, timers>>
    /\ UNCHANGED <<phase, asked, answered, applied>>

PathNext == AskFirst \/ FirstAnswered \/ Answer \/ TimerFires
        \/ PathChanges

PathSpec == PathInit /\ [][PathNext]_pathVars

(* The main queue runs its blocks and the system answers a request.        *)
PathFairness == WF_pathVars(TimerFires) /\ WF_pathVars(Answer)

PathLiveSpec == PathSpec /\ PathFairness

-----------------------------------------------------------------------------
(* What following the network means.                                       *)

Settled == phase = "observing" /\ timers = 0 /\ answered = "applied"

(* The invariant that carries the proofs: nothing is remembered before the *)
(* provider observes; a request that was granted is in force; and a change *)
(* of the path that waits for no block has been asked for.                 *)
NothingSeen == phase \in {"start", "asked"} => lastPath = NoPath
GrantedInForce ==
    phase = "observing" /\ answered = "applied" => applied = asked
NoChangeLost ==
    phase = "observing" /\ timers = 0 /\ path \in Usable /\ path # lastPath
    => asked = path
PathInv == PathTypeOK /\ NothingSeen /\ GrantedInForce /\ NoChangeLost

(* When nothing is under way and the newest request was granted, the       *)
(* settings in force name the servers of the network the device is on,     *)
(* unless that network is unusable or is the one in _lastPath: the device  *)
(* came back to it (a return starts no request), or was on another one     *)
(* when the tunnel asked for its first settings.                           *)
FollowsPath ==
    Settled /\ path \in Usable /\ path # lastPath => applied = path

(* A usable network that is not the remembered one, and stays, is always   *)
(* asked for in the end: the provider neither loses a change it saw while  *)
(* an earlier one was waiting for its second, nor asks only for the        *)
(* network of that earlier change.                                         *)
ChangeIsAsked ==
    [](phase = "observing" /\ path \in Usable /\ path # lastPath
       => <>(asked = path \/ path = lastPath \/ path \in Unusable))
=============================================================================
