------------------------------- MODULE AppVpn -------------------------------
(***************************************************************************)
(* The app's side of the VPN: the Manager's cached status, the connect     *)
(* button, the routing switch and the URL actions of the only screen that  *)
(* the build shows.  These run on the main queue, one callback at a time;  *)
(* what they ask of NetworkExtension is answered later, in any order.      *)
(* The configuration is what it is made of: the rules of the store and the *)
(* server that the account's service named last.  Until the id of the      *)
(* default group is stored, on a first launch, whoever looks for the group *)
(* also queues a block on a global queue that regenerates the files there, *)
(* beside the main queue.                                                  *)
(***************************************************************************)
EXTENDS Integers

CONSTANTS
    Ops,          \* operations of the user that may be under way
    Servers,      \* what the service may answer with
    NoServer,     \* a group without a proxy
    Jobs,         \* bound: regenerations under way on the global queue
    MaxDownloads  \* bound: downloads of the rule list under way

ASSUME AppAssumption == MaxDownloads \in Nat \ {0}

VARIABLES
    alone,     \* in this behaviour only the user of the screen acts on the
               \* tunnel, and the app goes on running
    calm,      \* and nothing fails, and a stop ends within a second
    sys,       \* the connection's status, as NetworkExtension has it
    running,   \* the rules that the provider of a tunnel that comes up has read
    profile,   \* a VPN profile is installed
    shown,     \* Manager.vpnStatus
    observer,  \* observerAdded
    notice,    \* a status notification is queued
    loads,     \* loads of the profile for the Manager itself
    unseen,    \* history: no notification announced a change, or the launch,
               \* and no one has looked at the status since
    pc,        \* where each operation is
    stopping,  \* operations whose stop waits for the profile
    store,     \* [rules, server] in the database
    files,     \* the same, as the configuration files have it
    pac,       \* isPACMod
    downloads, \* downloads under way
    odd,       \* history: a change of the rules failed, or a download was
               \* overtaken by turning the switch off
    known,     \* the default group's id is stored
    job,       \* regenerations on the global queue, with what they have read
    fresh      \* history: starts that wait for the profile since whose files the
               \* store is the same, and all that a block may yet write

sysVars  == <<alone, calm, sys, running, profile>>
appVars  == <<shown, observer, notice, loads, unseen>>
opVars   == <<pc, stopping>>
ruleVars == <<pac, downloads, odd>>
groupVars == <<known, job>>
vars == <<sysVars, appVars, opVars, ruleVars, groupVars, store, files, fresh>>

Statuses == {"off", "connecting", "on", "disconnecting"}
Rules == {"gfw", "all", "none"}
Contents == [rules : Rules, server : Servers \cup {NoServer}]
Empty == [rules |-> "none", server |-> NoServer]
JobStates == [at : {"idle", "queued", "server", "mid", "rules", "key"}, got : Contents]

TypeOK ==
    /\ alone \in BOOLEAN /\ calm \in BOOLEAN
    /\ sys \in Statuses /\ running \subseteq Rules /\ profile \in BOOLEAN
    /\ shown \in Statuses /\ observer \in BOOLEAN /\ notice \in BOOLEAN
    /\ loads \subseteq {"status", "observer"} /\ unseen \in BOOLEAN
    /\ pc \in [Ops -> {"idle", "config", "timer", "toggle", "create"}]
    /\ stopping \subseteq Ops
    /\ store \in Contents /\ files \in Contents
    /\ pac \in BOOLEAN /\ downloads \in 0 .. MaxDownloads
    /\ odd \in BOOLEAN /\ fresh \subseteq Ops
    /\ known \in BOOLEAN /\ job \in [Jobs -> JobStates]

-----------------------------------------------------------------------------
(* Regenerations on the global queue.                                      *)

Idle == [at |-> "idle", got |-> Empty]

(* getDefaultConfigGroup finds no id: it queues a block, and so does every *)
(* further look for the group (those of the blocks themselves find all of  *)
(* Jobs taken).  That a process looks only once for the group of its       *)
(* screen (CurrentGroupManager) is left out.                               *)
Waiting(jobs) ==
    [j \in Jobs |-> IF ~known /\ jobs[j] = Idle THEN [Idle EXCEPT !.at = "queued"]
                                               ELSE jobs[j]]

(* A block reads the server, and the rules once it has written the server: *)
(* from the version of the store it opened first, or from a newer one.     *)
Reads(b, seen) ==
    {b} \cup {[at |-> "server", got |-> c] : c \in {c \in seen : b.at = "queued"}}
        \cup {[at |-> "rules", got |-> c] : c \in {c \in seen : b.at = "mid"}}

(* What the blocks may be after the store was seen in these versions.      *)
JobsRead(jobs, seen) ==
    {f \in [Jobs -> UNION {Reads(jobs[j], seen) : j \in Jobs}] :
        \A j \in Jobs : f[j] \in Reads(jobs[j], seen)}

(* A block may yet write what the store does not hold any more.            *)
Stale == \E j \in Jobs :
    \/ job[j].at = "server" /\ job[j].got # store
    \/ job[j].at = "rules" /\ job[j].got.rules # store.rules

JobReads(j) ==
    /\ job[j].at \in {"queued", "mid"}
    /\ \E b \in Reads(job[j], {store}) \ {job[j]} : job' = [job EXCEPT ![j] = b]
    /\ UNCHANGED <<sysVars, appVars, opVars, ruleVars, known, store, files,
                   fresh>>

JobWrites(j) ==
    /\ \/ /\ job[j].at = "server"
          /\ \/ job' = [job EXCEPT ![j].at = "rules"]
             \/ job' = [job EXCEPT ![j] = [Idle EXCEPT !.at = "mid"]]
          /\ files' = [files EXCEPT !.server = job[j].got.server]
       \/ /\ job[j].at = "rules" /\ job' = [job EXCEPT ![j] = [Idle EXCEPT !.at = "key"]]
          /\ files' = [files EXCEPT !.rules = job[j].got.rules]
    /\ UNCHANGED <<sysVars, appVars, opVars, ruleVars, known, store, fresh>>

(* A failure is printed.                                                   *)
JobFails(j) ==
    /\ ~calm /\ job[j].at \in {"server", "rules"}
    /\ job' = [job EXCEPT ![j] = [Idle EXCEPT !.at = "key"]]
    /\ UNCHANGED <<sysVars, appVars, opVars, ruleVars, known, store, files,
                   fresh>>

(* Whether it failed or not, the id is stored.                             *)
JobEnds(j) ==
    /\ job[j].at = "key" /\ job' = [job EXCEPT ![j] = Idle] /\ known' = TRUE
    /\ UNCHANGED <<sysVars, appVars, opVars, ruleVars, store, files, fresh>>

(* The first launch of all, or a later one, behind viewDidLoad; one whose  *)
(* rules could not be set is a Launch from here.                           *)
Init ==
    /\ alone \in BOOLEAN /\ calm \in BOOLEAN /\ (calm => alone)
    /\ sys = "off" /\ running = {} /\ profile \in BOOLEAN
    /\ shown = "off" /\ observer = FALSE /\ notice = FALSE
    /\ loads = {"status", "observer"} /\ unseen = TRUE
    /\ pc = [o \in Ops |-> "idle"] /\ stopping = {}
    /\ store \in {c \in Contents : c.rules = "all"}
    /\ \/ known = TRUE /\ files = store /\ job = [j \in Jobs |-> Idle]
       \/ /\ known = FALSE /\ files = Empty /\ profile = FALSE
          /\ store.server = NoServer
          /\ job \in JobsRead([j \in Jobs |-> [Idle EXCEPT !.at = "queued"]],
                              {Empty, store})
    /\ pac = FALSE /\ downloads = 0 /\ odd = FALSE /\ fresh = {}

Goto(o, where) == pc' = [pc EXCEPT ![o] = where]

-----------------------------------------------------------------------------
(* NetworkExtension and the provider.                                      *)

(* The status changes; the observer, once added, will hear of it.          *)
Becomes(status) ==
    /\ sys' = status /\ running' = IF status = "on" THEN running ELSE {}
    /\ notice' = (notice \/ observer) /\ unseen' = (unseen \/ ~observer)

ProviderReads ==
    /\ sys = "connecting" /\ running = {}
    /\ running' = {files.rules}
    /\ UNCHANGED <<alone, calm, sys, profile, appVars, opVars, ruleVars,
                   groupVars, store, files, fresh>>

(* The provider started, or ended; a start fails and a session is ended    *)
(* by others than the app; and the widget's request connects on demand.    *)
StatusChanges ==
    /\ \/ sys = "connecting" /\ running # {} /\ Becomes("on")
       \/ ~alone /\ sys \in {"connecting", "on"} /\ Becomes("disconnecting")
       \/ sys = "disconnecting" /\ Becomes("off")
       \/ ~alone /\ profile /\ sys = "off" /\ Becomes("connecting")
    /\ UNCHANGED <<alone, calm, profile, shown, observer, loads, opVars,
                   ruleVars, groupVars, store, files, fresh>>

-----------------------------------------------------------------------------
(* The Manager's status.                                                   *)

(* Mutant: a tunnel that disconnects is taken for one that is off.         *)
MutStatusOf(status) == IF status = "disconnecting" THEN "off" ELSE status

(* updateVPNStatus: the system's status, by the app's names.               *)
StatusOf(status) == status

UpdateVPNStatus == shown' = StatusOf(sys) /\ unseen' = FALSE

(* Mutant: a notification is ignored while a stop is under way.            *)
MutNotice ==
    /\ notice /\ notice' = FALSE
    /\ IF stopping = {} THEN UpdateVPNStatus ELSE UNCHANGED <<shown, unseen>>
    /\ UNCHANGED <<sysVars, observer, loads, opVars, ruleVars, groupVars, store,
                   files, fresh>>

(* The observer's block reads the status as it is when the block runs.     *)
Notice ==
    /\ notice /\ notice' = FALSE
    /\ UpdateVPNStatus
    /\ UNCHANGED <<sysVars, observer, loads, opVars, ruleVars, groupVars, store,
                   files, fresh>>

(* init's first load.                                                      *)
StatusLoaded ==
    /\ "status" \in loads /\ loads' = loads \ {"status"}
    /\ \/ profile /\ UpdateVPNStatus
       \/ (profile => ~calm) /\ UNCHANGED <<shown, unseen>>
    /\ UNCHANGED <<sysVars, observer, notice, opVars, ruleVars, groupVars,
                   store, files, fresh>>

(* addVPNStatusObserver's load.                                            *)
ObserverLoaded ==
    /\ "observer" \in loads /\ loads' = loads \ {"observer"}
    /\ \/ profile /\ observer' = TRUE
       \/ (profile => ~calm) /\ UNCHANGED observer
    /\ UNCHANGED <<sysVars, shown, notice, unseen, opVars, ruleVars, groupVars,
                   store, files, fresh>>

AddVPNStatusObserver == loads' = IF observer THEN loads ELSE loads \cup {"observer"}

-----------------------------------------------------------------------------
(* Configuration files.                                                    *)

(* regenerateConfigFiles: the rules' file is the last of the four that are *)
(* written, and a failure leaves those behind it as they were.  One on the *)
(* main queue is a single step: of a block that writes in between, it is   *)
(* before the server and behind the rules, and a block that writes both    *)
(* then leaves what it would if its second write failed.                   *)
Regenerated == files' = store'

RegenerateFails ==
    ~calm /\ files' \in {files, [files EXCEPT !.server = store'.server]}

(* setDefaultConfigGroup of the only group: a failure is printed.          *)
SetDefaultConfigGroup == (Regenerated \/ RegenerateFails) /\ known' = TRUE

(* The app goes to the background.                                         *)
Background ==
    /\ UNCHANGED <<sysVars, appVars, opVars, ruleVars, known, store, fresh>>
    /\ job' = Waiting(job)
    /\ Regenerated \/ RegenerateFails

(* The start of an operation has its files from a store that blocks under  *)
(* way, if any, have read as it is.                                        *)
Fresh(o) == fresh' = IF Stale' THEN fresh ELSE fresh \cup {o}

(* Who has not lost them to a change of the store.                         *)
StillFresh == fresh' = IF store' = store /\ ~Stale' THEN fresh ELSE {}

-----------------------------------------------------------------------------
(* Starting and stopping.                                                  *)

(* Mutant: a start goes on with the files that could be written.           *)
MutStartVPN(o) ==
    /\ UNCHANGED <<known, store>> /\ job' = Waiting(job)
    /\ Regenerated \/ RegenerateFails
    /\ Goto(o, "create") /\ Fresh(o)

(* startVPN up to its load: no start without files.                        *)
StartVPN(o) ==
    /\ UNCHANGED <<known, store>> /\ job' = Waiting(job)
    /\ \/ Regenerated /\ Goto(o, "create") /\ Fresh(o)
       \/ RegenerateFails /\ Goto(o, "idle") /\ UNCHANGED fresh

(* switchVPN's block looks at the status again, and starts, stops, or      *)
(* leaves a tunnel that changes alone.                                     *)
Toggle(o) ==
    /\ pc[o] = "toggle"
    /\ \/ profile /\ UpdateVPNStatus
       \/ (profile => ~calm) /\ UNCHANGED <<shown, unseen>>
    /\ \/ /\ shown' = "off" /\ StartVPN(o)
          /\ UNCHANGED stopping
       \/ /\ shown' = "on" /\ stopping' = stopping \cup {o} /\ Goto(o, "idle")
          /\ UNCHANGED <<groupVars, store, files, fresh>>
       \/ /\ shown' \in {"connecting", "disconnecting"} /\ Goto(o, "idle")
          /\ UNCHANGED <<stopping, groupVars, store, files, fresh>>
    /\ UNCHANGED <<sysVars, observer, notice, loads, ruleVars>>

(* Mutant: a profile that had to be created is not started.                *)
MutCreated(o) ==
    /\ pc[o] = "create" /\ Goto(o, "idle")
    /\ profile' = TRUE /\ AddVPNStatusObserver
    /\ IF sys = "off" /\ profile THEN Becomes("connecting")
                                 ELSE UNCHANGED <<sys, running, notice, unseen>>
    /\ fresh' = fresh \ {o}
    /\ UNCHANGED <<alone, calm, shown, observer, stopping, ruleVars, groupVars,
                   store, files>>

(* The profile was loaded, or created, and saved: only a tunnel that is    *)
(* off is started, and any other counts as a success.                      *)
Created(o) ==
    /\ pc[o] = "create" /\ Goto(o, "idle")
    /\ profile' = TRUE /\ AddVPNStatusObserver
    /\ IF sys = "off" THEN Becomes("connecting")
                      ELSE UNCHANGED <<sys, running, notice, unseen>>
    /\ fresh' = fresh \ {o}
    /\ UNCHANGED <<alone, calm, shown, observer, stopping, ruleVars, groupVars,
                   store, files>>

(* It was not, or it was and the system refuses the start.                 *)
CreateFails(o) ==
    /\ ~calm /\ pc[o] = "create" /\ Goto(o, "idle")
    /\ profile' \in {profile, TRUE}
    /\ fresh' = fresh \ {o}
    /\ UNCHANGED <<alone, calm, sys, running, appVars, stopping, ruleVars,
                   groupVars, store, files>>

(* stopVPN's block.                                                        *)
StopLoaded(o) ==
    /\ o \in stopping /\ stopping' = stopping \ {o}
    /\ IF profile /\ sys \in {"connecting", "on"}
       THEN \/ Becomes("disconnecting")
            \/ ~calm /\ UNCHANGED <<sys, running, notice, unseen>>
       ELSE UNCHANGED <<sys, running, notice, unseen>>
    /\ UNCHANGED <<alone, calm, profile, shown, observer, loads, pc, ruleVars,
                   groupVars, store, files, fresh>>

-----------------------------------------------------------------------------
(* What the user does.                                                     *)

(* connect: the button, which is disabled while the status changes.        *)
Connect(o) ==
    /\ pc[o] = "idle"
    /\ \/ shown = "off" /\ Goto(o, "config") /\ UNCHANGED <<groupVars, files>>
       \/ /\ shown = "on" /\ Goto(o, "toggle")
          /\ UNCHANGED store /\ SetDefaultConfigGroup /\ job' = Waiting(job)
    /\ UNCHANGED <<sysVars, appVars, stopping, ruleVars, store, fresh>>

(* The service's answer: the server is stored, or this fails, which stops  *)
(* nothing, and the tunnel is toggled.                                     *)
ConfigAnswer(o, server) ==
    /\ pc[o] = "config"
    /\ \/ store' = [store EXCEPT !.server = server]
       \/ ~calm /\ UNCHANGED store
    /\ job' \in JobsRead(Waiting(job), {store, store'}) /\ StillFresh
    /\ SetDefaultConfigGroup /\ Goto(o, "toggle")
    /\ UNCHANGED <<sysVars, appVars, stopping, ruleVars>>

ConfigFails(o) ==
    /\ ~calm /\ pc[o] = "config" /\ Goto(o, "idle")
    /\ UNCHANGED <<sysVars, appVars, stopping, ruleVars, groupVars, store,
                   files, fresh>>

(* Mutant: a restart forgets to stop the tunnel.                           *)
MutRestartVPN(o) ==
    IF shown = "on" THEN pc[o] = "idle" /\ Goto(o, "timer") /\ UNCHANGED stopping
                    ELSE UNCHANGED opVars

(* restartVPN: a stop, and a toggle one second later.                      *)
RestartVPN(o) ==
    IF shown = "on"
    THEN pc[o] = "idle" /\ Goto(o, "timer") /\ stopping' = stopping \cup {o}
    ELSE UNCHANGED opVars

Timer(o) ==
    /\ pc[o] = "timer" /\ (calm => stopping = {} /\ sys # "disconnecting")
    /\ UNCHANGED <<sysVars, appVars, stopping, ruleVars, store, fresh>>
    /\ SetDefaultConfigGroup /\ job' = Waiting(job) /\ Goto(o, "toggle")

(* How setAll and setGFW change the rules: the rule set's are replaced, it *)
(* is taken from the group and added to it again, in three transactions.   *)
Passes(rules) ==
    <<store.rules, IF store.rules = "none" THEN "none" ELSE rules, "none", rules>>

(* One that fails is printed and ends it; blocks read what is in between.  *)
ReplaceRules(rules, jobs, history) ==
    \E n \in 1 .. 4 :
        /\ n = 4 \/ ~calm
        /\ store' = [store EXCEPT !.rules = Passes(rules)[n]]
        /\ odd' = (history \/ n # 4)
        /\ job' \in JobsRead(Waiting(jobs),
                     {[store EXCEPT !.rules = Passes(rules)[i]] : i \in 1 .. n})

(* Mutant: turning the switch off leaves the rules to the next launch.     *)
MutTurnOff(o) ==
    /\ pac /\ pac' = FALSE
    /\ RestartVPN(o)
    /\ odd' = (downloads > 0)
    /\ job' = Waiting(job)
    /\ UNCHANGED <<sysVars, appVars, downloads, known, store, files, fresh>>

(* The routing switch is turned off: the rules follow at once.             *)
TurnOff(o) ==
    /\ pac /\ pac' = FALSE
    /\ RestartVPN(o)
    /\ ReplaceRules("all", job, downloads > 0)
    /\ StillFresh
    /\ UNCHANGED <<sysVars, appVars, downloads, known, files>>

(* It is turned on: the rules follow when their list has been downloaded.  *)
TurnOn(o) ==
    /\ ~pac /\ pac' = TRUE /\ downloads < MaxDownloads
    /\ RestartVPN(o)
    /\ downloads' = downloads + 1
    /\ odd' = (odd /\ downloads > 0)
    /\ job' = IF shown = "on" THEN Waiting(job) ELSE job
    /\ UNCHANGED <<sysVars, appVars, known, store, files, fresh>>

(* setGFW's completion.                                                    *)
Download ==
    /\ downloads > 0 /\ downloads' = downloads - 1
    /\ \/ ReplaceRules("gfw", job, odd) /\ StillFresh
       \/ ~calm /\ odd' = TRUE /\ UNCHANGED <<job, store, fresh>>
    /\ UNCHANGED <<sysVars, appVars, opVars, pac, known, files>>

(* The URL actions connect and open, disconnect and close, and toggle.     *)
Perform(o) ==
    /\ ~alone /\ pc[o] = "idle"
    /\ \/ StartVPN(o) /\ UNCHANGED stopping
       \/ stopping' = stopping \cup {o} /\ UNCHANGED <<pc, groupVars, store, files, fresh>>
       \/ Goto(o, "toggle") /\ UNCHANGED <<stopping, groupVars, store, files, fresh>>
    /\ UNCHANGED <<sysVars, appVars, ruleVars>>

(* The app ends and is launched again: SimpleVC sets the rules anew.       *)
Launch ==
    /\ ~alone
    /\ shown' = "off" /\ observer' = FALSE /\ notice' = FALSE
    /\ loads' = {"status", "observer"} /\ unseen' = TRUE
    /\ pc' = [o \in Ops |-> "idle"] /\ stopping' = {} /\ fresh' = {}
    /\ \/ pac /\ downloads' = 1 /\ odd' = FALSE /\ UNCHANGED store
          /\ job' = [j \in Jobs |-> Idle]
       \/ ~pac /\ downloads' = 0 /\ ReplaceRules("all", [j \in Jobs |-> Idle], FALSE)
    /\ UNCHANGED <<sysVars, pac, known, files>>

User(o) == Connect(o) \/ TurnOff(o) \/ TurnOn(o) \/ Perform(o)

Answers(o) ==
    \/ \E server \in Servers : ConfigAnswer(o, server)
    \/ ConfigFails(o) \/ Timer(o) \/ Toggle(o) \/ Created(o) \/ CreateFails(o)

Next ==
    \/ ProviderReads \/ StatusChanges \/ Notice \/ StatusLoaded \/ ObserverLoaded
    \/ Download \/ Background \/ Launch
    \/ \E j \in Jobs : JobReads(j) \/ JobWrites(j) \/ JobFails(j) \/ JobEnds(j)
    \/ \E o \in Ops : User(o) \/ Answers(o) \/ StopLoaded(o)

Spec == Init /\ [][Next]_vars

(* What was asked of the system and the services is answered, a tunnel that*)
(* connects or disconnects ends doing so, and a notification is delivered. *)
(* The user need not act, and nothing rests on the progress of loads,      *)
(* downloads and the global queue.                                         *)
FairSpec ==
    /\ Spec /\ WF_vars(ProviderReads) /\ WF_vars(Notice)
    /\ WF_vars(sys \in {"connecting", "disconnecting"} /\ StatusChanges)
    /\ \A o \in Ops : WF_vars(Answers(o)) /\ WF_vars(StopLoaded(o))

-----------------------------------------------------------------------------

(* With nothing being downloaded the stored rules are those of the switch, *)
(* unless a download or a change of the rules failed, or a download was    *)
(* overtaken by turning the switch off.                                    *)
RulesFollowSwitch ==
    downloads = 0 /\ ~odd => store.rules = IF pac THEN "gfw" ELSE "all"

(* A start that waits for the profile has all its files written: neither a *)
(* failed regeneration nor another operation left a mix of two contents,   *)
(* nor one on the global queue, unless it had read what the store no more  *)
(* holds (Stale): such a one may still replace a file of any later start.  *)
StartsWhole == fresh # {} => files = store

(* What the app shows is the status of the system, unless a notification is*)
(* still to tell it of another, or none will.                              *)
StatusTold == shown = sys \/ notice \/ unseen

(* The app shows what the system came to rest in.                          *)
StatusSettles ==
    \A status \in {"off", "on"} :
        <>[](sys = status) => <>[](shown = status \/ unseen)

(* With nothing failing, a tap on the button that asked for a server       *)
(* brings a tunnel up.                                                     *)
ConnectConnects == \A o \in Ops : (calm /\ pc[o] = "config") ~> (sys = "on")

(* With nothing failing, a restart for new rules ends in a tunnel that     *)
(* follows them, unless they change again or a block has read older ones.  *)
RestartApplies ==
    \A o \in Ops : (calm /\ pc[o] = "timer" /\ store.rules = "all")
        ~> (sys = "on" /\ running = {"all"}) \/ store.rules # "all" \/ Stale
=============================================================================
