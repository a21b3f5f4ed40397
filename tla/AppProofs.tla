----------------------------- MODULE AppProofs -----------------------------
(***************************************************************************)
(* Proofs about the app's side: AppVpn, for any number of operations,      *)
(* servers, downloads and blocks of the global queue, and Widget, for every*)
(* set of ports.                                                           *)
(***************************************************************************)
EXTENDS AppVpn, Widget, TLAPS

(* RulesFollowSwitch rests on what a download still owes: while one is     *)
(* under way and nothing went wrong, the switch is on.                     *)
DownloadsOwed == downloads # 0 /\ ~odd => pac

RulesInv == DownloadsOwed /\ RulesFollowSwitch

(* StartsWhole rests on what the blocks may yet write: the store's content.*)
FilesInv == fresh # {} => files = store /\ ~Stale

AppInv == TypeOK /\ RulesInv /\ FilesInv /\ StatusTold

-----------------------------------------------------------------------------
(* Types.                                                                  *)

(* A content stays one when its rules or its server are replaced.          *)
LEMMA ContentParts ==
    ASSUME NEW c \in Contents
    PROVE  /\ c.rules \in Rules /\ c.server \in Servers \cup {NoServer}
           /\ \A r \in Rules :
                 [c EXCEPT !.rules = r] \in Contents
                 /\ [c EXCEPT !.rules = r].rules = r
                 /\ [c EXCEPT !.rules = r].server = c.server
           /\ \A s \in Servers \cup {NoServer} :
                 [c EXCEPT !.server = s] \in Contents
                 /\ [c EXCEPT !.server = s].server = s
                 /\ [c EXCEPT !.server = s].rules = c.rules
  BY DEF Contents

(* What a block may be besides one that holds a content of the store.      *)
LEMMA BlockStates ==
    /\ Empty \in Contents /\ Empty.rules \in Rules
    /\ Idle \in JobStates
    /\ \A where \in {"queued", "mid", "key"} :
          [Idle EXCEPT !.at = where] \in JobStates
          /\ [Idle EXCEPT !.at = where].at = where
<1>1. Empty \in Contents /\ Empty.rules \in Rules
  BY DEF Empty, Contents, Rules
<1> QED  BY <1>1 DEF Idle, JobStates

LEMMA ReadsType ==
    ASSUME NEW b \in JobStates, NEW seen \in SUBSET Contents
    PROVE  Reads(b, seen) \subseteq JobStates
  BY DEF Reads, JobStates

LEMMA JobsReadType ==
    ASSUME NEW jobs \in [Jobs -> JobStates], NEW seen \in SUBSET Contents,
           NEW f \in JobsRead(jobs, seen)
    PROVE  f \in [Jobs -> JobStates]
<1>1. \A j \in Jobs : f[j] \in JobStates
  BY ReadsType DEF JobsRead
<1>2. \E S : f \in [Jobs -> S]
  BY DEF JobsRead
<1> QED  BY <1>1, <1>2

LEMMA WaitingType ==
    ASSUME NEW jobs \in [Jobs -> JobStates]
    PROVE  Waiting(jobs) \in [Jobs -> JobStates]
  BY BlockStates DEF Waiting

(* The rules that the transactions leave, one after the other.             *)
LEMMA PassRules ==
    ASSUME TypeOK, NEW rules \in {"gfw", "all"}, NEW n \in 1 .. 4
    PROVE  /\ [store EXCEPT !.rules = Passes(rules)[n]] \in Contents
           /\ n = 4 => [store EXCEPT !.rules = Passes(rules)[n]].rules = rules
<1>1. store \in Contents /\ store.rules \in Rules  BY ContentParts DEF TypeOK
<1>2. Passes(rules)[n] \in Rules /\ (n = 4 => Passes(rules)[n] = rules)
  <2>1. n = 1 \/ n = 2 \/ n = 3 \/ n = 4  OBVIOUS
  <2> QED  BY <1>1, <2>1 DEF Passes, Rules
<1> QED  BY <1>1, <1>2, ContentParts

LEMMA ReplaceRulesStep ==
    ASSUME TypeOK, NEW rules \in {"gfw", "all"}, NEW jobs \in [Jobs -> JobStates],
           NEW history \in BOOLEAN,
           ReplaceRules(rules, jobs, history)
    PROVE  /\ store' \in Contents /\ job' \in [Jobs -> JobStates]
           /\ odd' \in BOOLEAN
           /\ ~odd' => ~history /\ store'.rules = rules
<1>1. PICK n \in 1 .. 4 :
        /\ store' = [store EXCEPT !.rules = Passes(rules)[n]]
        /\ odd' = (history \/ n # 4)
        /\ job' \in JobsRead(Waiting(jobs),
                     {[store EXCEPT !.rules = Passes(rules)[i]] : i \in 1 .. n})
  BY DEF ReplaceRules
<1>2. store' \in Contents /\ (n = 4 => store'.rules = rules)
  BY <1>1, PassRules
<1>3. {[store EXCEPT !.rules = Passes(rules)[i]] : i \in 1 .. n} \in SUBSET Contents
  BY PassRules
<1>4. job' \in [Jobs -> JobStates]
  BY <1>1, <1>3, WaitingType, JobsReadType
<1>5. odd' \in BOOLEAN /\ (~odd' => ~history /\ n = 4)
  BY <1>1
<1> QED  BY <1>2, <1>4, <1>5

(* Whatever becomes of the files, they hold one of the contents.           *)
LEMMA FilesType ==
    ASSUME files \in Contents, store' \in Contents, Regenerated \/ RegenerateFails
    PROVE  files' \in Contents
<1>1. store'.server \in Servers \cup {NoServer}  BY ContentParts
<1>2. [files EXCEPT !.server = store'.server] \in Contents  BY <1>1, ContentParts
<1> QED  BY <1>2 DEF Regenerated, RegenerateFails

LEMMA GotoType ==
    ASSUME TypeOK, NEW o \in Ops,
           NEW where \in {"idle", "config", "timer", "toggle", "create"}, Goto(o, where)
    PROVE  pc' \in [Ops -> {"idle", "config", "timer", "toggle", "create"}]
  BY DEF TypeOK, Goto

(* A start up to its load.                                                 *)
LEMMA StartType ==
    ASSUME TypeOK, NEW o \in Ops, StartVPN(o)
    PROVE  /\ pc' \in [Ops -> {"idle", "config", "timer", "toggle", "create"}]
           /\ UNCHANGED <<known, store>> /\ job' \in [Jobs -> JobStates]
           /\ files' \in Contents /\ fresh' \subseteq Ops
<1>1. pc' \in [Ops -> {"idle", "config", "timer", "toggle", "create"}]
  BY GotoType DEF StartVPN
<1>2. UNCHANGED <<known, store>>  BY DEF StartVPN
<1>3. job' \in [Jobs -> JobStates]  BY WaitingType DEF StartVPN, TypeOK
<1>4. files' \in Contents  BY <1>2, FilesType DEF StartVPN, TypeOK
<1>5. fresh' \subseteq Ops  BY DEF StartVPN, Fresh, TypeOK
<1> QED  BY <1>1, <1>2, <1>3, <1>4, <1>5

LEMMA InitApp == Init => AppInv
<1> SUFFICES ASSUME Init PROVE AppInv  OBVIOUS
<1> USE AppAssumption DEF Init
<1>1. store \in Contents /\ store.rules = "all"  OBVIOUS
<1>2. TypeOK
  <2>1. downloads \in 0 .. MaxDownloads  OBVIOUS
  <2>2. pc \in [Ops -> {"idle", "config", "timer", "toggle", "create"}]  OBVIOUS
  <2>3. stopping \subseteq Ops /\ fresh \subseteq Ops /\ running \subseteq Rules  OBVIOUS
  <2>4. known \in BOOLEAN /\ files \in Contents /\ profile \in BOOLEAN
    BY <1>1, BlockStates
  <2>5. job \in [Jobs -> JobStates]
    <3>1. CASE known
      BY <3>1, BlockStates
    <3>2. CASE ~known
      <4>1. [j \in Jobs |-> [Idle EXCEPT !.at = "queued"]] \in [Jobs -> JobStates]
        BY BlockStates
      <4>2. {Empty, store} \in SUBSET Contents
        BY <1>1, BlockStates
      <4> QED  BY <3>2, <4>1, <4>2, JobsReadType
    <3> QED  BY <3>1, <3>2
  <2> QED
    BY ONLY Init, <1>1, <2>1, <2>2, <2>3, <2>4, <2>5 DEF Init, TypeOK, Statuses
<1>3. RulesInv  BY <1>1 DEF RulesInv, DownloadsOwed, RulesFollowSwitch
<1>4. FilesInv /\ StatusTold  BY DEF FilesInv, StatusTold
<1> QED  BY <1>2, <1>3, <1>4 DEF AppInv

LEMMA UserType == ASSUME TypeOK, NEW o \in Ops, User(o) PROVE TypeOK'
<1> USE DEF sysVars, appVars, opVars, ruleVars, groupVars
<1>0. store \in Contents /\ files \in Contents /\ job \in [Jobs -> JobStates]
      /\ Waiting(job) \in [Jobs -> JobStates]
  BY WaitingType DEF TypeOK
<1>1. CASE Connect(o)
  <2>1. pc' \in [Ops -> {"idle", "config", "timer", "toggle", "create"}]
    BY <1>1, GotoType DEF Connect
  <2>2. files' \in Contents
    BY <1>0, <1>1, FilesType DEF Connect, SetDefaultConfigGroup
  <2>3. known' \in BOOLEAN /\ job' \in [Jobs -> JobStates]
    BY <1>0, <1>1 DEF Connect, SetDefaultConfigGroup, TypeOK
  <2> QED  BY <1>1, <2>1, <2>2, <2>3 DEF Connect, TypeOK
<1>2. CASE TurnOff(o)
  <2>1. pc' \in [Ops -> {"idle", "config", "timer", "toggle", "create"}]
    BY <1>2, GotoType DEF TurnOff, RestartVPN, TypeOK
  <2>2. stopping' \subseteq Ops
    BY <1>2 DEF TurnOff, RestartVPN, TypeOK
  <2>3. (downloads > 0) \in BOOLEAN
    OBVIOUS
  <2>4. /\ store' \in Contents /\ job' \in [Jobs -> JobStates]
        /\ odd' \in BOOLEAN
    BY <1>0, <1>2, <2>3, ReplaceRulesStep DEF TurnOff
  <2>5. fresh' \subseteq Ops
    BY <1>2 DEF TurnOff, StillFresh, TypeOK
  <2> QED  BY <1>2, <2>1, <2>2, <2>4, <2>5 DEF TurnOff, TypeOK
<1>3. CASE TurnOn(o)
  <2>1. pc' \in [Ops -> {"idle", "config", "timer", "toggle", "create"}]
    BY <1>3, GotoType DEF TurnOn, RestartVPN, TypeOK
  <2>2. stopping' \subseteq Ops
    BY <1>3 DEF TurnOn, RestartVPN, TypeOK
  <2>3. downloads' \in 0 .. MaxDownloads
    BY <1>3, AppAssumption DEF TurnOn, TypeOK
  <2>4. odd' \in BOOLEAN /\ job' \in [Jobs -> JobStates]
    BY <1>0, <1>3 DEF TurnOn, TypeOK
  <2> QED  BY <1>3, <2>1, <2>2, <2>3, <2>4 DEF TurnOn, TypeOK
<1>4. CASE Perform(o)
  <2>1. CASE StartVPN(o) /\ UNCHANGED stopping
    BY <1>4, <2>1, StartType DEF Perform, TypeOK
  <2>2. CASE \/ stopping' = stopping \cup {o} /\ UNCHANGED <<pc, groupVars, store, files, fresh>>
             \/ Goto(o, "toggle") /\ UNCHANGED <<stopping, groupVars, store, files, fresh>>
    <3>1. pc' \in [Ops -> {"idle", "config", "timer", "toggle", "create"}]
      BY <2>2, GotoType DEF TypeOK
    <3>2. stopping' \subseteq Ops
      BY <2>2 DEF TypeOK
    <3> QED  BY <1>4, <2>2, <3>1, <3>2 DEF Perform, TypeOK
  <2> QED  BY <1>4, <2>1, <2>2 DEF Perform
<1> QED  BY <1>1, <1>2, <1>3, <1>4 DEF User

LEMMA AnswerType == ASSUME TypeOK, NEW o \in Ops, Answers(o) PROVE TypeOK'
<1> USE DEF sysVars, appVars, opVars, ruleVars, groupVars
<1>0. store \in Contents /\ files \in Contents /\ job \in [Jobs -> JobStates]
      /\ Waiting(job) \in [Jobs -> JobStates]
  BY WaitingType DEF TypeOK
<1>1. ASSUME NEW server \in Servers, ConfigAnswer(o, server)  PROVE TypeOK'
  <2>1. pc' \in [Ops -> {"idle", "config", "timer", "toggle", "create"}]
    BY <1>1, GotoType DEF ConfigAnswer
  <2>2. store' \in Contents
    BY <1>0, <1>1, ContentParts DEF ConfigAnswer
  <2>3. files' \in Contents
    BY <1>0, <1>1, <2>2, FilesType DEF ConfigAnswer, SetDefaultConfigGroup
  <2>4. fresh' \subseteq Ops /\ known' \in BOOLEAN
    BY <1>1 DEF ConfigAnswer, StillFresh, SetDefaultConfigGroup, TypeOK
  <2>5. job' \in [Jobs -> JobStates]
    <3>1. {store, store'} \in SUBSET Contents  BY <1>0, <2>2
    <3> QED  BY <1>0, <1>1, <3>1, JobsReadType DEF ConfigAnswer
  <2> QED  BY <1>1, <2>1, <2>2, <2>3, <2>4, <2>5 DEF ConfigAnswer, TypeOK
<1>2. CASE ConfigFails(o)
  BY <1>2, GotoType DEF ConfigFails, TypeOK
<1>3. CASE Timer(o)
  <2>1. pc' \in [Ops -> {"idle", "config", "timer", "toggle", "create"}]
    BY <1>3, GotoType DEF Timer
  <2>2. files' \in Contents
    BY <1>0, <1>3, FilesType DEF Timer, SetDefaultConfigGroup
  <2>3. known' \in BOOLEAN /\ job' \in [Jobs -> JobStates]
    BY <1>0, <1>3 DEF Timer, SetDefaultConfigGroup
  <2> QED  BY <1>3, <2>1, <2>2, <2>3 DEF Timer, TypeOK
<1>4. CASE Toggle(o)
  <2>1. shown' \in Statuses /\ unseen' \in BOOLEAN
    BY <1>4 DEF Toggle, UpdateVPNStatus, StatusOf, TypeOK
  <2>2. CASE StartVPN(o) /\ UNCHANGED stopping
    BY <1>4, <2>1, <2>2, StartType DEF Toggle, TypeOK
  <2>3. CASE /\ stopping' \in {stopping \cup {o}, stopping} /\ Goto(o, "idle")
             /\ UNCHANGED <<groupVars, store, files, fresh>>
    <3>1. pc' \in [Ops -> {"idle", "config", "timer", "toggle", "create"}]
      BY <2>3, GotoType
    <3>2. stopping' \subseteq Ops
      BY <2>3 DEF TypeOK
    <3> QED  BY <1>4, <2>1, <2>3, <3>1, <3>2 DEF Toggle, TypeOK
  <2> QED  BY <1>4, <2>2, <2>3 DEF Toggle
<1>5. CASE Created(o)
  <2>1. pc' \in [Ops -> {"idle", "config", "timer", "toggle", "create"}]
    BY <1>5, GotoType DEF Created
  <2>2. /\ sys' \in Statuses /\ running' \subseteq Rules
        /\ notice' \in BOOLEAN /\ unseen' \in BOOLEAN
    BY <1>5 DEF Created, Becomes, TypeOK, Statuses
  <2>3. loads' \subseteq {"status", "observer"} /\ fresh' \subseteq Ops
    BY <1>5 DEF Created, AddVPNStatusObserver, TypeOK
  <2> QED  BY <1>5, <2>1, <2>2, <2>3 DEF Created, TypeOK
<1>6. CASE CreateFails(o)
  <2>1. pc' \in [Ops -> {"idle", "config", "timer", "toggle", "create"}]
    BY <1>6, GotoType DEF CreateFails
  <2>2. profile' \in BOOLEAN /\ fresh' \subseteq Ops
    BY <1>6 DEF CreateFails, TypeOK
  <2> QED  BY <1>6, <2>1, <2>2 DEF CreateFails, TypeOK
<1> QED  BY <1>1, <1>2, <1>3, <1>4, <1>5, <1>6 DEF Answers

(* The blocks on the global queue.                                         *)
JobSteps(j) == JobReads(j) \/ JobWrites(j) \/ JobFails(j) \/ JobEnds(j)

LEMMA JobType == ASSUME TypeOK, NEW j \in Jobs, JobSteps(j) PROVE TypeOK'
<1> USE DEF sysVars, appVars, opVars, ruleVars, groupVars
<1>0. /\ store \in Contents /\ files \in Contents /\ job \in [Jobs -> JobStates]
      /\ job[j] \in JobStates /\ job[j].got \in Contents
  BY DEF TypeOK, JobStates
<1>1. /\ \A b \in JobStates : [job EXCEPT ![j] = b] \in [Jobs -> JobStates]
      /\ [job EXCEPT ![j].at = "rules"] \in [Jobs -> JobStates]
  BY <1>0 DEF JobStates
<1>2. CASE JobReads(j)
  <2>1. Reads(job[j], {store}) \subseteq JobStates
    BY <1>0, ReadsType
  <2>2. job' \in [Jobs -> JobStates]
    BY <1>1, <1>2, <2>1 DEF JobReads
  <2> QED  BY <1>2, <2>2 DEF JobReads, TypeOK
<1>3. CASE JobWrites(j)
  <2>1. job' \in [Jobs -> JobStates]
    BY <1>1, <1>3, BlockStates DEF JobWrites
  <2>2. /\ [files EXCEPT !.server = job[j].got.server] \in Contents
        /\ [files EXCEPT !.rules = job[j].got.rules] \in Contents
    BY <1>0, ContentParts
  <2>3. files' \in Contents
    BY <1>3, <2>2 DEF JobWrites
  <2> QED  BY <1>3, <2>1, <2>3 DEF JobWrites, TypeOK
<1>4. CASE JobFails(j)
  <2>1. job' \in [Jobs -> JobStates]
    BY <1>1, <1>4, BlockStates DEF JobFails
  <2> QED  BY <1>4, <2>1 DEF JobFails, TypeOK
<1>5. CASE JobEnds(j)
  <2>1. job' \in [Jobs -> JobStates]
    BY <1>1, <1>5, BlockStates DEF JobEnds
  <2> QED  BY <1>5, <2>1 DEF JobEnds, TypeOK
<1> QED  BY <1>2, <1>3, <1>4, <1>5 DEF JobSteps

LEMMA TypeStep == TypeOK /\ [Next]_vars => TypeOK'
<1> SUFFICES ASSUME TypeOK, [Next]_vars PROVE TypeOK'  OBVIOUS
<1> USE DEF sysVars, appVars, opVars, ruleVars, groupVars
<1>0. store \in Contents /\ files \in Contents /\ job \in [Jobs -> JobStates]
      /\ Waiting(job) \in [Jobs -> JobStates]
  BY WaitingType DEF TypeOK
<1>1. CASE ProviderReads
  <2>1. files.rules \in Rules
    BY <1>0, ContentParts
  <2> QED  BY <1>1, <2>1 DEF ProviderReads, TypeOK
<1>2. CASE StatusChanges
  <2>1. /\ sys' \in Statuses /\ running' \subseteq Rules
        /\ notice' \in BOOLEAN /\ unseen' \in BOOLEAN
    BY <1>2 DEF StatusChanges, Becomes, TypeOK, Statuses
  <2> QED  BY <1>2, <2>1 DEF StatusChanges, TypeOK
<1>3. CASE Notice
  BY <1>3 DEF Notice, UpdateVPNStatus, StatusOf, TypeOK
<1>4. CASE StatusLoaded
  BY <1>4 DEF StatusLoaded, UpdateVPNStatus, StatusOf, TypeOK
<1>5. CASE ObserverLoaded
  BY <1>5 DEF ObserverLoaded, TypeOK
<1>6. CASE Download
  <2>1. downloads' \in 0 .. MaxDownloads
    BY <1>6, AppAssumption DEF Download, TypeOK
  <2>2. odd \in BOOLEAN
    BY DEF TypeOK
  <2>3. /\ store' \in Contents /\ job' \in [Jobs -> JobStates]
        /\ odd' \in BOOLEAN
    <3>1. CASE ReplaceRules("gfw", job, odd)
      BY <1>0, <2>2, <3>1, ReplaceRulesStep
    <3> QED  BY <1>0, <1>6, <2>2, <3>1 DEF Download
  <2>4. fresh' \subseteq Ops
    BY <1>6 DEF Download, StillFresh, TypeOK
  <2> QED  BY <1>6, <2>1, <2>3, <2>4 DEF Download, TypeOK
<1>7. CASE Background
  <2>1. files' \in Contents
    BY <1>0, <1>7, FilesType DEF Background
  <2> QED  BY <1>0, <1>7, <2>1 DEF Background, TypeOK
<1>8. CASE Launch
  <2>1. [j \in Jobs |-> Idle] \in [Jobs -> JobStates]
    BY BlockStates
  <2>2. /\ store' \in Contents /\ job' \in [Jobs -> JobStates]
        /\ odd' \in BOOLEAN
    <3>1. CASE ReplaceRules("all", [j \in Jobs |-> Idle], FALSE)
      BY <2>1, <3>1, ReplaceRulesStep
    <3> QED  BY <1>0, <1>8, <2>1, <3>1 DEF Launch
  <2>3. downloads' \in 0 .. MaxDownloads
    <3>1. downloads' = 1 \/ downloads' = 0
      BY <1>8 DEF Launch
    <3> QED  BY <3>1, AppAssumption
  <2>4. pc' \in [Ops -> {"idle", "config", "timer", "toggle", "create"}]
    BY <1>8 DEF Launch
  <2>5. /\ shown' \in Statuses /\ observer' \in BOOLEAN /\ notice' \in BOOLEAN
        /\ loads' \subseteq {"status", "observer"} /\ unseen' \in BOOLEAN
    BY <1>8 DEF Launch, Statuses
  <2>6. UNCHANGED <<sysVars, pac, known, files>> /\ stopping' = {} /\ fresh' = {}
    BY <1>8 DEF Launch
  <2> QED  BY <2>2, <2>3, <2>4, <2>5, <2>6 DEF TypeOK
<1>9. ASSUME NEW o \in Ops, User(o) \/ Answers(o)  PROVE TypeOK'
  BY <1>9, UserType, AnswerType
<1>10. ASSUME NEW o \in Ops, StopLoaded(o)  PROVE TypeOK'
  <2>1. /\ sys' \in Statuses /\ running' \subseteq Rules
        /\ notice' \in BOOLEAN /\ unseen' \in BOOLEAN
    BY <1>10 DEF StopLoaded, Becomes, TypeOK, Statuses
  <2>2. stopping' \subseteq Ops
    BY <1>10 DEF StopLoaded, TypeOK
  <2> QED  BY <1>10, <2>1, <2>2 DEF StopLoaded, TypeOK
<1>11. ASSUME NEW j \in Jobs, JobSteps(j)  PROVE TypeOK'
  BY <1>11, JobType
<1>12. CASE UNCHANGED vars
  BY <1>12 DEF vars, TypeOK
<1> QED
  BY <1>1, <1>2, <1>3, <1>4, <1>5, <1>6, <1>7, <1>8, <1>9, <1>10, <1>11, <1>12
     DEF Next, JobSteps

-----------------------------------------------------------------------------
(* The rules and the switch.                                               *)

(* What the switch, the downloads and their history are not touched by.    *)
LEMMA RulesKept ==
    ASSUME RulesInv, UNCHANGED ruleVars, store'.rules = store.rules
    PROVE  RulesInv'
  BY DEF ruleVars, RulesInv, DownloadsOwed, RulesFollowSwitch

LEMMA ServerKeepsRules ==
    ASSUME TypeOK, NEW server \in Servers
    PROVE  [store EXCEPT !.server = server].rules = store.rules
<1>1. store \in Contents  BY DEF TypeOK
<1> QED  BY <1>1, ContentParts

LEMMA RulesStep == TypeOK /\ RulesInv /\ [Next]_vars => RulesInv'
<1> SUFFICES ASSUME TypeOK, RulesInv, [Next]_vars PROVE RulesInv'  OBVIOUS
<1> USE DEF groupVars
<1>0. job \in [Jobs -> JobStates] /\ odd \in BOOLEAN
  BY DEF TypeOK
<1>1. CASE \/ ProviderReads \/ StatusChanges \/ Notice \/ StatusLoaded \/ ObserverLoaded
           \/ Background \/ UNCHANGED vars
  BY <1>1, RulesKept
     DEF ProviderReads, StatusChanges, Notice, StatusLoaded, ObserverLoaded, Background,
         vars
<1>2. CASE Download
  <2>1. downloads # 0 /\ pac' = pac
    BY <1>2 DEF Download
  <2>2. CASE odd'
    BY <2>2 DEF RulesInv, DownloadsOwed, RulesFollowSwitch
  <2>3. CASE ~odd'
    <3>1. ReplaceRules("gfw", job, odd)
      BY <1>2, <2>3 DEF Download
    <3>2. ~odd /\ store'.rules = "gfw"
      BY <1>0, <2>3, <3>1, ReplaceRulesStep
    <3>3. pac
      BY <2>1, <3>2 DEF RulesInv, DownloadsOwed
    <3> QED  BY <2>1, <3>2, <3>3 DEF RulesInv, DownloadsOwed, RulesFollowSwitch
  <2> QED  BY <2>2, <2>3
<1>3. CASE Launch
  <2>1. CASE pac
    <3>1. pac' /\ downloads' # 0
      BY <1>3, <2>1 DEF Launch
    <3> QED  BY <3>1 DEF RulesInv, DownloadsOwed, RulesFollowSwitch
  <2>2. CASE ~pac
    <3>1. ~pac' /\ downloads' = 0 /\ ReplaceRules("all", [j \in Jobs |-> Idle], FALSE)
      BY <1>3, <2>2 DEF Launch
    <3>2. [j \in Jobs |-> Idle] \in [Jobs -> JobStates]
      BY BlockStates
    <3>3. ~odd' => store'.rules = "all"
      BY <3>1, <3>2, ReplaceRulesStep
    <3> QED  BY <3>1, <3>3 DEF RulesInv, DownloadsOwed, RulesFollowSwitch
  <2> QED  BY <2>1, <2>2
<1>4. ASSUME NEW o \in Ops, User(o)  PROVE RulesInv'
  <2>1. CASE Connect(o)
    <3>1. UNCHANGED <<ruleVars, store>>  BY <2>1 DEF Connect
    <3> QED  BY <3>1, RulesKept
  <2>2. CASE Perform(o)
    <3>1. UNCHANGED <<ruleVars, store>>  BY <2>2 DEF Perform, StartVPN
    <3> QED  BY <3>1, RulesKept
  <2>3. CASE TurnOff(o)
    <3>1. /\ downloads' = downloads /\ ~pac'
          /\ ReplaceRules("all", job, downloads > 0)
      BY <2>3 DEF TurnOff
    <3>2. ~odd' => ~(downloads > 0) /\ store'.rules = "all"
      <4>1. (downloads > 0) \in BOOLEAN  OBVIOUS
      <4> QED  BY <1>0, <3>1, <4>1, ReplaceRulesStep
    <3>3. ~odd' => downloads = 0
      BY <3>2 DEF TypeOK
    <3> QED  BY <3>1, <3>2, <3>3 DEF RulesInv, DownloadsOwed, RulesFollowSwitch
  <2>4. CASE TurnOn(o)
    <3>1. pac' /\ downloads' # 0
      BY <2>4 DEF TurnOn, TypeOK
    <3> QED  BY <3>1 DEF RulesInv, DownloadsOwed, RulesFollowSwitch
  <2> QED  BY <1>4, <2>1, <2>2, <2>3, <2>4 DEF User
<1>5. ASSUME NEW o \in Ops, Answers(o) \/ StopLoaded(o)  PROVE RulesInv'
  <2>1. ASSUME NEW server \in Servers, ConfigAnswer(o, server)  PROVE RulesInv'
    BY <2>1, ServerKeepsRules, RulesKept DEF ConfigAnswer
  <2>2. CASE \/ ConfigFails(o) \/ Timer(o) \/ Toggle(o) \/ Created(o) \/ CreateFails(o)
             \/ StopLoaded(o)
    <3>1. UNCHANGED <<ruleVars, store>>
      BY <2>2 DEF ConfigFails, Timer, Toggle, StartVPN, Created, CreateFails, StopLoaded
    <3> QED  BY <3>1, RulesKept
  <2> QED  BY <1>5, <2>1, <2>2 DEF Answers
<1>6. ASSUME NEW j \in Jobs, JobSteps(j)  PROVE RulesInv'
  <2>1. UNCHANGED <<ruleVars, store>>
    BY <1>6 DEF JobSteps, JobReads, JobWrites, JobFails, JobEnds
  <2> QED  BY <2>1, RulesKept
<1> QED  BY <1>1, <1>2, <1>3, <1>4, <1>5, <1>6 DEF Next, JobSteps

-----------------------------------------------------------------------------
(* The files of a start.                                                   *)

(* When the files already are the store, a regeneration leaves them so,    *)
(* whether it fails or not.                                                *)
LEMMA RegenerationKeeps ==
    ASSUME TypeOK, files = store, UNCHANGED store, Regenerated \/ RegenerateFails
    PROVE  files' = store'
<1>1. [store EXCEPT !.server = store.server] = store
  BY DEF TypeOK, Contents
<1> QED  BY <1>1 DEF Regenerated, RegenerateFails

(* A block that is only queued has read nothing.                           *)
LEMMA WaitingNotStale ==
    ASSUME ~Stale, UNCHANGED store, job' \in {job, Waiting(job)}
    PROVE  ~Stale'
<1> SUFFICES ASSUME NEW j \in Jobs, job' = Waiting(job)
             PROVE  /\ ~(job'[j].at = "server" /\ job'[j].got # store')
                    /\ ~(job'[j].at = "rules" /\ job'[j].got.rules # store'.rules)
  BY DEF Stale
<1>1. job'[j] = job[j] \/ job'[j].at = "queued"
  BY BlockStates DEF Waiting
<1> QED  BY <1>1 DEF Stale

(* No step of a handler that leaves the store alone takes the files from a *)
(* start.                                                                  *)
LEMMA FilesKept ==
    ASSUME TypeOK, FilesInv, fresh' \subseteq fresh, UNCHANGED store,
           job' \in {job, Waiting(job)},
           UNCHANGED files \/ Regenerated \/ RegenerateFails
    PROVE  FilesInv'
<1> SUFFICES ASSUME fresh # {} PROVE files' = store' /\ ~Stale'
  BY DEF FilesInv
<1>1. files = store /\ ~Stale  BY DEF FilesInv
<1> QED  BY <1>1, RegenerationKeeps, WaitingNotStale

LEMMA StartFiles ==
    ASSUME TypeOK, FilesInv, NEW o \in Ops, StartVPN(o)
    PROVE  FilesInv'
<1>1. UNCHANGED store /\ job' = Waiting(job)
  BY DEF StartVPN
<1>2. CASE Regenerated /\ Fresh(o)
  <2>1. CASE Stale'
    BY <1>1, <1>2, <2>1, FilesKept DEF Fresh
  <2>2. CASE ~Stale'
    BY <1>2, <2>2 DEF Regenerated, FilesInv
  <2> QED  BY <2>1, <2>2
<1>3. CASE RegenerateFails /\ UNCHANGED fresh
  BY <1>1, <1>3, FilesKept
<1> QED  BY <1>2, <1>3 DEF StartVPN

(* A block that has read nothing but what the store holds writes only that.*)
LEMMA JobFiles ==
    ASSUME TypeOK, FilesInv, NEW j \in Jobs, JobSteps(j)
    PROVE  FilesInv'
<1>1. UNCHANGED <<fresh, store>>
  BY DEF JobSteps, JobReads, JobWrites, JobFails, JobEnds
<1> SUFFICES ASSUME fresh # {} PROVE files' = store' /\ ~Stale'
  BY <1>1 DEF FilesInv
<1>2. files = store /\ ~Stale  BY DEF FilesInv
<1>3. store \in Contents /\ job \in [Jobs -> JobStates]  BY DEF TypeOK
<1>4. ASSUME NEW b, job' = [job EXCEPT ![j] = b],
             b.at = "server" => b.got = store, b.at = "rules" => b.got.rules = store.rules
      PROVE  ~Stale'
  <2> SUFFICES ASSUME NEW k \in Jobs
               PROVE  /\ ~(job'[k].at = "server" /\ job'[k].got # store')
                      /\ ~(job'[k].at = "rules" /\ job'[k].got.rules # store'.rules)
    BY DEF Stale
  <2>1. job'[k] = IF k = j THEN b ELSE job[k]
    BY <1>3, <1>4
  <2> QED  BY <1>1, <1>2, <1>4, <2>1 DEF Stale
<1>5. CASE JobReads(j)
  <2>1. PICK b \in Reads(job[j], {store}) \ {job[j]} : job' = [job EXCEPT ![j] = b]
    BY <1>5 DEF JobReads
  <2>2. b.got = store
    BY <2>1 DEF Reads
  <2> QED  BY <1>1, <1>2, <1>4, <1>5, <2>1, <2>2 DEF JobReads
<1>6. CASE JobWrites(j)
  <2>1. CASE job[j].at = "server"
    <3>1. job[j].got = store
      BY <1>2, <2>1 DEF Stale
    <3>2. files' = [files EXCEPT !.server = store.server]
      BY <1>6, <2>1, <3>1 DEF JobWrites
    <3>3. files' = store'
      BY <1>1, <1>2, <1>3, <3>2 DEF Contents
    <3>4. CASE job' = [job EXCEPT ![j].at = "rules"]
      <4> DEFINE b == [job[j] EXCEPT !.at = "rules"]
      <4>1. job[j] \in JobStates
        BY <1>3
      <4>2. b.at = "rules" /\ b.got = store
        BY <3>1, <4>1 DEF JobStates
      <4>3. job' = [job EXCEPT ![j] = b]
        BY <1>3, <3>4
      <4> HIDE DEF b
      <4> QED  BY <1>4, <3>3, <4>2, <4>3
    <3>5. CASE job' = [job EXCEPT ![j] = [Idle EXCEPT !.at = "mid"]]
      BY <1>4, <3>3, <3>5, BlockStates
    <3> QED  BY <1>6, <2>1, <3>4, <3>5 DEF JobWrites
  <2>2. CASE job[j].at = "rules"
    <3>1. job[j].got.rules = store.rules
      BY <1>2, <2>2 DEF Stale
    <3>2. files' = [files EXCEPT !.rules = store.rules]
      BY <1>6, <2>2, <3>1 DEF JobWrites
    <3>3. files' = store'
      BY <1>1, <1>2, <1>3, <3>2 DEF Contents
    <3>4. job' = [job EXCEPT ![j] = [Idle EXCEPT !.at = "key"]]
      BY <1>6, <2>2 DEF JobWrites
    <3> QED  BY <1>4, <3>3, <3>4, BlockStates
  <2> QED  BY <1>6, <2>1, <2>2 DEF JobWrites
<1>7. CASE JobFails(j)
  BY <1>1, <1>2, <1>4, <1>7, BlockStates DEF JobFails
<1>8. CASE JobEnds(j)
  BY <1>1, <1>2, <1>4, <1>8 DEF JobEnds, Idle
<1> QED  BY <1>5, <1>6, <1>7, <1>8 DEF JobSteps

LEMMA FilesStep == TypeOK /\ FilesInv /\ [Next]_vars => FilesInv'
<1> SUFFICES ASSUME TypeOK, FilesInv, [Next]_vars PROVE FilesInv'  OBVIOUS
<1> USE DEF opVars, groupVars
<1>1. CASE \/ ProviderReads \/ StatusChanges \/ Notice \/ StatusLoaded \/ ObserverLoaded
           \/ UNCHANGED vars
  <2>1. UNCHANGED <<fresh, store, files, job>>
    BY <1>1 DEF ProviderReads, StatusChanges, Notice, StatusLoaded, ObserverLoaded, vars
  <2> QED  BY <2>1, FilesKept
<1>2. CASE Background
  BY <1>2, FilesKept DEF Background
<1>3. ASSUME StillFresh, UNCHANGED files \/ Regenerated \/ RegenerateFails
      PROVE  FilesInv'
  <2>1. CASE store' = store /\ ~Stale' /\ fresh # {}
    <3>1. files = store
      BY <2>1 DEF FilesInv
    <3>2. files' = store'
      BY <1>3, <2>1, <3>1, RegenerationKeeps
    <3> QED  BY <2>1, <3>2 DEF FilesInv
  <2>2. CASE ~(store' = store /\ ~Stale' /\ fresh # {})
    <3>1. fresh' = {}
      BY <1>3, <2>2 DEF StillFresh
    <3> QED  BY <3>1 DEF FilesInv
  <2> QED  BY <2>1, <2>2
<1>4. CASE Download
  <2>1. CASE StillFresh
    BY <1>3, <1>4, <2>1 DEF Download
  <2>2. CASE UNCHANGED <<job, store, fresh>>
    BY <1>4, <2>2, FilesKept DEF Download
  <2> QED  BY <1>4, <2>1, <2>2 DEF Download
<1>5. CASE Launch
  BY <1>5 DEF Launch, FilesInv
<1>6. ASSUME NEW o \in Ops, User(o) \/ Answers(o) \/ StopLoaded(o)  PROVE FilesInv'
  <2>1. CASE Connect(o)
    BY <2>1, FilesKept DEF Connect, SetDefaultConfigGroup
  <2>2. CASE Perform(o)
    <3>1. CASE StartVPN(o)
      BY <3>1, StartFiles
    <3>2. CASE UNCHANGED <<groupVars, store, files, fresh>>
      BY <3>2, FilesKept
    <3> QED  BY <2>2, <3>1, <3>2 DEF Perform
  <2>3. CASE TurnOff(o)
    BY <1>3, <2>3 DEF TurnOff
  <2>4. CASE TurnOn(o)
    BY <2>4, FilesKept DEF TurnOn
  <2>5. ASSUME NEW server \in Servers, ConfigAnswer(o, server)  PROVE FilesInv'
    BY <1>3, <2>5 DEF ConfigAnswer, SetDefaultConfigGroup
  <2>6. CASE Timer(o)
    BY <2>6, FilesKept DEF Timer, SetDefaultConfigGroup
  <2>7. CASE Toggle(o)
    <3>1. CASE StartVPN(o)
      BY <3>1, StartFiles
    <3>2. CASE UNCHANGED <<groupVars, store, files, fresh>>
      BY <3>2, FilesKept
    <3> QED  BY <2>7, <3>1, <3>2 DEF Toggle
  <2>8. CASE ConfigFails(o) \/ Created(o) \/ CreateFails(o) \/ StopLoaded(o)
    <3>1. UNCHANGED <<store, files, job>> /\ fresh' \subseteq fresh
      BY <2>8 DEF ConfigFails, Created, CreateFails, StopLoaded
    <3> QED  BY <3>1, FilesKept
  <2> QED  BY <1>6, <2>1, <2>2, <2>3, <2>4, <2>5, <2>6, <2>7, <2>8 DEF User, Answers
<1>7. ASSUME NEW j \in Jobs, JobSteps(j)  PROVE FilesInv'
  BY <1>7, JobFiles
<1> QED  BY <1>1, <1>2, <1>4, <1>5, <1>6, <1>7 DEF Next, JobSteps

-----------------------------------------------------------------------------
(* What the app knows of the status.                                       *)

LEMMA BecomesTold ==
    ASSUME TypeOK, NEW s \in Statuses, Becomes(s)
    PROVE  notice' \/ unseen'
  BY DEF Becomes, TypeOK

LEMMA ToldStep == TypeOK /\ StatusTold /\ [Next]_vars => StatusTold'
<1> SUFFICES ASSUME TypeOK, StatusTold, [Next]_vars PROVE StatusTold'  OBVIOUS
<1> USE DEF sysVars, appVars, opVars, groupVars, StatusTold
<1>1. CASE UNCHANGED <<sys, shown, notice, unseen>>
  BY <1>1
<1>2. CASE UNCHANGED sys /\ UpdateVPNStatus
  BY <1>2 DEF UpdateVPNStatus, StatusOf
<1>3. ASSUME NEW s \in Statuses, Becomes(s)  PROVE StatusTold'
  BY <1>3, BecomesTold
<1>4. CASE ProviderReads \/ ObserverLoaded \/ Background \/ Download \/ UNCHANGED vars
  BY <1>1, <1>4 DEF ProviderReads, ObserverLoaded, Background, Download, vars
<1>5. CASE StatusChanges
  BY <1>3, <1>5 DEF StatusChanges, Statuses
<1>6. CASE Notice
  BY <1>2, <1>6 DEF Notice
<1>7. CASE StatusLoaded
  <2>1. CASE UpdateVPNStatus
    BY <1>2, <1>7, <2>1 DEF StatusLoaded
  <2>2. CASE UNCHANGED <<shown, unseen>>
    BY <1>1, <1>7, <2>2 DEF StatusLoaded
  <2> QED  BY <1>7, <2>1, <2>2 DEF StatusLoaded
<1>8. CASE Launch
  BY <1>8 DEF Launch
<1>9. ASSUME NEW o \in Ops, User(o)  PROVE StatusTold'
  BY <1>1, <1>9 DEF User, Connect, TurnOff, TurnOn, Perform
<1>10. ASSUME NEW o \in Ops, Answers(o) \/ StopLoaded(o)  PROVE StatusTold'
  <2>1. ASSUME NEW server \in Servers, ConfigAnswer(o, server)  PROVE StatusTold'
    BY <1>1, <2>1 DEF ConfigAnswer
  <2>2. CASE ConfigFails(o) \/ Timer(o) \/ CreateFails(o)
    BY <1>1, <2>2 DEF ConfigFails, Timer, CreateFails
  <2>3. CASE Toggle(o)
    <3>1. CASE UpdateVPNStatus
      BY <1>2, <2>3, <3>1 DEF Toggle
    <3>2. CASE UNCHANGED <<shown, unseen>>
      BY <1>1, <2>3, <3>2 DEF Toggle
    <3> QED  BY <2>3, <3>1, <3>2 DEF Toggle
  <2>4. CASE Created(o)
    <3>1. CASE Becomes("connecting")
      BY <1>3, <3>1 DEF Statuses
    <3>2. CASE UNCHANGED <<sys, notice, unseen>>
      BY <1>1, <2>4, <3>2 DEF Created
    <3> QED  BY <2>4, <3>1, <3>2 DEF Created
  <2>5. CASE StopLoaded(o)
    <3>1. CASE Becomes("disconnecting")
      BY <1>3, <3>1 DEF Statuses
    <3>2. CASE UNCHANGED <<sys, notice, unseen>>
      BY <1>1, <2>5, <3>2 DEF StopLoaded
    <3> QED  BY <2>5, <3>1, <3>2 DEF StopLoaded
  <2> QED  BY <1>10, <2>1, <2>2, <2>3, <2>4, <2>5 DEF Answers
<1>11. ASSUME NEW j \in Jobs, JobSteps(j)  PROVE StatusTold'
  BY <1>1, <1>11 DEF JobSteps, JobReads, JobWrites, JobFails, JobEnds
<1> QED  BY <1>4, <1>5, <1>6, <1>7, <1>8, <1>9, <1>10, <1>11 DEF Next, JobSteps

-----------------------------------------------------------------------------
(* The inductive invariant of the app.                                     *)
THEOREM AppSafe == Spec => []AppInv
<1>1. AppInv /\ [Next]_vars => AppInv'
  BY TypeStep, RulesStep, FilesStep, ToldStep DEF AppInv
<1> QED  BY <1>1, InitApp, PTL DEF Spec

(* Every variable of the app keeps its type.                               *)
THEOREM AppTyped == Spec => []TypeOK
<1>1. AppInv => TypeOK  BY DEF AppInv
<1> QED  BY <1>1, AppSafe, PTL

(* With nothing being downloaded the stored rules are those of the switch, *)
(* unless a download or a write of rules failed, or a download was         *)
(* overtaken (setGFW's completion and setAll).                             *)
THEOREM RulesAreTheSwitchs == Spec => []RulesFollowSwitch
<1>1. AppInv => RulesFollowSwitch  BY DEF AppInv, RulesInv
<1> QED  BY <1>1, AppSafe, PTL

(* A start that waits for the profile has all four files of the store's    *)
(* content, whatever the blocks of the global queue write, as long as none *)
(* has read an older one (startVPN behind regenerateConfigFiles).          *)
THEOREM StartsAreWhole == Spec => []StartsWhole
<1>1. AppInv => StartsWhole  BY DEF AppInv, FilesInv, StartsWhole
<1> QED  BY <1>1, AppSafe, PTL

(* The cached status is the system's, or a notification is queued that will*)
(* make it so, or none was to be had (Manager.updateVPNStatus).            *)
THEOREM StatusIsTold == Spec => []StatusTold
<1>1. AppInv => StatusTold  BY DEF AppInv
<1> QED  BY <1>1, AppSafe, PTL
-----------------------------------------------------------------------------
(* The widget.  OpenIsEnded rests on who takes the delegate away: a socket *)
(* in use has lost it only to a callback that is still to end it.          *)
Unguarded == ~delegate /\ sock # "closed" => calls["cleared"] > 0

WidgetInv == WidgetTypeOK /\ OpenIsEnded /\ Unguarded

LEMMA InitWidget == WidgetInit => WidgetInv
<1> SUFFICES ASSUME WidgetInit PROVE WidgetInv  OBVIOUS
<1>1. WidgetTypeOK  BY DEF WidgetInit, WidgetTypeOK, Stages
<1>2. OpenIsEnded /\ Unguarded  BY DEF WidgetInit, OpenIsEnded, Unguarded
<1> QED  BY <1>1, <1>2 DEF WidgetInv

(* Callbacks are counted: one more, one less, one moved on.                *)
LEMMA CallbackCounts ==
    ASSUME NEW c \in [Stages -> Nat]
    PROVE  /\ \A s \in Stages :
                 [c EXCEPT ![s] = @ + 1] \in [Stages -> Nat]
                 /\ [c EXCEPT ![s] = @ + 1][s] = c[s] + 1
           /\ \A s \in Stages : c[s] > 0 => [c EXCEPT ![s] = @ - 1] \in [Stages -> Nat]
           /\ \A s, t \in Stages :
                 s # t => /\ [c EXCEPT ![s] = @ + 1][t] = c[t]
                          /\ [c EXCEPT ![s] = @ - 1][t] = c[t]
           /\ \A s, t \in Stages : s # t /\ c[s] > 0 =>
                 /\ [c EXCEPT ![s] = @ - 1, ![t] = @ + 1] \in [Stages -> Nat]
                 /\ [c EXCEPT ![s] = @ - 1, ![t] = @ + 1][t] = c[t] + 1
                 /\ \A z \in Stages \ {s, t} :
                       [c EXCEPT ![s] = @ - 1, ![t] = @ + 1][z] = c[z]
  OBVIOUS

(* A close leaves a socket with nothing to end; its notice is counted.     *)
LEMMA ClosedKeeps ==
    ASSUME NEW after \in [Stages -> Nat], Closed(after)
    PROVE  sock' = "closed" /\ calls' \in [Stages -> Nat]
<1>1. [after EXCEPT !["ended"] = @ + 1] \in [Stages -> Nat]
  BY CallbackCounts DEF Stages
<1> QED  BY <1>1 DEF Closed

(* A socket that a tick finds closed connects with its delegate set; one   *)
(* in use keeps its state and gets the delegate back.                      *)
LEMMA TryConnectStep == WidgetInv /\ TryConnect /\ UNCHANGED <<stored, tunnel, foreign>>
                          /\ timer' \in BOOLEAN => WidgetInv'
<1> SUFFICES ASSUME WidgetInv, TryConnect, UNCHANGED <<stored, tunnel, foreign>>,
                    timer' \in BOOLEAN
             PROVE  WidgetInv'
  OBVIOUS
<1> USE DEF WidgetInv, sockVars
<1>1. CASE stored = NoPort
  <2>1. status' = FALSE /\ UNCHANGED <<sock, target, delegate, calls>>
    BY <1>1 DEF TryConnect
  <2>2. WidgetTypeOK'  BY <2>1 DEF WidgetTypeOK
  <2>3. (OpenIsEnded /\ Unguarded)'  BY <2>1 DEF OpenIsEnded, Unguarded
  <2> QED  BY <2>2, <2>3
<1>2. CASE stored # NoPort
  <2>1. /\ delegate' = TRUE /\ calls' = calls
        /\ \/ sock' = "connecting" /\ target' = stored /\ UNCHANGED status
           \/ status' = FALSE /\ UNCHANGED <<sock, target>>
    BY <1>2 DEF TryConnect
  <2>2. WidgetTypeOK'
    <3>1. status' \in BOOLEAN  BY <2>1 DEF WidgetTypeOK
    <3>2. delegate' \in BOOLEAN  BY <2>1
    <3> QED  BY <1>2, <2>1, <3>1, <3>2 DEF WidgetTypeOK
  <2>3. OpenIsEnded' /\ Unguarded'  BY <2>1 DEF OpenIsEnded, Unguarded
  <2> QED  BY <2>2, <2>3
<1> QED  BY <1>1, <1>2

LEMMA WidgetStep == WidgetInv /\ [WidgetNext]_widgetVars => WidgetInv'
<1> SUFFICES ASSUME WidgetInv, [WidgetNext]_widgetVars PROVE WidgetInv'  OBVIOUS
<1> USE WidgetAssumption DEF WidgetInv, sockVars
<1>0. calls \in [Stages -> Nat] /\ {"connected", "shown", "cleared", "ended"} = Stages
  BY DEF WidgetTypeOK, Stages
<1>1. CASE UNCHANGED <<sock, target, delegate, calls, timer, status>>
           /\ stored' \in Ports \cup {NoPort} /\ tunnel' \in Ports \cup {NoPort}
           /\ foreign' \subseteq Ports \ {tunnel'}
  <2>1. WidgetTypeOK'  BY <1>1 DEF WidgetTypeOK
  <2>2. (OpenIsEnded /\ Unguarded)'  BY <1>1 DEF OpenIsEnded, Unguarded
  <2> QED  BY <2>1, <2>2
<1>2. ASSUME NEW x \in Ports, TunnelStarts(x)  PROVE WidgetInv'
  BY <1>1, <1>2 DEF TunnelStarts, WidgetTypeOK
<1>3. CASE PortCleared \/ TunnelEnds \/ OthersListen \/ UNCHANGED widgetVars
  BY <1>1, <1>3 DEF PortCleared, TunnelEnds, OthersListen, widgetVars, WidgetTypeOK
<1>4. CASE Tick
  <2>1. timer' \in BOOLEAN  BY <1>4 DEF Tick, WidgetTypeOK
  <2> QED  BY <1>4, <2>1, TryConnectStep DEF Tick
<1>5. CASE Appear
  <2>1. timer' \in BOOLEAN  BY <1>5 DEF Appear
  <2> QED  BY <1>5, <2>1, TryConnectStep DEF Appear
<1>6. ASSUME NEW after \in [Stages -> Nat], Closed(after),
             UNCHANGED <<stored, tunnel, foreign, target, delegate, status>>,
             timer' \in BOOLEAN
      PROVE  WidgetInv'
  <2>1. sock' = "closed" /\ calls' \in [Stages -> Nat]  BY <1>6, ClosedKeeps
  <2>2. WidgetTypeOK'  BY <1>6, <2>1 DEF WidgetTypeOK
  <2>3. (OpenIsEnded /\ Unguarded)'  BY <2>1 DEF OpenIsEnded, Unguarded
  <2> QED  BY <2>2, <2>3
<1>7. CASE Fails
  <2>1. timer' \in BOOLEAN  BY <1>7 DEF Fails, WidgetTypeOK
  <2> QED  BY <1>0, <1>6, <1>7, <2>1 DEF Fails
<1>8. CASE Disappear
  <2>1. timer' \in BOOLEAN  BY <1>8 DEF Disappear
  <2> QED  BY <1>0, <1>6, <1>8, <2>1 DEF Disappear
<1>9. CASE Disconnect
  <2>1. timer' \in BOOLEAN  BY <1>9 DEF Disconnect, WidgetTypeOK
  <2>2. [calls EXCEPT !["cleared"] = @ - 1] \in [Stages -> Nat]
    BY <1>0, <1>9, CallbackCounts DEF Disconnect
  <2> QED  BY <1>6, <1>9, <2>1, <2>2 DEF Disconnect
<1>10. CASE Established
  <2>1. /\ sock = "connecting" /\ sock' = "open"
        /\ UNCHANGED <<stored, tunnel, foreign, timer, target, delegate, status>>
    BY <1>10 DEF Established
  <2>2. CASE delegate
    <3>1. calls' = [calls EXCEPT !["connected"] = @ + 1]
      BY <1>10, <2>2 DEF Established, Queued
    <3>2. /\ calls' \in [Stages -> Nat]
          /\ calls'["connected"] = calls["connected"] + 1
      BY ONLY <1>0, <3>1, CallbackCounts
    <3>3. WidgetTypeOK'  BY <2>1, <3>2 DEF WidgetTypeOK
    <3>4. calls'["connected"] + calls'["shown"] + calls'["cleared"] > 0
      BY ONLY <1>0, <3>2
    <3>5. OpenIsEnded'  BY ONLY <3>4 DEF OpenIsEnded
    <3>6. Unguarded'  BY <2>1, <2>2 DEF Unguarded
    <3> QED  BY <3>3, <3>5, <3>6
  <2>3. CASE ~delegate
    <3>1. calls' = calls  BY <1>10, <2>3 DEF Established
    <3>2. WidgetTypeOK'  BY <2>1, <3>1 DEF WidgetTypeOK
    <3>3. calls["cleared"] > 0  BY <2>1, <2>3 DEF Unguarded
    <3>4. calls["connected"] \in Nat /\ calls["shown"] \in Nat /\ calls["cleared"] \in Nat
      BY ONLY <1>0
    <3>5. OpenIsEnded'  BY <3>1, <3>3, <3>4 DEF OpenIsEnded
    <3>6. Unguarded'  BY <3>1, <3>3 DEF Unguarded
    <3> QED  BY <3>2, <3>5, <3>6
  <2> QED  BY <2>2, <2>3
<1>11. CASE DidConnect
  <2>1. /\ calls' = [calls EXCEPT !["connected"] = @ - 1, !["shown"] = @ + 1]
        /\ calls["connected"] > 0 /\ status' = TRUE
        /\ UNCHANGED <<stored, tunnel, foreign, timer, sock, target, delegate>>
    BY <1>11 DEF DidConnect, Moved
  <2>2. /\ calls' \in [Stages -> Nat] /\ calls'["shown"] = calls["shown"] + 1
        /\ calls'["cleared"] = calls["cleared"]
    BY ONLY <1>0, <2>1, CallbackCounts
  <2>3. WidgetTypeOK'
    <3>1. status' \in BOOLEAN  BY <2>1
    <3> QED  BY <2>1, <2>2, <3>1 DEF WidgetTypeOK
  <2>4. calls'["connected"] + calls'["shown"] + calls'["cleared"] > 0
    BY ONLY <1>0, <2>2
  <2>5. OpenIsEnded'  BY ONLY <2>4 DEF OpenIsEnded
  <2>6. Unguarded'  BY <2>1, <2>2 DEF Unguarded
  <2> QED  BY <2>3, <2>5, <2>6
<1>12. CASE ClearDelegate
  <2>1. /\ calls' = [calls EXCEPT !["shown"] = @ - 1, !["cleared"] = @ + 1]
        /\ calls["shown"] > 0 /\ delegate' = FALSE
        /\ UNCHANGED <<stored, tunnel, foreign, timer, sock, target, status>>
    BY <1>12 DEF ClearDelegate, Moved
  <2>2. calls' \in [Stages -> Nat] /\ calls'["cleared"] = calls["cleared"] + 1
    BY ONLY <1>0, <2>1, CallbackCounts
  <2>3. WidgetTypeOK'
    <3>1. delegate' \in BOOLEAN  BY <2>1
    <3> QED  BY <2>1, <2>2, <3>1 DEF WidgetTypeOK
  <2>4. /\ calls'["cleared"] > 0
        /\ calls'["connected"] + calls'["shown"] + calls'["cleared"] > 0
    BY ONLY <1>0, <1>12, <2>2 DEF ClearDelegate
  <2>5. OpenIsEnded'  BY ONLY <2>4 DEF OpenIsEnded
  <2>6. Unguarded'  BY ONLY <2>4 DEF Unguarded
  <2> QED  BY <2>3, <2>5, <2>6
<1>13. CASE DidDisconnect
  <2>1. /\ calls' = [calls EXCEPT !["ended"] = @ - 1]
        /\ calls["ended"] > 0 /\ status' = FALSE
        /\ UNCHANGED <<stored, tunnel, foreign, timer, sock, target, delegate>>
    BY <1>13 DEF DidDisconnect
  <2>2. /\ calls' \in [Stages -> Nat] /\ calls'["connected"] = calls["connected"]
        /\ calls'["shown"] = calls["shown"] /\ calls'["cleared"] = calls["cleared"]
    BY ONLY <1>0, <2>1, CallbackCounts
  <2>3. WidgetTypeOK'
    <3>1. status' \in BOOLEAN  BY <2>1
    <3> QED  BY <2>1, <2>2, <3>1 DEF WidgetTypeOK
  <2>4. OpenIsEnded' /\ Unguarded'  BY <2>1, <2>2 DEF OpenIsEnded, Unguarded
  <2> QED  BY <2>3, <2>4
<1> QED
  BY <1>2, <1>3, <1>4, <1>5, <1>7, <1>8, <1>9, <1>10, <1>11, <1>12, <1>13 DEF WidgetNext

(* The inductive invariant of the widget.                                  *)
THEOREM WidgetSafe == WidgetSpec => []WidgetInv
  BY InitWidget, WidgetStep, PTL DEF WidgetSpec

(* Every variable of the widget keeps its type.                            *)
THEOREM WidgetTyped == WidgetSpec => []WidgetTypeOK
<1>1. WidgetInv => WidgetTypeOK  BY DEF WidgetInv
<1> QED  BY <1>1, WidgetSafe, PTL

(* An open connection of the widget has a callback that will end it        *)
(* (didConnectToHost and tryConnectStatusSocket).                          *)
THEOREM ConnectionsEnd == WidgetSpec => []OpenIsEnded
<1>1. WidgetInv => OpenIsEnded  BY DEF WidgetInv
<1> QED  BY <1>1, WidgetSafe, PTL
=============================================================================
