----------------------------- MODULE CloudSync -----------------------------
(***************************************************************************)
(* iCloud synchronisation of the configuration store.  A sync prepares the *)
(* zone, fetches what changed in the cloud since the stored change token,  *)
(* and then pushes; its operations run on CloudKit's queues, and nothing   *)
(* keeps two syncs apart.  The cloud is what CloudKit shows of it: each    *)
(* record's last change, numbered in the order of the changes; a token is  *)
(* such a number and 0 is no token.  A record's content is its updatedAt,  *)
(* 0 when it is deleted or absent.  The `synced` flags are left out: the   *)
(* two queries that read them return nothing, so nothing is ever pushed.   *)
(***************************************************************************)
EXTENDS Integers

CONSTANTS
    Recs,      \* records of the zone
    RuleSets,  \* those of type "ProxyRuleSet", which realmClassType ignores
    Syncs,     \* calls of ICloudSyncService.sync that may be under way
    MaxRetry,  \* maximumRetryAttempts
    MaxChange, \* bound: changes made in the cloud
    MaxTime    \* bound: values of updatedAt

ASSUME SyncAssumption == /\ RuleSets \subseteq Recs
                         /\ {MaxRetry, MaxChange, MaxTime} \subseteq Nat

VARIABLES
    clock,    \* cloud: changes so far
    ver,      \* cloud: number of each record's last change, 0 if none
    at,       \* cloud: its updatedAt then
    local,    \* the local objects' updatedAt
    token,    \* the stored zone change token
    st,       \* where each sync is
    tok,      \* the fetch operation's changeToken
    tries,    \* its retryAttempts
    page,     \* updatedAt of the records still to be processed, as sent;
              \* None for the others
    cur,      \* the record compared and to be written: {r} or {}
    pageTok,  \* the page's server change token
    more,     \* syncs whose page came with moreComing
    mixed     \* history: what has been under way together

cloudVars == <<clock, ver, at>>
pageVars  == <<page, cur, pageTok, more>>
opVars    == <<tok, tries>>
vars == <<cloudVars, local, token, st, opVars, pageVars, mixed>>

None     == -1
Times    == 0 .. MaxTime
Changes  == 0 .. MaxChange
Fetching == {"fetching", "applying"}
Ended    == {"idle", "stuck"}
NoPage   == [r \in Recs |-> None]

TypeOK ==
    /\ clock \in Changes /\ ver \in [Recs -> Changes] /\ at \in [Recs -> Times]
    /\ local \in [Recs -> Times] /\ token \in Changes
    /\ st \in [Syncs -> Ended \cup Fetching \cup {"setup", "queued", "pushing"}]
    /\ more \subseteq Syncs
    /\ tok \in [Syncs -> Changes] /\ tries \in [Syncs -> 0 .. MaxRetry]
    /\ page \in [Syncs -> [Recs -> Times \cup {None}]]
    /\ cur \in [Syncs -> SUBSET Recs] /\ pageTok \in [Syncs -> Changes]
    /\ mixed \subseteq {"fetches", "edit"}

Init ==
    /\ clock = 0 /\ ver = [r \in Recs |-> 0] /\ at = [r \in Recs |-> 0]
    /\ local = [r \in Recs |-> 0] /\ token = 0
    /\ st = [s \in Syncs |-> "idle"] /\ more = {}
    /\ tok = [s \in Syncs |-> 0] /\ tries = [s \in Syncs |-> 0]
    /\ page = [s \in Syncs |-> NoPage] /\ cur = [s \in Syncs |-> {}]
    /\ pageTok = [s \in Syncs |-> 0]
    /\ mixed = {}

Goto(s, where) == st' = [st EXCEPT ![s] = where]

(* The operation and the page it holds are gone.                           *)
Clear(s) ==
    /\ tok' = [tok EXCEPT ![s] = 0] /\ tries' = [tries EXCEPT ![s] = 0]
    /\ page' = [page EXCEPT ![s] = NoPage] /\ cur' = [cur EXCEPT ![s] = {}]
    /\ pageTok' = [pageTok EXCEPT ![s] = 0] /\ more' = more \ {s}

Leave(s, where) == Goto(s, where) /\ Clear(s)

-----------------------------------------------------------------------------
(* Other devices change the zone; the user edits a local object.           *)

CloudChange(r, t) ==
    /\ clock < MaxChange /\ (t = 0 => at[r] # 0)
    /\ clock' = clock + 1
    /\ ver' = [ver EXCEPT ![r] = clock + 1] /\ at' = [at EXCEPT ![r] = t]
    /\ UNCHANGED <<local, token, st, opVars, pageVars, mixed>>

(* DBUtils.modify and softDelete, which set updatedAt to now.              *)
UserEdit(r, t) ==
    /\ local[r] # 0 /\ t > local[r]
    /\ local' = [local EXCEPT ![r] = t]
    /\ mixed' = IF \E s \in Syncs : r \in cur[s] THEN mixed \cup {"edit"} ELSE mixed
    /\ UNCHANGED <<cloudVars, token, st, opVars, pageVars>>

-----------------------------------------------------------------------------
(* A sync up to its fetch.                                                 *)

(* ICloudSyncService.sync: one by hand forgets the token.                  *)
Forget(by_hand) == token' = IF by_hand THEN 0 ELSE token

(* SyncManager.sync: at launch, on a push notification, by hand.  It does  *)
(* not ask whether a sync is under way.                                    *)
Sync(s, by_hand) ==
    /\ st[s] \in Ended
    /\ Goto(s, "setup") /\ Forget(by_hand)
    /\ UNCHANGED <<cloudVars, local, opVars, pageVars, mixed>>

(* The zone is prepared, or is not: no network, no account, an error.      *)
Setup(s) ==
    /\ st[s] = "setup"
    /\ \/ Goto(s, "queued") /\ UNCHANGED <<opVars, pageVars>>
       \/ Leave(s, "idle")
    /\ UNCHANGED <<cloudVars, local, token, mixed>>

(* FetchCloudChangesOperation.execute.                                     *)
Execute(s) ==
    /\ st[s] = "queued"
    /\ tok' = [tok EXCEPT ![s] = token]
    /\ Goto(s, "fetching")
    /\ mixed' = IF \E o \in Syncs : st[o] \in Fetching
                THEN mixed \cup {"fetches"} ELSE mixed
    /\ UNCHANGED <<cloudVars, local, token, tries, pageVars>>

-----------------------------------------------------------------------------
(* Answers to a request for the changes after tok[s].                      *)

(* A page: the records whose last change is after the token, up to u.      *)
Page(s, u) ==
    /\ st[s] = "fetching" /\ u \in tok[s] .. clock /\ (u = tok[s] => u = clock)
    /\ page' = [page EXCEPT ![s] =
                  [r \in Recs |-> IF ver[r] \in tok[s] + 1 .. u THEN at[r] ELSE None]]
    /\ pageTok' = [pageTok EXCEPT ![s] = u]
    /\ more' = IF u < clock THEN more \cup {s} ELSE more \ {s}
    /\ Goto(s, "applying")
    /\ UNCHANGED <<cloudVars, local, token, opVars, cur, mixed>>

(* retryFetch: the same request after a delay, or the error is returned.   *)
RetryFetch(s) ==
    \/ /\ tries[s] < MaxRetry
       /\ tries' = [tries EXCEPT ![s] = tries[s] + 1]
       /\ UNCHANGED <<st, tok, pageVars>>
    \/ tries[s] = MaxRetry /\ Leave(s, "idle")

FetchBusy(s) ==
    /\ st[s] = "fetching"
    /\ RetryFetch(s)
    /\ UNCHANGED <<cloudVars, local, token, mixed>>

(* An error that is returned, or one whose code the switch does not name:  *)
(* then the operation never finishes.                                      *)
FetchFails(s) ==
    /\ st[s] = "fetching"
    /\ Leave(s, "idle") \/ Leave(s, "stuck")
    /\ UNCHANGED <<cloudVars, local, token, mixed>>

(* changeTokenExpired: a sync o by hand begins, this one never finishes.   *)
FetchExpired(s, o) ==
    /\ st[s] = "fetching" /\ tok[s] > 0 /\ o # s /\ st[o] \in Ended
    /\ st' = [st EXCEPT ![s] = "stuck", ![o] = "setup"]
    /\ Forget(TRUE) /\ Clear(s)
    /\ UNCHANGED <<cloudVars, local, mixed>>

-----------------------------------------------------------------------------
(* processFetchResults: changed records first, then deleted ones.          *)

Todo(s)  == {r \in Recs : page[s][r] # None}
Saved(s) == {r \in Todo(s) : page[s][r] # 0}

Processed(s, r) == page' = [page EXCEPT ![s] = [page[s] EXCEPT ![r] = None]]

(* Mutant: a record that is older than the local object replaces it.       *)
MutNewer(s, r) == TRUE

(* changeLocalRecord's comparison with the local object.                   *)
Newer(s, r) == page[s][r] > local[r]

(* changeLocalRecord up to its last write: a record of an unknown type and *)
(* one that is not newer are done with; else the object will be replaced.  *)
Compare(s, r) ==
    /\ st[s] = "applying" /\ cur[s] = {} /\ r \in Saved(s)
    /\ \/ /\ r \notin RuleSets /\ Newer(s, r)
          /\ cur' = [cur EXCEPT ![s] = {r}] /\ UNCHANGED page
       \/ /\ ~(r \notin RuleSets /\ Newer(s, r))
          /\ Processed(s, r) /\ UNCHANGED cur
    /\ UNCHANGED <<cloudVars, local, token, st, opVars, pageTok, more, mixed>>

(* Its last write, DBUtils.add.                                            *)
Write(s, r) ==
    /\ r \in cur[s]
    /\ local' = [local EXCEPT ![r] = page[s][r]]
    /\ Processed(s, r) /\ cur' = [cur EXCEPT ![s] = {}]
    /\ UNCHANGED <<cloudVars, token, st, opVars, pageTok, more, mixed>>

(* deleteLocalRecord.                                                      *)
Delete(s, r) ==
    /\ st[s] = "applying" /\ cur[s] = {} /\ Saved(s) = {} /\ r \in Todo(s)
    /\ local' = [local EXCEPT ![r] = 0]
    /\ Processed(s, r)
    /\ UNCHANGED <<cloudVars, token, st, opVars, cur, pageTok, more, mixed>>

(* Mutant: the token is stored although a write failed.                    *)
MutWriteFails(s) ==
    /\ st[s] = "applying" /\ Todo(s) # {}
    /\ Leave(s, "idle") /\ token' = pageTok[s]
    /\ UNCHANGED <<cloudVars, local, mixed>>

(* A write to the database fails: the fetch ends without a new token.      *)
WriteFails(s) ==
    /\ st[s] = "applying" /\ Todo(s) # {}
    /\ Leave(s, "idle")
    /\ UNCHANGED <<cloudVars, local, token, mixed>>

(* Mutant: the next page is asked for with the old token.                  *)
MutPageDone(s) ==
    /\ st[s] = "applying" /\ Todo(s) = {}
    /\ token' = pageTok[s]
    /\ Goto(s, IF s \in more THEN "fetching" ELSE "pushing")
    /\ pageTok' = [pageTok EXCEPT ![s] = 0] /\ more' = more \ {s}
    /\ UNCHANGED <<cloudVars, local, opVars, page, cur, mixed>>

(* The page is applied: its token is stored, and the fetch goes on while   *)
(* more is coming.                                                         *)
PageDone(s) ==
    /\ st[s] = "applying" /\ Todo(s) = {}
    /\ token' = pageTok[s] /\ tok' = [tok EXCEPT ![s] = pageTok[s]]
    /\ Goto(s, IF s \in more THEN "fetching" ELSE "pushing")
    /\ pageTok' = [pageTok EXCEPT ![s] = 0] /\ more' = more \ {s}
    /\ UNCHANGED <<cloudVars, local, tries, page, cur, mixed>>

(* PushLocalChangesOperation, with nothing to send: it ends, or one of its *)
(* two requests meets an error that is not named either.                   *)
Push(s) ==
    /\ st[s] = "pushing"
    /\ Leave(s, "idle") \/ Leave(s, "stuck")
    /\ UNCHANGED <<cloudVars, local, token, mixed>>

(* The system ends the app: the store and the token remain.                *)
Kill ==
    /\ \E s \in Syncs : st[s] \notin Ended
    /\ st' = [s \in Syncs |-> "idle"] /\ more' = {}
    /\ tok' = [s \in Syncs |-> 0] /\ tries' = [s \in Syncs |-> 0]
    /\ page' = [s \in Syncs |-> NoPage] /\ cur' = [s \in Syncs |-> {}]
    /\ pageTok' = [s \in Syncs |-> 0]
    /\ UNCHANGED <<cloudVars, local, token, mixed>>

Step(s) ==
    \/ Setup(s) \/ Execute(s) \/ \E u \in Changes : Page(s, u)
    \/ FetchBusy(s) \/ FetchFails(s) \/ \E o \in Syncs : FetchExpired(s, o)
    \/ \E r \in Recs : Compare(s, r) \/ Write(s, r) \/ Delete(s, r)
    \/ WriteFails(s) \/ PageDone(s) \/ Push(s)

Next ==
    \/ \E r \in Recs, t \in Times : CloudChange(r, t) \/ UserEdit(r, t)
    \/ \E s \in Syncs, by_hand \in BOOLEAN : Sync(s, by_hand)
    \/ \E s \in Syncs : Step(s)
    \/ Kill

Spec == Init /\ [][Next]_vars

(* CloudKit answers every request, and queued operations and blocks run.   *)
FairSpec == Spec /\ \A s \in Syncs : WF_vars(Step(s))

-----------------------------------------------------------------------------
(* The local object shows the record's last change: it is that old or      *)
(* newer, or gone if the record was deleted.                               *)
Shows(r) == IF at[r] = 0 THEN local[r] = 0 ELSE local[r] >= at[r]

(* Nothing up to the stored token is missing: what a later fetch will not  *)
(* bring again has been applied, through failed writes, retries, pages and *)
(* the end of the app, as long as no two fetches were under way together.  *)
TokenCovers ==
    "fetches" \notin mixed =>
        \A r \in Recs \ RuleSets : ver[r] \in 1 .. token => Shows(r)

(* An object is never replaced by an older record, unless it changed while *)
(* that record was between its comparison and its write.                   *)
NeverOlder ==
    [][mixed = {} => \A r \in Recs : local'[r] < local[r] => local'[r] = 0]_vars

(* A sync that began ends, with or without an error, or is stuck in one of *)
(* the answers that its error handling does not finish.                    *)
SyncEnds == \A s \in Syncs : (st[s] \notin Ended) ~> (st[s] \in Ended)
=============================================================================
