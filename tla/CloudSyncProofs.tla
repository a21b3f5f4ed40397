-------------------------- MODULE CloudSyncProofs --------------------------
(***************************************************************************)
(* Proofs about CloudSync, for every set of records and of syncs and all   *)
(* bounds.  TokenCovers is not inductive: while a fetch applies a page,    *)
(* what it has done is covered by neither its token nor the stored one, so *)
(* PageCovers says what each record of the page still stands for.          *)
(***************************************************************************)
EXTENDS CloudSync, TLAPS

USE SyncAssumption

Unmixed == "fetches" \notin mixed

(* The cloud numbers its changes, and no token is ahead of it.             *)
LogOrder ==
    /\ token <= clock /\ \A r \in Recs : ver[r] <= clock
    /\ \A s \in Syncs : tok[s] <= clock /\ pageTok[s] <= clock

(* Unless fetches overlap, one is under way, and the stored token is the   *)
(* one that it started from, or was forgotten since.                       *)
FetchAlone ==
    Unmixed =>
        /\ \A s, o \in Syncs : st[s] \in Fetching /\ st[o] \in Fetching => s = o
        /\ \A s \in Syncs : st[s] \in Fetching => token = 0 \/ token = tok[s]

(* What is before the token of the fetch under way has been applied.       *)
FetchCovers ==
    Unmixed => \A s \in Syncs : st[s] \in Fetching =>
        \A r \in Recs \ RuleSets : ver[r] \in 1 .. tok[s] => Shows(r)

(* A record still to be processed is the cloud's, unless it changed after  *)
(* the page; one that is not has been applied or was not on the page.      *)
PageCovers ==
    \A s \in Syncs : st[s] = "applying" => \A r \in Recs :
        /\ page[s][r] # None => ver[r] > tok[s]
        /\ page[s][r] # None /\ ver[r] <= pageTok[s] => page[s][r] = at[r]
        /\ Unmixed /\ r \notin RuleSets /\ page[s][r] = None
               /\ ver[r] > tok[s] /\ ver[r] <= pageTok[s] => Shows(r)

(* The record that is about to be written is newer than its object.        *)
WriteNewer ==
    \A s \in Syncs : \A r \in cur[s] :
        /\ st[s] = "applying" /\ r \notin RuleSets
        /\ page[s][r] # None /\ page[s][r] # 0
        /\ mixed = {} => page[s][r] > local[r]

SyncInv == /\ TypeOK /\ LogOrder /\ FetchAlone /\ FetchCovers
           /\ PageCovers /\ WriteNewer /\ TokenCovers

-----------------------------------------------------------------------------
(* The invariant holds before the first sync.                              *)
LEMMA InitSync == Init => SyncInv
BY DEF Init, SyncInv, TypeOK, LogOrder, FetchAlone, FetchCovers, PageCovers,
       WriteNewer, TokenCovers, Fetching, Ended, None, Times, Changes, NoPage

(* It is preserved by a change in the cloud.                               *)
LEMMA ChangeStep ==
  ASSUME SyncInv, NEW r \in Recs, NEW t \in Times, CloudChange(r, t)
  PROVE  SyncInv'
<1> USE DEF SyncInv, cloudVars, opVars, pageVars, Goto,
            Fetching, Ended, None, Times, Changes, NoPage, CloudChange
<1>1. TypeOK' BY DEF TypeOK
<1>2. LogOrder' BY DEF TypeOK, LogOrder, LogOrder, Unmixed, Shows
<1>3. FetchAlone' BY DEF TypeOK, FetchAlone, LogOrder, Unmixed, Shows
<1>4. FetchCovers' BY DEF TypeOK, FetchCovers, LogOrder, Unmixed, Shows
<1>5. PageCovers' BY DEF TypeOK, PageCovers, LogOrder, Unmixed, Shows
<1>6. WriteNewer' BY DEF TypeOK, WriteNewer, LogOrder, Unmixed, Shows
<1>7. TokenCovers' BY DEF TypeOK, TokenCovers, LogOrder, Unmixed, Shows
<1> QED BY <1>1, <1>2, <1>3, <1>4, <1>5, <1>6, <1>7

(* It is preserved by an edit of the user.                                 *)
LEMMA EditStep ==
  ASSUME SyncInv, NEW r \in Recs, NEW t \in Times, UserEdit(r, t)
  PROVE  SyncInv'
<1> USE DEF SyncInv, cloudVars, opVars, pageVars, Goto,
            Fetching, Ended, None, Times, Changes, NoPage, UserEdit
<1>1. TypeOK' BY DEF TypeOK
<1>2. LogOrder' BY DEF TypeOK, LogOrder, LogOrder, Unmixed, Shows
<1>3. FetchAlone' BY DEF TypeOK, FetchAlone, LogOrder, Unmixed, Shows
<1>4. FetchCovers' BY DEF TypeOK, FetchCovers, LogOrder, Unmixed, Shows
<1>5. PageCovers' BY DEF TypeOK, PageCovers, LogOrder, Unmixed, Shows
<1>6. WriteNewer' BY DEF TypeOK, WriteNewer, LogOrder, Unmixed, Shows
<1>7. TokenCovers' BY DEF TypeOK, TokenCovers, LogOrder, Unmixed, Shows
<1> QED BY <1>1, <1>2, <1>3, <1>4, <1>5, <1>6, <1>7

(* It is preserved by the call of sync.                                    *)
LEMMA SyncStep ==
  ASSUME SyncInv, NEW s \in Syncs, NEW by_hand \in BOOLEAN, Sync(s, by_hand)
  PROVE  SyncInv'
<1> USE DEF SyncInv, cloudVars, opVars, pageVars, Goto,
            Fetching, Ended, None, Times, Changes, NoPage, Sync, Forget
<1>1. TypeOK' BY DEF TypeOK
<1>2. LogOrder' BY DEF TypeOK, LogOrder, LogOrder, Unmixed, Shows
<1>3. FetchAlone' BY DEF TypeOK, FetchAlone, LogOrder, Unmixed, Shows
<1>4. FetchCovers' BY DEF TypeOK, FetchCovers, LogOrder, Unmixed, Shows
<1>5. PageCovers' BY DEF TypeOK, PageCovers, LogOrder, Unmixed, Shows
<1>6. WriteNewer' BY DEF TypeOK, WriteNewer, LogOrder, Unmixed, Shows
<1>7. TokenCovers' BY DEF TypeOK, TokenCovers, LogOrder, Unmixed, Shows
<1> QED BY <1>1, <1>2, <1>3, <1>4, <1>5, <1>6, <1>7

(* It is preserved by the end of a sync.                                   *)
LEMMA LeaveStep ==
  ASSUME SyncInv, NEW s \in Syncs, NEW w \in Ended,
         Leave(s, w), UNCHANGED <<cloudVars, local, token, mixed>>
  PROVE  SyncInv'
<1> USE DEF SyncInv, cloudVars, opVars, pageVars, Goto,
            Fetching, Ended, None, Times, Changes, NoPage, Leave, Clear
<1>1. TypeOK' BY DEF TypeOK
<1>2. LogOrder' BY DEF TypeOK, LogOrder, LogOrder, Unmixed, Shows
<1>3. FetchAlone' BY DEF TypeOK, FetchAlone, LogOrder, Unmixed, Shows
<1>4. FetchCovers' BY DEF TypeOK, FetchCovers, LogOrder, Unmixed, Shows
<1>5. PageCovers' BY DEF TypeOK, PageCovers, LogOrder, Unmixed, Shows
<1>6. WriteNewer' BY DEF TypeOK, WriteNewer, LogOrder, Unmixed, Shows
<1>7. TokenCovers' BY DEF TypeOK, TokenCovers, LogOrder, Unmixed, Shows
<1> QED BY <1>1, <1>2, <1>3, <1>4, <1>5, <1>6, <1>7

(* It is preserved by the start of a fetch.                                *)
LEMMA ExecuteStep ==
  ASSUME SyncInv, NEW s \in Syncs, Execute(s)
  PROVE  SyncInv'
<1> USE DEF SyncInv, cloudVars, opVars, pageVars, Goto,
            Fetching, Ended, None, Times, Changes, NoPage, Execute
<1>1. TypeOK' BY DEF TypeOK
<1>2. LogOrder' BY DEF TypeOK, LogOrder, LogOrder, Unmixed, Shows
<1>3. FetchAlone' BY DEF TypeOK, FetchAlone, LogOrder, Unmixed, Shows
<1>4. FetchCovers'
  <2> SUFFICES ASSUME Unmixed', NEW o \in Syncs, st'[o] \in Fetching,
                      NEW r \in Recs \ RuleSets, ver[r] \in 1 .. tok'[o]
               PROVE  Shows(r)'
    BY DEF FetchCovers
  <2>1. Unmixed BY DEF Unmixed
  <2>2. CASE o = s
    BY <2>1, <2>2 DEF TypeOK, TokenCovers, Unmixed, Shows
  <2>3. CASE o # s
    BY <2>1, <2>3 DEF TypeOK, FetchCovers, Unmixed, Shows
  <2> QED BY <2>2, <2>3
<1>5. PageCovers' BY DEF TypeOK, PageCovers, LogOrder, Unmixed, Shows
<1>6. WriteNewer' BY DEF TypeOK, WriteNewer, LogOrder, Unmixed, Shows
<1>7. TokenCovers' BY DEF TypeOK, TokenCovers, LogOrder, Unmixed, Shows
<1> QED BY <1>1, <1>2, <1>3, <1>4, <1>5, <1>6, <1>7

(* It is preserved by the arrival of a page.                               *)
LEMMA PageStep ==
  ASSUME SyncInv, NEW s \in Syncs, NEW u \in Changes, Page(s, u)
  PROVE  SyncInv'
<1> USE DEF SyncInv, cloudVars, opVars, pageVars, Goto,
            Fetching, Ended, None, Times, Changes, NoPage, Page
<1>1. TypeOK' BY DEF TypeOK
<1>2. LogOrder' BY DEF TypeOK, LogOrder, LogOrder, Unmixed, Shows
<1>3. FetchAlone' BY DEF TypeOK, FetchAlone, LogOrder, Unmixed, Shows
<1>4. FetchCovers' BY DEF TypeOK, FetchCovers, LogOrder, Unmixed, Shows
<1>5. PageCovers' BY DEF TypeOK, PageCovers, LogOrder, Unmixed, Shows
<1>6. WriteNewer' BY DEF TypeOK, WriteNewer, LogOrder, Unmixed, Shows
<1>7. TokenCovers' BY DEF TypeOK, TokenCovers, LogOrder, Unmixed, Shows
<1> QED BY <1>1, <1>2, <1>3, <1>4, <1>5, <1>6, <1>7

(* It is preserved by an expired token.                                    *)
LEMMA ExpiredStep ==
  ASSUME SyncInv, NEW s \in Syncs, NEW o \in Syncs, FetchExpired(s, o)
  PROVE  SyncInv'
<1> USE DEF SyncInv, cloudVars, opVars, pageVars, Goto,
            Fetching, Ended, None, Times, Changes, NoPage, FetchExpired, Forget, Clear
<1>1. TypeOK' BY DEF TypeOK
<1>2. LogOrder' BY DEF TypeOK, LogOrder, LogOrder, Unmixed, Shows
<1>3. FetchAlone' BY DEF TypeOK, FetchAlone, LogOrder, Unmixed, Shows
<1>4. FetchCovers' BY DEF TypeOK, FetchCovers, LogOrder, Unmixed, Shows
<1>5. PageCovers' BY DEF TypeOK, PageCovers, LogOrder, Unmixed, Shows
<1>6. WriteNewer' BY DEF TypeOK, WriteNewer, LogOrder, Unmixed, Shows
<1>7. TokenCovers' BY DEF TypeOK, TokenCovers, LogOrder, Unmixed, Shows
<1> QED BY <1>1, <1>2, <1>3, <1>4, <1>5, <1>6, <1>7

(* Marking a record processed takes it, and nothing else, off the page.    *)
LEMMA ProcessedEffect ==
  ASSUME TypeOK, NEW s \in Syncs, NEW r \in Recs, Processed(s, r)
  PROVE  /\ page' \in [Syncs -> [Recs -> Times \cup {None}]]
         /\ page'[s][r] = None
         /\ \A o \in Syncs, x \in Recs : o # s \/ x # r => page'[o][x] = page[o][x]
<1> USE DEF TypeOK, Processed, None, Times
<1>1. page[s] \in [Recs -> Times \cup {None}] OBVIOUS
<1> DEFINE q == [page[s] EXCEPT ![r] = None]
<1>2. /\ q \in [Recs -> Times \cup {None}] /\ q[r] = None
      /\ \A x \in Recs : x # r => q[x] = page[s][x]
  BY <1>1
<1>3. page' = [page EXCEPT ![s] = q] OBVIOUS
<1> HIDE DEF q
<1> QED BY <1>2, <1>3

(* While a fetch is the only one under way, no other applies a page, and   *)
(* the stored token says no more than its own.                             *)
LEMMA OnlyFetch ==
  ASSUME SyncInv, NEW s \in Syncs, st[s] = "applying", Unmixed
  PROVE  /\ \A o \in Syncs : st[o] \in Fetching => o = s
         /\ \A r \in Recs \ RuleSets : ver[r] \in 1 .. tok[s] => Shows(r)
         /\ token = 0 \/ token = tok[s]
BY DEF SyncInv, FetchAlone, FetchCovers, Fetching

(* It is preserved by a comparison.                                        *)
LEMMA CompareStep ==
  ASSUME SyncInv, NEW s \in Syncs, NEW r \in Recs, Compare(s, r)
  PROVE  SyncInv'
<1> USE DEF SyncInv, cloudVars, Fetching, Ended, None, Times, Changes
<1>0. /\ st[s] = "applying" /\ cur[s] = {} /\ page[s][r] # None /\ page[s][r] # 0
      /\ UNCHANGED <<cloudVars, local, token, st, opVars, pageTok, more, mixed>>
  BY DEF Compare, Saved, Todo
<1> USE DEF opVars
<1>1. CASE r \notin RuleSets /\ Newer(s, r)
  <2>1. cur' = [cur EXCEPT ![s] = {r}] /\ page' = page /\ page[s][r] > local[r]
    BY <1>1 DEF Compare, Newer
  <2>2. TypeOK' BY <1>0, <2>1 DEF TypeOK
  <2>3. LogOrder' /\ FetchAlone' /\ FetchCovers' /\ PageCovers' /\ TokenCovers'
    BY <1>0, <2>1 DEF LogOrder, FetchAlone, FetchCovers, PageCovers, TokenCovers,
                      Unmixed, Shows
  <2>4. WriteNewer' BY <1>0, <1>1, <2>1 DEF WriteNewer, TypeOK
  <2> QED BY <2>2, <2>3, <2>4
<1>2. CASE ~(r \notin RuleSets /\ Newer(s, r))
  <2>1. Processed(s, r) /\ cur' = cur
    BY <1>2 DEF Compare
  <2>2. /\ page' \in [Syncs -> [Recs -> Times \cup {None}]] /\ page'[s][r] = None
        /\ \A o \in Syncs, x \in Recs : o # s \/ x # r => page'[o][x] = page[o][x]
    BY <2>1, ProcessedEffect
  <2>3. TypeOK' BY <1>0, <2>1, <2>2 DEF TypeOK
  <2>4. LogOrder' /\ FetchAlone' /\ FetchCovers' /\ TokenCovers'
    BY <1>0, <2>1, <2>2 DEF LogOrder, FetchAlone, FetchCovers, TokenCovers, Unmixed, Shows
  <2>5. ASSUME r \notin RuleSets, ver[r] <= pageTok[s] PROVE Shows(r)
    BY <1>0, <1>2, <2>5 DEF PageCovers, Newer, Shows, TypeOK
  <2>6. PageCovers'
    BY <1>0, <2>1, <2>2, <2>5 DEF PageCovers, Unmixed, Shows
  <2>7. WriteNewer' BY <1>0, <2>1, <2>2 DEF WriteNewer, TypeOK
  <2> QED BY <2>3, <2>4, <2>6, <2>7
<1> QED BY <1>1, <1>2

(* The write of a record and its deletion put the page's value into the    *)
(* store, which is the cloud's unless the record changed since.            *)
LEMMA PutStep ==
  ASSUME SyncInv, NEW s \in Syncs, NEW r \in Recs,
         st[s] = "applying", page[s][r] # None, Processed(s, r),
         local' = [local EXCEPT ![r] = page[s][r]],
         cur' = [cur EXCEPT ![s] = {}],
         UNCHANGED <<cloudVars, token, st, opVars, pageTok, more, mixed>>
  PROVE  SyncInv'
<1> USE DEF SyncInv, cloudVars, opVars, Fetching, Ended, None, Times, Changes
<1>1. /\ page' \in [Syncs -> [Recs -> Times \cup {None}]] /\ page'[s][r] = None
      /\ \A o \in Syncs, x \in Recs : o # s \/ x # r => page'[o][x] = page[o][x]
  BY ProcessedEffect
<1>2. TypeOK'
  <2>1. page[s][r] \in Times BY DEF TypeOK
  <2>2. local' \in [Recs -> Times] BY <2>1 DEF TypeOK
  <2>3. cur' \in [Syncs -> SUBSET Recs] BY DEF TypeOK
  <2> QED BY <1>1, <2>2, <2>3 DEF TypeOK
<1>3. LogOrder' /\ FetchAlone' BY DEF LogOrder, FetchAlone, Unmixed
<1>4. ver[r] > tok[s] /\ (ver[r] <= pageTok[s] => page[s][r] = at[r])
  BY DEF PageCovers
<1>5. \A x \in Recs : x # r /\ Shows(x) => Shows(x)'
  BY DEF Shows, TypeOK
<1>6. ver[r] <= pageTok[s] => Shows(r)'
  BY <1>4 DEF Shows, TypeOK
<1>7. FetchCovers'
  BY <1>4, <1>5, OnlyFetch DEF FetchCovers, Unmixed, TypeOK
<1>8. PageCovers'
  <2> SUFFICES ASSUME NEW o \in Syncs, st[o] = "applying", NEW x \in Recs
               PROVE  /\ page'[o][x] # None => ver[x] > tok[o]
                      /\ page'[o][x] # None /\ ver[x] <= pageTok[o] => page'[o][x] = at[x]
                      /\ Unmixed /\ x \notin RuleSets /\ page'[o][x] = None
                             /\ ver[x] > tok[o] /\ ver[x] <= pageTok[o] => Shows(x)'
    BY DEF PageCovers, Unmixed
  <2>1. CASE o # s \/ x # r
    BY <1>1, <1>5, <1>6, <2>1, OnlyFetch DEF PageCovers, Fetching
  <2>2. CASE o = s /\ x = r
    BY <1>1, <1>6, <2>2
  <2> QED BY <2>1, <2>2
<1>9. WriteNewer'
  <2> SUFFICES ASSUME NEW o \in Syncs, NEW x \in cur'[o]
               PROVE  /\ st[o] = "applying" /\ x \notin RuleSets
                      /\ page'[o][x] # None /\ page'[o][x] # 0
                      /\ mixed = {} => page'[o][x] > local'[x]
    BY DEF WriteNewer
  <2>1. o # s /\ x \in cur[o] /\ x \in Recs BY DEF TypeOK
  <2>2. mixed # {}
    <3>1. ASSUME mixed = {} PROVE FALSE
      BY <2>1, <3>1, OnlyFetch DEF WriteNewer, Unmixed
    <3> QED BY <3>1
  <2> QED BY <1>1, <2>1, <2>2 DEF WriteNewer
<1>10. TokenCovers'
  BY <1>4, <1>5, OnlyFetch DEF TokenCovers, Unmixed, TypeOK
<1> QED BY <1>2, <1>3, <1>7, <1>8, <1>9, <1>10

(* It is preserved by the write of a record.                               *)
LEMMA WriteStep ==
  ASSUME SyncInv, NEW s \in Syncs, NEW r \in Recs, Write(s, r)
  PROVE  SyncInv'
<1>1. st[s] = "applying" /\ page[s][r] # None
  BY DEF Write, SyncInv, WriteNewer
<1> QED BY <1>1, PutStep DEF Write

(* It is preserved by the deletion of a record.                            *)
LEMMA DeleteStep ==
  ASSUME SyncInv, NEW s \in Syncs, NEW r \in Recs, Delete(s, r)
  PROVE  SyncInv'
<1>1. /\ st[s] = "applying" /\ page[s][r] # None /\ page[s][r] = 0
      /\ cur' = [cur EXCEPT ![s] = {}]
  BY DEF Delete, Saved, Todo, SyncInv, TypeOK
<1> QED BY <1>1, PutStep DEF Delete

(* It is preserved by the end of a page.                                   *)
LEMMA PageDoneStep ==
  ASSUME SyncInv, NEW s \in Syncs, PageDone(s)
  PROVE  SyncInv'
<1> USE DEF SyncInv, cloudVars, opVars, pageVars, Goto,
            Fetching, Ended, None, Times, Changes
<1>1. /\ st[s] = "applying" /\ \A r \in Recs : page[s][r] = None
      /\ token' = pageTok[s] /\ tok' = [tok EXCEPT ![s] = pageTok[s]]
      /\ UNCHANGED <<cloudVars, local, page, cur, mixed>>
  BY DEF PageDone, Todo
<1>2. st'[s] \in {"fetching", "pushing"} /\ \A o \in Syncs : o # s => st'[o] = st[o]
  BY DEF PageDone, TypeOK
<1>3. TypeOK' BY DEF PageDone, TypeOK
<1>4. LogOrder' BY DEF PageDone, LogOrder, TypeOK
<1>5. ASSUME Unmixed, NEW r \in Recs \ RuleSets, ver[r] \in 1 .. pageTok[s]
      PROVE  Shows(r)
  <2>1. CASE ver[r] <= tok[s]
    BY <1>1, <1>5, <2>1, OnlyFetch DEF TypeOK
  <2>2. CASE ver[r] > tok[s]
    BY <1>1, <1>5, <2>2 DEF PageCovers, TypeOK
  <2> QED BY <2>1, <2>2 DEF TypeOK
<1>6. ASSUME Unmixed, NEW o \in Syncs, st'[o] \in Fetching PROVE o = s
  BY <1>1, <1>2, <1>6, OnlyFetch
<1>7. FetchAlone'
  BY <1>1, <1>6 DEF FetchAlone, Unmixed, TypeOK
<1>8. FetchCovers'
  BY <1>1, <1>5, <1>6 DEF FetchCovers, Unmixed, Shows, TypeOK
<1>9. PageCovers'
  BY <1>1, <1>2 DEF PageDone, PageCovers, Unmixed, Shows, TypeOK
<1>10. WriteNewer'
  BY <1>1, <1>2 DEF WriteNewer, TypeOK
<1>11. TokenCovers'
  BY <1>1, <1>5 DEF TokenCovers, Unmixed, Shows
<1> QED BY <1>3, <1>4, <1>7, <1>8, <1>9, <1>10, <1>11

(* It is preserved by the end of the app.                                  *)
LEMMA KillStep ==
  ASSUME SyncInv, Kill
  PROVE  SyncInv'
<1> USE DEF SyncInv, cloudVars, opVars, pageVars, Goto,
            Fetching, Ended, None, Times, Changes, NoPage, Kill
<1>1. TypeOK' BY DEF TypeOK
<1>2. LogOrder' BY DEF TypeOK, LogOrder, LogOrder, Unmixed, Shows
<1>3. FetchAlone' BY DEF TypeOK, FetchAlone, LogOrder, Unmixed, Shows
<1>4. FetchCovers' BY DEF TypeOK, FetchCovers, LogOrder, Unmixed, Shows
<1>5. PageCovers' BY DEF TypeOK, PageCovers, LogOrder, Unmixed, Shows
<1>6. WriteNewer' BY DEF TypeOK, WriteNewer, LogOrder, Unmixed, Shows
<1>7. TokenCovers' BY DEF TypeOK, TokenCovers, LogOrder, Unmixed, Shows
<1> QED BY <1>1, <1>2, <1>3, <1>4, <1>5, <1>6, <1>7

(* The invariant holds in every reachable state.                           *)
THEOREM SyncSafe == Spec => []SyncInv
<1>1. SyncInv /\ [Next]_vars => SyncInv'
  <2> SUFFICES ASSUME SyncInv, [Next]_vars PROVE SyncInv' OBVIOUS
  <2>1. ASSUME NEW r \in Recs, NEW t \in Times, CloudChange(r, t) \/ UserEdit(r, t)
        PROVE  SyncInv'
    BY <2>1, ChangeStep, EditStep
  <2>2. ASSUME NEW s \in Syncs, NEW h \in BOOLEAN, Sync(s, h) PROVE SyncInv'
    BY <2>2, SyncStep
  <2>3. ASSUME NEW s \in Syncs, Step(s) PROVE SyncInv'
    <3>1. CASE Setup(s) \/ FetchBusy(s) \/ FetchFails(s) \/ WriteFails(s) \/ Push(s)
      <4>1. \/ \E w \in Ended : Leave(s, w) /\ UNCHANGED <<cloudVars, local, token, mixed>>
            \/ st[s] = "setup" /\ Goto(s, "queued")
                  /\ UNCHANGED <<opVars, pageVars, cloudVars, local, token, mixed>>
            \/ tries[s] < MaxRetry /\ tries' = [tries EXCEPT ![s] = tries[s] + 1]
                  /\ UNCHANGED <<st, tok, pageVars, cloudVars, local, token, mixed>>
        BY <3>1 DEF Setup, FetchBusy, RetryFetch, FetchFails, WriteFails, Push, Ended
      <4>2. CASE st[s] = "setup" /\ Goto(s, "queued")
                  /\ UNCHANGED <<opVars, pageVars, cloudVars, local, token, mixed>>
        BY <4>2 DEF SyncInv, TypeOK, LogOrder, FetchAlone, FetchCovers, PageCovers,
             WriteNewer, TokenCovers, Unmixed, Shows, Goto, opVars, pageVars,
             cloudVars, Fetching, Ended
      <4>3. CASE tries[s] < MaxRetry /\ tries' = [tries EXCEPT ![s] = tries[s] + 1]
                  /\ UNCHANGED <<st, tok, pageVars, cloudVars, local, token, mixed>>
        BY <4>3 DEF SyncInv, TypeOK, LogOrder, FetchAlone, FetchCovers, PageCovers,
             WriteNewer, TokenCovers, Unmixed, Shows, pageVars, cloudVars
      <4> QED BY <4>1, <4>2, <4>3, LeaveStep
    <3>2. CASE Execute(s)
      BY <3>2, ExecuteStep
    <3>3. ASSUME NEW u \in Changes, Page(s, u) PROVE SyncInv'
      BY <3>3, PageStep
    <3>4. ASSUME NEW o \in Syncs, FetchExpired(s, o) PROVE SyncInv'
      BY <3>4, ExpiredStep
    <3>5. ASSUME NEW r \in Recs, Compare(s, r) \/ Write(s, r) \/ Delete(s, r)
          PROVE  SyncInv'
      BY <3>5, CompareStep, WriteStep, DeleteStep
    <3>6. CASE PageDone(s)
      BY <3>6, PageDoneStep
    <3> QED BY <2>3, <3>1, <3>2, <3>3, <3>4, <3>5, <3>6 DEF Step
  <2>4. CASE Kill
    BY <2>4, KillStep
  <2>5. CASE UNCHANGED vars
    BY <2>5 DEF vars, cloudVars, opVars, pageVars, SyncInv, TypeOK, LogOrder,
         FetchAlone, FetchCovers, PageCovers, WriteNewer, TokenCovers, Unmixed, Shows
  <2> QED BY <2>1, <2>2, <2>3, <2>4, <2>5 DEF Next
<1> QED BY InitSync, <1>1, PTL DEF Spec

(* Types: every state of every execution is well formed.                   *)
THEOREM SyncTyped == Spec => []TypeOK
<1>1. SyncInv => TypeOK BY DEF SyncInv
<1> QED BY <1>1, SyncSafe, PTL

(* Unless fetches overlapped, all that a later fetch will not bring again  *)
(* has been applied.                                                       *)
THEOREM TokenIsCovered == Spec => []TokenCovers
<1>1. SyncInv => TokenCovers BY DEF SyncInv
<1> QED BY <1>1, SyncSafe, PTL

(* No record replaces a newer object, unless it was edited in between.     *)
THEOREM NeverGoesBack == Spec => NeverOlder
<1>1. SyncInv /\ [Next]_vars =>
        [mixed = {} => \A r \in Recs : local'[r] < local[r] => local'[r] = 0]_vars
  <2> SUFFICES ASSUME SyncInv, Next, mixed = {}, NEW r \in Recs,
                      local'[r] < local[r]
               PROVE  local'[r] = 0
    OBVIOUS
  <2> USE DEF SyncInv, TypeOK, Times
  <2>1. ASSUME NEW x \in Recs, NEW t \in Times, CloudChange(x, t) \/ UserEdit(x, t)
        PROVE  local'[r] = 0
    BY <2>1 DEF CloudChange, UserEdit
  <2>2. ASSUME NEW s \in Syncs, NEW h \in BOOLEAN, Sync(s, h) PROVE local'[r] = 0
    BY <2>2 DEF Sync
  <2>3. ASSUME NEW s \in Syncs, Step(s) PROVE local'[r] = 0
    <3>1. ASSUME NEW x \in Recs, Write(s, x) PROVE local'[r] = 0
      BY <3>1 DEF Write, WriteNewer
    <3>2. ASSUME NEW x \in Recs, Delete(s, x) PROVE local'[r] = 0
      BY <3>2 DEF Delete
    <3>3. ASSUME local' = local PROVE local'[r] = 0
      BY <3>3
    <3>4. CASE Setup(s) \/ Execute(s) \/ FetchBusy(s) \/ FetchFails(s) \/ WriteFails(s)
               \/ PageDone(s) \/ Push(s)
      BY <3>3, <3>4 DEF Setup, Execute, FetchBusy, FetchFails, WriteFails, PageDone, Push
    <3>5. ASSUME NEW o \in Syncs, FetchExpired(s, o) PROVE local'[r] = 0
      BY <3>3, <3>5 DEF FetchExpired
    <3>6. ASSUME NEW u \in Changes, Page(s, u) PROVE local'[r] = 0
      BY <3>3, <3>6 DEF Page
    <3>7. ASSUME NEW x \in Recs, Compare(s, x) PROVE local'[r] = 0
      BY <3>3, <3>7 DEF Compare
    <3> QED BY <2>3, <3>1, <3>2, <3>4, <3>5, <3>6, <3>7 DEF Step
  <2>4. CASE Kill
    BY <2>4 DEF Kill
  <2> QED BY <2>1, <2>2, <2>3, <2>4 DEF Next
<1> QED BY <1>1, SyncSafe, PTL DEF NeverOlder, Spec
=============================================================================
