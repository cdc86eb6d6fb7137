-------------------------- MODULE ReplicationProofs --------------------------
(***************************************************************************)
(* Theorems about Replication, for every value of the constants.            *)
(***************************************************************************)
EXTENDS Replication, Greatest, TLAPS, FiniteSetTheorems

-----------------------------------------------------------------------------
(* Facts about the feed and its pages.                                      *)

\* The watermark a page leads to is a time no earlier than the one before it
\* and than every timestamp on the page.
LEMMA MaxModificationTSIsLatest ==
    ASSUME NEW wm \in Times, NEW page \in Pages
    PROVE  /\ MaxModificationTS(wm, page) \in {wm} \cup {page[k].ts : k \in DOMAIN page}
           /\ MaxModificationTS(wm, page) \in Times
           /\ MaxModificationTS(wm, page) >= wm
           /\ \A k \in DOMAIN page : MaxModificationTS(wm, page) >= page[k].ts
<1> DEFINE S == {wm} \cup {page[k].ts : k \in DOMAIN page}
<1>1. S \in SUBSET Times /\ S # {}
  BY DEF Pages, FeedRecord
<1>2. \E m \in S : \A x \in S : x <= m
  BY <1>1, GreatestExists, FeedConstants DEF Times
<1>3. \E m \in S : \A x \in S : m >= x
  BY <1>1, <1>2 DEF Times
<1>4. Max(S) \in S /\ \A x \in S : Max(S) >= x
  BY <1>3 DEF Max
<1> QED
  BY <1>1, <1>4 DEF MaxModificationTS

LEMMA EmptyValuesTyped ==
    /\ 0 \in Times
    /\ NoURL \in URLs
    /\ EmptyPage \in Pages
    /\ NoState \in SyncStates
    /\ Idle \in Runs
<1>1. 0 \in Times
  BY FeedConstants DEF Times
<1>2. NoURL \in URLs
  BY <1>1 DEF NoURL, URLs
<1>3. EmptyPage \in [{} -> FeedRecord] /\ EmptyPage \in [{} -> Times]
  BY DEF EmptyPage
<1>4. NoState \in SyncStates
  BY <1>1, <1>2 DEF NoState, SyncStates
<1>5. EmptyPage \in Pages
  BY <1>3 DEF Pages
<1>6. Idle \in Runs
  <2>1. EmptyPage \in UNION {[S -> Times] : S \in SUBSET Keys}
    BY <1>3
  <2> QED
    BY <1>1, <1>2, <1>4, <1>5, <2>1 DEF Idle, Runs
<1> QED
  BY <1>1, <1>2, <1>4, <1>5, <1>6

LEMMA QueryTyped ==
    ASSUME NEW ge \in Times, NEW view \in BOOLEAN, NEW keys \in SUBSET Keys
    PROVE  Query(ge, view, keys) \in URLs
BY EmptyValuesTyped, FeedConstants DEF Query, URLs, Times

\* What the service answers is typed.
LEMMA FetchTyped ==
    ASSUME TypeOK, NEW url \in URLs, NEW lag
    PROVE  /\ PageOf(url, lag) \in Pages
           /\ NextLink(url, lag) \in URLs
<1>1. PageKeys(url, lag) \subseteq Keys
  BY DEF PageKeys, Matching, URLs
<1>2. PageOf(url, lag) \in [PageKeys(url, lag) -> FeedRecord]
  BY <1>1 DEF PageOf, TypeOK
<1>3. PageOf(url, lag) \in Pages
  BY <1>1, <1>2 DEF Pages
<1>4. NextLink(url, lag) \in URLs
  BY EmptyValuesTyped, FeedConstants DEF NextLink, URLs
<1> QED
  BY <1>3, <1>4

-----------------------------------------------------------------------------
(* Type correctness.                                                        *)

LEMMA InitTyped == Init => TypeOK
<1> SUFFICES ASSUME Init PROVE TypeOK
  OBVIOUS
<1>1. now \in Times
  BY FeedConstants DEF Init, FeedInit, Times
<1>2. feed \in [Keys -> FeedRecord]
  <2>1. {Unlisted} \cup [ts : 1..InitTime, view : {TRUE}, listed : {TRUE}] \subseteq FeedRecord
    <3>1. Unlisted \in FeedRecord
      BY EmptyValuesTyped DEF Unlisted, FeedRecord
    <3>2. 1..InitTime \subseteq Times
      BY FeedConstants DEF Times
    <3> QED
      BY <3>1, <3>2 DEF FeedRecord
  <2> QED
    BY <2>1 DEF Init, FeedInit
<1>3. rows \in [Keys -> Times] /\ syncState \in SyncStates /\ run \in [Procs -> Runs]
  BY EmptyValuesTyped DEF Init, EngineInit
<1>4. faults \in 0..MaxFaults
  BY EngineConstants DEF Init, EngineInit
<1> QED
  BY <1>1, <1>2, <1>3, <1>4 DEF TypeOK

LEMMA FeedStepTyped ==
    ASSUME TypeOK, FeedNext, UNCHANGED <<rows, syncState, run, faults>>
    PROVE  TypeOK'
<1>1. now' \in Times /\ feed' \in [Keys -> FeedRecord]
  <2>1. ASSUME NEW S \in Batches, Modify(S) \/ Revoke(S)
        PROVE  now' \in Times /\ feed' \in [Keys -> FeedRecord]
    <3>1. now' = now + 1 /\ now' \in Times
      BY <2>1, FeedConstants DEF Modify, Revoke, TypeOK, Times
    <3>2. \A v \in BOOLEAN : [ts |-> now + 1, view |-> v, listed |-> TRUE] \in FeedRecord
      BY <3>1 DEF FeedRecord
    <3> QED
      BY <2>1, <3>1, <3>2 DEF Modify, Revoke, TypeOK
  <2>2. ASSUME NEW k \in Keys, Expire(k)
        PROVE  now' \in Times /\ feed' \in [Keys -> FeedRecord]
    BY <2>2 DEF Expire, TypeOK, FeedRecord
  <2> QED
    BY <2>1, <2>2 DEF FeedNext
<1> QED
  BY <1>1 DEF TypeOK

LEMMA BecomesTyped ==
    ASSUME TypeOK, NEW p \in Procs, NEW r \in Runs, Becomes(p, r)
    PROVE  run' \in [Procs -> Runs]
BY DEF TypeOK, Becomes

LEMMA UpsertedTyped ==
    ASSUME TypeOK, NEW page \in Pages
    PROVE  Upserted(page) \in [Keys -> Times]
BY DEF TypeOK, Upserted, Pages, FeedRecord

LEMMA DeletedTyped ==
    ASSUME TypeOK, NEW S
    PROVE  Deleted(S) \in [Keys -> Times]
BY EmptyValuesTyped DEF TypeOK, Deleted

LEMMA BeginTyped ==
    ASSUME TypeOK
    PROVE  /\ Begin("backfill", "fetch") \in Runs
           /\ Begin("sync", "fetch") \in Runs
           /\ Begin("reconcile", "sweep") \in Runs
BY EmptyValuesTyped DEF TypeOK, Begin, Runs

\* The shared steps of a run.
LEMMA FetchPageTyped ==
    ASSUME TypeOK, NEW p \in Procs, FetchPage(p), UNCHANGED <<feed, now, rows, syncState, faults>>
    PROVE  TypeOK'
<1>1. run[p] \in Runs
  BY DEF TypeOK
<1>2. PICK lag \in Lags : Becomes(p, [run[p] EXCEPT !.pc = "upsert", !.page = PageOf(run[p].url, lag),
                                      !.next = NextLink(run[p].url, lag)])
  BY DEF FetchPage
<1>3. PICK next :
         /\ next = NextLink(run[p].url, lag)
         /\ Becomes(p, [run[p] EXCEPT !.pc = "upsert", !.page = PageOf(run[p].url, lag),
                                      !.next = next])
  BY <1>2
<1>4. run[p].url \in URLs
  BY <1>1 DEF Runs
<1>5. next \in URLs /\ PageOf(run[p].url, lag) \in Pages
  BY <1>3, <1>4, FetchTyped
<1>6. [run[p] EXCEPT !.pc = "upsert", !.page = PageOf(run[p].url, lag), !.next = next] \in Runs
  BY <1>1, <1>5 DEF Runs
<1>7. run' \in [Procs -> Runs]
  BY <1>3, <1>6, BecomesTyped
<1> QED
  BY <1>7 DEF TypeOK

LEMMA StorePageTyped ==
    ASSUME TypeOK, NEW p \in Procs, NEW done \in {"persist", "advance"},
           UpsertPage(p, done) \/ DeletePage(p, done),
           UNCHANGED <<feed, now, syncState, faults>>
    PROVE  TypeOK'
<1>1. run[p] \in Runs /\ run[p].page \in Pages
  BY DEF TypeOK, Runs
<1>2. rows' \in [Keys -> Times]
  BY <1>1, UpsertedTyped, DeletedTyped DEF UpsertPage, DeletePage
<1>3. \A pc \in {done, "delete"} : [run[p] EXCEPT !.pc = pc] \in Runs
  BY <1>1 DEF Runs
<1>4. run' \in [Procs -> Runs]
  BY <1>3, BecomesTyped DEF UpsertPage, DeletePage
<1> QED
  BY <1>2, <1>4 DEF TypeOK

LEMMA FaultTyped ==
    ASSUME TypeOK, Fault
    PROVE  faults' \in 0..MaxFaults
BY EngineConstants DEF TypeOK, Fault

LEMMA BackfillTyped ==
    ASSUME TypeOK, NEW p \in Procs, BackfillNext(p)
    PROVE  TypeOK'
<1>0. run[p] \in Runs
  BY DEF TypeOK
<1>1. ASSUME NEW force \in BOOLEAN, BackfillStart(p, force) PROVE TypeOK'
  <2>1. BackfillQuery(Since) \in URLs
    BY QueryTyped, EngineConstants DEF BackfillQuery
  <2>2. [Begin("backfill", "fetch") EXCEPT
           !.wm = IF Resuming THEN syncState.wm ELSE Since,
           !.url = IF Resuming THEN syncState.inProgress ELSE BackfillQuery(Since)] \in Runs
    BY <2>1, BeginTyped, EngineConstants DEF TypeOK, SyncStates, Runs
  <2> QED
    BY <1>1, <2>2, BecomesTyped DEF BackfillStart, TypeOK
<1>2. CASE BackfillCap(p)
  BY <1>2, EmptyValuesTyped, BecomesTyped DEF BackfillCap, TypeOK
<1>3. CASE BackfillFetch(p)
  BY <1>3, FetchPageTyped DEF BackfillFetch
<1>4. CASE BackfillReject(p)
  <2>1. BackfillQuery(run[p].wm) \in URLs
    BY <1>0, QueryTyped DEF BackfillQuery, Runs
  <2>2. [run[p] EXCEPT !.rebuilt = TRUE, !.url = BackfillQuery(run[p].wm)] \in Runs
    BY <1>0, <2>1 DEF Runs
  <2> QED
    BY <1>4, <2>2, BecomesTyped, FaultTyped DEF BackfillReject, BackfillRebuild, TypeOK
<1>5. CASE BackfillUpsert(p)
  BY <1>5, StorePageTyped DEF BackfillUpsert
<1>6. CASE BackfillDelete(p)
  BY <1>6, StorePageTyped DEF BackfillDelete
<1>7. CASE BackfillPersist(p)
  <2> DEFINE wm == MaxModificationTS(run[p].wm, run[p].page)
             next == run[p].next
             r == [run[p] EXCEPT
                     !.pc = IF next = NoURL THEN "complete" ELSE "fetch",
                     !.wm = wm, !.url = next, !.page = EmptyPage, !.next = NoURL,
                     !.rebuilt = FALSE, !.pages = IF MaxPages > 0 THEN @ + 1 ELSE @]
  <2>1. wm \in Times
    BY <1>0, MaxModificationTSIsLatest DEF Runs
  <2> HIDE DEF wm
  <2>2. r \in Runs
    <3> DEFINE pages == IF MaxPages > 0 THEN run[p].pages + 1 ELSE run[p].pages
               pc == IF next = NoURL THEN "complete" ELSE "fetch"
    <3>1. pages \in Nat
      BY <1>0 DEF Runs
    <3>2. pc \in {"complete", "fetch"} /\ next \in URLs
      BY <1>0 DEF Runs
    <3>3. r = [run[p] EXCEPT !.pc = pc, !.wm = wm, !.url = next, !.page = EmptyPage,
                             !.next = NoURL, !.rebuilt = FALSE, !.pages = pages]
      BY <1>0 DEF Runs
    <3> HIDE DEF pages, pc, next, r
    <3> QED
      BY <1>0, <2>1, <3>1, <3>2, <3>3, EmptyValuesTyped DEF Runs
  <2>3. syncState' \in SyncStates
    <3>1. syncState' = [wm |-> wm, inProgress |-> next, completedAt |-> 0,
                        reconciledAt |-> run[p].st.reconciledAt]
      BY <1>7 DEF BackfillPersist, wm, Checkpoint
    <3> QED
      BY <1>0, <2>1, <3>1, EmptyValuesTyped DEF Runs, SyncStates
  <2>4. Becomes(p, r)
    BY <1>7 DEF BackfillPersist, wm, Checkpoint
  <2> QED
    BY <1>7, <2>2, <2>3, <2>4, BecomesTyped DEF BackfillPersist, TypeOK, Checkpoint
<1>8. CASE BackfillComplete(p)
  <2>1. syncState' \in SyncStates
    BY <1>0, <1>8, EmptyValuesTyped DEF BackfillComplete, Runs, SyncStates, TypeOK, FinalWatermark
  <2> QED
    BY <1>8, <2>1, EmptyValuesTyped, BecomesTyped DEF BackfillComplete, TypeOK, FinalWatermark
<1> QED
  BY <1>1, <1>2, <1>3, <1>4, <1>5, <1>6, <1>7, <1>8 DEF BackfillNext, BackfillStep

LEMMA SyncTyped ==
    ASSUME TypeOK, NEW p \in Procs, SyncNext(p)
    PROVE  TypeOK'
<1>0. run[p] \in Runs
  BY DEF TypeOK
<1>1. CASE SyncStart(p)
  <2>1. SyncQuery(syncState.wm) \in URLs /\ syncState.wm \in Times
    BY QueryTyped DEF SyncQuery, TypeOK, SyncStates
  <2>2. [Begin("sync", "fetch") EXCEPT !.wm = syncState.wm,
                                       !.url = SyncQuery(syncState.wm)] \in Runs
    BY <2>1, BeginTyped DEF Runs
  <2> QED
    BY <1>1, <2>2, BecomesTyped DEF SyncStart, TypeOK
<1>2. CASE SyncFetch(p)
  BY <1>2, FetchPageTyped DEF SyncFetch
<1>3. CASE SyncReject(p)
  <2>1. SyncQuery(run[p].wm) \in URLs
    BY <1>0, QueryTyped DEF SyncQuery, Runs
  <2>2. [run[p] EXCEPT !.rebuilt = TRUE, !.url = SyncQuery(run[p].wm)] \in Runs
    BY <1>0, <2>1 DEF Runs
  <2> QED
    BY <1>3, <2>2, BecomesTyped, FaultTyped DEF SyncReject, SyncRebuild, TypeOK
<1>4. CASE SyncUpsert(p)
  BY <1>4, StorePageTyped DEF SyncUpsert
<1>5. CASE SyncDelete(p)
  BY <1>5, StorePageTyped DEF SyncDelete
<1>6. CASE SyncPersist(p)
  <2> DEFINE wm == MaxModificationTS(run[p].wm, run[p].page)
             next == run[p].next
             r == IF next = NoURL THEN Idle
                  ELSE [run[p] EXCEPT !.pc = "fetch", !.wm = wm, !.url = next,
                                      !.page = EmptyPage, !.next = NoURL,
                                      !.rebuilt = FALSE]
  <2>1. wm \in Times
    BY <1>0, MaxModificationTSIsLatest DEF Runs
  <2> HIDE DEF wm
  <2>2. r \in Runs
    BY ZenonT(60), <1>0, <2>1, EmptyValuesTyped DEF Runs
  <2>3. syncState' \in SyncStates
    <3>1. syncState' = [run[p].st EXCEPT !.wm = wm, !.inProgress = NoURL]
      BY <1>6 DEF SyncPersist, wm, Saved
    <3> QED
      BY <1>0, <2>1, <3>1, EmptyValuesTyped DEF Runs, SyncStates
  <2>4. Becomes(p, r)
    BY <1>6 DEF SyncPersist, wm, Saved
  <2> QED
    BY <1>6, <2>2, <2>3, <2>4, BecomesTyped DEF SyncPersist, TypeOK, Saved
<1> QED
  BY <1>1, <1>2, <1>3, <1>4, <1>5, <1>6 DEF SyncNext, SyncStep

LEMMA ReconcileTyped ==
    ASSUME TypeOK, NEW p \in Procs, ReconcileNext(p)
    PROVE  TypeOK'
<1>0. run[p] \in Runs
  BY DEF TypeOK
<1> DEFINE Remotes == UNION {[S -> Times] : S \in SUBSET Keys}
<1>1. CASE ReconcileStart(p)
  <2>1. Query(0, TRUE, Keys) \in URLs
    BY QueryTyped, EmptyValuesTyped
  <2>2. [Begin("reconcile", "sweep") EXCEPT !.url = Query(0, TRUE, Keys)] \in Runs
    BY <2>1, BeginTyped DEF Runs
  <2> QED
    BY <1>1, <2>2, BecomesTyped DEF ReconcileStart, TypeOK, SweepQuery
<1>2. CASE ReconcileSweep(p)
  <2>0. PICK lag \in Lags : Becomes(p, [run[p] EXCEPT !.remote = MergeSwept(@, PageOf(run[p].url, lag)),
                                       !.url = NextLink(run[p].url, lag),
                                       !.pc = IF NextLink(run[p].url, lag) = NoURL THEN "diff" ELSE "sweep"])
    BY <1>2 DEF ReconcileSweep
  <2>1. PICK next :
          /\ next = NextLink(run[p].url, lag)
          /\ Becomes(p, [run[p] EXCEPT !.remote = MergeSwept(@, PageOf(run[p].url, lag)),
                                       !.url = next,
                                       !.pc = IF next = NoURL THEN "diff" ELSE "sweep"])
    BY <2>0
  <2> DEFINE page == PageOf(run[p].url, lag)
             remote == MergeSwept(run[p].remote, page)
  <2>2. page \in Pages /\ next \in URLs /\ run[p].remote \in Remotes
    BY <1>0, <2>1, FetchTyped DEF Runs
  <2> HIDE DEF page
  <2>3. remote \in Remotes
    <3>1. DOMAIN run[p].remote \subseteq Keys /\ \A k \in DOMAIN run[p].remote : run[p].remote[k] \in Times
      BY <2>2
    <3>2. DOMAIN page \subseteq Keys /\ \A k \in DOMAIN page : page[k].ts \in Times
      BY <2>2 DEF Pages, FeedRecord
    <3>3. remote \in [DOMAIN run[p].remote \cup DOMAIN page -> Times]
      BY <3>1, <3>2 DEF MergeSwept
    <3>4. DOMAIN run[p].remote \cup DOMAIN page \in SUBSET Keys
      BY <3>1, <3>2
    <3> QED
      BY <3>3, <3>4
  <2> HIDE DEF remote
  <2>4. [run[p] EXCEPT !.remote = remote, !.url = next,
                       !.pc = IF next = NoURL THEN "diff" ELSE "sweep"] \in Runs
    BY <1>0, <2>2, <2>3 DEF Runs
  <2>5. Becomes(p, [run[p] EXCEPT !.remote = remote, !.url = next,
                                  !.pc = IF next = NoURL THEN "diff" ELSE "sweep"])
    BY <2>1 DEF remote, page
  <2> QED
    BY <1>2, <2>4, <2>5, BecomesTyped DEF ReconcileSweep, TypeOK
<1>3. CASE ReconcileDiff(p)
  <2> DEFINE purge == {k \in Keys : rows[k] # 0 /\ k \notin Swept(p)}
             refetch == {k \in Swept(p) : IF rows[k] = 0 THEN IncludeMissing
                                          ELSE run[p].remote[k] > rows[k]}
  <2>1. purge \subseteq Keys /\ refetch \subseteq Keys
    BY <1>0 DEF Swept, Runs
  <2>2. Becomes(p, [run[p] EXCEPT !.pc = "purge", !.remote = EmptyPage,
                                  !.purge = purge, !.refetch = refetch])
    BY <1>3 DEF ReconcileDiff, Withdrawn, Stale
  <2> HIDE DEF purge, refetch
  <2>3. EmptyPage \in Remotes
    BY DEF EmptyPage
  <2>4. [run[p] EXCEPT !.pc = "purge", !.remote = EmptyPage,
                       !.purge = purge, !.refetch = refetch] \in Runs
    BY <1>0, <2>1, <2>3 DEF Runs
  <2> QED
    BY <1>3, <2>2, <2>4, BecomesTyped DEF ReconcileDiff, TypeOK, Withdrawn, Stale
<1>4. CASE ReconcilePurge(p)
  <2>1. PICK chunk : rows' = Deleted(chunk) /\ Becomes(p, [run[p] EXCEPT !.purge = @ \ chunk])
    BY <1>4 DEF ReconcilePurge
  <2>2. [run[p] EXCEPT !.purge = @ \ chunk] \in Runs
    BY <1>0 DEF Runs
  <2> QED
    BY <1>4, <2>1, <2>2, DeletedTyped, BecomesTyped DEF ReconcilePurge, TypeOK
<1>5. CASE ReconcilePick(p)
  <2>1. PICK chunk \in Chunks(run[p].refetch, ChunkSize) :
          Becomes(p, [run[p] EXCEPT !.pc = "fetch", !.url = Query(0, TRUE, chunk),
                                    !.refetch = @ \ chunk])
    BY <1>5 DEF ReconcilePick
  <2>2. chunk \subseteq Keys
    BY <1>0 DEF Chunks, Runs
  <2>3. Query(0, TRUE, chunk) \in URLs
    BY <2>2, QueryTyped, EmptyValuesTyped
  <2>4. [run[p] EXCEPT !.pc = "fetch", !.url = Query(0, TRUE, chunk),
                       !.refetch = @ \ chunk] \in Runs
    BY <1>0, <2>3 DEF Runs
  <2> QED
    BY <1>5, <2>1, <2>4, BecomesTyped DEF ReconcilePick, TypeOK
<1>6. CASE ReconcileFetch(p)
  BY <1>6, FetchPageTyped DEF ReconcileFetch
<1>7. CASE ReconcileUpsert(p)
  BY <1>7, StorePageTyped DEF ReconcileUpsert
<1>8. CASE ReconcileDelete(p)
  BY <1>8, StorePageTyped DEF ReconcileDelete
<1>9. CASE ReconcileAdvance(p)
  <2>1. [run[p] EXCEPT !.pc = IF run[p].next = NoURL THEN "purge" ELSE "fetch",
                       !.url = run[p].next, !.page = EmptyPage, !.next = NoURL] \in Runs
    BY <1>0, EmptyValuesTyped DEF Runs
  <2> QED
    BY <1>9, <2>1, BecomesTyped DEF ReconcileAdvance, TypeOK
<1>10. CASE ReconcileStamp(p)
  <2>1. syncState' \in SyncStates
    BY <1>0, <1>10 DEF ReconcileStamp, Runs, SyncStates, TypeOK, Stamped
  <2> QED
    BY <1>10, <2>1, EmptyValuesTyped, BecomesTyped DEF ReconcileStamp, TypeOK, Stamped
<1> QED
  BY <1>1, <1>2, <1>3, <1>4, <1>5, <1>6, <1>7, <1>8, <1>9, <1>10
     DEF ReconcileNext, ReconcileStep

LEMMA NextTyped == TypeOK /\ [Next]_vars => TypeOK'
<1> SUFFICES ASSUME TypeOK, [Next]_vars PROVE TypeOK'
  OBVIOUS
<1>1. CASE FeedNext /\ UNCHANGED <<rows, syncState, run, faults>>
  BY <1>1, FeedStepTyped
<1>2. ASSUME NEW p \in Procs, BackfillNext(p) \/ SyncNext(p) \/ ReconcileNext(p)
      PROVE  TypeOK'
  BY <1>2, BackfillTyped, SyncTyped, ReconcileTyped
<1>3. ASSUME NEW p \in Procs, Abort(p) PROVE TypeOK'
  BY <1>3, EmptyValuesTyped, BecomesTyped, FaultTyped DEF Abort, TypeOK
<1>4. CASE UNCHANGED vars
  BY <1>4 DEF vars, TypeOK
<1> QED
  BY <1>1, <1>2, <1>3, <1>4 DEF Next

\* Type correctness: every variable of the replication keeps its type, whatever
\* the number of processes and records and the shape of the pages.
THEOREM TypeCorrect == Spec => []TypeOK
<1>1. Init => TypeOK
  BY InitTyped
<1>2. TypeOK /\ [Next]_vars => TypeOK'
  BY NextTyped
<1> QED
  BY <1>1, <1>2, PTL DEF Spec

-----------------------------------------------------------------------------
(* The cursor is well formed, with any number of processes.                 *)

\* What makes CursorWellFormed inductive: a run may write only a well-formed
\* cursor, because of what it read or chose when it began.
CursorInv ==
    /\ now # 0
    /\ CursorWellFormed
    /\ \A p \in Procs :
         /\ run[p].op = "backfill" => run[p].started # 0
         /\ run[p].op = "sync" => run[p].wm # 0
         /\ run[p].op = "reconcile" => run[p].st.wm # 0 /\ run[p].st.inProgress = NoURL

LEMMA CursorInit == Init => CursorInv
BY FeedConstants DEF Init, FeedInit, EngineInit, CursorInv, CursorWellFormed, NoState, Idle

\* A step of a run that leaves the cursor alone and keeps, in the run, what
\* the invariant speaks of.
LEMMA CursorKept ==
    ASSUME TypeOK, CursorInv, NEW p \in Procs, NEW r, Becomes(p, r),
           UNCHANGED <<now, syncState>>,
           r.op = "backfill" => r.started # 0,
           r.op = "sync" => r.wm # 0,
           r.op = "reconcile" => r.st.wm # 0 /\ r.st.inProgress = NoURL
    PROVE  CursorInv'
BY DEF CursorInv, CursorWellFormed, Becomes, TypeOK

LEMMA CursorFetchPage ==
    ASSUME TypeOK, CursorInv, NEW p \in Procs, FetchPage(p), UNCHANGED <<now, syncState>>
    PROVE  CursorInv'
<1>1. PICK page, next : Becomes(p, [run[p] EXCEPT !.pc = "upsert", !.page = page, !.next = next])
  BY DEF FetchPage
<1>2. run[p] \in Runs
  BY DEF TypeOK
<1> QED
  BY <1>1, <1>2, CursorKept DEF CursorInv, Runs

LEMMA CursorStorePage ==
    ASSUME TypeOK, CursorInv, NEW p \in Procs, NEW done,
           UpsertPage(p, done) \/ DeletePage(p, done), UNCHANGED <<now, syncState>>
    PROVE  CursorInv'
<1>1. PICK pc : Becomes(p, [run[p] EXCEPT !.pc = pc])
  BY DEF UpsertPage, DeletePage
<1>2. run[p] \in Runs
  BY DEF TypeOK
<1> QED
  BY <1>1, <1>2, CursorKept DEF CursorInv, Runs

LEMMA CursorEnds ==
    ASSUME TypeOK, CursorInv, NEW p \in Procs, Becomes(p, Idle), UNCHANGED <<now, syncState>>
    PROVE  CursorInv'
BY CursorKept DEF Idle

LEMMA CursorBackfill ==
    ASSUME TypeOK, CursorInv, NEW p \in Procs, BackfillNext(p)
    PROVE  CursorInv'
<1>0. run[p] \in Runs
  BY DEF TypeOK
<1>1. ASSUME NEW force \in BOOLEAN, BackfillStart(p, force) PROVE CursorInv'
  BY <1>1, CursorKept DEF BackfillStart, Begin, Idle, CursorInv
<1>2. CASE BackfillCap(p)
  BY <1>2, CursorEnds DEF BackfillCap
<1>3. CASE BackfillFetch(p)
  BY <1>3, CursorFetchPage DEF BackfillFetch
<1>4. CASE BackfillReject(p)
  BY <1>0, <1>4, CursorKept DEF BackfillReject, BackfillRebuild, CursorInv, Runs, Running
<1>5. CASE BackfillUpsert(p)
  BY <1>5, CursorStorePage DEF BackfillUpsert
<1>6. CASE BackfillDelete(p)
  BY <1>6, CursorStorePage DEF BackfillDelete
<1>7. CASE BackfillPersist(p)
  <2>1. syncState'.completedAt = 0 /\ UNCHANGED now
    BY <1>7 DEF BackfillPersist, Checkpoint
  <2>2. run'[p].op = "backfill" /\ run'[p].started = run[p].started
    BY <1>0, <1>7 DEF BackfillPersist, Becomes, Running, Runs, TypeOK, Checkpoint
  <2>3. \A q \in Procs \ {p} : run'[q] = run[q]
    BY <1>7 DEF BackfillPersist, Becomes, TypeOK, Checkpoint
  <2> QED
    BY <1>7, <2>1, <2>2, <2>3 DEF BackfillPersist, Running, CursorInv, CursorWellFormed, Checkpoint
<1>8. CASE BackfillComplete(p)
  <2>1. syncState'.wm # 0 /\ syncState'.inProgress = NoURL /\ UNCHANGED now
    BY <1>8 DEF BackfillComplete, CursorInv, Running, FinalWatermark
  <2>2. \A q \in Procs : run'[q] = IF q = p THEN Idle ELSE run[q]
    BY <1>8 DEF BackfillComplete, Becomes, TypeOK, FinalWatermark
  <2> QED
    BY <2>1, <2>2 DEF CursorInv, CursorWellFormed, Idle
<1> QED
  BY <1>1, <1>2, <1>3, <1>4, <1>5, <1>6, <1>7, <1>8 DEF BackfillNext, BackfillStep

LEMMA CursorSync ==
    ASSUME TypeOK, CursorInv, NEW p \in Procs, SyncNext(p)
    PROVE  CursorInv'
<1>0. run[p] \in Runs
  BY DEF TypeOK
<1>1. CASE SyncStart(p)
  BY <1>1, CursorKept DEF SyncStart, Begin, Idle
<1>2. CASE SyncFetch(p)
  BY <1>2, CursorFetchPage DEF SyncFetch
<1>3. CASE SyncReject(p)
  BY <1>0, <1>3, CursorKept DEF SyncReject, SyncRebuild, CursorInv, Runs, Running
<1>4. CASE SyncUpsert(p)
  BY <1>4, CursorStorePage DEF SyncUpsert
<1>5. CASE SyncDelete(p)
  BY <1>5, CursorStorePage DEF SyncDelete
<1>6. CASE SyncPersist(p)
  <2> DEFINE wm == MaxModificationTS(run[p].wm, run[p].page)
  <2>1. wm \in Times /\ wm >= run[p].wm /\ run[p].wm \in Times
    BY <1>0, MaxModificationTSIsLatest DEF Runs
  <2>2. wm # 0
    BY <1>6, <2>1 DEF SyncPersist, CursorInv, Running, Times, Saved
  <2> HIDE DEF wm
  <2>3. syncState' = [run[p].st EXCEPT !.wm = wm, !.inProgress = NoURL] /\ UNCHANGED now
    BY <1>6 DEF SyncPersist, wm, Saved
  <2>4. syncState'.wm # 0 /\ syncState'.inProgress = NoURL
    BY <1>0, <2>2, <2>3 DEF Runs, SyncStates
  <2>5. run'[p] = Idle \/ (run'[p].op = "sync" /\ run'[p].wm = wm)
    BY <1>0, <1>6 DEF SyncPersist, Becomes, Running, Runs, TypeOK, wm, Saved
  <2>6. \A q \in Procs \ {p} : run'[q] = run[q]
    BY <1>6 DEF SyncPersist, Becomes, TypeOK, Saved
  <2> QED
    BY <2>2, <2>3, <2>4, <2>5, <2>6 DEF CursorInv, CursorWellFormed, Idle
<1> QED
  BY <1>1, <1>2, <1>3, <1>4, <1>5, <1>6 DEF SyncNext, SyncStep

LEMMA CursorReconcile ==
    ASSUME TypeOK, CursorInv, NEW p \in Procs, ReconcileNext(p)
    PROVE  CursorInv'
<1>0. run[p] \in Runs
  BY DEF TypeOK
<1>1. CASE ReconcileStart(p)
  BY <1>1, CursorKept DEF ReconcileStart, Begin, Idle, CursorInv, CursorWellFormed, SweepQuery
<1>2. ASSUME NEW r, Becomes(p, r), UNCHANGED <<now, syncState>>,
             run[p].op = "reconcile", r.op = "reconcile", r.st = run[p].st
      PROVE  CursorInv'
  BY <1>2, CursorKept DEF CursorInv
<1>3. CASE ReconcileSweep(p)
  BY <1>0, <1>2, <1>3 DEF ReconcileSweep, Running, Runs
<1>4. CASE ReconcileDiff(p)
  BY <1>0, <1>2, <1>4 DEF ReconcileDiff, Running, Runs, Withdrawn, Stale
<1>5. CASE ReconcilePurge(p)
  BY <1>0, <1>2, <1>5 DEF ReconcilePurge, Running, Runs
<1>6. CASE ReconcilePick(p)
  BY <1>0, <1>2, <1>6 DEF ReconcilePick, Running, Runs
<1>7. CASE ReconcileFetch(p)
  BY <1>7, CursorFetchPage DEF ReconcileFetch
<1>8. CASE ReconcileUpsert(p)
  BY <1>8, CursorStorePage DEF ReconcileUpsert
<1>9. CASE ReconcileDelete(p)
  BY <1>9, CursorStorePage DEF ReconcileDelete
<1>10. CASE ReconcileAdvance(p)
  BY <1>0, <1>2, <1>10 DEF ReconcileAdvance, Running, Runs
<1>11. CASE ReconcileStamp(p)
  <2>1. syncState'.wm # 0 /\ syncState'.inProgress = NoURL /\ UNCHANGED now
    BY <1>0, <1>11 DEF ReconcileStamp, Running, Runs, SyncStates, CursorInv, Stamped
  <2>2. \A q \in Procs : run'[q] = IF q = p THEN Idle ELSE run[q]
    BY <1>11 DEF ReconcileStamp, Becomes, TypeOK, Stamped
  <2> QED
    BY <2>1, <2>2 DEF CursorInv, CursorWellFormed, Idle
<1> QED
  BY <1>1, <1>3, <1>4, <1>5, <1>6, <1>7, <1>8, <1>9, <1>10, <1>11
     DEF ReconcileNext, ReconcileStep

LEMMA CursorNext == TypeOK /\ CursorInv /\ [Next]_vars => CursorInv'
<1> SUFFICES ASSUME TypeOK, CursorInv, [Next]_vars PROVE CursorInv'
  OBVIOUS
<1>1. CASE FeedNext /\ UNCHANGED <<rows, syncState, run, faults>>
  <2>1. now' # 0
    BY <1>1, FeedConstants DEF FeedNext, Modify, Revoke, Expire, CursorInv, TypeOK, Times
  <2> QED
    BY <1>1, <2>1 DEF CursorInv, CursorWellFormed
<1>2. ASSUME NEW p \in Procs, BackfillNext(p) \/ SyncNext(p) \/ ReconcileNext(p)
      PROVE  CursorInv'
  BY <1>2, CursorBackfill, CursorSync, CursorReconcile
<1>3. ASSUME NEW p \in Procs, Abort(p) PROVE CursorInv'
  BY <1>3, CursorEnds DEF Abort
<1>4. CASE UNCHANGED vars
  BY <1>4 DEF vars, CursorInv, CursorWellFormed
<1> QED
  BY <1>1, <1>2, <1>3, <1>4 DEF Next

\* A complete import always has a watermark to sync from and no resume cursor,
\* however the commands of however many processes interleave.
THEOREM CursorAlwaysWellFormed == Spec => []CursorWellFormed
<1>1. Init => CursorInv
  BY CursorInit
<1>2. TypeOK /\ CursorInv /\ [Next]_vars => CursorInv'
  BY CursorNext
<1>3. CursorInv => CursorWellFormed
  BY DEF CursorInv
<1> QED
  BY <1>1, <1>2, <1>3, TypeCorrect, PTL DEF Spec

-----------------------------------------------------------------------------
(* One process at a time: the life of the cursor.                           *)

\* What a run knows of the cursor it is going to write.  It holds because
\* nobody else writes it while the run goes on.
RunFollows(r) ==
    /\ r.op = "backfill" =>
         /\ Resuming => r.wm >= syncState.wm
         /\ r.pc = "complete" => Phase = "unfinished" /\ r.wm = syncState.wm
         /\ r.pc = "fetch" /\ r.pages # 0 => Resuming
    /\ r.op = "sync" =>
         /\ r.wm = syncState.wm
         /\ r.st.completedAt # 0
         /\ syncState.completedAt # 0
    /\ r.op = "reconcile" => r.st = syncState /\ syncState.completedAt # 0

\* An idle process can start some command without --force, if nothing failed.
StartsAgain ==
    \/ syncState.completedAt # 0
    \/ Resuming
    \/ \A k \in Keys : rows[k] = 0

LifeInv ==
    \A p \in Procs : RunFollows(run[p]) /\ (run[p] = Idle /\ faults = 0 => StartsAgain)

\* A step that leaves the cursor alone.
LEMMA LifeKept ==
    ASSUME NEW p, Procs = {p}, NEW r, TypeOK, LifeInv, Becomes(p, r),
           UNCHANGED syncState, RunFollows(r),
           r = Idle => faults' # 0 \/ StartsAgain'
    PROVE  LifeInv'
<1>1. run'[p] = r
  BY DEF Becomes, TypeOK
<1>2. RunFollows(run[p])'
  BY <1>1 DEF RunFollows, Phase, PhaseOf, Resuming
<1> QED
  BY <1>1, <1>2 DEF LifeInv

LEMMA LifeFetchPage ==
    ASSUME NEW p, Procs = {p}, TypeOK, LifeInv, FetchPage(p), UNCHANGED syncState
    PROVE  LifeInv'
<1>1. PICK page, next : Becomes(p, [run[p] EXCEPT !.pc = "upsert", !.page = page, !.next = next])
  BY DEF FetchPage
<1> DEFINE r == [run[p] EXCEPT !.pc = "upsert", !.page = page, !.next = next]
<1>2. /\ r.op = run[p].op /\ r.pc = "upsert" /\ r.wm = run[p].wm /\ r.st = run[p].st
      /\ RunFollows(run[p])
  BY DEF LifeInv, TypeOK, Runs
<1>3. r # Idle
  BY <1>2 DEF Idle
<1> HIDE DEF r
<1>4. RunFollows(r)
  BY <1>2 DEF RunFollows
<1> QED
  BY <1>1, <1>3, <1>4, LifeKept DEF r

LEMMA LifeStorePage ==
    ASSUME NEW p, Procs = {p}, TypeOK, LifeInv, NEW done \in {"persist", "advance"},
           UpsertPage(p, done) \/ DeletePage(p, done), UNCHANGED syncState
    PROVE  LifeInv'
<1>1. PICK pc \in {done, "delete"} : Becomes(p, [run[p] EXCEPT !.pc = pc])
  BY DEF UpsertPage, DeletePage
<1> DEFINE r == [run[p] EXCEPT !.pc = pc]
<1>2. /\ r.op = run[p].op /\ r.pc = pc /\ r.wm = run[p].wm /\ r.st = run[p].st
      /\ RunFollows(run[p])
  BY DEF LifeInv, TypeOK, Runs
<1>3. r # Idle
  BY <1>2 DEF Idle
<1> HIDE DEF r
<1>4. RunFollows(r)
  BY <1>2 DEF RunFollows
<1> QED
  BY <1>1, <1>3, <1>4, LifeKept DEF r

\* What a step does to the cursor, as the abstract specification sees it.
LifeStep == [Lifecycle!LifecycleNext]_(Lifecycle!cursor)

LEMMA LifeStutter == ASSUME UNCHANGED syncState PROVE LifeStep
BY DEF LifeStep, Lifecycle!cursor, Phase, PhaseOf

LEMMA LifeBackfill ==
    ASSUME NEW p, Procs = {p}, TypeOK, CursorInv, LifeInv, BackfillNext(p)
    PROVE  LifeInv' /\ LifeStep
<1>0. run[p] \in Runs /\ RunFollows(run[p])
  BY DEF TypeOK, LifeInv
<1>1. ASSUME NEW force \in BOOLEAN, BackfillStart(p, force) PROVE LifeInv' /\ LifeStep
  <2> DEFINE r == [Begin("backfill", "fetch") EXCEPT
                     !.wm = IF Resuming THEN syncState.wm ELSE Since,
                     !.url = IF Resuming THEN syncState.inProgress ELSE BackfillQuery(Since)]
  <2>1. r.op = "backfill" /\ r.pc = "fetch" /\ r.pages = 0 /\ (Resuming => r.wm = syncState.wm)
    BY DEF Begin, Idle
  <2>2. Becomes(p, r) /\ UNCHANGED syncState
    BY <1>1 DEF BackfillStart
  <2> HIDE DEF r
  <2>3. r # Idle
    BY <2>1 DEF Idle
  <2>4. syncState.wm >= syncState.wm
    BY FeedConstants DEF TypeOK, SyncStates, Times
  <2>5. RunFollows(r)
    BY <2>1, <2>4 DEF RunFollows
  <2> QED
    BY <2>2, <2>3, <2>5, LifeKept, LifeStutter
<1>2. CASE BackfillCap(p)
  <2>1. Becomes(p, Idle) /\ UNCHANGED <<rows, syncState, faults>>
    BY <1>2 DEF BackfillCap
  <2>2. Resuming
    BY <1>0, <1>2, EngineConstants DEF BackfillCap, PagesSpent, Running, RunFollows, Runs
  <2>3. StartsAgain'
    BY <2>1, <2>2 DEF StartsAgain, Resuming
  <2>4. RunFollows(Idle)
    BY DEF RunFollows, Idle
  <2> QED
    BY <2>1, <2>3, <2>4, LifeKept, LifeStutter
<1>3. CASE BackfillFetch(p)
  BY <1>3, LifeFetchPage, LifeStutter DEF BackfillFetch
<1>4. CASE BackfillReject(p)
  <2> DEFINE r == [run[p] EXCEPT !.rebuilt = TRUE, !.url = BackfillQuery(run[p].wm)]
  <2>1. /\ r.op = "backfill" /\ r.pc = "fetch" /\ r.pages = run[p].pages /\ r.wm = run[p].wm
        /\ run[p].op = "backfill" /\ run[p].pc = "fetch"
    BY <1>0, <1>4 DEF BackfillReject, BackfillRebuild, Running, Runs
  <2>2. Becomes(p, r) /\ UNCHANGED syncState
    BY <1>4 DEF BackfillReject, BackfillRebuild
  <2> HIDE DEF r
  <2>3. r # Idle
    BY <2>1 DEF Idle
  <2>4. RunFollows(r)
    BY <1>0, <2>1 DEF RunFollows
  <2> QED
    BY <2>2, <2>3, <2>4, LifeKept, LifeStutter
<1>5. CASE BackfillUpsert(p)
  BY <1>5, LifeStorePage, LifeStutter DEF BackfillUpsert
<1>6. CASE BackfillDelete(p)
  BY <1>6, LifeStorePage, LifeStutter DEF BackfillDelete
<1>7. CASE BackfillPersist(p)
  <2> DEFINE wm == MaxModificationTS(run[p].wm, run[p].page)
             next == run[p].next
  <2>1. wm \in Times /\ wm >= run[p].wm /\ run[p].wm \in Times /\ next \in URLs
    BY <1>0, MaxModificationTSIsLatest DEF Runs
  <2>2. /\ run'[p].op = "backfill"
        /\ run'[p].pc = IF next = NoURL THEN "complete" ELSE "fetch"
        /\ run'[p].wm = wm
    BY <1>0, <1>7 DEF BackfillPersist, Becomes, Running, Runs, TypeOK
  <2>3. syncState' = [wm |-> wm, inProgress |-> next, completedAt |-> 0,
                      reconciledAt |-> run[p].st.reconciledAt]
    BY <1>7 DEF BackfillPersist, Checkpoint
  <2> HIDE DEF wm, next
  <2>4. syncState'.wm = wm /\ syncState'.inProgress = next /\ syncState'.completedAt = 0
    BY <2>3
  <2>5. run'[p] # Idle
    BY <2>2 DEF Idle
  <2>6. wm >= wm
    BY <2>1, FeedConstants DEF Times
  <2>7. RunFollows(run[p])'
    BY <2>2, <2>4, <2>6 DEF RunFollows, Phase, PhaseOf, Resuming
  <2>8. LifeInv'
    BY <2>5, <2>7 DEF LifeInv
  <2>9. Phase' = IF next = NoURL THEN "unfinished" ELSE "importing"
    BY <2>4 DEF Phase, PhaseOf
  <2>10. wm \in Nat /\ run[p].wm \in Nat /\ syncState.wm \in Nat
    BY <2>1, FeedConstants DEF Times, TypeOK, SyncStates
  <2>11. CASE Phase = "importing"
    <3>1. wm >= syncState.wm
      BY <1>0, <1>7, <2>1, <2>10, <2>11
         DEF RunFollows, Phase, PhaseOf, Resuming, BackfillPersist, Running
    <3>2. Lifecycle!Continue
      BY <2>4, <2>9, <2>10, <2>11, <3>1 DEF Lifecycle!Continue
    <3> QED
      BY <2>8, <3>2 DEF LifeStep, Lifecycle!LifecycleNext
  <2>12. CASE Phase # "importing"
    <3>1. Phase \in {"unfinished", "complete"}
      BY <2>12 DEF Phase, PhaseOf
    <3>2. Lifecycle!Restart
      BY <2>4, <2>9, <2>10, <3>1 DEF Lifecycle!Restart
    <3> QED
      BY <2>8, <3>2 DEF LifeStep, Lifecycle!LifecycleNext
  <2> QED
    BY <2>11, <2>12
<1>8. CASE BackfillComplete(p)
  <2>1. /\ Phase = "unfinished" /\ run[p].wm = syncState.wm /\ run[p].started # 0 /\ now # 0
    BY <1>0, <1>8 DEF BackfillComplete, Running, RunFollows, CursorInv
  <2>2. syncState' = [wm |-> FinalWatermark(run[p]), inProgress |-> NoURL,
                      completedAt |-> now, reconciledAt |-> run[p].st.reconciledAt]
    BY <1>8 DEF BackfillComplete
  <2>3. syncState'.wm = FinalWatermark(run[p]) /\ syncState'.completedAt = now
    BY <2>2
  <2>4. run'[p] = Idle
    BY <1>8 DEF BackfillComplete, Becomes, TypeOK
  <2>5. StartsAgain'
    BY <2>1, <2>3 DEF StartsAgain
  <2>6. RunFollows(run[p])'
    BY <2>4 DEF RunFollows, Idle
  <2>7. LifeInv'
    BY <2>5, <2>6 DEF LifeInv
  <2>8. Phase' = "complete"
    BY <2>1, <2>3 DEF Phase, PhaseOf
  <2>9. run[p].wm \in Nat /\ run[p].started \in Nat
    BY <1>0, FeedConstants DEF Runs, Times
  <2>10. FinalWatermark(run[p]) \in Nat \ {0} /\ (run[p].wm # 0 => FinalWatermark(run[p]) = run[p].wm)
    BY <2>1, <2>9 DEF FinalWatermark
  <2>11. Lifecycle!Finish
    BY <2>1, <2>3, <2>8, <2>10 DEF Lifecycle!Finish
  <2> QED
    BY <2>7, <2>11 DEF LifeStep, Lifecycle!LifecycleNext
<1> QED
  BY <1>1, <1>2, <1>3, <1>4, <1>5, <1>6, <1>7, <1>8 DEF BackfillNext, BackfillStep

LEMMA LifeSync ==
    ASSUME NEW p, Procs = {p}, TypeOK, CursorInv, LifeInv, SyncNext(p)
    PROVE  LifeInv' /\ LifeStep
<1>0. run[p] \in Runs /\ RunFollows(run[p])
  BY DEF TypeOK, LifeInv
<1>1. CASE SyncStart(p)
  <2> DEFINE r == [Begin("sync", "fetch") EXCEPT !.wm = syncState.wm,
                                                 !.url = SyncQuery(syncState.wm)]
  <2>1. r.op = "sync" /\ r.wm = syncState.wm /\ r.st = syncState /\ syncState.completedAt # 0
    BY <1>1 DEF Begin, Idle, SyncStart
  <2>2. Becomes(p, r) /\ UNCHANGED syncState
    BY <1>1 DEF SyncStart
  <2> HIDE DEF r
  <2>3. r # Idle
    BY <2>1 DEF Idle
  <2>4. RunFollows(r)
    BY <2>1 DEF RunFollows
  <2> QED
    BY <2>2, <2>3, <2>4, LifeKept, LifeStutter
<1>2. CASE SyncFetch(p)
  BY <1>2, LifeFetchPage, LifeStutter DEF SyncFetch
<1>3. CASE SyncReject(p)
  <2> DEFINE r == [run[p] EXCEPT !.rebuilt = TRUE, !.url = SyncQuery(run[p].wm)]
  <2>1. r.op = "sync" /\ r.wm = run[p].wm /\ r.st = run[p].st /\ run[p].op = "sync"
    BY <1>0, <1>3 DEF SyncReject, SyncRebuild, Running, Runs
  <2>2. Becomes(p, r) /\ UNCHANGED syncState
    BY <1>3 DEF SyncReject, SyncRebuild
  <2> HIDE DEF r
  <2>3. r # Idle
    BY <2>1 DEF Idle
  <2>4. RunFollows(r)
    BY <1>0, <2>1 DEF RunFollows
  <2> QED
    BY <2>2, <2>3, <2>4, LifeKept, LifeStutter
<1>4. CASE SyncUpsert(p)
  BY <1>4, LifeStorePage, LifeStutter DEF SyncUpsert
<1>5. CASE SyncDelete(p)
  BY <1>5, LifeStorePage, LifeStutter DEF SyncDelete
<1>6. CASE SyncPersist(p)
  <2> DEFINE wm == MaxModificationTS(run[p].wm, run[p].page)
  <2>1. wm \in Times /\ wm >= run[p].wm
    BY <1>0, MaxModificationTSIsLatest DEF Runs
  <2>2. \/ run'[p] = Idle
        \/ run'[p].op = "sync" /\ run'[p].wm = wm /\ run'[p].st = run[p].st
    BY <1>0, <1>6 DEF SyncPersist, Becomes, Running, Runs, TypeOK
  <2>3. syncState' = [run[p].st EXCEPT !.wm = wm, !.inProgress = NoURL]
    BY <1>6 DEF SyncPersist, Saved
  <2> HIDE DEF wm
  <2>4. /\ syncState'.wm = wm /\ syncState'.completedAt = run[p].st.completedAt
        /\ run[p].op = "sync"
    BY <1>0, <1>6, <2>3 DEF Runs, SyncStates, SyncPersist, Running
  <2>5. run[p].wm = syncState.wm /\ run[p].st.completedAt # 0 /\ syncState.completedAt # 0
    BY <1>0, <2>4 DEF RunFollows
  <2>6. RunFollows(run[p])'
    BY <2>2, <2>4, <2>5 DEF RunFollows, Idle
  <2>7. LifeInv'
    BY <2>4, <2>5, <2>6 DEF LifeInv, StartsAgain
  <2>8. Phase = "complete" /\ Phase' = "complete"
    BY <2>4, <2>5 DEF Phase, PhaseOf
  <2>9. Lifecycle!Follow
    BY <2>1, <2>4, <2>5, <2>8, FeedConstants DEF Lifecycle!Follow, Times
  <2> QED
    BY <2>7, <2>9 DEF LifeStep, Lifecycle!LifecycleNext
<1> QED
  BY <1>1, <1>2, <1>3, <1>4, <1>5, <1>6 DEF SyncNext, SyncStep

LEMMA LifeReconcile ==
    ASSUME NEW p, Procs = {p}, TypeOK, CursorInv, LifeInv, ReconcileNext(p)
    PROVE  LifeInv' /\ LifeStep
<1>0. run[p] \in Runs /\ RunFollows(run[p])
  BY DEF TypeOK, LifeInv
<1>1. CASE ReconcileStart(p)
  <2> DEFINE r == [Begin("reconcile", "sweep") EXCEPT !.url = SweepQuery]
  <2>1. r.op = "reconcile" /\ r.st = syncState /\ syncState.completedAt # 0
    BY <1>1 DEF Begin, Idle, ReconcileStart
  <2>2. Becomes(p, r) /\ UNCHANGED syncState
    BY <1>1 DEF ReconcileStart
  <2> HIDE DEF r
  <2>3. r # Idle
    BY <2>1 DEF Idle
  <2>4. RunFollows(r)
    BY <2>1 DEF RunFollows
  <2> QED
    BY <2>2, <2>3, <2>4, LifeKept, LifeStutter
<1>2. ASSUME NEW r, Becomes(p, r), UNCHANGED syncState,
             run[p].op = "reconcile", r.op = "reconcile", r.st = run[p].st
      PROVE  LifeInv' /\ LifeStep
  <2>1. RunFollows(r) /\ r # Idle
    BY <1>0, <1>2 DEF RunFollows, Idle
  <2> QED
    BY <1>2, <2>1, LifeKept, LifeStutter
<1>3. CASE ReconcileSweep(p)
  BY <1>0, <1>2, <1>3 DEF ReconcileSweep, Running, Runs
<1>4. CASE ReconcileDiff(p)
  BY <1>0, <1>2, <1>4 DEF ReconcileDiff, Running, Runs
<1>5. CASE ReconcilePurge(p)
  BY <1>0, <1>2, <1>5 DEF ReconcilePurge, Running, Runs
<1>6. CASE ReconcilePick(p)
  BY <1>0, <1>2, <1>6 DEF ReconcilePick, Running, Runs
<1>7. CASE ReconcileFetch(p)
  BY <1>7, LifeFetchPage, LifeStutter DEF ReconcileFetch
<1>8. CASE ReconcileUpsert(p)
  BY <1>8, LifeStorePage, LifeStutter DEF ReconcileUpsert
<1>9. CASE ReconcileDelete(p)
  BY <1>9, LifeStorePage, LifeStutter DEF ReconcileDelete
<1>10. CASE ReconcileAdvance(p)
  BY <1>0, <1>2, <1>10 DEF ReconcileAdvance, Running, Runs
<1>11. CASE ReconcileStamp(p)
  <2>1. run[p].st = syncState /\ syncState.completedAt # 0
    BY <1>0, <1>11 DEF ReconcileStamp, Running, RunFollows
  <2>2. syncState' = [syncState EXCEPT !.reconciledAt = now] /\ run'[p] = Idle
    BY <1>11, <2>1 DEF ReconcileStamp, Stamped, Becomes, TypeOK
  <2>3. /\ syncState'.wm = syncState.wm /\ syncState'.inProgress = syncState.inProgress
        /\ syncState'.completedAt = syncState.completedAt
    BY <2>2 DEF TypeOK, SyncStates
  <2>4. LifeInv'
    BY <2>1, <2>2, <2>3 DEF LifeInv, RunFollows, Idle, StartsAgain
  <2>5. LifeStep
    BY <2>3 DEF LifeStep, Lifecycle!cursor, Phase, PhaseOf
  <2> QED
    BY <2>4, <2>5
<1> QED
  BY <1>1, <1>3, <1>4, <1>5, <1>6, <1>7, <1>8, <1>9, <1>10, <1>11
     DEF ReconcileNext, ReconcileStep

LEMMA LifeInit == Init => LifeInv /\ Lifecycle!LifecycleInit
<1> SUFFICES ASSUME Init PROVE LifeInv /\ Lifecycle!LifecycleInit
  OBVIOUS
<1>1. /\ syncState.wm = 0 /\ syncState.inProgress = NoURL /\ syncState.completedAt = 0
      /\ \A k \in Keys : rows[k] = 0
      /\ \A p \in Procs : run[p].op = "none"
  BY DEF Init, EngineInit, NoState, Idle
<1>2. LifeInv
  BY <1>1 DEF LifeInv, RunFollows, StartsAgain
<1> QED
  BY <1>1, <1>2 DEF Lifecycle!LifecycleInit, Phase, PhaseOf

LEMMA LifeNext ==
    ASSUME NEW p, Procs = {p}, TypeOK, CursorInv, LifeInv, [Next]_vars
    PROVE  LifeInv' /\ LifeStep
<1>1. CASE FeedNext /\ UNCHANGED <<rows, syncState, run, faults>>
  <2>1. LifeInv'
    BY <1>1 DEF LifeInv, RunFollows, StartsAgain, Phase, PhaseOf, Resuming
  <2> QED
    BY <1>1, <2>1, LifeStutter
<1>2. CASE BackfillNext(p) \/ SyncNext(p) \/ ReconcileNext(p)
  BY <1>2, LifeBackfill, LifeSync, LifeReconcile
<1>3. CASE Abort(p)
  <2>1. faults' # 0
    BY <1>3 DEF Abort, Fault, TypeOK
  <2>2. RunFollows(Idle)
    BY DEF RunFollows, Idle
  <2> QED
    BY <1>3, <2>1, <2>2, LifeKept, LifeStutter DEF Abort
<1>4. CASE UNCHANGED vars
  <2>1. LifeInv'
    BY <1>4 DEF vars, LifeInv, RunFollows, StartsAgain, Phase, PhaseOf, Resuming
  <2> QED
    BY <1>4, <2>1, LifeStutter DEF vars
<1> QED
  BY <1>1, <1>2, <1>3, <1>4 DEF Next

\* With one process at a time the sync_state row lives the life CursorLifecycle
\* describes: the engines implement the abstract cursor, wherever runs fail.
THEOREM CursorImplementsLifecycle ==
    ASSUME NEW p, Procs = {p}
    PROVE  Spec => CursorFollowsLifecycle
<1>1. Init => CursorInv /\ LifeInv /\ Lifecycle!LifecycleInit
  BY CursorInit, LifeInit
<1>2. TypeOK /\ CursorInv /\ [Next]_vars => CursorInv'
  BY CursorNext
<1>3. TypeOK /\ CursorInv /\ LifeInv /\ [Next]_vars =>
         LifeInv' /\ [Lifecycle!LifecycleNext]_(Lifecycle!cursor)
  BY LifeNext DEF LifeStep
<1> QED
  BY <1>1, <1>2, <1>3, TypeCorrect, PTL
     DEF Spec, CursorFollowsLifecycle, Lifecycle!LifecycleSpec

\* An import that nothing but --max-pages stops can be continued without
\* --force, or is complete.
THEOREM CutImportsGoOn ==
    ASSUME NEW p, Procs = {p}
    PROVE  Spec => []CutImportGoesOn
<1>1. Init => CursorInv /\ LifeInv
  BY CursorInit, LifeInit
<1>2. TypeOK /\ CursorInv /\ [Next]_vars => CursorInv'
  BY CursorNext
<1>3. TypeOK /\ CursorInv /\ LifeInv /\ [Next]_vars => LifeInv'
  BY LifeNext
<1>4. LifeInv => CutImportGoesOn
  BY DEF LifeInv, StartsAgain, CutImportGoesOn, Recoverable, AllIdle
<1> QED
  BY <1>1, <1>2, <1>3, <1>4, TypeCorrect, PTL DEF Spec

-----------------------------------------------------------------------------
(* One process at a time, filters that let nothing slip: a reconcile pass   *)
(* leaves no withdrawn row.                                                 *)

\* Licensed now, or when the pass with the local variables r began.
Clean(r, k) == Viewable(k) \/ feed[k].ts > r.started

\* A pass asks for viewable records only, what it swept or holds to write is
\* clean, and from the diff on so is every row it is not about to purge.
CleanRun(r) ==
    r.op = "reconcile" =>
      /\ r.started <= now
      /\ r.pc \in {"sweep", "fetch"} => r.url.view
      /\ r.pc \in {"upsert", "delete", "advance"} => r.next = NoURL \/ r.next.view
      /\ r.pc \in {"sweep", "diff"} => \A k \in DOMAIN r.remote : Clean(r, k)
      /\ r.pc = "upsert" => \A k \in DOMAIN r.page : Clean(r, k)
      /\ r.pc \notin {"sweep", "diff"} =>
           \A k \in Keys : rows[k] # 0 /\ k \notin r.purge => Clean(r, k)

CleanInv == \A p \in Procs : CleanRun(run[p])

\* What the feed does keeps clean records clean.
LEMMA CleanFeed ==
    ASSUME TypeOK, CleanInv, FeedNext, UNCHANGED <<rows, syncState, run, faults>>
    PROVE  CleanInv'
<1>1. SUFFICES ASSUME NEW p \in Procs, run[p].op = "reconcile" PROVE CleanRun(run[p])'
  BY DEF CleanInv, CleanRun
<1>2. run[p] \in Runs /\ run[p].started <= now /\ run[p].started \in Nat /\ now \in Nat
  BY <1>1 DEF TypeOK, Runs, Times, CleanInv, CleanRun
<1>3. ASSUME NEW k \in Keys, Clean(run[p], k) PROVE Clean(run[p], k)'
  BY <1>2, <1>3 DEF FeedNext, Modify, Revoke, Expire, Clean, Viewable, TypeOK, FeedRecord, Times
<1>4. now' >= now
  BY <1>2 DEF FeedNext, Modify, Revoke, Expire
<1>5. DOMAIN run[p].remote \subseteq Keys /\ DOMAIN run[p].page \subseteq Keys
  BY <1>2 DEF Runs, Pages
<1>6. now' \in Nat
  BY <1>2 DEF FeedNext, Modify, Revoke, Expire
<1> QED
  BY <1>1, <1>2, <1>3, <1>4, <1>5, <1>6 DEF CleanInv, CleanRun

\* A page of a query for viewable records holds no other, and leads to such a
\* query again.
LEMMA ViewablePage ==
    ASSUME ~Slips, NEW url \in URLs, url.view, NEW lag \in Lags
    PROVE  /\ \A k \in DOMAIN PageOf(url, lag) : Viewable(k)
           /\ NextLink(url, lag) = NoURL \/ NextLink(url, lag).view
<1>1. lag = {}
  BY DEF Lags
<1>2. \A k \in PageKeys(url, lag) : Viewable(k)
  BY <1>1 DEF PageKeys, Matching, Viewable
<1>3. NextLink(url, lag) = NoURL \/ NextLink(url, lag).view
  BY DEF NextLink, URLs
<1> QED
  BY <1>2, <1>3 DEF PageOf

LEMMA CleanStarts ==
    ASSUME NEW p, Procs = {p}, TypeOK, ReconcileStart(p)
    PROVE  CleanInv'
<1> DEFINE r == [Begin("reconcile", "sweep") EXCEPT !.url = SweepQuery]
<1>1. run' = [run EXCEPT ![p] = r] /\ UNCHANGED <<feed, now, rows>>
  BY DEF ReconcileStart, Becomes
<1>2. /\ r.op = "reconcile" /\ r.pc = "sweep" /\ r.started = now
      /\ r.url = SweepQuery /\ r.remote = EmptyPage
  BY DEF Begin, Idle
<1>3. SweepQuery.view = TRUE /\ DOMAIN EmptyPage = {} /\ now \in Nat
  BY DEF SweepQuery, Query, EmptyPage, TypeOK, Times
<1> HIDE DEF r
<1>4. run'[p] = r
  BY <1>1 DEF TypeOK
<1> QED
  BY <1>1, <1>2, <1>3, <1>4 DEF CleanInv, CleanRun, Clean

\* A step of a pass: of its sweep, then of its purge and its re-fetches.
LEMMA CleanSweep ==
    ASSUME NEW p, Procs = {p}, TypeOK, CleanInv, ~Slips,
           ReconcileSweep(p) \/ ReconcileDiff(p)
    PROVE  CleanInv'
<1>0. run[p] \in Runs /\ run[p].url \in URLs
  BY DEF TypeOK, Runs
<1>1. CASE ReconcileSweep(p)
  <2>1. PICK lag \in Lags : Becomes(p, [run[p] EXCEPT !.remote = MergeSwept(@, PageOf(run[p].url, lag)),
                                        !.url = NextLink(run[p].url, lag),
                                        !.pc = IF NextLink(run[p].url, lag) = NoURL THEN "diff" ELSE "sweep"])
    BY <1>1 DEF ReconcileSweep
  <2>2. PICK next :
           /\ next = NextLink(run[p].url, lag)
           /\ Becomes(p, [run[p] EXCEPT !.remote = MergeSwept(@, PageOf(run[p].url, lag)),
                                        !.url = next,
                                        !.pc = IF next = NoURL THEN "diff" ELSE "sweep"])
    BY <2>1
  <2> DEFINE page == PageOf(run[p].url, lag)
             pc == IF next = NoURL THEN "diff" ELSE "sweep"
             r == [run[p] EXCEPT !.remote = MergeSwept(@, page), !.url = next, !.pc = pc]
  <2>3. run[p].op = "reconcile" /\ run[p].pc = "sweep" /\ CleanRun(run[p])
    BY <1>1 DEF ReconcileSweep, Running, CleanInv
  <2>4. /\ \A k \in DOMAIN page : Viewable(k)
        /\ next = NoURL \/ next.view
    BY <1>0, <2>2, <2>3, ViewablePage DEF CleanRun
  <2>5. DOMAIN MergeSwept(run[p].remote, page) = DOMAIN run[p].remote \cup DOMAIN page
    BY DEF MergeSwept
  <2> HIDE DEF page
  <2>6. /\ r.op = "reconcile" /\ r.pc = pc /\ r.started = run[p].started
        /\ r.url = next /\ r.remote = MergeSwept(run[p].remote, page)
    BY <1>0, <2>3 DEF Runs
  <2>7. run' = [run EXCEPT ![p] = r] /\ UNCHANGED <<feed, now, rows>>
    BY <1>1, <2>2 DEF ReconcileSweep, Becomes, page
  <2> HIDE DEF r
  <2>8. run'[p] = r
    BY <2>7 DEF TypeOK
  <2>9. \A k \in DOMAIN r.remote : Clean(r, k)
    BY <2>3, <2>4, <2>5, <2>6 DEF CleanRun, Clean
  <2>10. r.pc = "sweep" => r.url.view
    BY <2>4, <2>6
  <2>11. CleanRun(r)
    BY <2>3, <2>6, <2>9, <2>10 DEF CleanRun
  <2> QED
    BY <2>7, <2>8, <2>11 DEF CleanInv, CleanRun, Clean, Viewable
<1>2. CASE ReconcileDiff(p)
  <2> DEFINE r == [run[p] EXCEPT !.pc = "purge", !.remote = EmptyPage,
                                 !.purge = Withdrawn(p), !.refetch = Stale(p)]
  <2>1. run[p].op = "reconcile" /\ run[p].pc = "diff" /\ CleanRun(run[p])
    BY <1>2 DEF ReconcileDiff, Running, CleanInv
  <2>2. run' = [run EXCEPT ![p] = r] /\ UNCHANGED <<feed, now, rows>>
    BY <1>2 DEF ReconcileDiff, Becomes
  <2>3. /\ r.op = "reconcile" /\ r.pc = "purge" /\ r.started = run[p].started
        /\ r.purge = Withdrawn(p)
    BY <1>0, <2>1 DEF Runs
  <2> HIDE DEF r
  <2>4. run'[p] = r
    BY <2>2 DEF TypeOK
  <2>5. \A k \in Keys : rows[k] # 0 /\ k \notin r.purge => Clean(r, k)
    BY <2>1, <2>3 DEF Withdrawn, Swept, CleanRun, Clean
  <2> QED
    BY <2>1, <2>2, <2>3, <2>4, <2>5 DEF CleanInv, CleanRun, Clean, Viewable
<1> QED
  BY <1>1, <1>2

\* A step of a pass that changes neither rows nor purge set beyond recall.
LEMMA CleanGoesOn ==
    ASSUME NEW p, Procs = {p}, TypeOK, CleanInv, NEW r, Becomes(p, r),
           UNCHANGED <<feed, now>>,
           run[p].op = "reconcile", run[p].pc \notin {"sweep", "diff"},
           r.op = "reconcile", r.started = run[p].started,
           r.pc \notin {"sweep", "diff"},
           r.pc = "fetch" => r.url.view,
           r.pc \in {"upsert", "delete", "advance"} => r.next = NoURL \/ r.next.view,
           r.pc = "upsert" => \A k \in DOMAIN r.page : Viewable(k),
           \A k \in Keys : rows'[k] # 0 /\ k \notin r.purge =>
               \/ rows[k] # 0 /\ k \notin run[p].purge
               \/ run[p].pc = "upsert" /\ k \in DOMAIN run[p].page
    PROVE  CleanInv'
<1>1. run'[p] = r
  BY DEF Becomes, TypeOK
<1>2. CleanRun(run[p])
  BY DEF CleanInv
<1>3. \A k : Clean(r, k)' <=> Clean(run[p], k)
  BY DEF Clean, Viewable
<1>4. \A k \in Keys : rows'[k] # 0 /\ k \notin r.purge => Clean(r, k)'
  BY <1>2, <1>3 DEF CleanRun
<1>5. r.pc = "upsert" => \A k \in DOMAIN r.page : Clean(r, k)'
  BY DEF Clean, Viewable
<1>6. CleanRun(r)'
  BY <1>2, <1>4, <1>5 DEF CleanRun
<1> QED
  BY <1>1, <1>6 DEF CleanInv, CleanRun, Clean

LEMMA CleanPurge ==
    ASSUME NEW p, Procs = {p}, TypeOK, CleanInv, ReconcilePurge(p) \/ ReconcilePick(p)
    PROVE  CleanInv'
<1>0. run[p] \in Runs
  BY DEF TypeOK
<1>1. CASE ReconcilePurge(p)
  <2>1. PICK chunk \in Chunks(run[p].purge, PurgeChunk) :
           rows' = Deleted(chunk) /\ Becomes(p, [run[p] EXCEPT !.purge = @ \ chunk])
    BY <1>1 DEF ReconcilePurge
  <2> DEFINE r == [run[p] EXCEPT !.purge = @ \ chunk]
  <2>2. run[p].op = "reconcile" /\ run[p].pc = "purge" /\ UNCHANGED <<feed, now>>
    BY <1>1 DEF ReconcilePurge, Running
  <2>3. /\ r.op = "reconcile" /\ r.pc = "purge" /\ r.started = run[p].started
        /\ r.purge = run[p].purge \ chunk
    BY <1>0, <2>2 DEF Runs
  <2>4. \A k \in Keys : rows'[k] # 0 /\ k \notin r.purge =>
           rows[k] # 0 /\ k \notin run[p].purge
    BY <2>1, <2>3 DEF Deleted
  <2>5. Becomes(p, r)
    BY <2>1
  <2> HIDE DEF r
  <2> QED
    BY <2>2, <2>3, <2>4, <2>5, CleanGoesOn
<1>2. CASE ReconcilePick(p)
  <2>1. PICK chunk \in Chunks(run[p].refetch, ChunkSize) :
           Becomes(p, [run[p] EXCEPT !.pc = "fetch", !.url = Query(0, TRUE, chunk),
                                     !.refetch = @ \ chunk])
    BY <1>2 DEF ReconcilePick
  <2> DEFINE r == [run[p] EXCEPT !.pc = "fetch", !.url = Query(0, TRUE, chunk),
                                 !.refetch = @ \ chunk]
  <2>2. run[p].op = "reconcile" /\ run[p].pc = "purge" /\ UNCHANGED <<feed, now, rows>>
    BY <1>2 DEF ReconcilePick, Running
  <2>3. /\ r.op = "reconcile" /\ r.pc = "fetch" /\ r.started = run[p].started
        /\ r.purge = run[p].purge /\ r.url = Query(0, TRUE, chunk)
    BY <1>0, <2>2 DEF Runs
  <2>4. Query(0, TRUE, chunk).view
    BY DEF Query
  <2>5. Becomes(p, r)
    BY <2>1
  <2> HIDE DEF r
  <2> QED
    BY <2>2, <2>3, <2>4, <2>5, CleanGoesOn
<1> QED
  BY <1>1, <1>2

LEMMA CleanRefetch ==
    ASSUME NEW p, Procs = {p}, TypeOK, CleanInv, ~Slips,
           ReconcileFetch(p) \/ ReconcileUpsert(p) \/ ReconcileDelete(p) \/ ReconcileAdvance(p)
    PROVE  CleanInv'
<1>0. /\ run[p] \in Runs /\ run[p].url \in URLs /\ run[p].page \in Pages
      /\ UNCHANGED <<feed, now>>
      /\ run[p].op = "reconcile" /\ CleanRun(run[p])
  BY DEF TypeOK, Runs, CleanInv, Running,
         ReconcileFetch, ReconcileUpsert, ReconcileDelete, ReconcileAdvance
<1>1. CASE ReconcileFetch(p)
  <2>1. PICK lag \in Lags : Becomes(p, [run[p] EXCEPT !.pc = "upsert", !.page = PageOf(run[p].url, lag),
                                        !.next = NextLink(run[p].url, lag)])
    BY <1>1 DEF ReconcileFetch, FetchPage
  <2>2. PICK next :
           /\ next = NextLink(run[p].url, lag)
           /\ Becomes(p, [run[p] EXCEPT !.pc = "upsert", !.page = PageOf(run[p].url, lag),
                                        !.next = next])
    BY <2>1
  <2> DEFINE page == PageOf(run[p].url, lag)
             r == [run[p] EXCEPT !.pc = "upsert", !.page = page, !.next = next]
  <2>3. run[p].pc = "fetch" /\ rows' = rows
    BY <1>1 DEF ReconcileFetch, Running
  <2>4. /\ \A k \in DOMAIN page : Viewable(k)
        /\ next = NoURL \/ next.view
    BY <1>0, <2>2, <2>3, ViewablePage DEF CleanRun
  <2> HIDE DEF page
  <2>5. /\ r.op = "reconcile" /\ r.pc = "upsert" /\ r.started = run[p].started
        /\ r.purge = run[p].purge /\ r.page = page /\ r.next = next
    BY <1>0 DEF Runs
  <2>6. Becomes(p, r)
    BY <2>2 DEF page
  <2> HIDE DEF r
  <2> QED
    BY <1>0, <2>3, <2>4, <2>5, <2>6, CleanGoesOn
<1>2. CASE ReconcileUpsert(p)
  <2> DEFINE pc == IF RevokedKeys(run[p].page) = {} THEN "advance" ELSE "delete"
             r == [run[p] EXCEPT !.pc = pc]
  <2>1. run[p].pc = "upsert" /\ Becomes(p, r) /\ rows' = Upserted(run[p].page)
    BY <1>2 DEF ReconcileUpsert, Running, UpsertPage
  <2>2. /\ r.op = "reconcile" /\ r.pc \in {"advance", "delete"}
        /\ r.started = run[p].started
        /\ r.purge = run[p].purge /\ r.next = run[p].next
    BY <1>0 DEF Runs
  <2>3. run[p].next = NoURL \/ run[p].next.view
    BY <1>0, <2>1 DEF CleanRun
  <2>4. \A k \in Keys : rows'[k] # 0 /\ k \notin r.purge =>
           \/ rows[k] # 0 /\ k \notin run[p].purge
           \/ run[p].pc = "upsert" /\ k \in DOMAIN run[p].page
    BY <2>1, <2>2 DEF Upserted
  <2> HIDE DEF r
  <2> QED
    BY <1>0, <2>1, <2>2, <2>3, <2>4, CleanGoesOn
<1>3. CASE ReconcileDelete(p)
  <2> DEFINE r == [run[p] EXCEPT !.pc = "advance"]
  <2>1. run[p].pc = "delete" /\ Becomes(p, r) /\ rows' = Deleted(RevokedKeys(run[p].page))
    BY <1>3 DEF ReconcileDelete, Running, DeletePage
  <2>2. /\ r.op = "reconcile" /\ r.pc = "advance" /\ r.started = run[p].started
        /\ r.purge = run[p].purge /\ r.next = run[p].next
    BY <1>0 DEF Runs
  <2>3. run[p].next = NoURL \/ run[p].next.view
    BY <1>0, <2>1 DEF CleanRun
  <2>4. \A k \in Keys : rows'[k] # 0 /\ k \notin r.purge =>
           rows[k] # 0 /\ k \notin run[p].purge
    BY <2>1, <2>2 DEF Deleted
  <2> HIDE DEF r
  <2> QED
    BY <1>0, <2>1, <2>2, <2>3, <2>4, CleanGoesOn
<1>4. CASE ReconcileAdvance(p)
  <2> DEFINE pc == IF run[p].next = NoURL THEN "purge" ELSE "fetch"
             r == [run[p] EXCEPT !.pc = pc, !.url = run[p].next,
                                 !.page = EmptyPage, !.next = NoURL]
  <2>1. run[p].pc = "advance" /\ Becomes(p, r) /\ rows' = rows
    BY <1>4 DEF ReconcileAdvance, Running
  <2>2. /\ r.op = "reconcile" /\ r.pc = pc /\ r.started = run[p].started
        /\ r.purge = run[p].purge /\ r.url = run[p].next
    BY <1>0 DEF Runs
  <2>3. run[p].next = NoURL \/ run[p].next.view
    BY <1>0, <2>1 DEF CleanRun
  <2> HIDE DEF r
  <2> QED
    BY <1>0, <2>1, <2>2, <2>3, CleanGoesOn
<1> QED
  BY <1>1, <1>2, <1>3, <1>4

\* Another command runs, or none.
LEMMA CleanOther ==
    ASSUME NEW p, Procs = {p}, TypeOK, NEW r, Becomes(p, r), r.op # "reconcile"
    PROVE  CleanInv'
BY DEF CleanInv, CleanRun, Becomes, TypeOK

\* A step of a backfill or of a sync leaves no reconcile running.
LEMMA OtherEngines ==
    ASSUME NEW p \in Procs, TypeOK, BackfillNext(p) \/ SyncNext(p)
    PROVE  run'[p].op # "reconcile"
<1>0. run[p] \in Runs /\ Idle.op = "none"
  BY DEF TypeOK, Idle
<1>1. CASE \E force \in BOOLEAN : BackfillStart(p, force)
  BY <1>1 DEF BackfillStart, Becomes, TypeOK, Begin, Idle
<1>2. CASE SyncStart(p)
  BY <1>2 DEF SyncStart, Becomes, TypeOK, Begin, Idle
<1>3. CASE BackfillCap(p) \/ BackfillComplete(p)
  BY <1>0, <1>3 DEF BackfillCap, BackfillComplete, Becomes, TypeOK
<1>4. CASE BackfillFetch(p) \/ SyncFetch(p)
  <2>1. PICK lag, next : Becomes(p, [run[p] EXCEPT !.pc = "upsert",
                                                   !.page = PageOf(run[p].url, lag),
                                                   !.next = next])
    BY <1>4 DEF BackfillFetch, SyncFetch, FetchPage
  <2>2. run[p].op # "reconcile"
    BY <1>4 DEF BackfillFetch, SyncFetch, Running
  <2> QED
    BY <1>0, <2>1, <2>2 DEF Becomes, TypeOK, Runs
<1>5. CASE BackfillReject(p) \/ SyncReject(p)
  <2>1. PICK url : Becomes(p, [run[p] EXCEPT !.rebuilt = TRUE, !.url = url])
    BY <1>5 DEF BackfillReject, BackfillRebuild, SyncReject, SyncRebuild
  <2>2. run[p].op # "reconcile"
    BY <1>5 DEF BackfillReject, BackfillRebuild, SyncReject, SyncRebuild, Running
  <2> QED
    BY <1>0, <2>1, <2>2 DEF Becomes, TypeOK, Runs
<1>6. CASE BackfillUpsert(p) \/ SyncUpsert(p)
  BY <1>0, <1>6 DEF BackfillUpsert, SyncUpsert, UpsertPage, Becomes, TypeOK, Running, Runs
<1>7. CASE BackfillDelete(p) \/ SyncDelete(p)
  BY <1>0, <1>7 DEF BackfillDelete, SyncDelete, DeletePage, Becomes, TypeOK, Running, Runs
<1>8. CASE BackfillPersist(p)
  BY <1>0, <1>8 DEF BackfillPersist, Becomes, TypeOK, Running, Runs
<1>9. CASE SyncPersist(p)
  BY <1>0, <1>9 DEF SyncPersist, Becomes, TypeOK, Running, Runs
<1> QED
  BY <1>1, <1>2, <1>3, <1>4, <1>5, <1>6, <1>7, <1>8, <1>9
     DEF BackfillNext, BackfillStep, SyncNext, SyncStep

LEMMA CleanNext ==
    ASSUME NEW p, Procs = {p}, TypeOK, CleanInv, ~Slips, [Next]_vars
    PROVE  CleanInv'
<1>0. run[p] \in Runs /\ Idle.op = "none"
  BY DEF TypeOK, Idle
<1>1. CASE FeedNext /\ UNCHANGED <<rows, syncState, run, faults>>
  BY <1>1, CleanFeed
<1>2. CASE BackfillNext(p) \/ SyncNext(p)
  BY <1>2, OtherEngines DEF CleanInv, CleanRun
<1>3. CASE ReconcileNext(p)
  <2>1. CASE ReconcileStamp(p)
    BY <1>0, <2>1, CleanOther DEF ReconcileStamp
  <2> QED
    BY <1>3, <2>1, CleanStarts, CleanSweep, CleanPurge, CleanRefetch
       DEF ReconcileNext, ReconcileStep
<1>4. CASE Abort(p)
  BY <1>0, <1>4, CleanOther DEF Abort
<1>5. CASE UNCHANGED vars
  BY <1>5 DEF vars, CleanInv, CleanRun, Clean, Viewable
<1> QED
  BY <1>1, <1>2, <1>3, <1>4, <1>5 DEF Next

\* With one process at a time and MlgCanView filters that let no revoked
\* record through, a completed reconcile pass leaves no row whose license had
\* ended before the pass began.
THEOREM ReconcileLeavesClean ==
    ASSUME NEW p, Procs = {p}, ~Slips
    PROVE  Spec => []ReconcileClean
<1>1. Init => CleanInv
  BY DEF Init, EngineInit, CleanInv, CleanRun, Idle
<1>2. TypeOK /\ CleanInv /\ [Next]_vars => CleanInv'
  BY CleanNext
<1>3. CleanInv => ReconcileClean
  BY DEF CleanInv, CleanRun, Clean, ReconcileClean, Running
<1> QED
  BY <1>1, <1>2, <1>3, TypeCorrect, PTL DEF Spec

-----------------------------------------------------------------------------
(* One process at a time: a run as one step.                                *)

\* What a run has done to the row so far is what a run that fails may leave,
\* and the stamp is as it was.
SummaryRun(r) ==
    /\ r.op = "none" => r = Idle
    /\ r.op # "none" => r.st.reconciledAt = syncState.reconciledAt
    /\ r.op = "backfill" => Phase \in Summary!AfterFailedBackfill(PhaseOf(r.st))

SummaryInv ==
    /\ syncState.reconciledAt \in Nat
    /\ syncState.reconciledAt <= now
    /\ \A p \in Procs : SummaryRun(run[p])

SummaryStep == [Summary!SummaryNext]_(Summary!summary)

\* What a step of a run does, as its summary sees it: the run goes on, ends
\* without an error, or ends with one.
LEMMA SummaryGoesOn ==
    ASSUME NEW p, Procs = {p}, TypeOK, SummaryInv, NEW r, Becomes(p, r),
           run[p].op # "none", r.op = run[p].op, r.st = run[p].st,
           UNCHANGED <<now, syncState>>, UNCHANGED faults \/ Fault
    PROVE  SummaryInv' /\ SummaryStep
<1>1. Alone = p
  BY DEF Alone
<1>2. run'[p] = r /\ r # Idle /\ run[p] # Idle
  BY DEF Becomes, TypeOK, Idle
<1>3. SummaryInv'
  BY <1>2 DEF SummaryInv, SummaryRun, Phase, PhaseOf
<1>4. Found' = run[p].st /\ Found = run[p].st /\ run'[Alone].op = run[Alone].op
  BY <1>1, <1>2 DEF Found
<1>5. PhaseOf(Found)' = PhaseOf(Found)
  BY <1>4 DEF PhaseOf
<1>6. UNCHANGED Summary!summary \/ Summary!GoesOn
  BY <1>1, <1>4, <1>5 DEF Fault, Summary!summary, Summary!GoesOn
<1> QED
  BY <1>3, <1>6 DEF SummaryStep, Summary!SummaryNext

LEMMA SummaryEnds ==
    ASSUME NEW p, Procs = {p}, TypeOK, SummaryInv, Becomes(p, Idle), run[p].op # "none",
           syncState'.reconciledAt \in Nat, syncState'.reconciledAt <= now',
           \/ /\ faults' = faults
              /\ Phase' \in IF run[p].op = "backfill" THEN Summary!AfterBackfill(MaxPages > 0)
                            ELSE {"complete"}
              /\ IF run[p].op = "reconcile"
                 THEN /\ syncState'.reconciledAt \in Nat \ {0}
                      /\ syncState'.reconciledAt >= syncState.reconciledAt
                 ELSE syncState'.reconciledAt = syncState.reconciledAt
           \/ /\ faults' = faults + 1
              /\ Phase' \in IF run[p].op = "backfill"
                            THEN Summary!AfterFailedBackfill(PhaseOf(run[p].st)) ELSE {"complete"}
              /\ syncState'.reconciledAt = syncState.reconciledAt
    PROVE  SummaryInv' /\ SummaryStep
<1>1. Alone = p
  BY DEF Alone
<1>2. run'[p] = Idle /\ Idle.op = "none" /\ run[p] # Idle
  BY DEF Becomes, TypeOK, Idle
<1>3. SummaryInv'
  BY <1>2 DEF SummaryInv, SummaryRun
<1>4. Found' = syncState' /\ Found = run[p].st
  BY <1>1, <1>2 DEF Found
<1>5. PhaseOf(Found)' = Phase' /\ PhaseOf(Found) = PhaseOf(run[p].st)
  BY <1>4 DEF PhaseOf, Phase
<1>6. Summary!Succeeds \/ Summary!Fails
  BY <1>1, <1>2, <1>5 DEF Summary!Succeeds, Summary!Fails, Summary!AfterBackfill,
     Summary!AfterFailedBackfill
<1> QED
  BY <1>3, <1>6 DEF SummaryStep, Summary!SummaryNext

\* A run starts from the row it reads.
LEMMA SummaryStarts ==
    ASSUME NEW p, Procs = {p}, TypeOK, SummaryInv, NEW r, Becomes(p, r), run[p] = Idle,
           r.op \in {"backfill", "sync", "reconcile"}, r.st = syncState,
           r.op # "backfill" => syncState.completedAt # 0,
           UNCHANGED <<now, syncState, faults>>
    PROVE  SummaryInv' /\ SummaryStep
<1>1. Alone = p
  BY DEF Alone
<1>2. run'[p] = r /\ r # Idle /\ Idle.op = "none"
  BY DEF Becomes, TypeOK, Idle
<1>3. SummaryInv'
  BY <1>2 DEF SummaryInv, SummaryRun, Phase, PhaseOf, Summary!AfterFailedBackfill
<1>4. Found' = syncState /\ Found = syncState
  BY <1>1, <1>2 DEF Found
<1>5. PhaseOf(Found)' = PhaseOf(Found) /\ (r.op # "backfill" => PhaseOf(Found) = "complete")
  BY <1>4 DEF PhaseOf
<1>6. Summary!Starts
  BY <1>1, <1>2, <1>5 DEF Summary!Starts
<1> QED
  BY <1>3, <1>6 DEF SummaryStep, Summary!SummaryNext

LEMMA SummaryFetchPage ==
    ASSUME NEW p, Procs = {p}, TypeOK, SummaryInv, FetchPage(p), run[p].op # "none",
           UNCHANGED <<now, syncState, faults>>
    PROVE  SummaryInv' /\ SummaryStep
<1>1. PICK page, next : Becomes(p, [run[p] EXCEPT !.pc = "upsert", !.page = page, !.next = next])
  BY DEF FetchPage
<1>2. run[p] \in Runs
  BY DEF TypeOK
<1> QED
  BY <1>1, <1>2, SummaryGoesOn DEF Runs

LEMMA SummaryStorePage ==
    ASSUME NEW p, Procs = {p}, TypeOK, SummaryInv, NEW done,
           UpsertPage(p, done) \/ DeletePage(p, done), run[p].op # "none",
           UNCHANGED <<now, syncState, faults>>
    PROVE  SummaryInv' /\ SummaryStep
<1>1. PICK pc : Becomes(p, [run[p] EXCEPT !.pc = pc])
  BY DEF UpsertPage, DeletePage
<1>2. run[p] \in Runs
  BY DEF TypeOK
<1> QED
  BY <1>1, <1>2, SummaryGoesOn DEF Runs

LEMMA SummaryBackfill ==
    ASSUME NEW p, Procs = {p}, TypeOK, CursorInv, LifeInv, SummaryInv, BackfillNext(p)
    PROVE  SummaryInv' /\ SummaryStep
<1>0. run[p] \in Runs /\ RunFollows(run[p]) /\ SummaryRun(run[p])
  BY DEF TypeOK, LifeInv, SummaryInv
<1>1. ASSUME NEW force \in BOOLEAN, BackfillStart(p, force) PROVE SummaryInv' /\ SummaryStep
  BY <1>1, SummaryStarts DEF BackfillStart, Begin, Idle
<1>2. CASE BackfillCap(p)
  <2>1. Resuming /\ MaxPages > 0
    BY <1>0, <1>2, EngineConstants DEF BackfillCap, PagesSpent, Running, RunFollows, Runs
  <2>2. Phase \in Summary!AfterBackfill(MaxPages > 0) /\ Phase' = Phase
    BY <1>2, <2>1 DEF Summary!AfterBackfill, BackfillCap, Phase, PhaseOf, Resuming
  <2> QED
    BY <1>2, <2>2, SummaryEnds DEF BackfillCap, Running, SummaryInv
<1>3. CASE BackfillFetch(p)
  BY <1>3, SummaryFetchPage DEF BackfillFetch, Running
<1>4. CASE BackfillReject(p)
  BY <1>0, <1>4, SummaryGoesOn DEF BackfillReject, BackfillRebuild, Running, Runs
<1>5. CASE BackfillUpsert(p)
  BY <1>5, SummaryStorePage DEF BackfillUpsert, Running
<1>6. CASE BackfillDelete(p)
  BY <1>6, SummaryStorePage DEF BackfillDelete, Running
<1>7. CASE BackfillPersist(p)
  <2> DEFINE wm == MaxModificationTS(run[p].wm, run[p].page)
             next == run[p].next
  <2>1. /\ run'[p].op = "backfill" /\ run[p].op = "backfill"
        /\ run'[p].st = run[p].st
    BY <1>0, <1>7 DEF BackfillPersist, Becomes, Running, Runs, TypeOK
  <2>2. syncState' = [wm |-> wm, inProgress |-> next, completedAt |-> 0,
                      reconciledAt |-> run[p].st.reconciledAt]
    BY <1>7 DEF BackfillPersist, Checkpoint
  <2> HIDE DEF wm, next
  <2>3. /\ syncState'.completedAt = 0
        /\ syncState'.reconciledAt = syncState.reconciledAt
        /\ run[p].st.reconciledAt = syncState.reconciledAt
    BY <1>0, <2>1, <2>2 DEF SummaryRun
  <2>4. Phase' \in {"importing", "unfinished"}
    BY <2>3 DEF Phase, PhaseOf
  <2>5. UNCHANGED <<now, faults>> /\ Alone = p
    BY <1>7 DEF BackfillPersist, Alone
  <2>6. run[p] # Idle /\ run'[p] # Idle
    BY <2>1 DEF Idle
  <2>7. SummaryInv'
    BY <2>1, <2>3, <2>4, <2>5 DEF SummaryInv, SummaryRun, Summary!AfterFailedBackfill
  <2>8. PhaseOf(Found)' = PhaseOf(Found)
    BY <2>1, <2>5, <2>6 DEF Found, PhaseOf
  <2>9. UNCHANGED Summary!summary
    BY <2>1, <2>3, <2>5, <2>8 DEF Summary!summary
  <2> QED
    BY <2>7, <2>9 DEF SummaryStep
<1>8. CASE BackfillComplete(p)
  <2>1. syncState' = [wm |-> FinalWatermark(run[p]), inProgress |-> NoURL,
                      completedAt |-> now, reconciledAt |-> run[p].st.reconciledAt]
    BY <1>8 DEF BackfillComplete
  <2>2. syncState'.completedAt # 0 /\ syncState'.reconciledAt = syncState.reconciledAt
    BY <1>0, <1>8, <2>1 DEF BackfillComplete, Running, SummaryRun, CursorInv
  <2>3. Phase' = "complete"
    BY <2>2 DEF Phase, PhaseOf
  <2> QED
    BY <1>8, <2>2, <2>3, SummaryEnds DEF BackfillComplete, Running, SummaryInv, Summary!AfterBackfill
<1> QED
  BY <1>1, <1>2, <1>3, <1>4, <1>5, <1>6, <1>7, <1>8 DEF BackfillNext, BackfillStep

LEMMA SummarySync ==
    ASSUME NEW p, Procs = {p}, TypeOK, LifeInv, SummaryInv, SyncNext(p)
    PROVE  SummaryInv' /\ SummaryStep
<1>0. run[p] \in Runs /\ RunFollows(run[p]) /\ SummaryRun(run[p])
  BY DEF TypeOK, LifeInv, SummaryInv
<1>1. CASE SyncStart(p)
  BY <1>1, SummaryStarts DEF SyncStart, Begin, Idle
<1>2. CASE SyncFetch(p)
  BY <1>2, SummaryFetchPage DEF SyncFetch, Running
<1>3. CASE SyncReject(p)
  BY <1>0, <1>3, SummaryGoesOn DEF SyncReject, SyncRebuild, Running, Runs
<1>4. CASE SyncUpsert(p)
  BY <1>4, SummaryStorePage DEF SyncUpsert, Running
<1>5. CASE SyncDelete(p)
  BY <1>5, SummaryStorePage DEF SyncDelete, Running
<1>6. CASE SyncPersist(p)
  <2> DEFINE wm == MaxModificationTS(run[p].wm, run[p].page)
  <2>1. syncState' = [run[p].st EXCEPT !.wm = wm, !.inProgress = NoURL] /\ run[p].op = "sync"
    BY <1>6 DEF SyncPersist, Saved, Running
  <2> HIDE DEF wm
  <2>2. /\ syncState'.completedAt = run[p].st.completedAt
        /\ syncState'.reconciledAt = run[p].st.reconciledAt
    BY <1>0, <2>1 DEF Runs, SyncStates
  <2>3. run[p].st.completedAt # 0 /\ run[p].st.reconciledAt = syncState.reconciledAt
    BY <1>0, <2>1 DEF RunFollows, SummaryRun
  <2>4. Phase' = "complete"
    BY <2>2, <2>3 DEF Phase, PhaseOf
  <2>5. UNCHANGED <<now, faults>> /\ Alone = p
    BY <1>6 DEF SyncPersist, Alone
  <2>6. CASE Becomes(p, Idle)
    BY <2>1, <2>2, <2>3, <2>4, <2>5, <2>6, SummaryEnds DEF SummaryInv
  <2>7. CASE ~Becomes(p, Idle)
    <3>1. run'[p].op = "sync" /\ run'[p].st = run[p].st
      BY <1>0, <1>6, <2>7 DEF SyncPersist, Becomes, Running, Runs, TypeOK
    <3>2. run[p] # Idle /\ run'[p] # Idle
      BY <2>1, <3>1 DEF Idle
    <3>3. SummaryInv'
      BY <2>2, <2>3, <2>5, <3>1 DEF SummaryInv, SummaryRun
    <3>4. PhaseOf(Found)' = PhaseOf(Found)
      BY <2>5, <3>1, <3>2 DEF Found, PhaseOf
    <3>5. UNCHANGED Summary!summary
      BY <2>1, <2>2, <2>3, <2>5, <3>1, <3>4 DEF Summary!summary
    <3> QED
      BY <3>3, <3>5 DEF SummaryStep
  <2> QED
    BY <2>6, <2>7
<1> QED
  BY <1>1, <1>2, <1>3, <1>4, <1>5, <1>6 DEF SyncNext, SyncStep

LEMMA SummaryReconcile ==
    ASSUME NEW p, Procs = {p}, TypeOK, CursorInv, LifeInv, SummaryInv, ReconcileNext(p)
    PROVE  SummaryInv' /\ SummaryStep
<1>0. run[p] \in Runs /\ RunFollows(run[p])
  BY DEF TypeOK, LifeInv
<1>1. CASE ReconcileStart(p)
  BY <1>1, SummaryStarts DEF ReconcileStart, Begin, Idle
<1>2. CASE ReconcileSweep(p)
  BY <1>0, <1>2, SummaryGoesOn DEF ReconcileSweep, Running, Runs
<1>3. CASE ReconcileDiff(p)
  BY <1>0, <1>3, SummaryGoesOn DEF ReconcileDiff, Running, Runs
<1>4. CASE ReconcilePurge(p)
  BY <1>0, <1>4, SummaryGoesOn DEF ReconcilePurge, Running, Runs
<1>5. CASE ReconcilePick(p)
  BY <1>0, <1>5, SummaryGoesOn DEF ReconcilePick, Running, Runs
<1>6. CASE ReconcileFetch(p)
  BY <1>6, SummaryFetchPage DEF ReconcileFetch, Running
<1>7. CASE ReconcileUpsert(p)
  BY <1>7, SummaryStorePage DEF ReconcileUpsert, Running
<1>8. CASE ReconcileDelete(p)
  BY <1>8, SummaryStorePage DEF ReconcileDelete, Running
<1>9. CASE ReconcileAdvance(p)
  BY <1>0, <1>9, SummaryGoesOn DEF ReconcileAdvance, Running, Runs
<1>10. CASE ReconcileStamp(p)
  <2>1. run[p].st = syncState /\ syncState.completedAt # 0 /\ run[p].op = "reconcile"
    BY <1>0, <1>10 DEF ReconcileStamp, Running, RunFollows
  <2>2. syncState' = [syncState EXCEPT !.reconciledAt = now]
    BY <1>10, <2>1 DEF ReconcileStamp, Stamped
  <2>3. syncState'.reconciledAt = now /\ syncState'.completedAt # 0
    BY <2>1, <2>2 DEF TypeOK, SyncStates
  <2>4. now \in Nat \ {0} /\ now' = now
    BY <1>10, FeedConstants DEF CursorInv, TypeOK, Times, ReconcileStamp
  <2>5. Phase' = "complete"
    BY <2>3 DEF Phase, PhaseOf
  <2> QED
    BY <1>10, <2>1, <2>3, <2>4, <2>5, SummaryEnds DEF ReconcileStamp, SummaryInv
<1> QED
  BY <1>1, <1>2, <1>3, <1>4, <1>5, <1>6, <1>7, <1>8, <1>9, <1>10
     DEF ReconcileNext, ReconcileStep

LEMMA SummaryAbort ==
    ASSUME NEW p, Procs = {p}, TypeOK, LifeInv, SummaryInv, Abort(p)
    PROVE  SummaryInv' /\ SummaryStep
<1>1. run[p].op \in {"backfill", "sync", "reconcile"}
  BY DEF Abort, TypeOK, Runs
<1>2. Phase' = Phase /\ UNCHANGED <<now, syncState>> /\ faults' = faults + 1
  BY DEF Abort, Fault, Phase, PhaseOf
<1>3. run[p].op = "backfill" => Phase \in Summary!AfterFailedBackfill(PhaseOf(run[p].st))
  BY DEF SummaryInv, SummaryRun
<1>4. run[p].op # "backfill" => Phase = "complete"
  BY <1>1 DEF LifeInv, RunFollows, Phase, PhaseOf
<1> QED
  BY <1>1, <1>2, <1>3, <1>4, SummaryEnds DEF Abort, SummaryInv

LEMMA SummaryNext ==
    ASSUME NEW p, Procs = {p}, TypeOK, CursorInv, LifeInv, SummaryInv, [Next]_vars
    PROVE  SummaryInv' /\ SummaryStep
<1>1. CASE UNCHANGED <<syncState, run, faults>> /\ (FeedNext \/ UNCHANGED now)
  <2>1. now' >= now /\ now' \in Nat /\ now \in Nat
    <3>1. now' \in {now, now + 1}
      BY <1>1 DEF FeedNext, Modify, Revoke, Expire
    <3> QED
      BY <3>1, FeedConstants DEF TypeOK, Times
  <2>2. SummaryInv'
    BY <1>1, <2>1 DEF SummaryInv, SummaryRun, Phase, PhaseOf
  <2>3. UNCHANGED Summary!summary
    BY <1>1 DEF Summary!summary, Found, PhaseOf
  <2> QED
    BY <2>2, <2>3 DEF SummaryStep
<1>2. CASE BackfillNext(p) \/ SyncNext(p) \/ ReconcileNext(p)
  BY <1>2, SummaryBackfill, SummarySync, SummaryReconcile
<1>3. CASE Abort(p)
  BY <1>3, SummaryAbort
<1> QED
  BY <1>1, <1>2, <1>3 DEF Next, vars

\* With one process at a time every run leaves its row as Commands takes it to:
\* what the engines do step by step is one step of RunSummary.
THEOREM RunsImplementSummary ==
    ASSUME NEW p, Procs = {p}
    PROVE  Spec => RunsAreSummarized
<1>1. Init => CursorInv /\ LifeInv /\ SummaryInv /\ Summary!SummaryInit
  <2> SUFFICES ASSUME Init PROVE SummaryInv /\ Summary!SummaryInit
    BY CursorInit, LifeInit
  <2>1. /\ Alone = p /\ run[p] = Idle /\ Idle.op = "none" /\ faults = 0
        /\ syncState = NoState /\ now \in Nat
    BY FeedConstants DEF Alone, Init, FeedInit, EngineInit, Idle
  <2>2. NoState.reconciledAt = 0 /\ PhaseOf(NoState) = "unfinished"
    BY DEF NoState, PhaseOf
  <2> QED
    BY <2>1, <2>2 DEF SummaryInv, SummaryRun, Summary!SummaryInit, Found
<1>2. TypeOK /\ CursorInv /\ [Next]_vars => CursorInv'
  BY CursorNext
<1>3. TypeOK /\ CursorInv /\ LifeInv /\ [Next]_vars => LifeInv'
  BY LifeNext
<1>4. TypeOK /\ CursorInv /\ LifeInv /\ SummaryInv /\ [Next]_vars =>
         SummaryInv' /\ [Summary!SummaryNext]_(Summary!summary)
  BY SummaryNext DEF SummaryStep
<1> QED
  BY <1>1, <1>2, <1>3, <1>4, TypeCorrect, PTL
     DEF Spec, RunsAreSummarized, Summary!SummarySpec

=============================================================================
