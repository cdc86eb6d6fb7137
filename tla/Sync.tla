-------------------------------- MODULE Sync --------------------------------
(***************************************************************************)
(* The `sync` command: Sync.RunOnce / runResource of internal/engine/       *)
(* sync.go.  One catch-up pass over everything modified at or after the     *)
(* watermark; the daemon repeats it.                                        *)
(***************************************************************************)
EXTENDS Engine

\* Mutant: the query of the backfill.
SyncQueryViewable(wm) == Query(wm, TRUE, Keys)

\* Mutant: gt, what has the timestamp of the watermark is there already.
SyncQueryAfter(wm) == Query(wm + 1, FALSE, Keys)

\* Sync.queryURL: no MlgCanView filter, revoked records have to arrive.
SyncQuery(wm) == Query(wm, FALSE, Keys)

\* Refused unless a completed backfill left a watermark.
SyncStart(p) ==
    /\ run[p] = Idle
    /\ syncState.completedAt # 0
    /\ syncState.wm # 0
    /\ Becomes(p, [Begin("sync", "fetch") EXCEPT !.wm = syncState.wm,
                                                 !.url = SyncQuery(syncState.wm)])
    /\ UNCHANGED <<feed, now, rows, syncState, faults>>

SyncFetch(p) ==
    /\ Running(p, "sync", "fetch")
    /\ FetchPage(p)
    /\ UNCHANGED <<feed, now, rows, syncState, faults>>

\* 400: rebuilt from the watermark, once until a page arrives.
SyncRebuild(p) ==
    /\ Running(p, "sync", "fetch")
    /\ ~run[p].rebuilt
    /\ Becomes(p, [run[p] EXCEPT !.rebuilt = TRUE, !.url = SyncQuery(run[p].wm)])
    /\ UNCHANGED <<feed, now, rows, syncState>>

SyncReject(p) == SyncRebuild(p) /\ Fault

SyncUpsert(p) ==
    /\ Running(p, "sync", "upsert")
    /\ UpsertPage(p, "persist")
    /\ UNCHANGED <<feed, now, syncState, faults>>

SyncDelete(p) ==
    /\ Running(p, "sync", "delete")
    /\ DeletePage(p, "persist")
    /\ UNCHANGED <<feed, now, syncState, faults>>

\* The whole row is written: the other columns are those read at the start.
Saved(r, wm) == [r.st EXCEPT !.wm = wm, !.inProgress = NoURL]

SyncPersist(p) ==
    /\ Running(p, "sync", "persist")
    /\ LET wm == MaxModificationTS(run[p].wm, run[p].page)
           next == run[p].next
       IN  /\ syncState' = Saved(run[p], wm)
           /\ Becomes(p, IF next = NoURL THEN Idle
                         ELSE [run[p] EXCEPT !.pc = "fetch",
                                             !.wm = wm,
                                             !.url = next,
                                             !.page = EmptyPage,
                                             !.next = NoURL,
                                             !.rebuilt = FALSE])
    /\ UNCHANGED <<feed, now, rows, faults>>

SyncStep(p) ==
    \/ SyncFetch(p)
    \/ SyncUpsert(p)
    \/ SyncDelete(p)
    \/ SyncPersist(p)

SyncNext(p) ==
    \/ SyncStart(p)
    \/ SyncStep(p)
    \/ SyncReject(p)

=============================================================================
