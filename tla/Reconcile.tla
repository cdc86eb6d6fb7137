----------------------------- MODULE Reconcile -----------------------------
(***************************************************************************)
(* The `reconcile` command: Reconcile.runResource of internal/engine/       *)
(* reconcile.go.  Sweep the viewable feed, diff it against the rows, purge  *)
(* what the feed no longer returns, fetch again what is stale.              *)
(***************************************************************************)
EXTENDS Engine

\* Mutant: revoked records count as remote keys.
SweepEverything == Query(0, FALSE, Keys)

\* Reconcile.sweep: keys and timestamps of the viewable records.
SweepQuery == Query(0, TRUE, Keys)

Swept(p) == DOMAIN run[p].remote

\* Mutant: every page starts the key set over.
LastPageOnly(remote, page) == [k \in DOMAIN page |-> page[k].ts]

MergeSwept(remote, page) ==
    [k \in DOMAIN remote \cup DOMAIN page |->
       IF k \in DOMAIN page THEN page[k].ts ELSE remote[k]]

\* Refused unless a backfill has completed.
ReconcileStart(p) ==
    /\ run[p] = Idle
    /\ syncState.completedAt # 0
    /\ Becomes(p, [Begin("reconcile", "sweep") EXCEPT !.url = SweepQuery])
    /\ UNCHANGED <<feed, now, rows, syncState, faults>>

\* One page of the sweep: keys and timestamps only.
ReconcileSweep(p) ==
    /\ Running(p, "reconcile", "sweep")
    /\ \E lag \in Lags :
         LET next == NextLink(run[p].url, lag)
         IN  Becomes(p, [run[p] EXCEPT !.remote = MergeSwept(@, PageOf(run[p].url, lag)),
                                       !.url = next,
                                       !.pc = IF next = NoURL THEN "diff" ELSE "sweep"])
    /\ UNCHANGED <<feed, now, rows, syncState, faults>>

\* The diff of the two key sets: stored but not swept, and swept but older here
\* (or, when asked for, not here at all).
Withdrawn(p) == {k \in Keys : rows[k] # 0 /\ k \notin Swept(p)}

Stale(p) == {k \in Swept(p) : IF rows[k] = 0 THEN IncludeMissing
                              ELSE run[p].remote[k] > rows[k]}

\* ListKeys, then the diff.
ReconcileDiff(p) ==
    /\ Running(p, "reconcile", "diff")
    /\ Becomes(p, [run[p] EXCEPT
                     !.pc = "purge",
                     !.remote = EmptyPage,
                     !.purge = Withdrawn(p),
                     !.refetch = Stale(p)])
    /\ UNCHANGED <<feed, now, rows, syncState, faults>>

\* chunks: the keys in any order (a Go map was ranged over), size at a time.
Chunks(S, size) == {C \in SUBSET S : Cardinality(C) = size \/ (C = S /\ Cardinality(S) < size)}

ReconcilePurge(p) ==
    /\ Running(p, "reconcile", "purge")
    /\ run[p].purge # {}
    /\ \E chunk \in Chunks(run[p].purge, PurgeChunk) :
         /\ rows' = Deleted(chunk)
         /\ Becomes(p, [run[p] EXCEPT !.purge = @ \ chunk])
    /\ UNCHANGED <<feed, now, syncState, faults>>

\* The next re-fetch query: MlgCanView true and a key filter.
ReconcilePick(p) ==
    /\ Running(p, "reconcile", "purge")
    /\ run[p].purge = {}
    /\ run[p].refetch # {}
    /\ \E chunk \in Chunks(run[p].refetch, ChunkSize) :
         Becomes(p, [run[p] EXCEPT !.pc = "fetch",
                                   !.url = Query(0, TRUE, chunk),
                                   !.refetch = @ \ chunk])
    /\ UNCHANGED <<feed, now, rows, syncState, faults>>

\* Any error here, a 400 included, fails the pass (Abort).
ReconcileFetch(p) ==
    /\ Running(p, "reconcile", "fetch")
    /\ FetchPage(p)
    /\ UNCHANGED <<feed, now, rows, syncState, faults>>

ReconcileUpsert(p) ==
    /\ Running(p, "reconcile", "upsert")
    /\ UpsertPage(p, "advance")
    /\ UNCHANGED <<feed, now, syncState, faults>>

ReconcileDelete(p) ==
    /\ Running(p, "reconcile", "delete")
    /\ DeletePage(p, "advance")
    /\ UNCHANGED <<feed, now, syncState, faults>>

ReconcileAdvance(p) ==
    /\ Running(p, "reconcile", "advance")
    /\ Becomes(p, [run[p] EXCEPT !.pc = IF run[p].next = NoURL THEN "purge" ELSE "fetch",
                                 !.url = run[p].next,
                                 !.page = EmptyPage,
                                 !.next = NoURL])
    /\ UNCHANGED <<feed, now, rows, syncState, faults>>

\* The whole row is written back as it was read at the start.
Stamped(r) == [r.st EXCEPT !.reconciledAt = now]

\* Stamp the pass.
ReconcileStamp(p) ==
    /\ Running(p, "reconcile", "purge")
    /\ run[p].purge = {}
    /\ run[p].refetch = {}
    /\ syncState' = Stamped(run[p])
    /\ Becomes(p, Idle)
    /\ UNCHANGED <<feed, now, rows, faults>>

ReconcileStep(p) ==
    \/ ReconcileSweep(p)
    \/ ReconcileDiff(p)
    \/ ReconcilePurge(p)
    \/ ReconcilePick(p)
    \/ ReconcileFetch(p)
    \/ ReconcileUpsert(p)
    \/ ReconcileDelete(p)
    \/ ReconcileAdvance(p)
    \/ ReconcileStamp(p)

ReconcileNext(p) ==
    \/ ReconcileStart(p)
    \/ ReconcileStep(p)

=============================================================================
