---------------------------- MODULE Replication ----------------------------
(***************************************************************************)
(* The replication of one resource: processes running backfills, syncs and  *)
(* reconciles over one store, while the feed changes.                       *)
(***************************************************************************)
EXTENDS Backfill, Sync, Reconcile

Init == FeedInit /\ EngineInit

Step(p) == BackfillStep(p) \/ SyncStep(p) \/ ReconcileStep(p)

Next ==
    \/ FeedNext /\ UNCHANGED <<rows, syncState, run, faults>>
    \/ \E p \in Procs : BackfillNext(p) \/ SyncNext(p) \/ ReconcileNext(p) \/ Abort(p)

Spec == Init /\ [][Next]_vars

\* A run that started goes on.  The daemon starts a sync pass every interval
\* and a reconcile when one is due, and while the import is incomplete the
\* operator repeats `backfill` (with --force when it is refused).
Fairness ==
    \A p \in Procs :
        /\ WF_vars(Step(p))
        /\ SF_vars(SyncStart(p))
        /\ SF_vars(ReconcileStart(p))
        /\ SF_vars(syncState.completedAt = 0 /\ \E force \in BOOLEAN : BackfillStart(p, force))

FairSpec == Spec /\ Fairness

-----------------------------------------------------------------------------

\* The type invariant.
TypeOK ==
    /\ now \in Times
    /\ feed \in [Keys -> FeedRecord]
    /\ rows \in [Keys -> Times]
    /\ syncState \in SyncStates
    /\ run \in [Procs -> Runs]
    /\ faults \in 0..MaxFaults

\* A cursor that says the import is complete has a watermark to sync from and
\* no import in progress: whatever interleaving of commands wrote it.
CursorWellFormed ==
    syncState.completedAt # 0 => syncState.wm # 0 /\ syncState.inProgress = NoURL

\* "Everything before the watermark is already stored" (backfill.go): a record
\* the feed licenses, in the scope of the import and older than the watermark,
\* is stored in its current version.
EverythingBeforeStored ==
    \A k \in Keys :
        Viewable(k) /\ feed[k].ts >= Since /\ feed[k].ts < syncState.wm
            => rows[k] = feed[k].ts

AllIdle == \A p \in Procs : run[p] = Idle

\* Between commands there is always one that goes on without --force: `sync`,
\* or `backfill` on a resume cursor or on an empty table.
Recoverable ==
    AllIdle => \/ syncState.completedAt # 0
               \/ Resuming
               \/ \A k \in Keys : rows[k] = 0

\* An import that --max-pages cuts goes on with a plain `backfill`, as often as
\* it is cut, as long as nothing fails ("re-run backfill to continue").
CutImportGoesOn == faults = 0 => Recoverable

\* A completed sweep-and-purge leaves no row whose license had ended before
\* the pass began.
ReconcileClean ==
    \A p \in Procs, k \in Keys :
        /\ Running(p, "reconcile", "purge")
        /\ run[p].purge = {}
        /\ run[p].refetch = {}
        /\ rows[k] # 0
        => Viewable(k) \/ feed[k].ts > run[p].started

\* "Revoked records have to arrive so they can be hard-deleted" (sync.go): once
\* `sync` takes over, no revoked record that the feed still returns is stored
\* behind the watermark, where no sync pass looks again.
NoRevokedBehindCursor ==
    \A k \in Keys :
        /\ syncState.completedAt # 0
        /\ feed[k].listed
        /\ ~feed[k].view
        /\ feed[k].ts < syncState.wm
        => rows[k] = 0

-----------------------------------------------------------------------------
(* The life of the cursor (CursorLifecycle), seen in the sync_state row.    *)

PhaseOf(st) ==
    IF st.completedAt # 0 THEN "complete"
    ELSE IF st.inProgress # NoURL THEN "importing"
    ELSE "unfinished"

Phase == PhaseOf(syncState)

Lifecycle == INSTANCE CursorLifecycle WITH phase <- Phase, wm <- syncState.wm

\* One process at a time keeps the life of a cursor: an import that was begun
\* goes forward and is complete only after its last page, with the watermark
\* that page left; a complete one stays complete until a forced import begins.
CursorFollowsLifecycle == Lifecycle!LifecycleSpec

-----------------------------------------------------------------------------
(* A run as one step (RunSummary), with one process.                        *)

Alone == CHOOSE p \in Procs : TRUE

\* The row the next command finds, or the one under way has found.
Found == IF run[Alone] = Idle THEN syncState ELSE run[Alone].st

Summary == INSTANCE RunSummary WITH
    Capped <- MaxPages > 0,
    op <- run[Alone].op,
    phase <- PhaseOf(Found),
    stamp <- syncState.reconciledAt

\* One process at a time leaves the sync_state row as Commands takes it to: a
\* backfill that ends without an error is complete, or can be resumed if
\* --max-pages cut it; a failed sync or reconcile leaves the import complete;
\* and the stamp of the last reconcile outlives every other run.
RunsAreSummarized == Summary!SummarySpec

=============================================================================
