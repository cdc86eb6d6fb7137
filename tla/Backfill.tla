------------------------------ MODULE Backfill ------------------------------
(***************************************************************************)
(* The `backfill` command: Backfill.Run of internal/engine/backfill.go.     *)
(* The initial import, resumable through sync_state.in_progress_url.        *)
(***************************************************************************)
EXTENDS Engine

\* Mutant: gt, the records before the watermark are there already.
BackfillQueryAfter(ge) == Query(IF ge = 0 THEN 0 ELSE ge + 1, TRUE, Keys)

\* Mutant: the import starts over.
BackfillQueryFromStart(ge) == Query(Since, TRUE, Keys)

\* Backfill.queryURL
BackfillQuery(ge) == Query(ge, TRUE, Keys)

Resuming == syncState.inProgress # NoURL

\* A run starts fresh, resumes, or is refused.
BackfillStart(p, force) ==
    /\ run[p] = Idle
    /\ \/ Resuming
       \/ force
       \/ syncState.completedAt = 0 /\ \A k \in Keys : rows[k] = 0
    /\ Becomes(p, [Begin("backfill", "fetch") EXCEPT
                     !.wm = IF Resuming THEN syncState.wm ELSE Since,
                     !.url = IF Resuming THEN syncState.inProgress ELSE BackfillQuery(Since)])
    /\ UNCHANGED <<feed, now, rows, syncState, faults>>

PagesSpent(p) == MaxPages > 0 /\ run[p].pages >= MaxPages

\* --max-pages: the run ends, its cursor already persisted.
BackfillCap(p) ==
    /\ Running(p, "backfill", "fetch")
    /\ PagesSpent(p)
    /\ Becomes(p, Idle)
    /\ UNCHANGED <<feed, now, rows, syncState, faults>>

BackfillFetch(p) ==
    /\ Running(p, "backfill", "fetch")
    /\ ~PagesSpent(p)
    /\ FetchPage(p)
    /\ UNCHANGED <<feed, now, rows, syncState, faults>>

\* 400: the URL is rebuilt from the watermark, once until a page arrives.  A
\* second one is an Abort.
BackfillRebuild(p) ==
    /\ Running(p, "backfill", "fetch")
    /\ ~PagesSpent(p)
    /\ ~run[p].rebuilt
    /\ run[p].wm # 0
    /\ Becomes(p, [run[p] EXCEPT !.rebuilt = TRUE, !.url = BackfillQuery(run[p].wm)])
    /\ UNCHANGED <<feed, now, rows, syncState>>

\* A stale link.  (DeepPaging models the API's deep-$skip limit.)
BackfillReject(p) == BackfillRebuild(p) /\ Fault

BackfillUpsert(p) ==
    /\ Running(p, "backfill", "upsert")
    /\ UpsertPage(p, "persist")
    /\ UNCHANGED <<feed, now, syncState, faults>>

BackfillDelete(p) ==
    /\ Running(p, "backfill", "delete")
    /\ DeletePage(p, "persist")
    /\ UNCHANGED <<feed, now, syncState, faults>>

\* Mutant: the link is not saved.
CheckpointNoLink(r, wm) ==
    [wm |-> wm, inProgress |-> NoURL, completedAt |-> 0, reconciledAt |-> r.st.reconciledAt]

\* Mutant: the watermark of the start, the new one only at the end.
CheckpointStaleMark(r, wm) ==
    [wm |-> r.st.wm, inProgress |-> r.next, completedAt |-> 0, reconciledAt |-> r.st.reconciledAt]

\* Mutant: the columns the import has no use for are left out.
CheckpointForgetsStamp(r, wm) ==
    [wm |-> wm, inProgress |-> r.next, completedAt |-> 0, reconciledAt |-> 0]

\* The row saved after a page: the watermark and where the import goes on.
\* backfill_completed_at is cleared: a forced run starts the import over.
Checkpoint(r, wm) ==
    [wm |-> wm, inProgress |-> r.next, completedAt |-> 0, reconciledAt |-> r.st.reconciledAt]

\* The watermark advances over the page and is saved with the resume cursor.
BackfillPersist(p) ==
    /\ Running(p, "backfill", "persist")
    /\ LET wm == MaxModificationTS(run[p].wm, run[p].page)
           next == run[p].next
       IN  /\ syncState' = Checkpoint(run[p], wm)
           /\ Becomes(p, [run[p] EXCEPT
                            !.pc = IF next = NoURL THEN "complete" ELSE "fetch",
                            !.wm = wm,
                            !.url = next,
                            !.page = EmptyPage,
                            !.next = NoURL,
                            !.rebuilt = FALSE,
                            !.pages = IF MaxPages > 0 THEN @ + 1 ELSE @])
    /\ UNCHANGED <<feed, now, rows, faults>>

\* Mutant: no fallback for an empty feed.
MaybeNoWatermark(r) == r.wm

\* Mutant: the time it ends, not the time it started.
WatermarkAtEnd(r) == IF r.wm = 0 THEN now ELSE r.wm

\* An import that saw no timestamp at all takes its own start as the watermark.
FinalWatermark(r) == IF r.wm = 0 THEN r.started ELSE r.wm

\* No link left.
BackfillComplete(p) ==
    /\ Running(p, "backfill", "complete")
    /\ syncState' = [wm |-> FinalWatermark(run[p]),
                     inProgress |-> NoURL, completedAt |-> now,
                     reconciledAt |-> run[p].st.reconciledAt]
    /\ Becomes(p, Idle)
    /\ UNCHANGED <<feed, now, rows, faults>>

BackfillStep(p) ==
    \/ BackfillCap(p)
    \/ BackfillFetch(p)
    \/ BackfillUpsert(p)
    \/ BackfillDelete(p)
    \/ BackfillPersist(p)
    \/ BackfillComplete(p)

BackfillNext(p) ==
    \/ \E force \in BOOLEAN : BackfillStart(p, force)
    \/ BackfillStep(p)
    \/ BackfillReject(p)

=============================================================================
