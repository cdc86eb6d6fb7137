----------------------------- MODULE DeepPaging -----------------------------
(***************************************************************************)
(* Replication against a feed that rejects deep offsets: "the API's         *)
(* deep-$skip limit" of internal/engine/backfill.go, which answers 400.     *)
(* A backfill or a sync goes on from its watermark, with a new query; a     *)
(* reconcile fails.                                                         *)
(***************************************************************************)
EXTENDS Replication

CONSTANTS
    MaxSkip,  \* the largest $skip the service accepts
    Crowd     \* so many records may share a timestamp

ASSUME DeepConstants ==
    /\ MaxSkip \in Nat
    /\ Crowd \in Nat \ {0}

DeepInit ==
    /\ Init
    /\ \A t \in Times \ {0} : Cardinality({k \in Keys : feed[k].ts = t}) <= Crowd

\* The next thing the run does is a request that the service rejects.
AtWall(p) ==
    /\ run[p].pc \in {"fetch", "sweep"}
    /\ run[p].url.skip > MaxSkip
    /\ ~(run[p].op = "backfill" /\ PagesSpent(p))

\* The run ends with the error.
GivesUp(p) ==
    /\ Becomes(p, Idle)
    /\ UNCHANGED <<feed, now, rows, syncState>>

HitsWall(p) ==
    /\ AtWall(p)
    /\ IF run[p].op = "reconcile" \/ run[p].rebuilt THEN GivesUp(p)
       ELSE BackfillRebuild(p) \/ SyncRebuild(p)
    /\ UNCHANGED faults

DeepStep(p) == (~AtWall(p) /\ Step(p)) \/ HitsWall(p)

DeepNext ==
    \/ FeedNext /\ UNCHANGED <<rows, syncState, run, faults>>
    \/ \E p \in Procs :
         \/ HitsWall(p)
         \/ ~AtWall(p) /\ (BackfillNext(p) \/ SyncNext(p) \/ ReconcileNext(p))
         \/ Abort(p)

DeepSpec == DeepInit /\ [][DeepNext]_vars

\* As Replication!Fairness.
DeepFairness ==
    \A p \in Procs :
        /\ WF_vars(DeepStep(p))
        /\ SF_vars(SyncStart(p))
        /\ SF_vars(ReconcileStart(p))
        /\ SF_vars(syncState.completedAt = 0 /\ \E force \in BOOLEAN : BackfillStart(p, force))

DeepFairSpec == DeepSpec /\ DeepFairness

-----------------------------------------------------------------------------

\* "The run must continue past the $skip wall" (backfill_test.go): whatever the
\* size of the feed, the import is complete in the end, although every query is
\* cut at the same depth.
ImportPassesWall == <>(syncState.completedAt # 0)

\* Nothing is lost where a query is cut and the next one begins: while the feed
\* does not change, the import leaves it stored whole.
WholeFeedImported ==
    now = InitTime /\ syncState.completedAt # 0 =>
        \A k \in Keys : Viewable(k) /\ feed[k].ts >= Since => rows[k] = feed[k].ts

=============================================================================
