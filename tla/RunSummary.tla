----------------------------- MODULE RunSummary -----------------------------
(***************************************************************************)
(* The runs of the engines over one resource, one at a time, as the command *)
(* line sees them: a run starts, and when it ends it has left the           *)
(* sync_state row in one of a few ways.  What happens in between is hidden. *)
(***************************************************************************)
EXTENDS Naturals, Outcomes

CONSTANT Capped  \* --max-pages is given

VARIABLES
    op,     \* the command that runs, "none" between two
    phase,  \* the row when it started: "unfinished", "importing" or "complete"
    stamp,  \* last_full_reconcile_at, 0 for NULL
    faults  \* 400s and failed runs so far

summary == <<op, phase, stamp, faults>>

SummaryInit == op = "none" /\ phase = "unfinished" /\ stamp = 0 /\ faults = 0

\* Only a completed import lets `sync` and `reconcile` start.
Starts ==
    /\ op = "none"
    /\ op' \in {"backfill"} \cup IF phase = "complete" THEN {"sync", "reconcile"} ELSE {}
    /\ UNCHANGED <<phase, stamp, faults>>

\* Of the three only `reconcile` stamps the row.
Succeeds ==
    /\ op # "none"
    /\ op' = "none"
    /\ phase' \in IF op = "backfill" THEN AfterBackfill(Capped) ELSE {"complete"}
    /\ IF op = "reconcile" THEN stamp' \in Nat \ {0} /\ stamp' >= stamp
       ELSE stamp' = stamp
    /\ UNCHANGED faults

\* A failed `sync` or `reconcile` leaves a completed import.
Fails ==
    /\ op # "none"
    /\ op' = "none"
    /\ phase' \in IF op = "backfill" THEN AfterFailedBackfill(phase) ELSE {"complete"}
    /\ stamp' = stamp
    /\ faults' = faults + 1

\* A 400 that the run gets over.
GoesOn ==
    /\ op # "none"
    /\ faults' = faults + 1
    /\ UNCHANGED <<op, phase, stamp>>

SummaryNext == Starts \/ Succeeds \/ Fails \/ GoesOn

SummarySpec == SummaryInit /\ [][SummaryNext]_summary

=============================================================================
