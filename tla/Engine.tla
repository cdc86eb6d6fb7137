------------------------------- MODULE Engine -------------------------------
(***************************************************************************)
(* What the three engines of internal/engine share: the durable store they  *)
(* write (the rows of one resource and its sync_state row) and the local    *)
(* variables of a run.  One run of an engine is one process; a process      *)
(* executes one command at a time, and several processes may share the      *)
(* database (the daemon, and a command an operator starts beside it).       *)
(*                                                                          *)
(* A step of a run is one call that leaves the process: a page fetched, a   *)
(* transaction committed, a cursor saved.  Between two steps anything else  *)
(* may happen: the feed changes, another process commits, the run dies.     *)
(***************************************************************************)
EXTENDS Feed, FiniteSetsExt

CONSTANTS
    Procs,          \* processes that share the store
    Since,          \* --since of every backfill; 0 when absent
    MaxPages,       \* --max-pages; 0 is unlimited
    ChunkSize,      \* keys per re-fetch query of a reconcile
    PurgeChunk,     \* keys per purge transaction of a reconcile
    IncludeMissing, \* --include-missing of every reconcile
    MaxFaults       \* bound: how many 400s and failed runs there are

ASSUME EngineConstants ==
    /\ Since \in Times
    /\ MaxPages \in Nat
    /\ ChunkSize \in Nat \ {0}
    /\ PurgeChunk \in Nat \ {0}
    /\ IncludeMissing \in BOOLEAN
    /\ MaxFaults \in Nat

VARIABLES
    rows,       \* rows[k]: modification_timestamp of the stored record, 0 if none
    syncState,  \* the sync_state row
    run,        \* run[p]: the local variables of the run process p executes
    faults      \* how many so far

vars == <<feed, now, rows, syncState, run, faults>>

-----------------------------------------------------------------------------

\* A sync_state row.  A missing row reads as four NULLs: every reader treats
\* the two alike.
SyncStates == [wm : Times,            \* last_modification_ts
               inProgress : URLs,     \* in_progress_url
               completedAt : Times,   \* backfill_completed_at
               reconciledAt : Times]  \* last_full_reconcile_at

NoState == [wm |-> 0, inProgress |-> NoURL, completedAt |-> 0, reconciledAt |-> 0]

\* The local variables of a run.  They die with the process.
Runs == [op : {"none", "backfill", "sync", "reconcile"},
         pc : {"idle", "fetch", "upsert", "delete", "persist", "complete",
               "sweep", "diff", "purge", "advance"},
         st : SyncStates,        \* the sync_state row as read at the start
         started : Times,        \* clock when the run began
         wm : Times,             \* watermark
         url : URLs,             \* the page to fetch next
         page : Pages,           \* the page in hand
         next : URLs,            \* the link that came with it
         rebuilt : BOOLEAN,      \* rebuiltAfter400
         pages : Nat,            \* pages fetched, counted against MaxPages
         remote : UNION {[S -> Times] : S \in SUBSET Keys},
                                 \* reconcile: timestamps of the swept keys
         purge : SUBSET Keys,    \* reconcile: keys still to delete
         refetch : SUBSET Keys]  \* reconcile: keys still to fetch again

Idle == [op |-> "none", pc |-> "idle", st |-> NoState, started |-> 0, wm |-> 0,
         url |-> NoURL, page |-> EmptyPage, next |-> NoURL, rebuilt |-> FALSE,
         pages |-> 0, remote |-> EmptyPage, purge |-> {}, refetch |-> {}]

Begin(op, pc) == [Idle EXCEPT !.op = op, !.pc = pc, !.st = syncState, !.started = now]

Running(p, op, pc) == run[p].op = op /\ run[p].pc = pc

Becomes(p, r) == run' = [run EXCEPT ![p] = r]

-----------------------------------------------------------------------------
(* Page handling.                                                           *)

RevokedKeys(page) == {k \in DOMAIN page : ~page[k].view}

\* Mutant: past the last record, not to fetch it again.
PastLastRecord(current, page) == Max({current} \cup {page[k].ts + 1 : k \in DOMAIN page})

\* The feed promises an order, the code does not rely on it and scans.
MaxModificationTS(current, page) ==
    Max({current} \cup {page[k].ts : k \in DOMAIN page})

\* Mutant: ON CONFLICT DO NOTHING.
InsertedOnly(page) ==
    [k \in Keys |-> IF rows[k] = 0 /\ k \in DOMAIN page /\ page[k].view THEN page[k].ts
                    ELSE rows[k]]

\* One transaction: every viewable record of the page replaces its row,
\* whatever version the row holds.
Upserted(page) ==
    [k \in Keys |-> IF k \in DOMAIN page /\ page[k].view THEN page[k].ts ELSE rows[k]]

\* One transaction: the rows of the keys are gone.
Deleted(S) == [k \in Keys |-> IF k \in S THEN 0 ELSE rows[k]]

\* A page request answered with 200: the page and its link are in hand.
FetchPage(p) ==
    \E lag \in Lags :
        Becomes(p, [run[p] EXCEPT !.pc = "upsert",
                                  !.page = PageOf(run[p].url, lag),
                                  !.next = NextLink(run[p].url, lag)])

\* Upsert the page, then the revoked keys if there are any.
UpsertPage(p, done) ==
    /\ rows' = Upserted(run[p].page)
    /\ Becomes(p, [run[p] EXCEPT !.pc = IF RevokedKeys(run[p].page) = {} THEN done
                                        ELSE "delete"])

DeletePage(p, done) ==
    /\ rows' = Deleted(RevokedKeys(run[p].page))
    /\ Becomes(p, [run[p] EXCEPT !.pc = done])

Fault ==
    /\ faults < MaxFaults
    /\ faults' = faults + 1

\* A run ends where it stands: an error returned to the caller, a cancelled
\* context, a crash.  What it had committed stays, what it held is lost.
Abort(p) ==
    /\ run[p].op # "none"
    /\ Fault
    /\ Becomes(p, Idle)
    /\ UNCHANGED <<feed, now, rows, syncState>>

EngineInit ==
    /\ rows = [k \in Keys |-> 0]
    /\ syncState = NoState
    /\ run = [p \in Procs |-> Idle]
    /\ faults = 0

=============================================================================
