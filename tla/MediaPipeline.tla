--------------------------- MODULE MediaPipeline ---------------------------
(***************************************************************************)
(* The media rows of one listing, the files in the sink, and who works on   *)
(* them: feed processes that upsert and delete the listing                  *)
(* (store/postgres/upsert.go) and `media download` processes with a pool of *)
(* workers (media/downloader.go, store/postgres/media.go, media/sink.go).   *)
(* A step is one statement or transaction, or one file operation.           *)
(***************************************************************************)
EXTENDS Naturals, FiniteSets

CONSTANTS
    NumMedia,    \* the media keys of the listing are 1..NumMedia, in key order
    Feeders,     \* processes that write the listing
    Downloaders, \* media download processes
    PoolSize,    \* workers of a download
    ClaimBatch,  \* rows claimed at a time
    MaxFiles,    \* --max-files; 0 is unlimited
    MaxFailures, \* failed attempts that park a row
    MaxChanges,  \* bound: upserts, deletes and retries
    MaxFaults    \* bound: crashes and systemic failures

ASSUME MediaConstants ==
    /\ NumMedia \in Nat \ {0}
    /\ PoolSize \in Nat \ {0}
    /\ ClaimBatch \in Nat \ {0}
    /\ MaxFiles \in Nat
    /\ MaxFailures \in Nat \ {0}
    /\ MaxChanges \in Nat
    /\ MaxFaults \in Nat

VARIABLES
    rows,    \* rows[m]: the media row
    files,   \* the media whose file is in the sink
    feeder,  \* feeder[e]: a deletion under way
    pass,    \* pass[d]: the run of a download process
    job,     \* job[d][w]: what worker w of it is doing
    changes, faults

mvars == <<rows, files, feeder, pass, job, changes, faults>>

Media == 1..NumMedia
Pool == 1..PoolSize

\* storage_status ("none": there is no row), local_path IS NOT NULL, failure_count
Rows == [status : {"none", "pending", "downloaded", "failed"},
         path : BOOLEAN,
         failures : Nat]

NoRow == [status |-> "none", path |-> FALSE, failures |-> 0]
Queued == [NoRow EXCEPT !.status = "pending"]

Exists(m) == rows[m].status # "none"

\* MediaItem: the row as it was claimed.
Items == [key : Media, failures : Nat]

Feeds == [pc : {"ready", "collected", "remove"}, paths : SUBSET Media]
Ready == [pc |-> "ready", paths |-> {}]

Passes == [pc : {"idle", "running"},
           after : 0..NumMedia,     \* the keyset cursor
           items : SUBSET Items,    \* claimed, not yet handed to a worker
           attempted : Nat,
           broken : BOOLEAN,        \* an error ended the run, its context is cancelled
           tried : SUBSET Media]    \* history: the rows a worker has started on
NoPass ==
    [pc |-> "idle", after |-> 0, items |-> {}, attempted |-> 0, broken |-> FALSE, tried |-> {}]

Jobs == [pc : {"none", "fetch", "mark"}, item : Items]
NoJob == [pc |-> "none", item |-> [key |-> 1, failures |-> 0]]

Change == changes < MaxChanges /\ changes' = changes + 1
MediaFault == faults < MaxFaults /\ faults' = faults + 1

MediaInit ==
    /\ rows = [m \in Media |-> NoRow]
    /\ files = {}
    /\ feeder = [e \in Feeders |-> Ready]
    /\ pass = [d \in Downloaders |-> NoPass]
    /\ job = [d \in Downloaders |-> [w \in Pool |-> NoJob]]
    /\ changes = 0
    /\ faults = 0

-----------------------------------------------------------------------------
(* The listing.                                                             *)

\* Mutant: storage_status is overwritten on conflict.
UpsertedAnew(S) == [m \in Media |-> IF m \in S THEN Queued ELSE NoRow]

\* A row keeps its pipeline columns; rows the Media array no longer has go.
UpsertedMedia(S) ==
    [m \in Media |-> IF m \notin S THEN NoRow ELSE IF Exists(m) THEN rows[m] ELSE Queued]

\* UpsertProperties with a non-empty Media expansion (one that is absent or empty
\* changes no media row): one transaction.  Items without a key are left out,
\* and if no item has one every row goes.
Upsert(e) ==
    /\ feeder[e].pc = "ready"
    /\ Change
    /\ \E S \in SUBSET Media : rows' = UpsertedMedia(S)
    /\ UNCHANGED <<files, feeder, pass, job, faults>>

\* DeleteProperties: the paths are read first, ...
DeleteCollect(e) ==
    /\ feeder[e].pc = "ready"
    /\ Change
    /\ feeder' = [feeder EXCEPT ![e] = [pc |-> "collected",
                                        paths |-> {m \in Media : rows[m].path}]]
    /\ UNCHANGED <<rows, files, pass, job, faults>>

\* ... the rows cascade away with the listing, ...
DeleteRows(e) ==
    /\ feeder[e].pc = "collected"
    /\ rows' = [m \in Media |-> NoRow]
    /\ feeder' = [feeder EXCEPT ![e].pc = "remove"]
    /\ UNCHANGED <<files, pass, job, changes, faults>>

\* ... and then the remover takes the files, one after the other, before the
\* process goes on.
DeleteFile(e) ==
    /\ feeder[e].pc = "remove"
    /\ \E m \in feeder[e].paths :
         /\ files' = files \ {m}
         /\ feeder' = [feeder EXCEPT ![e].paths = @ \ {m}]
    /\ UNCHANGED <<rows, pass, job, changes, faults>>

DeleteDone(e) ==
    /\ feeder[e].pc = "remove"
    /\ feeder[e].paths = {}
    /\ feeder' = [feeder EXCEPT ![e] = Ready]
    /\ UNCHANGED <<rows, files, pass, job, changes, faults>>

\* Mutant: the files are removed although the transaction has failed.
FeederRemoves(e) ==
    /\ feeder[e].pc = "collected"
    /\ MediaFault
    /\ feeder' = [feeder EXCEPT ![e].pc = "remove"]
    /\ UNCHANGED <<rows, files, pass, job, changes>>

\* A failed transaction, or a crash before the files are removed.
FeederFails(e) ==
    /\ feeder[e].pc # "ready"
    /\ MediaFault
    /\ feeder' = [feeder EXCEPT ![e] = Ready]
    /\ UNCHANGED <<rows, files, pass, job, changes>>

\* `media retry`
Requeue ==
    /\ \E m \in Media : rows[m].status = "failed"
    /\ Change
    /\ rows' = [m \in Media |->
                  IF rows[m].status = "failed"
                  THEN [Queued EXCEPT !.path = rows[m].path]
                  ELSE rows[m]]
    /\ UNCHANGED <<files, feeder, pass, job, faults>>

-----------------------------------------------------------------------------
(* Downloads.                                                               *)

RunStart(d) ==
    /\ pass[d].pc = "idle"
    /\ pass' = [pass EXCEPT ![d].pc = "running"]
    /\ UNCHANGED <<rows, files, feeder, job, changes, faults>>

Free(d, w) == job[d][w].pc = "none"
Quiet(d) == pass[d].items = {} /\ \A w \in Pool : Free(d, w)

\* Mutant: the row of the cursor again.
PendingFrom(after) == {m \in Media : rows[m].status = "pending" /\ m >= after}

\* PendingMedia without its LIMIT: the queue behind the cursor.
PendingAfter(after) == {m \in Media : rows[m].status = "pending" /\ m > after}

ClaimLimit(d) ==
    IF MaxFiles > 0 /\ MaxFiles - pass[d].attempted < ClaimBatch
    THEN MaxFiles - pass[d].attempted
    ELSE ClaimBatch

Claimed(d) ==
    {m \in PendingAfter(pass[d].after) :
        Cardinality({j \in PendingAfter(pass[d].after) : j < m}) < ClaimLimit(d)}

\* Mutant: the cursor is meant for a >= comparison.
CursorPast(S) == (CHOOSE m \in S : \A j \in S : j <= m) + 1

CursorAfter(S) == CHOOSE m \in S : \A j \in S : j <= m

\* A batch of rows, in key order.  Claiming does not mark them.
Claim(d) ==
    /\ pass[d].pc = "running"
    /\ ~pass[d].broken
    /\ Quiet(d)
    /\ Claimed(d) # {}
    /\ pass' = [pass EXCEPT ![d] =
                  [pc |-> "running",
                   after |-> CursorAfter(Claimed(d)),
                   items |-> {[key |-> m, failures |-> rows[m].failures] : m \in Claimed(d)},
                   attempted |-> @.attempted + Cardinality(Claimed(d)),
                   broken |-> FALSE,
                   tried |-> @.tried]]
    /\ UNCHANGED <<rows, files, feeder, job, changes, faults>>

\* The queue is empty, --max-files is reached, or the run is broken.
RunEnd(d) ==
    /\ pass[d].pc = "running"
    /\ Quiet(d)
    /\ pass[d].broken \/ Claimed(d) = {}
    /\ pass' = [pass EXCEPT ![d] = NoPass]
    /\ UNCHANGED <<rows, files, feeder, job, changes, faults>>

Assign(d, w) ==
    /\ Free(d, w)
    /\ \E it \in pass[d].items :
         /\ pass' = [pass EXCEPT ![d].items = @ \ {it}, ![d].tried = @ \cup {it.key}]
         /\ job' = [job EXCEPT ![d][w] = [pc |-> "fetch", item |-> it]]
    /\ UNCHANGED <<rows, files, feeder, changes, faults>>

Finish(d, w) == job' = [job EXCEPT ![d][w] = NoJob]

\* A complete response: the sink stores the file (a rename over the old one).
StoreFile(d, w) ==
    /\ job[d][w].pc = "fetch"
    /\ files' = files \cup {job[d][w].item.key}
    /\ job' = [job EXCEPT ![d][w].pc = "mark"]
    /\ UNCHANGED <<rows, feeder, pass, changes, faults>>

\* MarkMediaDownloaded: an UPDATE, of no row if the row has gone.
MarkDownloaded(d, w) ==
    LET m == job[d][w].item.key
    IN  /\ job[d][w].pc = "mark"
        /\ rows' = IF Exists(m)
                   THEN [rows EXCEPT ![m].status = "downloaded", ![m].path = TRUE]
                   ELSE rows
        /\ Finish(d, w)
        /\ UNCHANGED <<files, feeder, pass, changes, faults>>

\* Mutant: off by one.
SpentLate(it) == it.failures >= MaxFailures

\* The attempt that uses up the budget, by the count read when it was claimed.
Spent(it) == it.failures + 1 >= MaxFailures

\* Mutant: the failed attempt is not counted.
MarkFailedUncounted(d, w) ==
    LET it == job[d][w].item
    IN  /\ job[d][w].pc = "fetch"
        /\ rows' = IF Exists(it.key) /\ Spent(it)
                   THEN [rows EXCEPT ![it.key].status = "failed"]
                   ELSE rows
        /\ Finish(d, w)
        /\ UNCHANGED <<files, feeder, pass, changes, faults>>

\* MarkMediaFailed: a failed request counts, and parks the row if its budget is
\* spent; a missing URL or a file too large parks it at once.
MarkFailed(d, w) ==
    LET it == job[d][w].item
    IN  /\ job[d][w].pc = "fetch"
        /\ \E hopeless \in BOOLEAN :
             rows' = IF Exists(it.key)
                     THEN [rows EXCEPT ![it.key] =
                             [status |-> IF hopeless \/ Spent(it) THEN "failed" ELSE "pending",
                              path |-> @.path,
                              failures |-> @.failures + 1]]
                     ELSE rows
        /\ Finish(d, w)
        /\ UNCHANGED <<files, feeder, pass, changes, faults>>

\* An open circuit, a failing sink or database: the run is broken.
Systemic(d, w) ==
    /\ ~Free(d, w)
    /\ ~pass[d].broken
    /\ MediaFault
    /\ pass' = [pass EXCEPT ![d].broken = TRUE]
    /\ Finish(d, w)
    /\ UNCHANGED <<rows, files, feeder, changes>>

\* In a broken run the other workers find their context cancelled, unless they
\* are past it.
Abandon(d, w) ==
    /\ pass[d].broken
    /\ ~Free(d, w)
    /\ Finish(d, w)
    /\ UNCHANGED <<rows, files, feeder, pass, changes, faults>>

DownloadCrash(d) ==
    /\ pass[d].pc = "running"
    /\ MediaFault
    /\ pass' = [pass EXCEPT ![d] = NoPass]
    /\ job' = [job EXCEPT ![d] = [w \in Pool |-> NoJob]]
    /\ UNCHANGED <<rows, files, feeder, changes>>

-----------------------------------------------------------------------------

Feed(e) == Upsert(e) \/ DeleteCollect(e) \/ DeleteRows(e) \/ DeleteFile(e) \/ DeleteDone(e)

Work(d, w) ==
    \/ Assign(d, w)
    \/ StoreFile(d, w)
    \/ MarkDownloaded(d, w)
    \/ MarkFailed(d, w)
    \/ Abandon(d, w)

Download(d) == RunStart(d) \/ Claim(d) \/ RunEnd(d) \/ \E w \in Pool : Work(d, w)

MediaNext ==
    \/ Requeue
    \/ \E e \in Feeders : Feed(e) \/ FeederFails(e)
    \/ \E d \in Downloaders :
         \/ Download(d)
         \/ DownloadCrash(d)
         \/ \E w \in Pool : Systemic(d, w)

MediaSpec == MediaInit /\ [][MediaNext]_mvars

\* Requests end and `media download` is run again and again.
MediaFairness == \A d \in Downloaders : WF_mvars(Download(d))

MediaFairSpec == MediaSpec /\ MediaFairness

-----------------------------------------------------------------------------

\* The type invariant.
MediaTypeOK ==
    /\ rows \in [Media -> Rows]
    /\ files \subseteq Media
    /\ feeder \in [Feeders -> Feeds]
    /\ pass \in [Downloaders -> Passes]
    /\ job \in [Downloaders -> [Pool -> Jobs]]
    /\ changes \in 0..MaxChanges
    /\ faults \in 0..MaxFaults

\* What the database says is downloaded is in the sink.
DownloadedHasFile == \A m \in Media : rows[m].status = "downloaded" => m \in files

\* A row is attempted no more often than its budget between two queueings, and
\* leaves the queue with the attempt that spends it.
BudgetKept ==
    \A m \in Media : /\ rows[m].failures <= MaxFailures
                     /\ rows[m].status = "pending" => rows[m].failures < MaxFailures

\* A pass attempts a row once, although a failed attempt puts it back in the
\* queue and a listing that is deleted and imported again, or `media retry`,
\* queues it anew ("not retried until the next run", downloader.go).
OncePerPass ==
    [][\A d \in Downloaders, w \in Pool :
          Free(d, w) /\ ~Free(d, w)' => job'[d][w].item.key \notin pass[d].tried]_mvars

\* "A downloaded row is never queued again" (store.go), short of its deletion.
DownloadedForGood ==
    [][\A m \in Media : rows[m].status = "downloaded" =>
          rows'[m].status \in {"downloaded", "none"}]_mvars

AtRest == /\ \A e \in Feeders : feeder[e] = Ready
          /\ \A d \in Downloaders, w \in Pool : Free(d, w)

\* Hard deletion "extends to any downloaded media files" (upsert.go): when
\* nothing is under way and the listing has no media row, it has no file.
NoOrphans == AtRest /\ (\A m \in Media : ~Exists(m)) => files = {}

\* Every queued row is in the end downloaded, parked, or deleted.
QueueDrains == <>[](\A m \in Media : rows[m].status # "pending")

=============================================================================
