----------------------------- MODULE RateBudget -----------------------------
(***************************************************************************)
(* Processes that send requests through a limiter each and share the        *)
(* rate_budget table: feed processes (backfill, sync, reconcile: one        *)
(* request at a time through Pager.Fetch, a snapshot after every page) and  *)
(* media downloads (a pool of workers, a snapshot after every batch).       *)
(* The server keeps the account that counts: requests as they arrive.       *)
(***************************************************************************)
EXTENDS RateLimiter, FiniteSets

CONSTANTS
    Engines,     \* feed processes
    Downloaders, \* media download processes
    MediaWorkers,
    Batch,       \* claimBatch: files handed out between two snapshots
    Max5xx,      \* retries of a server or transport error
    MaxBytes,    \* bytes of the largest response
    MaxHour,     \* bound: the clock stops at this hour
    MaxServed,   \* bound: requests the server takes in an hour
    MaxFaults,   \* bound: how many faults there are
    Abrupt,      \* FALSE: runs are only interrupted.  TRUE: processes crash and
                 \* accesses to the table fail, too
    OneAtATime   \* TRUE: a process is launched when no other is up

Procs == Engines \cup Downloaders

ASSUME BudgetConstants ==
    /\ Engines \cap Downloaders = {}
    /\ MediaWorkers \in Nat \ {0}
    /\ Batch \in Nat \ {0}
    /\ Max5xx \in Nat
    /\ MaxBytes \in Nat
    /\ MaxHour \in Nat \ {0}
    /\ MaxServed \in Nat
    /\ MaxFaults \in Nat
    /\ Abrupt \in BOOLEAN
    /\ OneAtATime \in BOOLEAN

VARIABLES
    hour,   \* the clock
    limit,  \* limit[p]: the limiter of process p
    proc,   \* proc[p]: where its run is
    work,   \* work[p][w]: the request worker w of process p is about
    stored, \* rate_budget: the latest hour and the latest day
    served, \* the server's account of the current hour and day
    hidden, \* history: what failures have hidden, at most, from the counts of
            \* the current hour and day
    faults

bvars == <<hour, limit, proc, work, stored, served, hidden, faults>>

Workers(p) == IF p \in Downloaders THEN 1..MediaWorkers ELSE {1}

Results == {"ok", "throttled", "failed", "rejected"}  \* 2xx, 429, 5xx, other 4xx

ProcStates == [pc : {"down", "idle", "running"},
               left : 0..Batch,     \* requests still to hand out before a snapshot
               broken : BOOLEAN]    \* an error ended the run, its context is cancelled

WorkStates == [pc : {"none", "wait", "admitted", "sent", "judge"},
               tries : 0..Max5xx,   \* tries5xx
               rebuilt : BOOLEAN,   \* rebuiltAfter400 of the engine
               result : Results]

Down == [pc |-> "down", left |-> 0, broken |-> FALSE]
NoWork == [pc |-> "none", tries |-> 0, rebuilt |-> FALSE, result |-> "ok"]

BatchOf(p) == IF p \in Downloaders THEN Batch ELSE 1

BudgetFault == faults < MaxFaults /\ faults' = faults + 1

BudgetInit ==
    /\ hour = 1
    /\ limit = [p \in Procs |-> NewLimiter]
    /\ proc = [p \in Procs |-> Down]
    /\ work = [p \in Procs |-> [w \in Workers(p) |-> NoWork]]
    /\ stored = NoUsage
    /\ served = [hour |-> 0, day |-> 0]
    /\ hidden = [hour |-> 0, day |-> 0]
    /\ faults = 0

-----------------------------------------------------------------------------
(* Processes and runs.                                                      *)

\* The most requests a process counts between two snapshots: a file each of a
\* batch; of a page, the attempts before and after a rebuild and the 429s.
AtRisk(p) == IF p \in Downloaders THEN Batch ELSE Threshold + 2 * (Max5xx + 1)

Hides(hourly, daily) ==
    hidden' = [hour |-> hidden.hour + hourly, day |-> hidden.day + daily]

Launch(p) ==
    /\ proc[p].pc = "down"
    /\ proc' = [proc EXCEPT ![p].pc = "idle"]
    /\ OneAtATime => \A q \in Procs : proc[q].pc = "down"
    /\ limit' = [limit EXCEPT ![p] = NewLimiter]
    /\ UNCHANGED <<hour, work, stored, served, hidden, faults>>

\* budget.restore, or the start of Downloader.Run: every run restores, a later
\* run of a live process as well as the first.  An engine goes on if it cannot
\* read the table.
StartRun(p) ==
    /\ proc[p].pc = "idle"
    /\ proc' = [proc EXCEPT ![p] = [pc |-> "running", left |-> BatchOf(p), broken |-> FALSE]]
    /\ \/ /\ limit' = [limit EXCEPT ![p] = Restored(@, hour, stored)]
          /\ UNCHANGED <<hidden, faults>>
       \/ /\ p \in Engines /\ Abrupt /\ BudgetFault
          /\ Hides(Hourly, Daily)
          /\ UNCHANGED limit
    /\ UNCHANGED <<hour, work, stored, served>>

Quiet(p) == \A w \in Workers(p) : work[p][w].pc = "none"

\* rate_budget holds absolute counts; the latest window of a kind is read back.
Saved(u) ==
    [hour |-> IF u.hour.start >= stored.hour.start THEN u.hour ELSE stored.hour,
     day |-> IF u.day.start >= stored.day.start THEN u.day ELSE stored.day]

\* budget.persist, persistBudget: a failed write is logged by an engine.
Persist(p) ==
    LET u == Snapshot(limit[p], hour)
    IN  /\ limit' = [limit EXCEPT ![p].usage = u]
        /\ \/ stored' = Saved(u) /\ UNCHANGED <<hidden, faults>>
           \/ /\ p \in Engines /\ Abrupt /\ BudgetFault
              /\ Hides(AtRisk(p), AtRisk(p))
              /\ UNCHANGED stored

\* The page is stored or the batch is through.  A download also persists when
\* its run is broken, an engine returns its error at once.
EndBatch(p) ==
    /\ proc[p].pc = "running"
    /\ Quiet(p)
    /\ IF proc[p].broken
       THEN /\ IF p \in Downloaders THEN proc[p].left = 0 /\ Persist(p)
               ELSE Hides(AtRisk(p), AtRisk(p)) /\ UNCHANGED <<limit, stored, faults>>
            /\ \E pc \in IF p \in Downloaders \/ Open(limit[p]) THEN {"down"}
                         ELSE {"down", "idle"} :
                 proc' = [proc EXCEPT ![p] = [Down EXCEPT !.pc = pc]]
       ELSE /\ proc[p].left = 0
            /\ Persist(p)
            /\ \/ proc' = [proc EXCEPT ![p].left = BatchOf(p)]
               \/ \E pc \in IF p \in Downloaders THEN {"down"} ELSE {"down", "idle"} :
                    proc' = [proc EXCEPT ![p] = [Down EXCEPT !.pc = pc]]
    /\ UNCHANGED <<hour, work, served>>

Crash(p) ==
    /\ Abrupt
    /\ proc[p].pc # "down"
    /\ BudgetFault
    /\ Hides(AtRisk(p), AtRisk(p))
    /\ proc' = [proc EXCEPT ![p] = Down]
    /\ work' = [work EXCEPT ![p] = [w \in Workers(p) |-> NoWork]]
    /\ UNCHANGED <<hour, limit, stored, served>>

\* SIGINT, or a failing sink or database: the context is cancelled.
Interrupt(p) ==
    /\ proc[p].pc = "running"
    /\ ~proc[p].broken
    /\ BudgetFault
    /\ proc' = [proc EXCEPT ![p].broken = TRUE]
    /\ UNCHANGED <<hour, limit, work, stored, served, hidden>>

-----------------------------------------------------------------------------
(* A request: Limiter.Wait, the request itself, RecordResponse, and what    *)
(* Pager.Fetch or Downloader.one makes of the response.                     *)

At(p, w, pc) == work[p][w].pc = pc

Goes(p, w, r) == work' = [work EXCEPT ![p][w] = r]

Breaks(p) == proc' = [proc EXCEPT ![p].broken = TRUE]

\* The error group hands out the rest of its batch even when a file has broken
\* the run; an engine stops.
Take(p, w) ==
    /\ proc[p].pc = "running"
    /\ proc[p].left > 0
    /\ proc[p].broken => p \in Downloaders
    /\ At(p, w, "none")
    /\ Goes(p, w, [NoWork EXCEPT !.pc = "wait"])
    /\ proc' = [proc EXCEPT ![p].left = @ - 1]
    /\ UNCHANGED <<hour, limit, stored, served, hidden, faults>>

\* Counted, then asleep for the requests-per-second delay.  A cancelled context
\* is not looked at here.
Admit(p, w) ==
    /\ At(p, w, "wait")
    /\ MayStart(limit[p], hour)
    /\ limit' = [limit EXCEPT ![p] = Counted(@, hour)]
    /\ Goes(p, w, [work[p][w] EXCEPT !.pc = "admitted"])
    /\ UNCHANGED <<hour, proc, stored, served, hidden, faults>>

Refuse(p, w) ==
    /\ At(p, w, "wait")
    /\ Open(limit[p])
    /\ Goes(p, w, NoWork)
    /\ Breaks(p)
    /\ UNCHANGED <<hour, limit, stored, served, hidden, faults>>

\* Asleep or on the wire when the context ends.
Cancelled(p, w) ==
    /\ proc[p].broken
    /\ \/ At(p, w, "wait") /\ ~Open(limit[p]) /\ ~MayStart(limit[p], hour)
       \/ At(p, w, "admitted")
       \/ At(p, w, "sent")
    /\ Goes(p, w, NoWork)
    /\ UNCHANGED <<hour, limit, proc, stored, served, hidden, faults>>

Send(p, w) ==
    /\ At(p, w, "admitted")
    /\ ~proc[p].broken
    /\ served.hour < MaxServed
    /\ served' = [hour |-> served.hour + 1, day |-> served.day + 1]
    /\ Goes(p, w, [work[p][w] EXCEPT !.pc = "sent"])
    /\ UNCHANGED <<hour, limit, proc, stored, hidden, faults>>

Respond(p, w) ==
    /\ At(p, w, "sent")
    /\ \E bytes \in 0..MaxBytes, result \in Results :
         /\ limit' = [limit EXCEPT ![p] = Recorded(@, hour, bytes, result)]
         /\ Goes(p, w, IF result = "ok" THEN NoWork
                       ELSE [work[p][w] EXCEPT !.pc = "judge", !.result = result])
    /\ UNCHANGED <<hour, proc, stored, served, hidden, faults>>

\* Mutant: the retries are not counted out.
RetryAlways(p, w) ==
    Goes(p, w, [work[p][w] EXCEPT !.pc = "wait", !.tries = @ + 1]) /\ UNCHANGED proc

\* A retry of a 5xx or of a request that brought no response, until they are
\* used up.
RetryOrGiveUp(p, w) ==
    IF work[p][w].tries < Max5xx
    THEN /\ Goes(p, w, [work[p][w] EXCEPT !.pc = "wait", !.tries = @ + 1])
         /\ UNCHANGED proc
    ELSE Goes(p, w, NoWork) /\ Breaks(p)

\* No response: nothing is recorded.  A download marks the file failed.
Lose(p, w) ==
    /\ At(p, w, "sent")
    /\ IF p \in Engines THEN RetryOrGiveUp(p, w)
       ELSE Goes(p, w, NoWork) /\ UNCHANGED proc
    /\ UNCHANGED <<hour, limit, stored, served, hidden, faults>>

\* Pager.Fetch after a response that is not a page, in a step of its own: the
\* mutex was released in between.  A 4xx goes to the engine, which rebuilds
\* its URL once or gives up.
JudgePage(p, w) ==
    LET r == work[p][w]
    IN  /\ p \in Engines
        /\ At(p, w, "judge")
        /\ \/ r.result = "throttled" /\ Open(limit[p]) /\ Goes(p, w, NoWork) /\ Breaks(p)
           \/ /\ r.result = "throttled" /\ ~Open(limit[p])
              /\ Goes(p, w, [r EXCEPT !.pc = "wait"])
              /\ UNCHANGED proc
           \/ r.result = "failed" /\ RetryOrGiveUp(p, w)
           \/ r.result = "rejected" /\ Goes(p, w, NoWork) /\ Breaks(p)
           \/ /\ r.result = "rejected" /\ ~r.rebuilt
              /\ Goes(p, w, [NoWork EXCEPT !.pc = "wait", !.rebuilt = TRUE])
              /\ UNCHANGED proc
        /\ UNCHANGED <<hour, limit, stored, served, hidden, faults>>

\* Downloader.one: an open circuit breaks the run, else the file has failed.
JudgeFile(p, w) ==
    /\ p \in Downloaders
    /\ At(p, w, "judge")
    /\ Goes(p, w, NoWork)
    /\ IF Open(limit[p]) THEN Breaks(p) ELSE UNCHANGED proc
    /\ UNCHANGED <<hour, limit, stored, served, hidden, faults>>

-----------------------------------------------------------------------------

Tick ==
    /\ hour < MaxHour
    /\ hour' = hour + 1
    /\ served' = [hour |-> 0,
                  day |-> IF DayStart(hour + 1) = DayStart(hour) THEN served.day ELSE 0]
    /\ hidden' = [hour |-> 0,
                  day |-> IF DayStart(hour + 1) = DayStart(hour) THEN hidden.day ELSE 0]
    /\ UNCHANGED <<limit, proc, work, stored, faults>>

Request(p, w) ==
    \/ Take(p, w)
    \/ Admit(p, w)
    \/ Refuse(p, w)
    \/ Cancelled(p, w)
    \/ Send(p, w)
    \/ Respond(p, w)
    \/ Lose(p, w)
    \/ JudgePage(p, w)
    \/ JudgeFile(p, w)

BudgetNext ==
    \/ Tick
    \/ \E p \in Procs :
         \/ Launch(p)
         \/ StartRun(p)
         \/ EndBatch(p)
         \/ Crash(p)
         \/ Interrupt(p)
         \/ \E w \in Workers(p) : Request(p, w)

BudgetSpec == BudgetInit /\ [][BudgetNext]_bvars

-----------------------------------------------------------------------------

\* The type invariant.
BudgetTypeOK ==
    /\ hour \in 1..MaxHour
    /\ limit \in [Procs -> Limiters]
    /\ proc \in [Procs -> ProcStates]
    /\ DOMAIN work = Procs
    /\ \A p \in Procs : work[p] \in [Workers(p) -> WorkStates]
    /\ stored \in Usage
    /\ served \in [hour : Nat, day : Nat]
    /\ hidden \in [hour : Nat, day : Nat]
    /\ faults \in 0..MaxFaults

\* The most workers a process has: how many requests can be on their way when
\* a window ends, or when the last one fills it.
Pool == IF Downloaders = {} THEN 1 ELSE MediaWorkers

\* No limiter counts more requests than its windows admit, whatever it took
\* over from the table, and the bytes of a window exceed their budget by less
\* than what the pool had under way.
WindowsHonoured ==
    \A p \in Procs :
        LET u == limit[p].usage
        IN  /\ Hourly > 0 => u.hour.requests <= Hourly
            /\ Daily > 0 => u.day.requests <= Daily
            /\ BytesHourly > 0 => u.hour.bytes < BytesHourly + Pool * MaxBytes

\* A suspended token is hammered by at most one request per worker after the
\* circuit has opened.
SuspensionRespected ==
    \A p \in Procs : limit[p].throttled < Threshold + Cardinality(Workers(p))

\* "A crash-looping process cannot launder its budget" (limiter.go), and what it
\* can: whatever processes come one after the other, end, fail and crash, the
\* server sees no more requests in an hour or a day than the limits and the pool
\* admitted just before the window ended, but for one batch or page by each run
\* that ended and each snapshot that failed in that window, and the limits once
\* more by each start that could not read the table.
ServerHonoured ==
    /\ Hourly > 0 => served.hour <= Hourly + Pool + hidden.hour
    /\ Daily > 0 => served.day <= Daily + Pool + hidden.day

\* The same without the exceptions, as limiter.go and schema-contract.md say it.
NothingLaundered ==
    /\ Hourly > 0 => served.hour <= Hourly + Pool
    /\ Daily > 0 => served.day <= Daily + Pool

=============================================================================
