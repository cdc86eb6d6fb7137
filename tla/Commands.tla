------------------------------ MODULE Commands ------------------------------
(***************************************************************************)
(* The commands of internal/cli/commands.go over the resources of a         *)
(* profile, and the daemon with its health endpoint (internal/engine/       *)
(* sync.go).  The run of an engine over one resource, which Replication     *)
(* models step by step, is one step here, with all its outcomes.            *)
(***************************************************************************)
EXTENDS Naturals, FiniteSets, Outcomes

CONSTANTS
    Units,         \* daemons (`sync --daemon`) under systemd
    Operators,     \* who runs the other commands, one at a time each
    Profiles,      \* the profiles of the configuration, one per MLS
    NumResources,  \* the resources of a profile are 1..NumResources, in order
    Every,         \* sync.reconcile_every, in ticks of the clock
    MaxFaults      \* bound: failures, signals, and needless forced or capped imports

ASSUME CommandsConstants ==
    /\ Units \cap Operators = {}
    /\ NumResources \in Nat \ {0}
    /\ Every \in Nat \ {0}
    /\ MaxFaults \in Nat

Procs == Units \cup Operators
Resources == 1..NumResources

VARIABLES
    ready,   \* init-db has migrated the schema
    cursor,  \* cursor[f][r]: what the sync_state row of profile and resource says
    held,    \* held[f][r]: rows of the profile's MLS are in the resource's table
    age,     \* age[f][r]: ticks since last_full_reconcile_at; Every if more, or NULL
    job,     \* job[p]: the command p runs
    last,    \* last[p]: how its last command ended
    health,  \* health[u]: daemonHealth, the order of its two instants
    faults

cvars == <<ready, cursor, held, age, job, last, health, faults>>

Cursors == {"absent", "unfinished", "importing", "complete"}

\* served, reconcile: what the pass has done so far.
Jobs == [op : {"none", "backfill", "sync", "reconcile", "daemon"},
         pc : {"idle", "import", "pass", "reconcile", "sleep"},
         profile : Profiles,
         at : Resources,
         force : BOOLEAN, capped : BOOLEAN,   \* --force, --max-pages
         served : SUBSET Resources,
         reconcile : {"none", "done", "failed"}]

Job(op, pc, f) ==
    [op |-> op, pc |-> pc, profile |-> f, at |-> 1, force |-> FALSE, capped |-> FALSE,
     served |-> {}, reconcile |-> "none"]

\* A daemon ends with status 0 when it is cancelled, and when it takes an
\* error for that ("quiet").
Endings == {"none", "ok", "cancelled", "quiet", "failed", "circuit", "required", "refused"}

Fault == faults < MaxFaults /\ faults' = faults + 1

Running(p, pc) == job[p].pc = pc

Goes(p, j) == job' = [job EXCEPT ![p] = j]

Exits(p, ending) ==
    /\ Goes(p, Job("none", "idle", job[p].profile))
    /\ last' = [last EXCEPT ![p] = ending]

-----------------------------------------------------------------------------
(* daemonHealth.  Of two instants only the order counts: 0 is no instant,   *)
(* 2 is later than 1.                                                       *)

NoHealth == [success |-> 0, error |-> 0]

RecordSuccess(h) ==
    IF h.error = 0 THEN [success |-> 1, error |-> 0] ELSE [success |-> 2, error |-> 1]

RecordFailure(h) ==
    IF h.success = 0 THEN [success |-> 0, error |-> 1] ELSE [success |-> 1, error |-> 2]

Healthy(h) == h.error = 0 \/ h.error < h.success

Records(p, h) == health' = [health EXCEPT ![p] = h]

-----------------------------------------------------------------------------

CommandsInit ==
    /\ ready = FALSE
    /\ cursor = [f \in Profiles |-> [r \in Resources |-> "absent"]]
    /\ held = [f \in Profiles |-> [r \in Resources |-> FALSE]]
    /\ age = [f \in Profiles |-> [r \in Resources |-> Every]]
    /\ \E f \in Profiles : job = [p \in Procs |-> Job("none", "idle", f)]
    /\ last = [p \in Procs |-> "none"]
    /\ health = [u \in Units |-> NoHealth]
    /\ faults = 0

\* init-db (Migrate models it).
InitDB ==
    /\ ~ready
    /\ ready' = TRUE
    /\ UNCHANGED <<cursor, held, age, job, last, health, faults>>

\* Mutant: past the bound.
OlderUnbounded(n) == n + 1

Older(n) == IF n < Every THEN n + 1 ELSE n

Tick ==
    /\ \E f \in Profiles, r \in Resources : age[f][r] < Every
    /\ age' = [f \in Profiles |-> [r \in Resources |-> Older(age[f][r])]]
    /\ UNCHANGED <<ready, cursor, held, job, last, health, faults>>

\* What a run over one resource writes: its rows, its cursor, its stamp.
Writes(f, r, c, h, a) ==
    /\ cursor' = [cursor EXCEPT ![f][r] = c]
    /\ held' = h
    /\ age' = [age EXCEPT ![f][r] = a]

WritesNothing == UNCHANGED <<cursor, held, age>>

\* The upserts and deletes of a profile leave rows of it, or none.
Rows(f, r) == {[held EXCEPT ![f][r] = b] : b \in BOOLEAN}

-----------------------------------------------------------------------------
(* backfill: the resources in order, until one returns an error.            *)

StartBackfill(o, f, force, capped) ==
    /\ Running(o, "idle")
    /\ Goes(o, [Job("backfill", "import", f) EXCEPT !.force = force, !.capped = capped])
    /\ UNCHANGED <<ready, cursor, held, age, last, health>>

\* The table is counted whole, the rows of other profiles with it.
Refused(f, r, force) ==
    /\ cursor[f][r] # "importing"
    /\ ~force
    /\ cursor[f][r] = "complete" \/ \E g \in Profiles : held[g][r]

\* What an operator does who wants the profile imported: with --force when the
\* plain command stops at the first resource.
Incomplete(f) == \E r \in Resources : cursor[f][r] # "complete"

RepeatBackfill(o, f) ==
    /\ Incomplete(f)
    /\ StartBackfill(o, f, Refused(f, 1, FALSE), FALSE)
    /\ UNCHANGED faults

\* Or needlessly.
FancyBackfill(o, f) ==
    /\ Fault
    /\ \E force, capped \in BOOLEAN : StartBackfill(o, f, force, capped)

NextResource(p) ==
    IF job[p].at < NumResources
    THEN Goes(p, [job[p] EXCEPT !.at = @ + 1]) /\ UNCHANGED last
    ELSE Exits(p, "ok")

\* Mutant: a refused resource is skipped.
SkipsRefused(o) == NextResource(o)

StopsAtRefused(o) == Exits(o, "refused")

BackfillRefused(o) ==
    /\ Running(o, "import")
    /\ ready
    /\ Refused(job[o].profile, job[o].at, job[o].force)
    /\ StopsAtRefused(o)
    /\ WritesNothing
    /\ UNCHANGED <<ready, health, faults>>

\* One resource imported; or cut by --max-pages, which is no error.
BackfillResource(o) ==
    LET f == job[o].profile
        r == job[o].at
    IN  /\ Running(o, "import")
        /\ ready
        /\ ~Refused(f, r, job[o].force)
        /\ \E h \in Rows(f, r), c \in AfterBackfill(job[o].capped) :
             Writes(f, r, c, h, age[f][r])
        /\ NextResource(o)
        /\ UNCHANGED <<ready, health, faults>>

\* It fails, before its first page, between a page and its cursor, or after.
BackfillFails(o) ==
    LET f == job[o].profile
        r == job[o].at
    IN  /\ Running(o, "import")
        /\ \/ /\ ~ready
              /\ WritesNothing
              /\ UNCHANGED faults
           \/ /\ ready
              /\ ~Refused(f, r, job[o].force)
              /\ Fault
              /\ \E h \in Rows(f, r), c \in AfterFailedBackfill(cursor[f][r]) :
                   Writes(f, r, c, h, age[f][r])
        /\ \E e \in {"failed", "circuit"} : Exits(o, e)
        /\ UNCHANGED <<ready, health>>

-----------------------------------------------------------------------------
(* RunOnce and Reconcile.Run, in a command of their own or in the daemon.   *)

StartCommand(o, f) ==
    /\ Running(o, "idle")
    /\ Goes(o, Job("sync", "pass", f)) \/ Goes(o, Job("reconcile", "reconcile", f))
    /\ UNCHANGED <<ready, cursor, held, age, last, health, faults>>

StartDaemon(u, f) ==
    /\ Running(u, "idle")
    /\ last[u] = "none"
    /\ Goes(u, Job("daemon", "pass", f))
    /\ UNCHANGED <<ready, cursor, held, age, last, health, faults>>

\* Restart=on-failure, and the operator when the start limit is reached.
Restart(u) ==
    /\ Running(u, "idle")
    /\ last[u] \in {"failed", "circuit", "required"}
    /\ Goes(u, Job("daemon", "pass", job[u].profile))
    /\ Records(u, NoHealth)
    /\ UNCHANGED <<ready, cursor, held, age, last, faults>>

Asleep(j) == [j EXCEPT !.pc = "sleep", !.at = 1]

\* A resource that was never looked at has no row.
ReconcileDue(f) == \E r \in Resources : cursor[f][r] # "absent" /\ age[f][r] >= Every

\* Mutant: a daemon that has caught up ends.
EndsCaughtUp(u, j) == Records(u, RecordSuccess(health[u])) /\ Exits(u, "ok")

\* The pass is over: the success is recorded, then a reconcile if one is due.
PassSucceeds(u, j) ==
    /\ Records(u, RecordSuccess(health[u]))
    /\ Goes(u, IF ReconcileDue(j.profile) THEN [j EXCEPT !.pc = "reconcile", !.at = 1]
               ELSE Asleep(j))
    /\ UNCHANGED last

\* RunOnce over one resource.
SyncResource(p) ==
    LET f == job[p].profile
        r == job[p].at
        j == [job[p] EXCEPT !.served = @ \cup {r}]
    IN  /\ Running(p, "pass")
        /\ ready
        /\ cursor[f][r] = "complete"
        /\ \E h \in Rows(f, r) : Writes(f, r, "complete", h, age[f][r])
        /\ IF r < NumResources
           THEN Goes(p, [j EXCEPT !.at = @ + 1]) /\ UNCHANGED <<last, health>>
           ELSE IF job[p].op = "daemon" THEN PassSucceeds(p, j)
           ELSE Exits(p, "ok") /\ UNCHANGED health
        /\ UNCHANGED <<ready, faults>>

\* What a request or the store may answer: "timeout" is an error that wraps
\* context.DeadlineExceeded, as those of http.Client and net.Dialer do.
Errors == {"failed", "circuit", "timeout"}

\* The daemon's verdict on the error of a pass.
PassFails(u, e) ==
    IF e = "timeout" THEN Exits(u, "quiet") /\ UNCHANGED health
    ELSE /\ Records(u, RecordFailure(health[u]))
         /\ IF e = "failed" THEN Goes(u, Asleep(job[u])) /\ UNCHANGED last
            ELSE Exits(u, e)

SyncFails(p) ==
    LET f == job[p].profile
        r == job[p].at
    IN  /\ Running(p, "pass")
        /\ \E e \in Errors \cup {"required"} :
             /\ \/ ~ready /\ e = "failed" /\ WritesNothing /\ UNCHANGED faults
                \/ ready /\ e = "required" /\ cursor[f][r] # "complete"
                     /\ WritesNothing /\ UNCHANGED faults
                \/ ready /\ e \in Errors /\ cursor[f][r] = "complete" /\ Fault
                     /\ \E h \in Rows(f, r) : Writes(f, r, "complete", h, age[f][r])
             /\ IF job[p].op = "daemon" THEN PassFails(p, e)
                ELSE Exits(p, IF e = "timeout" THEN "failed" ELSE e) /\ UNCHANGED health
        /\ UNCHANGED ready

\* The rows ListKeys returns and the sweep of the profile's feed does not: those
\* of every other profile.
Purged(f, r) == {g \in Profiles : g # f /\ held[g][r]}

ReconciledRows(f, r) ==
    {[g \in Profiles |-> IF g \in Purged(f, r) THEN [h[g] EXCEPT ![r] = FALSE] ELSE h[g]] :
       h \in Rows(f, r)}

ReconcileResource(p) ==
    LET f == job[p].profile
        r == job[p].at
    IN  /\ Running(p, "reconcile")
        /\ ready
        /\ cursor[f][r] = "complete"
        /\ \E h \in ReconciledRows(f, r) : Writes(f, r, "complete", h, 0)
        /\ IF r < NumResources
           THEN Goes(p, [job[p] EXCEPT !.at = @ + 1]) /\ UNCHANGED last
           ELSE IF job[p].op = "daemon"
           THEN Goes(p, [Asleep(job[p]) EXCEPT !.reconcile = "done"]) /\ UNCHANGED last
           ELSE Exits(p, "ok")
        /\ UNCHANGED <<ready, health, faults>>

\* Mutant: the error of a reconcile is logged only.
ReconcileLogged(u, e) ==
    IF e = "circuit" THEN Exits(u, e) /\ UNCHANGED health
    ELSE Goes(u, [Asleep(job[u]) EXCEPT !.reconcile = "failed"]) /\ UNCHANGED <<last, health>>

\* The daemon's verdict on the error of a reconcile.
ReconcileFailed(u, e) ==
    /\ Records(u, RecordFailure(health[u]))
    /\ IF e = "circuit" THEN Exits(u, e)
       ELSE Goes(u, [Asleep(job[u]) EXCEPT !.reconcile = "failed"]) /\ UNCHANGED last

ReconcileFails(p) ==
    LET f == job[p].profile
        r == job[p].at
    IN  /\ Running(p, "reconcile")
        /\ \E e \in Errors \cup {"required"} :
             /\ \/ ~ready /\ e = "failed" /\ WritesNothing /\ UNCHANGED faults
                \/ ready /\ e = "required" /\ cursor[f][r] # "complete"
                     /\ WritesNothing /\ UNCHANGED faults
                \/ ready /\ e \in Errors /\ cursor[f][r] = "complete" /\ Fault
                     /\ \E h \in ReconciledRows(f, r) \cup Rows(f, r) :
                          Writes(f, r, "complete", h, age[f][r])
             /\ IF job[p].op = "daemon" THEN ReconcileFailed(p, e)
                ELSE Exits(p, IF e = "timeout" THEN "failed" ELSE e) /\ UNCHANGED health
        /\ UNCHANGED ready

\* The interval is over.
Wake(u) ==
    /\ Running(u, "sleep")
    /\ Goes(u, Job("daemon", "pass", job[u].profile))
    /\ UNCHANGED <<ready, cursor, held, age, last, health, faults>>

\* SIGTERM cancels the context: the command returns at its next call.
Cancel(p) ==
    /\ ~Running(p, "idle")
    /\ Fault
    /\ Exits(p, "cancelled")
    /\ UNCHANGED <<ready, cursor, held, age, health>>

Step(p) ==
    \/ BackfillRefused(p)
    \/ BackfillResource(p)
    \/ SyncResource(p)
    \/ ReconcileResource(p)
    \/ BackfillFails(p)
    \/ SyncFails(p)
    \/ ReconcileFails(p)
    \/ Wake(p)

CommandsNext ==
    \/ InitDB
    \/ Tick
    \/ \E p \in Procs : Step(p) \/ Cancel(p)
    \/ \E f \in Profiles :
         \/ \E o \in Operators :
              RepeatBackfill(o, f) \/ FancyBackfill(o, f) \/ StartCommand(o, f)
         \/ \E u \in Units : StartDaemon(u, f)
    \/ \E u \in Units : Restart(u)

CommandsSpec == CommandsInit /\ [][CommandsNext]_cvars

\* Processes run on, the schema is created, the unit is started and restarted,
\* and the operator repeats `backfill` while the import is incomplete.
CommandsFairness ==
    /\ WF_cvars(InitDB)
    /\ \A p \in Procs : WF_cvars(Step(p))
    /\ \A u \in Units : WF_cvars(Restart(u)) /\ WF_cvars(\E f \in Profiles : StartDaemon(u, f))
    /\ \A o \in Operators, f \in Profiles : SF_cvars(RepeatBackfill(o, f))

CommandsFairSpec == CommandsSpec /\ CommandsFairness

-----------------------------------------------------------------------------

\* The type invariant.
CommandsTypeOK ==
    /\ ready \in BOOLEAN
    /\ cursor \in [Profiles -> [Resources -> Cursors]]
    /\ held \in [Profiles -> [Resources -> BOOLEAN]]
    /\ age \in [Profiles -> [Resources -> 0..Every]]
    /\ job \in [Procs -> Jobs]
    /\ last \in [Procs -> Endings]
    /\ health \in [Units -> [success : 0..2, error : 0..2]]
    /\ faults \in 0..MaxFaults

\* "200 while the most recent pass succeeded, 503 once the latest outcome is a
\* failure" (sync.go): between two passes the endpoint is healthy exactly when
\* the last one has caught up every resource and its reconcile, if one was due,
\* has not failed.
HealthTellsOutcome ==
    \A u \in Units :
        Running(u, "sleep") =>
            (Healthy(health[u]) <=> job[u].served = Resources /\ job[u].reconcile # "failed")

\* An uncapped `backfill` that reports success has imported every resource: no
\* error of one of them is swallowed by the loop.
BackfillTellsTruth ==
    [][\A o \in Operators :
          Running(o, "import") /\ ~job[o].capped /\ job'[o].op = "none" /\ last'[o] = "ok"
              => \A r \in Resources : cursor'[job[o].profile][r] = "complete"]_cvars

\* The daemon reconciles every resource again and again, whatever failed
\* before, unless it ended with status 0, after which systemd lets it rest.
DaemonServes ==
    \A u \in Units :
        \/ \A r \in Resources : []<>(age[job[u].profile][r] = 0)
        \/ <>[](Running(u, "idle") /\ last[u] \in {"cancelled", "quiet"})

\* "RunDaemon loops RunOnce at the configured interval until the context ends"
\* (sync.go); otherwise it exits loudly, with an error.
NoQuietEnd == \A u \in Units : last[u] # "quiet"

\* "An interrupted backfill continues from the persisted @odata.nextLink"
\* (commands.go): while a resume cursor is there and no command runs, a plain
\* `backfill` gets to it.
ResumeReached ==
    \A f \in Profiles, r \in Resources :
        /\ cursor[f][r] = "importing"
        /\ \A o \in Operators : Running(o, "idle")
        => \A i \in 1..(r - 1) : ~Refused(f, i, FALSE)

\* A command works on the rows of its own profile.
ProfilesApart ==
    [][\A p \in Procs, g \in Profiles :
          ReconcileResource(p) /\ g # job[p].profile => held'[g] = held[g]]_cvars

=============================================================================
