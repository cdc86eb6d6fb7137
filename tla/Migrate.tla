------------------------------ MODULE Migrate ------------------------------
(***************************************************************************)
(* `init-db`: Store.Migrate of internal/store/postgres/migrate.go.          *)
(* Processes of several builds migrate one schema; each build embeds its    *)
(* migration files, and schema_migrations records what was applied.         *)
(*                                                                          *)
(* The advisory lock belongs to a database session.  A process that dies    *)
(* leaves its session behind for a while: it holds the lock, and what it    *)
(* was sent last may still commit, until the server notices.                *)
(***************************************************************************)
EXTENDS Naturals, FiniteSetsExt

CONSTANTS
    Migrators,  \* processes that run init-db
    Builds,     \* the migrations a build embeds: version -> checksum
    MaxFaults   \* bound: how many faults there are

Free == "free"

Versions == UNION {DOMAIN b : b \in Builds}
Checksums == UNION {{b[v] : v \in DOMAIN b} : b \in Builds}

ASSUME MigrateConstants ==
    /\ Free \notin Migrators
    /\ Versions \subseteq Nat \ {0}
    /\ \A b \in Builds : b \in [DOMAIN b -> Checksums]
    /\ MaxFaults \in Nat

VARIABLES
    lock,     \* the migrator whose session holds the advisory lock, or Free
    applied,  \* schema_migrations: version -> checksum
    objects,  \* what the migrations created: version -> checksum of the SQL
    mig,      \* mig[m]: the run of init-db
    faults

migrateVars == <<lock, applied, objects, mig, faults>>

Nothing == [v \in {} |-> ""]

\* seen: schema_migrations as it was read; left: versions still to look at.
NoRun == [pc |-> "idle", build |-> Nothing, seen |-> Nothing, left |-> {}, result |-> "none"]

MigrateInit ==
    /\ lock = Free
    /\ applied = Nothing
    /\ objects = Nothing
    /\ mig = [m \in Migrators |-> NoRun]
    /\ faults = 0

Fault == faults < MaxFaults /\ faults' = faults + 1

At(m, pc) == mig[m].pc = pc

Goes(m, r) == mig' = [mig EXCEPT ![m] = r]

-----------------------------------------------------------------------------

\* Mutant: numbered from zero.
EmbeddedFromZero(b) == 0..Max(DOMAIN b)

\* loadMigrations: the versions of the embedded files.
Embedded(b) == DOMAIN b

\* The command starts, and takes a connection.
InitDB(m, b) ==
    /\ At(m, "idle")
    /\ Goes(m, [NoRun EXCEPT !.pc = "lock", !.build = b, !.left = Embedded(b)])
    /\ UNCHANGED <<lock, applied, objects, faults>>

\* Mutant: no lock.
MayLock(m) == TRUE

\* pg_advisory_lock waits.
Available(m) == lock = Free

AcquireLock(m) ==
    /\ At(m, "lock")
    /\ Available(m)
    /\ lock' = m
    /\ Goes(m, [mig[m] EXCEPT !.pc = "read"])
    /\ UNCHANGED <<applied, objects, faults>>

\* CREATE SCHEMA and CREATE TABLE IF NOT EXISTS, then the rows.
ReadApplied(m) ==
    /\ At(m, "read")
    /\ Goes(m, [mig[m] EXCEPT !.pc = "apply", !.seen = applied])
    /\ UNCHANGED <<lock, applied, objects, faults>>

Ends(m, result) == Goes(m, [mig[m] EXCEPT !.pc = "unlock", !.result = result])

\* Mutant: a version that is there is taken as applied, whatever was in it.
VersionKnown(m, v) == v \in DOMAIN mig[m].seen

\* Applied from the file this build has.
UpToDate(m, v) == v \in DOMAIN mig[m].seen /\ mig[m].seen[v] = mig[m].build[v]

\* The transaction of a migration: its SQL, then its row.
With(table, m, v) ==
    [u \in DOMAIN table \cup {v} |-> IF u = v THEN mig[m].build[v] ELSE table[u]]

\* Mutant: the files are looked at in the wrong order.
Newest(m) == Max(mig[m].left)

\* The files are sorted by their numbers.
Following(m) == Min(mig[m].left)

\* The next migration: skipped, refused, or applied in one transaction, which
\* fails when the objects it creates are there.
MigrateOne(m) ==
    /\ At(m, "apply")
    /\ mig[m].left # {}
    /\ LET v == Following(m)
           next == [mig[m] EXCEPT !.left = @ \ {v}]
       IN  \/ /\ UpToDate(m, v)
              /\ Goes(m, next)
              /\ UNCHANGED <<applied, objects>>
           \/ /\ v \in DOMAIN mig[m].seen
              /\ ~UpToDate(m, v)
              /\ Ends(m, "drift")
              /\ UNCHANGED <<applied, objects>>
           \/ /\ v \notin DOMAIN mig[m].seen
              /\ IF v \in DOMAIN objects
                 THEN Ends(m, "failed") /\ UNCHANGED <<applied, objects>>
                 ELSE /\ Goes(m, next)
                      /\ objects' = With(objects, m, v)
                      /\ applied' = With(applied, m, v)
    /\ UNCHANGED <<lock, faults>>

Migrated(m) ==
    /\ At(m, "apply")
    /\ mig[m].left = {}
    /\ Ends(m, "ok")
    /\ UNCHANGED <<lock, applied, objects, faults>>

\* A statement fails: the transaction is rolled back.
StatementFails(m) ==
    /\ mig[m].pc \in {"read", "apply"}
    /\ Fault
    /\ Ends(m, "interrupted")
    /\ UNCHANGED <<lock, applied, objects>>

\* Mutant: unlocked at the end of the function only.
ReleasedAtEnd(m) == IF mig[m].result = "ok" THEN Free ELSE lock

Released(m) == Free

\* The deferred unlock, on every way out.
Unlock(m) ==
    /\ At(m, "unlock")
    /\ lock' = Released(m)
    /\ Goes(m, [NoRun EXCEPT !.result = mig[m].result, !.build = mig[m].build])
    /\ UNCHANGED <<applied, objects, faults>>

\* The process dies; its session is still there, and with it the migration it
\* was about to apply.
Dies(m) ==
    /\ mig[m].pc \in {"read", "apply", "unlock"}
    /\ Fault
    /\ Goes(m, [mig[m] EXCEPT !.pc = "orphan", !.result = "interrupted",
                              !.left = IF At(m, "apply") THEN @ ELSE {}])
    /\ UNCHANGED <<lock, applied, objects>>

\* The server ends it, after the transaction it was about, or without it.
SessionEnds(m) ==
    /\ At(m, "orphan")
    /\ lock' = Free
    /\ Goes(m, [NoRun EXCEPT !.result = "interrupted"])
    /\ \/ UNCHANGED <<applied, objects>>
       \/ \E v \in mig[m].left \ (DOMAIN mig[m].seen \cup DOMAIN objects) :
            /\ v = Following(m)
            /\ objects' = With(objects, m, v)
            /\ applied' = With(applied, m, v)
    /\ UNCHANGED faults

MigrateStep(m) ==
    \/ AcquireLock(m)
    \/ ReadApplied(m)
    \/ MigrateOne(m)
    \/ Migrated(m)
    \/ Unlock(m)
    \/ SessionEnds(m)

MigrateNext ==
    \E m \in Migrators :
        \/ \E b \in Builds : InitDB(m, b)
        \/ MigrateStep(m)
        \/ StatementFails(m)
        \/ Dies(m)

MigrateSpec == MigrateInit /\ [][MigrateNext]_migrateVars

\* A process runs on, the server ends dead sessions and serves the waiting
\* ones in turn.
MigrateFairness ==
    \A m \in Migrators : WF_migrateVars(MigrateStep(m)) /\ SF_migrateVars(AcquireLock(m))

MigrateFairSpec == MigrateSpec /\ MigrateFairness

-----------------------------------------------------------------------------

Ledgers == UNION {[S -> Checksums] : S \in SUBSET Versions}

MigRuns == [pc : {"idle", "lock", "read", "apply", "unlock", "orphan"},
            build : Builds \cup {Nothing},
            seen : Ledgers,
            left : SUBSET Versions,
            result : {"none", "ok", "drift", "failed", "interrupted"}]

\* The type invariant.
MigrateTypeOK ==
    /\ lock \in Migrators \cup {Free}
    /\ applied \in Ledgers
    /\ objects \in Ledgers
    /\ mig \in [Migrators -> MigRuns]
    /\ \A m \in Migrators : mig[m].left \subseteq DOMAIN mig[m].build
    /\ faults \in 0..MaxFaults

\* "Migrate applies pending migrations in order": one is applied only under the
\* lock, and only to a schema that the earlier files of the same build made,
\* whoever applied those; also by a session that has outlived its process.
MigratesInOrder ==
    [][\A v \in (DOMAIN objects') \ DOMAIN objects :
          \E m \in Migrators :
             LET build == mig[m].build
             IN  /\ lock = m
                 /\ v \in DOMAIN build /\ objects'[v] = build[v]
                 /\ \A u \in DOMAIN build :
                      u < v => u \in DOMAIN objects /\ objects[u] = build[u]]_migrateVars

\* "Idempotent - safe to re-run", "serialize concurrent migrators": a run that
\* nothing interrupts does not fail, whatever others did or left half done; it
\* is refused only over a file edited after it was applied.
InitNeverFails ==
    \A m \in Migrators :
        /\ mig[m].result # "failed"
        /\ At(m, "unlock") /\ mig[m].result = "drift"
             => \E v \in DOMAIN mig[m].build \cap DOMAIN objects : objects[v] # mig[m].build[v]

\* A run that reports success leaves its build's schema, made from its files.
InitDelivers ==
    \A m \in Migrators :
        At(m, "unlock") /\ mig[m].result = "ok"
          => \A v \in DOMAIN mig[m].build : v \in DOMAIN objects /\ objects[v] = mig[m].build[v]

\* Whoever waits for the lock gets through, also after a holder that failed or
\* died.
InitEnds == \A m \in Migrators : At(m, "lock") ~> At(m, "idle")

=============================================================================
