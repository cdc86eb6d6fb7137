---------------------------- MODULE MigrateProofs ----------------------------
(***************************************************************************)
(* Theorems about Migrate: for every set of processes and of builds, and    *)
(* any number of failures.                                                  *)
(***************************************************************************)
EXTENDS Migrate, Greatest

-----------------------------------------------------------------------------
(* Type correctness.                                                        *)

LEMMA NextVersion ==
    ASSUME NEW S \in SUBSET Versions, S # {}
    PROVE  Min(S) \in S
<1>1. S \in SUBSET Nat
  BY MigrateConstants
<1>2. \E t \in S : \A y \in S : t <= y
  BY <1>1, LeastExists
<1> QED
  BY <1>2 DEF Min

LEMMA LedgersTyped ==
    /\ Nothing \in Ledgers
    /\ NoRun \in MigRuns
    /\ \A b \in Builds : b \in Ledgers /\ DOMAIN b \subseteq Versions
<1>1. Nothing \in [{} -> Checksums]
  BY DEF Nothing
<1>2. Nothing \in Ledgers
  BY <1>1 DEF Ledgers
<1>3. \A b \in Builds : b \in [DOMAIN b -> Checksums] /\ DOMAIN b \subseteq Versions
  BY MigrateConstants DEF Versions
<1>4. \A b \in Builds : b \in Ledgers
  BY <1>3 DEF Ledgers
<1>5. NoRun \in MigRuns
  BY <1>2 DEF NoRun, MigRuns
<1> QED
  BY <1>2, <1>3, <1>4, <1>5

\* A table that one more migration is written to.
LEMMA WithTyped ==
    ASSUME MigrateTypeOK, NEW m \in Migrators, NEW table \in Ledgers,
           NEW v \in DOMAIN mig[m].build
    PROVE  /\ With(table, m, v) \in Ledgers
           /\ DOMAIN With(table, m, v) = DOMAIN table \cup {v}
<1>1. mig[m].build \in Builds
  BY DEF MigrateTypeOK, MigRuns, Nothing
<1>2. mig[m].build[v] \in Checksums /\ v \in Versions
  BY <1>1, MigrateConstants, LedgersTyped
<1>3. PICK S \in SUBSET Versions : table \in [S -> Checksums]
  BY DEF Ledgers
<1>4. With(table, m, v) \in [S \cup {v} -> Checksums]
  BY <1>2, <1>3 DEF With
<1> QED
  BY <1>2, <1>3, <1>4 DEF Ledgers

LEMMA GoesTyped ==
    ASSUME MigrateTypeOK, NEW m \in Migrators, NEW r \in MigRuns, Goes(m, r)
    PROVE  /\ mig' \in [Migrators -> MigRuns]
           /\ mig'[m] = r
           /\ \A n \in Migrators : n # m => mig'[n] = mig[n]
BY DEF MigrateTypeOK, Goes

\* A step of one process: the tables may change, and its run, which stays typed.
LEMMA StepTyped ==
    ASSUME MigrateTypeOK, NEW m \in Migrators, NEW r \in MigRuns, Goes(m, r),
           r.left \subseteq DOMAIN r.build,
           lock' \in Migrators \cup {Free}, applied' \in Ledgers, objects' \in Ledgers,
           faults' \in 0..MaxFaults
    PROVE  MigrateTypeOK'
BY GoesTyped DEF MigrateTypeOK

LEMMA MigrateInitTyped == MigrateInit => MigrateTypeOK
<1> SUFFICES ASSUME MigrateInit PROVE MigrateTypeOK
  OBVIOUS
<1>1. NoRun.left = {}
  BY DEF NoRun
<1> QED
  BY <1>1, LedgersTyped, MigrateConstants DEF MigrateInit, MigrateTypeOK

\* The migration that is next, when it is written.
LEMMA AppliedTyped ==
    ASSUME MigrateTypeOK, NEW m \in Migrators, NEW v \in mig[m].left,
           objects' = With(objects, m, v), applied' = With(applied, m, v)
    PROVE  objects' \in Ledgers /\ applied' \in Ledgers
BY WithTyped DEF MigrateTypeOK

LEMMA MigrateNextTyped == MigrateTypeOK /\ [MigrateNext]_migrateVars => MigrateTypeOK'
<1> SUFFICES ASSUME MigrateTypeOK, [MigrateNext]_migrateVars PROVE MigrateTypeOK'
  OBVIOUS
<1>0. UNCHANGED faults \/ Fault => faults' \in 0..MaxFaults
  BY MigrateConstants DEF MigrateTypeOK, Fault
<1>1. ASSUME NEW m \in Migrators, NEW b \in Builds, InitDB(m, b) PROVE MigrateTypeOK'
  <2> DEFINE r == [NoRun EXCEPT !.pc = "lock", !.build = b, !.left = Embedded(b)]
  <2>1. r \in MigRuns /\ r.left = DOMAIN r.build
    BY LedgersTyped DEF NoRun, MigRuns, Embedded
  <2>2. Goes(m, r) /\ UNCHANGED <<lock, applied, objects, faults>>
    BY <1>1 DEF InitDB
  <2> HIDE DEF r
  <2> QED
    BY <1>0, <2>1, <2>2, StepTyped DEF MigrateTypeOK
<1>2. ASSUME NEW m \in Migrators, MigrateStep(m) PROVE MigrateTypeOK'
  <2>0. mig[m] \in MigRuns /\ mig[m].left \subseteq DOMAIN mig[m].build
    BY DEF MigrateTypeOK
  <2>1. CASE AcquireLock(m)
    <3> DEFINE r == [mig[m] EXCEPT !.pc = "read"]
    <3>1. r \in MigRuns /\ r.left = mig[m].left /\ r.build = mig[m].build
      BY <2>0 DEF MigRuns
    <3>2. Goes(m, r) /\ lock' = m /\ UNCHANGED <<applied, objects, faults>>
      BY <2>1 DEF AcquireLock
    <3> HIDE DEF r
    <3> QED
      BY <1>0, <2>0, <3>1, <3>2, StepTyped DEF MigrateTypeOK
  <2>2. CASE ReadApplied(m)
    <3> DEFINE r == [mig[m] EXCEPT !.pc = "apply", !.seen = applied]
    <3>1. r \in MigRuns /\ r.left = mig[m].left /\ r.build = mig[m].build
      BY <2>0 DEF MigRuns, MigrateTypeOK
    <3>2. Goes(m, r) /\ UNCHANGED <<lock, applied, objects, faults>>
      BY <2>2 DEF ReadApplied
    <3> HIDE DEF r
    <3> QED
      BY <1>0, <2>0, <3>1, <3>2, StepTyped DEF MigrateTypeOK
  <2>3. CASE MigrateOne(m)
    <3>1. PICK v : v = Following(m)
      OBVIOUS
    <3>2. v \in mig[m].left
      BY <2>0, <2>3, <3>1, NextVersion DEF MigrateOne, Following, MigRuns
    <3> DEFINE next == [mig[m] EXCEPT !.left = @ \ {v}]
               ends(e) == [mig[m] EXCEPT !.pc = "unlock", !.result = e]
    <3>3. \E r \in {next, ends("drift"), ends("failed")} : Goes(m, r)
      BY <2>3, <3>1 DEF MigrateOne, Ends
    <3>4. \A r \in {next, ends("drift"), ends("failed")} :
             r \in MigRuns /\ r.left \subseteq DOMAIN r.build
      BY <2>0 DEF MigRuns
    <3>5. objects' \in Ledgers /\ applied' \in Ledgers
      <4>1. \/ UNCHANGED <<applied, objects>>
            \/ objects' = With(objects, m, v) /\ applied' = With(applied, m, v)
        BY <2>3, <3>1 DEF MigrateOne
      <4> QED
        BY <3>2, <4>1, AppliedTyped DEF MigrateTypeOK
    <3>6. UNCHANGED <<lock, faults>>
      BY <2>3 DEF MigrateOne
    <3> HIDE DEF next, ends
    <3> QED
      BY <1>0, <3>3, <3>4, <3>5, <3>6, StepTyped DEF MigrateTypeOK
  <2>4. CASE Migrated(m)
    <3> DEFINE r == [mig[m] EXCEPT !.pc = "unlock", !.result = "ok"]
    <3>1. r \in MigRuns /\ r.left = mig[m].left /\ r.build = mig[m].build
      BY <2>0 DEF MigRuns
    <3>2. Goes(m, r) /\ UNCHANGED <<lock, applied, objects, faults>>
      BY <2>4 DEF Migrated, Ends
    <3> HIDE DEF r
    <3> QED
      BY <1>0, <2>0, <3>1, <3>2, StepTyped DEF MigrateTypeOK
  <2>5. CASE Unlock(m)
    <3> DEFINE r == [NoRun EXCEPT !.result = mig[m].result, !.build = mig[m].build]
    <3>1. r \in MigRuns /\ r.left = {}
      BY <2>0, LedgersTyped DEF MigRuns, NoRun
    <3>2. Goes(m, r) /\ lock' = Free /\ UNCHANGED <<applied, objects, faults>>
      BY <2>5 DEF Unlock, Released
    <3> HIDE DEF r
    <3> QED
      BY <1>0, <3>1, <3>2, StepTyped DEF MigrateTypeOK
  <2>6. CASE SessionEnds(m)
    <3> DEFINE r == [NoRun EXCEPT !.result = "interrupted"]
    <3>1. r \in MigRuns /\ r.left = {}
      BY LedgersTyped DEF MigRuns, NoRun
    <3>2. Goes(m, r) /\ lock' = Free /\ UNCHANGED faults
      BY <2>6 DEF SessionEnds
    <3>3. objects' \in Ledgers /\ applied' \in Ledgers
      <4>1. \/ UNCHANGED <<applied, objects>>
            \/ \E v \in mig[m].left : objects' = With(objects, m, v) /\ applied' = With(applied, m, v)
        BY <2>6 DEF SessionEnds
      <4> QED
        BY <4>1, AppliedTyped DEF MigrateTypeOK
    <3> HIDE DEF r
    <3> QED
      BY <1>0, <3>1, <3>2, <3>3, StepTyped
  <2> QED
    BY <1>2, <2>1, <2>2, <2>3, <2>4, <2>5, <2>6 DEF MigrateStep
<1>3. ASSUME NEW m \in Migrators, StatementFails(m) PROVE MigrateTypeOK'
  <2> DEFINE r == [mig[m] EXCEPT !.pc = "unlock", !.result = "interrupted"]
  <2>1. r \in MigRuns /\ r.left \subseteq DOMAIN r.build
    BY DEF MigRuns, MigrateTypeOK
  <2>2. Goes(m, r) /\ Fault /\ UNCHANGED <<lock, applied, objects>>
    BY <1>3 DEF StatementFails, Ends
  <2> HIDE DEF r
  <2> QED
    BY <1>0, <2>1, <2>2, StepTyped DEF MigrateTypeOK
<1>4. ASSUME NEW m \in Migrators, Dies(m) PROVE MigrateTypeOK'
  <2> DEFINE left == IF At(m, "apply") THEN mig[m].left ELSE {}
             r == [mig[m] EXCEPT !.pc = "orphan", !.result = "interrupted", !.left = left]
  <2>1. r \in MigRuns /\ r.left \subseteq DOMAIN r.build
    BY ZenonT(60) DEF MigRuns, MigrateTypeOK
  <2>2. Goes(m, r) /\ Fault /\ UNCHANGED <<lock, applied, objects>>
    BY <1>4 DEF Dies
  <2> HIDE DEF r
  <2> QED
    BY <1>0, <2>1, <2>2, StepTyped DEF MigrateTypeOK
<1>5. CASE UNCHANGED migrateVars
  BY <1>5 DEF migrateVars, MigrateTypeOK
<1> QED
  BY <1>1, <1>2, <1>3, <1>4, <1>5 DEF MigrateNext

\* Migrate keeps its variables typed.
THEOREM MigrateTypeCorrect == MigrateSpec => []MigrateTypeOK
BY MigrateInitTyped, MigrateNextTyped, PTL DEF MigrateSpec

-----------------------------------------------------------------------------
(* The invariant: only the holder of the lock is past waiting for it, and   *)
(* what it has read and done describes the tables, since no one else writes *)
(* them.                                                                    *)

\* schema_migrations names exactly the migrations whose objects are there.
LedgerTruthful == applied = objects

Holds(r) == r.pc \in {"read", "apply", "unlock", "orphan"}

\* What was read still holds of the versions to come, and the others are made.
InStep(r) ==
    /\ \A v \in r.left : /\ v \in DOMAIN objects <=> v \in DOMAIN r.seen
                         /\ v \in DOMAIN objects => objects[v] = r.seen[v]
    /\ \A v \in DOMAIN r.build \ r.left : v \in DOMAIN objects /\ objects[v] = r.build[v]

RunInv(m, r) ==
    /\ Holds(r) => lock = m
    /\ r.result # "failed"
    /\ r.pc \in {"lock", "read"} => r.left = DOMAIN r.build
    /\ r.pc = "apply" \/ (r.pc = "orphan" /\ r.left # {}) => InStep(r)
    /\ r.pc = "unlock" /\ r.result = "drift" =>
         \E v \in DOMAIN r.build \cap DOMAIN objects : objects[v] # r.build[v]
    /\ r.pc = "unlock" /\ r.result = "ok" =>
         \A v \in DOMAIN r.build : v \in DOMAIN objects /\ objects[v] = r.build[v]

MigrateInv ==
    /\ LedgerTruthful
    /\ \A m \in Migrators : RunInv(m, mig[m])

LEMMA MigrateInvInit == MigrateInit => MigrateInv
BY DEF MigrateInit, MigrateInv, LedgerTruthful, RunInv, Holds, NoRun

\* A step of m, who holds the lock, takes it, or leaves tables and lock alone.
LEMMA StepKeeps ==
    ASSUME MigrateTypeOK, MigrateInv, NEW m \in Migrators, NEW r \in MigRuns, Goes(m, r),
           (lock \in {m, Free} /\ lock' \in {m, Free}) \/ lock' = lock,
           lock = m \/ UNCHANGED objects,
           LedgerTruthful',
           RunInv(m, r)'
    PROVE  MigrateInv'
<1>1. ASSUME NEW n \in Migrators, n # m PROVE RunInv(n, mig[n])'
  <2>1. RunInv(n, mig[n]) /\ mig'[n] = mig[n]
    BY <1>1, GoesTyped DEF MigrateInv
  <2>2. CASE Holds(mig[n])
    <3>1. lock = n /\ lock \notin {m, Free}
      BY <1>1, <2>1, <2>2, MigrateConstants DEF RunInv
    <3> QED
      BY <2>1, <3>1 DEF RunInv, Holds, InStep
  <2>3. CASE ~Holds(mig[n])
    BY <2>1, <2>3 DEF RunInv, Holds
  <2> QED
    BY <2>2, <2>3
<1>2. RunInv(m, mig[m])'
  BY GoesTyped
<1> QED
  BY <1>1, <1>2 DEF MigrateInv

\* One more migration made and recorded.
LEMMA MadeAndRecorded ==
    ASSUME MigrateTypeOK, MigrateInv, NEW m \in Migrators, NEW v \in mig[m].left,
           objects' = With(objects, m, v), applied' = With(applied, m, v)
    PROVE  /\ LedgerTruthful'
           /\ DOMAIN objects' = DOMAIN objects \cup {v}
           /\ objects'[v] = mig[m].build[v]
           /\ \A u \in DOMAIN objects : u # v => objects'[u] = objects[u]
BY DEF MigrateInv, LedgerTruthful, With

LEMMA MigrateOneKeeps ==
    ASSUME MigrateTypeOK, MigrateInv, NEW m \in Migrators, MigrateOne(m)
    PROVE  MigrateInv'
<1>1. PICK o : o = mig[m]
  OBVIOUS
<1>2. /\ o \in MigRuns /\ o.left \subseteq DOMAIN o.build /\ o.pc = "apply"
      /\ RunInv(m, o)
  BY <1>1 DEF MigrateTypeOK, MigrateInv, MigrateOne, At
<1>3. lock = m /\ InStep(o) /\ o.result # "failed" /\ UNCHANGED lock
  BY <1>2 DEF RunInv, Holds, MigrateOne
<1>4. PICK v \in o.left : v = Following(m)
  BY <1>1, <1>2, NextVersion DEF MigrateOne, Following, MigRuns
<1>5. PICK next : next = [o EXCEPT !.left = @ \ {v}]
  OBVIOUS
<1>6. /\ next \in MigRuns /\ next.pc = "apply" /\ next.left = o.left \ {v}
      /\ next.seen = o.seen /\ next.build = o.build /\ next.result = o.result
  BY <1>2, <1>5 DEF MigRuns
<1>7. \/ /\ UpToDate(m, v)
         /\ Goes(m, next)
         /\ UNCHANGED <<applied, objects>>
      \/ /\ v \in DOMAIN o.seen
         /\ ~UpToDate(m, v)
         /\ Ends(m, "drift")
         /\ UNCHANGED <<applied, objects>>
      \/ /\ v \notin DOMAIN o.seen
         /\ IF v \in DOMAIN objects
            THEN Ends(m, "failed") /\ UNCHANGED <<applied, objects>>
            ELSE /\ Goes(m, next)
                 /\ objects' = With(objects, m, v)
                 /\ applied' = With(applied, m, v)
  BY <1>1, <1>4, <1>5 DEF MigrateOne
<1>8. CASE UpToDate(m, v) /\ Goes(m, next) /\ UNCHANGED <<applied, objects>>
  <2>1. RunInv(m, next)'
    BY <1>1, <1>2, <1>3, <1>4, <1>6, <1>8 DEF RunInv, Holds, InStep, UpToDate
  <2>2. LedgerTruthful'
    BY <1>8 DEF MigrateInv, LedgerTruthful
  <2> QED
    BY <1>3, <1>6, <1>8, <2>1, <2>2, StepKeeps
<1>9. CASE v \in DOMAIN o.seen /\ ~UpToDate(m, v) /\ Ends(m, "drift") /\ UNCHANGED <<applied, objects>>
  <2>1. PICK r : r = [o EXCEPT !.pc = "unlock", !.result = "drift"]
    OBVIOUS
  <2>2. /\ r \in MigRuns /\ r.pc = "unlock" /\ r.result = "drift" /\ r.build = o.build
        /\ Goes(m, r)
    BY <1>1, <1>2, <1>9, <2>1 DEF MigRuns, Ends
  <2>3. v \in DOMAIN r.build \cap DOMAIN objects /\ objects[v] # r.build[v]
    BY <1>1, <1>2, <1>3, <1>4, <1>9, <2>2 DEF UpToDate, InStep
  <2>4. RunInv(m, r)'
    BY <1>3, <1>9, <2>2, <2>3 DEF RunInv, Holds
  <2>5. LedgerTruthful'
    BY <1>9 DEF MigrateInv, LedgerTruthful
  <2> QED
    BY <1>3, <1>9, <2>2, <2>4, <2>5, StepKeeps
<1>10. CASE /\ v \notin DOMAIN o.seen
            /\ Goes(m, next)
            /\ objects' = With(objects, m, v)
            /\ applied' = With(applied, m, v)
  <2>1. /\ LedgerTruthful'
        /\ DOMAIN objects' = DOMAIN objects \cup {v}
        /\ objects'[v] = o.build[v]
        /\ \A u \in DOMAIN objects : u # v => objects'[u] = objects[u]
    BY <1>1, <1>4, <1>10, MadeAndRecorded
  <2>2. RunInv(m, next)'
    BY <1>2, <1>3, <1>6, <2>1 DEF RunInv, Holds, InStep
  <2> QED
    BY <1>3, <1>6, <1>10, <2>1, <2>2, StepKeeps
<1> QED
  BY <1>3, <1>4, <1>7, <1>8, <1>9, <1>10 DEF InStep

LEMMA MigrateInvNext == MigrateTypeOK /\ MigrateInv /\ [MigrateNext]_migrateVars => MigrateInv'
<1> SUFFICES ASSUME MigrateTypeOK, MigrateInv, [MigrateNext]_migrateVars PROVE MigrateInv'
  OBVIOUS
<1>0. UNCHANGED <<applied, objects>> => LedgerTruthful'
  BY DEF MigrateInv, LedgerTruthful
<1>1. ASSUME NEW m \in Migrators, NEW b \in Builds, InitDB(m, b) PROVE MigrateInv'
  <2>1. PICK r : r = [NoRun EXCEPT !.pc = "lock", !.build = b, !.left = Embedded(b)]
    OBVIOUS
  <2>2. r \in MigRuns /\ r.pc = "lock" /\ r.left = DOMAIN r.build /\ r.result = "none"
    BY <2>1, LedgersTyped DEF NoRun, MigRuns, Embedded
  <2>3. Goes(m, r) /\ UNCHANGED <<lock, applied, objects>>
    BY <1>1, <2>1 DEF InitDB
  <2>4. RunInv(m, r)'
    BY <2>2 DEF RunInv, Holds
  <2> QED
    BY <1>0, <2>2, <2>3, <2>4, StepKeeps
<1>2. ASSUME NEW m \in Migrators, MigrateStep(m) PROVE MigrateInv'
  <2>0. mig[m] \in MigRuns /\ RunInv(m, mig[m])
    BY DEF MigrateTypeOK, MigrateInv
  <2>1. CASE AcquireLock(m)
    <3>1. PICK r : r = [mig[m] EXCEPT !.pc = "read"]
      OBVIOUS
    <3>2. /\ r \in MigRuns /\ r.pc = "read" /\ r.left = mig[m].left /\ r.build = mig[m].build
          /\ r.result = mig[m].result
      BY <2>0, <3>1 DEF MigRuns
    <3>3. /\ Goes(m, r) /\ lock = Free /\ lock' = m /\ UNCHANGED <<applied, objects>>
          /\ mig[m].pc = "lock"
      BY <2>1, <3>1 DEF AcquireLock, Available, At
    <3>4. RunInv(m, r)'
      BY <2>0, <3>2, <3>3 DEF RunInv, Holds
    <3> QED
      BY <1>0, <3>2, <3>3, <3>4, StepKeeps
  <2>2. CASE ReadApplied(m)
    <3>1. PICK r : r = [mig[m] EXCEPT !.pc = "apply", !.seen = applied]
      OBVIOUS
    <3>2. /\ r \in MigRuns /\ r.pc = "apply" /\ r.left = mig[m].left /\ r.build = mig[m].build
          /\ r.result = mig[m].result /\ r.seen = objects
      BY <2>0, <3>1 DEF MigRuns, MigrateTypeOK, MigrateInv, LedgerTruthful
    <3>3. Goes(m, r) /\ UNCHANGED <<lock, applied, objects>> /\ mig[m].pc = "read"
      BY <2>2, <3>1 DEF ReadApplied, At
    <3>4. RunInv(m, r)'
      BY <2>0, <3>2, <3>3 DEF RunInv, Holds, InStep
    <3> QED
      BY <1>0, <3>2, <3>3, <3>4, StepKeeps
  <2>3. CASE MigrateOne(m)
    BY <2>3, MigrateOneKeeps
  <2>4. CASE Migrated(m)
    <3>1. PICK r : r = [mig[m] EXCEPT !.pc = "unlock", !.result = "ok"]
      OBVIOUS
    <3>2. r \in MigRuns /\ r.pc = "unlock" /\ r.result = "ok" /\ r.build = mig[m].build
      BY <2>0, <3>1 DEF MigRuns
    <3>3. /\ Goes(m, r) /\ UNCHANGED <<lock, applied, objects>> /\ mig[m].pc = "apply"
          /\ mig[m].left = {}
      BY <2>4, <3>1 DEF Migrated, Ends, At
    <3>4. RunInv(m, r)'
      BY <2>0, <3>2, <3>3 DEF RunInv, Holds, InStep
    <3> QED
      BY <1>0, <3>2, <3>3, <3>4, StepKeeps
  <2>5. CASE Unlock(m)
    <3>1. PICK r : r = [NoRun EXCEPT !.result = mig[m].result, !.build = mig[m].build]
      OBVIOUS
    <3>2. r \in MigRuns /\ r.pc = "idle" /\ r.result = mig[m].result
      BY <2>0, <3>1, LedgersTyped DEF MigRuns, NoRun
    <3>3. Goes(m, r) /\ lock = m /\ lock' = Free /\ UNCHANGED <<applied, objects>>
      BY <2>0, <2>5, <3>1 DEF Unlock, Released, At, RunInv, Holds
    <3>4. RunInv(m, r)'
      BY <2>0, <3>2 DEF RunInv, Holds
    <3> QED
      BY <1>0, <3>2, <3>3, <3>4, StepKeeps
  <2>6. CASE SessionEnds(m)
    <3>1. PICK r : r = [NoRun EXCEPT !.result = "interrupted"]
      OBVIOUS
    <3>2. r \in MigRuns /\ r.pc = "idle" /\ r.result = "interrupted"
      BY <3>1, LedgersTyped DEF MigRuns, NoRun
    <3>3. Goes(m, r) /\ lock = m /\ lock' = Free
      BY <2>0, <2>6, <3>1 DEF SessionEnds, At, RunInv, Holds
    <3>4. LedgerTruthful'
      <4>1. \/ UNCHANGED <<applied, objects>>
            \/ \E v \in mig[m].left : objects' = With(objects, m, v) /\ applied' = With(applied, m, v)
        BY <2>6 DEF SessionEnds
      <4> QED
        BY <1>0, <4>1, MadeAndRecorded
    <3>5. RunInv(m, r)'
      BY <3>2 DEF RunInv, Holds
    <3> QED
      BY <3>2, <3>3, <3>4, <3>5, StepKeeps
  <2> QED
    BY <1>2, <2>1, <2>2, <2>3, <2>4, <2>5, <2>6 DEF MigrateStep
<1>3. ASSUME NEW m \in Migrators, StatementFails(m) \/ Dies(m) PROVE MigrateInv'
  <2>0. mig[m] \in MigRuns /\ RunInv(m, mig[m]) /\ Holds(mig[m])
    BY <1>3 DEF MigrateTypeOK, MigrateInv, StatementFails, Dies, Holds
  <2>1. PICK r : /\ Goes(m, r)
                 /\ \/ r = [mig[m] EXCEPT !.pc = "unlock", !.result = "interrupted"]
                    \/ r = [mig[m] EXCEPT !.pc = "orphan", !.result = "interrupted",
                                          !.left = IF At(m, "apply") THEN @ ELSE {}]
    BY <1>3 DEF StatementFails, Ends, Dies
  <2>2. r \in MigRuns /\ r.pc \in {"unlock", "orphan"} /\ r.result = "interrupted"
    BY <2>0, <2>1 DEF MigRuns
  <2>3. UNCHANGED <<lock, applied, objects>>
    BY <1>3 DEF StatementFails, Dies
  <2>4. ASSUME r.pc = "orphan", r.left # {} PROVE InStep(r)'
    <3>1. /\ mig[m].pc = "apply" /\ r.left = mig[m].left
          /\ r.seen = mig[m].seen /\ r.build = mig[m].build
      BY <2>0, <2>1, <2>4 DEF MigRuns, At
    <3>2. InStep(mig[m])
      BY <2>0, <3>1 DEF RunInv
    <3> QED
      BY <2>3, <3>1, <3>2 DEF InStep
  <2>5. lock' = m
    BY <2>0, <2>3 DEF RunInv
  <2>6. RunInv(m, r)'
    BY <2>2, <2>4, <2>5 DEF RunInv
  <2> QED
    BY <1>0, <2>1, <2>2, <2>3, <2>6, StepKeeps
<1>4. CASE UNCHANGED migrateVars
  BY <1>4 DEF migrateVars, MigrateInv, LedgerTruthful, RunInv, Holds, InStep
<1> QED
  BY <1>1, <1>2, <1>3, <1>4 DEF MigrateNext

LEMMA MigrateInvariant == MigrateSpec => []MigrateInv
BY MigrateTypeCorrect, MigrateInvInit, MigrateInvNext, PTL DEF MigrateSpec

\* What is left of a run is what comes last.
OrderInv ==
    \A m \in Migrators : \A v \in mig[m].left, u \in DOMAIN mig[m].build :
        u > v => u \in mig[m].left

LEMMA NextIsLeast ==
    ASSUME NEW S \in SUBSET Versions, S # {}
    PROVE  \A v \in S : Min(S) <= v
<1>1. S \in SUBSET Nat
  BY MigrateConstants
<1>2. \E t \in S : \A y \in S : t <= y
  BY <1>1, LeastExists
<1> QED
  BY <1>2 DEF Min

LEMMA OrderNext == MigrateTypeOK /\ OrderInv /\ [MigrateNext]_migrateVars => OrderInv'
<1> SUFFICES ASSUME MigrateTypeOK, OrderInv, [MigrateNext]_migrateVars PROVE OrderInv'
  OBVIOUS
<1>1. ASSUME NEW m \in Migrators, NEW r, Goes(m, r),
             \A v \in r.left, u \in DOMAIN r.build : u > v => u \in r.left
      PROVE  OrderInv'
  BY <1>1 DEF OrderInv, Goes, MigrateTypeOK
<1>2. ASSUME NEW m \in Migrators, NEW r, Goes(m, r), r.build = mig[m].build,
             r.left = mig[m].left \/ r.left = {}
      PROVE  OrderInv'
  BY <1>1, <1>2 DEF OrderInv
<1>3. ASSUME NEW m \in Migrators, NEW b \in Builds, InitDB(m, b) PROVE OrderInv'
  <2>1. PICK r : r = [NoRun EXCEPT !.pc = "lock", !.build = b, !.left = Embedded(b)]
    OBVIOUS
  <2>2. r.left = DOMAIN b /\ r.build = b
    BY <2>1 DEF NoRun, Embedded
  <2> QED
    BY <1>1, <1>3, <2>1, <2>2 DEF InitDB
<1>4. ASSUME NEW m \in Migrators, MigrateOne(m) PROVE OrderInv'
  <2>0. mig[m] \in MigRuns /\ mig[m].left \in SUBSET Versions /\ mig[m].left # {}
        /\ mig[m].left \subseteq DOMAIN mig[m].build
    BY <1>4 DEF MigrateOne, MigrateTypeOK, MigRuns
  <2>1. PICK v : v = Following(m)
    OBVIOUS
  <2>2. v \in mig[m].left /\ \A w \in mig[m].left : v <= w
    BY <2>0, <2>1, NextVersion, NextIsLeast DEF Following
  <2> DEFINE next == [mig[m] EXCEPT !.left = @ \ {v}]
             ends(e) == [mig[m] EXCEPT !.pc = "unlock", !.result = e]
  <2>3. \E r \in {next, ends("drift"), ends("failed")} : Goes(m, r)
    BY <1>4, <2>1 DEF MigrateOne, Ends
  <2>4. CASE Goes(m, next)
    <3>1. next.left = mig[m].left \ {v} /\ next.build = mig[m].build
      BY <2>0 DEF MigRuns
    <3>2. \A w \in mig[m].left, u \in DOMAIN mig[m].build : u > w => u \in mig[m].left
      BY DEF OrderInv
    <3>3. \A w \in mig[m].left : w \in Nat
      BY <2>0, MigrateConstants
    <3>4. \A w \in next.left, u \in DOMAIN next.build : u > w => u \in next.left
      BY <2>2, <3>1, <3>2, <3>3
    <3> QED
      BY <1>1, <2>4, <3>4
  <2>5. ASSUME NEW e, Goes(m, ends(e)) PROVE OrderInv'
    <3>1. ends(e).left = mig[m].left /\ ends(e).build = mig[m].build
      BY <2>0 DEF MigRuns
    <3> QED
      BY <1>2, <2>5, <3>1
  <2> QED
    BY ZenonT(60), <2>3, <2>4, <2>5
<1>5. ASSUME NEW m \in Migrators,
             AcquireLock(m) \/ ReadApplied(m) \/ Migrated(m) \/ Unlock(m) \/ SessionEnds(m)
               \/ StatementFails(m) \/ Dies(m)
      PROVE  OrderInv'
  <2>0. mig[m] \in MigRuns
    BY DEF MigrateTypeOK
  <2>1. PICK r : /\ Goes(m, r)
                 /\ \/ r = [mig[m] EXCEPT !.pc = "read"]
                    \/ r = [mig[m] EXCEPT !.pc = "apply", !.seen = applied]
                    \/ r = [mig[m] EXCEPT !.pc = "unlock", !.result = "ok"]
                    \/ r = [mig[m] EXCEPT !.pc = "unlock", !.result = "interrupted"]
                    \/ r = [mig[m] EXCEPT !.pc = "orphan", !.result = "interrupted",
                                          !.left = IF At(m, "apply") THEN @ ELSE {}]
                    \/ r = [NoRun EXCEPT !.result = mig[m].result, !.build = mig[m].build]
                    \/ r = [NoRun EXCEPT !.result = "interrupted"]
    BY <1>5 DEF AcquireLock, ReadApplied, Migrated, Unlock, SessionEnds, StatementFails, Dies, Ends
  <2>2. \/ r.build = mig[m].build /\ (r.left = mig[m].left \/ r.left = {})
        \/ r.left = {}
    BY <2>0, <2>1 DEF MigRuns, NoRun
  <2> QED
    BY <1>1, <1>2, <2>1, <2>2
<1>6. CASE UNCHANGED migrateVars
  BY <1>6 DEF migrateVars, OrderInv
<1> QED
  BY <1>3, <1>4, <1>5, <1>6 DEF MigrateNext, MigrateStep

LEMMA AppliesInOrder ==
    ASSUME MigrateTypeOK, MigrateInv, OrderInv, [MigrateNext]_migrateVars,
           NEW v \in (DOMAIN objects') \ DOMAIN objects
    PROVE  \E m \in Migrators :
             LET build == mig[m].build
             IN  /\ lock = m
                 /\ v \in DOMAIN build /\ objects'[v] = build[v]
                 /\ \A u \in DOMAIN build :
                      u < v => u \in DOMAIN objects /\ objects[u] = build[u]
<1>1. PICK m \in Migrators : /\ MigrateOne(m) \/ SessionEnds(m)
                             /\ objects' # objects
  BY DEF MigrateNext, MigrateStep, InitDB, AcquireLock, ReadApplied, Migrated, Unlock,
         StatementFails, Dies, migrateVars
<1>2. /\ mig[m] \in MigRuns /\ mig[m].left \in SUBSET Versions
      /\ mig[m].left \subseteq DOMAIN mig[m].build
  BY DEF MigrateTypeOK, MigRuns
<1>3. /\ mig[m].pc \in {"apply", "orphan"} /\ mig[m].left # {}
      /\ Following(m) \in mig[m].left
      /\ objects' = With(objects, m, Following(m))
  <2>1. CASE MigrateOne(m)
    BY <1>1, <1>2, <2>1, NextVersion DEF MigrateOne, At, Following
  <2>2. CASE SessionEnds(m)
    BY <1>1, <2>2 DEF SessionEnds, At
  <2> QED
    BY <1>1, <2>1, <2>2
<1>4. v = Following(m) /\ objects'[v] = mig[m].build[v] /\ v \in DOMAIN mig[m].build
  BY <1>2, <1>3 DEF With
<1>5. lock = m /\ InStep(mig[m])
  BY <1>3 DEF MigrateInv, RunInv, Holds
<1>6. ASSUME NEW u \in DOMAIN mig[m].build, u < v
      PROVE  u \in DOMAIN objects /\ objects[u] = mig[m].build[u]
  <2>1. u \notin mig[m].left
    <3>1. \A w \in mig[m].left : v <= w /\ w \in Nat /\ v \in Nat
      BY <1>2, <1>3, <1>4, NextIsLeast, MigrateConstants DEF Following
    <3> QED
      BY <1>6, <3>1
  <2> QED
    BY <1>5, <2>1 DEF InStep
<1> QED
  BY <1>4, <1>5, <1>6

\* A migration is applied only under the lock, to a schema the earlier files of
\* the same build made, whatever runs came before and wherever they died
\* (loadMigrations, Store.Migrate and applyMigration in store/postgres/migrate.go).
THEOREM InitAppliesInOrder == MigrateSpec => MigratesInOrder
<1>1. MigrateInit => OrderInv
  BY DEF MigrateInit, OrderInv, NoRun
<1>2. MigrateTypeOK /\ OrderInv /\ [MigrateNext]_migrateVars => OrderInv'
  BY OrderNext
<1>3. MigrateTypeOK /\ MigrateInv /\ OrderInv /\ [MigrateNext]_migrateVars
      => [\A v \in (DOMAIN objects') \ DOMAIN objects :
            \E m \in Migrators :
               LET build == mig[m].build
               IN  /\ lock = m
                   /\ v \in DOMAIN build /\ objects'[v] = build[v]
                   /\ \A u \in DOMAIN build :
                        u < v => u \in DOMAIN objects /\ objects[u] = build[u]]_migrateVars
  BY AppliesInOrder
<1> QED
  BY <1>1, <1>2, <1>3, MigrateTypeCorrect, MigrateInvariant, PTL DEF MigrateSpec, MigratesInOrder

\* No run of init-db fails because of another one, finished, dead or waiting.
THEOREM NoInitFails == MigrateSpec => []InitNeverFails
<1>1. MigrateInv => InitNeverFails
  BY DEF MigrateInv, RunInv, InitNeverFails, At
<1> QED
  BY <1>1, MigrateInvariant, PTL

\* A run that reports success has its build's schema in place.
THEOREM InitKeepsPromise == MigrateSpec => []InitDelivers
<1>1. MigrateInv => InitDelivers
  BY DEF MigrateInv, RunInv, InitDelivers, At
<1> QED
  BY <1>1, MigrateInvariant, PTL

=============================================================================
