---------------------------- MODULE CommandsProofs ----------------------------
(***************************************************************************)
(* Theorems about Commands: for every set of daemons, operators and         *)
(* profiles, every number of resources and of failures.                     *)
(***************************************************************************)
EXTENDS Commands, TLAPS

-----------------------------------------------------------------------------
(* Type correctness.                                                        *)

Tables == [Profiles -> [Resources -> BOOLEAN]]
Healths == [success : 0..2, error : 0..2]

LEMMA JobTyped ==
    ASSUME NEW op \in {"none", "backfill", "sync", "reconcile", "daemon"},
           NEW pc \in {"idle", "import", "pass", "reconcile", "sleep"}, NEW f \in Profiles
    PROVE  /\ Job(op, pc, f) \in Jobs
           /\ Job(op, pc, f).op = op /\ Job(op, pc, f).pc = pc /\ Job(op, pc, f).profile = f
           /\ Job(op, pc, f).at = 1 /\ Job(op, pc, f).served = {}
           /\ Job(op, pc, f).reconcile = "none"
BY CommandsConstants DEF Job, Jobs, Resources

LEMMA RowsTyped ==
    ASSUME CommandsTypeOK, NEW f \in Profiles, NEW r \in Resources
    PROVE  /\ Rows(f, r) \subseteq Tables
           /\ ReconciledRows(f, r) \subseteq Tables
<1>1. ASSUME NEW h \in Rows(f, r) PROVE h \in Tables
  <2>1. PICK b \in BOOLEAN : h = [held EXCEPT ![f][r] = b]
    BY DEF Rows
  <2>2. held \in Tables
    BY DEF CommandsTypeOK, Tables
  <2>3. [held[f] EXCEPT ![r] = b] \in [Resources -> BOOLEAN]
    BY <2>2 DEF Tables
  <2> QED
    BY <2>1, <2>2, <2>3 DEF Tables
<1>2. ASSUME NEW h \in Rows(f, r)
      PROVE  [g \in Profiles |-> IF g \in Purged(f, r) THEN [h[g] EXCEPT ![r] = FALSE] ELSE h[g]]
               \in Tables
  BY <1>1 DEF Tables
<1> QED
  BY <1>1, <1>2 DEF ReconciledRows

LEMMA WritesTyped ==
    ASSUME CommandsTypeOK, NEW f \in Profiles, NEW r \in Resources, NEW c \in Cursors,
           NEW h \in Tables, NEW a \in 0..Every, Writes(f, r, c, h, a)
    PROVE  /\ cursor' \in [Profiles -> [Resources -> Cursors]]
           /\ held' \in Tables
           /\ age' \in [Profiles -> [Resources -> 0..Every]]
BY DEF CommandsTypeOK, Writes

TablesTyped ==
    /\ cursor \in [Profiles -> [Resources -> Cursors]]
    /\ held \in Tables
    /\ age \in [Profiles -> [Resources -> 0..Every]]

\* What a step of one process does to it: the job it is at, how its last one
\* ended, and its health.
Moves(p) ==
    /\ \E j \in Jobs : Goes(p, j)
    /\ UNCHANGED last \/ \E e \in Endings : last' = [last EXCEPT ![p] = e]
    /\ UNCHANGED health \/ \E h \in Healths : Records(p, h)

LEMMA MovesTyped ==
    ASSUME CommandsTypeOK, NEW p \in Procs, Moves(p), TablesTyped',
           UNCHANGED ready, UNCHANGED faults \/ Fault
    PROVE  CommandsTypeOK'
<1>1. job' \in [Procs -> Jobs]
  BY DEF Moves, Goes, CommandsTypeOK
<1>2. last' \in [Procs -> Endings]
  BY DEF Moves, CommandsTypeOK
<1>3. health' \in [Units -> Healths]
  BY DEF Moves, Records, CommandsTypeOK, Healths
<1>4. faults' \in 0..MaxFaults
  BY CommandsConstants DEF Fault, CommandsTypeOK
<1> QED
  BY <1>1, <1>2, <1>3, <1>4 DEF CommandsTypeOK, TablesTyped, Tables, Healths

LEMMA VerdictsTyped ==
    ASSUME NEW h
    PROVE  RecordSuccess(h) \in Healths /\ RecordFailure(h) \in Healths /\ NoHealth \in Healths
BY DEF RecordSuccess, RecordFailure, NoHealth, Healths

LEMMA ExitsMoves ==
    ASSUME CommandsTypeOK, NEW p \in Procs, NEW e \in Endings, Exits(p, e)
    PROVE  /\ \E j \in Jobs : Goes(p, j)
           /\ last' = [last EXCEPT ![p] = e]
BY JobTyped DEF Exits, CommandsTypeOK, Jobs

LEMMA AsleepTyped ==
    ASSUME NEW j \in Jobs
    PROVE  /\ Asleep(j) \in Jobs
           /\ Asleep(j).pc = "sleep" /\ Asleep(j).op = j.op
           /\ Asleep(j).served = j.served /\ Asleep(j).reconcile = j.reconcile
<1>1. PICK k : k = [j EXCEPT !.pc = "sleep", !.at = 1]
  OBVIOUS
<1>2. 1 \in Resources
  BY CommandsConstants DEF Resources
<1>3. /\ k \in Jobs
      /\ k.pc = "sleep" /\ k.op = j.op
      /\ k.served = j.served /\ k.reconcile = j.reconcile
  BY <1>1, <1>2 DEF Jobs
<1> QED
  BY <1>1, <1>3 DEF Asleep

LEMMA AsleepAfter ==
    ASSUME NEW j \in Jobs, NEW x \in {"done", "failed"}
    PROVE  LET a == [Asleep(j) EXCEPT !.reconcile = x] IN
           a \in Jobs /\ a.pc = "sleep" /\ a.op = j.op /\ a.served = j.served /\ a.reconcile = x
BY AsleepTyped DEF Jobs

LEMMA ReconcilingTyped ==
    ASSUME NEW j \in Jobs
    PROVE  LET a == [j EXCEPT !.pc = "reconcile", !.at = 1] IN
           /\ a \in Jobs
           /\ a.pc = "reconcile" /\ a.op = j.op /\ a.served = j.served /\ a.reconcile = j.reconcile
<1>1. 1 \in Resources
  BY CommandsConstants DEF Resources
<1> QED
  BY <1>1 DEF Jobs

LEMMA FlagsTyped ==
    ASSUME NEW j \in Jobs, NEW force \in BOOLEAN, NEW capped \in BOOLEAN
    PROVE  LET a == [j EXCEPT !.force = force, !.capped = capped] IN
           /\ a \in Jobs
           /\ a.pc = j.pc /\ a.op = j.op /\ a.at = j.at /\ a.served = j.served
           /\ a.reconcile = j.reconcile /\ a.profile = j.profile
BY DEF Jobs

\* The next resource of a job.
LEMMA AdvancedTyped ==
    ASSUME NEW j \in Jobs, j.at < NumResources
    PROVE  LET a == [j EXCEPT !.at = @ + 1] IN
           /\ a \in Jobs
           /\ a.pc = j.pc /\ a.op = j.op /\ a.at = j.at + 1 /\ a.served = j.served
           /\ a.reconcile = j.reconcile /\ a.profile = j.profile /\ a.capped = j.capped
BY CommandsConstants DEF Jobs, Resources

LEMMA NextResourceMoves ==
    ASSUME CommandsTypeOK, NEW p \in Procs, NextResource(p), UNCHANGED health
    PROVE  Moves(p)
<1>1. job[p] \in Jobs
  BY DEF CommandsTypeOK
<1>2. CASE job[p].at < NumResources
  BY <1>1, <1>2, AdvancedTyped DEF NextResource, Moves
<1>3. CASE ~(job[p].at < NumResources)
  BY <1>3, ExitsMoves DEF NextResource, Moves, Endings
<1> QED
  BY <1>2, <1>3

LEMMA BackfillTyped ==
    ASSUME CommandsTypeOK, NEW o \in Procs,
           BackfillRefused(o) \/ BackfillResource(o) \/ BackfillFails(o)
    PROVE  CommandsTypeOK'
<1>1. job[o] \in Jobs /\ job[o].profile \in Profiles /\ job[o].at \in Resources
  BY DEF CommandsTypeOK, Jobs
<1>2. CASE BackfillRefused(o)
  <2>1. Moves(o)
    BY <1>2, ExitsMoves DEF BackfillRefused, StopsAtRefused, Moves, Endings
  <2>2. TablesTyped'
    BY <1>2 DEF BackfillRefused, WritesNothing, TablesTyped, Tables, CommandsTypeOK
  <2> QED
    BY <1>2, <2>1, <2>2, MovesTyped DEF BackfillRefused
<1>a. age[job[o].profile][job[o].at] \in 0..Every /\ cursor[job[o].profile][job[o].at] \in Cursors
  BY <1>1 DEF CommandsTypeOK
<1>3. CASE BackfillResource(o)
  <2>1. Moves(o)
    BY <1>3, NextResourceMoves DEF BackfillResource
  <2>2. PICK h \in Rows(job[o].profile, job[o].at), c \in {"complete", "importing"} :
           Writes(job[o].profile, job[o].at, c, h, age[job[o].profile][job[o].at])
    BY <1>3 DEF BackfillResource, AfterBackfill
  <2>3. TablesTyped'
    BY <1>1, <1>a, <2>2, RowsTyped, WritesTyped DEF TablesTyped, Cursors
  <2> QED
    BY <1>3, <2>1, <2>3, MovesTyped DEF BackfillResource
<1>4. CASE BackfillFails(o)
  <2>1. Moves(o)
    BY SMTT(40), <1>4, ExitsMoves DEF BackfillFails, Moves, Endings
  <2>2. TablesTyped'
    <3>1. CASE WritesNothing
      BY <3>1 DEF WritesNothing, TablesTyped, Tables, CommandsTypeOK
    <3>2. CASE \E h \in Rows(job[o].profile, job[o].at),
                  c \in {cursor[job[o].profile][job[o].at], "importing", "unfinished"} :
                 Writes(job[o].profile, job[o].at, c, h, age[job[o].profile][job[o].at])
      BY <1>1, <1>a, <3>2, RowsTyped, WritesTyped DEF TablesTyped, Cursors
    <3> QED
      BY <1>4, <3>1, <3>2 DEF BackfillFails, AfterFailedBackfill
  <2> QED
    BY <1>4, <2>1, <2>2, MovesTyped DEF BackfillFails
<1> QED
  BY <1>2, <1>3, <1>4

LEMMA SyncTyped ==
    ASSUME CommandsTypeOK, NEW p \in Procs, SyncResource(p) \/ SyncFails(p)
    PROVE  CommandsTypeOK'
<1>1. job[p] \in Jobs /\ job[p].profile \in Profiles /\ job[p].at \in Resources
  BY DEF CommandsTypeOK, Jobs
<1>a. age[job[p].profile][job[p].at] \in 0..Every
  BY <1>1 DEF CommandsTypeOK
<1>2. CASE SyncResource(p)
  <2>1. PICK j : j = [job[p] EXCEPT !.served = @ \cup {job[p].at}]
    OBVIOUS
  <2>2. j \in Jobs /\ j.at = job[p].at
    BY <1>1, <2>1 DEF Jobs
  <2>3. Moves(p)
    <3>1. CASE job[p].at < NumResources
      BY <1>2, <2>1, <2>2, <3>1, AdvancedTyped DEF SyncResource, Moves
    <3>2. CASE ~(job[p].at < NumResources) /\ job[p].op = "daemon"
      <4>1. PassSucceeds(p, j)
        BY <1>2, <2>1, <3>2 DEF SyncResource
      <4>2. [j EXCEPT !.pc = "reconcile", !.at = 1] \in Jobs /\ Asleep(j) \in Jobs
        BY <2>2, AsleepTyped, ReconcilingTyped
      <4> QED
        BY <4>1, <4>2, VerdictsTyped DEF PassSucceeds, Moves
    <3>3. CASE ~(job[p].at < NumResources) /\ job[p].op # "daemon"
      BY <1>2, <3>3, ExitsMoves DEF SyncResource, Moves, Endings
    <3> QED
      BY <3>1, <3>2, <3>3
  <2>4. PICK h \in Rows(job[p].profile, job[p].at) :
           Writes(job[p].profile, job[p].at, "complete", h, age[job[p].profile][job[p].at])
    BY <1>2 DEF SyncResource
  <2>5. TablesTyped'
    BY <1>1, <1>a, <2>4, RowsTyped, WritesTyped DEF TablesTyped, Cursors
  <2> QED
    BY <1>2, <2>3, <2>5, MovesTyped DEF SyncResource
<1>3. CASE SyncFails(p)
  <2>1. PICK e \in Errors \cup {"required"} :
          /\ UNCHANGED faults \/ Fault
          /\ \/ WritesNothing
             \/ \E h \in Rows(job[p].profile, job[p].at) :
                  Writes(job[p].profile, job[p].at, "complete", h, age[job[p].profile][job[p].at])
          /\ IF job[p].op = "daemon" THEN PassFails(p, e)
             ELSE Exits(p, IF e = "timeout" THEN "failed" ELSE e) /\ UNCHANGED health
    BY <1>3 DEF SyncFails
  <2>2. TablesTyped'
    <3>1. CASE WritesNothing
      BY <3>1 DEF WritesNothing, TablesTyped, Tables, CommandsTypeOK
    <3>2. CASE \E h \in Rows(job[p].profile, job[p].at) :
                 Writes(job[p].profile, job[p].at, "complete", h, age[job[p].profile][job[p].at])
      BY <1>1, <1>a, <3>2, RowsTyped, WritesTyped DEF TablesTyped, Cursors
    <3> QED
      BY <2>1, <3>1, <3>2
  <2>3. Moves(p)
    <3>1. CASE job[p].op # "daemon"
      BY <2>1, <3>1, ExitsMoves DEF Moves, Endings, Errors
    <3>2. CASE job[p].op = "daemon" /\ e = "timeout"
      BY <2>1, <3>2, ExitsMoves DEF PassFails, Moves, Endings
    <3>3. CASE job[p].op = "daemon" /\ e = "failed"
      BY <1>1, <2>1, <3>3, AsleepTyped, VerdictsTyped DEF PassFails, Moves
    <3>4. CASE job[p].op = "daemon" /\ e \in {"circuit", "required"}
      BY <2>1, <3>4, ExitsMoves, VerdictsTyped DEF PassFails, Moves, Endings
    <3> QED
      BY <3>1, <3>2, <3>3, <3>4 DEF Errors
  <2> QED
    BY <1>3, <2>1, <2>2, <2>3, MovesTyped DEF SyncFails
<1> QED
  BY <1>2, <1>3

LEMMA ReconcileTyped ==
    ASSUME CommandsTypeOK, NEW p \in Procs, ReconcileResource(p) \/ ReconcileFails(p)
    PROVE  CommandsTypeOK'
<1>1. job[p] \in Jobs /\ job[p].profile \in Profiles /\ job[p].at \in Resources
  BY DEF CommandsTypeOK, Jobs
<1>a. age[job[p].profile][job[p].at] \in 0..Every
  BY <1>1 DEF CommandsTypeOK
<1>2. CASE ReconcileResource(p)
  <2>1. Moves(p)
    <3>1. CASE job[p].at < NumResources
      BY <1>1, <1>2, <3>1, AdvancedTyped DEF ReconcileResource, Moves
    <3>2. CASE ~(job[p].at < NumResources) /\ job[p].op = "daemon"
      BY <1>1, <1>2, <3>2, AsleepAfter DEF ReconcileResource, Moves
    <3>3. CASE ~(job[p].at < NumResources) /\ job[p].op # "daemon"
      BY <1>2, <3>3, ExitsMoves DEF ReconcileResource, Moves, Endings
    <3> QED
      BY <3>1, <3>2, <3>3
  <2>2. PICK h \in ReconciledRows(job[p].profile, job[p].at) :
           Writes(job[p].profile, job[p].at, "complete", h, 0)
    BY <1>2 DEF ReconcileResource
  <2>3. TablesTyped'
    BY <1>1, <2>2, RowsTyped, WritesTyped, CommandsConstants DEF TablesTyped, Cursors
  <2> QED
    BY <1>2, <2>1, <2>3, MovesTyped DEF ReconcileResource
<1>3. CASE ReconcileFails(p)
  <2>1. PICK e \in Errors \cup {"required"} :
          /\ UNCHANGED faults \/ Fault
          /\ \/ WritesNothing
             \/ \E h \in ReconciledRows(job[p].profile, job[p].at) \cup
                          Rows(job[p].profile, job[p].at) :
                  Writes(job[p].profile, job[p].at, "complete", h, age[job[p].profile][job[p].at])
          /\ IF job[p].op = "daemon" THEN ReconcileFailed(p, e)
             ELSE Exits(p, IF e = "timeout" THEN "failed" ELSE e) /\ UNCHANGED health
    BY <1>3 DEF ReconcileFails
  <2>2. TablesTyped'
    <3>1. CASE WritesNothing
      BY <3>1 DEF WritesNothing, TablesTyped, Tables, CommandsTypeOK
    <3>2. CASE \E h \in ReconciledRows(job[p].profile, job[p].at) \cup
                          Rows(job[p].profile, job[p].at) :
                 Writes(job[p].profile, job[p].at, "complete", h, age[job[p].profile][job[p].at])
      BY <1>1, <1>a, <3>2, RowsTyped, WritesTyped DEF TablesTyped, Cursors
    <3> QED
      BY <2>1, <3>1, <3>2
  <2>3. Moves(p)
    <3>1. CASE job[p].op # "daemon"
      BY <2>1, <3>1, ExitsMoves DEF Moves, Endings, Errors
    <3>2. CASE job[p].op = "daemon" /\ e = "circuit"
      BY <2>1, <3>2, ExitsMoves, VerdictsTyped DEF ReconcileFailed, Moves, Endings
    <3>3. CASE job[p].op = "daemon" /\ e # "circuit"
      BY <1>1, <2>1, <3>3, AsleepAfter, VerdictsTyped DEF ReconcileFailed, Moves
    <3> QED
      BY <3>1, <3>2, <3>3
  <2> QED
    BY <1>3, <2>1, <2>2, <2>3, MovesTyped DEF ReconcileFails
<1> QED
  BY <1>2, <1>3

\* A command that starts, or a daemon that wakes up.
LEMMA StartsTyped ==
    ASSUME CommandsTypeOK, NEW p \in Procs, NEW j \in Jobs, Goes(p, j),
           UNCHANGED <<ready, cursor, held, age, last>>,
           UNCHANGED health \/ Records(p, NoHealth),
           UNCHANGED faults \/ Fault
    PROVE  CommandsTypeOK'
<1>1. Moves(p)
  BY VerdictsTyped DEF Moves
<1>2. TablesTyped'
  BY DEF TablesTyped, Tables, CommandsTypeOK
<1> QED
  BY <1>1, <1>2, MovesTyped

LEMMA OperatorStartsTyped ==
    ASSUME CommandsTypeOK, NEW o \in Operators, NEW f \in Profiles,
           RepeatBackfill(o, f) \/ FancyBackfill(o, f) \/ StartCommand(o, f)
    PROVE  CommandsTypeOK'
<1>0. o \in Procs
  BY DEF Procs
<1>1. ASSUME NEW force \in BOOLEAN, NEW capped \in BOOLEAN, StartBackfill(o, f, force, capped),
             UNCHANGED faults \/ Fault
      PROVE  CommandsTypeOK'
  <2> DEFINE j == [Job("backfill", "import", f) EXCEPT !.force = force, !.capped = capped]
  <2>1. j \in Jobs
    <3>1. Job("backfill", "import", f) \in Jobs
      BY JobTyped
    <3> QED
      BY <3>1, FlagsTyped
  <2>2. Goes(o, j) /\ UNCHANGED <<ready, cursor, held, age, last, health>>
    BY <1>1 DEF StartBackfill
  <2> HIDE DEF j
  <2> QED
    BY <1>0, <1>1, <2>1, <2>2, StartsTyped
<1>2. CASE RepeatBackfill(o, f)
  <2>1. Refused(f, 1, FALSE) \in BOOLEAN
    BY DEF Refused
  <2> QED
    BY <1>1, <1>2, <2>1 DEF RepeatBackfill
<1>3. CASE FancyBackfill(o, f)
  BY <1>1, <1>3 DEF FancyBackfill
<1>4. CASE StartCommand(o, f)
  <2>1. Job("sync", "pass", f) \in Jobs /\ Job("reconcile", "reconcile", f) \in Jobs
    BY JobTyped
  <2> QED
    BY <1>0, <1>4, <2>1, StartsTyped DEF StartCommand
<1> QED
  BY <1>2, <1>3, <1>4

LEMMA CommandsInitTyped == CommandsInit => CommandsTypeOK
<1> SUFFICES ASSUME CommandsInit PROVE CommandsTypeOK
  OBVIOUS
<1>1. job \in [Procs -> Jobs]
  BY JobTyped DEF CommandsInit
<1>2. health \in [Units -> Healths]
  BY VerdictsTyped DEF CommandsInit
<1>3. /\ ready \in BOOLEAN
      /\ cursor \in [Profiles -> [Resources -> Cursors]]
      /\ held \in [Profiles -> [Resources -> BOOLEAN]]
  BY DEF CommandsInit, Cursors
<1>4. age \in [Profiles -> [Resources -> 0..Every]] /\ faults \in 0..MaxFaults
  BY CommandsConstants DEF CommandsInit
<1>5. last \in [Procs -> Endings]
  BY DEF CommandsInit, Endings
<1> QED
  BY <1>1, <1>2, <1>3, <1>4, <1>5 DEF CommandsTypeOK, Healths

LEMMA CommandsNextTyped == CommandsTypeOK /\ [CommandsNext]_cvars => CommandsTypeOK'
<1> SUFFICES ASSUME CommandsTypeOK, [CommandsNext]_cvars PROVE CommandsTypeOK'
  OBVIOUS
<1>1. CASE InitDB
  BY <1>1 DEF InitDB, CommandsTypeOK
<1>2. CASE Tick
  <2>1. \A n \in 0..Every : Older(n) \in 0..Every
    BY CommandsConstants DEF Older
  <2> QED
    BY <1>2, <2>1 DEF Tick, CommandsTypeOK
<1>3. ASSUME NEW p \in Procs, Step(p) PROVE CommandsTypeOK'
  <2>1. CASE Wake(p)
    <3>1. Job("daemon", "pass", job[p].profile) \in Jobs
      BY JobTyped DEF CommandsTypeOK, Jobs
    <3> QED
      BY <2>1, <3>1, StartsTyped DEF Wake
  <2> QED
    BY <1>3, <2>1, BackfillTyped, SyncTyped, ReconcileTyped DEF Step
<1>4. ASSUME NEW p \in Procs, Cancel(p) PROVE CommandsTypeOK'
  <2>1. Moves(p)
    BY <1>4, ExitsMoves DEF Cancel, Moves, Endings
  <2>2. TablesTyped'
    BY <1>4 DEF Cancel, TablesTyped, Tables, CommandsTypeOK
  <2> QED
    BY <1>4, <2>1, <2>2, MovesTyped DEF Cancel
<1>5. ASSUME NEW u \in Units, NEW f \in Profiles, StartDaemon(u, f) PROVE CommandsTypeOK'
  BY <1>5, JobTyped, StartsTyped DEF StartDaemon, Procs
<1>6. ASSUME NEW u \in Units, Restart(u) PROVE CommandsTypeOK'
  <2>1. Job("daemon", "pass", job[u].profile) \in Jobs
    BY JobTyped DEF CommandsTypeOK, Jobs, Procs
  <2> QED
    BY <1>6, <2>1, StartsTyped DEF Restart, Procs
<1>7. CASE UNCHANGED cvars
  BY <1>7 DEF cvars, CommandsTypeOK
<1> QED
  BY <1>1, <1>2, <1>3, <1>4, <1>5, <1>6, <1>7, OperatorStartsTyped DEF CommandsNext

\* Commands keeps its variables typed.
THEOREM CommandsTypeCorrect == CommandsSpec => []CommandsTypeOK
BY CommandsInitTyped, CommandsNextTyped, PTL DEF CommandsSpec

-----------------------------------------------------------------------------
(* The endpoint.  What ties the verdict to the pass is what the job has     *)
(* recorded of the pass so far.                                             *)

\* A daemon at its reconcile has served every resource and recorded that.
UnitInv(j, h) ==
    /\ j.pc \in {"pass", "reconcile", "sleep"} => j.op = "daemon"
    /\ j.pc # "import"
    /\ j.pc = "pass" => j.served = 1..(j.at - 1) /\ j.reconcile = "none"
    /\ j.pc = "reconcile" => j.served = Resources /\ j.reconcile = "none" /\ Healthy(h)
    /\ j.pc = "sleep" => (Healthy(h) <=> j.served = Resources /\ j.reconcile # "failed")

HealthInv ==
    /\ \A u \in Units : UnitInv(job[u], health[u])
    /\ \A o \in Operators : job[o].op # "daemon" /\ job[o].pc # "sleep"

LEMMA Verdicts ==
    ASSUME NEW h \in Healths
    PROVE  Healthy(RecordSuccess(h)) /\ ~Healthy(RecordFailure(h))
BY DEF Healthy, RecordSuccess, RecordFailure, Healths

LEMMA FreshUnit ==
    ASSUME NEW f \in Profiles, NEW h
    PROVE  UnitInv(Job("none", "idle", f), h) /\ UnitInv(Job("daemon", "pass", f), h)
<1>1. 1..(1 - 1) = {}
  OBVIOUS
<1>2. UnitInv(Job("none", "idle", f), h)
  <2>1. Job("none", "idle", f).pc = "idle"
    BY JobTyped
  <2> QED
    BY <2>1 DEF UnitInv
<1>3. UnitInv(Job("daemon", "pass", f), h)
  <2> DEFINE j == Job("daemon", "pass", f)
  <2>1. j.op = "daemon" /\ j.pc = "pass" /\ j.at = 1 /\ j.served = {} /\ j.reconcile = "none"
    BY JobTyped
  <2> HIDE DEF j
  <2>2. j.served = 1..(j.at - 1)
    BY <2>1
  <2>3. UnitInv(j, h)
    BY <2>1, <2>2 DEF UnitInv
  <2> QED
    BY <2>3 DEF j
<1> QED
  BY <1>2, <1>3

LEMMA UnitKeeps ==
    ASSUME CommandsTypeOK, HealthInv, NEW u \in Units, NEW j, NEW h, Goes(u, j), UnitInv(j, h),
           (h = health[u] /\ UNCHANGED health) \/ Records(u, h)
    PROVE  HealthInv'
<1>1. u \in Procs /\ u \notin Operators /\ Operators \subseteq Procs /\ Units \subseteq Procs
  BY CommandsConstants DEF Procs
<1>2. job' = [job EXCEPT ![u] = j] /\ job \in [Procs -> Jobs]
  BY DEF Goes, CommandsTypeOK
<1>3. health'[u] = h /\ \A v \in Units \ {u} : health'[v] = health[v]
  BY DEF Records, CommandsTypeOK
<1>4. \A v \in Units : UnitInv(job[v], health[v])'
  <2> SUFFICES ASSUME NEW v \in Units PROVE UnitInv(job'[v], health'[v])
    BY DEF UnitInv, Healthy
  <2> QED
    BY <1>1, <1>2, <1>3 DEF HealthInv
<1>5. \A o \in Operators : job'[o].op # "daemon" /\ job'[o].pc # "sleep"
  BY <1>1, <1>2 DEF HealthInv
<1> QED
  BY <1>4, <1>5 DEF HealthInv

LEMMA OperatorKeeps ==
    ASSUME CommandsTypeOK, HealthInv, NEW o \in Operators, NEW j, Goes(o, j), j.op # "daemon",
           j.pc # "sleep", UNCHANGED health
    PROVE  HealthInv'
<1>1. o \in Procs /\ o \notin Units /\ Operators \subseteq Procs /\ Units \subseteq Procs
  BY CommandsConstants DEF Procs
<1>2. job' = [job EXCEPT ![o] = j] /\ job \in [Procs -> Jobs]
  BY DEF Goes, CommandsTypeOK
<1>3. \A v \in Units : UnitInv(job[v], health[v])'
  BY <1>1, <1>2 DEF HealthInv, UnitInv, Healthy
<1>4. \A i \in Operators : job'[i].op # "daemon" /\ job'[i].pc # "sleep"
  BY <1>1, <1>2 DEF HealthInv
<1> QED
  BY <1>3, <1>4 DEF HealthInv

\* A command that ends.
LEMMA ExitsKeeps ==
    ASSUME CommandsTypeOK, HealthInv, NEW p \in Procs, NEW e, Exits(p, e),
           UNCHANGED health \/ (p \in Units /\ \E h \in Healths : Records(p, h))
    PROVE  HealthInv'
<1>1. job[p].profile \in Profiles
  BY DEF CommandsTypeOK, Jobs
<1>2. Goes(p, Job("none", "idle", job[p].profile))
  BY DEF Exits
<1>3. CASE p \in Units
  BY <1>1, <1>2, <1>3, FreshUnit, UnitKeeps
<1>4. CASE p \in Operators
  <2>1. /\ Job("none", "idle", job[p].profile).op # "daemon"
        /\ Job("none", "idle", job[p].profile).pc # "sleep"
    BY <1>1, JobTyped
  <2>2. UNCHANGED health
    BY <1>4, CommandsConstants
  <2> QED
    BY <1>2, <1>4, <2>1, <2>2, OperatorKeeps
<1> QED
  BY <1>3, <1>4 DEF Procs

LEMMA NextResourceKeeps ==
    ASSUME CommandsTypeOK, HealthInv, NEW o \in Operators, NextResource(o), UNCHANGED health
    PROVE  HealthInv'
<1>1. o \in Procs /\ job[o] \in Jobs /\ job[o].op # "daemon" /\ job[o].pc # "sleep"
  BY DEF Procs, CommandsTypeOK, HealthInv
<1>2. CASE job[o].at < NumResources
  BY <1>1, <1>2, AdvancedTyped, OperatorKeeps DEF NextResource
<1>3. CASE ~(job[o].at < NumResources)
  BY <1>1, <1>3, ExitsKeeps DEF NextResource
<1> QED
  BY <1>2, <1>3

LEMMA UnitState ==
    ASSUME CommandsTypeOK, HealthInv, NEW u \in Units
    PROVE  /\ u \in Procs /\ job[u] \in Jobs /\ job[u].at \in Resources
           /\ job[u].profile \in Profiles
           /\ health[u] \in Healths /\ UnitInv(job[u], health[u])
BY DEF Procs, CommandsTypeOK, HealthInv, Jobs, Healths

LEMMA SyncResourceKeeps ==
    ASSUME CommandsTypeOK, HealthInv, NEW p \in Procs, SyncResource(p)
    PROVE  HealthInv'
<1> DEFINE r == job[p].at
<1>1. PICK j : j = [job[p] EXCEPT !.served = @ \cup {r}]
  OBVIOUS
<1>2. job[p] \in Jobs /\ r \in Resources
  BY DEF CommandsTypeOK, Jobs
<1>3. /\ j \in Jobs /\ j.at = r /\ j.op = job[p].op /\ j.pc = job[p].pc
      /\ j.served = job[p].served \cup {r} /\ j.reconcile = job[p].reconcile
      /\ j.profile = job[p].profile
  BY <1>1, <1>2 DEF Jobs
<1>4. CASE r < NumResources
  <2>1. PICK a : a = [j EXCEPT !.at = @ + 1]
    OBVIOUS
  <2>2. /\ a.op = j.op /\ a.pc = j.pc /\ a.at = r + 1 /\ a.served = j.served
        /\ a.reconcile = j.reconcile
    BY <1>3, <1>4, <2>1, AdvancedTyped
  <2>3. Goes(p, a) /\ UNCHANGED health /\ job[p].pc = "pass"
    BY <1>1, <1>4, <2>1 DEF SyncResource, Running
  <2>4. CASE p \in Units
    <3>1. UnitInv(job[p], health[p])
      BY <2>4 DEF HealthInv
    <3>2. a.served = 1..(a.at - 1)
      BY <1>2, <1>3, <2>2, <2>3, <3>1 DEF UnitInv, Resources
    <3>3. UnitInv(a, health[p])
      BY <1>3, <2>2, <2>3, <3>1, <3>2 DEF UnitInv
    <3> QED
      BY <2>3, <2>4, <3>3, UnitKeeps
  <2>5. CASE p \in Operators
    <3>1. a.op # "daemon" /\ a.pc # "sleep"
      BY <1>3, <2>2, <2>3, <2>5 DEF HealthInv
    <3> QED
      BY <2>3, <2>5, <3>1, OperatorKeeps
  <2> QED
    BY <2>4, <2>5 DEF Procs
<1>5. CASE ~(r < NumResources) /\ job[p].op = "daemon"
  <2>1. p \in Units
    BY <1>5 DEF HealthInv, Procs
  <2>2. PassSucceeds(p, j) /\ job[p].pc = "pass"
    BY <1>1, <1>5 DEF SyncResource, Running
  <2>3. UnitInv(job[p], health[p]) /\ health[p] \in Healths
    BY <2>1, UnitState
  <2>4. j.served = Resources
    BY <1>2, <1>3, <1>5, <2>2, <2>3, CommandsConstants DEF UnitInv, Resources
  <2>5. PICK h : h = RecordSuccess(health[p])
    OBVIOUS
  <2>6. Healthy(h) /\ Records(p, h)
    BY <2>2, <2>3, <2>5, Verdicts DEF PassSucceeds
  <2>7. j.op = "daemon" /\ j.reconcile = "none"
    BY <1>3, <1>5, <2>2, <2>3 DEF UnitInv
  <2>8. PICK a : a = [j EXCEPT !.pc = "reconcile", !.at = 1]
    OBVIOUS
  <2>9. UnitInv(a, h)
    <3>1. a.pc = "reconcile" /\ a.op = j.op /\ a.served = j.served /\ a.reconcile = j.reconcile
      BY <1>3, <2>8, ReconcilingTyped
    <3> QED
      BY <2>4, <2>6, <2>7, <3>1 DEF UnitInv
  <2>10. UnitInv(Asleep(j), h)
    <3>1. /\ Asleep(j).pc = "sleep" /\ Asleep(j).op = j.op
          /\ Asleep(j).served = j.served /\ Asleep(j).reconcile = j.reconcile
      BY <1>3, AsleepTyped
    <3> QED
      BY <2>4, <2>6, <2>7, <3>1 DEF UnitInv
  <2>11. Goes(p, a) \/ Goes(p, Asleep(j))
    BY <2>2, <2>8 DEF PassSucceeds
  <2> QED
    BY <2>1, <2>6, <2>9, <2>10, <2>11, UnitKeeps
<1>6. CASE ~(r < NumResources) /\ job[p].op # "daemon"
  BY <1>6, ExitsKeeps DEF SyncResource
<1> QED
  BY <1>4, <1>5, <1>6

LEMMA SyncFailsKeeps ==
    ASSUME CommandsTypeOK, HealthInv, NEW p \in Procs, SyncFails(p)
    PROVE  HealthInv'
<1>1. job[p].pc = "pass"
  BY DEF SyncFails, Running
<1>2. PICK e \in Errors \cup {"required"} :
         IF job[p].op = "daemon" THEN PassFails(p, e)
         ELSE Exits(p, IF e = "timeout" THEN "failed" ELSE e) /\ UNCHANGED health
  BY DEF SyncFails
<1>3. CASE job[p].op # "daemon"
  BY <1>2, <1>3, ExitsKeeps
<1>4. CASE job[p].op = "daemon"
  <2>1. p \in Units
    BY <1>4 DEF HealthInv, Procs
  <2>2. UnitInv(job[p], health[p]) /\ health[p] \in Healths /\ job[p] \in Jobs /\ job[p].at \in Resources
    BY <2>1, UnitState
  <2>3. CASE e = "timeout"
    BY <1>2, <1>4, <2>3, ExitsKeeps DEF PassFails
  <2>4. PICK h : h = RecordFailure(health[p])
    OBVIOUS
  <2>5. ~Healthy(h) /\ h \in Healths
    BY <2>2, <2>4, Verdicts, VerdictsTyped
  <2>6. CASE e \in {"circuit", "required"}
    BY <1>2, <1>4, <2>1, <2>4, <2>5, <2>6, ExitsKeeps DEF PassFails
  <2>7. CASE e = "failed"
    <3>1. Records(p, h) /\ Goes(p, Asleep(job[p]))
      BY <1>2, <1>4, <2>4, <2>7 DEF PassFails
    <3>2. job[p].served # Resources
      BY <1>1, <2>2, CommandsConstants DEF UnitInv, Resources
    <3>3. /\ Asleep(job[p]).pc = "sleep" /\ Asleep(job[p]).op = "daemon"
          /\ Asleep(job[p]).served = job[p].served
      BY <1>4, <2>2, AsleepTyped
    <3>4. UnitInv(Asleep(job[p]), h)
      BY <2>5, <3>2, <3>3 DEF UnitInv
    <3> QED
      BY <2>1, <3>1, <3>4, UnitKeeps
  <2> QED
    BY <2>3, <2>6, <2>7 DEF Errors
<1> QED
  BY <1>3, <1>4

LEMMA ReconcileKeeps ==
    ASSUME CommandsTypeOK, HealthInv, NEW p \in Procs, ReconcileResource(p)
    PROVE  HealthInv'
<1>1. job[p].pc = "reconcile" /\ job[p] \in Jobs
  BY DEF ReconcileResource, Running, CommandsTypeOK
<1>2. CASE job[p].at < NumResources
  <2>1. PICK a : a = [job[p] EXCEPT !.at = @ + 1]
    OBVIOUS
  <2>2. /\ a.op = job[p].op /\ a.pc = "reconcile" /\ a.served = job[p].served
        /\ a.reconcile = job[p].reconcile
    BY <1>1, <1>2, <2>1, AdvancedTyped
  <2>3. Goes(p, a) /\ UNCHANGED health
    BY <1>2, <2>1 DEF ReconcileResource
  <2>4. CASE p \in Units
    <3>1. UnitInv(job[p], health[p])
      BY <2>4, UnitState
    <3>2. UnitInv(a, health[p])
      BY <1>1, <2>2, <3>1 DEF UnitInv
    <3> QED
      BY <2>3, <2>4, <3>2, UnitKeeps
  <2>5. CASE p \in Operators
    <3>1. a.op # "daemon" /\ a.pc # "sleep"
      BY <2>2, <2>5 DEF HealthInv
    <3> QED
      BY <2>3, <2>5, <3>1, OperatorKeeps
  <2> QED
    BY <2>4, <2>5 DEF Procs
<1>3. CASE ~(job[p].at < NumResources) /\ job[p].op = "daemon"
  <2>1. p \in Units
    BY <1>3 DEF HealthInv, Procs
  <2>2. UnitInv(job[p], health[p])
    BY <2>1, UnitState
  <2>3. PICK a : a = [Asleep(job[p]) EXCEPT !.reconcile = "done"]
    OBVIOUS
  <2>4. a.pc = "sleep" /\ a.op = "daemon" /\ a.served = job[p].served /\ a.reconcile = "done"
    BY <1>1, <1>3, <2>3, AsleepAfter
  <2>5. UnitInv(a, health[p])
    BY <1>1, <2>2, <2>4 DEF UnitInv
  <2>6. Goes(p, a) /\ UNCHANGED health
    BY <1>3, <2>3 DEF ReconcileResource
  <2> QED
    BY <2>1, <2>5, <2>6, UnitKeeps
<1>4. CASE ~(job[p].at < NumResources) /\ job[p].op # "daemon"
  BY <1>4, ExitsKeeps DEF ReconcileResource
<1> QED
  BY <1>2, <1>3, <1>4

LEMMA ReconcileFailsKeeps ==
    ASSUME CommandsTypeOK, HealthInv, NEW p \in Procs, ReconcileFails(p)
    PROVE  HealthInv'
<1>1. PICK e \in Errors \cup {"required"} :
         IF job[p].op = "daemon" THEN ReconcileFailed(p, e)
         ELSE Exits(p, IF e = "timeout" THEN "failed" ELSE e) /\ UNCHANGED health
  BY DEF ReconcileFails
<1>2. CASE job[p].op # "daemon"
  BY <1>1, <1>2, ExitsKeeps
<1>3. CASE job[p].op = "daemon"
  <2>1. p \in Units
    BY <1>3 DEF HealthInv, Procs
  <2>2. health[p] \in Healths /\ job[p] \in Jobs
    BY <2>1, UnitState
  <2>3. PICK h : h = RecordFailure(health[p])
    OBVIOUS
  <2>4. ~Healthy(h) /\ h \in Healths /\ Records(p, h)
    BY <1>1, <1>3, <2>2, <2>3, Verdicts, VerdictsTyped DEF ReconcileFailed
  <2>5. CASE e = "circuit"
    BY <1>1, <1>3, <2>1, <2>4, <2>5, ExitsKeeps DEF ReconcileFailed
  <2>6. CASE e # "circuit"
    <3>1. PICK a : a = [Asleep(job[p]) EXCEPT !.reconcile = "failed"]
      OBVIOUS
    <3>2. a.pc = "sleep" /\ a.op = "daemon" /\ a.reconcile = "failed"
      BY <1>3, <2>2, <3>1, AsleepAfter
    <3>3. Goes(p, a)
      BY <1>1, <1>3, <2>6, <3>1 DEF ReconcileFailed
    <3>4. UnitInv(a, h)
      BY <2>4, <3>2 DEF UnitInv
    <3> QED
      BY <2>1, <2>4, <3>3, <3>4, UnitKeeps
  <2> QED
    BY <2>5, <2>6
<1> QED
  BY <1>2, <1>3

\* A daemon that starts, restarts or wakes up.
LEMMA FreshPass ==
    ASSUME CommandsTypeOK, HealthInv, NEW u \in Units, NEW f \in Profiles,
           Goes(u, Job("daemon", "pass", f)), UNCHANGED health \/ Records(u, NoHealth)
    PROVE  HealthInv'
BY FreshUnit, UnitKeeps

LEMMA OperatorStartsKeeps ==
    ASSUME CommandsTypeOK, HealthInv, NEW o \in Operators, NEW f \in Profiles,
           RepeatBackfill(o, f) \/ FancyBackfill(o, f) \/ StartCommand(o, f)
    PROVE  HealthInv'
<1>1. ASSUME NEW force \in BOOLEAN, NEW capped \in BOOLEAN, StartBackfill(o, f, force, capped)
      PROVE  HealthInv'
  <2>1. PICK j : j = [Job("backfill", "import", f) EXCEPT !.force = force, !.capped = capped]
    OBVIOUS
  <2>2. j.op # "daemon" /\ j.pc # "sleep"
    <3>1. /\ Job("backfill", "import", f) \in Jobs
          /\ Job("backfill", "import", f).op = "backfill"
          /\ Job("backfill", "import", f).pc = "import"
      BY JobTyped
    <3> QED
      BY ZenonT(60), <2>1, <3>1, FlagsTyped
  <2>3. Goes(o, j) /\ UNCHANGED health
    BY <1>1, <2>1 DEF StartBackfill
  <2> QED
    BY <2>2, <2>3, OperatorKeeps
<1>2. CASE RepeatBackfill(o, f)
  BY <1>1, <1>2 DEF RepeatBackfill, Refused
<1>3. CASE FancyBackfill(o, f)
  BY <1>1, <1>3 DEF FancyBackfill
<1>4. CASE StartCommand(o, f)
  <2>1. /\ Job("sync", "pass", f).op # "daemon" /\ Job("sync", "pass", f).pc # "sleep"
        /\ Job("reconcile", "reconcile", f).op # "daemon"
        /\ Job("reconcile", "reconcile", f).pc # "sleep"
    BY JobTyped
  <2> QED
    BY <1>4, <2>1, OperatorKeeps DEF StartCommand
<1> QED
  BY <1>2, <1>3, <1>4

LEMMA HealthInit == CommandsInit => HealthInv
<1> SUFFICES ASSUME CommandsInit PROVE HealthInv
  OBVIOUS
<1>1. PICK f \in Profiles : job = [p \in Procs |-> Job("none", "idle", f)]
  BY DEF CommandsInit
<1>2. Job("none", "idle", f).op # "daemon" /\ Job("none", "idle", f).pc # "sleep"
  BY JobTyped
<1> QED
  BY <1>1, <1>2, FreshUnit DEF HealthInv, Procs

LEMMA HealthNext == CommandsTypeOK /\ HealthInv /\ [CommandsNext]_cvars => HealthInv'
<1> SUFFICES ASSUME CommandsTypeOK, HealthInv, [CommandsNext]_cvars PROVE HealthInv'
  OBVIOUS
<1>1. CASE UNCHANGED <<job, health>>
  BY <1>1 DEF HealthInv, UnitInv, Healthy
<1>2. ASSUME NEW p \in Procs, Step(p) PROVE HealthInv'
  <2>1. CASE BackfillRefused(p) \/ BackfillResource(p) \/ BackfillFails(p)
    <3>1. job[p].pc = "import"
      BY <2>1 DEF BackfillRefused, BackfillResource, BackfillFails, Running
    <3>2. p \in Operators
      BY <3>1 DEF HealthInv, UnitInv, Procs
    <3>3. CASE BackfillResource(p)
      BY <3>2, <3>3, NextResourceKeeps DEF BackfillResource
    <3>4. CASE BackfillRefused(p) \/ BackfillFails(p)
      BY <3>4, ExitsKeeps DEF BackfillRefused, BackfillFails, StopsAtRefused
    <3> QED
      BY <2>1, <3>3, <3>4
  <2>2. CASE Wake(p)
    <3>1. p \in Units \/ p \in Operators
      BY DEF Procs
    <3>2. CASE p \in Units
      BY <2>2, <3>2, UnitState, FreshPass DEF Wake
    <3>3. CASE p \in Operators
      BY <2>2, <3>3 DEF Wake, Running, HealthInv
    <3> QED
      BY <3>1, <3>2, <3>3
  <2> QED
    BY <1>2, <2>1, <2>2, SyncResourceKeeps, SyncFailsKeeps, ReconcileKeeps, ReconcileFailsKeeps
       DEF Step
<1>3. ASSUME NEW p \in Procs, Cancel(p) PROVE HealthInv'
  BY <1>3, ExitsKeeps DEF Cancel
<1>4. ASSUME NEW u \in Units, NEW f \in Profiles, StartDaemon(u, f) PROVE HealthInv'
  BY <1>4, FreshPass DEF StartDaemon
<1>5. ASSUME NEW u \in Units, Restart(u) PROVE HealthInv'
  BY <1>5, UnitState, FreshPass DEF Restart
<1> QED
  BY <1>1, <1>2, <1>3, <1>4, <1>5, OperatorStartsKeeps DEF CommandsNext, InitDB, Tick, cvars

\* Between two passes a daemon's endpoint is healthy exactly when the last pass
\* served every resource and its reconcile, if one was due, did not fail.
THEOREM EndpointTellsOutcome == CommandsSpec => []HealthTellsOutcome
<1>1. HealthInv => HealthTellsOutcome
  BY DEF HealthInv, UnitInv, HealthTellsOutcome, Running
<1> QED
  BY <1>1, CommandsInitTyped, CommandsNextTyped, HealthInit, HealthNext, PTL DEF CommandsSpec

-----------------------------------------------------------------------------
(* `backfill`, one operator at a time: two of them, one with --force, undo  *)
(* each other's imports.                                                    *)

ImportInv ==
    \A o \in Operators :
        job[o].pc = "import" =>
            /\ job[o].op = "backfill"
            /\ ~job[o].capped =>
                 \A r \in 1..(job[o].at - 1) : cursor[job[o].profile][r] = "complete"

CompletesKept ==
    \A f \in Profiles, r \in Resources : cursor[f][r] = "complete" => cursor'[f][r] = "complete"

LEMMA PassesKeepComplete ==
    ASSUME CommandsTypeOK, NEW p \in Procs,
           SyncResource(p) \/ SyncFails(p) \/ ReconcileResource(p) \/ ReconcileFails(p)
    PROVE  CompletesKept /\ job[p].pc # "import"
<1>1. UNCHANGED cursor \/ cursor' = [cursor EXCEPT ![job[p].profile][job[p].at] = "complete"]
  BY DEF SyncResource, SyncFails, ReconcileResource, ReconcileFails, Writes, WritesNothing
<1>2. job[p].profile \in Profiles /\ job[p].at \in Resources
  BY DEF CommandsTypeOK, Jobs
<1>3. CompletesKept
  <2>1. CASE UNCHANGED cursor
    BY <2>1 DEF CompletesKept
  <2>2. CASE cursor' = [cursor EXCEPT ![job[p].profile][job[p].at] = "complete"]
    <3> SUFFICES ASSUME NEW f \in Profiles, NEW r \in Resources, cursor[f][r] = "complete"
                 PROVE  cursor'[f][r] = "complete"
      BY DEF CompletesKept
    <3>1. cursor \in [Profiles -> [Resources -> Cursors]]
      BY DEF CommandsTypeOK
    <3>2. cursor'[f] = IF f = job[p].profile
                       THEN [cursor[f] EXCEPT ![job[p].at] = "complete"] ELSE cursor[f]
      BY SMTT(40), <1>2, <2>2, <3>1
    <3> QED
      BY <3>1, <3>2
  <2> QED
    BY <1>1, <2>1, <2>2
<1>4. job[p].pc # "import"
  BY DEF SyncResource, SyncFails, ReconcileResource, ReconcileFails, Running
<1> QED
  BY <1>3, <1>4

\* What another process leaves of an operator's import.
LEMMA ImportKept ==
    ASSUME CommandsTypeOK, ImportInv, CompletesKept, NEW o \in Operators, job'[o] = job[o],
           job[o].pc = "import"
    PROVE  /\ job'[o].op = "backfill"
           /\ ~job'[o].capped =>
                \A r \in 1..(job'[o].at - 1) : cursor'[job'[o].profile][r] = "complete"
<1>1. job[o] \in Jobs /\ job[o].profile \in Profiles /\ job[o].at \in 1..NumResources
  BY DEF CommandsTypeOK, Jobs, Procs, Resources
<1>2. \A r \in 1..(job[o].at - 1) : r \in Resources
  BY <1>1, CommandsConstants DEF Resources
<1> QED
  BY <1>1, <1>2 DEF ImportInv, CompletesKept

\* The effect of a step of one process on the job of another.
LEMMA OthersGo ==
    ASSUME CommandsTypeOK, NEW p \in Procs, NEW o \in Procs, o # p, NEW j, Goes(p, j)
    PROVE  job'[o] = job[o]
BY DEF CommandsTypeOK, Goes

LEMMA BackfillSteps ==
    ASSUME CommandsTypeOK, HealthInv, ImportInv, NEW o \in Operators,
           BackfillRefused(o) \/ BackfillResource(o) \/ BackfillFails(o) \/ Cancel(o)
    PROVE  \/ job'[o].op = "none" /\ job'[o].pc = "idle" /\ last'[o] # "ok"
           \/ /\ BackfillResource(o)
              /\ ~job[o].capped =>
                   \A r \in 1..job[o].at : cursor'[job[o].profile][r] = "complete"
              /\ \/ job'[o].op = "none" /\ job'[o].pc = "idle"
                 \/ /\ job'[o].op = "backfill" /\ job'[o].at = job[o].at + 1
                    /\ job'[o].capped = job[o].capped /\ job'[o].profile = job[o].profile
<1>1. /\ o \in Procs /\ job[o] \in Jobs /\ job[o].profile \in Profiles
      /\ job[o].at \in 1..NumResources
  BY DEF CommandsTypeOK, Jobs, Procs, Resources
<1>2. ASSUME NEW e \in Endings, Exits(o, e)
      PROVE  job'[o].op = "none" /\ job'[o].pc = "idle" /\ last'[o] = e
  <2>1. job'[o] = Job("none", "idle", job[o].profile) /\ last'[o] = e
    BY <1>1, <1>2 DEF Exits, Goes, CommandsTypeOK
  <2> QED
    BY <1>1, <2>1, JobTyped
<1>3. CASE BackfillRefused(o)
  <2>1. Exits(o, "refused")
    BY <1>3 DEF BackfillRefused, StopsAtRefused
  <2> QED
    BY <1>2, <2>1 DEF Endings
<1>4. CASE BackfillFails(o)
  <2>1. PICK e \in {"failed", "circuit"} : Exits(o, e)
    BY <1>4 DEF BackfillFails
  <2> QED
    BY <1>2, <2>1 DEF Endings
<1>5. CASE Cancel(o)
  <2>1. Exits(o, "cancelled")
    BY <1>5 DEF Cancel
  <2> QED
    BY <1>2, <2>1 DEF Endings
<1>6. CASE BackfillResource(o)
  <2>1. job[o].pc = "import"
    BY <1>6 DEF BackfillResource, Running
  <2>2. ASSUME ~job[o].capped, NEW r \in 1..job[o].at
        PROVE  cursor'[job[o].profile][r] = "complete"
    <3>1. cursor' = [cursor EXCEPT ![job[o].profile][job[o].at] = "complete"]
      BY <1>6, <2>2 DEF BackfillResource, AfterBackfill, Writes
    <3>2. r \in Resources /\ (r = job[o].at \/ r \in 1..(job[o].at - 1))
      BY <1>1, CommandsConstants DEF Resources
    <3>3. r # job[o].at => cursor[job[o].profile][r] = "complete"
      BY <2>1, <2>2, <3>2 DEF ImportInv
    <3> QED
      BY <1>1, <3>1, <3>2, <3>3 DEF CommandsTypeOK
  <2>3. CASE job[o].at < NumResources
    <3>1. PICK a : a = [job[o] EXCEPT !.at = @ + 1]
      OBVIOUS
    <3>2. /\ a.op = job[o].op /\ a.at = job[o].at + 1
          /\ a.capped = job[o].capped /\ a.profile = job[o].profile
      BY <1>1, <2>3, <3>1, AdvancedTyped
    <3>3. job'[o] = a
      BY <1>1, <1>6, <2>3, <3>1 DEF BackfillResource, NextResource, Goes, CommandsTypeOK
    <3>4. job[o].op = "backfill"
      BY <2>1 DEF ImportInv
    <3> QED
      BY <1>6, <2>2, <3>2, <3>3, <3>4
  <2>4. CASE ~(job[o].at < NumResources)
    <3>1. Exits(o, "ok")
      BY <1>6, <2>4 DEF BackfillResource, NextResource
    <3>2. job'[o].op = "none" /\ job'[o].pc = "idle"
      BY <1>2, <3>1 DEF Endings
    <3> QED
      BY <1>6, <2>2, <3>2
  <2> QED
    BY <2>3, <2>4
<1> QED
  BY <1>3, <1>4, <1>5, <1>6

LEMMA StepGoes ==
    ASSUME CommandsTypeOK, NEW p \in Procs, NEW o \in Procs, o # p, Step(p) \/ Cancel(p)
    PROVE  job'[o] = job[o]
<1>1. CASE BackfillRefused(p) \/ BackfillFails(p) \/ Wake(p) \/ Cancel(p)
  BY <1>1, OthersGo DEF BackfillRefused, StopsAtRefused, BackfillFails, Wake, Cancel, Exits
<1>2. CASE BackfillResource(p)
  BY <1>2, OthersGo DEF BackfillResource, NextResource, Exits
<1>3. CASE SyncResource(p)
  BY <1>3, OthersGo DEF SyncResource, PassSucceeds, Exits
<1>4. CASE SyncFails(p)
  BY <1>4, OthersGo DEF SyncFails, PassFails, Exits
<1>5. CASE ReconcileResource(p)
  BY <1>5, OthersGo DEF ReconcileResource, Exits
<1>6. CASE ReconcileFails(p)
  BY <1>6, OthersGo DEF ReconcileFails, ReconcileFailed, Exits
<1> QED
  BY <1>1, <1>2, <1>3, <1>4, <1>5, <1>6 DEF Step

\* What every other step leaves of the import of the one operator.
Undisturbed(o) == job'[o] = job[o] /\ CompletesKept

LEMMA ImportStep ==
    ASSUME CommandsTypeOK, HealthInv, ImportInv, NEW o \in Operators, Operators = {o},
           [CommandsNext]_cvars
    PROVE  \/ Undisturbed(o)
           \/ BackfillRefused(o) \/ BackfillResource(o) \/ BackfillFails(o) \/ Cancel(o)
           \/ job[o].pc # "import" /\ job'[o].pc # "import"
           \/ job[o].pc = "idle" /\ job'[o].op = "backfill" /\ job'[o].at = 1
<1>0. o \in Procs /\ Procs = Units \cup {o} /\ Units \subseteq Procs /\ o \notin Units
  BY CommandsConstants DEF Procs
<1>a. UNCHANGED cursor => CompletesKept
  BY DEF CompletesKept
<1>1. CASE InitDB \/ Tick \/ UNCHANGED cvars
  BY <1>1, <1>a DEF InitDB, Tick, cvars, Undisturbed
<1>2. ASSUME NEW u \in Units, Step(u) \/ Cancel(u) PROVE Undisturbed(o)
  <2>1. job[u].pc # "import"
    BY DEF HealthInv, UnitInv
  <2>2. ~(BackfillRefused(u) \/ BackfillResource(u) \/ BackfillFails(u))
    BY <2>1 DEF BackfillRefused, BackfillResource, BackfillFails, Running
  <2>3. job'[o] = job[o]
    BY <1>0, <1>2, StepGoes
  <2>4. CASE Wake(u) \/ Cancel(u)
    BY <1>a, <2>3, <2>4 DEF Wake, Cancel, Undisturbed
  <2>5. CASE SyncResource(u) \/ SyncFails(u) \/ ReconcileResource(u) \/ ReconcileFails(u)
    BY <1>0, <2>3, <2>5, PassesKeepComplete DEF Undisturbed
  <2> QED
    BY <1>2, <2>2, <2>4, <2>5 DEF Step
<1>3. CASE SyncResource(o) \/ SyncFails(o) \/ ReconcileResource(o) \/ ReconcileFails(o) \/ Wake(o)
  <2>1. job[o].pc # "import"
    BY <1>3 DEF SyncResource, SyncFails, ReconcileResource, ReconcileFails, Wake, Running
  <2>2. job[o] \in Jobs /\ job[o].op # "daemon" /\ job[o].pc # "sleep"
    BY <1>0 DEF HealthInv, CommandsTypeOK
  <2>3. ASSUME NEW j, j.pc # "import", Goes(o, j) PROVE job'[o].pc # "import"
    BY <1>0, <2>3 DEF Goes, CommandsTypeOK
  <2>4. ASSUME NEW e, Exits(o, e) PROVE job'[o].pc # "import"
    BY <2>2, <2>3, <2>4, JobTyped DEF Exits, Jobs
  <2>5. ~Wake(o)
    BY <2>2 DEF Wake, Running
  <2>6. CASE SyncResource(o)
    <3>1. CASE job[o].at < NumResources
      <4>1. PICK j : j = [job[o] EXCEPT !.served = @ \cup {job[o].at}]
        OBVIOUS
      <4>2. j \in Jobs /\ j.at = job[o].at /\ j.pc = job[o].pc
        BY <2>2, <4>1 DEF Jobs
      <4>3. Goes(o, [j EXCEPT !.at = @ + 1])
        BY <2>6, <3>1, <4>1 DEF SyncResource
      <4>4. [j EXCEPT !.at = @ + 1].pc = j.pc
        BY <3>1, <4>2, AdvancedTyped
      <4> QED
        BY <2>1, <2>3, <4>2, <4>3, <4>4
    <3>2. CASE ~(job[o].at < NumResources)
      <4>1. Exits(o, "ok")
        BY <2>2, <2>6, <3>2 DEF SyncResource
      <4> QED
        BY <2>1, <2>4, <4>1
    <3> QED
      BY <2>1, <3>1, <3>2
  <2>7. CASE SyncFails(o) \/ ReconcileFails(o)
    BY <2>1, <2>2, <2>4, <2>7 DEF SyncFails, ReconcileFails
  <2>8. CASE ReconcileResource(o)
    <3>1. CASE job[o].at < NumResources
      <4>1. Goes(o, [job[o] EXCEPT !.at = @ + 1])
        BY <2>8, <3>1 DEF ReconcileResource
      <4>2. [job[o] EXCEPT !.at = @ + 1].pc = job[o].pc
        BY <2>2, <3>1, AdvancedTyped
      <4> QED
        BY <2>1, <2>3, <4>1, <4>2
    <3>2. CASE ~(job[o].at < NumResources)
      <4>1. Exits(o, "ok")
        BY <2>2, <2>8, <3>2 DEF ReconcileResource
      <4> QED
        BY <2>1, <2>4, <4>1
    <3> QED
      BY <2>1, <3>1, <3>2
  <2> QED
    BY SMTT(40), <1>3, <2>5, <2>6, <2>7, <2>8
<1>4. ASSUME NEW f \in Profiles, RepeatBackfill(o, f) \/ FancyBackfill(o, f)
      PROVE  job[o].pc = "idle" /\ job'[o].op = "backfill" /\ job'[o].at = 1
  <2>1. ASSUME NEW force \in BOOLEAN, NEW capped \in BOOLEAN, StartBackfill(o, f, force, capped)
        PROVE  job[o].pc = "idle" /\ job'[o].op = "backfill" /\ job'[o].at = 1
    <3>1. PICK j : j = [Job("backfill", "import", f) EXCEPT !.force = force, !.capped = capped]
      OBVIOUS
    <3>2. /\ Job("backfill", "import", f) \in Jobs
          /\ Job("backfill", "import", f).op = "backfill"
          /\ Job("backfill", "import", f).at = 1
      BY JobTyped
    <3>3. j.op = "backfill" /\ j.at = 1
      BY ZenonT(60), <3>1, <3>2, FlagsTyped
    <3>4. job'[o] = j
      BY <1>0, <2>1, <3>1 DEF StartBackfill, Goes, CommandsTypeOK
    <3> QED
      BY <2>1, <3>3, <3>4 DEF StartBackfill, Running
  <2> QED
    BY <1>4, <2>1 DEF RepeatBackfill, FancyBackfill, Refused
<1>5. ASSUME NEW f \in Profiles, StartCommand(o, f)
      PROVE  job[o].pc # "import" /\ job'[o].pc # "import"
  <2>1. Job("sync", "pass", f).pc # "import" /\ Job("reconcile", "reconcile", f).pc # "import"
    BY JobTyped
  <2>2. job'[o] = Job("sync", "pass", f) \/ job'[o] = Job("reconcile", "reconcile", f)
    BY <1>0, <1>5 DEF StartCommand, Goes, CommandsTypeOK
  <2> QED
    BY <1>5, <2>1, <2>2 DEF StartCommand, Running
<1>6. ASSUME NEW u \in Units, NEW f \in Profiles, StartDaemon(u, f) PROVE Undisturbed(o)
  BY <1>0, <1>a, <1>6, OthersGo DEF StartDaemon, Undisturbed
<1>7. ASSUME NEW u \in Units, Restart(u) PROVE Undisturbed(o)
  BY <1>0, <1>a, <1>7, OthersGo DEF Restart, Undisturbed
<1>8. CASE \E p \in Procs : Step(p) \/ Cancel(p)
  BY <1>0, <1>2, <1>3, <1>8 DEF Step
<1> QED
  BY <1>1, <1>4, <1>5, <1>6, <1>7, <1>8 DEF CommandsNext

LEMMA ImportNext ==
    ASSUME CommandsTypeOK, HealthInv, ImportInv, NEW o \in Operators, Operators = {o},
           [CommandsNext]_cvars
    PROVE  ImportInv'
<1> SUFFICES ASSUME job'[o].pc = "import"
             PROVE  /\ job'[o].op = "backfill"
                    /\ ~job'[o].capped =>
                         \A r \in 1..(job'[o].at - 1) : cursor'[job'[o].profile][r] = "complete"
  BY DEF ImportInv
<1>1. CASE Undisturbed(o)
  BY <1>1, ImportKept DEF Undisturbed
<1>2. CASE BackfillRefused(o) \/ BackfillResource(o) \/ BackfillFails(o) \/ Cancel(o)
  <2>1. /\ job'[o].op = "backfill" /\ job'[o].at = job[o].at + 1
        /\ job'[o].capped = job[o].capped /\ job'[o].profile = job[o].profile
        /\ ~job[o].capped => \A r \in 1..job[o].at : cursor'[job[o].profile][r] = "complete"
    BY <1>2, BackfillSteps
  <2>2. job[o].at \in Nat
    BY CommandsConstants DEF CommandsTypeOK, Jobs, Procs, Resources
  <2> QED
    BY <2>1, <2>2
<1>3. CASE job[o].pc = "idle" /\ job'[o].op = "backfill" /\ job'[o].at = 1
  BY <1>3
<1> QED
  BY <1>1, <1>2, <1>3, ImportStep

LEMMA TruthNext ==
    ASSUME CommandsTypeOK, HealthInv, ImportInv, NEW o \in Operators, Operators = {o},
           [CommandsNext]_cvars,
           Running(o, "import"), ~job[o].capped, job'[o].op = "none", last'[o] = "ok",
           NEW r \in Resources
    PROVE  cursor'[job[o].profile][r] = "complete"
<1>1. job[o].pc = "import" /\ job[o].op = "backfill"
  BY DEF Running, ImportInv
<1>2. ~Undisturbed(o)
  BY <1>1 DEF Undisturbed
<1>3. BackfillRefused(o) \/ BackfillResource(o) \/ BackfillFails(o) \/ Cancel(o)
  BY <1>1, <1>2, ImportStep
<1>4. /\ BackfillResource(o)
      /\ \A i \in 1..job[o].at : cursor'[job[o].profile][i] = "complete"
  BY <1>3, BackfillSteps
<1>5. o \in Procs /\ job[o] \in Jobs /\ job[o].at \in 1..NumResources
  BY DEF CommandsTypeOK, Jobs, Procs, Resources
<1>6. ~(job[o].at < NumResources)
  <2> SUFFICES ASSUME job[o].at < NumResources PROVE FALSE
    OBVIOUS
  <2>1. PICK a : a = [job[o] EXCEPT !.at = @ + 1]
    OBVIOUS
  <2>2. a.op = "backfill"
    BY <1>1, <1>5, <2>1, AdvancedTyped
  <2>3. job'[o] = a
    BY <1>4, <1>5, <2>1 DEF BackfillResource, NextResource, Goes, CommandsTypeOK
  <2> QED
    BY <2>2, <2>3
<1> QED
  BY <1>4, <1>5, <1>6, CommandsConstants DEF Resources

\* With one operator, an uncapped `backfill` that reports success has left every
\* resource of its profile imported, whatever daemons ran beside it.
THEOREM SuccessMeansImported ==
    ASSUME NEW CONSTANT only, Operators = {only}
    PROVE  CommandsSpec => BackfillTellsTruth
<1>1. only \in Operators
  OBVIOUS
<1>2. CommandsInit => ImportInv
  <2> SUFFICES ASSUME CommandsInit PROVE ImportInv
    OBVIOUS
  <2>1. PICK f \in Profiles : job = [p \in Procs |-> Job("none", "idle", f)]
    BY DEF CommandsInit
  <2>2. Job("none", "idle", f).pc = "idle"
    BY JobTyped
  <2> QED
    BY <2>1, <2>2 DEF ImportInv, Procs
<1>3. CommandsTypeOK /\ HealthInv /\ ImportInv /\ [CommandsNext]_cvars => ImportInv'
  BY <1>1, ImportNext
<1>4. CommandsTypeOK /\ HealthInv /\ ImportInv /\ [CommandsNext]_cvars
        => [\A o \in Operators :
              Running(o, "import") /\ ~job[o].capped /\ job'[o].op = "none" /\ last'[o] = "ok"
                => \A r \in Resources : cursor'[job[o].profile][r] = "complete"]_cvars
  BY <1>1, TruthNext
<1> QED
  BY <1>2, <1>3, <1>4, CommandsInitTyped, CommandsNextTyped, HealthInit, HealthNext, PTL
     DEF CommandsSpec, BackfillTellsTruth

=============================================================================
