---------------------------- MODULE BudgetProofs ----------------------------
(***************************************************************************)
(* Theorems about RateBudget, for any number of processes and workers and   *)
(* every value of the limits.                                               *)
(***************************************************************************)
EXTENDS RateBudget, FiniteSetTheorems, TLAPS

-----------------------------------------------------------------------------
(* The limiter.                                                             *)

LEMMA DayStartTyped ==
    ASSUME NEW now \in Nat \ {0}
    PROVE  DayStart(now) \in Nat
<1> DEFINE x == now - 1
<1>1. x \in Nat
  OBVIOUS
<1>2. x % HoursPerDay <= x
  BY <1>1, LimiterConstants
<1> QED
  BY <1>1, <1>2, LimiterConstants DEF DayStart

LEMMA RolledTyped ==
    ASSUME NEW u \in Usage, NEW now \in Nat \ {0}
    PROVE  /\ Rolled(u, now) \in Usage
           /\ Rolled(u, now).hour.requests \in {0, u.hour.requests}
           /\ Rolled(u, now).hour.bytes \in {0, u.hour.bytes}
           /\ Rolled(u, now).day.requests \in {0, u.day.requests}
BY DayStartTyped DEF Rolled, Usage, Hour, Day

LEMMA CountedTyped ==
    ASSUME NEW l \in Limiters, NEW now \in Nat \ {0}
    PROVE  /\ Counted(l, now) \in Limiters
           /\ Counted(l, now).throttled = l.throttled
           /\ Counted(l, now).usage.hour.requests = Rolled(l.usage, now).hour.requests + 1
           /\ Counted(l, now).usage.day.requests = Rolled(l.usage, now).day.requests + 1
           /\ Counted(l, now).usage.hour.bytes = Rolled(l.usage, now).hour.bytes
<1>1. Rolled(l.usage, now) \in Usage
  BY RolledTyped DEF Limiters
<1> QED
  BY <1>1 DEF Counted, Limiters, Usage, Hour, Day

LEMMA RecordedTyped ==
    ASSUME NEW l \in Limiters, NEW now \in Nat \ {0}, NEW bytes \in Nat, NEW result \in Results
    PROVE  /\ Recorded(l, now, bytes, result) \in Limiters
           /\ Recorded(l, now, bytes, result).throttled \in {0, l.throttled, l.throttled + 1}
           /\ LET u == Recorded(l, now, bytes, result).usage
              IN  /\ u.hour.requests = Rolled(l.usage, now).hour.requests
                  /\ u.day.requests = Rolled(l.usage, now).day.requests
                  /\ u.hour.bytes = Rolled(l.usage, now).hour.bytes + bytes
<1>1. Rolled(l.usage, now) \in Usage
  BY RolledTyped DEF Limiters
<1> QED
  BY <1>1 DEF Recorded, Limiters, Usage, Hour, Day, Results

LEMMA RestoredTyped ==
    ASSUME NEW l \in Limiters, NEW now \in Nat \ {0}, NEW u \in Usage
    PROVE  /\ Restored(l, now, u) \in Limiters
           /\ Restored(l, now, u).throttled = l.throttled
           /\ Restored(l, now, u).usage.hour \in {u.hour, l.usage.hour}
           /\ Restored(l, now, u).usage.day \in {u.day, l.usage.day}
BY DEF Restored, Limiters, Usage, Hour, Day

-----------------------------------------------------------------------------
(* Type correctness.                                                        *)

LEMMA BudgetInitTyped == BudgetInit => BudgetTypeOK
<1> SUFFICES ASSUME BudgetInit PROVE BudgetTypeOK
  OBVIOUS
<1>1. NewLimiter \in Limiters /\ NoUsage \in Usage
  BY DEF NewLimiter, Limiters, NoUsage, Usage, Hour, Day
<1>2. Down \in ProcStates
  BY BudgetConstants DEF Down, ProcStates
<1>3. NoWork \in WorkStates
  BY BudgetConstants DEF NoWork, WorkStates, Results
<1> QED
  BY <1>1, <1>2, <1>3, BudgetConstants DEF BudgetInit, BudgetTypeOK

\* What a worker's request may become.
LEMMA GoesTyped ==
    ASSUME BudgetTypeOK, NEW p \in Procs, NEW w \in Workers(p), NEW r \in WorkStates,
           Goes(p, w, r)
    PROVE  /\ DOMAIN work' = Procs
           /\ \A q \in Procs : work'[q] \in [Workers(q) -> WorkStates]
<1>1. work' = [work EXCEPT ![p] = [work[p] EXCEPT ![w] = r]]
  BY DEF Goes
<1>2. work[p] \in [Workers(p) -> WorkStates] /\ DOMAIN work = Procs
  BY DEF BudgetTypeOK
<1>3. [work[p] EXCEPT ![w] = r] \in [Workers(p) -> WorkStates]
  BY <1>2
<1>4. ASSUME NEW q \in Procs PROVE work'[q] \in [Workers(q) -> WorkStates]
  BY <1>1, <1>2, <1>3 DEF BudgetTypeOK
<1> QED
  BY <1>1, <1>2, <1>4

LEMMA WorkStatesClosed ==
    ASSUME NEW r \in WorkStates
    PROVE  /\ NoWork \in WorkStates
           /\ [NoWork EXCEPT !.pc = "wait"] \in WorkStates
           /\ [NoWork EXCEPT !.pc = "wait", !.rebuilt = TRUE] \in WorkStates
           /\ \A pc \in {"wait", "admitted", "sent"} : [r EXCEPT !.pc = pc] \in WorkStates
           /\ \A result \in Results :
                [r EXCEPT !.pc = "judge", !.result = result] \in WorkStates
           /\ r.tries < Max5xx =>
                [r EXCEPT !.pc = "wait", !.tries = @ + 1] \in WorkStates
<1>1. NoWork \in WorkStates
  BY BudgetConstants DEF NoWork, WorkStates, Results
<1>2. [NoWork EXCEPT !.pc = "wait"] \in WorkStates
  BY <1>1 DEF WorkStates
<1>3. [NoWork EXCEPT !.pc = "wait", !.rebuilt = TRUE] \in WorkStates
  BY <1>1 DEF WorkStates
<1>4. \A pc \in {"wait", "admitted", "sent"} : [r EXCEPT !.pc = pc] \in WorkStates
  BY DEF WorkStates
<1>5. \A result \in Results :
         [r EXCEPT !.pc = "judge", !.result = result] \in WorkStates
  BY DEF WorkStates
<1>6. r.tries < Max5xx =>
         [r EXCEPT !.pc = "wait", !.tries = @ + 1] \in WorkStates
  <2> SUFFICES ASSUME r.tries < Max5xx
               PROVE  [r EXCEPT !.pc = "wait", !.tries = @ + 1] \in WorkStates
    OBVIOUS
  <2> DEFINE more == r.tries + 1
  <2>1. more \in 0..Max5xx
    BY BudgetConstants DEF WorkStates
  <2>2. [r EXCEPT !.pc = "wait", !.tries = more] \in WorkStates
    <3> HIDE DEF more
    <3> QED
      BY <2>1 DEF WorkStates
  <2> QED
    BY <2>2
<1> QED
  BY <1>1, <1>2, <1>3, <1>4, <1>5, <1>6

LEMMA BatchTyped == ASSUME NEW p \in Procs PROVE BatchOf(p) \in 0..Batch
BY BudgetConstants DEF BatchOf

LEMMA FaultTyped == BudgetTypeOK /\ BudgetFault => faults' \in 0..MaxFaults
BY BudgetConstants DEF BudgetTypeOK, BudgetFault

LEMMA ProcStatesClosed ==
    ASSUME NEW r \in ProcStates
    PROVE  /\ [r EXCEPT !.broken = TRUE] \in ProcStates
           /\ r.left > 0 => [r EXCEPT !.left = @ - 1] \in ProcStates
           /\ \A n \in 0..Batch : [r EXCEPT !.left = n] \in ProcStates
           /\ \A pc \in {"down", "idle", "running"} : [r EXCEPT !.pc = pc] \in ProcStates
           /\ Down \in ProcStates
<1>1. Down \in ProcStates
  BY BudgetConstants DEF Down, ProcStates
<1>2. [r EXCEPT !.broken = TRUE] \in ProcStates
  BY DEF ProcStates
<1>3. \A n \in 0..Batch : [r EXCEPT !.left = n] \in ProcStates
  BY DEF ProcStates
<1>4. \A pc \in {"down", "idle", "running"} : [r EXCEPT !.pc = pc] \in ProcStates
  BY DEF ProcStates
<1>5. r.left > 0 => r.left - 1 \in 0..Batch
  BY BudgetConstants DEF ProcStates
<1>6. r.left > 0 => [r EXCEPT !.left = @ - 1] \in ProcStates
  BY <1>3, <1>5
<1> QED
  BY <1>1, <1>2, <1>3, <1>4, <1>6

LEMMA HidesTyped ==
    ASSUME BudgetTypeOK, NEW p \in Procs
    PROVE  /\ AtRisk(p) \in Nat
           /\ Hides(AtRisk(p), AtRisk(p)) => hidden' \in [hour : Nat, day : Nat]
           /\ Hides(Hourly, Daily) => hidden' \in [hour : Nat, day : Nat]
<1>1. AtRisk(p) \in Nat
  BY BudgetConstants, LimiterConstants DEF AtRisk
<1> QED
  BY <1>1, LimiterConstants DEF Hides, BudgetTypeOK

\* A snapshot is well formed, and so is the table it is written to.
LEMMA PersistTyped ==
    ASSUME BudgetTypeOK, NEW p \in Procs, Persist(p)
    PROVE  /\ limit' \in [Procs -> Limiters]
           /\ stored' \in Usage
           /\ faults' \in 0..MaxFaults
           /\ hidden' \in [hour : Nat, day : Nat]
           /\ limit' = [limit EXCEPT ![p].usage = Rolled(limit[p].usage, hour)]
           /\ stored' \in {stored, Saved(Rolled(limit[p].usage, hour))}
<1> DEFINE u == Rolled(limit[p].usage, hour)
<1>1. limit[p] \in Limiters /\ hour \in Nat \ {0} /\ stored \in Usage
  BY BudgetConstants DEF BudgetTypeOK
<1>2. u \in Usage
  BY <1>1, RolledTyped DEF Limiters
<1>3. limit' = [limit EXCEPT ![p].usage = u]
  BY DEF Persist, Snapshot
<1>4. /\ stored' \in {stored, Saved(u)}
      /\ faults' = faults \/ BudgetFault
  BY DEF Persist, Snapshot
<1> HIDE DEF u
<1>5. Saved(u) \in Usage
  BY <1>1, <1>2 DEF Saved, Usage
<1>6. limit' \in [Procs -> Limiters]
  BY <1>2, <1>3 DEF BudgetTypeOK, Limiters
<1>7. faults' \in 0..MaxFaults
  BY <1>4, FaultTyped DEF BudgetTypeOK
<1>8. hidden' \in [hour : Nat, day : Nat]
  <2>1. hidden' = hidden \/ Hides(AtRisk(p), AtRisk(p))
    BY DEF Persist
  <2> QED
    BY <2>1, HidesTyped DEF BudgetTypeOK
<1> QED
  BY <1>1, <1>3, <1>4, <1>5, <1>6, <1>7, <1>8 DEF u

LEMMA RunTyped ==
    ASSUME BudgetTypeOK, NEW p \in Procs,
           Launch(p) \/ StartRun(p) \/ EndBatch(p) \/ Crash(p) \/ Interrupt(p)
    PROVE  BudgetTypeOK'
<1>1. limit[p] \in Limiters /\ proc[p] \in ProcStates /\ hour \in Nat \ {0} /\ stored \in Usage
  BY BudgetConstants DEF BudgetTypeOK
<1>2. CASE Launch(p)
  <2>1. NewLimiter \in Limiters
    BY DEF NewLimiter, NoUsage, Limiters, Usage, Hour, Day
  <2>2. [proc[p] EXCEPT !.pc = "idle"] \in ProcStates
    BY <1>1, ProcStatesClosed
  <2> QED
    BY <1>2, <2>1, <2>2 DEF Launch, BudgetTypeOK
<1>3. CASE StartRun(p)
  <2>1. Restored(limit[p], hour, stored) \in Limiters
    BY <1>1, RestoredTyped
  <2>2. limit' \in [Procs -> Limiters] /\ faults' \in 0..MaxFaults
    BY <1>3, <2>1, FaultTyped DEF StartRun, BudgetTypeOK
  <2>4. hidden' \in [hour : Nat, day : Nat]
    BY <1>3, HidesTyped DEF StartRun, BudgetTypeOK
  <2>3. [pc |-> "running", left |-> BatchOf(p), broken |-> FALSE] \in ProcStates
    BY BatchTyped DEF ProcStates
  <2> QED
    BY <1>3, <2>2, <2>3, <2>4 DEF StartRun, BudgetTypeOK
<1>4. CASE EndBatch(p)
  <2>1. /\ limit' \in [Procs -> Limiters]
        /\ stored' \in Usage
        /\ faults' \in 0..MaxFaults
    BY <1>4, PersistTyped DEF EndBatch, BudgetTypeOK
  <2>5. hidden' \in [hour : Nat, day : Nat]
    BY <1>4, PersistTyped, HidesTyped DEF EndBatch
  <2>2. \A pc \in {"down", "idle"} : [Down EXCEPT !.pc = pc] \in ProcStates
    BY <1>1, ProcStatesClosed
  <2>3. [proc[p] EXCEPT !.left = BatchOf(p)] \in ProcStates
    BY <1>1, BatchTyped, ProcStatesClosed
  <2>4. proc' \in [Procs -> ProcStates]
    BY <1>4, <2>2, <2>3 DEF EndBatch, BudgetTypeOK
  <2> QED
    BY <1>4, <2>1, <2>4, <2>5 DEF EndBatch, BudgetTypeOK
<1>5. CASE Crash(p)
  <2>1. Down \in ProcStates /\ NoWork \in WorkStates
    BY BudgetConstants DEF Down, NoWork, ProcStates, WorkStates, Results
  <2>2. faults' \in 0..MaxFaults
    BY <1>5, FaultTyped DEF Crash
  <2>3. hidden' \in [hour : Nat, day : Nat]
    BY <1>5, HidesTyped DEF Crash
  <2> QED
    BY <1>5, <2>1, <2>2, <2>3 DEF Crash, BudgetTypeOK
<1>6. CASE Interrupt(p)
  <2>1. [proc[p] EXCEPT !.broken = TRUE] \in ProcStates
    BY <1>1, ProcStatesClosed
  <2>2. faults' \in 0..MaxFaults
    BY <1>6, FaultTyped DEF Interrupt
  <2> QED
    BY <1>6, <2>1, <2>2 DEF Interrupt, BudgetTypeOK
<1> QED
  BY <1>2, <1>3, <1>4, <1>5, <1>6

LEMMA RequestTyped ==
    ASSUME BudgetTypeOK, NEW p \in Procs, NEW w \in Workers(p), Request(p, w)
    PROVE  BudgetTypeOK'
<1>1. /\ limit[p] \in Limiters
      /\ proc[p] \in ProcStates
      /\ work[p][w] \in WorkStates
      /\ hour \in Nat \ {0}
  BY BudgetConstants DEF BudgetTypeOK
<1> DEFINE WorkTyped == /\ DOMAIN work' = Procs
                        /\ \A q \in Procs : work'[q] \in [Workers(q) -> WorkStates]
           ProcTyped == proc' \in [Procs -> ProcStates]
<1>2. Breaks(p) \/ UNCHANGED proc => ProcTyped
  BY <1>1, ProcStatesClosed DEF Breaks, BudgetTypeOK
<1>3. Goes(p, w, NoWork) => WorkTyped
  BY <1>1, WorkStatesClosed, GoesTyped
<1>4. RetryOrGiveUp(p, w) => WorkTyped /\ ProcTyped
  <2>1. CASE work[p][w].tries < Max5xx
    BY <2>1, <1>1, <1>2, WorkStatesClosed, GoesTyped DEF RetryOrGiveUp
  <2>2. CASE ~(work[p][w].tries < Max5xx)
    BY <2>2, <1>2, <1>3 DEF RetryOrGiveUp
  <2> QED
    BY <2>1, <2>2
<1>5. CASE Take(p, w)
  <2>1. WorkTyped
    BY <1>1, <1>5, WorkStatesClosed, GoesTyped DEF Take
  <2>2. ProcTyped
    BY <1>1, <1>5, ProcStatesClosed DEF Take, BudgetTypeOK
  <2> QED
    BY <1>5, <2>1, <2>2 DEF Take, BudgetTypeOK
<1>6. CASE Admit(p, w)
  <2>1. WorkTyped
    BY <1>1, <1>6, WorkStatesClosed, GoesTyped DEF Admit
  <2>2. limit' \in [Procs -> Limiters]
    BY <1>1, <1>6, CountedTyped DEF Admit, BudgetTypeOK
  <2> QED
    BY <1>6, <2>1, <2>2 DEF Admit, BudgetTypeOK
<1>7. CASE Refuse(p, w)
  BY <1>2, <1>3, <1>7 DEF Refuse, BudgetTypeOK
<1>8. CASE Cancelled(p, w)
  BY <1>3, <1>8 DEF Cancelled, BudgetTypeOK
<1>9. CASE Send(p, w)
  <2>1. WorkTyped
    BY <1>1, <1>9, WorkStatesClosed, GoesTyped DEF Send
  <2>2. served' \in [hour : Nat, day : Nat]
    BY <1>9 DEF Send, BudgetTypeOK
  <2> QED
    BY <1>9, <2>1, <2>2 DEF Send, BudgetTypeOK
<1>10. CASE Respond(p, w)
  <2>1. PICK bytes \in 0..MaxBytes, result \in Results :
           /\ limit' = [limit EXCEPT ![p] = Recorded(@, hour, bytes, result)]
           /\ Goes(p, w, IF result = "ok" THEN NoWork
                         ELSE [work[p][w] EXCEPT !.pc = "judge", !.result = result])
    BY <1>10 DEF Respond
  <2>2. WorkTyped
    BY <1>1, <2>1, WorkStatesClosed, GoesTyped
  <2>3. Recorded(limit[p], hour, bytes, result) \in Limiters
    BY <1>1, BudgetConstants, RecordedTyped
  <2>4. limit' \in [Procs -> Limiters]
    BY <2>1, <2>3 DEF BudgetTypeOK
  <2> QED
    BY <1>10, <2>2, <2>4 DEF Respond, BudgetTypeOK
<1>11. CASE Lose(p, w)
  <2>1. WorkTyped /\ ProcTyped
    BY <1>2, <1>3, <1>4, <1>11 DEF Lose
  <2> QED
    BY <1>11, <2>1 DEF Lose, BudgetTypeOK
<1>12. CASE JudgePage(p, w)
  <2>1. Goes(p, w, [work[p][w] EXCEPT !.pc = "wait"]) => WorkTyped
    BY <1>1, WorkStatesClosed, GoesTyped
  <2>2. Goes(p, w, [NoWork EXCEPT !.pc = "wait", !.rebuilt = TRUE]) => WorkTyped
    BY <1>1, WorkStatesClosed, GoesTyped
  <2>3. WorkTyped /\ ProcTyped
    BY <1>2, <1>3, <1>4, <1>12, <2>1, <2>2 DEF JudgePage
  <2> QED
    BY <1>12, <2>3 DEF JudgePage, BudgetTypeOK
<1>13. CASE JudgeFile(p, w)
  BY <1>2, <1>3, <1>13 DEF JudgeFile, BudgetTypeOK
<1> QED
  BY <1>5, <1>6, <1>7, <1>8, <1>9, <1>10, <1>11, <1>12, <1>13 DEF Request

LEMMA TickTyped == BudgetTypeOK /\ Tick => BudgetTypeOK'
BY BudgetConstants DEF BudgetTypeOK, Tick

\* Every variable keeps its type: the counters of every limiter and of the
\* rate_budget table, the place of every worker and of every run
\* (ratelimit/limiter.go, store/postgres/ratebudget.go).
THEOREM BudgetTypeCorrect == BudgetSpec => []BudgetTypeOK
<1>1. BudgetInit => BudgetTypeOK
  BY BudgetInitTyped
<1>2. BudgetTypeOK /\ [BudgetNext]_bvars => BudgetTypeOK'
  <2> SUFFICES ASSUME BudgetTypeOK, [BudgetNext]_bvars PROVE BudgetTypeOK'
    OBVIOUS
  <2>1. CASE UNCHANGED bvars
    BY <2>1 DEF bvars, BudgetTypeOK
  <2> QED
    BY <2>1, RunTyped, RequestTyped, TickTyped DEF BudgetNext
<1> QED
  BY <1>1, <1>2, PTL DEF BudgetSpec

-----------------------------------------------------------------------------
(* The circuit and the windows.                                             *)

\* The requests of a process that are counted and not yet recorded.
InFlight(p) == {w \in Workers(p) : work[p][w].pc \in {"admitted", "sent"}}

\* Between two runs a process has nothing under way.
QuietInv == \A p \in Procs : proc[p].pc # "running" => Quiet(p)

\* Once the circuit is open no request is admitted: only those in flight can
\* still bring a 429.
SuspInv ==
    \A p \in Procs :
        \/ limit[p].throttled < Threshold
        \/ limit[p].throttled + Cardinality(InFlight(p))
             < Threshold + Cardinality(Workers(p))

\* The requests a window counts never exceed its limit.
RequestsWithin(u) ==
    /\ Hourly > 0 => u.hour.requests <= Hourly
    /\ Daily > 0 => u.day.requests <= Daily

MostBytes == BytesHourly + Pool * MaxBytes

\* Once the bytes of the hour are used up, only the responses of requests in
\* flight are added.
BytesInv ==
    BytesHourly > 0 =>
        /\ stored.hour.bytes < MostBytes
        /\ \A p \in Procs :
             \/ limit[p].usage.hour.bytes < BytesHourly
             \/ limit[p].usage.hour.bytes + Cardinality(InFlight(p)) * MaxBytes < MostBytes

RequestsInv ==
    /\ RequestsWithin(stored)
    /\ \A p \in Procs : RequestsWithin(limit[p].usage)

BudgetInv ==
    /\ BudgetTypeOK
    /\ QuietInv
    /\ SuspInv
    /\ RequestsInv
    /\ BytesInv

LEMMA WorkersFinite ==
    ASSUME NEW p \in Procs
    PROVE  /\ IsFiniteSet(Workers(p))
           /\ Cardinality(Workers(p)) \in Nat
           /\ Cardinality(Workers(p)) <= Pool
           /\ Pool \in Nat
<1>1. CASE p \in Downloaders
  <2>1. IsFiniteSet(1..MediaWorkers) /\ Cardinality(1..MediaWorkers) = MediaWorkers
    BY FS_Interval, BudgetConstants
  <2> QED
    BY <1>1, <2>1, BudgetConstants DEF Workers, Pool
<1>2. CASE p \notin Downloaders
  <2>1. IsFiniteSet({1}) /\ Cardinality({1}) = 1
    BY FS_Singleton
  <2> QED
    BY <1>2, <2>1, BudgetConstants DEF Workers, Pool
<1> QED
  BY <1>1, <1>2

LEMMA InFlightFinite ==
    ASSUME NEW p \in Procs
    PROVE  /\ Cardinality(InFlight(p)) \in Nat
           /\ Cardinality(InFlight(p)) <= Cardinality(Workers(p))
BY WorkersFinite, FS_Subset, FS_CardinalityType DEF InFlight

\* A worker that is done, or has not begun, leaves room in the pool.
LEMMA InFlightLeaves ==
    ASSUME NEW p \in Procs, NEW w \in Workers(p), NEW S \in SUBSET Workers(p), w \notin S
    PROVE  /\ Cardinality(S) \in Nat
           /\ Cardinality(S) + 1 <= Cardinality(Workers(p))
<1>1. IsFiniteSet(Workers(p)) /\ Cardinality(Workers(p)) \in Nat
  BY WorkersFinite
<1>2. /\ IsFiniteSet(Workers(p) \ {w})
      /\ Cardinality(Workers(p) \ {w}) = Cardinality(Workers(p)) - 1
  BY <1>1, FS_RemoveElement
<1>3. S \subseteq Workers(p) \ {w}
  OBVIOUS
<1>4. Cardinality(S) <= Cardinality(Workers(p) \ {w}) /\ IsFiniteSet(S)
  BY <1>2, <1>3, FS_Subset
<1>5. Cardinality(S) \in Nat
  BY <1>4, FS_CardinalityType
<1> QED
  BY <1>1, <1>2, <1>4, <1>5

\* What a step of one request does to the requests in flight of every process.
LEMMA InFlightStep ==
    ASSUME BudgetTypeOK, NEW p \in Procs, NEW w \in Workers(p), NEW r \in WorkStates,
           Goes(p, w, r)
    PROVE  /\ \A q \in Procs \ {p} : InFlight(q)' = InFlight(q)
           /\ r.pc \in {"admitted", "sent"} => InFlight(p)' = InFlight(p) \cup {w}
           /\ r.pc \notin {"admitted", "sent"} => InFlight(p)' = InFlight(p) \ {w}
<1>1. work' = [work EXCEPT ![p] = [work[p] EXCEPT ![w] = r]]
  BY DEF Goes
<1>2. work[p] \in [Workers(p) -> WorkStates] /\ DOMAIN work = Procs
  BY DEF BudgetTypeOK
<1>3. \A q \in Procs \ {p} : work'[q] = work[q]
  BY <1>1, <1>2
<1>4. \A v \in Workers(p) : work'[p][v] = IF v = w THEN r ELSE work[p][v]
  BY <1>1, <1>2
<1> QED
  BY <1>3, <1>4 DEF InFlight

\* The three things a step of a request can be for its limiter.
Aside(p) == UNCHANGED limit /\ \A q \in Procs : InFlight(q)' \subseteq InFlight(q)

Others(p) == \A q \in Procs \ {p} : limit'[q] = limit[q] /\ InFlight(q)' = InFlight(q)

Admission(p) ==
    /\ MayStart(limit[p], hour)
    /\ limit'[p] = Counted(limit[p], hour)
    /\ Others(p)

Response(p, w) ==
    /\ \E bytes \in 0..MaxBytes, result \in Results :
         limit'[p] = Recorded(limit[p], hour, bytes, result)
    /\ w \in InFlight(p)
    /\ InFlight(p)' = InFlight(p) \ {w}
    /\ Others(p)

LEMMA RequestEffect ==
    ASSUME BudgetTypeOK, NEW p \in Procs, NEW w \in Workers(p), Request(p, w)
    PROVE  Aside(p) \/ Admission(p) \/ Response(p, w)
<1>1. /\ limit \in [Procs -> Limiters]
      /\ work[p][w] \in WorkStates
  BY DEF BudgetTypeOK
<1>2. ASSUME NEW r \in WorkStates, r.pc \notin {"admitted", "sent"}, Goes(p, w, r)
      PROVE  \A q \in Procs : InFlight(q)' \subseteq InFlight(q)
  BY <1>2, InFlightStep
<1>3. Goes(p, w, NoWork) => \A q \in Procs : InFlight(q)' \subseteq InFlight(q)
  BY <1>1, <1>2, WorkStatesClosed DEF NoWork
<1>4. RetryOrGiveUp(p, w) => \A q \in Procs : InFlight(q)' \subseteq InFlight(q)
  <2> SUFFICES ASSUME RetryOrGiveUp(p, w), work[p][w].tries < Max5xx
               PROVE  \A q \in Procs : InFlight(q)' \subseteq InFlight(q)
    BY <1>3 DEF RetryOrGiveUp
  <2> DEFINE r == [work[p][w] EXCEPT !.pc = "wait", !.tries = @ + 1]
  <2>1. r \in WorkStates /\ Goes(p, w, r)
    BY <1>1, WorkStatesClosed DEF RetryOrGiveUp
  <2>2. r.pc = "wait"
    BY <1>1 DEF WorkStates
  <2> QED
    BY <1>2, <2>1, <2>2
<1>5. CASE Take(p, w)
  BY <1>1, <1>2, <1>5, WorkStatesClosed DEF Take, Aside, NoWork
<1>6. CASE Admit(p, w)
  <2>1. [work[p][w] EXCEPT !.pc = "admitted"] \in WorkStates
    BY <1>1, WorkStatesClosed
  <2>2. \A q \in Procs \ {p} : InFlight(q)' = InFlight(q)
    BY <1>6, <2>1, InFlightStep DEF Admit
  <2> QED
    BY <1>1, <1>6, <2>2 DEF Admit, Admission, Others
<1>7. CASE Refuse(p, w)
  BY <1>3, <1>7 DEF Refuse, Aside
<1>8. CASE Cancelled(p, w)
  BY <1>3, <1>8 DEF Cancelled, Aside
<1>9. CASE Send(p, w)
  <2>1. [work[p][w] EXCEPT !.pc = "sent"] \in WorkStates
    BY <1>1, WorkStatesClosed
  <2>2. w \in InFlight(p)
    BY <1>9 DEF Send, At, InFlight
  <2>3. [work[p][w] EXCEPT !.pc = "sent"].pc = "sent"
    BY <1>1 DEF WorkStates
  <2>4. Goes(p, w, [work[p][w] EXCEPT !.pc = "sent"]) /\ UNCHANGED limit
    BY <1>9 DEF Send
  <2>5. \A q \in Procs : InFlight(q)' \subseteq InFlight(q)
    BY <2>1, <2>2, <2>3, <2>4, InFlightStep
  <2> QED
    BY <2>4, <2>5 DEF Aside
<1>10. CASE Respond(p, w)
  <2>1. PICK bytes \in 0..MaxBytes, result \in Results :
           /\ limit' = [limit EXCEPT ![p] = Recorded(@, hour, bytes, result)]
           /\ Goes(p, w, IF result = "ok" THEN NoWork
                         ELSE [work[p][w] EXCEPT !.pc = "judge", !.result = result])
    BY <1>10 DEF Respond
  <2> DEFINE r == IF result = "ok" THEN NoWork
                  ELSE [work[p][w] EXCEPT !.pc = "judge", !.result = result]
  <2>2. r \in WorkStates /\ Goes(p, w, r)
    BY <1>1, <2>1, WorkStatesClosed
  <2>3. r.pc \notin {"admitted", "sent"}
    BY <1>1 DEF NoWork, WorkStates
  <2>4. w \in InFlight(p)
    BY <1>10 DEF Respond, At, InFlight
  <2> HIDE DEF r
  <2>5. /\ InFlight(p)' = InFlight(p) \ {w}
        /\ \A q \in Procs \ {p} : InFlight(q)' = InFlight(q)
    BY <2>2, <2>3, InFlightStep
  <2> QED
    BY <1>1, <2>1, <2>4, <2>5 DEF Response, Others
<1>11. CASE Lose(p, w)
  BY <1>3, <1>4, <1>11 DEF Lose, Aside
<1>12. CASE JudgePage(p, w)
  <2>1. [work[p][w] EXCEPT !.pc = "wait"] \in WorkStates
    BY <1>1, WorkStatesClosed
  <2>2. [work[p][w] EXCEPT !.pc = "wait"].pc = "wait"
    BY <1>1 DEF WorkStates
  <2>3. [NoWork EXCEPT !.pc = "wait", !.rebuilt = TRUE] \in WorkStates
    BY <1>1, WorkStatesClosed
  <2>4. [NoWork EXCEPT !.pc = "wait", !.rebuilt = TRUE].pc = "wait"
    BY DEF NoWork
  <2>5. \/ Goes(p, w, NoWork)
        \/ RetryOrGiveUp(p, w)
        \/ Goes(p, w, [work[p][w] EXCEPT !.pc = "wait"])
        \/ Goes(p, w, [NoWork EXCEPT !.pc = "wait", !.rebuilt = TRUE])
    BY <1>12 DEF JudgePage
  <2>6. \A q \in Procs : InFlight(q)' \subseteq InFlight(q)
    BY <1>2, <1>3, <1>4, <2>1, <2>2, <2>3, <2>4, <2>5
  <2> QED
    BY <1>12, <2>6 DEF JudgePage, Aside
<1>13. CASE JudgeFile(p, w)
  BY <1>3, <1>13 DEF JudgeFile, Aside
<1> QED
  BY <1>5, <1>6, <1>7, <1>8, <1>9, <1>10, <1>11, <1>12, <1>13 DEF Request

\* Fewer requests in flight.
LEMMA FewerInFlight ==
    ASSUME BudgetTypeOK, NEW q \in Procs, InFlight(q)' \subseteq InFlight(q)
    PROVE  /\ Cardinality(InFlight(q))' \in Nat
           /\ Cardinality(InFlight(q))' <= Cardinality(InFlight(q))
<1>1. IsFiniteSet(InFlight(q))
  BY WorkersFinite, FS_Subset DEF InFlight
<1>2. /\ IsFiniteSet(InFlight(q)')
      /\ Cardinality(InFlight(q)') <= Cardinality(InFlight(q))
  BY <1>1, FS_Subset
<1> QED
  BY <1>2, FS_CardinalityType

\* One request of p less in flight, and room in its pool.
LEMMA ResponseInFlight ==
    ASSUME BudgetTypeOK, NEW p \in Procs, NEW w \in Workers(p), Response(p, w)
    PROVE  /\ Cardinality(InFlight(p))' \in Nat
           /\ Cardinality(InFlight(p))' + 1 = Cardinality(InFlight(p))
           /\ Cardinality(InFlight(p))' + 1 <= Cardinality(Workers(p))
<1>1. IsFiniteSet(InFlight(p)) /\ InFlight(p) \in SUBSET Workers(p)
  BY WorkersFinite, FS_Subset DEF InFlight
<1>2. w \in InFlight(p) /\ InFlight(p)' = InFlight(p) \ {w}
  BY DEF Response
<1>3. Cardinality(InFlight(p) \ {w}) = Cardinality(InFlight(p)) - 1
  BY <1>1, <1>2, FS_RemoveElement
<1>4. /\ Cardinality(InFlight(p) \ {w}) \in Nat
      /\ Cardinality(InFlight(p) \ {w}) + 1 <= Cardinality(Workers(p))
  BY <1>1, InFlightLeaves
<1> QED
  BY <1>1, <1>2, <1>3, <1>4, InFlightFinite

LEMMA RequestSusp ==
    ASSUME BudgetInv, NEW p \in Procs, NEW w \in Workers(p), Request(p, w)
    PROVE  SuspInv'
<1>1. BudgetTypeOK /\ SuspInv /\ limit \in [Procs -> Limiters]
  BY DEF BudgetInv, BudgetTypeOK
<1>2. hour \in Nat \ {0} /\ limit[p] \in Limiters
  BY <1>1, BudgetConstants DEF BudgetTypeOK
<1>3. limit' \in [Procs -> Limiters]
  BY <1>1, RequestTyped DEF BudgetTypeOK
<1> DEFINE Held(q) == \/ limit[q].throttled < Threshold
                      \/ limit[q].throttled + Cardinality(InFlight(q))
                           < Threshold + Cardinality(Workers(q))
<1>4. \A q \in Procs : limit[q].throttled \in Nat /\ limit'[q].throttled \in Nat
  BY <1>1, <1>3 DEF Limiters
<1>5. ASSUME NEW q \in Procs, limit'[q].throttled = limit[q].throttled,
             InFlight(q)' \subseteq InFlight(q)
      PROVE  Held(q)'
  BY <1>1, <1>4, <1>5, FewerInFlight, InFlightFinite, WorkersFinite, LimiterConstants DEF SuspInv
<1>6. CASE Aside(p)
  BY <1>5, <1>6 DEF Aside, SuspInv
<1>7. CASE Admission(p)
  <2>1. limit'[p].throttled < Threshold
    BY <1>2, <1>4, <1>7, CountedTyped, LimiterConstants DEF Admission, MayStart, Open
  <2>2. \A q \in Procs \ {p} : Held(q)'
    BY <1>5, <1>7 DEF Admission, Others
  <2> QED
    BY <2>1, <2>2 DEF SuspInv
<1>8. CASE Response(p, w)
  <2>1. limit'[p].throttled \in {0, limit[p].throttled, limit[p].throttled + 1}
    BY <1>2, <1>8, RecordedTyped, BudgetConstants DEF Response
  <2>2. Held(p)'
    BY <1>1, <1>4, <1>8, <2>1, ResponseInFlight, WorkersFinite, LimiterConstants DEF SuspInv
  <2>3. \A q \in Procs \ {p} : Held(q)'
    BY <1>5, <1>8 DEF Response, Others
  <2> QED
    BY <2>2, <2>3 DEF SuspInv
<1> QED
  BY <1>1, <1>6, <1>7, <1>8, RequestEffect

LEMMA RolledWithin ==
    ASSUME NEW u \in Usage, NEW now \in Nat \ {0}, RequestsWithin(u)
    PROVE  Rolled(u, now) \in Usage /\ RequestsWithin(Rolled(u, now))
<1>1. /\ Rolled(u, now) \in Usage
      /\ Rolled(u, now).hour.requests \in {0, u.hour.requests}
      /\ Rolled(u, now).day.requests \in {0, u.day.requests}
  BY RolledTyped
<1> QED
  BY <1>1, LimiterConstants DEF RequestsWithin

LEMMA RequestRequests ==
    ASSUME BudgetInv, NEW p \in Procs, NEW w \in Workers(p), Request(p, w)
    PROVE  RequestsInv'
<1>1. BudgetTypeOK /\ RequestsInv /\ limit \in [Procs -> Limiters]
  BY DEF BudgetInv, BudgetTypeOK
<1>2. hour \in Nat \ {0} /\ limit[p] \in Limiters /\ limit[p].usage \in Usage
  BY <1>1, BudgetConstants DEF BudgetTypeOK, Limiters
<1>3. stored' = stored
  BY DEF Request, Take, Admit, Refuse, Cancelled, Send, Respond, Lose, JudgePage, JudgeFile
<1> DEFINE u == Rolled(limit[p].usage, hour)
<1>4. u \in Usage /\ RequestsWithin(u)
  BY <1>1, <1>2, RolledWithin DEF RequestsInv
<1>5. CASE Aside(p)
  BY <1>1, <1>3, <1>5 DEF Aside, RequestsInv
<1>6. CASE Admission(p)
  <2>1. ~Exhausted(u)
    BY <1>6 DEF Admission, MayStart
  <2>2. /\ limit'[p].usage.hour.requests = u.hour.requests + 1
        /\ limit'[p].usage.day.requests = u.day.requests + 1
    BY <1>2, <1>6, CountedTyped DEF Admission
  <2>3. u.hour.requests \in Nat /\ u.day.requests \in Nat
    BY <1>4 DEF Usage, Hour, Day
  <2> HIDE DEF u
  <2>4. RequestsWithin(limit'[p].usage)
    BY <2>1, <2>2, <2>3, LimiterConstants DEF Exhausted, RequestsWithin
  <2> QED
    BY <1>1, <1>3, <1>6, <2>4 DEF Admission, Others, RequestsInv
<1>7. CASE Response(p, w)
  <2>1. /\ limit'[p].usage.hour.requests = u.hour.requests
        /\ limit'[p].usage.day.requests = u.day.requests
    BY <1>2, <1>7, RecordedTyped, BudgetConstants DEF Response
  <2> HIDE DEF u
  <2>2. RequestsWithin(limit'[p].usage)
    BY <1>4, <2>1 DEF RequestsWithin
  <2> QED
    BY <1>1, <1>3, <1>7, <2>2 DEF Response, Others, RequestsInv
<1> QED
  BY <1>1, <1>5, <1>6, <1>7, RequestEffect

LEMMA TimesMaxBytes ==
    ASSUME NEW a \in Nat, NEW b \in Nat, a <= b
    PROVE  /\ a * MaxBytes \in Nat
           /\ a * MaxBytes <= b * MaxBytes
           /\ (a + 1) * MaxBytes = a * MaxBytes + MaxBytes
BY BudgetConstants

LEMMA RequestBytes ==
    ASSUME BudgetInv, NEW p \in Procs, NEW w \in Workers(p), Request(p, w)
    PROVE  BytesInv'
<1> SUFFICES ASSUME BytesHourly > 0 PROVE BytesInv'
  BY DEF BytesInv
<1>1. BudgetTypeOK /\ BytesInv /\ limit \in [Procs -> Limiters]
  BY DEF BudgetInv, BudgetTypeOK
<1>2. hour \in Nat \ {0} /\ limit[p] \in Limiters /\ limit[p].usage \in Usage
  BY <1>1, BudgetConstants DEF BudgetTypeOK, Limiters
<1>3. stored' = stored
  BY DEF Request, Take, Admit, Refuse, Cancelled, Send, Respond, Lose, JudgePage, JudgeFile
<1> DEFINE bytes(q) == limit[q].usage.hour.bytes
           flight(q) == Cardinality(InFlight(q))
           Held(q) == \/ bytes(q) < BytesHourly
                      \/ bytes(q) + flight(q) * MaxBytes < MostBytes
           u == Rolled(limit[p].usage, hour)
<1>4. limit' \in [Procs -> Limiters]
  BY <1>1, RequestTyped DEF BudgetTypeOK
<1>5. \A q \in Procs : bytes(q) \in Nat /\ bytes(q)' \in Nat
  BY <1>1, <1>4 DEF Limiters, Usage, Hour
<1>6. Pool \in Nat /\ MaxBytes \in Nat /\ BytesHourly \in Nat /\ Pool * MaxBytes \in Nat
  BY WorkersFinite, BudgetConstants, LimiterConstants, TimesMaxBytes
<1>7. MostBytes \in Nat /\ MostBytes = BytesHourly + Pool * MaxBytes
  BY <1>6 DEF MostBytes
<1>8. \A q \in Procs : Held(q)
  BY <1>1 DEF BytesInv
<1>9. SUFFICES \A q \in Procs : Held(q)'
  BY <1>1, <1>3 DEF BytesInv, MostBytes, Pool
<1>10. MostBytes' = MostBytes
  BY DEF MostBytes, Pool
<1>11. ASSUME NEW q \in Procs, bytes(q)' = bytes(q), InFlight(q)' \subseteq InFlight(q)
       PROVE  Held(q)'
  <2>1. flight(q)' \in Nat /\ flight(q) \in Nat /\ flight(q)' <= flight(q)
    BY <1>1, <1>11, FewerInFlight, InFlightFinite
  <2>2. /\ flight(q)' * MaxBytes \in Nat
        /\ flight(q) * MaxBytes \in Nat
        /\ flight(q)' * MaxBytes <= flight(q) * MaxBytes
    BY <2>1, TimesMaxBytes
  <2> HIDE DEF bytes, flight
  <2> QED
    BY <1>5, <1>6, <1>7, <1>8, <1>10, <1>11, <2>2
<1>12. u.hour.bytes \in {0, bytes(p)} /\ u.hour.bytes \in Nat
  BY <1>2, RolledTyped DEF Usage, Hour
<1>13. CASE Aside(p)
  BY <1>11, <1>13 DEF Aside
<1>14. CASE Admission(p)
  <2>1. u.hour.bytes < BytesHourly
    BY <1>6, <1>12, <1>14 DEF Admission, MayStart, Exhausted
  <2>2. bytes(p)' < BytesHourly
    BY <1>2, <1>14, <2>1, CountedTyped DEF Admission
  <2>3. \A q \in Procs \ {p} : Held(q)'
    BY <1>11, <1>14 DEF Admission, Others
  <2> QED
    BY <2>2, <2>3
<1>15. CASE Response(p, w)
  <2>1. PICK b \in 0..MaxBytes : bytes(p)' = u.hour.bytes + b
    BY <1>2, <1>15, RecordedTyped, BudgetConstants DEF Response
  <2>2. /\ flight(p)' \in Nat
        /\ flight(p)' + 1 = flight(p)
        /\ flight(p)' + 1 <= Pool
    BY <1>1, <1>15, ResponseInFlight, WorkersFinite
  <2>3. /\ flight(p)' * MaxBytes \in Nat
        /\ flight(p) * MaxBytes = flight(p)' * MaxBytes + MaxBytes
        /\ flight(p)' * MaxBytes + MaxBytes <= Pool * MaxBytes
    <3> DEFINE f == flight(p)'
    <3>1. f \in Nat /\ f + 1 = flight(p) /\ f + 1 <= Pool
      BY <2>2
    <3> HIDE DEF f
    <3>2. (f + 1) * MaxBytes = f * MaxBytes + MaxBytes /\ f * MaxBytes \in Nat
      BY <3>1, TimesMaxBytes
    <3>3. (f + 1) * MaxBytes <= Pool * MaxBytes
      BY <1>6, <3>1, TimesMaxBytes
    <3> QED
      BY <3>1, <3>2, <3>3 DEF f
  <2>4. Held(p)'
    <3>1. b \in Nat /\ b <= MaxBytes
      BY <1>6
    <3>2. CASE u.hour.bytes < BytesHourly
      BY <1>6, <1>7, <1>10, <1>12, <2>1, <2>3, <3>1, <3>2
    <3>3. CASE ~(u.hour.bytes < BytesHourly)
      <4>1. u.hour.bytes = bytes(p)
        BY <1>6, <1>12, <3>3
      <4>2. bytes(p) + flight(p) * MaxBytes < MostBytes
        BY <1>8, <3>3, <4>1
      <4> HIDE DEF bytes, flight
      <4> QED
        BY <1>5, <1>6, <1>7, <1>10, <1>12, <2>1, <2>3, <3>1, <4>1, <4>2
    <3> QED
      BY <3>2, <3>3
  <2>5. \A q \in Procs \ {p} : Held(q)'
    BY <1>11, <1>15 DEF Response, Others
  <2> QED
    BY <2>4, <2>5
<1> QED
  BY <1>1, <1>13, <1>14, <1>15, RequestEffect

LEMMA RequestQuiet ==
    ASSUME BudgetInv, NEW p \in Procs, NEW w \in Workers(p), Request(p, w)
    PROVE  QuietInv'
<1>1. BudgetTypeOK /\ QuietInv
  BY DEF BudgetInv
<1>2. proc[p] \in ProcStates /\ DOMAIN proc = Procs
  BY SMTT(40), <1>1 DEF BudgetTypeOK
<1>3. proc[p].pc = "running"
  BY <1>1 DEF QuietInv, Quiet, Request, Take, Admit, Refuse, Cancelled, Send, Respond, Lose,
              JudgePage, JudgeFile, At
<1>4. proc'[p].pc = "running" /\ \A q \in Procs \ {p} : proc'[q] = proc[q]
  <2>1. \/ UNCHANGED proc
        \/ Breaks(p)
        \/ proc' = [proc EXCEPT ![p].left = @ - 1]
    BY DEF Request, Take, Admit, Refuse, Cancelled, Send, Respond, Lose, JudgePage, JudgeFile,
           RetryOrGiveUp
  <2> QED
    BY <1>2, <1>3, <2>1 DEF Breaks, ProcStates
<1>5. \E r : Goes(p, w, r)
  BY DEF Request, Take, Admit, Refuse, Cancelled, Send, Respond, Lose, JudgePage, JudgeFile,
         RetryOrGiveUp
<1>6. \A q \in Procs \ {p} : work'[q] = work[q]
  BY <1>1, <1>5 DEF Goes, BudgetTypeOK
<1> QED
  BY <1>1, <1>4, <1>6 DEF QuietInv, Quiet

\* What the start and the end of a run, a snapshot and a crash do to a limiter.
LEMMA RunEffect ==
    ASSUME BudgetInv, NEW p \in Procs,
           Launch(p) \/ StartRun(p) \/ EndBatch(p) \/ Crash(p) \/ Interrupt(p)
    PROVE  /\ \A q \in Procs : InFlight(q)' \subseteq InFlight(q)
           /\ \A q \in Procs \ {p} : limit'[q] = limit[q]
           /\ \/ limit'[p] = limit[p] /\ stored' = stored
              \/ limit'[p] = NewLimiter /\ stored' = stored
              \/ /\ limit'[p] = Restored(limit[p], hour, stored)
                 /\ stored' = stored
                 /\ InFlight(p)' = {}
              \/ /\ limit'[p] = [limit[p] EXCEPT !.usage = Rolled(limit[p].usage, hour)]
                 /\ stored' \in {stored, Saved(Rolled(limit[p].usage, hour))}
<1>1. BudgetTypeOK /\ QuietInv /\ limit \in [Procs -> Limiters] /\ DOMAIN work = Procs
  BY DEF BudgetInv, BudgetTypeOK
<1>2. CASE Launch(p)
  BY <1>1, <1>2 DEF Launch, InFlight
<1>3. CASE StartRun(p)
  <2>1. InFlight(p) = {}
    BY <1>1, <1>3 DEF StartRun, QuietInv, Quiet, InFlight
  <2>2. \A q \in Procs : InFlight(q)' = InFlight(q)
    BY <1>3 DEF StartRun, InFlight
  <2> QED
    BY <1>1, <1>3, <2>1, <2>2 DEF StartRun
<1>4. CASE EndBatch(p)
  <2>1. \A q \in Procs : InFlight(q)' = InFlight(q)
    BY <1>4 DEF EndBatch, InFlight
  <2>2. Persist(p) \/ UNCHANGED <<limit, stored>>
    BY <1>4 DEF EndBatch
  <2> QED
    BY <1>1, <2>1, <2>2, PersistTyped
<1>5. CASE Crash(p)
  <2>1. \A q \in Procs \ {p} : InFlight(q)' = InFlight(q)
    BY <1>1, <1>5 DEF Crash, InFlight
  <2>2. InFlight(p)' = {}
    BY <1>1, <1>5 DEF Crash, InFlight, NoWork
  <2> QED
    BY <1>1, <1>5, <2>1, <2>2 DEF Crash
<1>6. CASE Interrupt(p)
  BY <1>1, <1>6 DEF Interrupt, InFlight
<1> QED
  BY <1>2, <1>3, <1>4, <1>5, <1>6

LEMMA RunSusp ==
    ASSUME BudgetInv, NEW p \in Procs,
           Launch(p) \/ StartRun(p) \/ EndBatch(p) \/ Crash(p) \/ Interrupt(p)
    PROVE  SuspInv'
<1>1. BudgetTypeOK /\ SuspInv /\ limit \in [Procs -> Limiters]
  BY DEF BudgetInv, BudgetTypeOK
<1>2. hour \in Nat \ {0} /\ stored \in Usage
  BY <1>1, BudgetConstants DEF BudgetTypeOK
<1>3. ASSUME NEW q \in Procs
      PROVE  limit'[q].throttled \in {0, limit[q].throttled}
  <2>1. CASE q # p
    BY <2>1, RunEffect
  <2>2. CASE q = p
    <3>1. limit[p] \in Limiters
      BY <1>1
    <3>2. NewLimiter.throttled = 0
      BY DEF NewLimiter
    <3>3. Restored(limit[p], hour, stored).throttled = limit[p].throttled
      BY <1>2, <3>1, RestoredTyped
    <3>4. \A u : [limit[p] EXCEPT !.usage = u].throttled = limit[p].throttled
      BY <3>1 DEF Limiters
    <3>5. \/ limit'[p] = limit[p]
          \/ limit'[p] = NewLimiter
          \/ limit'[p] = Restored(limit[p], hour, stored)
          \/ limit'[p] = [limit[p] EXCEPT !.usage = Rolled(limit[p].usage, hour)]
      BY RunEffect
    <3>6. limit'[p].throttled \in {0, limit[p].throttled}
      BY <3>2, <3>3, <3>4, <3>5, Zenon
    <3> QED
      BY <2>2, <3>6
  <2> QED
    BY <2>1, <2>2
<1>4. ASSUME NEW q \in Procs
      PROVE  \/ limit'[q].throttled < Threshold
             \/ limit'[q].throttled + Cardinality(InFlight(q))'
                  < Threshold + Cardinality(Workers(q))
  <2>1. limit[q].throttled \in Nat
    BY <1>1 DEF Limiters
  <2>2. /\ Cardinality(InFlight(q))' \in Nat
        /\ Cardinality(InFlight(q)) \in Nat
        /\ Cardinality(InFlight(q))' <= Cardinality(InFlight(q))
    BY <1>1, RunEffect, FewerInFlight, InFlightFinite
  <2> QED
    BY <1>1, <1>3, <2>1, <2>2, WorkersFinite, LimiterConstants DEF SuspInv
<1> QED
  BY <1>4 DEF SuspInv, Workers

LEMMA RunRequests ==
    ASSUME BudgetInv, NEW p \in Procs,
           Launch(p) \/ StartRun(p) \/ EndBatch(p) \/ Crash(p) \/ Interrupt(p)
    PROVE  RequestsInv'
<1>1. BudgetTypeOK /\ RequestsInv /\ limit[p] \in Limiters /\ limit[p].usage \in Usage
  BY DEF BudgetInv, BudgetTypeOK, Limiters
<1>2. hour \in Nat \ {0} /\ stored \in Usage
  BY <1>1, BudgetConstants DEF BudgetTypeOK
<1> DEFINE u == Rolled(limit[p].usage, hour)
<1>3. u \in Usage /\ RequestsWithin(u)
  BY <1>1, <1>2, RolledWithin DEF RequestsInv
<1> HIDE DEF u
<1>4. RequestsWithin(Saved(u))
  BY <1>1, <1>3 DEF RequestsInv, RequestsWithin, Saved
<1>5. RequestsWithin(Restored(limit[p], hour, stored).usage)
  BY <1>1, <1>2, RestoredTyped DEF RequestsInv, RequestsWithin
<1>6. RequestsWithin(NewLimiter.usage)
  BY LimiterConstants DEF RequestsWithin, NewLimiter, NoUsage
<1>7. [limit[p] EXCEPT !.usage = u].usage = u
  BY <1>1 DEF Limiters
<1>8. RequestsWithin(limit'[p].usage) /\ RequestsWithin(stored')
  BY <1>1, <1>3, <1>4, <1>5, <1>6, <1>7, RunEffect DEF u, RequestsInv
<1> QED
  BY <1>1, <1>8, RunEffect DEF RequestsInv

LEMMA RunBytes ==
    ASSUME BudgetInv, NEW p \in Procs,
           Launch(p) \/ StartRun(p) \/ EndBatch(p) \/ Crash(p) \/ Interrupt(p)
    PROVE  BytesInv'
<1> SUFFICES ASSUME BytesHourly > 0 PROVE BytesInv'
  BY DEF BytesInv
<1>1. BudgetTypeOK /\ BytesInv /\ limit \in [Procs -> Limiters]
  BY DEF BudgetInv, BudgetTypeOK
<1>2. /\ hour \in Nat \ {0} /\ stored \in Usage
      /\ limit[p] \in Limiters /\ limit[p].usage \in Usage
  BY <1>1, BudgetConstants DEF BudgetTypeOK, Limiters
<1> DEFINE bytes(q) == limit[q].usage.hour.bytes
           flight(q) == Cardinality(InFlight(q))
           Held(q) == \/ bytes(q) < BytesHourly
                      \/ bytes(q) + flight(q) * MaxBytes < MostBytes
           u == Rolled(limit[p].usage, hour)
<1>3. limit' \in [Procs -> Limiters]
  BY <1>1, RunTyped DEF BudgetTypeOK
<1>4. \A q \in Procs : bytes(q) \in Nat /\ bytes(q)' \in Nat
  BY <1>1, <1>3 DEF Limiters, Usage, Hour
<1>5. Pool \in Nat /\ MaxBytes \in Nat /\ BytesHourly \in Nat /\ Pool * MaxBytes \in Nat
  BY WorkersFinite, BudgetConstants, LimiterConstants, TimesMaxBytes
<1>6. MostBytes \in Nat /\ MostBytes >= BytesHourly /\ MostBytes' = MostBytes
  BY <1>5 DEF MostBytes, Pool
<1>7. \A q \in Procs : Held(q)
  BY <1>1 DEF BytesInv
<1>8. \A q \in Procs : /\ flight(q)' \in Nat /\ flight(q) \in Nat
                       /\ flight(q)' * MaxBytes \in Nat
                       /\ flight(q) * MaxBytes \in Nat
                       /\ flight(q)' * MaxBytes <= flight(q) * MaxBytes
  <2> SUFFICES ASSUME NEW q \in Procs
               PROVE  /\ flight(q)' \in Nat /\ flight(q) \in Nat
                      /\ flight(q)' * MaxBytes \in Nat
                      /\ flight(q) * MaxBytes \in Nat
                      /\ flight(q)' * MaxBytes <= flight(q) * MaxBytes
    OBVIOUS
  <2>1. flight(q)' \in Nat /\ flight(q) \in Nat /\ flight(q)' <= flight(q)
    BY <1>1, RunEffect, FewerInFlight, InFlightFinite
  <2> QED
    BY <2>1, TimesMaxBytes
<1>9. \A q \in Procs : bytes(q) < MostBytes
  <2> HIDE DEF bytes, flight
  <2> QED
    BY SMTT(40), <1>4, <1>5, <1>6, <1>7, <1>8
<1>10. ASSUME NEW q \in Procs, bytes(q)' = bytes(q)
       PROVE  Held(q)'
  <2> HIDE DEF bytes, flight
  <2> QED
    BY <1>4, <1>6, <1>7, <1>8, <1>10
<1>11. u \in Usage /\ u.hour.bytes \in {0, bytes(p)}
  BY <1>2, RolledTyped
<1>12. stored.hour.bytes < MostBytes /\ stored.hour.bytes \in Nat
  BY <1>1, <1>2 DEF BytesInv, Usage, Hour
<1>13. stored'.hour.bytes < MostBytes
  <2>1. Saved(u).hour.bytes \in {u.hour.bytes, stored.hour.bytes}
    BY DEF Saved
  <2>2. stored' \in {stored, Saved(u)}
    BY RunEffect
  <2>3. 0 < MostBytes
    BY <1>5, <1>6
  <2> QED
    BY <1>9, <1>11, <1>12, <2>1, <2>2, <2>3
<1>14. Held(p)'
  <2>1. CASE limit'[p] = limit[p]
    BY <1>10, <2>1
  <2>2. CASE limit'[p] = NewLimiter
    BY <2>2 DEF NewLimiter, NoUsage
  <2>3. CASE limit'[p] = Restored(limit[p], hour, stored) /\ InFlight(p)' = {}
    <3>1. bytes(p)' \in {stored.hour.bytes, bytes(p)}
      BY <1>2, <2>3, RestoredTyped
    <3>2. flight(p)' = 0
      BY <2>3, FS_EmptySet
    <3>3. bytes(p)' + flight(p)' * MaxBytes = bytes(p)'
      BY <1>4, <1>5, <3>2
    <3> QED
      BY <1>6, <1>9, <1>12, <3>1, <3>3
  <2>4. CASE limit'[p] = [limit[p] EXCEPT !.usage = u]
    <3>1. limit'[p].usage = u
      BY <1>2, <2>4 DEF Limiters
    <3>2. bytes(p)' \in {0, bytes(p)}
      BY <1>11, <3>1
    <3> QED
      BY <1>5, <1>10, <3>2
  <2> QED
    BY <2>1, <2>2, <2>3, <2>4, RunEffect
<1>15. \A q \in Procs \ {p} : Held(q)'
  BY <1>10, RunEffect
<1> QED
  BY <1>6, <1>13, <1>14, <1>15 DEF BytesInv

LEMMA RunQuiet ==
    ASSUME BudgetInv, NEW p \in Procs,
           Launch(p) \/ StartRun(p) \/ EndBatch(p) \/ Crash(p) \/ Interrupt(p)
    PROVE  QuietInv'
<1>1. BudgetTypeOK /\ QuietInv /\ DOMAIN work = Procs /\ proc \in [Procs -> ProcStates]
  BY DEF BudgetInv, BudgetTypeOK
<1>2. \A q \in Procs \ {p} : proc'[q] = proc[q] /\ work'[q] = work[q]
  BY <1>1 DEF Launch, StartRun, EndBatch, Crash, Interrupt
<1>3. proc'[p].pc # "running" => Quiet(p)'
  <2>1. CASE Launch(p)
    BY <1>1, <2>1 DEF Launch, QuietInv, Quiet
  <2>2. CASE StartRun(p)
    BY <1>1, <2>2 DEF StartRun
  <2>3. CASE EndBatch(p)
    BY <2>3 DEF EndBatch, Quiet
  <2>4. CASE Crash(p)
    BY <1>1, <2>4 DEF Crash, Quiet, NoWork
  <2>5. CASE Interrupt(p)
    BY <1>1, <2>5 DEF Interrupt, ProcStates
  <2> QED
    BY <2>1, <2>2, <2>3, <2>4, <2>5
<1>4. ASSUME NEW q \in Procs \ {p} PROVE proc'[q].pc # "running" => Quiet(q)'
  BY <1>1, <1>2 DEF QuietInv, Quiet, Workers
<1> QED
  BY <1>3, <1>4 DEF QuietInv

LEMMA BudgetStep == BudgetInv /\ [BudgetNext]_bvars => BudgetInv'
<1> SUFFICES ASSUME BudgetInv, [BudgetNext]_bvars PROVE BudgetInv'
  OBVIOUS
<1>1. CASE UNCHANGED bvars
  BY <1>1 DEF bvars, BudgetInv, BudgetTypeOK, QuietInv, Quiet, SuspInv, InFlight, RequestsInv,
              RequestsWithin, BytesInv, MostBytes, Pool
<1>2. CASE Tick
  <2>1. BudgetTypeOK'
    BY <1>2, TickTyped DEF BudgetInv
  <2> QED
    BY <1>2, <2>1 DEF Tick, BudgetInv, QuietInv, Quiet, SuspInv, InFlight, RequestsInv,
                      RequestsWithin, BytesInv, MostBytes, Pool
<1>3. ASSUME NEW p \in Procs,
             Launch(p) \/ StartRun(p) \/ EndBatch(p) \/ Crash(p) \/ Interrupt(p)
      PROVE  BudgetInv'
  BY <1>3, RunTyped, RunQuiet, RunSusp, RunRequests, RunBytes DEF BudgetInv
<1>4. ASSUME NEW p \in Procs, NEW w \in Workers(p), Request(p, w)
      PROVE  BudgetInv'
  BY <1>4, RequestTyped, RequestQuiet, RequestSusp, RequestRequests, RequestBytes DEF BudgetInv
<1> QED
  BY <1>1, <1>2, <1>3, <1>4 DEF BudgetNext

LEMMA BudgetInvariant == BudgetSpec => []BudgetInv
<1>1. BudgetInit => BudgetInv
  <2> SUFFICES ASSUME BudgetInit PROVE BudgetInv
    OBVIOUS
  <2>1. BudgetTypeOK
    BY BudgetInitTyped
  <2>2. QuietInv
    BY DEF BudgetInit, QuietInv, Quiet, NoWork
  <2>3. SuspInv
    BY LimiterConstants DEF BudgetInit, SuspInv, NewLimiter
  <2>4. RequestsInv
    BY LimiterConstants DEF BudgetInit, RequestsInv, RequestsWithin, NewLimiter, NoUsage
  <2>5. BytesInv
    <3> SUFFICES ASSUME BytesHourly > 0 PROVE BytesInv
      BY DEF BytesInv
    <3>1. stored.hour.bytes = 0 /\ \A p \in Procs : limit[p].usage.hour.bytes = 0
      BY DEF BudgetInit, NewLimiter, NoUsage
    <3>2. 0 < MostBytes
      <4>1. Pool \in Nat
        BY BudgetConstants DEF Pool
      <4>2. Pool * MaxBytes \in Nat
        BY <4>1, TimesMaxBytes
      <4> QED
        BY <4>2, LimiterConstants DEF MostBytes
    <3> QED
      BY <3>1, <3>2 DEF BytesInv
  <2> QED
    BY <2>1, <2>2, <2>3, <2>4, <2>5 DEF BudgetInv
<1> QED
  BY <1>1, BudgetStep, PTL DEF BudgetSpec

\* However many processes share the table, a process sends a suspended token
\* fewer than Threshold + the number of its workers requests that are refused
\* in a row: the circuit lets nothing more through, and neither a restore nor a
\* late response of another kind resets it (Wait and RecordResponse in
\* ratelimit/limiter.go).
THEOREM SuspensionIsRespected == BudgetSpec => []SuspensionRespected
<1>1. BudgetInv => SuspensionRespected
  <2> SUFFICES ASSUME BudgetInv, NEW p \in Procs
               PROVE  limit[p].throttled < Threshold + Cardinality(Workers(p))
    BY DEF SuspensionRespected
  <2>1. limit[p].throttled \in Nat
    BY DEF BudgetInv, BudgetTypeOK, Limiters
  <2> QED
    BY <2>1, InFlightFinite, WorkersFinite, LimiterConstants DEF BudgetInv, SuspInv
<1> QED
  BY <1>1, BudgetInvariant, PTL

\* Whatever crashes, restores and restarts there are, no limiter admits a
\* request beyond its windows, and the bytes of an hour exceed their budget by
\* less than what the pool had under way (Wait and Restore in
\* ratelimit/limiter.go, SetRateBudget in the store).
THEOREM WindowsAreHonoured == BudgetSpec => []WindowsHonoured
<1>1. BudgetInv => WindowsHonoured
  <2> SUFFICES ASSUME BudgetInv, NEW p \in Procs, BytesHourly > 0
               PROVE  limit[p].usage.hour.bytes < BytesHourly + Pool * MaxBytes
    BY DEF WindowsHonoured, BudgetInv, RequestsInv, RequestsWithin
  <2>1. limit[p].usage.hour.bytes \in Nat
    BY DEF BudgetInv, BudgetTypeOK, Limiters, Usage, Hour
  <2>2. Cardinality(InFlight(p)) * MaxBytes \in Nat /\ Pool * MaxBytes \in Nat
    BY InFlightFinite, WorkersFinite, TimesMaxBytes
  <2>3. \/ limit[p].usage.hour.bytes < BytesHourly
        \/ limit[p].usage.hour.bytes + Cardinality(InFlight(p)) * MaxBytes
             < BytesHourly + Pool * MaxBytes
    BY DEF BudgetInv, BytesInv, MostBytes
  <2> QED
    BY <2>1, <2>2, <2>3, LimiterConstants
<1> QED
  BY <1>1, BudgetInvariant, PTL

-----------------------------------------------------------------------------
(* The server's account, when one process after the other uses the token.   *)

\* The requests that are about to be sent, and those that are still to be.
Admitted(p) == {w \in Workers(p) : work[p][w].pc = "admitted"}
Unsent(p) == {w \in Workers(p) : work[p][w].pc \in {"wait", "admitted"}}

\* What a set of counts says of the current hour and day.
InHour(u) == IF u.hour.start = hour THEN u.hour.requests ELSE 0
InDay(u) == IF u.day.start = DayStart(hour) THEN u.day.requests ELSE 0

\* The attempts at a page so far, the one under way or waiting included: each of
\* the others has left a 429, a try or the rebuilt URL behind.
Attempts(r, throttled) ==
    throttled + r.tries + (IF r.rebuilt THEN Max5xx + 1 ELSE 0)
      + (IF r.pc = "judge" /\ r.result = "throttled" THEN 0 ELSE 1)

\* How many requests the table may not know of yet.
Risked(p) ==
    IF proc[p].pc # "running" THEN 0
    ELSE IF p \in Downloaders THEN Batch - proc[p].left
    ELSE IF proc[p].left > 0 THEN 0
    ELSE IF work[p][1].pc = "none" THEN AtRisk(p)
    ELSE Attempts(work[p][1], limit[p].throttled)

\* One page at a time.
OnePage(p) ==
    p \notin Downloaders =>
        /\ proc[p].left <= 1
        /\ work[p][1].pc # "none" => proc[p].left = 0

\* What the server has seen and is about to see is in the table, or at risk, or
\* hidden, or was admitted before the window began; and the limiter that admits
\* knows of all but the last two.
HourKept(p) ==
    /\ served.hour + Cardinality(Unsent(p))
         <= InHour(stored) + Risked(p) + hidden.hour + Pool
    /\ proc[p].pc = "running" =>
         served.hour + Cardinality(Admitted(p))
           <= InHour(limit[p].usage) + hidden.hour + Pool

DayKept(p) ==
    /\ served.day + Cardinality(Unsent(p))
         <= InDay(stored) + Risked(p) + hidden.day + Pool
    /\ proc[p].pc = "running" =>
         served.day + Cardinality(Admitted(p))
           <= InDay(limit[p].usage) + hidden.day + Pool

Kept(p) == (Hourly > 0 => HourKept(p)) /\ (Daily > 0 => DayKept(p))

\* No process but p is up.
Lone(p) == \A q \in Procs : q # p => proc[q].pc = "down"

AccountInv ==
    /\ stored.hour.start <= hour
    /\ stored.day.start <= DayStart(hour)
    /\ \A p \in Procs : Lone(p) \/ proc[p].pc = "down"
    /\ \A p \in Procs : OnePage(p)
    /\ \A p \in Procs : Lone(p) => Kept(p)

\* A multiple and what is left over determine the remainder.
LEMMA RemainderUnique ==
    ASSUME NEW n \in Int, NEW H \in Nat \ {0}, NEW q \in Int, NEW s \in 0..(H - 1),
           n = H * q + s
    PROVE  n % H = s
<1> DEFINE p == n \div H
           r == n % H
<1>1. p \in Int /\ r \in 0..(H - 1) /\ n = H * p + r
  BY Z3
<1>2. /\ H * (p - q) = H * p - H * q
      /\ H * (q - p) = H * q - H * p
      /\ H * p \in Int /\ H * q \in Int
  BY <1>1, Z3
<1>3. \A k \in Int : k >= 1 => H * k >= H /\ H * k \in Int
  BY Z3
<1>4. CASE p - q >= 1
  <2>1. H * (p - q) >= H
    BY <1>1, <1>3, <1>4
  <2> HIDE DEF p, r
  <2> QED
    BY <1>1, <1>2, <2>1
<1>5. CASE q - p >= 1
  <2>1. H * (q - p) >= H
    BY <1>1, <1>3, <1>5
  <2> HIDE DEF p, r
  <2> QED
    BY <1>1, <1>2, <2>1
<1>6. CASE p = q
  <2> HIDE DEF p, r
  <2>1. r = s
    BY <1>1, <1>2, <1>6
  <2> QED
    BY <2>1 DEF r
<1> HIDE DEF p
<1> QED
  BY <1>1, <1>4, <1>5, <1>6

\* Days begin in order.
LEMMA DaysInOrder ==
    ASSUME NEW now \in Nat \ {0}
    PROVE  DayStart(now) \in Nat /\ DayStart(now) <= DayStart(now + 1)
<1> DEFINE x == now - 1
           q == x \div HoursPerDay
           r == x % HoursPerDay
<1>1. x \in Nat
  OBVIOUS
<1>2. q \in Int /\ r \in 0..(HoursPerDay - 1) /\ x = HoursPerDay * q + r
  BY <1>1, LimiterConstants, Z3
<1>3. (x + 1) % HoursPerDay <= r + 1
  <2> HIDE DEF x, q, r
  <2>1. CASE r + 1 < HoursPerDay
    <3>1. x + 1 = HoursPerDay * q + (r + 1) /\ r + 1 \in 0..(HoursPerDay - 1)
      BY <1>1, <1>2, <2>1, LimiterConstants
    <3>2. (x + 1) % HoursPerDay = r + 1
      BY <1>1, <1>2, <3>1, RemainderUnique, LimiterConstants
    <3> QED
      BY <1>2, <3>2
  <2>2. CASE r + 1 = HoursPerDay
    <3>1. x + 1 = HoursPerDay * (q + 1) + 0
      BY <1>1, <1>2, <2>2, LimiterConstants, Z3
    <3>2. (x + 1) % HoursPerDay = 0
      BY <1>1, <1>2, <3>1, RemainderUnique, LimiterConstants
    <3> QED
      BY <1>2, <3>2
  <2> QED
    BY <1>2, <2>1, <2>2, LimiterConstants
<1>4. DayStart(now) \in Nat /\ DayStart(now + 1) \in Nat
  BY DayStartTyped
<1>5. DayStart(now) = now - r /\ DayStart(now + 1) = now + 1 - ((x + 1) % HoursPerDay)
  <2>1. DayStart(now) = now - r /\ DayStart(now + 1) = now + 1 - ((now + 1 - 1) % HoursPerDay)
    BY LimiterConstants DEF DayStart
  <2>2. now + 1 - 1 = x + 1
    OBVIOUS
  <2> HIDE DEF x, r
  <2> QED
    BY <2>1, <2>2
<1>6. (x + 1) % HoursPerDay \in Nat /\ r \in Nat
  BY <1>1, <1>2, LimiterConstants
<1> HIDE DEF x, q, r
<1> QED
  BY <1>3, <1>4, <1>5, <1>6

LEMMA AdmittedFinite ==
    ASSUME NEW p \in Procs
    PROVE  /\ IsFiniteSet(Admitted(p))
           /\ Cardinality(Admitted(p)) \in Nat
           /\ Cardinality(Admitted(p)) <= Pool
BY WorkersFinite, FS_Subset, FS_CardinalityType DEF Admitted

LEMMA UnsentFinite ==
    ASSUME NEW p \in Procs
    PROVE  /\ IsFiniteSet(Unsent(p))
           /\ Cardinality(Unsent(p)) \in Nat
           /\ Cardinality(Unsent(p)) <= Pool
BY WorkersFinite, FS_Subset, FS_CardinalityType DEF Unsent

\* What a step of one request does to the requests that are about to be sent.
LEMMA AdmittedStep ==
    ASSUME BudgetTypeOK, NEW p \in Procs, NEW w \in Workers(p), NEW r \in WorkStates,
           Goes(p, w, r)
    PROVE  /\ Cardinality(Admitted(p))' \in Nat
           /\ Cardinality(Admitted(p))' <= Cardinality(Admitted(p)) + 1
           /\ r.pc # "admitted" =>
                Cardinality(Admitted(p))' <= Cardinality(Admitted(p))
           /\ r.pc # "admitted" /\ At(p, w, "admitted") =>
                Cardinality(Admitted(p))' = Cardinality(Admitted(p)) - 1
<1>1. work' = [work EXCEPT ![p] = [work[p] EXCEPT ![w] = r]]
  BY DEF Goes
<1>2. work[p] \in [Workers(p) -> WorkStates] /\ DOMAIN work = Procs
  BY DEF BudgetTypeOK
<1>3. \A v \in Workers(p) : work'[p][v] = IF v = w THEN r ELSE work[p][v]
  BY <1>1, <1>2
<1>4. IsFiniteSet(Admitted(p)) /\ Cardinality(Admitted(p)) \in Nat
  BY AdmittedFinite
<1>5. CASE r.pc = "admitted"
  <2>1. Admitted(p)' = Admitted(p) \cup {w}
    BY <1>3, <1>5 DEF Admitted
  <2>2. \/ Cardinality(Admitted(p) \cup {w}) = Cardinality(Admitted(p))
        \/ Cardinality(Admitted(p) \cup {w}) = Cardinality(Admitted(p)) + 1
    BY <1>4, FS_AddElement
  <2> QED
    BY <1>4, <1>5, <2>1, <2>2
<1>6. CASE r.pc # "admitted"
  <2>1. Admitted(p)' = Admitted(p) \ {w}
    BY <1>3, <1>6 DEF Admitted
  <2>2. Cardinality(Admitted(p) \ {w}) =
          IF w \in Admitted(p) THEN Cardinality(Admitted(p)) - 1 ELSE Cardinality(Admitted(p))
    BY <1>4, FS_RemoveElement
  <2>3. Cardinality(Admitted(p) \ {w}) \in Nat
    BY <1>4, FS_RemoveElement, FS_CardinalityType
  <2>4. At(p, w, "admitted") => w \in Admitted(p)
    BY DEF At, Admitted
  <2> QED
    BY <1>4, <1>6, <2>1, <2>2, <2>3, <2>4
<1> QED
  BY <1>5, <1>6

\* And to those still to be sent.
LEMMA UnsentStep ==
    ASSUME BudgetTypeOK, NEW p \in Procs, NEW w \in Workers(p), NEW r \in WorkStates,
           Goes(p, w, r)
    PROVE  /\ Cardinality(Unsent(p))' \in Nat
           /\ Cardinality(Unsent(p))' <= Cardinality(Unsent(p)) + 1
           /\ r.pc \notin {"wait", "admitted"} =>
                Cardinality(Unsent(p))' <= Cardinality(Unsent(p))
           /\ work[p][w].pc \in {"wait", "admitted"} =>
                Cardinality(Unsent(p))' <= Cardinality(Unsent(p))
           /\ r.pc \notin {"wait", "admitted"} /\ work[p][w].pc \in {"wait", "admitted"} =>
                Cardinality(Unsent(p))' = Cardinality(Unsent(p)) - 1
<1>1. work' = [work EXCEPT ![p] = [work[p] EXCEPT ![w] = r]]
  BY DEF Goes
<1>2. work[p] \in [Workers(p) -> WorkStates] /\ DOMAIN work = Procs
  BY DEF BudgetTypeOK
<1>3. \A v \in Workers(p) : work'[p][v] = IF v = w THEN r ELSE work[p][v]
  BY <1>1, <1>2
<1>4. IsFiniteSet(Unsent(p)) /\ Cardinality(Unsent(p)) \in Nat
  BY UnsentFinite
<1>5. work[p][w].pc \in {"wait", "admitted"} => w \in Unsent(p)
  BY DEF Unsent
<1>6. CASE r.pc \in {"wait", "admitted"}
  <2>1. Unsent(p)' = Unsent(p) \cup {w}
    BY <1>3, <1>6 DEF Unsent
  <2>2. \/ Cardinality(Unsent(p) \cup {w}) = Cardinality(Unsent(p))
        \/ Cardinality(Unsent(p) \cup {w}) = Cardinality(Unsent(p)) + 1
    BY <1>4, FS_AddElement
  <2>3. /\ Cardinality(Unsent(p))' \in Nat
        /\ Cardinality(Unsent(p))' <= Cardinality(Unsent(p)) + 1
    BY <1>4, <2>1, <2>2
  <2>4. w \in Unsent(p) => Unsent(p)' = Unsent(p)
    BY <2>1
  <2>5. w \in Unsent(p) => Cardinality(Unsent(p))' <= Cardinality(Unsent(p))
    BY <1>4, <2>4
  <2> QED
    BY <1>5, <1>6, <2>3, <2>5
<1>7. CASE r.pc \notin {"wait", "admitted"}
  <2>1. Unsent(p)' = Unsent(p) \ {w}
    BY <1>3, <1>7 DEF Unsent
  <2>2. Cardinality(Unsent(p) \ {w}) =
          IF w \in Unsent(p) THEN Cardinality(Unsent(p)) - 1 ELSE Cardinality(Unsent(p))
    BY <1>4, FS_RemoveElement
  <2>3. Cardinality(Unsent(p) \ {w}) \in Nat
    BY <1>4, FS_RemoveElement, FS_CardinalityType
  <2> QED
    BY <1>4, <1>5, <1>7, <2>1, <2>2, <2>3
<1> QED
  BY <1>6, <1>7

\* A window that is rolled goes on counting.
LEMMA RolledCounts ==
    ASSUME NEW u \in Usage, hour \in Nat \ {0}
    PROVE  /\ InHour(u) \in Nat /\ InDay(u) \in Nat
           /\ InHour(Rolled(u, hour)) = InHour(u)
           /\ InDay(Rolled(u, hour)) = InDay(u)
           /\ Rolled(u, hour).hour.start = hour
           /\ Rolled(u, hour).day.start = DayStart(hour)
BY DayStartTyped DEF Rolled, InHour, InDay, Usage, Hour, Day

LEMMA CountedCounts ==
    ASSUME NEW l \in Limiters, hour \in Nat \ {0}
    PROVE  /\ InHour(Counted(l, hour).usage) = InHour(l.usage) + 1
           /\ InDay(Counted(l, hour).usage) = InDay(l.usage) + 1
<1> DEFINE u == Rolled(l.usage, hour)
<1>1. /\ u \in Usage
      /\ InHour(u) = InHour(l.usage) /\ InDay(u) = InDay(l.usage)
      /\ u.hour.start = hour /\ u.day.start = DayStart(hour)
  BY RolledTyped, RolledCounts DEF Limiters
<1>2. Counted(l, hour).usage = [hour |-> [u.hour EXCEPT !.requests = @ + 1],
                                day |-> [u.day EXCEPT !.requests = @ + 1]]
  BY DEF Counted, Limiters
<1> HIDE DEF u
<1>3. /\ Counted(l, hour).usage.hour.start = hour
      /\ Counted(l, hour).usage.hour.requests = u.hour.requests + 1
      /\ Counted(l, hour).usage.day.start = DayStart(hour)
      /\ Counted(l, hour).usage.day.requests = u.day.requests + 1
  BY <1>1, <1>2 DEF Usage, Hour, Day
<1> QED
  BY <1>1, <1>3 DEF InHour, InDay

LEMMA RecordedCounts ==
    ASSUME NEW l \in Limiters, hour \in Nat \ {0}, NEW bytes \in Nat, NEW result \in Results
    PROVE  /\ InHour(Recorded(l, hour, bytes, result).usage) = InHour(l.usage)
           /\ InDay(Recorded(l, hour, bytes, result).usage) = InDay(l.usage)
<1> DEFINE u == Rolled(l.usage, hour)
<1>1. /\ u \in Usage
      /\ InHour(u) = InHour(l.usage) /\ InDay(u) = InDay(l.usage)
  BY RolledTyped, RolledCounts DEF Limiters
<1>2. Recorded(l, hour, bytes, result).usage = [u EXCEPT !.hour.bytes = @ + bytes]
  BY DEF Recorded
<1> HIDE DEF u
<1>3. LET v == Recorded(l, hour, bytes, result).usage
      IN  v.hour.start = u.hour.start /\ v.hour.requests = u.hour.requests /\ v.day = u.day
  BY <1>1, <1>2 DEF Usage, Hour
<1> QED
  BY <1>1, <1>3 DEF InHour, InDay

\* What a run takes over counts at least as much as the table.
LEMMA RestoredCounts ==
    ASSUME NEW l \in Limiters, NEW u \in Usage, hour \in Nat \ {0}
    PROVE  /\ InHour(Restored(l, hour, u).usage) >= InHour(u)
           /\ InDay(Restored(l, hour, u).usage) >= InDay(u)
<1>1. /\ Restored(l, hour, u).usage.hour =
           IF u.hour.start = hour THEN u.hour ELSE l.usage.hour
      /\ Restored(l, hour, u).usage.day =
           IF u.day.start = DayStart(hour) THEN u.day ELSE l.usage.day
  BY DEF Restored, Limiters, Usage
<1>2. Restored(l, hour, u).usage \in Usage
  BY RestoredTyped DEF Limiters
<1>3. /\ InHour(Restored(l, hour, u).usage) \in Nat /\ InHour(u) \in Nat
      /\ InDay(Restored(l, hour, u).usage) \in Nat /\ InDay(u) \in Nat
  BY <1>2, RolledCounts
<1> QED
  BY <1>1, <1>3 DEF InHour, InDay

\* A snapshot of the current windows replaces what the table held.
LEMMA SavedCounts ==
    ASSUME stored.hour.start <= hour, stored.day.start <= DayStart(hour),
           NEW u \in Usage, u.hour.start = hour, u.day.start = DayStart(hour)
    PROVE  Saved(u) = u
<1>1. u = [hour |-> u.hour, day |-> u.day]
  BY DEF Usage
<1> QED
  BY <1>1 DEF Saved

\* The attempts at a page are bounded: a 429 opens the circuit after Threshold,
\* an error is retried Max5xx times, and the URL is rebuilt once.
LEMMA RiskBounded ==
    ASSUME BudgetInv, NEW p \in Procs, OnePage(p)
    PROVE  /\ Risked(p) \in Nat
           /\ Risked(p) <= AtRisk(p)
           /\ AtRisk(p) \in Nat
<1>1. AtRisk(p) \in Nat
  BY BudgetConstants, LimiterConstants DEF AtRisk
<1>2. CASE p \in Downloaders
  <2>1. proc[p].left \in 0..Batch
    BY DEF BudgetInv, BudgetTypeOK, ProcStates
  <2> QED
    BY <1>1, <1>2, <2>1, BudgetConstants DEF Risked, AtRisk
<1>3. CASE p \notin Downloaders
  <2>1. Workers(p) = {1}
    BY <1>3 DEF Workers
  <2>2. /\ work[p][1] \in WorkStates /\ limit[p].throttled \in Nat
    BY <2>1 DEF BudgetInv, BudgetTypeOK, Limiters
  <2>3. Cardinality(Workers(p)) = 1 /\ Cardinality(InFlight(p)) \in Nat
    BY <2>1, FS_Singleton, InFlightFinite
  <2>4. limit[p].throttled <= Threshold
    BY <2>2, <2>3, LimiterConstants DEF BudgetInv, SuspInv
  <2>5. work[p][1].tries \in 0..Max5xx /\ work[p][1].rebuilt \in BOOLEAN
    BY <2>2 DEF WorkStates
  <2>6. PICK t \in Nat : t = limit[p].throttled
    BY <2>2
  <2>7. PICK n \in 0..Max5xx : n = work[p][1].tries
    BY <2>5
  <2>8. PICK b : b = IF work[p][1].rebuilt THEN Max5xx + 1 ELSE 0
    OBVIOUS
  <2>9. PICK c : c = IF work[p][1].pc = "judge" /\ work[p][1].result = "throttled" THEN 0 ELSE 1
    OBVIOUS
  <2>10. b \in Nat /\ b <= Max5xx + 1 /\ c \in Nat /\ c <= 1
    BY <2>8, <2>9, BudgetConstants
  <2>11. Attempts(work[p][1], limit[p].throttled) = t + n + b + c
    BY <2>6, <2>7, <2>8, <2>9 DEF Attempts
  <2>12. t + n + b + c \in Nat /\ t + n + b + c <= Threshold + 2 * (Max5xx + 1)
    BY <2>4, <2>6, <2>10, BudgetConstants, LimiterConstants
  <2> QED
    BY <1>1, <1>3, <2>11, <2>12 DEF Risked, AtRisk
<1> QED
  BY <1>2, <1>3

LEMMA TickAccount ==
    ASSUME BudgetInv, AccountInv, Tick
    PROVE  AccountInv'
<1>1. BudgetTypeOK /\ BudgetTypeOK' /\ hour \in Nat \ {0} /\ hour' = hour + 1
  BY TickTyped, BudgetConstants DEF BudgetInv, BudgetTypeOK, Tick
<1>2. DayStart(hour) \in Nat /\ DayStart(hour') \in Nat /\ DayStart(hour) <= DayStart(hour')
  BY <1>1, DaysInOrder
<1>3. stored \in Usage /\ served \in [hour : Nat, day : Nat] /\ hidden \in [hour : Nat, day : Nat]
  BY <1>1 DEF BudgetTypeOK
<1>4. stored'.hour.start <= hour' /\ stored'.day.start <= DayStart(hour')
  <2>1. stored' = stored
    BY DEF Tick
  <2> QED
    BY <1>1, <1>2, <1>3, <2>1 DEF AccountInv, Usage, Hour, Day
<1>5. /\ served'.hour = 0 /\ hidden'.hour = 0
      /\ DayStart(hour') = DayStart(hour) => served'.day = served.day /\ hidden'.day = hidden.day
      /\ DayStart(hour') # DayStart(hour) => served'.day = 0 /\ hidden'.day = 0
  BY <1>1 DEF Tick
<1>6. ASSUME NEW p \in Procs, Lone(p)'
      PROVE  Kept(p)'
  <2>1. Lone(p) /\ Kept(p)
    BY <1>6 DEF AccountInv, Lone, Tick
  <2>2. /\ Admitted(p)' = Admitted(p) /\ Unsent(p)' = Unsent(p) /\ Risked(p)' = Risked(p)
        /\ proc' = proc /\ limit' = limit /\ stored' = stored
    BY DEF Tick, Admitted, Unsent, Risked, Attempts, AtRisk, Workers
  <2>3. /\ Cardinality(Admitted(p)) \in Nat /\ Cardinality(Admitted(p)) <= Pool
        /\ Cardinality(Unsent(p)) \in Nat /\ Cardinality(Unsent(p)) <= Pool
        /\ Pool \in Nat /\ Pool' = Pool
    BY AdmittedFinite, UnsentFinite, WorkersFinite DEF Pool
  <2>4. Risked(p) \in Nat
    BY RiskBounded DEF AccountInv
  <2>5. limit[p].usage \in Usage
    BY <1>1 DEF BudgetTypeOK, Limiters
  <2>6. /\ InHour(stored)' \in Nat /\ InHour(limit[p].usage)' \in Nat
        /\ InDay(stored)' \in Nat /\ InDay(limit[p].usage)' \in Nat
        /\ DayStart(hour') = DayStart(hour) =>
             /\ InDay(stored)' = InDay(stored)
             /\ InDay(limit[p].usage)' = InDay(limit[p].usage)
    BY <1>1, <1>3, <2>2, <2>5 DEF InHour, InDay, Usage, Hour, Day
  <2>7. /\ served'.hour + Cardinality(Unsent(p)) <= InHour(stored)' + Risked(p) + hidden'.hour + Pool
        /\ served'.hour + Cardinality(Admitted(p))
             <= InHour(limit[p].usage)' + hidden'.hour + Pool
    BY <1>5, <2>3, <2>4, <2>6
  <2>8. Daily > 0 =>
        /\ served'.day + Cardinality(Unsent(p)) <= InDay(stored)' + Risked(p) + hidden'.day + Pool
        /\ proc[p].pc = "running" =>
             served'.day + Cardinality(Admitted(p)) <= InDay(limit[p].usage)' + hidden'.day + Pool
    <3>1. CASE DayStart(hour') = DayStart(hour)
      BY <1>5, <2>1, <2>6, <3>1 DEF Kept, HourKept, DayKept
    <3>2. CASE DayStart(hour') # DayStart(hour)
      BY <1>5, <2>3, <2>4, <2>6, <3>2
    <3> QED
      BY <3>1, <3>2
  <2> QED
    BY <2>2, <2>3, <2>7, <2>8 DEF Kept, HourKept, DayKept
<1>7. \A p \in Procs : (Lone(p) \/ proc[p].pc = "down")' /\ OnePage(p)'
  BY DEF AccountInv, Lone, OnePage, Tick
<1> QED
  BY <1>4, <1>6, <1>7 DEF AccountInv, DayStart

\* What one process does keeps the account if it keeps its own: when it is down
\* the others, which are down, are in the same place.
LEMMA AccountOf ==
    ASSUME BudgetInv, BudgetInv', AccountInv, NEW p \in Procs, Lone(p), Kept(p)', OnePage(p)',
           UNCHANGED hour,
           stored'.hour.start <= hour, stored'.day.start <= DayStart(hour),
           \A q \in Procs \ {p} : proc'[q] = proc[q] /\ work'[q] = work[q]
    PROVE  AccountInv'
<1>1. Lone(p)'
  BY DEF Lone
<1>2. ASSUME NEW q \in Procs, Lone(q)', q # p PROVE Kept(q)'
  <2>1. proc'[p].pc = "down" /\ proc'[q].pc = "down"
    BY <1>1, <1>2 DEF Lone
  <2>2. Quiet(p)' /\ Quiet(q)'
    BY <2>1 DEF BudgetInv, QuietInv
  <2>3. Unsent(p)' = {} /\ Unsent(q)' = {}
    BY <2>2 DEF Unsent, Quiet
  <2>4. Risked(p)' = 0 /\ Risked(q)' = 0
    BY <2>1 DEF Risked
  <2> QED
    BY <2>1, <2>3, <2>4 DEF Kept, HourKept, DayKept
<1>3. \A q \in Procs : Lone(q)' \/ proc'[q].pc = "down"
  BY <1>1 DEF Lone
<1>4. \A q \in Procs : OnePage(q)'
  BY DEF AccountInv, OnePage
<1> QED
  BY <1>1, <1>2, <1>3, <1>4 DEF AccountInv, DayStart

\* A run takes over what the table knows, or hides the limits once more.
LEMMA StartAccount ==
    ASSUME BudgetInv, BudgetInv', AccountInv, NEW p \in Procs, Lone(p), StartRun(p)
    PROVE  Kept(p)' /\ OnePage(p)'
<1>1. /\ BudgetTypeOK /\ hour \in Nat \ {0} /\ stored \in Usage
      /\ limit \in [Procs -> Limiters] /\ limit[p] \in Limiters /\ limit[p].usage \in Usage
      /\ proc \in [Procs -> ProcStates] /\ served \in [hour : Nat, day : Nat]
      /\ hidden \in [hour : Nat, day : Nat]
  BY BudgetConstants DEF BudgetInv, BudgetTypeOK, Limiters
<1>2. proc[p].pc = "idle" /\ Quiet(p) /\ Kept(p)
  BY DEF StartRun, BudgetInv, QuietInv, AccountInv
<1>3. Unsent(p) = {} /\ Admitted(p) = {} /\ Unsent(p)' = {} /\ Admitted(p)' = {}
  BY <1>2 DEF StartRun, Unsent, Admitted, Quiet
<1>4. /\ UNCHANGED <<hour, served, stored>> /\ Pool' = Pool /\ Pool \in Nat
      /\ InHour(stored)' = InHour(stored) /\ InDay(stored)' = InDay(stored)
  BY WorkersFinite DEF StartRun, InHour, InDay, DayStart, Pool
<1>5. proc'[p] = [pc |-> "running", left |-> BatchOf(p), broken |-> FALSE]
  BY <1>1 DEF StartRun
<1>6. Risked(p) = 0 /\ Risked(p)' = 0
  BY <1>2, <1>5, BudgetConstants DEF Risked, BatchOf
<1>7. OnePage(p)'
  BY <1>2, <1>5 DEF OnePage, BatchOf, StartRun, Quiet, Workers
<1>8. Cardinality({}) = 0
  BY FS_EmptySet
<1>9. /\ Hourly > 0 => served.hour <= InHour(stored) + hidden.hour + Pool
      /\ Daily > 0 => served.day <= InDay(stored) + hidden.day + Pool
  BY <1>1, <1>2, <1>3, <1>4, <1>6, <1>8, RolledCounts DEF Kept, HourKept, DayKept
<1>10. CASE limit' = [limit EXCEPT ![p] = Restored(@, hour, stored)] /\ UNCHANGED hidden
  <2>1. limit'[p].usage = Restored(limit[p], hour, stored).usage
    BY <1>1, <1>10
  <2>2. Restored(limit[p], hour, stored).usage \in Usage
    BY <1>1, RestoredTyped DEF Limiters
  <2>3. /\ InHour(limit[p].usage)' = InHour(Restored(limit[p], hour, stored).usage)
        /\ InDay(limit[p].usage)' = InDay(Restored(limit[p], hour, stored).usage)
    BY <1>4, <2>1 DEF InHour, InDay, DayStart
  <2>4. /\ InHour(limit[p].usage)' >= InHour(stored)
        /\ InDay(limit[p].usage)' >= InDay(stored)
        /\ InHour(limit[p].usage)' \in Nat /\ InDay(limit[p].usage)' \in Nat
        /\ InHour(stored) \in Nat /\ InDay(stored) \in Nat
    BY <1>1, <2>2, <2>3, RestoredCounts, RolledCounts
  <2> QED
    BY <1>1, <1>3, <1>4, <1>6, <1>7, <1>8, <1>9, <1>10, <2>4 DEF Kept, HourKept, DayKept
<1>11. CASE Hides(Hourly, Daily) /\ UNCHANGED limit
  <2>1. RequestsWithin(stored)
    BY DEF BudgetInv, RequestsInv
  <2>2. /\ InHour(limit[p].usage)' = InHour(limit[p].usage)
        /\ InDay(limit[p].usage)' = InDay(limit[p].usage)
    BY <1>4, <1>11 DEF InHour, InDay, DayStart
  <2>3. /\ InHour(limit[p].usage) \in Nat /\ InDay(limit[p].usage) \in Nat
        /\ InHour(stored) \in Nat /\ InDay(stored) \in Nat
    BY <1>1, RolledCounts
  <2>4. hidden'.hour = hidden.hour + Hourly /\ hidden'.day = hidden.day + Daily
    BY <1>1, <1>11 DEF Hides
  <2>5. /\ Hourly > 0 => InHour(stored) <= Hourly
        /\ Daily > 0 => InDay(stored) <= Daily
    BY <2>1, LimiterConstants DEF RequestsWithin, InHour, InDay
  <2> QED
    BY <1>1, <1>3, <1>4, <1>6, <1>7, <1>8, <1>9, <2>2, <2>3, <2>4, <2>5, LimiterConstants DEF Kept, HourKept, DayKept
<1> QED
  BY <1>10, <1>11 DEF StartRun

\* A run or a process ends, or a batch with its snapshot.
LEMMA EndAccount ==
    ASSUME BudgetInv, BudgetInv', AccountInv, NEW p \in Procs, Lone(p), EndBatch(p)
    PROVE  /\ Kept(p)' /\ OnePage(p)'
           /\ stored'.hour.start <= hour /\ stored'.day.start <= DayStart(hour)
<1>1. /\ BudgetTypeOK /\ hour \in Nat \ {0} /\ stored \in Usage
      /\ limit \in [Procs -> Limiters] /\ limit[p] \in Limiters /\ limit[p].usage \in Usage
      /\ proc \in [Procs -> ProcStates] /\ served \in [hour : Nat, day : Nat]
      /\ hidden \in [hour : Nat, day : Nat]
  BY BudgetConstants DEF BudgetInv, BudgetTypeOK, Limiters
<1>2. proc[p].pc = "running" /\ Quiet(p) /\ Kept(p) /\ OnePage(p)
  BY DEF EndBatch, AccountInv
<1>3. Unsent(p) = {} /\ Admitted(p) = {} /\ Unsent(p)' = {} /\ Admitted(p)' = {}
  BY <1>2 DEF EndBatch, Unsent, Admitted, Quiet
<1>4. /\ UNCHANGED <<hour, served>> /\ Pool' = Pool /\ Pool \in Nat
      /\ \A u : InHour(u)' = InHour(u') /\ InDay(u)' = InDay(u')
  BY WorkersFinite DEF EndBatch, InHour, InDay, DayStart, Pool
<1>5. Cardinality({}) = 0
  BY FS_EmptySet
<1>6. Risked(p) \in Nat /\ Risked(p) <= AtRisk(p) /\ AtRisk(p) \in Nat
  BY <1>2, RiskBounded
<1>7. /\ Hourly > 0 => /\ served.hour <= InHour(stored) + Risked(p) + hidden.hour + Pool
                       /\ served.hour <= InHour(limit[p].usage) + hidden.hour + Pool
      /\ Daily > 0 => /\ served.day <= InDay(stored) + Risked(p) + hidden.day + Pool
                      /\ served.day <= InDay(limit[p].usage) + hidden.day + Pool
  BY <1>1, <1>2, <1>3, <1>5 DEF Kept, HourKept, DayKept
<1>8. /\ InHour(stored) \in Nat /\ InDay(stored) \in Nat
      /\ InHour(limit[p].usage) \in Nat /\ InDay(limit[p].usage) \in Nat
  BY <1>1, RolledCounts
<1>9. /\ \/ proc'[p].pc \in {"down", "idle"}
         \/ proc'[p].left = BatchOf(p) /\ proc'[p].pc = "running"
      /\ proc'[p].pc \in {"down", "idle"} => proc'[p].left = 0
  <2>1. \/ proc' = [proc EXCEPT ![p].left = BatchOf(p)]
        \/ \E pc \in {"down", "idle"} : proc' = [proc EXCEPT ![p] = [Down EXCEPT !.pc = pc]]
    BY DEF EndBatch
  <2>2. CASE proc' = [proc EXCEPT ![p].left = BatchOf(p)]
    BY <1>1, <1>2, <2>2 DEF ProcStates
  <2>3. CASE \E pc \in {"down", "idle"} : proc' = [proc EXCEPT ![p] = [Down EXCEPT !.pc = pc]]
    <3>1. PICK pc \in {"down", "idle"} : proc' = [proc EXCEPT ![p] = [Down EXCEPT !.pc = pc]]
      BY <2>3
    <3>2. proc'[p] = [Down EXCEPT !.pc = pc]
      BY <1>1, <3>1
    <3> QED
      BY <3>2 DEF Down
  <2> QED
    BY <2>1, <2>2, <2>3
<1>10. Risked(p)' = 0
  <2>1. p \notin Downloaders /\ proc'[p].pc = "running" => proc'[p].left = 1
    BY <1>9 DEF BatchOf
  <2>2. p \in Downloaders /\ proc'[p].pc = "running" => Batch - proc'[p].left = 0
    BY <1>9, BudgetConstants DEF BatchOf
  <2> QED
    BY <2>1, <2>2 DEF Risked
<1>11. OnePage(p)'
  <2>1. p \notin Downloaders => proc'[p].left <= 1 /\ work'[p][1].pc = "none"
    BY <1>2, <1>9 DEF BatchOf, EndBatch, Quiet, Workers
  <2> QED
    BY <2>1 DEF OnePage
<1> DEFINE u == Rolled(limit[p].usage, hour)
<1>12. /\ u \in Usage /\ u.hour.start = hour /\ u.day.start = DayStart(hour)
       /\ InHour(u) = InHour(limit[p].usage) /\ InDay(u) = InDay(limit[p].usage)
  BY <1>1, RolledTyped, RolledCounts
<1>13. stored.hour.start <= hour /\ stored.day.start <= DayStart(hour)
  BY DEF AccountInv
<1>14. Saved(u) = u
  BY <1>12, <1>13, SavedCounts
<1>15. \/ /\ limit' = [limit EXCEPT ![p].usage = u]
          /\ stored' = u /\ UNCHANGED hidden
       \/ /\ limit' = [limit EXCEPT ![p].usage = u]
          /\ stored' = stored /\ Hides(AtRisk(p), AtRisk(p))
       \/ /\ limit' = limit /\ proc'[p].pc # "running"
          /\ stored' = stored /\ Hides(AtRisk(p), AtRisk(p))
  <2>1. \/ Persist(p)
        \/ /\ proc'[p].pc # "running"
           /\ Hides(AtRisk(p), AtRisk(p)) /\ UNCHANGED <<limit, stored, faults>>
    BY <1>1 DEF EndBatch, Down
  <2>2. Persist(p) => /\ limit' = [limit EXCEPT ![p].usage = u]
                      /\ \/ stored' = u /\ UNCHANGED hidden
                         \/ stored' = stored /\ Hides(AtRisk(p), AtRisk(p))
    BY <1>14 DEF Persist, Snapshot
  <2> QED
    BY <2>1, <2>2
<1> HIDE DEF u
<1>16. [limit EXCEPT ![p].usage = u][p].usage = u
  BY <1>1 DEF Limiters
<1>17. /\ InHour(limit[p].usage)' = InHour(limit[p].usage)
       /\ InDay(limit[p].usage)' = InDay(limit[p].usage)
  <2>1. limit'[p].usage = u \/ limit'[p].usage = limit[p].usage
    BY <1>15, <1>16
  <2>2. /\ InHour(limit[p].usage)' = InHour(limit'[p].usage)
        /\ InDay(limit[p].usage)' = InDay(limit'[p].usage)
    BY <1>4 DEF InHour, InDay, DayStart
  <2> QED
    BY <1>12, <2>1, <2>2
<1>18. InHour(stored)' = InHour(stored') /\ InDay(stored)' = InDay(stored')
  BY <1>4 DEF InHour, InDay, DayStart
<1>19. CASE stored' = u /\ UNCHANGED hidden
  <2>1. InHour(stored)' = InHour(limit[p].usage) /\ InDay(stored)' = InDay(limit[p].usage)
    BY <1>12, <1>18, <1>19
  <2>2. Kept(p)'
    BY <1>1, <1>3, <1>4, <1>5, <1>7, <1>8, <1>10, <1>17, <1>19, <2>1
       DEF Kept, HourKept, DayKept
  <2>3. hour <= hour /\ DayStart(hour) <= DayStart(hour)
    BY <1>1, DayStartTyped
  <2> QED
    BY <1>11, <1>12, <1>19, <2>2, <2>3
<1>20. CASE stored' = stored /\ Hides(AtRisk(p), AtRisk(p))
  <2>1. InHour(stored)' = InHour(stored) /\ InDay(stored)' = InDay(stored)
    BY <1>18, <1>20
  <2>2. hidden'.hour = hidden.hour + AtRisk(p) /\ hidden'.day = hidden.day + AtRisk(p)
    BY <1>20 DEF Hides
  <2>3. Kept(p)'
    BY <1>1, <1>3, <1>4, <1>5, <1>6, <1>7, <1>8, <1>10, <1>17, <2>1, <2>2
       DEF Kept, HourKept, DayKept
  <2> QED
    BY <1>11, <1>13, <1>20, <2>3
<1> QED
  BY <1>15, <1>19, <1>20

\* A crash hides at most a batch or a page.
LEMMA CrashAccount ==
    ASSUME BudgetInv, BudgetInv', AccountInv, NEW p \in Procs, Lone(p), Crash(p)
    PROVE  Kept(p)' /\ OnePage(p)'
<1>1. /\ BudgetTypeOK /\ hour \in Nat \ {0} /\ stored \in Usage
      /\ proc \in [Procs -> ProcStates] /\ served \in [hour : Nat, day : Nat]
      /\ hidden \in [hour : Nat, day : Nat]
  BY BudgetConstants DEF BudgetInv, BudgetTypeOK
<1>2. Kept(p) /\ OnePage(p)
  BY DEF AccountInv
<1>3. proc'[p] = Down
  BY <1>1 DEF Crash
<1>4. Quiet(p)'
  BY <1>3 DEF BudgetInv, QuietInv, Down
<1>5. Unsent(p)' = {} /\ Cardinality({}) = 0 /\ Risked(p)' = 0
  BY <1>3, <1>4, FS_EmptySet DEF Unsent, Quiet, Risked, Down
<1>6. OnePage(p)'
  BY <1>3, <1>4 DEF OnePage, Quiet, Workers, Down
<1>7. Risked(p) \in Nat /\ Risked(p) <= AtRisk(p) /\ AtRisk(p) \in Nat
  BY <1>2, RiskBounded
<1>8. /\ InHour(stored)' = InHour(stored) /\ InDay(stored)' = InDay(stored)
      /\ Pool' = Pool /\ Pool \in Nat /\ UNCHANGED served
  BY WorkersFinite DEF Crash, InHour, InDay, DayStart, Pool
<1>9. hidden'.hour = hidden.hour + AtRisk(p) /\ hidden'.day = hidden.day + AtRisk(p)
  BY DEF Crash, Hides
<1>10. InHour(stored) \in Nat /\ InDay(stored) \in Nat /\ Cardinality(Unsent(p)) \in Nat
  BY <1>1, RolledCounts, UnsentFinite
<1>11. proc'[p].pc # "running"
  BY <1>3 DEF Down
<1> QED
  BY <1>1, <1>2, <1>5, <1>6, <1>7, <1>8, <1>9, <1>10, <1>11 DEF Kept, HourKept, DayKept

LEMMA RunAccount ==
    ASSUME BudgetInv, BudgetInv', AccountInv, OneAtATime, NEW p \in Procs,
           Launch(p) \/ StartRun(p) \/ EndBatch(p) \/ Crash(p) \/ Interrupt(p)
    PROVE  AccountInv'
<1>1. /\ BudgetTypeOK /\ proc \in [Procs -> ProcStates] /\ DOMAIN work = Procs
      /\ stored.hour.start <= hour /\ stored.day.start <= DayStart(hour)
  BY DEF BudgetInv, BudgetTypeOK, AccountInv
<1>2. Lone(p) /\ Kept(p) /\ OnePage(p)
  BY <1>1 DEF AccountInv, Lone, Launch, StartRun, EndBatch, Crash, Interrupt
<1>3. \A q \in Procs \ {p} : proc'[q] = proc[q] /\ work'[q] = work[q]
  BY <1>1 DEF Launch, StartRun, EndBatch, Crash, Interrupt
<1>4. UNCHANGED hour
  BY DEF Launch, StartRun, EndBatch, Crash, Interrupt
<1>5. CASE Launch(p) \/ Interrupt(p)
  <2>1. UNCHANGED <<hour, work, stored, served, hidden>>
    BY <1>5 DEF Launch, Interrupt
  <2>2. /\ proc'[p].left = proc[p].left
        /\ proc'[p].pc = "running" => proc[p].pc = "running" /\ limit' = limit
        /\ proc[p].pc = "running" => proc'[p].pc = "running"
    BY <1>1, <1>5 DEF Launch, Interrupt, ProcStates
  <2>3. OnePage(p)'
    BY <1>2, <2>1, <2>2 DEF OnePage
  <2>4. Risked(p)' = Risked(p)
    BY <2>1, <2>2 DEF Risked, Attempts, AtRisk
  <2>5. Unsent(p)' = Unsent(p) /\ Admitted(p)' = Admitted(p) /\ Pool' = Pool
    BY <2>1 DEF Unsent, Admitted, Workers, Pool
  <2>6. /\ InHour(stored)' = InHour(stored) /\ InDay(stored)' = InDay(stored)
        /\ proc'[p].pc = "running" =>
             /\ InHour(limit[p].usage)' = InHour(limit[p].usage)
             /\ InDay(limit[p].usage)' = InDay(limit[p].usage)
    BY <2>1, <2>2 DEF InHour, InDay, DayStart
  <2>7. Kept(p)'
    BY <1>2, <2>1, <2>2, <2>4, <2>5, <2>6 DEF Kept, HourKept, DayKept
  <2> QED
    BY <1>1, <1>2, <1>3, <2>1, <2>3, <2>7, AccountOf
<1>6. CASE StartRun(p)
  <2>1. stored' = stored
    BY <1>6 DEF StartRun
  <2> QED
    BY <1>1, <1>2, <1>3, <1>4, <1>6, <2>1, StartAccount, AccountOf
<1>7. CASE EndBatch(p)
  BY <1>2, <1>3, <1>4, <1>7, EndAccount, AccountOf
<1>8. CASE Crash(p)
  <2>1. stored' = stored
    BY <1>8 DEF Crash
  <2> QED
    BY <1>1, <1>2, <1>3, <1>4, <1>8, <2>1, CrashAccount, AccountOf
<1> QED
  BY <1>5, <1>6, <1>7, <1>8

Returned(p) ==
    \E bytes \in 0..MaxBytes, result \in Results :
      limit'[p] = Recorded(limit[p], hour, bytes, result)

\* What a step of a request can be for the server's account: it is sent, it is
\* admitted, or nothing new is on its way.
LEMMA AccountEffect ==
    ASSUME BudgetTypeOK, NEW p \in Procs, NEW w \in Workers(p), Request(p, w)
    PROVE  LET before == Cardinality(Admitted(p))
               after == Cardinality(Admitted(p))'
           IN  /\ after \in Nat
               /\ \/ /\ after = before - 1
                     /\ served' = [hour |-> served.hour + 1, day |-> served.day + 1]
                     /\ limit' = limit
                  \/ /\ after <= before + 1
                     /\ served' = served
                     /\ limit'[p] = Counted(limit[p], hour)
                  \/ /\ after <= before
                     /\ served' = served
                     /\ \/ limit' = limit
                        \/ Returned(p)
<1>1. /\ limit \in [Procs -> Limiters]
      /\ work[p][w] \in WorkStates
  BY DEF BudgetTypeOK
<1> DEFINE before == Cardinality(Admitted(p))
           after == Cardinality(Admitted(p))'
           Fewer == after \in Nat /\ after <= before
<1>2. ASSUME NEW r \in WorkStates, r.pc # "admitted", Goes(p, w, r)
      PROVE  Fewer
  BY <1>2, AdmittedStep
<1>3. Goes(p, w, NoWork) => Fewer
  BY <1>1, <1>2, WorkStatesClosed DEF NoWork
<1>4. RetryOrGiveUp(p, w) => Fewer
  <2> SUFFICES ASSUME RetryOrGiveUp(p, w), work[p][w].tries < Max5xx
               PROVE  Fewer
    BY <1>3 DEF RetryOrGiveUp
  <2> DEFINE r == [work[p][w] EXCEPT !.pc = "wait", !.tries = @ + 1]
  <2>1. r \in WorkStates /\ Goes(p, w, r)
    BY <1>1, WorkStatesClosed DEF RetryOrGiveUp
  <2>2. r.pc = "wait"
    BY <1>1 DEF WorkStates
  <2> QED
    BY <1>2, <2>1, <2>2
<1>5. CASE Take(p, w)
  <2>1. [NoWork EXCEPT !.pc = "wait"] \in WorkStates /\ [NoWork EXCEPT !.pc = "wait"].pc = "wait"
    BY <1>1, WorkStatesClosed DEF NoWork
  <2>2. Fewer
    BY <1>2, <1>5, <2>1 DEF Take
  <2> QED
    BY <1>5, <2>2 DEF Take
<1>6. CASE Admit(p, w)
  <2>1. [work[p][w] EXCEPT !.pc = "admitted"] \in WorkStates
    BY <1>1, WorkStatesClosed
  <2>2. after \in Nat /\ after <= before + 1
    BY <1>6, <2>1, AdmittedStep DEF Admit
  <2> QED
    BY <1>1, <1>6, <2>2 DEF Admit
<1>7. CASE Refuse(p, w)
  BY <1>3, <1>7 DEF Refuse
<1>8. CASE Cancelled(p, w)
  BY <1>3, <1>8 DEF Cancelled
<1>9. CASE Send(p, w)
  <2>1. [work[p][w] EXCEPT !.pc = "sent"] \in WorkStates
    BY <1>1, WorkStatesClosed
  <2>2. [work[p][w] EXCEPT !.pc = "sent"].pc = "sent"
    BY <1>1 DEF WorkStates
  <2>3. after \in Nat /\ after = before - 1
    BY <1>9, <2>1, <2>2, AdmittedStep DEF Send
  <2> QED
    BY <1>9, <2>3 DEF Send
<1>10. CASE Respond(p, w)
  <2>1. PICK bytes \in 0..MaxBytes, result \in Results :
           /\ limit' = [limit EXCEPT ![p] = Recorded(@, hour, bytes, result)]
           /\ Goes(p, w, IF result = "ok" THEN NoWork
                         ELSE [work[p][w] EXCEPT !.pc = "judge", !.result = result])
    BY <1>10 DEF Respond
  <2> DEFINE r == IF result = "ok" THEN NoWork
                  ELSE [work[p][w] EXCEPT !.pc = "judge", !.result = result]
  <2>2. r \in WorkStates /\ Goes(p, w, r)
    BY <1>1, <2>1, WorkStatesClosed
  <2>3. r.pc # "admitted"
    BY <1>1 DEF NoWork, WorkStates
  <2> HIDE DEF r
  <2>4. Fewer
    BY <1>2, <2>2, <2>3
  <2>5. Returned(p)
    BY <1>1, <2>1 DEF Returned
  <2> QED
    BY <1>10, <2>4, <2>5 DEF Respond
<1>11. CASE Lose(p, w)
  BY <1>3, <1>4, <1>11 DEF Lose
<1>12. CASE JudgePage(p, w)
  <2>1. [work[p][w] EXCEPT !.pc = "wait"] \in WorkStates
    BY <1>1, WorkStatesClosed
  <2>2. [work[p][w] EXCEPT !.pc = "wait"].pc = "wait"
    BY <1>1 DEF WorkStates
  <2>3. [NoWork EXCEPT !.pc = "wait", !.rebuilt = TRUE] \in WorkStates
    BY <1>1, WorkStatesClosed
  <2>4. [NoWork EXCEPT !.pc = "wait", !.rebuilt = TRUE].pc = "wait"
    BY DEF NoWork
  <2>5. \/ Goes(p, w, NoWork)
        \/ RetryOrGiveUp(p, w)
        \/ Goes(p, w, [work[p][w] EXCEPT !.pc = "wait"])
        \/ Goes(p, w, [NoWork EXCEPT !.pc = "wait", !.rebuilt = TRUE])
    BY <1>12 DEF JudgePage
  <2>6. Fewer
    BY <1>2, <1>3, <1>4, <2>1, <2>2, <2>3, <2>4, <2>5
  <2> QED
    BY <1>12, <2>6 DEF JudgePage
<1>13. CASE JudgeFile(p, w)
  BY <1>3, <1>13 DEF JudgeFile
<1> QED
  BY <1>5, <1>6, <1>7, <1>8, <1>9, <1>10, <1>11, <1>12, <1>13 DEF Request

\* What a step of a request does to the risk: a request it adds is already one
\* at risk.
LEMMA FileRisk ==
    ASSUME BudgetInv, NEW p \in Procs, p \in Downloaders, proc[p].pc = "running",
           NEW w \in Workers(p), Request(p, w)
    PROVE  /\ Send(p, w) => Risked(p)' = Risked(p)
           /\ ~Send(p, w) => Cardinality(Unsent(p))' + Risked(p)
                               <= Cardinality(Unsent(p)) + Risked(p)'
<1>1. /\ BudgetTypeOK /\ work[p][w] \in WorkStates /\ proc[p] \in ProcStates
      /\ proc \in [Procs -> ProcStates] /\ p \notin Engines
  BY BudgetConstants DEF BudgetInv, BudgetTypeOK
<1>2. proc[p].left \in 0..Batch /\ Risked(p) = Batch - proc[p].left /\ Risked(p) \in Int
  BY <1>1, BudgetConstants DEF Risked, ProcStates
<1>3. CASE Take(p, w)
  <2>1. proc'[p].pc = "running" /\ proc'[p].left = proc[p].left - 1
    BY <1>1, <1>3 DEF Take, ProcStates
  <2>2. Risked(p)' = Risked(p) + 1
    BY <1>2, <2>1, BudgetConstants DEF Risked
  <2>3. [NoWork EXCEPT !.pc = "wait"] \in WorkStates
    BY <1>1, WorkStatesClosed
  <2>4. /\ Cardinality(Unsent(p))' \in Nat
        /\ Cardinality(Unsent(p))' <= Cardinality(Unsent(p)) + 1
    BY <1>1, <1>3, <2>3, UnsentStep DEF Take
  <2> QED
    BY <1>2, <1>3, <2>2, <2>4, UnsentFinite DEF Take, Send, At
<1>4. CASE ~Take(p, w)
  <2>1. UNCHANGED proc \/ Breaks(p)
    BY <1>1, <1>4
       DEF Request, Admit, Refuse, Cancelled, Send, Respond, Lose, JudgePage, JudgeFile
  <2>2. proc'[p].pc = "running" /\ proc'[p].left = proc[p].left
    BY <1>1, <2>1 DEF Breaks, ProcStates
  <2>3. Risked(p)' = Risked(p)
    BY <1>2, <2>2 DEF Risked
  <2>4. /\ Cardinality(Unsent(p))' \in Nat
        /\ Cardinality(Unsent(p))' <= Cardinality(Unsent(p))
    <3>1. \E r \in WorkStates :
             /\ Goes(p, w, r)
             /\ r.pc \in {"wait", "admitted"} => work[p][w].pc \in {"wait", "admitted"}
      <4>1. NoWork \in WorkStates /\ NoWork.pc = "none"
        BY <1>1, WorkStatesClosed DEF NoWork
      <4>2. CASE Admit(p, w)
        <5>1. [work[p][w] EXCEPT !.pc = "admitted"] \in WorkStates
          BY <1>1, WorkStatesClosed
        <5> QED
          BY <4>2, <5>1 DEF Admit, At
      <4>3. CASE Send(p, w)
        <5>1. [work[p][w] EXCEPT !.pc = "sent"] \in WorkStates
          BY <1>1, WorkStatesClosed
        <5>2. [work[p][w] EXCEPT !.pc = "sent"].pc = "sent"
          BY <1>1 DEF WorkStates
        <5> QED
          BY <4>3, <5>1, <5>2 DEF Send, At
      <4>4. CASE Respond(p, w)
        <5>1. PICK result \in Results :
                 Goes(p, w, IF result = "ok" THEN NoWork
                            ELSE [work[p][w] EXCEPT !.pc = "judge", !.result = result])
          BY <4>4 DEF Respond
        <5>2. [work[p][w] EXCEPT !.pc = "judge", !.result = result] \in WorkStates
          BY <1>1, WorkStatesClosed
        <5>3. [work[p][w] EXCEPT !.pc = "judge", !.result = result].pc = "judge"
          BY <1>1 DEF WorkStates
        <5> QED
          BY <4>1, <5>1, <5>2, <5>3
      <4>5. CASE Refuse(p, w) \/ Cancelled(p, w) \/ Lose(p, w) \/ JudgeFile(p, w)
        BY <1>1, <4>1, <4>5 DEF Refuse, Cancelled, Lose, JudgeFile
      <4> QED
        BY <1>1, <1>4, <4>2, <4>3, <4>4, <4>5 DEF Request, JudgePage
    <3> QED
      BY <1>1, <3>1, UnsentStep
  <2> QED
    BY <1>2, <2>3, <2>4, UnsentFinite
<1> QED
  BY <1>3, <1>4

LEMMA PageRisk ==
    ASSUME BudgetInv, NEW p \in Procs, p \notin Downloaders, proc[p].pc = "running", OnePage(p),
           NEW w \in Workers(p), Request(p, w)
    PROVE  /\ Send(p, w) => Risked(p)' = Risked(p)
           /\ ~Send(p, w) => Cardinality(Unsent(p))' + Risked(p)
                               <= Cardinality(Unsent(p)) + Risked(p)'
           /\ OnePage(p)'
<1>1. /\ BudgetTypeOK /\ w = 1 /\ work[p][1] \in WorkStates /\ proc[p] \in ProcStates
      /\ proc \in [Procs -> ProcStates] /\ limit \in [Procs -> Limiters]
      /\ work[p] \in [Workers(p) -> WorkStates] /\ p \in DOMAIN work /\ 1 \in Workers(p)
      /\ limit[p].throttled \in Nat /\ limit[p] \in Limiters /\ hour \in Nat \ {0}
  BY BudgetConstants DEF BudgetInv, BudgetTypeOK, Workers, Limiters
<1> DEFINE o == work[p][1]
           t == limit[p].throttled
<1>2. \A r : Goes(p, 1, r) => work'[p][1] = r
  BY <1>1 DEF Goes
<1>3. o.tries \in 0..Max5xx /\ o.rebuilt \in BOOLEAN /\ Max5xx \in Nat
  BY <1>1, BudgetConstants DEF WorkStates
<1>4. Risked(p) \in Nat /\ Risked(p) <= AtRisk(p) /\ AtRisk(p) \in Nat
  BY RiskBounded
<1>5. Cardinality(Unsent(p)) \in Nat
  BY UnsentFinite
<1>6. NoWork \in WorkStates /\ NoWork.pc = "none"
  BY <1>1, WorkStatesClosed DEF NoWork
\* The worker is through with the page.
<1>7. ASSUME Goes(p, 1, NoWork), UNCHANGED proc \/ Breaks(p), o.pc # "none"
      PROVE  /\ Cardinality(Unsent(p))' + Risked(p) <= Cardinality(Unsent(p)) + Risked(p)'
             /\ OnePage(p)'
  <2>1. work'[p][1].pc = "none"
    BY <1>2, <1>6, <1>7
  <2>2. proc'[p].pc = "running" /\ proc'[p].left = proc[p].left /\ proc[p].left = 0
    BY <1>1, <1>7 DEF Breaks, ProcStates, OnePage
  <2>3. Risked(p)' = AtRisk(p)
    BY <2>1, <2>2 DEF Risked, AtRisk
  <2>4. /\ Cardinality(Unsent(p))' \in Nat
        /\ Cardinality(Unsent(p))' <= Cardinality(Unsent(p))
    BY <1>1, <1>6, <1>7, UnsentStep
  <2>5. OnePage(p)'
    BY <2>2 DEF OnePage
  <2> QED
    BY <1>4, <1>5, <2>3, <2>4, <2>5
\* The worker goes on with it.
<1>8. ASSUME NEW r \in WorkStates, Goes(p, 1, r), r.pc # "none", o.pc # "none",
             UNCHANGED proc
      PROVE  /\ Risked(p) = Attempts(o, t)
             /\ Risked(p)' = Attempts(r, limit'[p].throttled)
             /\ OnePage(p)'
  <2>1. work'[p][1] = r
    BY <1>2, <1>8
  <2>2. proc[p].left = 0
    BY <1>8 DEF OnePage
  <2> QED
    BY <1>8, <2>1, <2>2 DEF Risked, OnePage, Attempts
<1>9. t \in Nat
  BY <1>1
<1> HIDE DEF o, t
<1>10. CASE Take(p, w)
  <2> DEFINE r == [NoWork EXCEPT !.pc = "wait"]
  <2>1. r \in WorkStates /\ Goes(p, 1, r)
    BY <1>1, <1>10, WorkStatesClosed DEF Take
  <2>2. r.pc = "wait" /\ r.tries = 0 /\ r.rebuilt = FALSE
    BY DEF NoWork
  <2>3. proc'[p].pc = "running" /\ proc'[p].left = 0 /\ proc[p].left > 0 /\ limit' = limit
    BY <1>1, <1>10 DEF Take, ProcStates, OnePage
  <2>4. work'[p][1] = r
    BY <1>2, <2>1
  <2> HIDE DEF r
  <2>5. Risked(p) = 0 /\ Risked(p)' = t + 0 + 0 + 1
    BY <2>2, <2>3, <2>4 DEF Risked, Attempts, t
  <2>6. /\ Cardinality(Unsent(p))' \in Nat
        /\ Cardinality(Unsent(p))' <= Cardinality(Unsent(p)) + 1
    BY <1>1, <2>1, UnsentStep
  <2>7. OnePage(p)' /\ ~Send(p, w)
    BY <1>10, <2>3 DEF OnePage, Take, Send, At
  <2> QED
    BY <1>5, <1>9, <2>5, <2>6, <2>7
<1>11. CASE Admit(p, w) \/ Send(p, w)
  <2>1. PICK pc \in {"admitted", "sent"} :
           /\ Goes(p, 1, [o EXCEPT !.pc = pc])
           /\ Admit(p, w) => pc = "admitted"
    BY <1>1, <1>11 DEF Admit, Send, o
  <2> DEFINE r == [o EXCEPT !.pc = pc]
  <2>2. r \in WorkStates /\ Goes(p, 1, r)
    BY <1>1, <2>1, WorkStatesClosed DEF o
  <2>3. r.pc = pc /\ r.tries = o.tries /\ r.rebuilt = o.rebuilt
    BY <1>1 DEF o, WorkStates
  <2>4. o.pc \in {"wait", "admitted"} /\ UNCHANGED proc
    BY <1>1, <1>11 DEF Admit, Send, At, o
  <2> HIDE DEF r
  <2>5. limit'[p].throttled = t
    <3>1. CASE Admit(p, w)
      <4>1. limit'[p] = Counted(limit[p], hour)
        BY <1>1, <3>1 DEF Admit
      <4>2. Counted(limit[p], hour).throttled = limit[p].throttled
        BY <1>1, CountedTyped
      <4> QED
        BY <4>1, <4>2 DEF t
    <3>2. CASE Send(p, w)
      BY <3>2 DEF Send, t
    <3> QED
      BY <1>11, <3>1, <3>2
  <2>6. r.pc # "none" /\ o.pc # "none"
    BY <2>3, <2>4
  <2>7. /\ Risked(p) = Attempts(o, t) /\ Risked(p)' = Attempts(r, limit'[p].throttled)
        /\ OnePage(p)'
    BY <1>8, <2>2, <2>4, <2>6
  <2>8. Risked(p)' = Risked(p)
    BY <2>3, <2>4, <2>5, <2>7 DEF Attempts
  <2>9. Cardinality(Unsent(p))' \in Nat /\ Cardinality(Unsent(p))' <= Cardinality(Unsent(p))
    BY <1>1, <2>2, <2>4, UnsentStep DEF o
  <2> QED
    BY <1>4, <1>5, <2>7, <2>8, <2>9
<1>12. CASE Refuse(p, w) \/ Cancelled(p, w)
  <2>1. /\ Goes(p, 1, NoWork) /\ (UNCHANGED proc \/ Breaks(p)) /\ o.pc # "none" /\ ~Send(p, w)
    BY <1>1, <1>12 DEF Refuse, Cancelled, At, Send, o
  <2> QED
    BY <1>7, <2>1
<1>13. CASE Respond(p, w)
  <2>1. PICK bytes \in 0..MaxBytes, result \in Results :
           /\ limit' = [limit EXCEPT ![p] = Recorded(@, hour, bytes, result)]
           /\ Goes(p, 1, IF result = "ok" THEN NoWork
                         ELSE [o EXCEPT !.pc = "judge", !.result = result])
    BY <1>1, <1>13 DEF Respond, o
  <2>2. o.pc = "sent" /\ UNCHANGED proc /\ ~Send(p, w)
    BY <1>1, <1>13 DEF Respond, At, Send, o
  <2>3. CASE result = "ok"
    BY <1>7, <2>1, <2>2, <2>3
  <2>4. CASE result # "ok"
    <3> DEFINE r == [o EXCEPT !.pc = "judge", !.result = result]
    <3>1. r \in WorkStates /\ Goes(p, 1, r)
      BY <1>1, <2>1, <2>4, WorkStatesClosed DEF o
    <3>2. r.pc = "judge" /\ r.tries = o.tries /\ r.rebuilt = o.rebuilt /\ r.result = result
      BY <1>1 DEF o, WorkStates
    <3> HIDE DEF r
    <3>3. limit'[p].throttled = IF result = "throttled" THEN t + 1 ELSE t
      <4>1. limit'[p] = Recorded(limit[p], hour, bytes, result)
        BY <1>1, <2>1
      <4> QED
        BY <2>4, <4>1 DEF Recorded, t
    <3>4. /\ Risked(p) = Attempts(o, t) /\ Risked(p)' = Attempts(r, limit'[p].throttled)
          /\ OnePage(p)'
      BY <1>8, <2>2, <3>1, <3>2
    <3>5. PICK n \in Nat : n = o.tries
      BY <1>3 DEF o
    <3>6. PICK b \in Nat : b = IF o.rebuilt THEN Max5xx + 1 ELSE 0
      BY <1>3 DEF o
    <3>7. Attempts(o, t) = t + n + b + 1
      BY <2>2, <3>5, <3>6 DEF Attempts
    <3>8. Attempts(r, limit'[p].throttled) =
             limit'[p].throttled + n + b + (IF result = "throttled" THEN 0 ELSE 1)
      BY <3>2, <3>5, <3>6 DEF Attempts
    <3>9. Risked(p)' = Risked(p)
      BY <1>9, <3>3, <3>4, <3>7, <3>8
    <3>10. Cardinality(Unsent(p))' \in Nat /\ Cardinality(Unsent(p))' <= Cardinality(Unsent(p))
      BY <1>1, <3>1, <3>2, UnsentStep
    <3> QED
      BY <1>4, <1>5, <2>2, <3>4, <3>9, <3>10
  <2> QED
    BY <2>3, <2>4
\* Another attempt.
<1>14. ASSUME NEW r \in WorkStates, Goes(p, 1, r), r.pc = "wait", o.pc \notin {"none"},
              UNCHANGED <<proc, limit>>,
              Attempts(r, t) >= Attempts(o, t) + 1
       PROVE  /\ Cardinality(Unsent(p))' + Risked(p) <= Cardinality(Unsent(p)) + Risked(p)'
              /\ OnePage(p)'
  <2>1. /\ Risked(p) = Attempts(o, t) /\ Risked(p)' = Attempts(r, t) /\ OnePage(p)'
    BY <1>8, <1>14 DEF t
  <2>2. Cardinality(Unsent(p))' \in Nat /\ Cardinality(Unsent(p))' <= Cardinality(Unsent(p)) + 1
    BY <1>1, <1>14, UnsentStep
  <2>3. Risked(p)' \in Int
    BY <1>3, <1>9, <1>14, <2>1 DEF Attempts, WorkStates
  <2> QED
    BY <1>4, <1>5, <1>14, <2>1, <2>2, <2>3
<1>15. ASSUME RetryOrGiveUp(p, 1), UNCHANGED limit, o.pc \notin {"none"},
              ~(o.pc = "judge" /\ o.result = "throttled")
       PROVE  /\ Cardinality(Unsent(p))' + Risked(p) <= Cardinality(Unsent(p)) + Risked(p)'
              /\ OnePage(p)'
  <2>1. CASE o.tries < Max5xx
    <3> DEFINE r == [o EXCEPT !.pc = "wait", !.tries = @ + 1]
    <3>1. r \in WorkStates /\ Goes(p, 1, r) /\ UNCHANGED proc
      BY <1>1, <1>15, <2>1, WorkStatesClosed DEF RetryOrGiveUp, o
    <3>2. r.pc = "wait" /\ r.tries = o.tries + 1 /\ r.rebuilt = o.rebuilt
      BY <1>1 DEF o, WorkStates
    <3> HIDE DEF r
    <3>3. PICK n \in Nat : n = o.tries
      BY <1>3 DEF o
    <3>4. PICK b \in Nat : b = IF o.rebuilt THEN Max5xx + 1 ELSE 0
      BY <1>3 DEF o
    <3>5. Attempts(o, t) = t + n + b + 1 /\ Attempts(r, t) = t + (n + 1) + b + 1
      BY <1>15, <3>2, <3>3, <3>4 DEF Attempts
    <3>6. Attempts(r, t) >= Attempts(o, t) + 1
      BY <1>9, <3>5
    <3> QED
      BY <1>14, <1>15, <3>1, <3>2, <3>6
  <2>2. CASE ~(o.tries < Max5xx)
    <3>1. Goes(p, 1, NoWork) /\ Breaks(p)
      BY <1>15, <2>2 DEF RetryOrGiveUp, o
    <3> QED
      BY <1>7, <1>15, <3>1
  <2> QED
    BY <2>1, <2>2
<1>16. CASE Lose(p, w)
  <2>1. o.pc = "sent" /\ RetryOrGiveUp(p, 1) /\ UNCHANGED limit /\ ~Send(p, w)
    BY <1>1, <1>16 DEF Lose, At, Send, Procs, o
  <2> QED
    BY <1>15, <2>1
<1>17. CASE JudgePage(p, w)
  <2>1. o.pc = "judge" /\ UNCHANGED limit /\ ~Send(p, w)
    BY <1>1, <1>17 DEF JudgePage, At, Send, o
  <2>2. CASE Goes(p, 1, NoWork) /\ Breaks(p)
    BY <1>7, <2>1, <2>2
  <2>3. CASE /\ o.result = "throttled"
             /\ Goes(p, 1, [o EXCEPT !.pc = "wait"])
             /\ UNCHANGED proc
    <3> DEFINE r == [o EXCEPT !.pc = "wait"]
    <3>1. r \in WorkStates /\ Goes(p, 1, r)
      BY <1>1, <2>3, WorkStatesClosed DEF o
    <3>2. r.pc = "wait" /\ r.tries = o.tries /\ r.rebuilt = o.rebuilt
      BY <1>1 DEF o, WorkStates
    <3> HIDE DEF r
    <3>3. PICK n \in Nat : n = o.tries
      BY <1>3 DEF o
    <3>4. PICK b \in Nat : b = IF o.rebuilt THEN Max5xx + 1 ELSE 0
      BY <1>3 DEF o
    <3>5. Attempts(o, t) = t + n + b + 0 /\ Attempts(r, t) = t + n + b + 1
      BY <2>1, <2>3, <3>2, <3>3, <3>4 DEF Attempts
    <3>6. Attempts(r, t) >= Attempts(o, t) + 1
      BY <1>9, <3>5
    <3> QED
      BY <1>14, <2>1, <2>3, <3>1, <3>2, <3>6
  <2>4. CASE o.result = "failed" /\ RetryOrGiveUp(p, 1)
    BY <1>15, <2>1, <2>4
  <2>5. CASE /\ o.result = "rejected" /\ ~o.rebuilt
             /\ Goes(p, 1, [NoWork EXCEPT !.pc = "wait", !.rebuilt = TRUE])
             /\ UNCHANGED proc
    <3> DEFINE r == [NoWork EXCEPT !.pc = "wait", !.rebuilt = TRUE]
    <3>1. r \in WorkStates /\ Goes(p, 1, r)
      BY <1>1, <2>5, WorkStatesClosed DEF o
    <3>2. r.pc = "wait" /\ r.tries = 0 /\ r.rebuilt = TRUE
      BY DEF NoWork
    <3> HIDE DEF r
    <3>3. PICK n \in Nat : n = o.tries /\ n <= Max5xx
      BY <1>3 DEF o
    <3>4. Attempts(o, t) = t + n + 0 + 1 /\ Attempts(r, t) = t + 0 + (Max5xx + 1) + 1
      BY <2>1, <2>5, <3>2, <3>3 DEF Attempts
    <3>5. Attempts(r, t) >= Attempts(o, t) + 1
      BY <1>3, <1>9, <3>3, <3>4
    <3> QED
      BY <1>14, <2>1, <2>5, <3>1, <3>2, <3>5
  <2> QED
    BY <1>1, <1>17, <2>2, <2>3, <2>4, <2>5 DEF JudgePage, o
<1> QED
  BY <1>10, <1>11, <1>12, <1>13, <1>16, <1>17 DEF Request, JudgeFile

LEMMA RequestAccount ==
    ASSUME BudgetInv, BudgetInv', AccountInv, NEW p \in Procs, NEW w \in Workers(p), Request(p, w)
    PROVE  AccountInv'
<1>1. /\ BudgetTypeOK /\ hour \in Nat \ {0} /\ DOMAIN work = Procs
      /\ limit[p] \in Limiters /\ limit[p].usage \in Usage /\ limit'[p].usage \in Usage
      /\ served \in [hour : Nat, day : Nat] /\ hidden \in [hour : Nat, day : Nat]
      /\ stored \in Usage /\ proc \in [Procs -> ProcStates]
  BY BudgetConstants DEF BudgetInv, BudgetTypeOK, Limiters
<1>2. proc[p].pc = "running" /\ proc'[p].pc = "running"
      /\ \A q \in Procs \ {p} : proc'[q] = proc[q] /\ work'[q] = work[q]
  <2>1. proc[p].pc = "running"
    BY DEF BudgetInv, QuietInv, Quiet, Request, Take, Admit, Refuse, Cancelled, Send, Respond,
           Lose, JudgePage, JudgeFile, At
  <2>2. \/ UNCHANGED proc
        \/ Breaks(p)
        \/ proc' = [proc EXCEPT ![p].left = @ - 1]
    BY DEF Request, Take, Admit, Refuse, Cancelled, Send, Respond, Lose, JudgePage, JudgeFile,
           RetryOrGiveUp
  <2>3. \E r : Goes(p, w, r)
    BY DEF Request, Take, Admit, Refuse, Cancelled, Send, Respond, Lose, JudgePage, JudgeFile,
           RetryOrGiveUp
  <2> QED
    BY SMTT(40), <1>1, <2>1, <2>2, <2>3 DEF Breaks, ProcStates, Goes
<1>3. UNCHANGED <<hour, stored, hidden>>
  BY DEF Request, Take, Admit, Refuse, Cancelled, Send, Respond, Lose, JudgePage, JudgeFile
<1>4. Lone(p) /\ Kept(p) /\ OnePage(p)
  BY <1>2 DEF AccountInv
<1>5. /\ Send(p, w) => Risked(p)' = Risked(p)
      /\ ~Send(p, w) => Cardinality(Unsent(p))' + Risked(p)
                          <= Cardinality(Unsent(p)) + Risked(p)'
      /\ OnePage(p)'
  <2>1. CASE p \in Downloaders
    BY <1>2, <2>1, FileRisk DEF OnePage
  <2>2. CASE p \notin Downloaders
    BY <1>2, <1>4, <2>2, PageRisk
  <2> QED
    BY <2>1, <2>2
<1>6. Risked(p) \in Nat /\ Risked(p)' \in Int
  <2>1. Risked(p) \in Nat
    BY <1>4, RiskBounded
  <2>2. /\ proc'[p].left \in Nat /\ limit'[p].throttled \in Nat
        /\ p \notin Downloaders => work'[p][1].tries \in Nat
    BY SMTT(40) DEF BudgetInv, BudgetTypeOK, ProcStates, Limiters, Workers, WorkStates
  <2>3. AtRisk(p) \in Int
    BY BudgetConstants, LimiterConstants DEF AtRisk
  <2> QED
    BY <2>1, <2>2, <2>3, BudgetConstants DEF Risked, Attempts, AtRisk
<1>7. /\ InHour(stored)' = InHour(stored) /\ InDay(stored)' = InDay(stored)
      /\ InHour(limit[p].usage)' = InHour(limit'[p].usage)
      /\ InDay(limit[p].usage)' = InDay(limit'[p].usage)
      /\ Pool' = Pool
  BY <1>3 DEF InHour, InDay, DayStart, Pool
<1>8. /\ InHour(stored) \in Nat /\ InDay(stored) \in Nat /\ Pool \in Nat
      /\ InHour(limit[p].usage) \in Nat /\ InDay(limit[p].usage) \in Nat
      /\ InHour(limit'[p].usage) \in Nat /\ InDay(limit'[p].usage) \in Nat
      /\ Cardinality(Unsent(p)) \in Nat /\ Cardinality(Admitted(p)) \in Nat
  BY <1>1, RolledCounts, UnsentFinite, AdmittedFinite, WorkersFinite
<1>9. /\ Cardinality(Unsent(p))' \in Nat /\ Cardinality(Admitted(p))' \in Nat
  <2>1. IsFiniteSet(Workers(p))
    BY WorkersFinite
  <2>2. Unsent(p)' \subseteq Workers(p) /\ Admitted(p)' \subseteq Workers(p)
    BY DEF Unsent, Admitted, Workers
  <2> QED
    BY <2>1, <2>2, FS_Subset, FS_CardinalityType
<1>10. CASE Send(p, w)
  <2>1. /\ served' = [hour |-> served.hour + 1, day |-> served.day + 1]
        /\ limit' = limit
        /\ work[p][w].pc = "admitted"
    BY <1>10 DEF Send, At
  <2> DEFINE r == [work[p][w] EXCEPT !.pc = "sent"]
  <2>2. work[p][w] \in WorkStates
    BY DEF BudgetInv, BudgetTypeOK
  <2>3. r \in WorkStates /\ r.pc = "sent" /\ Goes(p, w, r)
    BY <1>10, <2>2, WorkStatesClosed DEF Send, WorkStates
  <2> HIDE DEF r
  <2>4. /\ Cardinality(Unsent(p))' = Cardinality(Unsent(p)) - 1
        /\ Cardinality(Admitted(p))' = Cardinality(Admitted(p)) - 1
    BY <1>1, <2>1, <2>3, UnsentStep, AdmittedStep DEF At
  <2>5. Hourly > 0 => HourKept(p)'
    BY <1>1, <1>2, <1>3, <1>4, <1>5, <1>6, <1>7, <1>8, <1>10, <2>1, <2>4 DEF Kept, HourKept
  <2>6. Daily > 0 => DayKept(p)'
    BY <1>1, <1>2, <1>3, <1>4, <1>5, <1>6, <1>7, <1>8, <1>10, <2>1, <2>4 DEF Kept, DayKept
  <2> QED
    BY <1>2, <1>3, <1>4, <1>5, <2>5, <2>6, AccountOf DEF Kept, AccountInv
<1>11. CASE ~Send(p, w)
  <2>1. served' = served
    BY <1>11 DEF Request, Take, Admit, Refuse, Cancelled, Respond, Lose, JudgePage, JudgeFile
  <2>2. /\ InHour(limit'[p].usage) >= InHour(limit[p].usage)
           + (Cardinality(Admitted(p))' - Cardinality(Admitted(p)))
        /\ InDay(limit'[p].usage) >= InDay(limit[p].usage)
           + (Cardinality(Admitted(p))' - Cardinality(Admitted(p)))
    <3>1. CASE /\ Cardinality(Admitted(p))' <= Cardinality(Admitted(p)) + 1
               /\ limit'[p] = Counted(limit[p], hour)
      BY <1>1, <1>8, <1>9, <3>1, CountedCounts
    <3>2. CASE /\ Cardinality(Admitted(p))' <= Cardinality(Admitted(p))
               /\ limit' = limit
      BY <1>8, <1>9, <3>2
    <3>3. CASE /\ Cardinality(Admitted(p))' <= Cardinality(Admitted(p))
               /\ Returned(p)
      <4>1. \A bytes \in 0..MaxBytes : bytes \in Nat
        BY BudgetConstants
      <4>2. /\ InHour(limit'[p].usage) = InHour(limit[p].usage)
            /\ InDay(limit'[p].usage) = InDay(limit[p].usage)
        BY <1>1, <3>3, <4>1, RecordedCounts DEF Returned
      <4> QED
        BY <1>8, <1>9, <3>3, <4>2
    <3>4. served' # [hour |-> served.hour + 1, day |-> served.day + 1]
      BY <1>1, <2>1
    <3> QED
      BY <1>1, <3>1, <3>2, <3>3, <3>4, AccountEffect
  <2>3. Hourly > 0 => HourKept(p)'
    BY <1>1, <1>2, <1>3, <1>4, <1>5, <1>6, <1>7, <1>8, <1>9, <1>11, <2>1, <2>2 DEF Kept, HourKept
  <2>4. Daily > 0 => DayKept(p)'
    BY <1>1, <1>2, <1>3, <1>4, <1>5, <1>6, <1>7, <1>8, <1>9, <1>11, <2>1, <2>2 DEF Kept, DayKept
  <2> QED
    BY <1>2, <1>3, <1>4, <1>5, <2>3, <2>4, AccountOf DEF Kept, AccountInv
<1> QED
  BY <1>10, <1>11

\* Whatever processes come one after the other over the table (feed processes,
\* media downloads), and however they fail, crash and are started again, the
\* server sees no more requests in an hour or a day than the limits and the
\* pool, but for AtRisk requests by each run that ended and each snapshot that
\* failed in that window, and for the limits once more by each start that could
\* not read the table (Limiter.Restore and Snapshot, budget.restore and persist
\* in engine/resource.go, Downloader.Run).
THEOREM ServerIsHonoured ==
    ASSUME OneAtATime, Procs # {}
    PROVE  BudgetSpec => []ServerHonoured
<1>1. BudgetInit => AccountInv
  <2> SUFFICES ASSUME BudgetInit PROVE AccountInv
    OBVIOUS
  <2>1. /\ stored = NoUsage /\ hour = 1 /\ served = [hour |-> 0, day |-> 0]
        /\ hidden = [hour |-> 0, day |-> 0]
        /\ \A p \in Procs : proc[p] = Down
    BY DEF BudgetInit
  <2>2. NoUsage \in Usage /\ NoUsage.hour.start = 0 /\ NoUsage.day.start = 0
    BY DEF NoUsage, Usage, Hour, Day
  <2>3. DayStart(hour) \in Nat /\ InHour(NoUsage) \in Nat /\ InDay(NoUsage) \in Nat
    BY <2>1, <2>2, DayStartTyped, RolledCounts
  <2>4. ASSUME NEW p \in Procs
        PROVE  proc[p].pc = "down" /\ OnePage(p) /\ Kept(p)
    <3>1. proc[p].pc = "down" /\ proc[p].left = 0
      BY <2>1 DEF Down
    <3>2. \A w \in Workers(p) : work[p][w].pc = "none"
      BY DEF BudgetInit, NoWork
    <3>3. Unsent(p) = {} /\ Risked(p) = 0 /\ Cardinality({}) = 0
      BY <3>1, <3>2, FS_EmptySet DEF Unsent, Risked
    <3>4. Pool \in Nat
      BY WorkersFinite
    <3>5. OnePage(p)
      BY <3>1 DEF OnePage
    <3> QED
      BY <2>1, <2>3, <3>1, <3>3, <3>4, <3>5 DEF Kept, HourKept, DayKept
  <2> QED
    BY <2>1, <2>2, <2>3, <2>4 DEF AccountInv
<1>2. ASSUME BudgetInv, BudgetInv', AccountInv, [BudgetNext]_bvars
      PROVE  AccountInv'
  <2>1. CASE UNCHANGED bvars
    <3>1. /\ UNCHANGED <<hour, limit, proc, work, stored, served, hidden>>
          /\ UNCHANGED InHour(stored) /\ UNCHANGED InDay(stored)
      BY <2>1 DEF bvars, InHour, InDay, DayStart
    <3>2. ASSUME NEW p \in Procs
          PROVE  /\ UNCHANGED InHour(limit[p].usage) /\ UNCHANGED InDay(limit[p].usage)
                 /\ UNCHANGED Admitted(p) /\ UNCHANGED Unsent(p) /\ UNCHANGED OnePage(p)
                 /\ UNCHANGED Risked(p) /\ UNCHANGED Lone(p)
      BY <3>1 DEF InHour, InDay, DayStart, Admitted, Unsent, OnePage, Risked, Attempts, Lone, Workers
    <3>3. ASSUME NEW p \in Procs, Kept(p)
          PROVE  Kept(p)'
      BY <3>1, <3>2, <3>3 DEF Kept, HourKept, DayKept
    <3> QED
      BY <1>2, <3>1, <3>2, <3>3 DEF AccountInv, DayStart
  <2>2. CASE Tick
    BY <1>2, <2>2, TickAccount
  <2>3. ASSUME NEW p \in Procs,
               Launch(p) \/ StartRun(p) \/ EndBatch(p) \/ Crash(p) \/ Interrupt(p)
        PROVE  AccountInv'
    BY <1>2, <2>3, RunAccount
  <2>4. ASSUME NEW p \in Procs, NEW w \in Workers(p), Request(p, w)
        PROVE  AccountInv'
    BY <1>2, <2>4, RequestAccount
  <2> QED
    BY <1>2, <2>1, <2>2, <2>3, <2>4 DEF BudgetNext
<1>3. BudgetInv /\ AccountInv => ServerHonoured
  <2> SUFFICES ASSUME BudgetInv, AccountInv PROVE ServerHonoured
    OBVIOUS
  <2>1. /\ hour \in Nat \ {0} /\ stored \in Usage /\ RequestsWithin(stored)
        /\ served \in [hour : Nat, day : Nat] /\ hidden \in [hour : Nat, day : Nat]
    BY BudgetConstants DEF BudgetInv, BudgetTypeOK, RequestsInv
  <2>3. ASSUME NEW p \in Procs, Lone(p) PROVE ServerHonoured
    <3>1. Kept(p) /\ limit[p].usage \in Usage /\ RequestsWithin(limit[p].usage)
      BY <2>3 DEF AccountInv, BudgetInv, BudgetTypeOK, Limiters, RequestsInv
    <3>2. /\ InHour(stored) \in Nat /\ InDay(stored) \in Nat /\ Pool \in Nat
          /\ InHour(limit[p].usage) \in Nat /\ InDay(limit[p].usage) \in Nat
          /\ Cardinality(Unsent(p)) \in Nat /\ Cardinality(Admitted(p)) \in Nat
      BY <2>1, <3>1, RolledCounts, UnsentFinite, AdmittedFinite, WorkersFinite
    <3>3. /\ Hourly > 0 => InHour(stored) <= Hourly /\ InHour(limit[p].usage) <= Hourly
          /\ Daily > 0 => InDay(stored) <= Daily /\ InDay(limit[p].usage) <= Daily
      BY <2>1, <3>1, LimiterConstants DEF RequestsWithin, InHour, InDay
    <3>4. CASE proc[p].pc = "running"
      BY <2>1, <3>1, <3>2, <3>3, <3>4, LimiterConstants
         DEF Kept, HourKept, DayKept, ServerHonoured
    <3>5. CASE proc[p].pc # "running"
      <4>1. Risked(p) = 0
        BY <3>5 DEF Risked
      <4> QED
        BY <2>1, <3>1, <3>2, <3>3, <4>1, LimiterConstants
           DEF Kept, HourKept, DayKept, ServerHonoured
    <3> QED
      BY <3>4, <3>5
  <2>4. ASSUME NEW p \in Procs PROVE \E q \in Procs : Lone(q)
    <3>1. CASE \A q \in Procs : proc[q].pc = "down"
      BY <3>1 DEF Lone
    <3>2. CASE \E q \in Procs : proc[q].pc # "down"
      BY <3>2 DEF AccountInv
    <3> QED
      BY <3>1, <3>2
  <2> QED
    BY <2>3, <2>4
<1> QED
  BY <1>1, <1>2, <1>3, BudgetInvariant, PTL DEF BudgetSpec
=============================================================================
