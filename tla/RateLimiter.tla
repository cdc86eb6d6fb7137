---------------------------- MODULE RateLimiter ----------------------------
(***************************************************************************)
(* The client-side rate limiter of internal/ratelimit/limiter.go, as        *)
(* operators on a limiter's state: every method runs under its mutex and is *)
(* one step of the module that uses it.  Time is the number of the UTC hour *)
(* (limits are per hour and per day); 0 is the zero time.                   *)
(***************************************************************************)
EXTENDS Naturals

CONSTANTS
    Hourly,      \* requests per UTC hour; 0 disables the check
    Daily,       \* requests per UTC day; 0 disables the check
    BytesHourly, \* downloaded bytes per UTC hour; 0 disables the check
    Threshold,   \* consecutive 429s that open the circuit
    HoursPerDay

ASSUME LimiterConstants ==
    /\ Hourly \in Nat
    /\ Daily \in Nat
    /\ BytesHourly \in Nat
    /\ Threshold \in Nat \ {0}
    /\ HoursPerDay \in Nat \ {0}

\* Truncate(24h): the first hour of the day.  Hours are counted from 1.
DayStart(hour) == hour - ((hour - 1) % HoursPerDay)

Hour == [start : Nat, requests : Nat, bytes : Nat]
Day == [start : Nat, requests : Nat]

\* Usage: the two windows, as persisted in rate_budget.
Usage == [hour : Hour, day : Day]

NoUsage == [hour |-> [start |-> 0, requests |-> 0, bytes |-> 0],
            day |-> [start |-> 0, requests |-> 0]]

Limiters == [usage : Usage, throttled : Nat]   \* throttled: consecutive429

NewLimiter == [usage |-> NoUsage, throttled |-> 0]

-----------------------------------------------------------------------------

\* roll: a window that has passed starts again from nothing.
Rolled(u, now) ==
    [hour |-> IF u.hour.start = now THEN u.hour
              ELSE [start |-> now, requests |-> 0, bytes |-> 0],
     day |-> IF u.day.start = DayStart(now) THEN u.day
             ELSE [start |-> DayStart(now), requests |-> 0]]

\* Mutant: one request too many.
ExhaustedLate(u) ==
    \/ Daily > 0 /\ u.day.requests > Daily
    \/ Hourly > 0 /\ u.hour.requests > Hourly
    \/ BytesHourly > 0 /\ u.hour.bytes > BytesHourly

\* Wait has to sleep: a window has no room for another request.
Exhausted(u) ==
    \/ Daily > 0 /\ u.day.requests >= Daily
    \/ Hourly > 0 /\ u.hour.requests >= Hourly
    \/ BytesHourly > 0 /\ u.hour.bytes >= BytesHourly

\* Mutant: one 429 too many.
OpenLate(l) == l.throttled > Threshold

\* CircuitOpen
Open(l) == l.throttled >= Threshold

\* Wait lets a request start: it is counted before it is sent.
MayStart(l, now) == ~Open(l) /\ ~Exhausted(Rolled(l.usage, now))

Counted(l, now) ==
    LET u == Rolled(l.usage, now)
    IN  [l EXCEPT !.usage = [hour |-> [u.hour EXCEPT !.requests = @ + 1],
                             day |-> [u.day EXCEPT !.requests = @ + 1]]]

\* RecordResponse: the bytes go to the current hour; a 429 counts against the
\* circuit, a 2xx closes it, anything else leaves it as it is.
Recorded(l, now, bytes, status) ==
    LET u == Rolled(l.usage, now)
    IN  [usage |-> [u EXCEPT !.hour.bytes = @ + bytes],
         throttled |-> CASE status = "throttled" -> l.throttled + 1
                         [] status = "ok" -> 0
                         [] OTHER -> l.throttled]

\* Snapshot
Snapshot(l, now) == Rolled(l.usage, now)

\* Mutant: looks whether the limiter's own window is the current one, which that
\* of a new limiter never is.
RestoredIfCounting(l, now, u) ==
    [l EXCEPT !.usage = [hour |-> IF l.usage.hour.start = now THEN u.hour ELSE l.usage.hour,
                         day |-> IF l.usage.day.start = DayStart(now) THEN u.day
                                 ELSE l.usage.day]]

\* Restore: a persisted window that is still the current one replaces the
\* limiter's, whatever the limiter has counted itself.
Restored(l, now, u) ==
    [l EXCEPT !.usage = [hour |-> IF u.hour.start = now THEN u.hour ELSE l.usage.hour,
                         day |-> IF u.day.start = DayStart(now) THEN u.day ELSE l.usage.day]]

=============================================================================
