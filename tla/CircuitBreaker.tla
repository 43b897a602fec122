--------------------------- MODULE CircuitBreaker ---------------------------
(***************************************************************************)
(* The circuit breaker of the HTTP services:                               *)
(* hedra/distributed/middleware/circuit_breaker/circuit_breaker.py.        *)
(*                                                                         *)
(* __run__ runs without an await up to the handler, and after it to its    *)
(* end: two steps.  Time is counted in ticks, Window of which make a       *)
(* failure_window, and what the code keeps as points in time is kept as    *)
(* ages up to the largest one it tells apart.  A rate is kept times        *)
(* Window, so that it is an integer.                                       *)
(***************************************************************************)
EXTENDS Integers, FiniteSetsExt

CONSTANTS
    Window,       \* failure_window
    Threshold,    \* failure_threshold, in percent
    MaxRunning,   \* bound on the handlers running at a time
    MaxCompleted  \* bound on the requests that complete in one window

ASSUME BreakerAssumption ==
    /\ Window \in Nat \ {0} /\ Threshold \in 1..99
    /\ MaxRunning \in Nat /\ MaxCompleted \in Nat

VARIABLES
    breaker,    \* the state with its clocks, see Closed
    phase,      \* the loop's time, modulo Window
    windowAge,  \* time since _current_time, at most Window + 1
    counts,     \* failed, succeeded, total_completed
    previous,   \* the same of the window before
    rates,      \* _rate_per_sec_failed and _rate_per_sec, of the latest request
    running,    \* number of handlers running
    overdue,    \* history: requests the open breaker rejected past its window
    trips       \* history: how often it tripped since a handler failed

countVars == <<counts, previous, rates>>
historyVars == <<overdue, trips>>
breakerVars == <<breaker, phase, windowAge, countVars, running, historyVars>>

Zero == [failed |-> 0, succeeded |-> 0, total |-> 0]

\* closedAge and halfAge: time since _closed_window_start and since
\* _half_open_window_start; closedElapsed and halfElapsed: _closed_elapsed
\* and _half_open_elapsed.  None is told apart beyond Window.
Closed == [state |-> "CLOSED", closedAge |-> 0, closedElapsed |-> 0, halfAge |-> 0, halfElapsed |-> 0]

BreakerInit ==
    /\ breaker = Closed
    /\ phase \in 0..(Window - 1)
    /\ windowAge = 0
    /\ counts = Zero /\ previous = Zero
    /\ rates = [failed |-> 0, total |-> 0]
    /\ running = 0
    /\ overdue = 0 /\ trips = 0

-----------------------------------------------------------------------------
(* reject_request and trip_breaker *)

Rolls == windowAge > Window

\* Mutant: the counters go on in the new window.
CountsKept == counts

\* When the window has passed its counts become the previous ones, and the
\* new one begins at a multiple of its length.
WindowAge == IF Rolls THEN phase ELSE windowAge

Counts == IF Rolls THEN Zero ELSE counts

Previous == IF Rolls THEN counts ELSE previous

\* The previous window counts for the part of it that still overlaps.
Rate(f) == Previous[f] * (Window - WindowAge) + Window * Counts[f]

\* The probability of a rejection is above zero; it is never one.
MayReject == (100 - Threshold) * Rate("total") > 100 * Rate("succeeded")

TripBreaker(r) == r.failed \div Window > Max({(r.total * Threshold) \div (100 * Window), 1})

-----------------------------------------------------------------------------
(* __run__ *)

StaysOpen(b) == b.state = "OPEN" /\ b.closedElapsed < Window

\* Mutants: the time the breaker was open is not reset; it is not measured by
\* a request that may be rejected anyway.
CheckOpenKeeps(b) ==
    CASE StaysOpen(b)                    -> [b EXCEPT !.closedElapsed = b.closedAge]
      [] b.state = "OPEN" /\ ~StaysOpen(b) -> [b EXCEPT !.state = "HALF_OPEN", !.halfAge = 0]
      [] OTHER                           -> b

CheckOpenUnlessRejected(b) ==
    CASE StaysOpen(b)                    -> IF MayReject THEN b ELSE [b EXCEPT !.closedElapsed = b.closedAge]
      [] b.state = "OPEN" /\ ~StaysOpen(b) -> [b EXCEPT !.state = "HALF_OPEN", !.halfAge = 0, !.closedElapsed = 0]
      [] OTHER                           -> b

\* An open breaker stays open until an earlier request has seen the window
\* pass; the next one makes it half open.
CheckOpen(b) ==
    CASE StaysOpen(b)                    -> [b EXCEPT !.closedElapsed = b.closedAge]
      [] b.state = "OPEN" /\ ~StaysOpen(b) -> [b EXCEPT !.state = "HALF_OPEN", !.halfAge = 0, !.closedElapsed = 0]
      [] OTHER                           -> b

\* Mutant: the half-open window is measured again and again.
CheckHalfOpenAgain(b) ==
    IF b.state # "HALF_OPEN" THEN b
    ELSE IF b.halfElapsed < Window THEN [b EXCEPT !.halfElapsed = b.halfAge]
    ELSE [b EXCEPT !.halfElapsed = 0]

\* A half-open one is closed the same way.
CheckHalfOpen(b) ==
    IF b.state # "HALF_OPEN" THEN b
    ELSE IF b.halfElapsed < Window THEN [b EXCEPT !.halfElapsed = b.halfAge]
    ELSE [b EXCEPT !.state = "CLOSED", !.halfElapsed = 0]

Trips(b) == [b EXCEPT !.state = "OPEN", !.closedAge = 0, !.halfElapsed = 0]

\* The end of __run__ for breaker b; it may trip on the rates of the latest
\* request that began.  fails: the handler failed.
Finish(b, fails) ==
    LET tripped == TripBreaker(rates') /\ b.state # "OPEN"
        sofar == IF fails THEN 0 ELSE trips
    IN  /\ breaker' = IF tripped THEN Trips(b) ELSE b
        /\ trips' = Min({sofar + IF tripped THEN 1 ELSE 0, 4})

\* A request begins.
Start ==
    LET b == CheckHalfOpen(CheckOpen(breaker))
    IN  /\ windowAge' = WindowAge /\ counts' = Counts /\ previous' = Previous
        /\ rates' = [failed |-> Rate("failed"), total |-> Rate("total")]
        /\ \/ /\ MayReject \/ StaysOpen(breaker)
              /\ Finish(b, FALSE)
              /\ UNCHANGED running
           \/ /\ ~StaysOpen(breaker)
              /\ running < MaxRunning /\ Counts.total + running < MaxCompleted
              /\ running' = running + 1
              /\ breaker' = b
              /\ UNCHANGED trips
        /\ overdue' = IF StaysOpen(breaker)
                      THEN overdue + IF breaker.closedAge = Window THEN 1 ELSE 0
                      ELSE 0
        /\ UNCHANGED phase

\* Its handler returns, raises or times out.
Complete(f) ==
    /\ running > 0
    /\ running' = running - 1
    /\ counts' = [counts EXCEPT ![f] = @ + 1, !.total = @ + 1]
    /\ UNCHANGED <<phase, windowAge, previous, rates, overdue>>
    /\ Finish(breaker, f = "failed")

Tick ==
    LET older(age) == Min({age + 1, Window})
    IN  /\ phase' = (phase + 1) % Window
        /\ windowAge' = Min({windowAge + 1, Window + 1})
        /\ breaker' = [breaker EXCEPT !.closedAge = older(@), !.halfAge = older(@)]
        /\ UNCHANGED <<countVars, running, historyVars>>

BreakerNext == Start \/ Complete("failed") \/ Complete("succeeded") \/ Tick

(***************************************************************************)
(* Time passes and handlers end, by their timeout at the latest.  That     *)
(* requests keep coming is assumed: without one nothing happens.           *)
(***************************************************************************)
Fairness ==
    /\ WF_breakerVars(Tick) /\ SF_breakerVars(Start)
    /\ WF_breakerVars(Complete("failed") \/ Complete("succeeded"))

BreakerSpec == BreakerInit /\ [][BreakerNext]_breakerVars /\ Fairness

-----------------------------------------------------------------------------
\* The variables keep their types; the counters of a window add up although
\* requests begin in one window and end in another.
BreakerTypeOK ==
    /\ breaker.state \in {"CLOSED", "OPEN", "HALF_OPEN"}
    /\ {breaker.closedAge, breaker.closedElapsed, breaker.halfAge, breaker.halfElapsed} \subseteq 0..Window
    /\ windowAge \in 0..(Window + 1)
    /\ counts.total = counts.failed + counts.succeeded
    /\ counts.total + running <= MaxCompleted + MaxRunning
    /\ rates.failed <= rates.total

\* No handler is called within failure_window of a trip, although handlers
\* that were called before it are still running and end: _closed_elapsed is
\* zero whenever the breaker trips.
OpenHolds == [][running' > running /\ breaker.state = "OPEN" => breaker.closedAge = Window]_breakerVars

\* An open breaker rejects one request at most because it is open when its
\* window is over: _closed_elapsed is of the request before.
OverdueOnce == overdue <= 1

\* The breaker is closed only when it was half open for failure_window, though
\* it may have been half open, and tripped, before: what _half_open_elapsed
\* was then is forgotten.
HalfOpenHolds ==
    [][breaker.state # "CLOSED" /\ breaker'.state = "CLOSED" =>
        breaker.state = "HALF_OPEN" /\ breaker.halfAge = Window]_breakerVars

\* A trip resets no counter: failures still count when the breaker is half
\* open, while every request is let through, and trip it again without a new
\* one.  They are forgotten after their second window, so that the same
\* failures trip it three times at most.
TripsOnOldFailures == trips <= 3

\* When handlers fail no more the breaker is closed and stays so.
Recovers == <>[][~Complete("failed")]_breakerVars => <>[](breaker.state = "CLOSED")
=============================================================================
