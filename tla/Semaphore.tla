----------------------------- MODULE Semaphore -----------------------------
(***************************************************************************)
(* The engine semaphore of hedra/core/engines/types/common/concurrency/    *)
(* semaphore.py, which bounds the requests an engine has in flight.        *)
(*                                                                         *)
(* Everything runs on one asyncio event loop: a task runs undisturbed from *)
(* one await to the next, and one action is one such step.  acquire()      *)
(* awaits a fresh waiter future; between set_result on that future and the *)
(* step in which its task runs again, other tasks run, and the task may be *)
(* cancelled.  A task is one `async with sem` block, used once.            *)
(***************************************************************************)
EXTENDS Integers, Sequences, FiniteSets

CONSTANTS
    Tasks,  \* the coroutines that enter the semaphore
    Value   \* the initial counter

ASSUME TasksAssumption == IsFiniteSet(Tasks)
ASSUME ValueAssumption == Value \in Nat \ {0}

VARIABLES
    value,            \* _value
    waiters,          \* _waiters: the tasks whose futures are in the deque
    wakeupScheduled,  \* _wakeup_scheduled
    pc                \* where each task is

vars == <<value, waiters, wakeupScheduled, pc>>

(***************************************************************************)
(* "idle": acquire() not called yet; "waiting": its future is pending;     *)
(* "woken": its future has a result, the task has not run since;           *)
(* "cancelled": cancel() was called, CancelledError is not raised yet;     *)
(* "holding": inside the block; "done": released; "gone": left acquire()   *)
(* with CancelledError.  A future in the deque is done() unless its task   *)
(* is "waiting".                                                           *)
(***************************************************************************)
PCs == {"idle", "waiting", "woken", "cancelled", "holding", "done", "gone"}

At(s) == {t \in Tasks : pc[t] = s}

Init ==
    /\ value = Value
    /\ waiters = <<>>
    /\ wakeupScheduled = FALSE
    /\ pc = [t \in Tasks |-> "idle"]

\* The condition of acquire()'s while loop.
MustWait == wakeupScheduled \/ value <= 0

\* The loop body up to its await: a new future at the end of the deque.
Enqueue(t) ==
    /\ waiters' = Append(waiters, t)
    /\ pc' = [pc EXCEPT ![t] = "waiting"]
    /\ UNCHANGED value

\* What follows the loop.
Take(t) ==
    /\ value' = value - 1
    /\ pc' = [pc EXCEPT ![t] = "holding"]
    /\ UNCHANGED waiters

Pending(p) == {i \in 1..Len(waiters) : p[waiters[i]] = "waiting"}

\* _wake_up_next(), run when the program counters are p: done futures are
\* popped until a pending one, which gets its result.
WakeUpNext(p) ==
    \/ /\ Pending(p) = {}
       /\ waiters' = <<>>
       /\ pc' = p
       /\ UNCHANGED wakeupScheduled
    \/ \E i \in Pending(p) :
       /\ \A j \in Pending(p) : i <= j
       /\ waiters' = SubSeq(waiters, i + 1, Len(waiters))
       /\ pc' = [p EXCEPT ![waiters[i]] = "woken"]
       /\ wakeupScheduled' = TRUE

AcquireNow(t) ==
    /\ pc[t] = "idle"
    /\ ~MustWait
    /\ Take(t)
    /\ UNCHANGED wakeupScheduled

AcquireWait(t) ==
    /\ pc[t] = "idle"
    /\ MustWait
    /\ Enqueue(t)
    /\ UNCHANGED wakeupScheduled

\* Mutant: a woken task takes its permit without looking at the counter.
ResumeTakeUnchecked(t) ==
    /\ pc[t] = "woken"
    /\ wakeupScheduled' = FALSE
    /\ Take(t)

\* acquire() after its await: the flag is cleared first, so only the
\* counter decides whether the loop goes round again.
ResumeTake(t) ==
    /\ pc[t] = "woken"
    /\ wakeupScheduled' = FALSE
    /\ value > 0
    /\ Take(t)

ResumeWait(t) ==
    /\ pc[t] = "woken"
    /\ wakeupScheduled' = FALSE
    /\ value <= 0
    /\ Enqueue(t)

\* Mutants: the permit is not given back; nobody is woken; somebody is woken
\* only when the counter was zero, as release()'s docstring has it.
ReleaseLosesPermit(t) ==
    /\ pc[t] = "holding"
    /\ WakeUpNext([pc EXCEPT ![t] = "done"])
    /\ UNCHANGED value

ReleaseSilently(t) ==
    /\ pc[t] = "holding"
    /\ value' = value + 1
    /\ pc' = [pc EXCEPT ![t] = "done"]
    /\ UNCHANGED <<waiters, wakeupScheduled>>

ReleaseWakesAtZero(t) ==
    /\ pc[t] = "holding"
    /\ value' = value + 1
    /\ IF value = 0
       THEN WakeUpNext([pc EXCEPT ![t] = "done"])
       ELSE pc' = [pc EXCEPT ![t] = "done"] /\ UNCHANGED <<waiters, wakeupScheduled>>

\* release(), from __aexit__: the block ended, by an exception or not.
Release(t) ==
    /\ pc[t] = "holding"
    /\ value' = value + 1
    /\ WakeUpNext([pc EXCEPT ![t] = "done"])

\* Task.cancel() on a task inside acquire(): a pending future is cancelled
\* and stays in the deque; for a woken task only CancelledError remains.
Cancel(t) ==
    /\ pc[t] \in {"waiting", "woken"}
    /\ pc' = [pc EXCEPT ![t] = "cancelled"]
    /\ UNCHANGED <<value, waiters, wakeupScheduled>>

\* CancelledError is raised at the await.
RaiseCancelled(t) ==
    /\ pc[t] = "cancelled"
    /\ WakeUpNext([pc EXCEPT ![t] = "gone"])
    /\ UNCHANGED value

Next == \E t \in Tasks :
    \/ AcquireNow(t)
    \/ AcquireWait(t)
    \/ ResumeTake(t)
    \/ ResumeWait(t)
    \/ Release(t)
    \/ Cancel(t)
    \/ RaiseCancelled(t)

Spec == Init /\ [][Next]_vars

(***************************************************************************)
(* The event loop runs every ready task, and a request in the block ends:  *)
(* each of its awaits has a timeout.  Entering and cancelling are up to    *)
(* the caller.                                                             *)
(***************************************************************************)
Fairness == \A t \in Tasks :
    WF_vars(ResumeTake(t) \/ ResumeWait(t) \/ Release(t) \/ RaiseCancelled(t))

FairSpec == Spec /\ Fairness

-----------------------------------------------------------------------------
\* The variables keep their types; the counter never goes below zero, as
\* the class's docstring promises, although cancelled waiters wake others.
TypeOK ==
    /\ value \in 0..Value
    /\ waiters \in Seq(Tasks)
    /\ wakeupScheduled \in BOOLEAN
    /\ pc \in [Tasks -> PCs]

\* The counter and the tasks inside the block always add up to the initial
\* value: no wake-up, barging or cancellation makes or loses a permit.
PermitConservation == value + Cardinality(At("holding")) = Value

\* A task that waits has its future in the deque exactly once, so the
\* wake-ups of release() and of a cancelled waiter can reach it.
WaitersQueued ==
    \A t \in At("waiting") :
        Cardinality({i \in 1..Len(waiters) : waiters[i] = t}) = 1

\* No task was cancelled so far.
Uncancelled == At("cancelled") \cup At("gone") = {}

\* While a task waits, another one holds a permit or is about to run: the
\* tasks are never all parked in acquire(), as long as none was cancelled.
NoStrandedWaiter ==
    Uncancelled /\ At("waiting") # {} => At("holding") \cup At("woken") # {}

\* "_wakeup_scheduled is set if *another* task is scheduled to wakeup but
\* its acquire() is not resumed yet" (semaphore.py:74).
WakeupFlagAccurate == wakeupScheduled => At("woken") \cup At("cancelled") # {}

\* A task that waits in acquire() eventually holds a permit, when none is
\* cancelled and every holder releases, although later arrivals may take
\* the permit it was woken for.
EventuallyServed ==
    []Uncancelled => \A t \in Tasks : pc[t] = "waiting" ~> pc[t] = "holding"

-----------------------------------------------------------------------------
(***************************************************************************)
(* What the engines rely on: the semaphore implements PermitPool, in which *)
(* at most Value tasks are inside and a task leaves or gives up once.      *)
(***************************************************************************)
Stage(s) ==
    IF s = "holding" THEN "inside" ELSE IF s \in {"done", "gone"} THEN "left" ELSE "outside"

Permits == INSTANCE PermitPool WITH stage <- [t \in Tasks |-> Stage(pc[t])]

\* Every behaviour of the semaphore is one of the abstract permit pool.
ImplementsPermitPool == Permits!Spec
=============================================================================
