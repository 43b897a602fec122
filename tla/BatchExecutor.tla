--------------------------- MODULE BatchExecutor ---------------------------
(***************************************************************************)
(* One use of the stage executor of hedra/core/graphs/stages/base/parallel *)
(* (batch_executor.py and synchronization/batched_semaphore.py), as the    *)
(* Optimize and Analyze stages make it: partion_stage_batches spreads the  *)
(* pool's workers over the stages, then execute_batches runs one task per  *)
(* batch entry, each of which acquires as many permits as it has workers.  *)
(*                                                                         *)
(* Tasks share an event loop; one action is one step between two awaits.   *)
(***************************************************************************)
EXTENDS Integers, Sequences, FiniteSets, SequencesExt

CONSTANTS
    MaxPool,   \* bound on max_workers
    MaxStages  \* bound on the number of stages

ASSUME BatchAssumption == MaxPool \in Nat \ {0} /\ MaxStages \in Nat \ {0}

VARIABLES
    maxWorkers,       \* max_workers of the executor
    stagesCount,      \* len(stages); a stage is its index
    batchByStages,    \* batch_by_stages
    batches,          \* the (stage, workers) pairs to execute, in order
    value,            \* _value of the semaphore
    waiters,          \* its _waiters: the tasks whose futures are queued
    wakeupScheduled,  \* its _wakeup_scheduled
    pc,               \* where the task of each batch entry is
    broken,           \* the process pool is broken
    call              \* where execute_batches is

semVars == <<value, waiters, wakeupScheduled>>
inputVars == <<maxWorkers, stagesCount, batchByStages, batches>>
vars == <<inputVars, semVars, pc, broken, call>>

(***************************************************************************)
(* "new": created, not run yet; "waiting" and "woken": in acquire(), its   *)
(* future pending or with a result; "executing": awaiting the worker       *)
(* processes with its permits taken; "cancelWait", "cancelExecute": cancel *)
(* was called in one of these two, CancelledError is not raised yet;       *)
(* "done"; "failed": raised out of the execution; "gone": out of acquire() *)
(***************************************************************************)
PCs == {"new", "waiting", "woken", "executing", "cancelWait", "cancelExecute",
        "done", "failed", "gone"}

Tasks == 1..Len(batches)

At(states) == {t \in Tasks : pc[t] \in states}

Workers(t) == batches[t].workers

\* The sum of f over S, as the number of slots: one for every unit of every f[i].
SlotsOf(f, S) == UNION {{i} \X (1..f[i]) : i \in S}
Total(f, S) == Cardinality(SlotsOf(f, S))

TotalWorkers(S) == Total([t \in Tasks |-> Workers(t)], S)

Init ==
    /\ maxWorkers \in 1..MaxPool
    /\ stagesCount \in 1..MaxStages
    /\ batchByStages \in BOOLEAN
    /\ batches = <<>>
    /\ value = maxWorkers
    /\ waiters = <<>>
    /\ wakeupScheduled = FALSE
    /\ pc = <<>>
    /\ broken = FALSE
    /\ call = "partition"

-----------------------------------------------------------------------------
(* partion_stage_batches *)

\* k entries with w workers each.
Uniform(k, w) == [i \in 1..k |-> w]

\* Mutant: the workers left over by the division are not handed out.
SpreadRemainderNot(batch, m) == batch

\* The workers a division left over go one each to the first entries.
SpreadRemainder(batch, m) ==
    [i \in 1..Len(batch) |-> batch[i] + (IF i <= m % Len(batch) THEN 1 ELSE 0)]

\* The workers of n stages over m processes, batch by batch: full batches
\* of single workers, then the remaining stages share the processes.
BatchedStages(n, m) ==
    LET sets == (n + m - 1) \div m
        rest == n % m
        full == IF rest > 0 /\ n > m
                THEN Uniform(sets - 1, Uniform(m, 1))
                ELSE Uniform(sets, Uniform(n \div sets, m \div (n \div sets)))
        all  == IF rest > 0 /\ n > m
                THEN Append(full, Uniform(rest, m \div rest))
                ELSE full
    IN  [all EXCEPT ![sets] = SpreadRemainder(@, m)]

\* The inner loop's enumerate() numbers the stages from the start again in
\* every batch.
Named(batch) == [i \in 1..Len(batch) |-> [stage |-> i, workers |-> batch[i]]]

PartitionedStages ==
    IF batchByStages
    THEN Named(Uniform(stagesCount, 1))
    ELSE FlattenSeq([b \in 1..Len(BatchedStages(stagesCount, maxWorkers)) |->
                        Named(BatchedStages(stagesCount, maxWorkers)[b])])

\* The stages are partitioned and execute_batches creates its tasks.
ExecuteBatches ==
    /\ call = "partition"
    /\ batches' = PartitionedStages
    /\ pc' = [t \in 1..Len(batches') |-> "new"]
    /\ call' = "running"
    /\ UNCHANGED <<maxWorkers, stagesCount, batchByStages, semVars, broken>>

-----------------------------------------------------------------------------
(* BatchedSemaphore and _execute_stage *)

\* The condition of acquire()'s loop: any positive counter will do.
MustWait == wakeupScheduled \/ value <= 0

Enqueue(t) ==
    /\ waiters' = Append(waiters, t)
    /\ pc' = [pc EXCEPT ![t] = "waiting"]
    /\ UNCHANGED value

\* acquire() returns and execute_stage_batch submits its configs; a broken
\* pool refuses them at once and ProcessKilledError leaves _execute_stage.
Take(t) ==
    /\ value' = value - Workers(t)
    /\ pc' = [pc EXCEPT ![t] = IF broken THEN "failed" ELSE "executing"]
    /\ UNCHANGED waiters

Pending(p) == {i \in 1..Len(waiters) : p[waiters[i]] = "waiting"}

\* _wake_up_next(): done futures are popped up to the first pending one.
WakeUpNext(p) ==
    \/ /\ Pending(p) = {}
       /\ waiters' = <<>>
       /\ pc' = p
       /\ UNCHANGED wakeupScheduled
    \/ \E i \in Pending(p) :
       /\ \A j \in Pending(p) : i <= j
       /\ waiters' = SubSeq(waiters, i + 1, Len(waiters))
       /\ pc' = [p EXCEPT ![waiters[i]] = "woken"]
       /\ wakeupScheduled' = TRUE

\* The loop runs new tasks in the order of their creation.
Starts(t) == pc[t] = "new" /\ \A u \in 1..(t - 1) : pc[u] # "new"

AcquireNow(t) ==
    /\ Starts(t)
    /\ ~MustWait
    /\ Take(t)
    /\ UNCHANGED <<wakeupScheduled, inputVars, broken, call>>

AcquireWait(t) ==
    /\ Starts(t)
    /\ MustWait
    /\ Enqueue(t)
    /\ UNCHANGED <<wakeupScheduled, inputVars, broken, call>>

\* Mutant: a woken task does not look at the counter again.
ResumeTakeUnchecked(t) ==
    /\ pc[t] = "woken"
    /\ wakeupScheduled' = FALSE
    /\ Take(t)
    /\ UNCHANGED <<inputVars, broken, call>>

\* acquire() after its await: the flag is reset, the counter decides.
ResumeTake(t) ==
    /\ pc[t] = "woken"
    /\ wakeupScheduled' = FALSE
    /\ value > 0
    /\ Take(t)
    /\ UNCHANGED <<inputVars, broken, call>>

ResumeWait(t) ==
    /\ pc[t] = "woken"
    /\ wakeupScheduled' = FALSE
    /\ value <= 0
    /\ Enqueue(t)
    /\ UNCHANGED <<inputVars, broken, call>>

\* Mutants: the permits are given back and nobody is woken; somebody is
\* woken only when the counter was zero, as the docstring of release() says.
FinishSilently(t) ==
    /\ pc[t] = "executing"
    /\ value' = value + Workers(t)
    /\ pc' = [pc EXCEPT ![t] = "done"]
    /\ UNCHANGED <<waiters, wakeupScheduled, inputVars, broken, call>>

FinishWakesAtZero(t) ==
    /\ pc[t] = "executing"
    /\ value' = value + Workers(t)
    /\ IF value = 0
       THEN WakeUpNext([pc EXCEPT ![t] = "done"])
       ELSE pc' = [pc EXCEPT ![t] = "done"] /\ UNCHANGED <<waiters, wakeupScheduled>>
    /\ UNCHANGED <<inputVars, broken, call>>

\* All results of a stage are there: release(workers).
Finish(t) ==
    /\ pc[t] = "executing"
    /\ value' = value + Workers(t)
    /\ WakeUpNext([pc EXCEPT ![t] = "done"])
    /\ UNCHANGED <<inputVars, broken, call>>

\* A worker function raises or the pool breaks: the exception leaves
\* _execute_stage before its release().
Raises(t) ==
    /\ pc[t] = "executing"
    /\ pc' = [pc EXCEPT ![t] = "failed"]
    /\ UNCHANGED <<semVars, inputVars, broken, call>>

\* A worker process dies.
BreakPool ==
    /\ ~broken
    /\ call # "partition"
    /\ broken' = TRUE
    /\ UNCHANGED <<semVars, inputVars, pc, call>>

-----------------------------------------------------------------------------
(* The gather of execute_batches *)

\* Mutant: all tasks are awaited before the exception is passed on.
GatherRaisesLast ==
    /\ call = "running"
    /\ At({"failed"}) # {}
    /\ At({"failed", "done"}) = Tasks
    /\ call' = "raised"
    /\ UNCHANGED <<semVars, inputVars, pc, broken>>

\* The exception of a task is passed on at once; the other tasks run on.
GatherRaises ==
    /\ call = "running"
    /\ At({"failed"}) # {}
    /\ call' = "raised"
    /\ UNCHANGED <<semVars, inputVars, pc, broken>>

GatherReturns ==
    /\ call = "running"
    /\ At({"done"}) = Tasks
    /\ call' = "returned"
    /\ UNCHANGED <<semVars, inputVars, pc, broken>>

Cancelled(state) ==
    CASE state = "new" -> "gone"
      [] state \in {"waiting", "woken"} -> "cancelWait"
      [] state = "executing" -> "cancelExecute"
      [] OTHER -> state

\* The edge's wait_for gives up on the stage: every task is cancelled.
CancelCall ==
    /\ call = "running"
    /\ call' = "cancelling"
    /\ pc' = [t \in Tasks |-> Cancelled(pc[t])]
    /\ UNCHANGED <<semVars, inputVars, broken>>

\* CancelledError at the await of acquire(): the next waiter is woken.
LeaveAcquire(t) ==
    /\ pc[t] = "cancelWait"
    /\ WakeUpNext([pc EXCEPT ![t] = "gone"])
    /\ UNCHANGED <<value, inputVars, broken, call>>

\* CancelledError at the await of the execution: no release either.
LeaveExecution(t) ==
    /\ pc[t] = "cancelExecute"
    /\ pc' = [pc EXCEPT ![t] = "failed"]
    /\ UNCHANGED <<semVars, inputVars, broken, call>>

\* The cancelled gather ends with its last task.
GatherCancelled ==
    /\ call = "cancelling"
    /\ At({"done", "failed", "gone"}) = Tasks
    /\ call' = "cancelled"
    /\ UNCHANGED <<semVars, inputVars, pc, broken>>

Step(t) ==
    \/ AcquireNow(t)
    \/ AcquireWait(t)
    \/ ResumeTake(t)
    \/ ResumeWait(t)
    \/ Finish(t)
    \/ Raises(t)
    \/ LeaveAcquire(t)
    \/ LeaveExecution(t)

Gather == GatherRaises \/ GatherReturns \/ GatherCancelled

Next ==
    \/ ExecuteBatches
    \/ \E t \in Tasks : Step(t)
    \/ BreakPool
    \/ CancelCall
    \/ Gather

Spec == Init /\ [][Next]_vars

(***************************************************************************)
(* The loop runs every task that is ready, and the worker processes answer *)
(* or die (that the analysis and optimisation functions end is assumed).   *)
(***************************************************************************)
Fairness ==
    /\ WF_vars(ExecuteBatches)
    /\ \A t \in 1..MaxStages : WF_vars(t \in Tasks /\ Step(t))
    /\ WF_vars(Gather)

FairSpec == Spec /\ Fairness

-----------------------------------------------------------------------------
Active == At({"new", "woken", "executing", "cancelWait", "cancelExecute"})

\* The variables keep their types, and the deque holds each task once at
\* most.
TypeOK ==
    /\ value \in Int
    /\ waiters \in Seq(Tasks)
    /\ IsInjective(waiters)
    /\ wakeupScheduled \in BOOLEAN
    /\ pc \in [Tasks -> PCs]
    /\ broken \in BOOLEAN
    /\ call \in {"partition", "running", "returned", "raised", "cancelling", "cancelled"}

\* Every batch of partion_stage_batches uses the pool's workers exactly,
\* whatever the numbers of stages and processes.
BatchesFillPool ==
    \A b \in 1..Len(BatchedStages(stagesCount, maxWorkers)) :
        LET batch == BatchedStages(stagesCount, maxWorkers)[b]
        IN  Total(batch, DOMAIN batch) = maxWorkers

\* The counter accounts for the stages that execute and, for good, for those
\* that raised or were cancelled: what a failing stage took never returns.
PermitsAccounted ==
    value = maxWorkers - TotalWorkers(At({"executing", "cancelExecute", "failed"}))

\* acquire() checks for one permit and takes several, so stages overcommit
\* the pool, but by less than the workers of one of them.
OvercommitBounded ==
    LET running == At({"executing"})
    IN  running # {} => \E t \in running : TotalWorkers(running \ {t}) < maxWorkers

\* Tasks are left waiting with nobody to wake them only when a stage kept
\* its permits.
StrandedOnlyByFailure ==
    At({"waiting"}) # {} /\ Active = {} => At({"failed"}) # {}

\* Nothing failed and nothing was cancelled so far.
Undisturbed == ~broken /\ At({"failed"}) = {} /\ call \notin {"cancelling", "cancelled"}

\* execute_batches returns all results when nothing fails: wake-ups that
\* find the counter still too low are not lost.
BatchesComplete == []Undisturbed => <>(call = "returned")

\* execute_batches ends even when stages fail, the pool breaks or the caller
\* is cancelled, although some of its tasks may never end.
CallEnds == <>(call \in {"returned", "raised", "cancelled"})

\* "The counter can never go below zero" (batched_semaphore.py:15).
CounterNeverNegative == value >= 0

\* "5 stages over 4 CPUs means 2 batches. The first batch will assign one
\* stage to each core. The second will assign all four cores to the remaing
\* one stage." (batch_executor.py:99): every stage is in some batch.
EveryStageBatched ==
    call # "partition" => {batches[t].stage : t \in Tasks} = 1..stagesCount
=============================================================================
