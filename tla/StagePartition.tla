--------------------------- MODULE StagePartition ---------------------------
(***************************************************************************)
(* How the transitions of one generation of stages are put into batches:   *)
(* BatchExecutor.partion_prioritized_stage_batches in                      *)
(* hedra/core/graphs/stages/base/parallel/batch_executor.py, and the       *)
(* ordering of its batches in transitions/transition_group.py.             *)
(*                                                                         *)
(* A transition is a record: its source and destination, idx, its place in *)
(* the generation, and of its source stage whether it is parallel, its     *)
(* priority and whether this transition skips it (the user skips the       *)
(* stage, or another transition of the stage runs it).                     *)
(***************************************************************************)
EXTENDS Integers, FiniteSets, SequencesExt

LOW == 1
NORMAL == 2
HIGH == 3
EXCLUSIVE == 4
AUTO == 5

Ceil(a, b) == (a + b - 1) \div b

\* StagePriority.get_worker_allocation_range
MinWorkers(priority, pool) ==
    CASE priority \in {LOW, AUTO} -> 1
      [] priority = NORMAL        -> Ceil(pool, 4)
      [] priority = HIGH          -> Ceil(3 * pool, 4)
      [] priority = EXCLUSIVE     -> pool

MaxWorkers(priority, pool) ==
    CASE priority = LOW    -> Ceil(pool, 4)
      [] priority = NORMAL -> Ceil(3 * pool, 4)
      [] OTHER             -> pool

Bypasses(t) == t.skip \/ ~t.parallel
ParallelSources(T) == {t.source : t \in {u \in T : u.parallel}}

\* Exactly one of the sources is parallel.
OneParallel(T) == Cardinality(ParallelSources(T)) = 1

\* No source has a priority, and some are parallel.
AllAuto(T) == ParallelSources(T) # {} /\ \A t \in T : t.priority = AUTO

Prioritised(T) == ~OneParallel(T) /\ ~AllAuto(T)

\* The members of S in their order: each at the place after those before it.
InOrder(S, before(_, _)) ==
    LET place(x) == 1 + Cardinality({y \in S : before(y, x)})
    IN  [i \in 1..Cardinality(S) |-> CHOOSE x \in S : place(x) = i]

Precedes(t, u) == t.priority < u.priority \/ (t.priority = u.priority /\ t.idx < u.idx)

\* sorted() by priority keeps the order of transitions of the same one.
Sorted(T) == InOrder(T, Precedes)

-----------------------------------------------------------------------------
\* What is left for a source of this priority beside those that are
\* allocated: as much as fits, down to one less than its minimum.
Allocation(allocated, priority, pool) ==
    LET most == MaxWorkers(priority, pool)
        least == MinWorkers(priority, pool) - 1
    IN  IF allocated + most <= pool THEN most
        ELSE IF pool - allocated >= least THEN pool - allocated
        ELSE least

\* Mutant: whether the workers fit is not tested.
JoinsOversized(workers, allocated, pool) == workers > 0

Joins(workers, allocated, pool) == workers > 0 /\ allocated + workers <= pool

\* Mutant: a transition that joins a batch may head another one.
JoinUnseen(acc, o, workers) ==
    [acc EXCEPT !.group = @ \cup {[of |-> o, workers |-> workers]}, !.allocated = @ + workers]

\* Transition o joins the batch; it will not head one of its own.
Join(acc, o, workers) ==
    [acc EXCEPT !.group = @ \cup {[of |-> o, workers |-> workers]}, !.allocated = @ + workers,
                !.seen = @ \cup {o}]

\* The workers of o's source are looked up by name: there are none if no
\* transition runs it, and adding None raises a TypeError.  That o may be in
\* another batch already is not looked at.
Consider(acc, o, T, pool) ==
    LET workers == Allocation(acc.allocated, o.priority, pool)
    IN  IF \A t \in T : t.source = o.source => Bypasses(t) THEN [acc EXCEPT !.raised = TRUE]
        ELSE IF Joins(workers, acc.allocated, pool) THEN Join(acc, o, workers)
        ELSE acc

\* The batch that transition t heads: the others are considered in turn.
Batch(acc, t, T, pool) ==
    LET most == MaxWorkers(t.priority, pool)
        head == [acc EXCEPT !.group = {[of |-> t, workers |-> most]}, !.allocated = most]
        others == Sorted(T \ {t})
        considered[i \in 0..Len(others)] ==
            IF i = 0 THEN head ELSE Consider(considered[i - 1], others[i], T, pool)
        full == considered[Len(others)]
    IN  [full EXCEPT !.batches = Append(@, full.group), !.seen = @ \cup {t}]

Bypassed(T) == {t \in T : Bypasses(t)}

\* The third case: those to bypass first, then a batch for every transition
\* that is in none.
Prioritise(T, pool) ==
    LET first == [seen |-> Bypassed(T), raised |-> FALSE, group |-> {}, allocated |-> 0,
                  batches |-> <<{[of |-> t, workers |-> 0] : t \in Bypassed(T)}>>]
        all == Sorted(T)
        upTo[i \in 0..Len(all)] ==
            IF i = 0 THEN first
            ELSE LET acc == upTo[i - 1]
                 IN  IF all[i] \in acc.seen THEN acc ELSE Batch(acc, all[i], T, pool)
    IN  upTo[Len(all)]

\* TransitionGroup.sort_and_map_transitions orders the batches by the highest
\* priority in them, AUTO counting as none.
GroupPriority(batch) ==
    LET levels == {IF c.of.priority = AUTO THEN 0 ELSE c.of.priority : c \in batch}
    IN  CHOOSE l \in levels : \A k \in levels : k <= l

ByPriority(batches) ==
    LET filled == {i \in DOMAIN batches : batches[i] # {}}
        before(i, j) == LET p == GroupPriority(batches[i])
                            q == GroupPriority(batches[j])
                        IN  p > q \/ (p = q /\ i < j)
        order == InOrder(filled, before)
    IN  [i \in DOMAIN order |-> batches[order[i]]]

\* Workers 0 stands for those the stage was provisioned with.
Provisioned(t) == [of |-> t, workers |-> 0]

(***************************************************************************)
(* The partition: with one parallel source a single transition, the last   *)
(* of those that run their stage, parallel or not, and the others are in   *)
(* no batch; pop() raises an IndexError if there is none.  Without         *)
(* priorities one batch of all that run their stage.                       *)
(***************************************************************************)
Partition(T, pool) ==
    LET run == {t \in T : ~t.skip}
        prioritised == Prioritise(T, pool)
    IN  IF OneParallel(T) THEN
            IF run = {} THEN [raised |-> TRUE, batches |-> <<>>]
            ELSE [raised |-> FALSE, batches |-> <<{Provisioned(Last(Sorted(run)))}>>]
        ELSE IF AllAuto(T) THEN
            [raised |-> FALSE, batches |-> ByPriority(<<{Provisioned(t) : t \in run}>>)]
        ELSE [raised |-> prioritised.raised, batches |-> ByPriority(prioritised.batches)]

\* The workers of a batch, counted one by one.
BatchWorkers(batch) == Cardinality(UNION {{c} \X (1..c.workers) : c \in batch})
=============================================================================
