----------------------------- MODULE StageGraph -----------------------------
(***************************************************************************)
(* A graph of stages from its assembly to the exit code of hedra graph     *)
(* run: core/graphs/graph.py, transitions/transition_assembler.py,         *)
(* transition_group.py, transition.py, the edges, and cli/graph/run.py.    *)
(*                                                                         *)
(* The user's stages are 1..N, numbered in a topological order; 0 is the   *)
(* Idle stage put before them and N + 1 the Complete stage put after them. *)
(* Each generation of the graph is one transition group: its transitions   *)
(* are partitioned into batches, the batches run one after the other, the  *)
(* transitions of a batch concurrently.  A stage with several destinations *)
(* is run by its first transition, the others skip it.                     *)
(*                                                                         *)
(* What a stage computes is left out: a run of it succeeds, fails or has   *)
(* its worker process killed.  Histories are kept as the set of pairs of a *)
(* stage and a destination that was given the results of the stage.        *)
(***************************************************************************)
EXTENDS StagePartition

CONSTANTS
    N,          \* number of the user's stages
    Shapes,     \* the dependencies a user may declare, sets of pairs of stages
    Kinds,      \* [parallel, priority, retries] of a stage
    Pool,       \* cpus
    Retries     \* values of the command's retries option

Stages == 1..N
Idle == 0
Complete == N + 1
Nodes == Idle..Complete
NotYet == -1

ASSUME StageGraphAssumption ==
    /\ N \in Nat \ {0} /\ Pool \in Nat \ {0} /\ Retries \subseteq Nat
    /\ \A deps \in Shapes : deps \subseteq {d \in Stages \X Stages : d[1] < d[2]}
    /\ \A k \in Kinds : k.parallel \in BOOLEAN /\ k.priority \in LOW..AUTO /\ k.retries \in Nat

VARIABLES
    edges,      \* edges of the assembled graph
    order,      \* execution_order: node -> generation
    stages,     \* kind of every stage
    skipped,    \* stages the user skips
    retries,    \* the command's retries
    attempt,    \* graphs run before this one
    status,     \* Graph.status; "RAISED" once run() raised
    group,      \* the transition group of run()
    phase,      \* "sort" before sort_and_map_transitions, then "execute"
    batched,    \* _batched_transitions of the group that are not started
    tasks,      \* transition of the current batch -> transitions of its edge that ended
    exception,  \* edge -> exception of the edge
    executed,   \* edge -> how often it was executed
    got,        \* <<s, d>>: d was given the results of s
    exit        \* exit code

input == <<edges, order, stages, skipped, retries>>
graph == <<status, group, phase, batched, tasks, exception, executed, got>>
graphVars == <<input, graph, attempt, exit>>

-----------------------------------------------------------------------------
Before(E, n) == {m \in Nodes : <<m, n>> \in E}
After(E, n) == {m \in Nodes : <<n, m>> \in E}

\* Mutant: a generation is reached as soon as one predecessor is done.
GenerationsShortest(E) ==
    LET depth[n \in Nodes] == IF Before(E, n) = {} THEN 0 ELSE 1 + Min({depth[m] : m \in Before(E, n)})
    IN  depth

\* networkx.topological_generations: the place of every node's generation.
Generations(E) ==
    LET depth[n \in Nodes] == IF Before(E, n) = {} THEN 0 ELSE 1 + Max({depth[m] : m \in Before(E, n)})
    IN  depth

\* _prepend_stage: Idle leads to the first generation.
Prepended(E) == E \cup {<<Idle, s>> : s \in {s \in Stages : Before(E, s) = {}}}

\* _append_stage: only the last generation leads to Complete.
Appended(E) ==
    LET depth == Generations(E)
    IN  E \cup {<<s, Complete>> : s \in {s \in Stages : \A r \in Stages : depth[r] <= depth[s]}}

\* Graph.assemble.
Assembled(E) == Appended(Prepended(E))

\* The edges that leave a generation, in the order they are added to its group.
GroupEdges(g) == {e \in edges : order[e[1]] = g}
LastGroup == order[Complete] - 1
Place(e) == Cardinality({f \in GroupEdges(group) : f[1] < e[1] \/ (f[1] = e[1] /\ f[2] < e[2])})

\* Edge.split: of the transitions of a stage all but the first skip it.  Idle
\* is not split.
Twin(e) == e[1] # Idle /\ \E d \in After(edges, e[1]) : d < e[2]

Transition(e) ==
    [source |-> e[1], destination |-> e[2], idx |-> Place(e),
     parallel |-> e[1] # Idle /\ stages[e[1]].parallel,
     priority |-> IF e[1] = Idle THEN AUTO ELSE stages[e[1]].priority,
     skip |-> e[1] \in skipped \/ Twin(e)]

Transitions == {Transition(e) : e \in GroupEdges(group)}
EdgeOf(t) == <<t.source, t.destination>>

NewGraph ==
    /\ status' = "ASSEMBLING" /\ group' = 0 /\ phase' = "sort" /\ batched' = <<>> /\ tasks' = <<>>
    /\ exception' = [e \in edges |-> "none"] /\ executed' = [e \in edges |-> 0] /\ got' = {}

GraphInit ==
    /\ \E deps \in Shapes : edges = Assembled(deps)
    /\ order = Generations(edges)
    /\ stages \in [Stages -> Kinds] /\ retries \in Retries
    /\ skipped \in {{}} \cup {{s} : s \in Stages}
    /\ attempt = 0 /\ exit = NotYet
    /\ status = "ASSEMBLING" /\ group = 0 /\ phase = "sort" /\ batched = <<>> /\ tasks = <<>>
    /\ exception = [e \in edges |-> "none"] /\ executed = [e \in edges |-> 0] /\ got = {}

-----------------------------------------------------------------------------
\* graph.run() up to the first group.
Run ==
    /\ status = "ASSEMBLING" /\ exit = NotYet
    /\ status' = "RUNNING"
    /\ UNCHANGED <<input, attempt, group, phase, batched, tasks, exception, executed, got, exit>>

\* TransitionGroup.sort_and_map_transitions; run() does not catch what it raises.
SortAndMap ==
    /\ status = "RUNNING" /\ phase = "sort"
    /\ LET partition == Partition(Transitions, Pool)
       IN  IF partition.raised THEN status' = "RAISED" /\ UNCHANGED <<phase, batched>>
           ELSE phase' = "execute" /\ batched' = partition.batches /\ UNCHANGED status
    /\ UNCHANGED <<input, attempt, group, tasks, exception, executed, got, exit>>

\* TransitionGroup.execute_group creates the tasks of the next batch.
StartBatch ==
    /\ status = "RUNNING" /\ phase = "execute" /\ DOMAIN tasks = {} /\ batched # <<>>
    /\ LET batch == {c.of : c \in Head(batched)}
       IN  /\ tasks' = [t \in batch |-> 0]
           /\ executed' = [e \in edges |-> executed[e] + (IF \E t \in batch : EdgeOf(t) = e THEN 1 ELSE 0)]
    /\ batched' = Tail(batched)
    /\ UNCHANGED <<input, attempt, status, group, phase, exception, got, exit>>

\* Idle and a skipped stage run nothing that could fail; only a parallel
\* stage has worker processes to be killed.
Outcomes(t) ==
    {"none"} \cup (IF t.skip \/ t.source = Idle THEN {} ELSE {"error"})
             \cup (IF t.skip \/ ~t.parallel THEN {} ELSE {"killed"})

\* The tries of Transition.execute that are left end with this one: there is
\* no exception, or it was the last.  An exception stays on the edge, whatever
\* a later try does.
LastTry(t, raised) ==
    raised = "none" \/ t.source = Idle \/ tasks[t] + 1 >= stages[t.source].retries

\* Transition.execute hands the results to every destination of the stage,
\* unless the edge has an exception.
Delivered(t, raised) ==
    IF raised = "none" /\ ~t.skip /\ t.source # Idle /\ t.destination # Complete
    THEN {<<t.source, d>> : d \in After(edges, t.source)} ELSE {}

\* One edge.transition() ends.
EndTry(t, outcome) ==
    /\ t \in DOMAIN tasks /\ outcome \in Outcomes(t)
    /\ LET raised == IF outcome = "none" THEN exception[EdgeOf(t)] ELSE outcome
       IN  /\ exception' = [exception EXCEPT ![EdgeOf(t)] = raised]
           /\ IF LastTry(t, raised)
              THEN /\ tasks' = [u \in DOMAIN tasks \ {t} |-> tasks[u]]
                   /\ got' = got \cup Delivered(t, raised)
              ELSE /\ tasks' = [tasks EXCEPT ![t] = @ + 1]
                   /\ UNCHANGED got
    /\ UNCHANGED <<input, attempt, status, group, phase, batched, executed, exit>>

\* Mutant: a group fails only when all of its transitions do.
AfterGroupAll(errors) ==
    IF errors = {"killed"} THEN "CANCELLED"
    ELSE IF errors = {"error"} THEN "FAILED"
    ELSE IF group = LastGroup THEN "COMPLETE"
    ELSE "RUNNING"

\* A killed process ends the graph at once, an error once all transitions
\* of the group were looked at.
AfterGroup(errors) ==
    IF "killed" \in errors THEN "CANCELLED"
    ELSE IF "error" \in errors THEN "FAILED"
    ELSE IF group = LastGroup THEN "COMPLETE"
    ELSE "RUNNING"

\* run() after execute_group: all batches of the group ran, failed or not.
EndGroup ==
    /\ status = "RUNNING" /\ phase = "execute" /\ DOMAIN tasks = {} /\ batched = <<>>
    /\ status' = AfterGroup({exception[e] : e \in GroupEdges(group)})
    /\ IF status' = "RUNNING" THEN group' = group + 1 /\ phase' = "sort" ELSE UNCHANGED <<group, phase>>
    /\ UNCHANGED <<input, attempt, batched, tasks, exception, executed, got, exit>>

(***************************************************************************)
(* The command: a graph that is complete, or that is not retried, gives    *)
(* the exit code.  Otherwise a new one is assembled, also after the last   *)
(* retry, and then the code is that of a graph that never ran.             *)
(***************************************************************************)
EndRun ==
    /\ exit = NotYet
    /\ \/ /\ status = "RAISED" \/ status = "COMPLETE" \/ (retries = 0 /\ status \in {"FAILED", "CANCELLED"})
          /\ exit' = IF status = "COMPLETE" THEN 0 ELSE 1
          /\ UNCHANGED <<graph, attempt>>
       \/ /\ retries > 0 /\ status \in {"FAILED", "CANCELLED"}
          /\ NewGraph
          /\ attempt' = attempt + 1
          /\ exit' = IF attempt + 1 = retries THEN 0 ELSE NotYet
    /\ UNCHANGED input

Ended == exit # NotYet /\ UNCHANGED graphVars

GraphNext ==
    \/ Run \/ SortAndMap \/ StartBatch \/ EndGroup \/ EndRun \/ Ended
    \/ \E t \in DOMAIN tasks, outcome \in {"none", "error", "killed"} : EndTry(t, outcome)

GraphSpec == GraphInit /\ [][GraphNext]_graphVars

\* The event loop goes on with run() whenever a task of it is ready, and a
\* stage ends.
FairGraphSpec == GraphSpec /\ WF_graphVars(GraphNext)

-----------------------------------------------------------------------------
GraphTypeOK ==
    /\ attempt \in Nat /\ exit \in {NotYet, 0, 1}
    /\ status \in {"ASSEMBLING", "RUNNING", "COMPLETE", "FAILED", "CANCELLED", "RAISED"}
    /\ group \in 0..LastGroup /\ phase \in {"sort", "execute"}
    /\ DOMAIN tasks \subseteq Transitions
    /\ exception \in [edges -> {"none", "error", "killed"}] /\ executed \in [edges -> Nat]
    /\ got \subseteq edges

Generation(s) == {Transition(e) : e \in {f \in edges : order[f[1]] = order[s]}}

\* The stage is in a generation with one parallel stage and others beside
\* it: then all but one of them do not run.
Crowded(s) ==
    /\ OneParallel(Generation(s))
    /\ Cardinality({t.source : t \in Generation(s)}) > 1

\* A stage that runs was given the results of every stage it depends on, but
\* for the skipped ones and those of a crowded generation, which did not run
\* (transition.py, Transition.execute and the order of groups in Graph.run).
StageHasInputs ==
    \A t \in DOMAIN tasks : ~t.skip /\ t.source # Idle =>
        \A p \in Before(edges, t.source) \ {Idle} : <<p, t.source>> \in got \/ p \in skipped \/ Crowded(p)

\* No transition runs its stage twice in one graph, unless its generation is
\* partitioned by priority and holds three transitions or more: then a
\* transition may be in two batches
\* (batch_executor.py, partion_prioritized_stage_batches).
RunsOnce ==
    \A e \in edges : executed[e] > 1 /\ ~Transition(e).skip =>
        Prioritised(Generation(e[1])) /\ Cardinality(Generation(e[1])) > 2

\* When the command succeeds with a complete graph, every stage ran without
\* an error, but for those the user skips, those of a crowded generation and
\* those nothing depends on that are not in the last generation
\* (graph.py, Graph.run; cli/graph/run.py, run_graph).
ExitZeroMeansAll ==
    exit = 0 /\ status = "COMPLETE" =>
        /\ \A e \in edges : exception[e] = "none"
        /\ \A s \in Stages : \/ s \in skipped \/ Crowded(s) \/ After(edges, s) = {}
                             \/ \E e \in edges : e[1] = s /\ ~Transition(e).skip /\ executed[e] > 0

\* The batches of a generation partitioned by priority never ask for more
\* workers than there are, and no stage for more than the most of its
\* priority or less than one below the least of it
\* (batch_executor.py, partion_prioritized_stage_batches).
AllocationFits ==
    Prioritised(Transitions) => \A i \in DOMAIN batched :
        /\ BatchWorkers(batched[i]) <= Pool
        /\ \A c \in batched[i] : c.workers > 0 =>
              /\ c.workers <= MaxWorkers(c.of.priority, Pool)
              /\ c.workers >= MinWorkers(c.of.priority, Pool) - 1

\* The command ends (cli/graph/run.py, run_graph).
RunEnds == <>(exit # NotYet)

\* Exit code 0 means that a graph completed (cli/graph/run.py, run_graph).
ExitZeroMeansComplete == exit = 0 => status = "COMPLETE"

\* No stage runs twice in one graph
\* (batch_executor.py, partion_prioritized_stage_batches).
NeverTwice == \A e \in edges : ~Transition(e).skip => executed[e] <= 1

\* All stages a user declares and does not skip run in a complete graph
\* (graph.py, Graph.assemble).
CompleteMeansAll ==
    status = "COMPLETE" =>
        \A s \in Stages \ skipped : \E e \in edges : e[1] = s /\ executed[e] > 0
=============================================================================
