------------------------------ MODULE Monitor ------------------------------
(***************************************************************************)
(* Failure detection by one node of a cluster:                             *)
(* hedra/distributed/monitoring/monitor_service.py.                        *)
(*                                                                         *)
(* The other nodes are an environment that answers, or not, at will; what  *)
(* is followed is this node's table of their statuses, its suspicion tasks *)
(* (_start_suspect_monitor) and the tasks that cancel them.  A step runs   *)
(* from one await to the next, awaits of the logger included.  Retries,    *)
(* health multipliers and clocks only decide how long a wait takes: a wait *)
(* ends at any time.                                                       *)
(***************************************************************************)
EXTENDS Integers, Sequences, FiniteSets, FiniteSetsExt, Functions

CONSTANTS
    Peers,          \* the other nodes
    Bootstrap,      \* the peer given to register()
    Shared,         \* peers with the host or the port of this node
    CheckNodes,     \* MERCURY_SYNC_INDIRECT_CHECK_NODES
    MaxSuspicions,  \* bound on the suspicion tasks
    MaxRequests,    \* bound on the requests of the peers
    MaxRounds       \* rounds of probes within the suspicion timeout

ASSUME MonitorAssumption ==
    /\ IsFiniteSet(Peers) /\ Bootstrap \in Peers /\ Shared \subseteq Peers
    /\ {CheckNodes, MaxSuspicions, MaxRequests} \subseteq Nat
    /\ MaxRounds \in Nat \ {0}

VARIABLES
    status,     \* _node_statuses; "none" is a node that is not in it
    failing,    \* health checks without an answer, suspended at the logger
    stack,      \* _suspect_nodes
    table,      \* _suspect_tasks: a task, 0 for none
    tasks,      \* the suspicion tasks in the order they were created
    cancels,    \* the _cancel_suspicion_probe tasks, in order
    checkNodes, \* _check_nodes_count
    leaving,    \* deregister_node suspended at the logger
    requested,  \* number of requests of the peers so far
    since,      \* history: the task of the latest suspicion of a node
    crossed,    \* history: nodes whose suspicion met a race (see SuspectProbed)
    overwritten \* history: nodes whose task was overwritten in the table

waitVars == <<failing, leaving>>
taskVars == <<tasks, stack, checkNodes>>
historyVars == <<since, crossed, overwritten>>
monitorVars == <<status, waitVars, taskVars, table, cancels, requested, historyVars>>

CheckIsNotSelf(p) == p \notin Shared

MonitorInit ==
    /\ status = [p \in Peers |-> IF p = Bootstrap THEN "healthy" ELSE "none"]
    /\ failing = {}
    /\ stack = <<>>
    /\ table = [p \in Peers |-> 0]
    /\ tasks = <<>>
    /\ cancels = <<>>
    /\ checkNodes = CheckNodes
    /\ leaving = {}
    /\ requested = 0
    /\ since = [p \in Peers |-> 0]
    /\ crossed = {}
    /\ overwritten = {}

Finished(k) == tasks[k].pc \in {"done", "cancelled"}
Unfinished == {k \in DOMAIN tasks : ~Finished(k)}
Runs(k, pc) == tasks[k].pc = pc /\ ~tasks[k].cancelling
About(p) == {k \in Unfinished : tasks[k].about = p}

\* The status of a node is set by an answer of its own while it is probed.
Revived(p) == IF About(p) # {} THEN {p} ELSE {}

\* _cancel_suspicion_probe(p), in a task of its own.
Request(requests, p) == Append(requests, [node |-> p, task |-> 0, copy |-> [q \in Peers |-> 0]])
MayRequest == requested < MaxRequests /\ requested' = requested + 1

-----------------------------------------------------------------------------
(* Handlers *)

\* register_node(p) with one other node it knows of.  The status is set only
\* for nodes that were not in the table; the probe of p is cancelled always.
RegisterNode(p, q) ==
    LET fresh == {r \in {p, q} : CheckIsNotSelf(r) /\ status[r] = "none"}
    IN  /\ MayRequest
        /\ status' = [r \in Peers |-> IF r \in fresh THEN "healthy" ELSE status[r]]
        /\ cancels' = Request(IF q \in fresh \ {p} THEN Request(cancels, q) ELSE cancels, p)
        /\ crossed' = crossed \cup IF status[p] = "suspect" THEN {p} ELSE {}
        /\ UNCHANGED <<waitVars, taskVars, table, since, overwritten>>

\* Mutant: the probe is cancelled and the status is left as it is.
DeregisterNodeKeeps(p) ==
    /\ p \in leaving
    /\ leaving' = leaving \ {p}
    /\ UNCHANGED <<status, failing, taskVars, table, cancels, requested, historyVars>>

\* deregister_node after the logger.
DeregisterNode(p) ==
    /\ p \in leaving
    /\ leaving' = leaving \ {p}
    /\ status' = [status EXCEPT ![p] = IF @ = "none" THEN @ ELSE "inactive"]
    /\ UNCHANGED <<failing, taskVars, table, cancels, requested, historyVars>>

\* Its first half.
RequestDeregistration(p) ==
    /\ p \notin leaving
    /\ MayRequest
    /\ leaving' = leaving \cup {p}
    /\ cancels' = IF table[p] # 0 THEN Request(cancels, p) ELSE cancels
    /\ UNCHANGED <<status, failing, taskVars, table, historyVars>>

\* update_node_status: a status another node has heard of later than this
\* node; the sender reads it when it sends, so it may be any.
UpdateNodeStatus(p, s) ==
    /\ MayRequest
    /\ status' = [status EXCEPT ![p] = s]
    /\ crossed' = crossed \cup {p}
    /\ UNCHANGED <<waitVars, taskVars, table, cancels, since, overwritten>>

\* Mutant: the probe of the node goes on.
UpdateNodeHealthOnly(p) ==
    /\ MayRequest
    /\ status' = [status EXCEPT ![p] = "healthy"]
    /\ UNCHANGED <<waitVars, taskVars, table, cancels, historyVars>>

\* update_node_health: the node's own health check of this one.
UpdateNodeHealth(p) ==
    /\ MayRequest
    /\ cancels' = IF table[p] # 0 THEN Request(cancels, p) ELSE cancels
    /\ status' = [status EXCEPT ![p] = "healthy"]
    /\ UNCHANGED <<waitVars, taskVars, table, historyVars>>

-----------------------------------------------------------------------------
(* Health checks *)

(***************************************************************************)
(* A check of a node (_run_healthcheck) may be under way at any time:      *)
(* start_health_monitor starts them for nodes with a healthy status,       *)
(* update_as_suspect and send_indirect_check for any.                      *)
(***************************************************************************)

\* An answer of the node: to a health check, or to a status, suspect or
\* acknowledgement push, which set the status the same way.
CheckAnswered(p) ==
    /\ CheckIsNotSelf(p)
    /\ status[p] # "healthy"
    /\ status' = [status EXCEPT ![p] = "healthy"]
    /\ crossed' = crossed \cup Revived(p)
    /\ UNCHANGED <<waitVars, taskVars, table, cancels, requested, since, overwritten>>

\* No answer to any try.  The status is read before the logger is awaited.
CheckUnanswered(p) ==
    /\ CheckIsNotSelf(p)
    /\ status[p] = "healthy"
    /\ p \notin failing
    /\ failing' = failing \cup {p}
    /\ UNCHANGED <<status, leaving, taskVars, table, cancels, requested, historyVars>>

\* about is the node the task was created for, then the one it probes; goes
\* is what the condition of its loop was when it was last evaluated; confirmed
\* is FALSE if a round ended the suspicion without the node's own answer or
\* half of the members saying that it is healthy.
Task(pc, p, rounds) ==
    [pc |-> pc, about |-> p, rounds |-> rounds, cancelling |-> FALSE, members |-> {}, tcp |-> "running",
     goes |-> TRUE, confirmed |-> TRUE]

Set(k, task) == [tasks EXCEPT ![k] = [task EXCEPT !.cancelling = tasks[k].cancelling]]

\* The node is suspect and its suspicion task is created.
Suspect(p) ==
    /\ Len(tasks) < MaxSuspicions
    /\ status' = [status EXCEPT ![p] = "suspect"]
    /\ stack' = Append(stack, p)
    /\ table' = [table EXCEPT ![p] = Len(tasks) + 1]
    /\ since' = [since EXCEPT ![p] = Len(tasks) + 1]
    /\ crossed' = crossed \cup {q \in {p} : \E i \in DOMAIN cancels : cancels[i].node = q}
        \cup {q \in {p} : \E k \in About(q) : tasks[k].pc = "healed"}

\* ... after the logger.
CheckFails(p) ==
    /\ p \in failing
    /\ failing' = failing \ {p}
    /\ Suspect(p)
    /\ tasks' = Append(tasks, Task("created", p, 0))
    /\ UNCHANGED <<leaving, checkNodes, cancels, requested, overwritten>>

-----------------------------------------------------------------------------
(* _start_suspect_monitor *)

\* _get_confirmation_members: a sample of the other nodes; the number asked
\* shrinks to those there are, and stays there.
Others(p) == {q \in Peers \ {p} : status[q] # "none"}

Asked(p) == IF checkNodes > Cardinality(Others(p)) THEN Cardinality(Others(p)) ELSE checkNodes

\* A round: the members are asked and the node itself is checked over TCP.
Round(k, p) ==
    /\ \E members \in kSubset(Asked(p), Others(p)) :
        tasks' = Set(k, [Task("probing", p, tasks[k].rounds + 1) EXCEPT !.members = members])
    /\ checkNodes' = Asked(p)

\* The task takes the newest suspect, not the one it was created for.
StartSuspectMonitor(k) ==
    LET p == stack[Len(stack)]
    IN  /\ Runs(k, "created")
        /\ \A l \in 1..(k - 1) : tasks[l].pc # "created"
        /\ \/ /\ stack = <<>>
              /\ tasks' = Set(k, Task("done", tasks[k].about, 0))
              /\ UNCHANGED <<stack, checkNodes, crossed>>
           \/ /\ stack # <<>>
              /\ stack' = SubSeq(stack, 1, Len(stack) - 1)
              /\ crossed' = crossed \cup IF p = tasks[k].about THEN {} ELSE {p, tasks[k].about}
              /\ \/ status[p] = "suspect" /\ Round(k, p)
                 \/ /\ status[p] # "suspect"
                    /\ tasks' = Set(k, Task("done", tasks[k].about, 0))
                    /\ UNCHANGED checkNodes
        /\ UNCHANGED <<status, waitVars, table, cancels, requested, since, overwritten>>

\* The TCP check of the round is answered ...
TcpAnswered(k) ==
    LET p == tasks[k].about
    IN  /\ Runs(k, "probing") /\ tasks[k].tcp = "running"
        /\ tasks' = [tasks EXCEPT ![k].tcp = "answered"]
        /\ status' = [status EXCEPT ![p] = "healthy"]
        /\ crossed' = crossed \cup {p}
        /\ UNCHANGED <<waitVars, stack, checkNodes, table, cancels, requested, since, overwritten>>

\* ... or not; a node that looks healthy again by then is suspect anew.
TcpFails(k) ==
    LET p == tasks[k].about
    IN  /\ Runs(k, "probing") /\ tasks[k].tcp = "running"
        /\ \/ /\ CheckIsNotSelf(p) /\ status[p] = "healthy"
              /\ Suspect(p)
              /\ tasks' = Append([tasks EXCEPT ![k].tcp = "failed"], Task("created", p, 0))
           \/ /\ ~CheckIsNotSelf(p) \/ status[p] # "healthy"
              /\ tasks' = [tasks EXCEPT ![k].tcp = "failed"]
              /\ UNCHANGED <<status, stack, table, since, crossed>>
        /\ UNCHANGED <<waitVars, checkNodes, cancels, requested, overwritten>>

Replies == {"suspect", "stale", "healthy", "other", "none"}

\* _request_indirect_probe counts the members that say suspect and the checks
\* without a result; "stale" is a suspect older than some healthy reply, and
\* counts only if there is no healthy one.  "other" counts for neither.
SuspectCount(replies, tcp) ==
    LET said(S) == Cardinality({m \in DOMAIN replies : replies[m] \in S})
    IN  said(IF said({"healthy"}) = 0 THEN {"suspect", "stale", "none"} ELSE {"suspect", "none"})
            + IF tcp = "answered" THEN 0 ELSE 1

Confirmed(replies, tcp) ==
    \/ tcp = "answered"
    \/ 2 * Cardinality({m \in DOMAIN replies : replies[m] = "healthy"}) >= Cardinality(DOMAIN replies)

\* The end of a round.
EndRound(k) ==
    LET p == tasks[k].about
    IN  /\ Runs(k, "probing")
        /\ \E replies \in [tasks[k].members -> Replies] :
            \/ /\ SuspectCount(replies, tasks[k].tcp) < Cardinality(tasks[k].members)
               /\ status' = [status EXCEPT ![p] = "healthy"]
               /\ tasks' = Set(k, [Task("healed", p, 0) EXCEPT !.confirmed = Confirmed(replies, tasks[k].tcp)])
            \/ /\ SuspectCount(replies, tasks[k].tcp) >= Cardinality(tasks[k].members)
               /\ tasks' = Set(k, Task("sleeping", p, tasks[k].rounds))
               /\ UNCHANGED status
        /\ UNCHANGED <<waitVars, stack, checkNodes, table, cancels, requested, historyVars>>

\* Mutant: the time is measured anew in every round.
WakeAnew(k) ==
    /\ Runs(k, "sleeping")
    /\ tasks' = [tasks EXCEPT ![k].pc = "woken", ![k].goes = (status[tasks[k].about] = "suspect")]
    /\ UNCHANGED <<status, waitVars, stack, checkNodes, table, cancels, requested, historyVars>>

\* After the sleep the status and the clock are read; then comes the logger.
Wake(k) ==
    /\ Runs(k, "sleeping")
    /\ \E late \in BOOLEAN :
        /\ tasks[k].rounds = MaxRounds => late
        /\ tasks' = [tasks EXCEPT ![k].pc = "woken",
                        ![k].goes = (status[tasks[k].about] = "suspect" /\ ~late)]
    /\ UNCHANGED <<status, waitVars, stack, checkNodes, table, cancels, requested, historyVars>>

NextRound(k) ==
    /\ Runs(k, "woken")
    /\ tasks[k].goes
    /\ tasks[k].rounds < MaxRounds
    /\ Round(k, tasks[k].about)
    /\ UNCHANGED <<status, waitVars, stack, table, cancels, requested, historyVars>>

Judges(k) == Runs(k, "healed") \/ (Runs(k, "woken") /\ ~tasks[k].goes)

\* The status is judged as it is after the logger.
Judge(k) ==
    LET p == tasks[k].about
    IN  /\ Judges(k)
        /\ status' = [status EXCEPT ![p] = IF @ = "suspect" THEN "failed" ELSE @]
        /\ tasks' = Set(k, Task("done", tasks[k].about, 0))
        /\ UNCHANGED <<waitVars, stack, checkNodes, table, cancels, requested, historyVars>>

\* CancelledError is raised at the await, or before the first step.
Cancelled(k) ==
    /\ tasks[k].cancelling /\ ~Finished(k)
    /\ tasks' = Set(k, Task("cancelled", tasks[k].about, 0))
    /\ UNCHANGED <<status, waitVars, stack, checkNodes, table, cancels, requested, historyVars>>

-----------------------------------------------------------------------------
(* _cancel_suspicion_probe *)

Waiting(i) == cancels[i].task # 0
Without(i) == [j \in 1..(Len(cancels) - 1) |-> cancels[IF j < i THEN j ELSE j + 1]]

\* The table is copied and the task in it is cancelled and waited for; there
\* is nothing to wait for if it has ended.
CancelProbe(i) ==
    LET p == cancels[i].node
        k == table[p]
    IN  /\ ~Waiting(i)
        /\ \A j \in 1..(i - 1) : Waiting(j)
        /\ \/ /\ k \in Unfinished
              /\ tasks' = [tasks EXCEPT ![k].cancelling = TRUE]
              /\ cancels' = [cancels EXCEPT ![i].task = k, ![i].copy = table]
              /\ crossed' = crossed \cup IF tasks[k].pc = "created" THEN Range(stack) ELSE {}
              /\ UNCHANGED table
           \/ /\ k \notin Unfinished
              /\ table' = [table EXCEPT ![p] = 0]
              /\ cancels' = Without(i)
              /\ UNCHANGED <<tasks, crossed>>
        /\ UNCHANGED <<status, waitVars, stack, checkNodes, requested, since, overwritten>>

\* The copy becomes the table: what others put there meanwhile is lost.
EndCancelProbe(i) ==
    /\ Waiting(i)
    /\ Finished(cancels[i].task)
    /\ table' = [cancels[i].copy EXCEPT ![cancels[i].node] = 0]
    /\ cancels' = Without(i)
    /\ overwritten' = overwritten \cup {p \in Peers : table[p] \notin {0, cancels[i].copy[p]}}
    /\ UNCHANGED <<status, waitVars, taskVars, requested, since, crossed>>

-----------------------------------------------------------------------------
Statuses == {"none", "healthy", "suspect", "failed", "inactive"}

TaskStep(k) ==
    \/ StartSuspectMonitor(k) \/ EndRound(k) \/ Wake(k) \/ NextRound(k)
    \/ Judge(k) \/ Cancelled(k)

Loop ==
    \/ \E k \in DOMAIN tasks : TaskStep(k)
    \/ \E i \in DOMAIN cancels : CancelProbe(i) \/ EndCancelProbe(i)
    \/ \E p \in Peers : DeregisterNode(p) \/ CheckFails(p)

MonitorNext ==
    \/ Loop
    \/ \E k \in DOMAIN tasks : TcpAnswered(k) \/ TcpFails(k)
    \/ \E p \in Peers :
        \/ RequestDeregistration(p) \/ UpdateNodeHealth(p)
        \/ CheckAnswered(p) \/ CheckUnanswered(p)
        \/ \E q \in Peers : RegisterNode(p, q)
        \/ \E s \in Statuses \ {"none"} : UpdateNodeStatus(p, s)

\* The event loop runs every task that can go on, and waits end.
MonitorSpec == MonitorInit /\ [][MonitorNext]_monitorVars /\ WF_monitorVars(Loop)

-----------------------------------------------------------------------------
\* The variables keep their types; a suspect is never asked about itself.
MonitorTypeOK ==
    /\ \A p \in Peers : /\ status[p] \in Statuses
                        /\ table[p] \in 0..Len(tasks)
    /\ \A i \in DOMAIN stack : stack[i] \in Peers
    /\ \A k \in DOMAIN tasks :
        /\ tasks[k].pc \in {"created", "probing", "healed", "sleeping", "woken", "done", "cancelled"}
        /\ tasks[k].rounds \in 0..MaxRounds
        /\ Cardinality(tasks[k].members) <= CheckNodes
        /\ tasks[k].members \subseteq Peers \ {tasks[k].about}
    /\ checkNodes \in 0..CheckNodes
    /\ failing \subseteq Peers /\ leaving \subseteq Peers

\* A task that will start takes the suspect from the stack.
Awaits(p) ==
    \E i \in DOMAIN stack :
        /\ stack[i] = p
        /\ Len(stack) - i < Cardinality({k \in DOMAIN tasks : Runs(k, "created")})

\* A suspect node is being probed, so that it will be healthy or failed in
\* the end: start_health_monitor does not check it any more.  Excepted are
\* nodes that were suspected while their last cancellation was under way, that
\* came back to life while probed, that were probed by another node's task or
\* left on the stack by a task cancelled before it began, that registered
\* again or whose status is hearsay.
SuspectProbed ==
    \A p \in Peers \ (crossed \cup leaving) : status[p] = "suspect" =>
        \/ Awaits(p)
        \/ \E k \in About(p) : ~tasks[k].cancelling /\ tasks[k].pc # "created"

\* ... so it does not stay suspect.
SuspicionEnds ==
    \A p \in Peers : (status[p] = "suspect") ~> (status[p] # "suspect" \/ p \in crossed)

\* A node is declared failed by the probe its latest suspicion started, never
\* by an older one whose time is nearly up.  Excepted are the races above, and
\* nodes whose task _cancel_suspicion_probe overwrote in _suspect_tasks with
\* its older copy: no health update cancels that task any more.
FreshVerdict ==
    [][\A p \in Peers \ (crossed \cup overwritten) : status[p] = "suspect" /\ status'[p] = "failed" =>
        p \in crossed' \/ tasks'[since[p]].pc = "done"]_monitorVars

\* "We had a majority confirmation the node was healthy": a suspect that did
\* not answer itself is healthy again only if half of the members asked said so.
MajorityConfirmed == \A k \in DOMAIN tasks : tasks[k].confirmed
=============================================================================
