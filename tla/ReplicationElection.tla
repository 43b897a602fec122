------------------------ MODULE ReplicationElection ------------------------
(***************************************************************************)
(* Terms, roles and elections of the nodes of a cluster:                   *)
(* hedra/distributed/replication/replication_controller.py.                *)
(*                                                                         *)
(* The nodes start once they know each other (the end of _run_registration)*)
(* and every coroutine that awaits is a task whose pc is the await it is   *)
(* suspended at; awaiting the logger is such an await.  _election_task is  *)
(* never assigned, so _cancel_election cancels no election.                *)
(*                                                                         *)
(* Of the log only the term of its last update is kept, and of a log       *)
(* update its last entry: what the log holds is in LogShipping.tla.  An    *)
(* update may leave at any time while its task ships, as a first try or a  *)
(* retry does, and run_election stops waiting for the answers at any time, *)
(* as its timeouts do.                                                     *)
(***************************************************************************)
EXTENDS Integers, Sequences, FiniteSets, Bags

CONSTANTS
    Nodes,
    Host, Port,     \* the address of every node
    Instance,       \* _instance_ids
    Late,           \* nodes the first leader has not reached yet
    NoNode,
    MaxTasks,       \* bound on the elections and submissions together
    MaxSubmissions, \* bound on the submissions of log entries
    MaxSuspicions,  \* bound on the nodes found suspect
    MaxCrashes,     \* bound on the nodes that crash
    MaxInFlight     \* bound on the log updates in flight

ASSUME ElectionAssumption ==
    /\ Nodes # {} /\ IsFiniteSet(Nodes) /\ NoNode \notin Nodes
    /\ Instance \in [Nodes -> Nat]
    /\ Late \subseteq Nodes
    /\ \E n \in Nodes \ Late : \A m \in Nodes \ {n} : Instance[m] < Instance[n]
    /\ {MaxTasks, MaxSubmissions, MaxSuspicions, MaxCrashes, MaxInFlight} \subseteq Nat

VARIABLES
    term,       \* _term_number
    role,       \* _raft_node_status
    election,   \* _election_status
    leader,     \* _term_leaders[-1]
    logTerm,    \* the term of the last update of _logs
    statuses,   \* _node_statuses
    suspicion,  \* the tasks in _suspect_tasks
    booted,     \* register() is past its boot_wait
    crashed,
    tasks,      \* the bag of elections and submissions under way
    elections,  \* number of elections so far
    submissions,\* number of submissions so far
    net,        \* requests in flight
    cancels,    \* the terms of the _cancel_election tasks, in order
    adopting,   \* calls of receive_log_update suspended at the logger
    suspected,  \* number of suspicions
    accurate,     \* history: no live node was ever taken for failed or suspect
    interrupted,  \* history: nodes given a term while they led, stood or submitted
    stalled,      \* history: nodes whose election was given up half way
    lowered,      \* history: nodes whose term was set back
    elected       \* history: who took the lead, and of which term

nodeVars == <<term, role, election, leader, logTerm>>
watchVars == <<statuses, suspicion, suspected>>
wireVars == <<net, adopting, cancels>>
hostVars == <<booted, crashed>>
historyVars == <<accurate, interrupted, stalled, lowered, elected>>
counts == <<elections, submissions>>
taskVars == <<tasks, counts>>
vars == <<nodeVars, watchVars, wireVars, hostVars, taskVars, historyVars>>

Live == Nodes \ crashed

CheckIsNotSelf(n, m) == Host[m] # Host[n] /\ Port[m] # Port[n]

Healthy(n) == {m \in Nodes \ {n} : statuses[n][m] = "healthy"}

\* The node with the largest instance id has won the first election and its
\* first log update has reached every node but the late ones, which are still
\* in register().
Top == CHOOSE n \in Nodes : \A m \in Nodes : Instance[m] <= Instance[n]
Reached == Nodes \ Late

Init ==
    /\ term = [n \in Nodes |-> IF n \in Reached THEN 1 ELSE 0]
    /\ role = [n \in Nodes |-> IF n = Top THEN "LEADER" ELSE "FOLLOWER"]
    /\ election = [n \in Nodes |-> "READY"]
    /\ leader = [n \in Nodes |-> IF n \in Reached THEN Top ELSE NoNode]
    /\ logTerm = [n \in Nodes |-> IF n = Top THEN 1 ELSE 0]
    /\ statuses = [n \in Nodes |-> [m \in Nodes |-> "healthy"]]
    /\ suspicion = [n \in Nodes |-> [m \in Nodes |-> "none"]]
    /\ booted = Reached
    /\ crashed = {}
    /\ tasks = EmptyBag
    /\ elections = 0
    /\ submissions = 0
    /\ net = {}
    /\ cancels = [n \in Nodes |-> <<>>]
    /\ adopting = {}
    /\ suspected = 0
    /\ accurate = TRUE
    /\ interrupted = {}
    /\ stalled = {}
    /\ lowered = {}
    /\ elected = {<<Top, 1>>}

-----------------------------------------------------------------------------
(* Tasks *)

Entry(n, t) == [leader |-> n, term |-> t]

\* next is run_election's next_term, entry the last entry to ship, members
\* those it was not yet shipped to.  probe is the node whose suspicion task
\* runs the coroutine, if any.
Task(n, kind, pc, failed) ==
    [node |-> n, kind |-> kind, pc |-> pc, next |-> 0, entry |-> Entry(NoNode, 0),
     members |-> {}, failed |-> failed, probe |-> NoNode]

Tasks == BagToSet(tasks)
Runs(k, pc) == k.pc = pc /\ k.node \in Live
Electing(n) == {k \in Tasks : k.node = n /\ k.kind = "election"}

Starts(k) == tasks' = tasks (+) SetToBag({k})
Becomes(k, l) == tasks' = (tasks (-) SetToBag({k})) (+) SetToBag({l})
Ends(k) == tasks' = tasks (-) SetToBag({k})
Ships(k, l) == IF l.members = {} /\ l.kind = "submission" THEN Ends(k) ELSE Becomes(k, l)
Without(K) == [k \in Tasks \ K |-> tasks[k]]

StartsElection(k) ==
    /\ elections + submissions < MaxTasks
    /\ elections' = elections + 1
    /\ Starts(k)

\* Nobody receives what is sent to a crashed node.
Send(requests) == net' = net \cup {r \in requests : r.to \in Live}
MaySend == Cardinality({r \in net : r.type = "update"}) < MaxInFlight

\* A node that takes over a term is in the middle of something.
Busy(n) == role[n] # "FOLLOWER" \/ \E k \in Tasks : k.node = n

-----------------------------------------------------------------------------
(* Elections *)

\* Mutant: the node itself is appended after the sort.
GetMaxInstanceIdSelfLast(n) == n

\* _get_max_instance_id: the sort is stable and the node itself is last in
\* the list, so it wins a tie.
GetMaxInstanceId(n) ==
    LET candidates == Healthy(n) \cup {n}
        top == {m \in candidates : \A o \in candidates : Instance[o] <= Instance[m]}
    IN  IF n \in top THEN n ELSE CHOOSE m \in top : TRUE

\* run_election up to its first await.
RunElection(n) == role' = [role EXCEPT ![n] = "CANDIDATE"]

\* register() after boot_wait: a node that no leader has reached yet runs an
\* election itself.
Boot(n) ==
    /\ n \in Live \ booted
    /\ booted' = booted \cup {n}
    /\ \/ /\ term[n] = 0
          /\ election' = [election EXCEPT ![n] = "ACTIVE"]
          /\ RunElection(n)
          /\ StartsElection([Task(n, "election", "candidate", NoNode) EXCEPT !.next = 1])
       \/ /\ term[n] # 0
          /\ UNCHANGED <<election, role, tasks, elections>>
    /\ UNCHANGED <<term, leader, logTerm, watchVars, wireVars, crashed, submissions, historyVars>>

\* The election task that receive_failure_notification created starts.
StartElection(k) ==
    LET n == k.node
    IN  /\ Runs(k, "created")
        /\ k.kind = "election"
        /\ RunElection(n)
        /\ Becomes(k, [k EXCEPT !.pc = "candidate", !.next = term[n] + 1])
        /\ UNCHANGED <<term, election, leader, logTerm, watchVars, wireVars, hostVars, counts, historyVars>>

\* The vote: the largest instance id of the nodes that look healthy here.
Elect(k) ==
    LET n == k.node
        winner == GetMaxInstanceId(n)
    IN  /\ Runs(k, "candidate")
        /\ leader' = [leader EXCEPT ![n] = winner]
        /\ Becomes(k, [k EXCEPT !.pc = IF winner = n THEN "won" ELSE "lost"])
        /\ role' = [role EXCEPT ![n] = IF winner = n THEN @ ELSE "FOLLOWER"]
        /\ UNCHANGED <<term, election, logTerm, watchVars, wireVars, hostVars, counts, historyVars>>

\* LogQueue.update: a batch whose last entry is of an older term is refused.
LogUpdate(n, entry) ==
    logTerm' = [logTerm EXCEPT ![n] = IF entry.term >= @ THEN entry.term ELSE @]

\* The winner raises its term, logs its election and ships its log.
Lead(k) ==
    LET n == k.node
    IN  /\ Runs(k, "won")
        /\ role' = [role EXCEPT ![n] = "LEADER"]
        /\ term' = [term EXCEPT ![n] = @ + 1]
        /\ LogUpdate(n, Entry(n, term'[n]))
        /\ Becomes(k, [k EXCEPT !.pc = "shipping", !.entry = Entry(n, term'[n]), !.members = Healthy(n)])
        /\ elected' = elected \cup {<<n, term'[n]>>}
        /\ UNCHANGED <<election, leader, watchVars, wireVars, hostVars, counts,
                       accurate, interrupted, stalled, lowered>>

Finishing(k) == Runs(k, "lost") \/ (Runs(k, "shipping") /\ k.kind = "election")

\* Mutant: only the winner sets _election_status back.
FinishElectionWinner(k) ==
    LET n == k.node
    IN  /\ Finishing(k)
        /\ term' = [term EXCEPT ![n] = IF @ > k.next THEN k.next ELSE @]
        /\ election' = [election EXCEPT ![n] = IF k.pc = "lost" THEN @ ELSE "READY"]
        /\ lowered' = lowered \cup IF term[n] > k.next THEN {n} ELSE {}
        /\ Ends(k)
        /\ UNCHANGED <<role, leader, logTerm, watchVars, wireVars, hostVars, counts,
                       accurate, interrupted, stalled, elected>>

\* The end of run_election: a term that ran ahead is set back.
FinishElection(k) ==
    LET n == k.node
    IN  /\ Finishing(k)
        /\ term' = [term EXCEPT ![n] = IF @ > k.next THEN k.next ELSE @]
        /\ election' = [election EXCEPT ![n] = "READY"]
        /\ lowered' = lowered \cup IF term[n] > k.next THEN {n} ELSE {}
        /\ Ends(k)
        /\ UNCHANGED <<role, leader, logTerm, watchVars, wireVars, hostVars, counts,
                       accurate, interrupted, stalled, elected>>

-----------------------------------------------------------------------------
(* Log updates, for the terms they carry *)

\* _run_raft_monitor: a leader's periodic update.  The entry is made here;
\* the submission is a task that starts later.
RunRaftMonitor(n) ==
    /\ n \in Live \cap booted
    /\ role[n] = "LEADER"
    /\ submissions < MaxSubmissions /\ elections + submissions < MaxTasks
    /\ submissions' = submissions + 1
    /\ Starts([Task(n, "submission", "created", NoNode) EXCEPT !.entry = Entry(n, term[n])])
    /\ UNCHANGED <<nodeVars, watchVars, wireVars, hostVars, elections, historyVars>>

\* _submit_logs_to_members does not ask whether the node still leads.
StartSubmission(k) ==
    LET n == k.node
    IN  /\ Runs(k, "created")
        /\ k.kind = "submission"
        /\ LogUpdate(n, k.entry)
        /\ Ships(k, [k EXCEPT !.pc = "shipping", !.members = Healthy(n)])
        /\ UNCHANGED <<term, role, election, leader, watchVars, wireVars, hostVars, counts, historyVars>>

\* Mutant: the request carries the term of the election.
SubmitLogUpdateNext(k, m) ==
    LET n == k.node
    IN  /\ Runs(k, "shipping")
        /\ m \in k.members
        /\ MaySend
        /\ Send({[type |-> "update", from |-> n, to |-> m, term |-> term[n] + 1,
                  entry |-> k.entry, failed |-> k.failed]})
        /\ Ships(k, [k EXCEPT !.members = @ \ {m}])
        /\ UNCHANGED <<nodeVars, watchVars, adopting, cancels, hostVars, counts, historyVars>>

\* submit_log_update: the entries as they were, the term as it is.
SubmitLogUpdate(k, m) ==
    LET n == k.node
    IN  /\ Runs(k, "shipping")
        /\ m \in k.members
        /\ MaySend
        /\ Send({[type |-> "update", from |-> n, to |-> m, term |-> term[n],
                  entry |-> k.entry, failed |-> k.failed]})
        /\ Ships(k, [k EXCEPT !.members = @ \ {m}])
        /\ UNCHANGED <<nodeVars, watchVars, adopting, cancels, hostVars, counts, historyVars>>

\* receive_log_update: a higher term is taken over and the entries are not
\* stored.
ReceiveHigherTerm(r) ==
    LET n == r.to
    IN  /\ r.type = "update" /\ n \in Live
        /\ r.term > term[n]
        /\ net' = net \ {r}
        /\ cancels' = [cancels EXCEPT ![n] = Append(@, r.term)]
        /\ term' = [term EXCEPT ![n] = r.term]
        /\ adopting' = adopting \cup {[node |-> n, leader |-> r.entry.leader]}
        /\ interrupted' = interrupted \cup IF Busy(n) THEN {n} ELSE {}
        /\ UNCHANGED <<role, election, leader, logTerm, watchVars, hostVars, taskVars,
                       accurate, stalled, lowered, elected>>

\* Its second half, after the logger.
AdoptLeader(a) ==
    LET n == a.node
    IN  /\ n \in Live
        /\ adopting' = adopting \ {a}
        /\ leader' = [leader EXCEPT ![n] = a.leader]
        /\ election' = [election EXCEPT ![n] = "READY"]
        /\ role' = [role EXCEPT ![n] = "FOLLOWER"]
        /\ UNCHANGED <<term, logTerm, watchVars, net, cancels, hostVars, taskVars, historyVars>>

\* The _cancel_election task its first half created.
CancelElection(n) ==
    /\ n \in Live
    /\ cancels[n] # <<>>
    /\ cancels' = [cancels EXCEPT ![n] = Tail(@)]
    /\ election' = [election EXCEPT ![n] = "READY"]
    /\ term' = [term EXCEPT ![n] = Head(cancels[n])]
    /\ interrupted' = interrupted \cup IF Busy(n) THEN {n} ELSE {}
    /\ lowered' = lowered \cup IF Head(cancels[n]) < term[n] THEN {n} ELSE {}
    /\ UNCHANGED <<role, leader, logTerm, watchVars, net, adopting, hostVars, taskVars,
                   accurate, stalled, elected>>

\* _cancel_suspicion_probe of the nodes in M cancels the suspicion tasks and
\* the elections that run in them; _election_status stays as it is.
CancelSuspicionProbe(n, M) ==
    LET halted == {k \in Electing(n) : k.probe \in M}
    IN  /\ suspicion' = [suspicion EXCEPT ![n] = [m \in Nodes |-> IF m \in M THEN "none" ELSE @[m]]]
        /\ tasks' = Without(halted)
        /\ stalled' = stalled \cup IF halted # {} THEN {n} ELSE {}

\* Mutant: the entries are stored before the terms are compared.
ReceiveLogUpdateAnyTerm(r) ==
    LET n == r.to
    IN  /\ r.type = "update" /\ n \in Live
        /\ net' = net \ {r}
        /\ CancelSuspicionProbe(n, {r.from, r.failed} \ {NoNode})
        /\ LogUpdate(n, r.entry)
        /\ UNCHANGED <<term, role, election, leader, statuses, suspected, adopting, cancels,
                       hostVars, counts, accurate, interrupted, lowered, elected>>

\* receive_log_update of no higher term: the suspicions of the sender and of
\* the failed node are called off and the entries go to the log.
ReceiveLogUpdate(r) ==
    LET n == r.to
    IN  /\ r.type = "update" /\ n \in Live
        /\ r.term <= term[n]
        /\ net' = net \ {r}
        /\ CancelSuspicionProbe(n, {r.from, r.failed} \ {NoNode})
        /\ LogUpdate(n, r.entry)
        /\ UNCHANGED <<term, role, election, leader, statuses, suspected, adopting, cancels,
                       hostVars, counts, accurate, interrupted, lowered, elected>>

-----------------------------------------------------------------------------
(* Failures *)

\* A health check (_run_healthcheck) or _update_logs had no answer to any of
\* its tries.
Suspect(n, m) ==
    /\ n \in Live \cap booted /\ m # n
    /\ CheckIsNotSelf(n, m)
    /\ statuses[n][m] = "healthy"
    /\ suspected < MaxSuspicions
    /\ suspected' = suspected + 1
    /\ statuses' = [statuses EXCEPT ![n][m] = "suspect"]
    /\ suspicion' = [suspicion EXCEPT ![n][m] = "probing"]
    /\ accurate' = (accurate /\ m \in crashed)
    /\ UNCHANGED <<nodeVars, wireVars, hostVars, taskVars, interrupted, stalled,
                   lowered, elected>>

\* update_node_health: a health update of the node itself.
UpdateNodeHealth(n, m) ==
    /\ n \in Live /\ m \in Live \ {n}
    /\ statuses[n][m] # "healthy" \/ suspicion[n][m] # "none" \/ \E k \in Electing(n) : k.probe = m
    /\ statuses' = [statuses EXCEPT ![n][m] = "healthy"]
    /\ CancelSuspicionProbe(n, {m})
    /\ UNCHANGED <<nodeVars, suspected, wireVars, hostVars, counts, accurate, interrupted, lowered, elected>>

\* An answer of the node to a health check, an update or a push.
AnswerHealthy(n, m) ==
    /\ n \in Live /\ m \in Live \ {n}
    /\ CheckIsNotSelf(n, m)
    /\ statuses[n][m] # "healthy"
    /\ statuses' = [statuses EXCEPT ![n][m] = "healthy"]
    /\ UNCHANGED <<nodeVars, suspicion, suspected, wireVars, hostVars, taskVars, historyVars>>

\* Monitor._start_suspect_monitor: the suspicion timed out, or the loop saw
\* the node healthy again.
EndSuspicion(n, m) ==
    /\ n \in Live
    /\ suspicion[n][m] = "probing"
    /\ suspicion' = [suspicion EXCEPT ![n][m] = "judged"]
    /\ statuses' = [statuses EXCEPT ![n][m] = IF @ = "suspect" THEN "failed" ELSE @]
    /\ UNCHANGED <<nodeVars, suspected, wireVars, hostVars, taskVars, historyVars>>

\* What the controller's _start_suspect_monitor does next: the others are
\* notified before the election.  failed_nodes holds triples and is asked
\* for pairs: it keeps nobody out.
StartSuspectMonitor(n, m) ==
    /\ n \in Live
    /\ suspicion[n][m] = "judged"
    /\ suspicion' = [suspicion EXCEPT ![n][m] = "none"]
    /\ \/ /\ election[n] = "READY" /\ statuses[n][m] = "failed"
          /\ election' = [election EXCEPT ![n] = "ACTIVE"]
          /\ StartsElection([Task(n, "election", "notifying", m)
                                EXCEPT !.probe = m, !.members = Healthy(n)])
          /\ Send({[type |-> "failure", from |-> n, to |-> o, failed |-> m] : o \in Healthy(n)})
       \/ /\ election[n] # "READY" \/ statuses[n][m] # "failed"
          /\ UNCHANGED <<election, tasks, elections, net>>
    /\ UNCHANGED <<term, role, leader, logTerm, statuses, suspected, adopting, cancels, hostVars,
                   submissions, historyVars>>

\* receive_failure_notification, up to its answer.
ReceiveFailureNotification(r) ==
    LET n == r.to
        starts == CheckIsNotSelf(n, r.failed) /\ election[n] = "READY"
    IN  /\ r.type = "failure" /\ n \in Live
        /\ net' = (net \ {r}) \cup {[r EXCEPT !.type = "noted"]}
        /\ \/ /\ starts
              /\ statuses' = [statuses EXCEPT ![n][r.failed] = "failed"]
              /\ election' = [election EXCEPT ![n] = "ACTIVE"]
              /\ StartsElection(Task(n, "election", "created", r.failed))
              /\ accurate' = (accurate /\ r.failed \in crashed)
           \/ /\ ~starts
              /\ UNCHANGED <<statuses, election, tasks, elections, accurate>>
        /\ UNCHANGED <<term, role, leader, logTerm, suspicion, suspected, adopting, cancels, hostVars,
                       submissions, interrupted, stalled, lowered, elected>>

\* The answer reaches the notifying node.
ReceiveNoted(k, r) ==
    /\ Runs(k, "notifying")
    /\ r.type = "noted" /\ r.from = k.node /\ r.failed = k.failed
    /\ net' = net \ {r}
    /\ Becomes(k, [k EXCEPT !.members = @ \ {r.to}])
    /\ UNCHANGED <<nodeVars, watchVars, adopting, cancels, hostVars, counts, historyVars>>

\* notify_of_failed_node returns once everyone answered.
Notified(k) ==
    LET n == k.node
    IN  /\ Runs(k, "notifying")
        /\ k.members = {}
        /\ RunElection(n)
        /\ Becomes(k, [k EXCEPT !.pc = "candidate", !.next = term[n] + 1])
        /\ UNCHANGED <<term, election, leader, logTerm, watchVars, wireVars, hostVars, counts, historyVars>>

\* It raises when an answer did not come in time: there is no election.
NotifyRaises(k) ==
    /\ Runs(k, "notifying")
    /\ k.members # {}
    /\ Ends(k)
    /\ net' = {r \in net : r.type # "noted" \/ r.from # k.node}
    /\ stalled' = stalled \cup {k.node}
    /\ UNCHANGED <<nodeVars, watchVars, adopting, cancels, hostVars, counts, accurate, interrupted, lowered, elected>>

Crash(n) ==
    /\ n \in Live
    /\ Cardinality(crashed) < MaxCrashes
    /\ crashed' = crashed \cup {n}
    /\ tasks' = Without({k \in Tasks : k.node = n})
    /\ net' = {r \in net : r.to # n}
    /\ adopting' = {a \in adopting : a.node # n}
    /\ cancels' = [cancels EXCEPT ![n] = <<>>]
    /\ UNCHANGED <<nodeVars, watchVars, booted, counts, historyVars>>

-----------------------------------------------------------------------------
TaskStep(k) ==
    \/ StartElection(k) \/ Elect(k) \/ Lead(k) \/ FinishElection(k)
    \/ StartSubmission(k) \/ Notified(k) \/ NotifyRaises(k)

Next ==
    \/ \E n \in Nodes :
        Boot(n) \/ RunRaftMonitor(n) \/ CancelElection(n) \/ Crash(n)
    \/ \E k \in Tasks :
        \/ TaskStep(k)
        \/ \E m \in Nodes : SubmitLogUpdate(k, m)
        \/ \E r \in net : ReceiveNoted(k, r)
    \/ \E r \in net :
        ReceiveHigherTerm(r) \/ ReceiveLogUpdate(r) \/ ReceiveFailureNotification(r)
    \/ \E a \in adopting : AdoptLeader(a)
    \/ \E n, m \in Nodes :
        \/ Suspect(n, m) \/ UpdateNodeHealth(n, m) \/ AnswerHealthy(n, m)
        \/ EndSuspicion(n, m) \/ StartSuspectMonitor(n, m)

Spec == Init /\ [][Next]_vars

-----------------------------------------------------------------------------
\* The variables keep their types; roles and election states do not mix.
TypeOK ==
    /\ \A n \in Nodes :
        /\ term[n] \in Nat /\ logTerm[n] \in Nat
        /\ role[n] \in {"FOLLOWER", "CANDIDATE", "LEADER"}
        /\ election[n] \in {"READY", "ACTIVE"}
        /\ leader[n] \in Nodes \cup {NoNode}
        /\ \A m \in Nodes : /\ statuses[n][m] \in {"healthy", "suspect", "failed"}
                            /\ suspicion[n][m] \in {"none", "probing", "judged"}
    /\ crashed \subseteq Nodes /\ booted \subseteq Nodes
    /\ \A k \in Tasks : k.node \in Nodes /\ k.members \subseteq Nodes
    /\ IsABag(tasks)

\* As long as nobody takes a live node for suspect or failed, two nodes of
\* different instance ids never lead at once: run_election asks nobody, and
\* the largest instance id among the nodes that look healthy decides.
LeaderUnique ==
    accurate => \A n, m \in Live :
        role[n] = "LEADER" /\ role[m] = "LEADER" => n = m \/ Instance[n] = Instance[m]

\* A node whose _election_status is ACTIVE is running an election, or its
\* election was given up half way: by an exception in notify_of_failed_node,
\* or with the suspicion task it ran in.  Until the status is READY again the
\* node starts no other.
ActiveHasElection ==
    \A n \in Live : election[n] = "ACTIVE" => Electing(n) # {} \/ n \in stalled

\* The log of a node is never of a later term than the node, so that it takes
\* the entries the node makes as a leader (update() refuses older terms) - as
\* long as no term was set back, at the end of one of two elections of a node
\* or by a late _cancel_election.
LeaderCanLog ==
    lowered = {} => \A n \in Live : logTerm[n] <= term[n]

\* A log update carries a term its sender was elected for, unless the sender
\* was given a term while it led, stood for election or submitted.
TermWasWon ==
    \A r \in net : r.type = "update" /\ r.from \notin interrupted => <<r.from, r.term>> \in elected
=============================================================================
