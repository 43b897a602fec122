---------------------------- MODULE LogShipping ----------------------------
(***************************************************************************)
(* How a leader ships its log to the members and commits it:               *)
(* _submit_logs_to_members, _update_logs and the handlers at the members,  *)
(* hedra/distributed/replication/replication_controller.py.                *)
(*                                                                         *)
(* One node is followed through its terms, with its members; the elections *)
(* are in ReplicationElection.tla and the other leaders that may depose it *)
(* are an environment.  A log is the set of its entries and the term of    *)
(* its last update (LogQueue.tla is about its order).  An entry's number   *)
(* stands for its Snowflake id: the nodes draw them from clocks that       *)
(* agree.  A response is one to a try of the same submission               *)
(* (UdpConnection.tla is about their pairing).                             *)
(***************************************************************************)
EXTENDS Integers, Sequences, FiniteSets

CONSTANTS
    Members,        \* the other nodes of the cluster
    Self,           \* the node that leads
    Other,          \* a leader of another term
    PollRetries,    \* _poll_retries
    MaxEntries,     \* bound on the ids drawn
    MaxTerms,       \* bound on the terms of the node and of the members
    MaxInFlight     \* bound on the requests in flight

ASSUME ShippingAssumption ==
    /\ IsFiniteSet(Members) /\ Self \notin Members /\ Other # Self
    /\ PollRetries \in Nat \ {0}
    /\ MaxEntries \in Nat /\ MaxTerms \in Nat /\ MaxInFlight \in Nat

Nodes == Members \cup {Self}

VARIABLES
    term,       \* _term_number of every node
    leads,      \* _raft_node_status of Self is LEADER
    log,        \* the entries of _logs
    logTerm,    \* the term of the last update of _logs
    commit,     \* the id of the last commit() of Self, 0 before the first
    healthy,    \* the members _node_statuses of Self has as healthy
    tasks,      \* the submissions and elections of Self
    net,        \* log updates and forwarded entries in flight
    ids,        \* ids drawn so far
    skipped,    \* history: a member was done with an entry and did not store it
    overtaken   \* history: entries older than a commit when they were logged

logVars == <<log, logTerm, commit>>
vars == <<term, leads, logVars, healthy, tasks, net, ids, skipped, overtaken>>

Entry(i, n, t) == [id |-> i, leader |-> n, term |-> t]
LastEntry(s) == CHOOSE e \in s : \A f \in s : f.id <= e.id

\* The node was elected for term 1 and no member has heard of it yet.
Init ==
    /\ term = [n \in Nodes |-> IF n = Self THEN 1 ELSE 0]
    /\ leads = TRUE
    /\ log = [n \in Nodes |-> IF n = Self THEN {Entry(1, Self, 1)} ELSE {}]
    /\ logTerm = [n \in Nodes |-> IF n = Self THEN 1 ELSE 0]
    /\ commit = 0
    /\ healthy = Members
    /\ tasks = <<>>
    /\ net = {}
    /\ ids = 1
    /\ skipped = {}
    /\ overtaken = {}

-----------------------------------------------------------------------------
(* The log *)

\* LogQueue.update: a batch that ends in an older term is refused.
Accepts(n, batch) == LastEntry(batch).term >= logTerm[n]

LogUpdate(n, batch) ==
    /\ log' = [log EXCEPT ![n] = IF Accepts(n, batch) THEN @ \cup batch ELSE @]
    /\ logTerm' = [logTerm EXCEPT ![n] = IF Accepts(n, batch) THEN LastEntry(batch).term ELSE @]

\* LogQueue.latest: everything from the last committed entry on.
Latest(s, c) == {e \in s : e.id >= c}

-----------------------------------------------------------------------------
(* Submissions *)

\* batch is what is to be logged, then what is shipped; pending the members
\* whose _update_logs has not returned, sent those with a try under way.
Task(kind, pc, batch) ==
    [kind |-> kind, pc |-> pc, batch |-> batch, pending |-> {}, sent |-> {},
     answered |-> {}, tries |-> [m \in Members |-> 0]]

Put(k, task) == IF k > Len(tasks) THEN Append(tasks, task) ELSE [tasks EXCEPT ![k] = task]

Skip(M, batch) == skipped \cup {p \in M \X batch : p[2] \notin log[p[1]]}

\* Mutant: latest() is taken before the entries are logged.
SubmitLogsToMembersBefore(k, batch) ==
    /\ LogUpdate(Self, batch)
    /\ overtaken' = overtaken \cup {e \in batch : e.id < commit}
    /\ LET latest == Latest(log[Self], commit)
       IN  /\ tasks' = Put(k, [Task("submission", "shipping", latest) EXCEPT !.pending = healthy])
           /\ skipped' = Skip(Members \ healthy, latest)
    /\ UNCHANGED <<term, leads, commit, healthy>>

\* The start of _submit_logs_to_members: the entries go into the node's own
\* log, whatever update() says to them, and the latest ones to the members.
SubmitLogsToMembers(k, batch) ==
    /\ LogUpdate(Self, batch)
    /\ overtaken' = overtaken \cup {e \in batch : e.id < commit}
    /\ LET latest == Latest(log'[Self], commit)
       IN  /\ tasks' = Put(k, [Task("submission", "shipping", latest) EXCEPT !.pending = healthy])
           /\ skipped' = Skip(Members \ healthy, latest)
    /\ UNCHANGED <<term, leads, commit, healthy>>

MayDraw == ids < MaxEntries /\ ids' = ids + 1

\* _run_raft_monitor: the entry is made here; the submission is a task that
\* starts later.
RunRaftMonitor ==
    /\ leads
    /\ MayDraw
    /\ tasks' = Append(tasks, Task("submission", "created", {Entry(ids', Self, term[Self])}))
    /\ UNCHANGED <<term, leads, logVars, healthy, net, skipped, overtaken>>

\* Tasks start in the order they were created.  Nobody asks whether the node
\* still leads.
StartSubmission(k) ==
    /\ tasks[k].pc = "created"
    /\ \A l \in 1..(k - 1) : tasks[l].pc # "created"
    /\ SubmitLogsToMembers(k, tasks[k].batch)
    /\ UNCHANGED <<ids, net>>

\* push_entries on the leader.
PushEntries ==
    /\ leads
    /\ MayDraw
    /\ SubmitLogsToMembers(Len(tasks) + 1, {Entry(ids', Self, term[Self])})
    /\ UNCHANGED net

\* push_entries on a member that has heard of the leader.
ForwardEntries(m) ==
    /\ term[m] > 0
    /\ MayDraw
    /\ Cardinality(net) < MaxInFlight
    /\ net' = net \cup {[type |-> "forward", batch |-> {Entry(ids', Self, term[m])}]}
    /\ UNCHANGED <<term, leads, logVars, healthy, tasks, skipped, overtaken>>

\* receive_forwarded_entries: a leader adds an entry of its own.
ReceiveForwardedEntries(r) ==
    /\ r.type = "forward"
    /\ leads
    /\ MayDraw
    /\ net' = net \ {r}
    /\ tasks' = Append(tasks, Task("submission", "created",
                                   r.batch \cup {Entry(ids', Self, term[Self])}))
    /\ UNCHANGED <<term, leads, logVars, healthy, skipped, overtaken>>

\* A node that does not lead answers all the same and drops them.
DropForwardedEntries(r) ==
    /\ r.type = "forward"
    /\ ~leads
    /\ net' = net \ {r}
    /\ UNCHANGED <<term, leads, logVars, healthy, tasks, ids, skipped, overtaken>>

-----------------------------------------------------------------------------
(* _update_logs *)

Shipping(k, m) == tasks[k].pc = "shipping" /\ m \in tasks[k].pending

\* A try: submit_log_update takes the entries as they were and the term as
\* it is.
SubmitLogUpdate(k, m) ==
    /\ Shipping(k, m)
    /\ m \notin tasks[k].sent
    /\ Cardinality(net) < MaxInFlight
    /\ net' = net \cup {[type |-> "update", to |-> m, task |-> k, term |-> term[Self],
                         batch |-> tasks[k].batch]}
    /\ tasks' = [tasks EXCEPT ![k].tries[m] = @ + 1, ![k].sent = @ \cup {m}]
    /\ UNCHANGED <<term, leads, logVars, healthy, ids, skipped, overtaken>>

Returned(k, m) == [tasks EXCEPT ![k].pending = @ \ {m}, ![k].sent = @ \ {m}]

\* An answer to a try.
Answered(k, m) ==
    /\ Shipping(k, m)
    /\ m \in tasks[k].sent \cap tasks[k].answered
    /\ tasks' = Returned(k, m)
    /\ healthy' = healthy \cup {m}
    /\ UNCHANGED <<term, leads, logVars, net, ids, skipped, overtaken>>

\* No answer in time, with tries left.
Retry(k, m) ==
    /\ Shipping(k, m)
    /\ m \in tasks[k].sent
    /\ tasks[k].tries[m] < PollRetries
    /\ tasks' = [tasks EXCEPT ![k].sent = @ \ {m}]
    /\ UNCHANGED <<term, leads, logVars, healthy, net, ids, skipped, overtaken>>

\* Mutant: only a member that is still healthy is given up.
GiveUpHealthy(k, m) ==
    /\ Shipping(k, m)
    /\ m \in tasks[k].sent \cap healthy
    /\ tasks[k].tries[m] = PollRetries
    /\ tasks' = Returned(k, m)
    /\ healthy' = healthy \ {m}
    /\ skipped' = Skip({m}, tasks[k].batch)
    /\ UNCHANGED <<term, leads, logVars, net, ids, overtaken>>

\* The last try had no answer: the member is suspect.
GiveUp(k, m) ==
    /\ Shipping(k, m)
    /\ m \in tasks[k].sent
    /\ tasks[k].tries[m] = PollRetries
    /\ tasks' = Returned(k, m)
    /\ healthy' = healthy \ {m}
    /\ skipped' = Skip({m}, tasks[k].batch)
    /\ UNCHANGED <<term, leads, logVars, net, ids, overtaken>>

\* Mutant: what is committed is the last entry that was shipped.
FinishSubmissionShipped(k) ==
    /\ tasks[k].pc = "shipping" /\ tasks[k].kind = "submission"
    /\ tasks[k].pending = {}
    /\ commit' = LastEntry(tasks[k].batch).id
    /\ tasks' = [tasks EXCEPT ![k] = Task("submission", "done", {})]
    /\ UNCHANGED <<term, leads, log, logTerm, healthy, net, ids, skipped, overtaken>>

\* The end of _submit_logs_to_members: commit(), whatever the answers were.
FinishSubmission(k) ==
    /\ tasks[k].pc = "shipping" /\ tasks[k].kind = "submission"
    /\ tasks[k].pending = {}
    /\ commit' = LastEntry(log[Self]).id
    /\ tasks' = [tasks EXCEPT ![k] = Task("submission", "done", {})]
    /\ UNCHANGED <<term, leads, log, logTerm, healthy, net, ids, skipped, overtaken>>

-----------------------------------------------------------------------------
(* receive_log_update at a member *)

Replied(k, m) ==
    IF tasks[k].pc = "shipping" THEN [tasks EXCEPT ![k].answered = @ \cup {m}] ELSE tasks

\* A higher term is taken over, the update answered and not stored.
ReceiveHigherTerm(r) ==
    /\ r.type = "update"
    /\ r.term > term[r.to]
    /\ net' = net \ {r}
    /\ term' = [term EXCEPT ![r.to] = r.term]
    /\ tasks' = Replied(r.task, r.to)
    /\ skipped' = Skip({r.to}, r.batch)
    /\ UNCHANGED <<leads, logVars, healthy, ids, overtaken>>

\* Otherwise the entries go to the log, which may refuse them.
ReceiveLogUpdate(r) ==
    /\ r.type = "update"
    /\ r.term <= term[r.to]
    /\ net' = net \ {r}
    /\ LogUpdate(r.to, r.batch)
    /\ tasks' = Replied(r.task, r.to)
    /\ skipped' = IF Accepts(r.to, r.batch) THEN skipped \ ({r.to} \X r.batch)
                  ELSE Skip({r.to}, r.batch)
    /\ UNCHANGED <<term, leads, commit, healthy, ids, overtaken>>

-----------------------------------------------------------------------------
(* Elections and the rest of the cluster *)

\* The winner's part of run_election; its shipping is cancelled by a timeout
\* at the latest.
RunElection ==
    /\ ~leads
    /\ term[Self] < MaxTerms
    /\ MayDraw
    /\ leads' = TRUE
    /\ term' = [term EXCEPT ![Self] = @ + 1]
    /\ LogUpdate(Self, {Entry(ids', Self, term'[Self])})
    /\ LET latest == Latest(log'[Self], commit)
       IN  /\ tasks' = Append(tasks, [Task("election", "shipping", latest) EXCEPT !.pending = healthy])
           /\ skipped' = Skip(Members \ healthy, latest)
    /\ UNCHANGED <<commit, healthy, net, overtaken>>

\* The wait_for around _update_logs in run_election expires.
CancelUpdate(k, m) ==
    /\ Shipping(k, m)
    /\ tasks[k].kind = "election"
    /\ tasks' = Returned(k, m)
    /\ skipped' = Skip({m}, tasks[k].batch)
    /\ UNCHANGED <<term, leads, logVars, healthy, net, ids, overtaken>>

\* receive_log_update of another leader, of a higher term: the node follows.
HearOfLeader(n) ==
    /\ term[n] < MaxTerms
    /\ term' = [term EXCEPT ![n] = @ + 1]
    /\ leads' = (leads /\ n # Self)
    /\ UNCHANGED <<logVars, healthy, tasks, net, ids, skipped, overtaken>>

\* The next one, of that term, is stored.
FollowLeader(n) ==
    /\ n = Self => ~leads
    /\ logTerm[n] < term[n]
    /\ MayDraw
    /\ LogUpdate(n, {Entry(ids', Other, term[n])})
    /\ UNCHANGED <<term, leads, commit, healthy, tasks, net, skipped, overtaken>>

\* A health check of the monitor.
CheckHealth(m) ==
    /\ healthy' = IF m \in healthy THEN healthy \ {m} ELSE healthy \cup {m}
    /\ UNCHANGED <<term, leads, logVars, tasks, net, ids, skipped, overtaken>>

Lose(r) ==
    /\ net' = net \ {r}
    /\ UNCHANGED <<term, leads, logVars, healthy, tasks, ids, skipped, overtaken>>

-----------------------------------------------------------------------------
Step(k) == StartSubmission(k) \/ FinishSubmission(k)

Ship(k, m) == SubmitLogUpdate(k, m) \/ Answered(k, m) \/ Retry(k, m) \/ GiveUp(k, m)

Next ==
    \/ RunRaftMonitor \/ PushEntries \/ RunElection
    \/ \E m \in Members : ForwardEntries(m) \/ CheckHealth(m)
    \/ \E n \in Nodes : HearOfLeader(n) \/ FollowLeader(n)
    \/ \E k \in DOMAIN tasks : Step(k)
    \/ \E k \in DOMAIN tasks, m \in Members : Ship(k, m) \/ CancelUpdate(k, m)
    \/ \E r \in net :
        \/ ReceiveHigherTerm(r) \/ ReceiveLogUpdate(r)
        \/ ReceiveForwardedEntries(r) \/ DropForwardedEntries(r) \/ Lose(r)

\* The event loop runs every task it can, a wait for an answer ends by its
\* timeout, and no request is in flight for ever.
Fairness ==
    /\ WF_vars(\E k \in DOMAIN tasks : Step(k) \/ \E m \in Members : Ship(k, m))
    /\ WF_vars(\E r \in net : Lose(r))

Spec == Init /\ [][Next]_vars /\ Fairness

-----------------------------------------------------------------------------
\* The variables keep their types; no member is tried more than _poll_retries
\* times, and what was sent is still waited for.
TypeOK ==
    /\ \A n \in Nodes :
        /\ term[n] \in Nat /\ logTerm[n] \in Nat
        /\ \A e \in log[n] : e.id \in 1..ids /\ e.leader \in {Self, Other} /\ e.term \in Nat
    /\ commit \in 0..ids
    /\ leads \in BOOLEAN
    /\ healthy \subseteq Members
    /\ \A k \in DOMAIN tasks : /\ tasks[k].pc \in {"created", "shipping", "done"}
                               /\ tasks[k].sent \subseteq tasks[k].pending
                               /\ \A m \in Members : tasks[k].tries[m] \in 0..PollRetries

\* No entry is passed over: of what the leader has committed of its own, a
\* member stores every entry or is still being sent it, or the member was
\* offered it in vain (it was suspect, its tries were used up, or it took
\* over a term or refused the update), or the entry reached the log after a
\* later one was committed.
CommittedStored ==
    \A m \in Members, e \in log[Self] \ overtaken :
        e.leader = Self /\ e.id <= commit =>
            \/ e \in log[m] \/ <<m, e>> \in skipped
            \/ \E k \in DOMAIN tasks : Shipping(k, m) /\ e \in tasks[k].batch

\* commit() never goes back, though submissions end in any order: the last
\* to end commits the newest entry of the log, not the newest it shipped.
CommitAdvances == [][commit' >= commit]_vars

\* Every submission ends with its commit, whatever the members do.
SubmissionsEnd ==
    []<>(\A k \in DOMAIN tasks : tasks[k].kind = "submission" => tasks[k].pc = "done")
=============================================================================
