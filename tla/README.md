# TLA+ models of Hedra

Hedra is a load-testing framework: a test is a graph of stages, a stage drives
engines (HTTP, HTTP/2, gRPC, UDP, ...) through personas that spawn requests, and
a distributed layer (`hedra/distributed`) lets nodes exchange messages, watch
each other and replicate a log. This directory holds specifications of the
parts whose correctness depends on interleavings, failures and boundaries,
TLC configurations that check them on small instances, and TLAPS proofs of what
holds for every instance.

Nearly all of Hedra runs on asyncio event loops. In every module one action is
one step of a task between two `await`s; whatever a handler does in such a step,
its trailing bookkeeping included, is in that action.

## The system and its parts

| Part | State | Operations | Hard behaviour | What makes it correct |
|---|---|---|---|---|
| Engine semaphore (`core/engines/types/common/concurrency/semaphore.py`) | counter, deque of futures, wake-up flag | `acquire`, `release`, cancellation | barging between a wake-up and its task, cancellation of woken tasks | permits conserved, nobody stranded |
| Engine clients and pools (`core/engines/types/*/client.py`, `pool.py`) | semaphore, connection list, `active`, `waiter` | `execute_prepared_request`, `set_pool`, `extend_pool`, `shrink_pool` | errors before and after the connection went back, resize in flight | a permit means a connection, `active` counts |
| Personas (`core/personas/types`) | generator, `elapsed`, pending set | `generate_...`, `execute` | stale clock reading, wait for the threshold, cancellation at the end | bounded backlog, run ends |
| Batch executor (`core/graphs/stages/base/parallel`) | process pool, weighted semaphore | partition, `execute_batches` | failing stage, broken pool, overcommitted permits, rounding | pool used exactly, call ends |
| UDP connection (`distributed/connection/udp`) | waiter queue per event | `send`, `read`, `_receive_response`, `close` | loss, reordering, duplication, late responses | own response, no stale answer, `send` returns |
| Replicated log (`distributed/replication/log_queue.py`) | entries, timestamp index map, commits | `update`, `commit`, `latest`, `prune` | repeated and late batches, stale positions | order kept, nothing lost |
| Replication controller (`distributed/replication/replication_controller.py`) | term, role, election status, leaders, log | elections, log updates, forwarding, failure notices | concurrent elections, terms taken over in the middle of one, partial submission | one leader unless a live node was suspected, no committed entry passed over |
| Monitor (`distributed/monitoring/monitor_service.py`) | status and latest update per node, suspicion tasks | health checks, probes, register, leave | timers racing answers, overlapping probes and cancellations | a suspect is probed until it is healthy or failed, by its own probe |
| TCP and HTTP connections (`distributed/connection/tcp`) | waiter stacks, call stack, transports | `send`, `stream`, `read` | responses popped from the newest end, split messages, closed connections | a response of the own event, `send` returns |
| Graph, transitions, edges, hooks (`core/graphs`, `core/hooks`) | generations, contexts, edge history | assemble, run, transition | skipped stages, priorities, failures, retries | every stage runs once, after its predecessors; the exit code tells |
| Circuit breaker, rate limiters (`distributed/middleware`, `distributed/rate_limiting`) | counters over windows | admit or reject | stale elapsed times, waiting for capacity | windows respected, recovery, no one waits for ever |
| Snowflake ids (`distributed/snowflake`) | last timestamp, sequence | `generate` | sequence limit, clock stepping back, wide instance ids | unique, increasing |
| Stages, experiments, optimizer, reporting, data, logging, CLI, projects, plugins | | | mostly I/O, formatting and numerics | |

Interactions. A persona spawns requests on an engine client; each request enters
the client's semaphore and takes a connection from its pool; the client resolves
the future a held-back generator waits for. The Optimize stage runs a persona
several times over one client, through the batch executor's worker processes.
An edge runs a stage under a timeout, whose cancellation reaches the executor's
tasks. The monitor and the replication controller send their messages over
the UDP connection (checks of a suspect and some state pushes over TCP), whose
retries and lost responses are what the replicated log has to tolerate. The
controller extends the monitor: its table of statuses decides who is elected and
to whom entries are shipped, a suspicion that ends in "failed" starts an
election, and a log update of a suspect cancels its suspicion. Entries get their
ids from a Snowflake generator, and the log sorts by the time in them.

`PROJECT.json` lists every part with its status, the hazards at their lines, and
the source lines each definition stands for.

## Modules

| Module | Models |
|---|---|
| `PermitPool` | what a semaphore promises: at most `Value` tasks inside, each leaves once |
| `Semaphore` | the engine semaphore; implements `PermitPool` |
| `EngineSession` | one session: requests of every pooled engine, pool, persona; uses the semaphore through what `PermitPool` promises |
| `BatchExecutor` | partition of stages, `execute_batches`, the weighted semaphore |
| `UdpConnection` | pairing of responses with requests of one event over an unreliable network |
| `LogQueue` | the replicated log of one node |
| `TcpConnection` | pairing of responses with requests over TCP: stacks of waiters, the call record, split messages, closed connections |
| `ReplicationElection` | terms, roles, elections, failure notifications and the terms log updates carry, in a cluster |
| `LogShipping` | one node's submissions to its members: retries, forwarding, commits, through changes of the leader |
| `Snowflake` | generation and parsing of ids |
| `Monitor` | one node's detection of failures: statuses, health checks, suspicion tasks, their cancellation |
| `CircuitBreaker` | windows, rates and states of the HTTP circuit breaker |
| `StagePartition` | how the transitions of one generation of stages are put into batches with workers, by priority |
| `StageGraph` | a graph of stages from its assembly to the exit code of the command; uses `StagePartition` |
| `MC*` | the modules for TLC, with the instances the configurations name (no symmetry: the runs with interchangeable parts check liveness) |
| `SemaphoreProofs`, `EngineSessionProofs`, `LogQueueProofs`, `ReplicationElectionProofs` | theorems and proofs about the module of that name |
| `BatchExecutorProofs` | about `BatchExecutor`, and about `StageGraph` and `StagePartition`, whose batches the same class of the code forms |
| `UdpMonitorProofs` | about `UdpConnection` and `Monitor`, which sends its checks over it |
| `TcpServiceProofs` | about `TcpConnection` and `CircuitBreaker`, the two guards of a service's requests |
| `LogShippingProofs` | about `LogShipping` and `Snowflake`, whose ids number its entries |

A module of proofs that extends two components needs their names apart:
`CircuitBreaker`, `Snowflake`, `Monitor` and `StageGraph` therefore call their
predicates `BreakerInit`, `SnowflakeNext`, `MonitorSpec`, `GraphTypeOK` and so on, where
the other modules have plain `Init`, `Next` and `Spec`. The components stay
independent of each other.

Definitions whose comment starts with "Mutant" are wrong variants of the
definition that follows them. No specification uses them; put in the place of
that definition they make a property fail, which shows that the property
depends on the code it is about (`mutants` in `PROJECT.json`).

### Semaphore

`value`, `waiters` and `wakeupScheduled` are the fields of the class; `pc` is
where each `async with sem` block stands. A future in the deque is pending
exactly if its task is `"waiting"`, so cancelled futures stay in `waiters` as the
code leaves them in the deque until `_wake_up_next` pops them. `ResumeTake` and
`ResumeWait` are the two ways the loop of `acquire` goes on after its await.

Fairness: weak fairness of every step of a task that is ready or inside its
block. The loop runs ready callbacks in order, and a request inside the block
ends because each of its awaits has a timeout. Entering and cancelling are free.

### EngineSession

`pc[r]` follows `execute_prepared_request`. The nine pooled engines differ in
three respects (`popInTry`, `early`, `recreate`), which are read off their
clients and form the record `engine`, chosen in `Init`. A resize installs a new
semaphore while requests stay with theirs: `permits` is indexed by the number of
the semaphore. The persona is `DefaultPersona` with the pool resizing of the
ramped and constant-arrival ones. Time is two flags: `timeUp`, when `total_time`
has really passed, and `elapsed`, what the generator last computed of it.
Connections are counted, and tracing hooks left out. `leaked` and `late` are
history variables.

Fairness: requests and the persona's own steps; not the timers, so
`GeneratorResumes` shows that completing requests alone release the generator.

### BatchExecutor

`Init` picks a number of workers and of stages and whether `batch_by_stages` is
set; `ExecuteBatches` computes the partition and creates the tasks. A stage's
worker processes are abstracted to its outcome: results, an exception, or a
broken pool, which also refuses what is submitted later. `CancelCall` is the
timeout of the stage's edge. A sum of workers is counted in slots (`SlotsOf`), one for every
worker of every entry: the sum as a cardinality is what the proofs can reason
about, where a fold would need induction.

Fairness: every task step and the gather; that worker functions end is assumed.

### UdpConnection

A response carries no request id, so requests are numbered by the order of the
`send` calls, and `answer` records which response a request got. `ready` are
the `_receive_response` tasks the loop has yet to run, `parked` those waiting
in `Queue.get()`. The network is the environment: `Losses`, `Duplicates` and
`Overtakes` bound what it may do, and `lost`, `duplicated` and `overtaken` count
what it did; its actions are external definitions of the map.

Fairness: timers fire and ready tasks run; that datagrams and handlers make
progress is an assumption, used for `WaitersLeave` only
(`MCUdpConnection_more.cfg`).

### LogQueue

`logs` stands for `logs` and `_timestamps`, which always change together. The
loop of `update` takes one step per entry, and nothing interleaves, as in the
code, which has no await there. `InsertRaises` and `ReplaceRaises` are the
exceptions a timestamp without position, or a stale position, causes in the
middle of a batch: the entries before it stay. `prune` keeps two peculiarities
of the code: the position 0 is never removed from the map, because it is false,
and the remaining positions are not moved.

### TcpConnection

As for UDP, requests are numbered by the order in which they get their permit,
and `answer` records which response a request got. `waiters` are the deques of
`_waiters`, of which `read` pops the newest end, and `lastCall` is `_last_call`,
which gains an entry per call. A connection is named after the request that
opened it: two requests that connect at once open two, and the later one stays
in `_client_transports`. `ReadPart` and `ReadRest` are the two chunks of a split
response, neither of which can be decoded; `ReadStream` is a stream message of a
peer. `Faults` bounds split and lost messages and streams together.

Fairness: connecting ends, with an error at the latest, and timers fire.

### ReplicationElection

`term`, `role`, `election` and `leader` are the fields of each node. A coroutine
that awaits is a record in the bag `tasks`; its `pc` is the await it stands at,
the logger's included, since the code reads and writes the term on both sides of
those. Nobody votes: `GetMaxInstanceId` picks the node of the largest id among
those that look healthy here. `_election_task` is assigned nowhere, so
`CancelElection` cancels no election and only sets the term of its message, late.
An election that a suspicion started runs inside the suspicion's task and dies
with it (`CancelSuspicionProbe`). Suspicion is reduced to what an election sees
of it: the interleaving of its probes and cancellations is in `Monitor`. `Init`
is a cluster whose first leader has not reached the nodes in `Late`.

The histories `accurate`, `interrupted`, `stalled` and `lowered` say what has
happened so far that the code does not cope with: a live node looked suspect or
failed, a node was given a term while it was busy, an election ended half way, a
term was set back. A term is set back by the end of an election that another one
of the same node overtook, for instance when a failure notification starts one
before the boot wait of `register` is over, and by `_cancel_election`; each property is claimed for the behaviours
without it, and one run covers both.

### LogShipping

`tasks` are the calls of `_submit_logs_to_members` and the winner's part of
`run_election`; `pending`, `sent`, `answered` and `tries` follow the `_update_logs`
of each member. A log is the set of its entries and the term of its last update.
The other leaders that may depose the node are an environment (`HearOfLeader`,
`FollowLeader`), and so are the health checks (`CheckHealth`). `skipped` records
that a member was offered an entry in vain: it was suspect, all tries failed, it
took over a term and dropped the entries, or its log refused them. `overtaken`
records entries that were logged after a later one was committed, which `latest`
does not return.

Fairness: the node's own tasks run, a wait for an answer times out, and no
request is in flight for ever. Nothing is assumed of the members.

### Snowflake

The fields are scaled down (`SeqCap`, `InstanceCap` for 2^12 and 2^10) and `|` is
a bitwise or, not a sum, since an instance id is not masked. The clock stands
still, advances or is set back at will.

### Monitor

`status` is `_node_statuses`, `stack` is `_suspect_nodes`, `table` is
`_suspect_tasks`, and `tasks` are the runs of `_start_suspect_monitor` in the order
they were created. `cancels` are the tasks of `_cancel_suspicion_probe`, which copy
the table, wait for the task they cancel and write the copy back. The other
nodes are an environment. Waits end at any time; a suspicion ends after
`MaxRounds` rounds at the latest, as its timeout does.

The code has several races after which a suspect is probed by another
suspicion's task or by none. `crossed` collects the nodes that met one:

* a node suspected while a cancellation of its previous suspicion is pending: the
  cancellation hits the new probe (`monitor_service.py:673`);
* two suspicions started together take each other's node from the stack, which is
  popped at its newest end (`:1295`), and a task cancelled before it starts leaves
  its node there;
* a node that registers again while suspect: its probe is cancelled, its status
  stays (`:203`, `:239`);
* a node whose status comes from an update of a third node, or that answered
  while it was probed: the old probe goes on, and one that stands at the logger
  may judge a new suspicion (`:1400` to `:1410`).

`overwritten` collects the nodes of one race more: the copy of the table that
`_cancel_suspicion_probe` took before it waited is written back when the wait is over
(`:673` to `:680`), and a task entered meanwhile is gone from `_suspect_tasks`. A
health update then cancels nothing, and the lost task judges its node after a
newer suspicion began. The node is still probed, so only `FreshVerdict` excepts it.

Fairness: the event loop, including the end of waits.

### CircuitBreaker

Rates are kept exactly, multiplied by the window. Ages are counted in ticks up to
the window, beyond which the code tells nothing apart; `phase` is the position of
the clock within a multiple of the window, where `reject_request` puts the start
of a new one. A request that is not rejected is `running` until its handler ends,
in whatever state the breaker is by then. `overdue` and `trips` are histories.

Fairness: time passes, handlers end by their timeout, and requests keep coming,
which is an assumption about the clients; strong, because the bounds on running
and completed requests can disable `Start` for a while.

### StagePartition and StageGraph

`StagePartition` has no state: `Partition` is `partion_prioritized_stage_batches`
with its three cases. With exactly one parallel stage a single transition is
kept; without priorities there is one batch; otherwise each transition that is in
no batch heads one, which the others join as far as the workers go. `Consider` has
the two peculiarities of the third case: a transition that nothing runs raises a
`TypeError`, and one that is in a batch already may join another. A stable sort
is `InOrder`, which puts each member behind those before it; the loops over the
sorted transitions are recursive functions of the number of those looked at.

`StageGraph` has the four ways a stage can be left out or run again in one
place: `edges` and `order` are the assembled graph and its `execution_order`,
`batched` and `tasks` the group that is executed, `exception`, `executed` and `got`
what is known per edge. One action is a whole `edge.transition()`; the tasks of a
batch share nothing but the results they hand on. `EndRun` is the loop of
`hedra graph run`, which assembles a new graph after each one that failed. The
stages include an Analyze and a Submit stage, which the graph would otherwise
append to the last generation the way it appends Complete.

Fairness: the event loop, and that a stage ends.

## Runs

Bounds are chosen so that every action fires and the contended case occurs:
more tasks than permits, more stages than workers with and without remainder,
a batch that overlaps another, an update after a prune.

| Run | Shows |
|---|---|
| `semaphore_permits` | 5 tasks, 2 permits, any of them cancelled at any await: permits conserved, `PermitPool` implemented; as long as none is cancelled nobody is stranded and every waiting task is served in the end |
| `session_load` | 3 requests over a pool of 2, all engines, two persona runs, one resize, cancellation: without a resize an admitted request finds a connection; `active` drifts only by requests that were cancelled or met an empty pool; at most one late request; the generator resumes without its timeout unless `active` has drifted |
| `batch_permits` | all partitions of up to 6 stages over up to 4 workers, failures, broken pool, cancellation: each batch uses the workers exactly, overcommitment below one stage, waiters stranded only by a failed stage, the call ends, with all results if nothing fails |
| `udp_pairing` | 3 requests, up to 2 losses, 2 overtakings, 1 duplicate, timeouts, closing: own response while nothing was lost, doubled or overtaken; no stale answer while the order was kept |
| `log_updates` | timestamps 1 to 4, 3 updates of up to 2 entries, 2 commits, pruning: order and timestamps kept; `latest` covers everything after the last commit while no timestamp came twice and nothing was pruned |
| `tcp_pairing` | 3 requests of 2 events, streams among them, 2 permits, one fault besides closed connections: a response of the own event, the own response for a request alone in flight, waiters accounted for |
| `replication_terms` | 3 nodes, one of them late, 2 elections or submissions, 1 suspicion, true or false, 1 crash, 2 updates in flight: two leaders only after a live node was suspected; `ACTIVE` only with an election, or one that was given up; updates carry a term their sender won, unless it was given a term while it was busy; a node's log accepts its entries, unless a term was set back |
| `log_shipping` | 3 entries, 3 terms, 2 tries, 2 requests in flight, one member: no committed entry passed over, commits never go back, every submission ends |
| `snowflake_ids` | 2 generators, 4 ids each, 2 sequence numbers per millisecond: ids increase |
| `monitor_suspicion` | 2 other nodes, 2 suspicions of 2 rounds, one request of a peer: a suspect outside `crossed` is being probed and does not stay suspect; only the probe of the latest suspicion declares a node failed |
| `breaker_trips` | window of 3 ticks, 20 % threshold, 2 overlapping requests, 4 completed per window: an open breaker calls no handler for its window, and is overdue by one request at most; the same failures trip it at most three times; it closes again in the end unless handlers go on failing |
| `graph_run` | 7 shapes of graphs of 4 stages on 4 cpus, each stage plain or parallel, with no, normal or high priority, with or without retries, one stage skipped or none, 0 or 2 retries of the command, errors and killed workers anywhere: a stage that runs has the results of what it depends on, it runs once, batches by priority fit the workers, exit code 0 of a complete graph means that all stages ran |

Properties that need a benign environment say so themselves, by what has
happened so far (`Uncancelled`, `Undisturbed`, `Ordered`, `repeated`, `pruned`),
so that one run covers the benign and the hostile behaviours together.

Deadlock is not checked where the system legitimately stops: all tasks done, the
run over, the bounds on messages or updates reached.

Further configurations. `MC*_more.cfg` use the instances of the runs above (that
of `StageGraph` a smaller one) for what is not asked there: the type invariants
of the connections, `BatchExecutor`, `Monitor` and `StageGraph`, `PermitsAccounted`
(permits missing from the batched semaphore belong to executing or failed
stages), `NoLostWakeup`, `SendReturns` and `WaitersLeave` of UDP, `SendReturns` of
TCP and `RunEnds` of `StageGraph` (the command ends).
`MCEngineSession_steady.cfg` is a larger instance of the session, 5 requests
without a resize, with `BacklogBounded` (at most `max_pool_size + 2` requests) and
`RunEnds` (a persona's run ends in closed sessions). All of them hold; they are not among the
runs of `PROJECT.json` and have no mutants. The other type invariants,
`LatestDefined` of the log, `IdsDisjoint` and `ParsedTime` of the ids and
`HalfOpenHolds` of the breaker are proved (see Theorems) and need no
configuration; `WaitersQueued` (each waiter is in the semaphore's deque once) and
the types of `Snowflake` are in the configurations of the next section.

Larger instances, checked once for safety: `ReplicationElection` with 3 tasks
(2.1 million states; it showed that a term set back must be excepted in
`LeaderCanLog`), `LogShipping` on two larger instances (0.9 and 1.8
million), `CircuitBreaker`
with a window of 4 and 6 completed requests (2.5 million), `Monitor` with 3
suspicions and 2 requests, where the exception `overwritten` is first needed (9.6
million states within the first levels, not exhausted).

### Disagreements with the repository's own words

While modelling, the following lines turned out not to describe the code. The
named configurations make TLC show each one as a counterexample (the ones with
several properties with TLC's `-continue`); they are not among the regular runs,
all of which pass.

| Configuration, property | The repository says | The code does |
|---|---|---|
| `MCSemaphore_flag.cfg`, `WakeupFlagAccurate` | `semaphore.py:74`: "_wakeup_scheduled is set if *another* task is scheduled to wakeup but its acquire() is not resumed yet" | a woken task that is cancelled with nobody else waiting leaves the flag set (line 83); every later `acquire` waits although the counter is positive |
| `MCBatchExecutor_words.cfg`, `CounterNeverNegative` | `batched_semaphore.py:15`: "The counter can never go below zero" | `acquire` waits for one permit and takes several (line 74): with one left, a stage of four workers makes it -3 |
| `MCBatchExecutor_words.cfg`, `EveryStageBatched` | `batch_executor.py:99`: "The second will assign all four cores to the remaing one stage." | `enumerate(batch)` restarts for every batch (line 158): later batches name the first stages again and the others are in none |
| `MCLogQueue_words.cfg`, `NoDuplicateEntries` | `log_queue.py:123`: "We've received a missing entry so insert it in order.." | an entry that is there and not the last is inserted again (line 124) |
| `MCLogQueue_words.cfg`, `PrunedAreOld` | `log_queue.py:196`: "Get the number of timestamps older than our max prune age" | milliseconds are compared with seconds (line 198): with 1h, entries go after 3.6 seconds |
| `MCLogQueue_words.cfg`, `SortedLogs` | `replication_controller.py:390`: "We can use the Snowflake ID to sort since all records come from the leader." | forwarded entries carry ids of a follower's clock and reach the leader's log unsorted (line 582) |
| `MCSnowflake_wide.cfg`, `SortableByTimestamp` | the same comment | instance ids are drawn from 0 to 2^16 (`service/controller.py:170`, `service/service.py:33`) and shifted unmasked: beyond ten bits they change the time the id parses to |
| `MCMonitor_majority.cfg`, `MajorityConfirmed` | `monitor_service.py:1376`: "We had a majority confirmation the node was healthy." | the test is that fewer say suspect than were asked (line 1375); a member that has the node as failed counts for neither, so no one need say healthy |
| `MCStageGraph_words.cfg`, `CompleteMeansAll` | `graph.py:157`: "ensuring all Graphs executed can reach a single exit point" | only the last generation is connected to Complete (line 400): a stage nothing depends on in an earlier one has no transition and never runs |
| `MCStageGraph_words.cfg`, `ExitZeroMeansComplete` | `cli/graph/run.py:227`: `exit_code = 1` for a graph that failed | with retries, a new graph is assembled after the last failure too (line 199), its status is `ASSEMBLING` and the code 0 |
| `MCStageGraph_words.cfg`, `NeverTwice` | `batch_executor.py:182`: "The first batch will assign one stage to each core." Transitions that are in a batch are recorded in `seen_transitions` | line 287 looks up the head of the batch in it, not the one that joins: of four stages of normal priority on four cpus one runs twice |

`EveryStageBatched` matters most in practice: with more stages than cores some
are never optimised or provisioned and others are twice. What no line promises
is described by properties instead: `PermitsAccounted` and
`StrandedOnlyByFailure` for a failing stage, whose permits are gone while tasks
may wait for ever; `LeaderUnique` for false suspicions, after which two nodes
lead; `ActiveHasElection` for elections that end half way and leave
`_election_status` at `ACTIVE`; `CommittedStored` for entries that are committed
without a member having stored them and may never be sent to it again;
`StageHasInputs` and `ExitZeroMeansAll` for generations with one parallel stage
among others, of which a single stage runs (`batch_executor.py:231`). The retries of a
stage never help: its edge keeps the exception of the first try
(`transition.py:72`), which `EndTry` models.

## Theorems

TLC checks the instances above; the following hold for every value of the
constants that satisfies the `ASSUME`s.

`SemaphoreProofs` (any finite set of tasks, any positive counter):

* `PermitsConserved`, `TypeCorrect`: counter plus holders is the initial value,
  and the counter stays in `0..Value`, under arbitrary cancellation. Inductive
  invariant `PermitInv`: types, `value >= 0` and conservation. The upper bound is
  not inductive by itself; it follows from conservation. The work is in
  `WakeUpNextFrame` (a wake-up changes no holder) and in how the number of holders
  changes by one.
* `NeverStranded`, `FlagAccurate`: until a task is cancelled, some task holds a
  permit or is about to run while any task waits, and the flag is set only if one
  was woken. The inductive invariant `UntilCancelled` is `PermitInv`, and, while
  nobody was cancelled, `QuietInv`: waiting tasks are queued, the flag is accurate,
  and the property itself. A release reaches a waiter because it is queued
  (`WakeUpNextReaches`), and a counter of zero means a holder (`ZeroMeansHolder`).
* `PermitPoolImplemented`: each step is a step of `PermitPool` or leaves its
  state alone. This is what allows `EngineSession` to use counters of permits.

`LogQueueProofs` (any timestamps, terms, batch sizes and prune settings, batches
sorted as `receive_log_update` sorts them, that is `~Forwarding`):

* `LogOrdered`: the log stays in timestamp order. Order alone is not inductive:
  `update` overwrites at a position read from a map that `prune` leaves stale. The
  invariant `LogInv` adds `LastNotBefore`, that the position of the last entry's
  timestamp is never before the end of the log; so a stale position is
  outside the log and raises, and never hits another entry
  (`ReplaceHitsLast`). `FillInOrder` and `MergeNotEmpty` carry the two phases of
  `update`.
* `UpdateKeeps`: no step of `update` removes a timestamp from the log, from the
  same invariant.

* `LastCommitMapped` and `UncommittedSent`: as long as no timestamp comes twice,
  `latest` finds the last commit in the map, and, if nothing was pruned either, it
  returns every entry behind it. `FreshInv` adds to `LogInv` what holds until a
  timestamp is repeated: timestamps are distinct, those of the batch are not in
  the log, every entry has a position, commits are of entries that are in the
  log, and without pruning the positions are exact. A commit alone would not
  survive `prune`: that the kept ones are later than the first kept entry, in a
  sorted log, is what keeps theirs (`KeptFacts`, by the least position of a rank).
* `LogTypeCorrect`: the types.

`EngineSessionProofs` (any requests, engines and pool sizes, resizes and
cancellations; the semaphore is what `PermitPoolImplemented` promises):

* `ActiveAccounted`: `active` is the number of requests in flight and of those
  that left without giving theirs back. `EntryServed`: in the first pool an
  admitted request finds a connection. `OneLateRequest`: one request at most is
  generated past `total_time`. `SessionTypeCorrect`: the types and bounds.
* Invariant `SessionInv`. `EntryServed` needs `PoolInv` (connections are the free
  permits and those that went back before their permit), which needs
  `PermitsInv` for every semaphore ever installed, since requests leave the one
  they entered and not the one in place. `OneLateRequest` needs where persona and
  generator can be together (`PersonaInv`, `LateInv`).

`BatchExecutorProofs` (any number of workers and stages, any failures, and a
call cancelled at any time):

* `EveryBatchFills`: every batch uses the workers of the pool exactly. The work is in
  `SpreadTotal`, that `SpreadRemainder` adds what the division left over, and in
  `BatchArithmetic`: unless some stages are left over, there is one batch, or each has
  as many stages as the pool has workers.
* `PermitsFollowStages`, `BatchTypeCorrect`, `OvercommitByLessThanOne` and
  `NoTaskStranded`, from the invariant `BatchInv`. That the executing stages exceed the
  pool by less than one of them is not inductive: a stage that ends may be the one
  that took last. `TakeInv` says it of every set of stages that hold permits, and a
  stage that takes finds a positive counter, so all others together hold less than
  the pool. `NoTaskStranded` needs that waiting tasks are in the deque (`QueueInv`), that
  the flag is up only for a woken task (`FlagInv`), and that a counter of zero
  without a holder is impossible (`HeldWhenEmpty`).
* Sums are cardinalities of sets of slots, so one lemma (`TotalAdd`) does what
  induction would.

and about the graph of stages (any graph, any stages, plain or parallel, of any
priorities and retries, skipped or not, and any number of cpus):

* `InputsDelivered`, `StagesRunOnce`, `SuccessMeansAll`, `WorkersFit` and
  `GraphTypeCorrect`, from the inductive invariant `GraphInv` (`GraphInvariant`). It
  follows a graph generation by generation. Of the past ones `PastGroups` says that
  they had no exception and that what runs its stage did so and handed on its
  results, which is what a later stage finds (`InputsDelivered`) and what a complete
  graph consists of (`SuccessMeansAll`). It does not survive the end of a group
  without `PresentGroup`: each transition that runs its stage is in a batch that is
  left, is running, or has run, and then either raised or handed on its results. With
  no batch and no task left only the last remains, and `AfterGroup` rules out the
  exception. That a stage runs once needs that the batches left hold a transition
  once and only such as were not executed (`BatchesLeft`), and that groups to come
  executed nothing (`FutureGroups`). `Inputs` says what the assembled graph is:
  edges lead to later generations, and none beyond that of Complete.
* About the partition, `PartitionFacts`: if it does not raise, every transition that
  runs its stage is in a batch, but in a crowded generation; the batches formed by
  priority fit the cpus, with the workers of each stage within its priority; and no
  transition is in two, but in a generation partitioned by priority that holds three
  or more. That two never share two batches is `PairOnce`: the first to head a batch
  either takes the other along, which is seen then, or they do not fit together, and
  then not the other way round either (`NeitherJoins`).
* About sorting, `Places`: a strict order of a finite set gives its members the
  numbers from 1 on, hence `SortedFacts` and `ByPriorityFacts` (nobody is lost or
  doubled by either sort). About the graph, `Levels`: every edge leads to a later
  generation, and `AssembledFacts`, which `_append_stage` could have broken as it
  computes the generations of the graph without Complete (`LevelsAgree`).

`UdpMonitorProofs` (any number of requests, losses, overtakings, duplicates):

* `NoStaleAnswer`, `OwnResponsePaired`, `WakeupNotLost`, `UdpTypeCorrect`. Invariant
  `UdpInv`: what is under way, from a request on its way to the peer to a task
  about to hand over its response, forms one sequence (`Pipe`); while nothing
  overtakes, its k-th element is not older than the k-th waiter (`OrderInv`), and
  is the same request if nothing is lost (`LosslessInv`). A timeout leaves its
  waiter in the deque, which is why the order survives it.

It also proves, for any peers, suspicions, requests of peers and rounds:

* `SuspectsProbed`, `VerdictsFresh` (an action property) and `MonitorTypeCorrect`. Invariant
  `MonitorInv`: the table and every copy of it that a cancellation holds lead from a
  node to a task that probes it (`TableInv`); a suspect whose cancellation is pending
  met a race (`PendingInv`); outside the races a task that may still judge is that of
  the latest suspicion and in the table, and its cancellation is pending once the
  node looks healthy (`FreshInv`); a cancellation that waits leaves no other such
  task (`WaitInv`). The steps are proved once per form (`Handles`, `Suspected`, `Goes`,
  `Starts`, `Withdraws`, `Forgets`); each action is shown to have one of them.
* The first attempt failed at `EndCancelProbe`, and for a reason: with three suspicions
  TLC finds the verdict of a task that was overwritten in the table. That race is the
  one `overwritten` now excepts.

`TcpServiceProofs` (any number of requests, events and permits, any faults):

* `EventPaired`, `DequesAccounted`, `LoneRequestAnswered` (an action property) and
  `TcpTypeCorrect`. Invariant `TcpInv`: a deque holds waiters of its event
  (`EventInv`), answers are of the same event (`AnswerInv`), permits are the requests
  under way, and for a request that met no other of its event the newest waiter is
  its own while it waits (`AloneInv`).

and about the circuit breaker (any window, threshold and number of overlapping
requests):

* `RejectsOnePastWindow`, `OpenForItsWindow` and `HalfOpenForItsWindow` (action
  properties): from `ClockOK` and `OverdueInv`, that a clock that was read shows no
  more than the time that passed.
* `TripsBounded`: the same failures trip the breaker three times at most. The
  invariant `TripInv` says in which window the failures are after the first, the
  second and the third trip.
* `BreakerTypeCorrect`.

`ReplicationElectionProofs` (any number of nodes with distinct ids, tasks, terms,
crashes, suspicions and updates in flight):

* `LeadersUnique`: two live nodes lead only after a live one looked suspect or
  failed. Nobody votes, so the reason is `HighestInv`: who leads or is about to has
  the largest id of those that live. That needs `AccurateInv`, that what does not
  look healthy has crashed.
* `TermsWon`: updates carry terms that were won. `WonInv` looks at who may still
  send (leaders, elections, submissions), and says that since an election began
  its node has won every term from `next_term` on, hence also the one the end of the
  election sets it back to.
* `LogNotAhead`: unless a term was set back, no log is of a later term than its
  node. `LogInv` says the same of what is to be logged and what is under way.
* `ActiveIsElecting`, `ElectionTypeCorrect`. The steps are proved once per kind of
  change (`ElectionsGoOn`, `HeadsGoOn`, `TermsGoOn`, `UpdatesGoOn`, `LogsGoOn`,
  `LooksNoWorse`); every action is shown to be `Ordinary`, that is of all kinds.

`LogShippingProofs` (any members, tries, entries, terms and requests in flight):

* `NoEntryPassedOver`: a committed entry of the leader is stored by every member,
  was offered to it in vain, or is still being sent. It is not inductive: a member
  that answered must have been offered the whole batch, and a request must carry
  the batch of its task (`TaskInv`, `NetInv`); and entries that are not committed
  yet must not have been passed over either (`ShipInv`).
* `CommitGrows` (an action property) from `LogInv`, that the log holds the committed
  entry or a newer one. `ShippingTypeCorrect`.
* `IdsGrow`, `IdsParsed`, about `Snowflake`: for any widths of the
  fields and any clock, the ids of a generator increase, ids of different
  instances differ and parse to their time, if the instances fit their bits. The
  invariant `GeneratorInv` says that the last id is the largest and what each id was
  made of; ids are ordered like time, instance and sequence number (`IdOrder`).

Each inductive invariant was checked by TLC on small instances before it was
proved. None of the theorems assumes more of the constants than the `ASSUME`s of
the modules, which TLC evaluates; those about the log say `~Forwarding` themselves.

Every safety property of the runs, invariant or action property, is stated by one
of these theorems, and `ImplementsPermitPool` by `PermitPoolImplemented`. Only
model-checked: all liveness, since fairness and ENABLED are out of the prover's
reach; the types of `Snowflake`, whose OR of an instance that does not fit is
recursive; `BacklogBounded` and `WaitersQueued`.

What a recursive definition computes for every input is induction over data, and
the library's induction theorems cannot be used here, as they take a predicate for a
parameter. Two substitutes carry the proofs that need it. A property of numbers is
turned into a set, which has a least number outside (`LeastNumber`, for the positions
of the log and the concatenated batches of `BatchExecutor`) or contains every number
once it contains 0 and each successor (`CountUp`). And a recursive function is not
unfolded but shown to exist: `StepsExist` and `LevelsExist` give a function that
satisfies the recursion, so the chosen one does, and `StepsKeep` proves of it what the
first step has and each further one keeps.

## Plan

Models to add: the layers of events of one
stage, the waiting protocol of the rate limiters, and the task runner and
Playwright as further profiles of `EngineSession`.

## Not modelled

Byte formats, encryption and compression; TLS; HTTP/2 and HPACK framing, adapted
from other projects; reporters, connectors, parsers, CLI, projects and logging
(I/O and conversion); optimizer and experiments (floating-point numerics);
statistics. These make up most of the repository's lines and have no protocol to
check. Of the modelled parts: the HTTP connection, the serving side of the
connections, registration before the first election, `leave`, shutdown, periodic
state pushes and the clean-up of finished tasks; durations (timeouts, health
multipliers, poll intervals) are waits that end at any time.
`receive_vote_request` is called by nobody. Of the graph: what the histories hold,
the table of valid transitions, the candidates of Analyze stages, signals. The parts of the plan above are
listed in `PROJECT.json` as not modelled.
