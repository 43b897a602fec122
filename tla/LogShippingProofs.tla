------------------------- MODULE LogShippingProofs -------------------------
(***************************************************************************)
(* Theorems about how a leader ships and commits its log, for any members, *)
(* any number of tries, entries, terms and requests in flight, and about   *)
(* the ids its entries have, for any clock.                                *)
(***************************************************************************)
EXTENDS LogShipping, Snowflake, WellFoundedInduction, SequenceTheorems, TLAPS

Entries == [id : Nat, leader : {Self, Other}, term : Nat]

TaskSet ==
    [kind : {"submission", "election"}, pc : {"created", "shipping", "done"},
     batch : SUBSET Entries, pending : SUBSET Members, sent : SUBSET Members,
     answered : SUBSET Members, tries : [Members -> Nat]]

\* The types.
Types ==
    /\ term \in [Nodes -> Nat] /\ leads \in BOOLEAN
    /\ log \in [Nodes -> SUBSET Entries] /\ logTerm \in [Nodes -> Nat]
    /\ commit \in Nat /\ ids \in Nat
    /\ healthy \subseteq Members /\ tasks \in Seq(TaskSet)

\* Entries whose ids have been drawn.
Drawn(B) == B \subseteq Entries /\ \A e \in B : e.id >= 1 /\ e.id <= ids

\* What is committed is in the log of the node, or something newer is.
LogInv ==
    /\ \A n \in Nodes : Drawn(log[n])
    /\ commit <= ids
    /\ \E e \in log[Self] : e.id >= commit

\* A member is done with an entry: it stored it or was offered it in vain.
Offered(m, e) == e \in log[m] \/ <<m, e>> \in skipped

\* A task still has an entry to send to a member.
Carries(t, m, e) == t.pc = "shipping" /\ m \in t.pending /\ e \in t.batch

\* What holds of every task: a member whose try is not under way has tries
\* left, and one that answered was offered all the task ships.
Good(t) ==
    /\ Drawn(t.batch) /\ (t.pc # "done" => t.batch # {})
    /\ t.sent \subseteq t.pending
    /\ \A m \in Members :
        t.tries[m] <= PollRetries /\ (m \in t.pending \ t.sent => t.tries[m] < PollRetries)
    /\ t.pc = "shipping" => \A m \in t.answered, e \in t.batch : Offered(m, e)

TaskInv == \A k \in 1..Len(tasks) : Good(tasks[k])

\* A request in flight carries what its task ships, unless the task is done.
Delivers(B, t) == t.pc # "created" /\ (t.pc = "shipping" => t.batch = B)

NetInv ==
    \A r \in net :
        /\ Drawn(r.batch) /\ r.batch # {}
        /\ r.type = "update" =>
            /\ r.to \in Members /\ r.term \in Nat
            /\ r.task \in 1..Len(tasks) /\ Delivers(r.batch, tasks[r.task])

\* No submission has started and nothing is committed.
Unshipped ==
    commit = 0 /\ \A k \in 1..Len(tasks) : tasks[k].kind = "submission" => tasks[k].pc = "created"

\* Of its own entries the leader passes none over, committed or not.
ShipInv ==
    \A m \in Members, e \in log[Self] \ overtaken : e.leader = Self =>
        \/ Offered(m, e)
        \/ \E k \in 1..Len(tasks) : Carries(tasks[k], m, e)
        \/ Unshipped

-----------------------------------------------------------------------------
(* Sets of numbers, and the last entry of a batch *)

Below == OpToRel(<, Nat)

\* The order of the numbers is well founded.
LEMMA BelowWellFounded == IsWellFoundedOn(Below, Nat) /\ \A i, j \in Nat : <<i, j>> \in Below <=> i < j
<1>1. IsWellFoundedOn(Below, Nat)
  BY NatLessThanWellFounded, Zenon DEF Below
<1>2. \A i, j \in Nat : <<i, j>> \in Below <=> i < j
  BY DEF Below, OpToRel
<1> QED
  BY <1>1, <1>2

\* A set of numbers that is not empty has a least one.
LEMMA LeastNumber ==
    ASSUME NEW T \in SUBSET Nat, T # {}
    PROVE  \E x \in T : \A y \in T : x <= y
<1>1. IsWellFoundedOn(Below, Nat) /\ T \subseteq Nat
  BY BelowWellFounded
<1>2. \E x \in T : \A y \in T : ~ (<<y, x>> \in Below)
  BY <1>1, WFMin, Zenon
<1>3. PICK x \in T : \A y \in T : ~ (<<y, x>> \in Below)
  BY <1>2
<1>4. ASSUME NEW y \in T PROVE x <= y
  <2>1. x \in Nat /\ y \in Nat /\ ~ (<<y, x>> \in Below)
    BY <1>3
  <2>2. ~ (y < x)
    BY <2>1, BelowWellFounded
  <2> QED
    BY <2>1, <2>2
<1> QED
  BY <1>4

\* A batch whose ids are bounded has a last entry.
LEMMA LastOfBatch ==
    ASSUME NEW B \in SUBSET Entries, B # {}, NEW i \in Nat, \A e \in B : e.id <= i
    PROVE  LastEntry(B) \in B /\ \A f \in B : f.id <= LastEntry(B).id
<1> DEFINE T == {i - e.id : e \in B}
<1>1. \A e \in B : e.id \in Nat /\ i - e.id \in Nat
  BY DEF Entries
<1>2. T \in SUBSET Nat /\ T # {}
  BY <1>1
<1>3. \E x \in T : \A y \in T : x <= y
  <2> HIDE DEF T
  <2> QED
    BY <1>2, LeastNumber
<1>4. PICK e \in B : \A y \in T : i - e.id <= y
  BY <1>3
<1>5. ASSUME NEW f \in B PROVE f.id <= e.id
  <2>1. i - e.id <= i - f.id
    BY <1>4
  <2> QED
    BY <1>1, <2>1
<1>6. \E x \in B : \A f \in B : f.id <= x.id
  BY <1>5
<1> QED
  BY <1>6 DEF LastEntry

\* Entries are what their fields say.
LEMMA EntryType ==
    ASSUME NEW i \in Nat, NEW n \in {Self, Other}, NEW t \in Nat
    PROVE  Entry(i, n, t) \in Entries /\ Entry(i, n, t).id = i /\ Entry(i, n, t).leader = n
  BY DEF Entry, Entries

\* What LogUpdate does to the log of a node, given a batch with bounded ids.
LEMMA LogUpdated ==
    ASSUME Types, NEW n \in Nodes, NEW B \in SUBSET Entries, B # {},
           NEW i \in Nat, \A e \in B : e.id <= i, LogUpdate(n, B)
    PROVE  /\ log' \in [Nodes -> SUBSET Entries] /\ logTerm' \in [Nodes -> Nat]
           /\ \A p \in Nodes : p # n => log'[p] = log[p]
           /\ log'[n] = log[n] \/ log'[n] = log[n] \cup B
           /\ Accepts(n, B) => log'[n] = log[n] \cup B
           /\ ~Accepts(n, B) => log'[n] = log[n]
<1>1. LastEntry(B) \in B
  BY LastOfBatch
<1>2. LastEntry(B).term \in Nat
  BY <1>1 DEF Entries
<1>3. log \in [Nodes -> SUBSET Entries] /\ logTerm \in [Nodes -> Nat]
  BY DEF Types
<1>4. logTerm' \in [Nodes -> Nat]
  BY <1>2, <1>3 DEF LogUpdate
<1> QED
  BY <1>3, <1>4 DEF LogUpdate

\* What Skip adds.
LEMMA SkipAdds ==
    ASSUME NEW M, NEW B
    PROVE  /\ skipped \subseteq Skip(M, B)
           /\ \A m \in M, e \in B : e \in log[m] \/ <<m, e>> \in Skip(M, B)
  BY DEF Skip

\* A task is put in its place, or after the others.
LEMMA PutFacts ==
    ASSUME Types, NEW k \in 1..(Len(tasks) + 1), NEW t \in TaskSet, tasks' = Put(k, t)
    PROVE  /\ tasks' \in Seq(TaskSet) /\ tasks'[k] = t
           /\ k \in 1..Len(tasks') /\ 1..Len(tasks) \subseteq 1..Len(tasks')
           /\ \A l \in 1..Len(tasks') : l = k \/ (l \in 1..Len(tasks) /\ tasks'[l] = tasks[l])
           /\ \A l \in 1..Len(tasks) : l = k \/ tasks'[l] = tasks[l]
<1>1. tasks \in Seq(TaskSet) /\ Len(tasks) \in Nat
  BY DEF Types
<1>2. CASE k \in 1..Len(tasks)
  <2>1. tasks' = [tasks EXCEPT ![k] = t]
    BY <1>1, <1>2 DEF Put
  <2>2. tasks' \in Seq(TaskSet) /\ Len(tasks') = Len(tasks)
        /\ tasks'[k] = t /\ \A l \in 1..Len(tasks) : l # k => tasks'[l] = tasks[l]
    BY <1>1, <1>2, <2>1, ExceptSeq
  <2> QED
    BY <1>1, <1>2, <2>2
<1>3. CASE k = Len(tasks) + 1
  <2>1. tasks' = Append(tasks, t)
    BY <1>1, <1>3 DEF Put
  <2>2. tasks' \in Seq(TaskSet) /\ Len(tasks') = Len(tasks) + 1
        /\ tasks'[Len(tasks) + 1] = t /\ \A l \in 1..Len(tasks) : tasks'[l] = tasks[l]
    BY <1>1, <2>1, AppendProperties
  <2> QED
    BY <1>1, <1>3, <2>2
<1> QED
  BY <1>1, <1>2, <1>3

\* A new task.
LEMMA TaskFields ==
    ASSUME NEW kind \in {"submission", "election"}, NEW pc \in {"created", "shipping", "done"},
           NEW B \in SUBSET Entries
    PROVE  /\ Task(kind, pc, B) \in TaskSet
           /\ Task(kind, pc, B).kind = kind /\ Task(kind, pc, B).pc = pc /\ Task(kind, pc, B).batch = B
           /\ Task(kind, pc, B).pending = {} /\ Task(kind, pc, B).sent = {} /\ Task(kind, pc, B).answered = {}
           /\ \A m \in Members : Task(kind, pc, B).tries[m] = 0
  BY DEF Task, TaskSet

(* What steps have in common, whatever they are *)

\* A submission is created.
Created ==
    /\ \E B \in SUBSET Entries : B # {} /\ Drawn(B)' /\ tasks' = Append(tasks, Task("submission", "created", B))
    /\ ids' = ids + 1 /\ net' \subseteq net
    /\ UNCHANGED <<term, leads, logVars, healthy, skipped, overtaken>>

\* A submission starts.
Submitted ==
    /\ \E k \in 1..(Len(tasks) + 1), B \in SUBSET Entries :
        /\ B # {} /\ Drawn(B)' /\ (k <= Len(tasks) => tasks[k].pc = "created")
        /\ SubmitLogsToMembers(k, B)
    /\ ids' \in {ids, ids + 1} /\ net' = net

\* A task ships, gives up or ends.
Edited ==
    \E k \in 1..Len(tasks) : FinishSubmission(k) \/ \E m \in Members : Ship(k, m) \/ CancelUpdate(k, m)

\* A member receives an update.
Received == \E r \in net : ReceiveHigherTerm(r) \/ ReceiveLogUpdate(r)

\* Neither the logs nor the tasks change.
Aside ==
    /\ UNCHANGED <<logVars, tasks, skipped, overtaken>>
    /\ term' \in [Nodes -> Nat] /\ leads' \in BOOLEAN /\ healthy' \subseteq Members
    /\ ids' \in {ids, ids + 1}
    /\ \A r \in net' : r \in net \/ (r.type # "update" /\ r.batch # {} /\ Drawn(r.batch)')

\* Every step is of one of these kinds.
LEMMA StepKinds ==
    ASSUME Types, LogInv, TaskInv, NetInv, [Next]_vars
    PROVE  Created \/ Submitted \/ RunElection \/ (\E n \in Nodes : FollowLeader(n)) \/ Edited \/ Received \/ Aside
<1> USE DEF logVars
<1>0. /\ Self \in Nodes /\ Members \subseteq Nodes /\ ids \in Nat /\ tasks \in Seq(TaskSet) /\ Len(tasks) \in Nat
      /\ DOMAIN tasks = 1..Len(tasks) /\ \A n \in Nodes : term[n] \in Nat
  BY DEF Nodes, Types
<1>1. ASSUME NEW n \in Nodes, ids' = ids + 1
      PROVE  /\ {Entry(ids', Self, term[n])} \in SUBSET Entries /\ {Entry(ids', Self, term[n])} # {}
             /\ Entry(ids', Self, term[n]).id = ids'
  BY <1>0, <1>1, EntryType
<1>2. ASSUME ids' = ids + 1, NEW B \in SUBSET Entries, \A e \in B : (e.id >= 1 /\ e.id <= ids) \/ e.id = ids + 1
      PROVE  Drawn(B)'
  BY <1>0, <1>2 DEF Drawn, Entries
<1>3. CASE RunRaftMonitor
  <2>1. PICK B : B = {Entry(ids', Self, term[Self])}
    OBVIOUS
  <2>2. B \in SUBSET Entries /\ B # {} /\ Drawn(B)'
    BY <1>0, <1>1, <1>2, <1>3, <2>1 DEF RunRaftMonitor, MayDraw
  <2> QED
    BY <1>3, <2>1, <2>2 DEF RunRaftMonitor, MayDraw, Created
<1>4. CASE PushEntries
  <2>1. PICK B : B = {Entry(ids', Self, term[Self])}
    OBVIOUS
  <2>2. B \in SUBSET Entries /\ B # {} /\ Drawn(B)'
    BY <1>0, <1>1, <1>2, <1>4, <2>1 DEF PushEntries, MayDraw
  <2>3. SubmitLogsToMembers(Len(tasks) + 1, B) /\ ids' = ids + 1 /\ net' = net
    BY <1>4, <2>1 DEF PushEntries, MayDraw
  <2>4. Len(tasks) + 1 \in 1..(Len(tasks) + 1) /\ ~(Len(tasks) + 1 <= Len(tasks))
    BY <1>0
  <2> QED
    BY <2>2, <2>3, <2>4, Zenon DEF Submitted
<1>5. ASSUME NEW r \in net, ReceiveForwardedEntries(r)
      PROVE  Created
  <2>1. PICK B : B = r.batch \cup {Entry(ids', Self, term[Self])}
    OBVIOUS
  <2>2. B \in SUBSET Entries /\ B # {} /\ Drawn(B)'
    <3>1. Drawn(r.batch) /\ ids' = ids + 1
      BY <1>5 DEF NetInv, ReceiveForwardedEntries, MayDraw
    <3>2. B \in SUBSET Entries /\ B # {} /\ \A e \in B : (e.id >= 1 /\ e.id <= ids) \/ e.id = ids + 1
      BY <1>0, <1>1, <2>1, <3>1 DEF Drawn
    <3> QED
      BY <1>2, <3>1, <3>2
  <2> QED
    BY <1>5, <2>1, <2>2 DEF ReceiveForwardedEntries, MayDraw, Created
<1>6. ASSUME NEW k \in 1..Len(tasks), StartSubmission(k)
      PROVE  Submitted
  <2>1. Good(tasks[k]) /\ tasks[k].pc = "created" /\ SubmitLogsToMembers(k, tasks[k].batch)
        /\ ids' = ids /\ net' = net
    BY <1>6 DEF TaskInv, StartSubmission
  <2>2. PICK B : B = tasks[k].batch
    OBVIOUS
  <2>3. Drawn(B) /\ B # {}
    BY <2>1, <2>2 DEF Good
  <2>4. B \in SUBSET Entries /\ Drawn(B)'
    BY <2>1, <2>3 DEF Drawn
  <2>5. k \in 1..(Len(tasks) + 1)
    BY <1>0
  <2> QED
    BY <2>1, <2>2, <2>3, <2>4, <2>5 DEF Submitted
<1>7. ASSUME NEW m \in Members, ForwardEntries(m)
      PROVE  Aside
  <2>1. PICK B : B = {Entry(ids', Self, term[m])}
    OBVIOUS
  <2>2. B \in SUBSET Entries /\ B # {} /\ Drawn(B)'
    BY <1>0, <1>1, <1>2, <1>7, <2>1 DEF ForwardEntries, MayDraw
  <2>3. net' = net \cup {[type |-> "forward", batch |-> B]}
    BY <1>7, <2>1 DEF ForwardEntries
  <2>4. \A r \in net' : r \in net \/ (r.type # "update" /\ r.batch # {} /\ Drawn(r.batch)')
    BY <2>2, <2>3
  <2> QED
    BY <1>7, <2>4 DEF ForwardEntries, MayDraw, Types, Aside
<1>8. ASSUME \/ \E m \in Members : CheckHealth(m)
             \/ \E n \in Nodes : HearOfLeader(n)
             \/ \E r \in net : DropForwardedEntries(r) \/ Lose(r)
             \/ UNCHANGED vars
      PROVE  Aside
  <2>1. term' \in [Nodes -> Nat] /\ leads' \in BOOLEAN /\ healthy' \subseteq Members
    <3>1. ASSUME NEW n \in Nodes, HearOfLeader(n)
          PROVE  term' \in [Nodes -> Nat] /\ leads' \in BOOLEAN /\ healthy' = healthy
      BY <3>1 DEF HearOfLeader, Types
    <3> QED
      BY <1>8, <3>1 DEF CheckHealth, DropForwardedEntries, Lose, vars, Types
  <2>2. UNCHANGED <<logVars, tasks, skipped, overtaken, ids>> /\ net' \subseteq net
    BY <1>8 DEF CheckHealth, HearOfLeader, DropForwardedEntries, Lose, vars
  <2> QED
    BY <2>1, <2>2 DEF Aside
<1>9. CASE \E k \in 1..Len(tasks) : FinishSubmission(k) \/ \E m \in Members : Ship(k, m) \/ CancelUpdate(k, m)
  BY <1>9 DEF Edited
<1>10. CASE Received
  BY <1>10
<1>11. CASE \E k \in DOMAIN tasks : Step(k)
  BY <1>0, <1>6, <1>9, <1>11 DEF Step
<1>12. CASE \E k \in DOMAIN tasks, m \in Members : Ship(k, m) \/ CancelUpdate(k, m)
  BY <1>0, <1>9, <1>12
<1> QED
  BY <1>3, <1>4, <1>5, <1>7, <1>8, <1>10, <1>11, <1>12, Zenon DEF Next, Received

\* Nothing that was drawn, logged or offered is taken back.
Grows ==
    /\ ids' \in Nat /\ ids <= ids'
    /\ \A n \in Nodes : log[n] \subseteq log'[n]
    /\ \A m \in Members, e \in Entries : Offered(m, e) => Offered(m, e)'
    /\ overtaken \subseteq overtaken'

\* The latest entries go to the healthy members; the others are passed over.
Ships(k, kind, latest) ==
    /\ tasks' = Put(k, [Task(kind, "shipping", latest) EXCEPT !.pending = healthy])
    /\ skipped' = Skip(Members \ healthy, latest)

\* A step that logs a batch at the leader and ships the latest entries.
LEMMA ShipsLatest ==
    ASSUME Types, Submitted \/ RunElection
    PROVE  \E k \in 1..(Len(tasks) + 1), B \in SUBSET Entries, kind \in {"submission", "election"} :
             /\ B # {} /\ Drawn(B)' /\ (k <= Len(tasks) => tasks[k].pc = "created")
             /\ LogUpdate(Self, B)
             /\ Ships(k, kind, Latest(log'[Self], commit))
             /\ ids' \in {ids, ids + 1} /\ net' = net
             /\ commit' = commit /\ healthy' = healthy
             /\ term' \in [Nodes -> Nat] /\ leads' \in BOOLEAN
             /\ \/ kind = "submission" /\ overtaken' = overtaken \cup {e \in B : e.id < commit}
                \/ /\ kind = "election" /\ overtaken' = overtaken
                   /\ k = Len(tasks) + 1 /\ ids' = ids + 1 /\ \A e \in B : e.id = ids + 1
<1>0. Self \in Nodes /\ ids \in Nat /\ term \in [Nodes -> Nat] /\ Len(tasks) \in Nat /\ leads \in BOOLEAN
  BY DEF Nodes, Types
<1>1. CASE Submitted
  <2>1. PICK k \in 1..(Len(tasks) + 1), B \in SUBSET Entries :
          /\ B # {} /\ Drawn(B)' /\ (k <= Len(tasks) => tasks[k].pc = "created")
          /\ SubmitLogsToMembers(k, B)
    BY <1>1 DEF Submitted
  <2>2. /\ LogUpdate(Self, B) /\ Ships(k, "submission", Latest(log'[Self], commit))
        /\ overtaken' = overtaken \cup {e \in B : e.id < commit}
        /\ UNCHANGED <<term, leads, commit, healthy>>
    BY <2>1 DEF SubmitLogsToMembers, Ships
  <2> QED
    BY <1>0, <1>1, <2>1, <2>2 DEF Submitted
<1>2. CASE RunElection
  <2>1. ids' = ids + 1 /\ term' = [term EXCEPT ![Self] = @ + 1] /\ leads' = TRUE
        /\ UNCHANGED <<commit, healthy, net, overtaken>>
    BY <1>2 DEF RunElection, MayDraw
  <2>2. term' \in [Nodes -> Nat] /\ term'[Self] \in Nat /\ ids' \in Nat
    BY <1>0, <2>1
  <2>3. PICK B : B = {Entry(ids', Self, term'[Self])}
    OBVIOUS
  <2>4. B \in SUBSET Entries /\ B # {} /\ \A e \in B : e.id = ids'
    BY <2>2, <2>3, EntryType
  <2>5. Drawn(B)'
    BY <1>0, <2>1, <2>4 DEF Drawn
  <2>6. LogUpdate(Self, B)
    BY <1>2, <2>3 DEF RunElection
  <2>7. Ships(Len(tasks) + 1, "election", Latest(log'[Self], commit))
    <3>1. Len(tasks) + 1 > Len(tasks)
      BY <1>0
    <3> QED
      BY <1>2, <3>1 DEF RunElection, Ships, Put
  <2>8. Len(tasks) + 1 \in 1..(Len(tasks) + 1) /\ ~(Len(tasks) + 1 <= Len(tasks))
    BY <1>0
  <2>9. ids' \in {ids, ids + 1} /\ leads' \in BOOLEAN
    BY <2>1
  <2>10. \A e \in B : e.id = ids + 1
    BY <2>1, <2>4
  <2> QED
    BY <2>1, <2>2, <2>4, <2>5, <2>6, <2>7, <2>8, <2>9, <2>10, Zenon
<1> QED
  BY <1>1, <1>2

\* What a member receives goes to its own log.
LEMMA ReceivedFacts ==
    ASSUME Types, LogInv, TaskInv, NetInv, NEW r \in net, ReceiveHigherTerm(r) \/ ReceiveLogUpdate(r)
    PROVE  /\ log' \in [Nodes -> SUBSET Entries] /\ logTerm' \in [Nodes -> Nat] /\ term' \in [Nodes -> Nat]
           /\ \A n \in Nodes : log'[n] = log[n] \/ (n = r.to /\ log'[n] = log[n] \cup r.batch)
           /\ \A m \in Members, e \in Entries : Offered(m, e) => Offered(m, e)'
           /\ \A e \in r.batch : Offered(r.to, e)'
           /\ UNCHANGED <<leads, commit, healthy, ids, overtaken>> /\ net' \subseteq net
           /\ tasks' = Replied(r.task, r.to)
<1>1. /\ r.type = "update" /\ Drawn(r.batch) /\ r.batch # {} /\ r.to \in Members /\ r.term \in Nat
      /\ r.batch \in SUBSET Entries /\ ids \in Nat /\ \A e \in r.batch : e.id <= ids
  BY DEF NetInv, ReceiveHigherTerm, ReceiveLogUpdate, Types, Drawn
<1>2. r.to \in Nodes
  BY <1>1 DEF Nodes
<1>3. CASE ReceiveHigherTerm(r)
  <2>1. UNCHANGED <<leads, log, logTerm, commit, healthy, ids, overtaken>> /\ net' \subseteq net
        /\ tasks' = Replied(r.task, r.to) /\ term' = [term EXCEPT ![r.to] = r.term]
        /\ skipped' = Skip({r.to}, r.batch)
    BY <1>3 DEF ReceiveHigherTerm, logVars
  <2>2. \A m \in Members, e \in Entries : Offered(m, e) => Offered(m, e)'
    BY <2>1, SkipAdds DEF Offered
  <2>3. \A e \in r.batch : Offered(r.to, e)'
    BY <2>1, SkipAdds DEF Offered
  <2> QED
    BY <1>1, <1>2, <2>1, <2>2, <2>3 DEF Types
<1>4. CASE ReceiveLogUpdate(r)
  <2>1. UNCHANGED <<term, leads, commit, healthy, ids, overtaken>> /\ net' \subseteq net
        /\ tasks' = Replied(r.task, r.to) /\ LogUpdate(r.to, r.batch)
        /\ skipped' = IF Accepts(r.to, r.batch) THEN skipped \ ({r.to} \X r.batch)
                      ELSE Skip({r.to}, r.batch)
    BY <1>4 DEF ReceiveLogUpdate
  <2>2. /\ log' \in [Nodes -> SUBSET Entries] /\ logTerm' \in [Nodes -> Nat]
        /\ \A p \in Nodes : p # r.to => log'[p] = log[p]
        /\ Accepts(r.to, r.batch) => log'[r.to] = log[r.to] \cup r.batch
        /\ ~Accepts(r.to, r.batch) => log'[r.to] = log[r.to]
    BY <1>1, <1>2, <2>1, LogUpdated
  <2>3. \A m \in Members : m \in Nodes
    BY DEF Nodes
  <2>4. CASE Accepts(r.to, r.batch)
    <3>1. \A m \in Members, e \in Entries : Offered(m, e) => Offered(m, e)'
      BY <2>1, <2>2, <2>3, <2>4 DEF Offered
    <3>2. \A e \in r.batch : Offered(r.to, e)'
      BY <2>2, <2>4 DEF Offered
    <3> QED
      BY <2>1, <2>2, <2>4, <3>1, <3>2 DEF Types
  <2>5. CASE ~Accepts(r.to, r.batch)
    <3>0. \A n \in Nodes : log'[n] = log[n]
      BY <2>2, <2>5
    <3>1. \A m \in Members, e \in Entries : Offered(m, e) => Offered(m, e)'
      BY <2>1, <2>3, <2>5, <3>0, SkipAdds DEF Offered
    <3>2. \A e \in r.batch : Offered(r.to, e)'
      BY <1>2, <2>1, <2>5, <3>0, SkipAdds DEF Offered
    <3> QED
      BY <2>1, <2>2, <3>0, <3>1, <3>2 DEF Types
  <2> QED
    BY <2>4, <2>5
<1> QED
  BY <1>3, <1>4

\* A task that ships, gives up or ends leaves the logs alone.
LEMMA EditedFacts ==
    ASSUME Types, Edited
    PROVE  /\ UNCHANGED <<term, leads, log, logTerm, ids, overtaken>>
           /\ healthy' \subseteq Members /\ skipped \subseteq skipped'
           /\ commit' = commit \/ commit' = LastEntry(log[Self]).id
<1>1. PICK k \in 1..Len(tasks) : FinishSubmission(k) \/ \E m \in Members : Ship(k, m) \/ CancelUpdate(k, m)
  BY DEF Edited
<1>2. CASE FinishSubmission(k)
  BY <1>2 DEF FinishSubmission, Types
<1>3. ASSUME NEW m \in Members, SubmitLogUpdate(k, m) \/ Answered(k, m) \/ Retry(k, m)
      PROVE  UNCHANGED <<term, leads, log, logTerm, ids, overtaken, commit, skipped>> /\ healthy' \subseteq Members
  BY <1>3 DEF SubmitLogUpdate, Answered, Retry, logVars, Types
<1>4. ASSUME NEW m \in Members, GiveUp(k, m) \/ CancelUpdate(k, m)
      PROVE  /\ UNCHANGED <<term, leads, log, logTerm, ids, overtaken, commit>> /\ healthy' \subseteq Members
             /\ skipped \subseteq skipped'
  BY <1>4, SkipAdds DEF GiveUp, CancelUpdate, logVars, Types
<1> QED
  BY <1>1, <1>2, <1>3, <1>4 DEF Ship

\* Every step keeps the types of the logs and takes nothing back.
LEMMA LogStep ==
    ASSUME Types, LogInv, TaskInv, NetInv, [Next]_vars
    PROVE  /\ Grows /\ LogInv'
           /\ term' \in [Nodes -> Nat] /\ leads' \in BOOLEAN /\ healthy' \subseteq Members
           /\ log' \in [Nodes -> SUBSET Entries] /\ logTerm' \in [Nodes -> Nat]
           /\ commit' \in Nat /\ ids' \in Nat
<1>0. /\ Self \in Nodes /\ Members \subseteq Nodes /\ ids \in Nat /\ commit \in Nat
      /\ log \in [Nodes -> SUBSET Entries]
      /\ Self \notin Members /\ commit <= ids /\ \A n \in Nodes : Drawn(log[n])
  BY ShippingAssumption DEF Nodes, Types, LogInv
<1>1. PICK last \in log[Self] : last.id >= commit
  BY DEF LogInv
<1>2. ASSUME NEW n \in Nodes, NEW B \in SUBSET Entries, B # {}, Drawn(B)', LogUpdate(n, B),
             ids' \in {ids, ids + 1}, commit' = commit
      PROVE  /\ log' \in [Nodes -> SUBSET Entries] /\ logTerm' \in [Nodes -> Nat] /\ ids' \in Nat
             /\ LogInv' /\ \A p \in Nodes : log[p] \subseteq log'[p] /\ (p # n => log'[p] = log[p])
  <2>1. ids' \in Nat /\ ids <= ids' /\ \A e \in B : e.id <= ids'
    BY <1>0, <1>2 DEF Drawn
  <2>2. /\ log' \in [Nodes -> SUBSET Entries] /\ logTerm' \in [Nodes -> Nat]
        /\ \A p \in Nodes : p # n => log'[p] = log[p]
        /\ log'[n] = log[n] \/ log'[n] = log[n] \cup B
    BY <1>2, <2>1, LogUpdated
  <2>3. ASSUME NEW S, Drawn(S) PROVE Drawn(S)'
    BY <1>0, <2>1, <2>3 DEF Drawn, Entries
  <2>4. \A p \in Nodes : Drawn(log[p])'
    <3>1. ASSUME NEW p \in Nodes, NEW S, S = log[p] PROVE Drawn(S)'
      BY <1>0, <2>3, <3>1
    <3>2. ASSUME NEW p \in Nodes PROVE log'[p] \subseteq Entries /\ \A e \in log'[p] : e.id >= 1 /\ e.id <= ids'
      <4>1. PICK S : S = log[p]
        OBVIOUS
      <4>2. Drawn(S)'
        BY <3>1, <4>1
      <4>3. log'[p] = S \/ log'[p] = S \cup B
        BY <2>2, <4>1
      <4> QED
        BY <1>2, <4>2, <4>3 DEF Drawn
    <3> QED
      BY <3>2 DEF Drawn
  <2>5. last \in log'[Self] /\ last.id >= commit' /\ commit' <= ids'
    BY <1>0, <1>1, <1>2, <2>1, <2>2
  <2>6. LogInv'
    BY <2>4, <2>5 DEF LogInv
  <2> QED
    BY <2>1, <2>2, <2>6
<1>3. ASSUME UNCHANGED log, ids' \in {ids, ids + 1}, commit' = commit
      PROVE  LogInv' /\ ids' \in Nat
  BY <1>0, <1>3 DEF LogInv, Drawn, Entries
<1>4. CASE Submitted \/ RunElection
  <2>1. PICK k \in 1..(Len(tasks) + 1), B \in SUBSET Entries, kind \in {"submission", "election"} :
             /\ B # {} /\ Drawn(B)' /\ LogUpdate(Self, B)
             /\ Ships(k, kind, Latest(log'[Self], commit))
             /\ ids' \in {ids, ids + 1} /\ commit' = commit /\ healthy' = healthy
             /\ term' \in [Nodes -> Nat] /\ leads' \in BOOLEAN
             /\ overtaken \subseteq overtaken'
    BY <1>4, ShipsLatest
  <2>2. /\ log' \in [Nodes -> SUBSET Entries] /\ logTerm' \in [Nodes -> Nat] /\ ids' \in Nat
        /\ LogInv' /\ \A p \in Nodes : log[p] \subseteq log'[p] /\ (p # Self => log'[p] = log[p])
    BY <1>0, <1>2, <2>1
  <2>3. skipped \subseteq skipped'
    BY <2>1, SkipAdds DEF Ships
  <2>4. Grows
    BY <1>0, <2>1, <2>2, <2>3 DEF Grows, Offered
  <2> QED
    BY <1>0, <2>1, <2>2, <2>4 DEF Types
<1>5. ASSUME NEW n \in Nodes, FollowLeader(n)
      PROVE  /\ Grows /\ LogInv'
             /\ term' \in [Nodes -> Nat] /\ leads' \in BOOLEAN /\ healthy' \subseteq Members
             /\ log' \in [Nodes -> SUBSET Entries] /\ logTerm' \in [Nodes -> Nat]
             /\ commit' \in Nat /\ ids' \in Nat
  <2>1. ids' = ids + 1 /\ UNCHANGED <<term, leads, commit, healthy, skipped, overtaken>>
    BY <1>5 DEF FollowLeader, MayDraw
  <2>2. PICK B : B = {Entry(ids', Other, term[n])}
    OBVIOUS
  <2>3. B \in SUBSET Entries /\ B # {} /\ \A e \in B : e.id = ids + 1
    <3>1. term[n] \in Nat /\ ids' \in Nat
      BY <1>0, <2>1 DEF Types
    <3> QED
      BY <2>1, <2>2, <3>1, EntryType
  <2>4. Drawn(B)'
    BY <1>0, <2>1, <2>3 DEF Drawn
  <2>5. LogUpdate(n, B)
    BY <1>5, <2>2 DEF FollowLeader
  <2>6. /\ log' \in [Nodes -> SUBSET Entries] /\ logTerm' \in [Nodes -> Nat] /\ ids' \in Nat
        /\ LogInv' /\ \A p \in Nodes : log[p] \subseteq log'[p]
    BY <1>2, <2>1, <2>3, <2>4, <2>5
  <2>7. Grows
    BY <1>0, <2>1, <2>6 DEF Grows, Offered
  <2> QED
    BY <2>1, <2>6, <2>7 DEF Types
<1>6. CASE Created \/ Aside
  <2>1. UNCHANGED <<logVars, skipped, overtaken>> /\ ids' \in {ids, ids + 1}
        /\ term' \in [Nodes -> Nat] /\ leads' \in BOOLEAN /\ healthy' \subseteq Members
    BY <1>6 DEF Created, Aside, Types
  <2>2. LogInv' /\ ids' \in Nat
    BY <1>3, <2>1 DEF logVars
  <2>3. Grows
    BY <1>0, <2>1, <2>2 DEF Grows, Offered, logVars
  <2> QED
    BY <2>1, <2>2, <2>3 DEF logVars, Types
<1>7. CASE Edited
  <2>1. /\ UNCHANGED <<term, leads, log, logTerm, ids, overtaken>>
        /\ healthy' \subseteq Members /\ skipped \subseteq skipped'
        /\ commit' = commit \/ commit' = LastEntry(log[Self]).id
    BY <1>7, EditedFacts
  <2>2. LastEntry(log[Self]) \in log[Self]
    <3>1. log[Self] \in SUBSET Entries /\ log[Self] # {} /\ \A e \in log[Self] : e.id <= ids
      BY <1>0, <1>1 DEF Drawn
    <3> QED
      BY <1>0, <3>1, LastOfBatch
  <2>3. LastEntry(log[Self]).id \in Nat /\ LastEntry(log[Self]).id <= ids
    BY <1>0, <2>2 DEF Drawn, Entries
  <2>4. commit' \in Nat /\ commit' <= ids /\ \E e \in log[Self] : e.id >= commit'
    BY <1>0, <1>1, <2>1, <2>2, <2>3
  <2>5. LogInv'
    BY <1>0, <2>1, <2>4 DEF LogInv, Drawn
  <2>6. Grows
    BY <1>0, <2>1 DEF Grows, Offered
  <2> QED
    BY <1>0, <2>1, <2>4, <2>5, <2>6 DEF Types
<1>8. CASE Received
  <2>1. PICK r \in net : ReceiveHigherTerm(r) \/ ReceiveLogUpdate(r)
    BY <1>8 DEF Received
  <2>2. Drawn(r.batch) /\ r.to \in Members
    BY <2>1 DEF NetInv, ReceiveHigherTerm, ReceiveLogUpdate
  <2>3. /\ log' \in [Nodes -> SUBSET Entries] /\ logTerm' \in [Nodes -> Nat] /\ term' \in [Nodes -> Nat]
        /\ \A n \in Nodes : log'[n] = log[n] \/ (n = r.to /\ log'[n] = log[n] \cup r.batch)
        /\ \A m \in Members, e \in Entries : Offered(m, e) => Offered(m, e)'
        /\ UNCHANGED <<leads, commit, healthy, ids, overtaken>>
    BY <2>1, ReceivedFacts
  <2>4. Grows
    BY <1>0, <2>3 DEF Grows
  <2>5. LogInv'
    <3>1. \A n \in Nodes : log'[n] \subseteq Entries /\ \A e \in log'[n] : e.id >= 1 /\ e.id <= ids
      BY <1>0, <2>2, <2>3 DEF Drawn
    <3> QED
      BY <1>0, <1>1, <2>3, <3>1 DEF LogInv, Drawn
  <2> QED
    BY <1>0, <2>3, <2>4, <2>5 DEF Types
<1> QED
  BY <1>4, <1>5, <1>6, <1>7, <1>8, StepKinds

\* What may become of a task: what it had to send it still has to send, or the
\* member is done with it, and requests in flight still carry what it ships.
HandsOver(s, t) ==
    /\ \A m \in Members, e \in Entries : Carries(s, m, e) => Carries(t, m, e) \/ Offered(m, e)'
    /\ \A B : Delivers(B, s) => Delivers(B, t)

\* One task is put in its place and is as it should be.
Places(k, t) ==
    /\ tasks' = Put(k, t) /\ Good(t)'
    /\ k <= Len(tasks) => HandsOver(tasks[k], t)

TaskEffect ==
    tasks' = tasks \/ \E k \in 1..(Len(tasks) + 1), t \in TaskSet : Places(k, t)

\* A task that is left alone stays as it should be.
LEMMA GoodStays ==
    ASSUME Grows, ids \in Nat, NEW t \in TaskSet, Good(t)
    PROVE  Good(t)'
<1>1. t.batch \subseteq Entries /\ t.answered \subseteq Members
  BY DEF TaskSet
<1>2. Drawn(t.batch)'
  BY <1>1 DEF Good, Drawn, Grows, Entries
<1>3. t.pc = "shipping" => \A m \in t.answered, e \in t.batch : Offered(m, e)'
  BY <1>1 DEF Good, Grows
<1> QED
  BY <1>2, <1>3 DEF Good

\* Entries that are shipped go to the healthy members and are skipped for the
\* others.
LEMMA AllShipped ==
    ASSUME Types, LogInv, TaskInv, NetInv, [Next]_vars, Submitted \/ RunElection
    PROVE  \E k \in 1..(Len(tasks) + 1), t \in TaskSet :
             /\ Places(k, t) /\ t.pc = "shipping" /\ t.batch = Latest(log'[Self], commit)
             /\ k > Len(tasks) \/ tasks[k].pc = "created"
             /\ t.kind = "election" => k > Len(tasks)
             /\ \A m \in Members, e \in t.batch : Carries(t, m, e) \/ Offered(m, e)'
             /\ \A e \in log'[Self] \ overtaken' : e \in log[Self] \/ e \in t.batch
             /\ commit' = commit
<1>0. /\ Grows /\ LogInv' /\ log' \in [Nodes -> SUBSET Entries]
      /\ Self \in Nodes /\ ids \in Nat /\ commit \in Nat /\ healthy \in SUBSET Members /\ Len(tasks) \in Nat
      /\ log \in [Nodes -> SUBSET Entries] /\ commit <= ids
      /\ \A m \in Members : m \in Nodes /\ m # Self
  BY LogStep, ShippingAssumption DEF Nodes, Types, LogInv
<1>1. PICK k \in 1..(Len(tasks) + 1), B \in SUBSET Entries, kind \in {"submission", "election"} :
         /\ B # {} /\ Drawn(B)' /\ (k <= Len(tasks) => tasks[k].pc = "created")
         /\ LogUpdate(Self, B)
         /\ Ships(k, kind, Latest(log'[Self], commit))
         /\ commit' = commit
         /\ \/ kind = "submission" /\ overtaken' = overtaken \cup {e \in B : e.id < commit}
            \/ kind = "election" /\ k = Len(tasks) + 1 /\ \A e \in B : e.id = ids + 1
  BY ShipsLatest
<1>2. PICK L : L = Latest(log'[Self], commit)
  OBVIOUS
<1>3. L \in SUBSET Entries /\ Drawn(L)' /\ L # {} /\ \A e \in log'[Self] : e.id >= commit => e \in L
  <2>1. Drawn(log[Self])' /\ \E e \in log'[Self] : e.id >= commit
    BY <1>0, <1>1 DEF LogInv
  <2> QED
    BY <1>0, <1>2, <2>1 DEF Latest, Drawn
<1>4. PICK t : t = [Task(kind, "shipping", L) EXCEPT !.pending = healthy]
  OBVIOUS
<1>5. /\ t \in TaskSet /\ t.kind = kind /\ t.pc = "shipping" /\ t.batch = L /\ t.pending = healthy
      /\ t.sent = {} /\ t.answered = {} /\ \A m \in Members : t.tries[m] = 0
  BY <1>0, <1>3, <1>4 DEF Task, TaskSet
<1>6. tasks' = Put(k, t) /\ skipped' = Skip(Members \ healthy, L)
  BY <1>1, <1>2, <1>4 DEF Ships
<1>7. Good(t)'
  <2>1. \A m \in Members : t.tries[m] <= PollRetries /\ t.tries[m] < PollRetries
    BY <1>5, ShippingAssumption
  <2> QED
    BY <1>3, <1>5, <2>1 DEF Good
<1>8. k <= Len(tasks) => HandsOver(tasks[k], t)
  BY <1>1 DEF HandsOver, Carries, Delivers
<1>9. /\ \A p \in Nodes : p # Self => log'[p] = log[p]
      /\ log'[Self] = log[Self] \/ log'[Self] = log[Self] \cup B
  <2>1. ids' \in Nat /\ \A e \in B : e.id <= ids'
    BY <1>0, <1>1 DEF Grows, Drawn
  <2> QED
    BY <1>0, <1>1, <2>1, LogUpdated
<1>10. \A m \in Members, e \in L : Carries(t, m, e) \/ Offered(m, e)'
  <2>1. ASSUME NEW m \in Members, NEW e \in L, m \notin healthy PROVE Offered(m, e)'
    <3>1. e \in log[m] \/ <<m, e>> \in skipped'
      BY <1>6, <2>1, SkipAdds
    <3> QED
      BY <1>0, <1>9, <3>1 DEF Offered
  <2> QED
    BY <1>5, <2>1 DEF Carries
<1>11. \A e \in log'[Self] \ overtaken' : e \in log[Self] \/ e \in L
  <2>1. ASSUME NEW e \in log'[Self] \ overtaken', e \notin log[Self] PROVE e.id >= commit
    <3>1. e \in B /\ e.id \in Nat
      BY <1>9, <2>1 DEF Entries
    <3> QED
      BY <1>0, <1>1, <2>1, <3>1
  <2> QED
    BY <1>3, <2>1
<1>12. Places(k, t)
  BY <1>6, <1>7, <1>8 DEF Places
<1>13. /\ k > Len(tasks) \/ tasks[k].pc = "created"
       /\ t.kind = "election" => k > Len(tasks)
  BY <1>0, <1>1, <1>5
<1> QED
  BY <1>1, <1>2, <1>5, <1>10, <1>11, <1>12, <1>13

\* A member that answers was offered all that its task ships.
LEMMA RepliedEffect ==
    ASSUME Types, LogInv, TaskInv, NetInv, [Next]_vars, Received
    PROVE  \/ tasks' = tasks
           \/ \E k \in 1..Len(tasks), t \in TaskSet :
                Places(k, t) /\ t.kind = tasks[k].kind /\ t.pc = tasks[k].pc
<1>1. PICK r \in net : ReceiveHigherTerm(r) \/ ReceiveLogUpdate(r)
  BY DEF Received
<1>2. r.to \in Members /\ r.task \in 1..Len(tasks) /\ Delivers(r.batch, tasks[r.task])
  BY <1>1 DEF NetInv, ReceiveHigherTerm, ReceiveLogUpdate
<1>3. tasks' = Replied(r.task, r.to) /\ \A e \in r.batch : Offered(r.to, e)'
  BY <1>1, ReceivedFacts
<1>4. CASE tasks[r.task].pc # "shipping"
  BY <1>3, <1>4 DEF Replied
<1>5. CASE tasks[r.task].pc = "shipping"
  <2>1. PICK k \in 1..Len(tasks) : k = r.task
    BY <1>2
  <2>2. PICK s : s = tasks[k]
    OBVIOUS
  <2>3. s \in TaskSet /\ Good(s) /\ Len(tasks) \in Nat /\ ids \in Nat /\ Grows
    BY <2>1, <2>2, ElementOfSeq, LogStep DEF Types, TaskInv
  <2>4. PICK t : t = [s EXCEPT !.answered = s.answered \cup {r.to}]
    OBVIOUS
  <2>5. /\ t \in TaskSet /\ t.kind = s.kind /\ t.pc = s.pc /\ t.batch = s.batch /\ t.pending = s.pending
        /\ t.sent = s.sent /\ t.tries = s.tries /\ t.answered = s.answered \cup {r.to}
    BY <1>2, <2>3, <2>4 DEF TaskSet
  <2>6. tasks' = [tasks EXCEPT ![k] = t]
    BY <1>3, <1>5, <2>1, <2>2, <2>4 DEF Replied
  <2>7. tasks' = Put(k, t)
    BY <2>3, <2>6 DEF Put
  <2>8. Good(s)'
    BY <2>3, GoodStays
  <2>9. s.batch = r.batch
    BY <1>2, <1>5, <2>1, <2>2 DEF Delivers
  <2>10. Good(t)'
    BY <1>3, <2>5, <2>8, <2>9 DEF Good
  <2>11. HandsOver(s, t)
    BY <2>5 DEF HandsOver, Carries, Delivers
  <2>12. Places(k, t)
    BY <2>2, <2>7, <2>10, <2>11 DEF Places
  <2> QED
    BY <2>2, <2>5, <2>12
<1> QED
  BY <1>4, <1>5

\* A task ships, gives up or ends.
LEMMA EditedEffect ==
    ASSUME Types, LogInv, TaskInv, NetInv, [Next]_vars, Edited
    PROVE  \E k \in 1..Len(tasks), t \in TaskSet :
             /\ Places(k, t) /\ t.kind = tasks[k].kind /\ tasks[k].pc = "shipping"
             /\ commit' = commit \/ tasks[k].kind = "submission"
<1>1. PICK k \in 1..Len(tasks) : FinishSubmission(k) \/ \E m \in Members : Ship(k, m) \/ CancelUpdate(k, m)
  BY DEF Edited
<1>2. PICK s : s = tasks[k]
  OBVIOUS
<1>3. /\ s \in TaskSet /\ Good(s) /\ Grows /\ Len(tasks) \in Nat /\ ids \in Nat /\ tasks \in Seq(TaskSet)
      /\ s.batch \subseteq Entries /\ s.answered \subseteq Members
  <2>1. s \in TaskSet
    BY <1>2, ElementOfSeq DEF Types
  <2> QED
    BY <1>2, <2>1, LogStep DEF Types, TaskInv, TaskSet
<1>4. Good(s)'
  BY <1>3, GoodStays
<1>5. UNCHANGED log /\ skipped \subseteq skipped'
  BY EditedFacts
<1>6. ASSUME NEW t, tasks' = [tasks EXCEPT ![k] = t] PROVE tasks' = Put(k, t)
  BY <1>3, <1>6 DEF Put
<1> DEFINE Goal == \E t \in TaskSet :
             /\ Places(k, t) /\ t.kind = s.kind /\ s.pc = "shipping"
             /\ commit' = commit \/ s.kind = "submission"
<1>7. ASSUME FinishSubmission(k)
      PROVE  Goal
  <2>1. s.pc = "shipping" /\ s.kind = "submission" /\ s.pending = {}
        /\ tasks' = [tasks EXCEPT ![k] = Task("submission", "done", {})]
    BY <1>2, <1>7 DEF FinishSubmission
  <2>2. PICK t : t = Task("submission", "done", {})
    OBVIOUS
  <2>3. /\ t \in TaskSet /\ t.kind = "submission" /\ t.pc = "done" /\ t.batch = {} /\ t.pending = {}
        /\ t.sent = {} /\ t.answered = {} /\ \A m \in Members : t.tries[m] = 0
    BY <2>2 DEF Task, TaskSet
  <2>4. Good(t)'
    BY <2>3, ShippingAssumption DEF Good, Drawn
  <2>5. HandsOver(s, t)
    BY <2>1, <2>3 DEF HandsOver, Carries, Delivers
  <2>6. Places(k, t)
    BY <1>2, <1>6, <2>1, <2>2, <2>4, <2>5 DEF Places
  <2> QED
    BY <2>1, <2>3, <2>6
<1>8. ASSUME NEW m \in Members, SubmitLogUpdate(k, m)
      PROVE  Goal
  <2>1. s.pc = "shipping" /\ m \in s.pending \ s.sent /\ commit' = commit
    BY <1>2, <1>8 DEF SubmitLogUpdate, Shipping, logVars
  <2>0. PICK w : w = [s.tries EXCEPT ![m] = s.tries[m] + 1]
    OBVIOUS
  <2>2. PICK t : t = [s EXCEPT !.tries = w, !.sent = s.sent \cup {m}]
    OBVIOUS
  <2>3. tasks' = [tasks EXCEPT ![k] = t]
    BY <1>2, <1>3, <1>8, <2>0, <2>2 DEF SubmitLogUpdate
  <2>10. s.tries \in [Members -> Nat]
    BY <1>3 DEF TaskSet
  <2>11. w \in [Members -> Nat]
    BY <2>0, <2>10
  <2>4. /\ t \in TaskSet /\ t.kind = s.kind /\ t.pc = s.pc /\ t.batch = s.batch /\ t.pending = s.pending
        /\ t.sent = s.sent \cup {m} /\ t.answered = s.answered
        /\ t.tries = w
    BY <1>3, <2>2, <2>11 DEF TaskSet
  <2>5. \A q \in Members : t.tries[q] = IF q = m THEN s.tries[q] + 1 ELSE s.tries[q]
    BY <2>0, <2>4, <2>10
  <2>6. \A q \in Members : t.tries[q] <= PollRetries /\ (q \in t.pending \ t.sent => t.tries[q] < PollRetries)
    <3>1. \A q \in Members : /\ s.tries[q] \in Nat /\ s.tries[q] <= PollRetries
                             /\ q \in s.pending \ s.sent => s.tries[q] < PollRetries
      BY <1>3, <2>10 DEF Good
    <3> QED
      BY <2>1, <2>4, <2>5, <3>1, ShippingAssumption
  <2>7. Good(t)'
    BY <1>4, <2>1, <2>4, <2>6 DEF Good
  <2>8. HandsOver(s, t)
    BY <2>4 DEF HandsOver, Carries, Delivers
  <2>9. Places(k, t)
    BY <1>2, <1>6, <2>3, <2>7, <2>8 DEF Places
  <2> QED
    BY <2>1, <2>4, <2>9
<1>9. ASSUME NEW m \in Members, Retry(k, m)
      PROVE  Goal
  <2>1. s.pc = "shipping" /\ s.tries[m] < PollRetries /\ commit' = commit
    BY <1>2, <1>9 DEF Retry, Shipping, logVars
  <2>2. PICK t : t = [s EXCEPT !.sent = s.sent \ {m}]
    OBVIOUS
  <2>3. tasks' = [tasks EXCEPT ![k] = t]
    BY <1>2, <1>3, <1>9, <2>2 DEF Retry
  <2>4. /\ t \in TaskSet /\ t.kind = s.kind /\ t.pc = s.pc /\ t.batch = s.batch /\ t.pending = s.pending
        /\ t.sent = s.sent \ {m} /\ t.answered = s.answered /\ t.tries = s.tries
    BY <1>3, <2>2 DEF TaskSet
  <2>5. Good(t)'
    BY <1>4, <2>1, <2>4 DEF Good
  <2>6. HandsOver(s, t)
    BY <2>4 DEF HandsOver, Carries, Delivers
  <2>7. Places(k, t)
    BY <1>2, <1>6, <2>3, <2>5, <2>6 DEF Places
  <2> QED
    BY <2>1, <2>4, <2>7
<1>10. ASSUME NEW m \in Members, s.pc = "shipping", commit' = commit, tasks' = Returned(k, m),
              \A e \in s.batch : Offered(m, e)'
       PROVE  Goal
  <2>2. PICK t : t = [s EXCEPT !.pending = s.pending \ {m}, !.sent = s.sent \ {m}]
    OBVIOUS
  <2>3. tasks' = [tasks EXCEPT ![k] = t]
    BY <1>2, <1>3, <1>10, <2>2 DEF Returned
  <2>4. /\ t \in TaskSet /\ t.kind = s.kind /\ t.pc = s.pc /\ t.batch = s.batch
        /\ t.pending = s.pending \ {m} /\ t.sent = s.sent \ {m}
        /\ t.answered = s.answered /\ t.tries = s.tries
    BY <1>3, <2>2 DEF TaskSet
  <2>5. Good(t)'
    BY <1>4, <2>4 DEF Good
  <2>6. HandsOver(s, t)
    BY <1>10, <2>4 DEF HandsOver, Carries, Delivers
  <2>7. Places(k, t)
    BY <1>2, <1>6, <2>3, <2>5, <2>6 DEF Places
  <2> QED
    BY <1>10, <2>4, <2>7
<1>11. ASSUME NEW m \in Members, Answered(k, m)
       PROVE  Goal
  <2>1. s.pc = "shipping" /\ m \in s.answered /\ commit' = commit /\ tasks' = Returned(k, m)
    BY <1>2, <1>11 DEF Answered, Shipping, logVars
  <2>2. \A e \in s.batch : Offered(m, e)'
    BY <1>4, <2>1 DEF Good
  <2> QED
    BY <1>10, <2>1, <2>2
<1>12. ASSUME NEW m \in Members, GiveUp(k, m) \/ CancelUpdate(k, m)
       PROVE  Goal
  <2>1. s.pc = "shipping" /\ commit' = commit /\ tasks' = Returned(k, m) /\ skipped' = Skip({m}, s.batch)
    BY <1>2, <1>12 DEF GiveUp, CancelUpdate, Shipping, logVars
  <2>2. \A e \in s.batch : Offered(m, e)'
    BY <1>5, <2>1, SkipAdds DEF Offered
  <2> QED
    BY <1>10, <2>1, <2>2
<1>13. Goal
  <2> HIDE DEF Goal
  <2> QED
    BY <1>1, <1>7, <1>8, <1>9, <1>11, <1>12 DEF Ship
<1> QED
  BY <1>2, <1>13

\* A submission is created behind the others.
LEMMA CreatedEffect ==
    ASSUME Types, LogInv, TaskInv, NetInv, [Next]_vars, Created
    PROVE  \E t \in TaskSet : Places(Len(tasks) + 1, t) /\ t.pc = "created"
<1>0. Len(tasks) \in Nat
  BY DEF Types
<1>1. PICK B \in SUBSET Entries : B # {} /\ Drawn(B)' /\ tasks' = Append(tasks, Task("submission", "created", B))
  BY DEF Created
<1>2. PICK t : t = Task("submission", "created", B)
  OBVIOUS
<1>3. /\ t \in TaskSet /\ t.pc = "created" /\ t.batch = B /\ t.pending = {}
      /\ t.sent = {} /\ \A m \in Members : t.tries[m] = 0
  BY <1>2 DEF Task, TaskSet
<1>4. Good(t)'
  BY <1>1, <1>3, ShippingAssumption DEF Good
<1>5. tasks' = Put(Len(tasks) + 1, t)
  BY <1>0, <1>1, <1>2 DEF Put
<1>6. ~(Len(tasks) + 1 <= Len(tasks))
  BY <1>0
<1> QED
  BY <1>3, <1>4, <1>5, <1>6 DEF Places

\* Every step puts at most one task in its place.
LEMMA TaskStep ==
    ASSUME Types, LogInv, TaskInv, NetInv, [Next]_vars
    PROVE  TaskEffect /\ TaskInv' /\ tasks' \in Seq(TaskSet)
<1>0. Len(tasks) \in Nat /\ Len(tasks) + 1 \in 1..(Len(tasks) + 1) /\ 1..Len(tasks) \subseteq 1..(Len(tasks) + 1)
      /\ Grows /\ ids \in Nat
  BY LogStep DEF Types
<1>1. TaskEffect
  <2>1. CASE Created
    BY <1>0, <2>1, CreatedEffect DEF TaskEffect
  <2>2. CASE Submitted \/ RunElection
    BY <2>2, AllShipped DEF TaskEffect
  <2>3. CASE Edited
    BY <1>0, <2>3, EditedEffect DEF TaskEffect
  <2>4. CASE Received
    BY <1>0, <2>4, RepliedEffect DEF TaskEffect
  <2>5. CASE Aside \/ \E n \in Nodes : FollowLeader(n)
    BY <2>5 DEF Aside, FollowLeader, TaskEffect
  <2> QED
    BY <2>1, <2>2, <2>3, <2>4, <2>5, StepKinds
<1>2. CASE tasks' = tasks
  <2>1. ASSUME NEW l \in 1..Len(tasks), NEW s, s = tasks[l] PROVE Good(s)'
    <3>1. s \in TaskSet /\ Good(s)
      BY <2>1, ElementOfSeq DEF Types, TaskInv
    <3> QED
      BY <1>0, <3>1, GoodStays
  <2>2. ASSUME NEW l \in 1..Len(tasks') PROVE Good(tasks[l])'
    <3>1. PICK s : s = tasks[l] /\ s = tasks'[l]
      BY <1>2
    <3>2. Good(s)'
      BY <1>2, <2>1, <3>1
    <3> QED
      BY <3>1, <3>2 DEF Good
  <2> QED
    BY <1>1, <1>2, <2>2 DEF TaskInv, Types
<1>3. ASSUME NEW k \in 1..(Len(tasks) + 1), NEW t \in TaskSet, Places(k, t)
      PROVE  TaskInv' /\ tasks' \in Seq(TaskSet)
  <2>1. /\ tasks' \in Seq(TaskSet) /\ tasks'[k] = t
        /\ \A l \in 1..Len(tasks') : l = k \/ (l \in 1..Len(tasks) /\ tasks'[l] = tasks[l])
    BY <1>3, PutFacts DEF Places
  <2>2. ASSUME NEW l \in 1..Len(tasks') PROVE Good(tasks[l])'
    <3>1. PICK s : s = tasks'[l]
      OBVIOUS
    <3>2. Good(s)'
      <4>1. CASE l = k
        BY <1>3, <2>1, <3>1, <4>1 DEF Places
      <4>2. CASE l # k
        <5>1. l \in 1..Len(tasks) /\ s = tasks[l]
          BY <2>1, <3>1, <4>2
        <5>2. s \in TaskSet /\ Good(s)
          BY <5>1, ElementOfSeq DEF Types, TaskInv
        <5> QED
          BY <1>0, <5>2, GoodStays
      <4> QED
        BY <4>1, <4>2
    <3> QED
      BY <3>1, <3>2 DEF Good
  <2> QED
    BY <2>1, <2>2 DEF TaskInv
<1> QED
  BY <1>1, <1>2, <1>3 DEF TaskEffect

\* No task disappears, and each hands over what it had to send.
LEMMA TasksKept ==
    ASSUME Types, TaskEffect
    PROVE  \A l \in 1..Len(tasks) : l \in 1..Len(tasks') /\ HandsOver(tasks[l], tasks'[l])
<1>1. \A s : HandsOver(s, s)
  BY DEF HandsOver
<1>2. CASE tasks' = tasks
  BY <1>1, <1>2
<1>3. ASSUME NEW k \in 1..(Len(tasks) + 1), NEW t \in TaskSet, Places(k, t)
      PROVE  \A l \in 1..Len(tasks) : l \in 1..Len(tasks') /\ HandsOver(tasks[l], tasks'[l])
  <2>1. /\ tasks'[k] = t /\ 1..Len(tasks) \subseteq 1..Len(tasks')
        /\ \A l \in 1..Len(tasks) : l = k \/ tasks'[l] = tasks[l]
    BY <1>3, PutFacts DEF Places
  <2>2. ASSUME NEW l \in 1..Len(tasks) PROVE HandsOver(tasks[l], tasks'[l])
    <3>1. CASE l = k
      <4>1. k <= Len(tasks)
        BY <3>1
      <4> QED
        BY <1>3, <2>1, <3>1, <4>1 DEF Places
    <3>2. CASE tasks'[l] = tasks[l]
      BY <1>1, <3>2
    <3> QED
      BY <2>1, <3>1, <3>2
  <2> QED
    BY <2>1, <2>2
<1> QED
  BY <1>2, <1>3 DEF TaskEffect

\* Every step keeps requests in flight carrying what their tasks ship.
LEMMA NetStep ==
    ASSUME Types, LogInv, TaskInv, NetInv, [Next]_vars
    PROVE  NetInv'
<1>0. /\ Grows /\ ids \in Nat /\ \A n \in Nodes : term[n] \in Nat
      /\ \A l \in 1..Len(tasks) : l \in 1..Len(tasks') /\ HandsOver(tasks[l], tasks'[l])
  BY LogStep, TaskStep, TasksKept DEF Types
<1> DEFINE OK(r) == /\ Drawn(r.batch)' /\ r.batch # {}
                    /\ r.type = "update" =>
                        /\ r.to \in Members /\ r.term \in Nat
                        /\ r.task \in 1..Len(tasks') /\ Delivers(r.batch, tasks'[r.task])
<1>1. ASSUME NEW r \in net PROVE OK(r)
  <2>1. Drawn(r.batch) /\ r.batch # {}
    BY DEF NetInv
  <2>2. Drawn(r.batch)'
    BY <1>0, <2>1 DEF Drawn, Grows, Entries
  <2>3. ASSUME r.type = "update"
        PROVE  /\ r.to \in Members /\ r.term \in Nat
               /\ r.task \in 1..Len(tasks') /\ Delivers(r.batch, tasks'[r.task])
    <3>1. /\ r.to \in Members /\ r.term \in Nat
          /\ r.task \in 1..Len(tasks) /\ Delivers(r.batch, tasks[r.task])
      BY <2>3 DEF NetInv
    <3> QED
      BY <1>0, <3>1 DEF HandsOver
  <2> QED
    BY <2>1, <2>2, <2>3
<1>2. ASSUME NEW r \in net' PROVE r \in net \/ OK(r)
  <2>1. CASE Created \/ Submitted \/ RunElection \/ \E n \in Nodes : FollowLeader(n)
    BY <2>1 DEF Created, Submitted, RunElection, FollowLeader
  <2>2. CASE Received
    BY <2>2 DEF Received, ReceiveHigherTerm, ReceiveLogUpdate
  <2>3. CASE Aside
    BY <2>3 DEF Aside
  <2>4. CASE Edited
    <3>1. PICK k \in 1..Len(tasks) : FinishSubmission(k) \/ \E m \in Members : Ship(k, m) \/ CancelUpdate(k, m)
      BY <2>4 DEF Edited
    <3>2. CASE FinishSubmission(k)
      BY <3>2 DEF FinishSubmission
    <3>3. ASSUME NEW m \in Members, Answered(k, m) \/ Retry(k, m) \/ GiveUp(k, m) \/ CancelUpdate(k, m)
          PROVE  r \in net
      BY <3>3 DEF Answered, Retry, GiveUp, CancelUpdate
    <3>4. ASSUME NEW m \in Members, SubmitLogUpdate(k, m), r \notin net
          PROVE  OK(r)
      <4>1. /\ r = [type |-> "update", to |-> m, task |-> k, term |-> term[Self], batch |-> tasks[k].batch]
            /\ tasks[k].pc = "shipping"
        BY <3>4 DEF SubmitLogUpdate, Shipping
      <4>2. r.to = m /\ r.task = k /\ r.term = term[Self] /\ r.batch = tasks[k].batch
        BY <4>1
      <4>3. Drawn(r.batch) /\ r.batch # {} /\ r.term \in Nat
        BY <1>0, <4>1, <4>2 DEF TaskInv, Good, Nodes
      <4>4. Drawn(r.batch)'
        BY <1>0, <4>3 DEF Drawn, Grows, Entries
      <4>5. k \in 1..Len(tasks') /\ HandsOver(tasks[k], tasks'[k]) /\ Delivers(r.batch, tasks[k])
        BY <1>0, <4>1, <4>2 DEF Delivers
      <4>6. Delivers(r.batch, tasks'[k])
        BY <4>5 DEF HandsOver
      <4> QED
        BY <4>2, <4>3, <4>4, <4>5, <4>6
    <3> HIDE DEF OK
    <3> QED
      BY <3>1, <3>2, <3>3, <3>4 DEF Ship
  <2> QED
    BY <2>1, <2>2, <2>3, <2>4, StepKinds
<1>3. \A r \in net' : OK(r)
  <2> HIDE DEF OK
  <2> QED
    BY <1>1, <1>2
<1> QED
  BY <1>3 DEF NetInv

\* Where an entry of the leader is, as an operator that is expanded where
\* needed.
Kept(m, e) ==
    \/ Offered(m, e)
    \/ \E k \in 1..Len(tasks) : Carries(tasks[k], m, e)
    \/ Unshipped

\* Every step passes no entry of the leader over.
LEMMA ShipStep ==
    ASSUME Types, LogInv, TaskInv, NetInv, ShipInv, [Next]_vars
    PROVE  ShipInv'
<1>0. /\ Grows /\ Self \in Nodes /\ Len(tasks) \in Nat /\ tasks \in Seq(TaskSet) /\ commit \in Nat
      /\ log \in [Nodes -> SUBSET Entries] /\ log' \in [Nodes -> SUBSET Entries]
      /\ TaskEffect /\ \A l \in 1..Len(tasks) : l \in 1..Len(tasks') /\ HandsOver(tasks[l], tasks'[l])
  BY LogStep, TaskStep, TasksKept DEF Types, Nodes
<1> SUFFICES ASSUME NEW m \in Members, NEW e \in log'[Self] \ overtaken', e.leader = Self
             PROVE  Kept(m, e)'
  BY DEF ShipInv, Kept
<1>1. e \in Entries
  BY <1>0
<1>2. ASSUME e \in log[Self] PROVE Kept(m, e)
  <2>1. e \notin overtaken
    BY <1>0 DEF Grows
  <2> QED
    BY <1>2, <2>1 DEF ShipInv, Kept
<1>3. ASSUME Offered(m, e) PROVE Kept(m, e)'
  BY <1>0, <1>1, <1>3 DEF Grows, Kept
<1>4. ASSUME NEW k \in 1..Len(tasks), Carries(tasks[k], m, e) PROVE Kept(m, e)'
  <2>1. Carries(tasks'[k], m, e) \/ Offered(m, e)'
    BY <1>0, <1>1, <1>4 DEF HandsOver
  <2> QED
    BY <1>0, <2>1 DEF Kept
<1>5. CASE Submitted \/ RunElection
  <2>1. PICK k \in 1..(Len(tasks) + 1), t \in TaskSet :
             /\ Places(k, t) /\ t.pc = "shipping" /\ t.batch = Latest(log'[Self], commit)
             /\ \A p \in Members, f \in t.batch : Carries(t, p, f) \/ Offered(p, f)'
             /\ \A f \in log'[Self] \ overtaken' : f \in log[Self] \/ f \in t.batch
    BY <1>5, AllShipped
  <2>2. tasks'[k] = t /\ k \in 1..Len(tasks')
    BY <2>1, PutFacts DEF Places
  <2>3. ASSUME e \in t.batch PROVE Kept(m, e)'
    BY <2>1, <2>2, <2>3 DEF Kept
  <2>4. CASE e \in log[Self] /\ Unshipped
    <3>1. e.id >= commit
      BY <1>1, <2>4 DEF Unshipped, Entries
    <3> QED
      BY <2>1, <2>3, <3>1 DEF Latest
  <2> QED
    BY <1>2, <1>3, <1>4, <2>1, <2>3, <2>4 DEF Kept
<1>6. ASSUME e \in log[Self], Unshipped => Unshipped' PROVE Kept(m, e)'
  BY <1>2, <1>3, <1>4, <1>6 DEF Kept
<1>7. CASE Created
  <2>1. PICK t \in TaskSet : Places(Len(tasks) + 1, t) /\ t.pc = "created"
    BY <1>7, CreatedEffect
  <2>2. Len(tasks) + 1 \in 1..(Len(tasks) + 1)
    BY <1>0
  <2>3. /\ tasks'[Len(tasks) + 1] = t
        /\ \A l \in 1..Len(tasks') : l = Len(tasks) + 1 \/ (l \in 1..Len(tasks) /\ tasks'[l] = tasks[l])
    BY <2>1, <2>2, PutFacts DEF Places
  <2>4. commit' = commit /\ log' = log
    BY <1>7 DEF Created, logVars
  <2>5. Unshipped => Unshipped'
    BY <2>1, <2>3, <2>4 DEF Unshipped
  <2> QED
    BY <1>6, <2>4, <2>5
<1>8. CASE Aside
  BY <1>6, <1>8 DEF Aside, Unshipped, logVars
<1>9. ASSUME NEW n \in Nodes, FollowLeader(n)
      PROVE  Kept(m, e)'
  <2>1. PICK B : B = {Entry(ids', Other, term[n])}
    OBVIOUS
  <2>2. e \notin B
    BY <2>1, ShippingAssumption DEF Entry
  <2>3. log' = [log EXCEPT ![n] = IF Accepts(n, B) THEN log[n] \cup B ELSE log[n]]
    BY <1>9, <2>1 DEF FollowLeader, LogUpdate
  <2>4. e \in log[Self]
    BY <1>0, <2>2, <2>3
  <2>5. tasks' = tasks /\ commit' = commit
    BY <1>9 DEF FollowLeader
  <2> QED
    BY <1>6, <2>4, <2>5 DEF Unshipped
<1>10. CASE Edited
  <2>1. log' = log
    BY <1>10, EditedFacts
  <2>2. PICK k \in 1..Len(tasks), t \in TaskSet :
             /\ Places(k, t) /\ t.kind = tasks[k].kind /\ tasks[k].pc = "shipping"
             /\ commit' = commit \/ tasks[k].kind = "submission"
    BY <1>10, EditedEffect
  <2>3. k \in 1..(Len(tasks) + 1)
    BY <1>0
  <2>4. /\ tasks'[k] = t
        /\ \A l \in 1..Len(tasks') : l = k \/ (l \in 1..Len(tasks) /\ tasks'[l] = tasks[l])
    BY <2>2, <2>3, PutFacts DEF Places
  <2>5. Unshipped => tasks[k].kind # "submission"
    BY <2>2 DEF Unshipped
  <2>6. Unshipped => Unshipped'
    BY <2>2, <2>4, <2>5 DEF Unshipped
  <2> QED
    BY <1>6, <2>1, <2>6
<1>11. CASE Received
  <2>1. PICK r \in net : ReceiveHigherTerm(r) \/ ReceiveLogUpdate(r)
    BY <1>11 DEF Received
  <2>2. r.to # Self
    BY <2>1, ShippingAssumption DEF NetInv, ReceiveHigherTerm, ReceiveLogUpdate
  <2>3. log'[Self] = log[Self] /\ commit' = commit
    BY <1>0, <2>1, <2>2, ReceivedFacts
  <2>4. CASE tasks' = tasks
    BY <1>6, <2>3, <2>4 DEF Unshipped
  <2>5. ASSUME NEW k \in 1..Len(tasks), NEW t \in TaskSet,
               Places(k, t), t.kind = tasks[k].kind, t.pc = tasks[k].pc
        PROVE  Kept(m, e)'
    <3>1. k \in 1..(Len(tasks) + 1)
      BY <1>0
    <3>2. /\ tasks'[k] = t
          /\ \A l \in 1..Len(tasks') : l = k \/ (l \in 1..Len(tasks) /\ tasks'[l] = tasks[l])
      BY <2>5, <3>1, PutFacts DEF Places
    <3>3. Unshipped => Unshipped'
      BY <2>3, <2>5, <3>2 DEF Unshipped
    <3> QED
      BY <1>6, <2>3, <3>3
  <2> QED
    BY <1>11, <2>4, <2>5, RepliedEffect
<1> QED
  BY <1>5, <1>7, <1>8, <1>9, <1>10, <1>11, StepKinds

-----------------------------------------------------------------------------
\* The inductive invariant.
ShippingInv == Types /\ LogInv /\ TaskInv /\ NetInv /\ ShipInv

\* It holds of every state: initially the log has one entry nobody was sent,
\* and each part is kept by the lemma named after it.
LEMMA ShippingInvHolds == Spec => []ShippingInv
<1>1. Init => ShippingInv
  <2> SUFFICES ASSUME Init PROVE ShippingInv
    OBVIOUS
  <2>1. Self \in Nodes /\ Entry(1, Self, 1) \in Entries /\ Entry(1, Self, 1).id = 1
    BY EntryType DEF Nodes
  <2>2. tasks \in Seq(TaskSet) /\ Len(tasks) = 0
    BY DEF Init
  <2>3. Types
    BY <2>1, <2>2 DEF Init, Types
  <2>4. LogInv
    BY <2>1 DEF Init, LogInv, Drawn
  <2>5. TaskInv /\ NetInv /\ ShipInv
    BY <2>2 DEF Init, TaskInv, NetInv, ShipInv, Unshipped
  <2> QED
    BY <2>3, <2>4, <2>5 DEF ShippingInv
<1>2. ShippingInv /\ [Next]_vars => ShippingInv'
  <2> SUFFICES ASSUME ShippingInv, [Next]_vars PROVE ShippingInv'
    OBVIOUS
  <2>1. Types /\ LogInv /\ TaskInv /\ NetInv /\ ShipInv
    BY DEF ShippingInv
  <2>2. Types'
    BY <2>1, LogStep, TaskStep DEF Types
  <2> QED
    BY <2>1, <2>2, LogStep, TaskStep, NetStep, ShipStep DEF ShippingInv
<1> QED
  BY <1>1, <1>2, PTL DEF Spec

\* The variables keep their types, no member is tried more than _poll_retries
\* times, and a try under way is one that is waited for.
THEOREM ShippingTypeCorrect == Spec => []TypeOK
<1>1. ShippingInv => TypeOK
  <2> SUFFICES ASSUME ShippingInv PROVE TypeOK
    OBVIOUS
  <2> USE DEF ShippingInv
  <2>1. ASSUME NEW n \in Nodes
        PROVE  /\ term[n] \in Nat /\ logTerm[n] \in Nat
               /\ \A e \in log[n] : e.id \in 1..ids /\ e.leader \in {Self, Other} /\ e.term \in Nat
    BY DEF Types, LogInv, Drawn, Entries
  <2>2. commit \in 0..ids /\ leads \in BOOLEAN /\ healthy \subseteq Members
    BY DEF Types, LogInv
  <2>3. ASSUME NEW k \in DOMAIN tasks
        PROVE  /\ tasks[k].pc \in {"created", "shipping", "done"}
               /\ tasks[k].sent \subseteq tasks[k].pending
               /\ \A m \in Members : tasks[k].tries[m] \in 0..PollRetries
    <3>1. k \in 1..Len(tasks) /\ tasks[k] \in TaskSet /\ Good(tasks[k])
      BY ElementOfSeq DEF Types, TaskInv
    <3>2. tasks[k].pc \in {"created", "shipping", "done"} /\ tasks[k].tries \in [Members -> Nat]
      BY <3>1 DEF TaskSet
    <3> QED
      BY <3>1, <3>2, ShippingAssumption DEF Good
  <2> QED
    BY <2>1, <2>2, <2>3 DEF TypeOK
<1> QED
  BY <1>1, ShippingInvHolds, PTL

\* What the leader has committed of its own every member stores or was offered
\* in vain, or is still being sent, whatever is lost, retried, refused or
\* given up and whoever leads by then.
THEOREM NoEntryPassedOver == Spec => []CommittedStored
<1>1. ShippingInv => CommittedStored
  <2> SUFFICES ASSUME ShippingInv, NEW m \in Members, NEW e \in log[Self] \ overtaken,
                      e.leader = Self, e.id <= commit
               PROVE  \/ e \in log[m] \/ <<m, e>> \in skipped
                      \/ \E k \in DOMAIN tasks : Shipping(k, m) /\ e \in tasks[k].batch
    BY DEF CommittedStored
  <2> USE DEF ShippingInv
  <2>1. e.id >= 1 /\ e.id \in Nat
    BY DEF LogInv, Drawn, Types, Nodes, Entries
  <2>2. commit # 0
    BY <2>1 DEF Types
  <2>3. Offered(m, e) \/ \E k \in 1..Len(tasks) : Carries(tasks[k], m, e)
    BY <2>2 DEF ShipInv, Unshipped
  <2>4. DOMAIN tasks = 1..Len(tasks)
    BY DEF Types
  <2> QED
    BY <2>3, <2>4 DEF Offered, Carries, Shipping
<1> QED
  BY <1>1, ShippingInvHolds, PTL

\* commit() never goes back: the newest entry of the log is no older than what
\* was committed before, since the log only grows.
THEOREM CommitGrows == Spec => CommitAdvances
<1>1. ShippingInv /\ [Next]_vars => [commit' >= commit]_vars
  <2> SUFFICES ASSUME ShippingInv, [Next]_vars PROVE commit' >= commit
    OBVIOUS
  <2>1. Types /\ LogInv /\ TaskInv /\ NetInv
    BY DEF ShippingInv
  <2>2. commit \in Nat /\ ids \in Nat /\ log[Self] \in SUBSET Entries
    BY <2>1 DEF Types, Nodes
  <2>3. CASE commit' = commit
    BY <2>2, <2>3
  <2>4. CASE commit' = LastEntry(log[Self]).id
    <3>1. PICK e \in log[Self] : e.id >= commit
      BY <2>1 DEF LogInv
    <3>2. \A f \in log[Self] : f.id <= ids
      BY <2>1 DEF LogInv, Drawn, Nodes
    <3>3. LastEntry(log[Self]) \in log[Self] /\ e.id <= LastEntry(log[Self]).id
      BY <2>2, <3>1, <3>2, LastOfBatch
    <3>4. e.id \in Nat /\ LastEntry(log[Self]).id \in Nat
      BY <2>2, <3>3 DEF Entries
    <3> QED
      BY <2>2, <2>4, <3>1, <3>3, <3>4
  <2>5. commit' = commit \/ commit' = LastEntry(log[Self]).id
    <3>1. CASE Edited
      BY <2>1, <3>1, EditedFacts
    <3>2. CASE Submitted \/ RunElection
      BY <2>1, <3>2, ShipsLatest
    <3>3. CASE Received
      BY <2>1, <3>3, ReceivedFacts DEF Received
    <3>4. CASE Created \/ Aside \/ \E n \in Nodes : FollowLeader(n)
      BY <3>4 DEF Created, Aside, FollowLeader, logVars
    <3> QED
      BY <2>1, <3>1, <3>2, <3>3, <3>4, StepKinds
  <2> QED
    BY <2>3, <2>4, <2>5
<1> QED
  BY <1>1, ShippingInvHolds, PTL DEF Spec, CommitAdvances

-----------------------------------------------------------------------------
(***************************************************************************)
(* The ids of the entries.  LogShipping numbers them in the order in which *)
(* they are drawn; Snowflake.tla is how a node draws them, and this is     *)
(* what it promises.                                                       *)
(***************************************************************************)

\* The parts of the id of a time, an instance and a sequence number do not
\* overlap.
PartsApart(t, i, s) ==
    /\ Id(t, i, s) = t * (InstanceCap * SeqCap) + i * SeqCap + s
    /\ Id(t, i, s) \in Nat
    /\ i * SeqCap \in Nat
    /\ i * SeqCap + SeqCap <= InstanceCap * SeqCap
    /\ t * (InstanceCap * SeqCap) \in Nat

\* They do not if the instance fits.
LEMMA IdParts ==
    /\ InstanceCap * SeqCap \in Nat
    /\ \A t, i \in Nat, s \in 0..(SeqCap - 1) : i < InstanceCap => PartsApart(t, i, s)
<1>1. InstanceCap \in Nat /\ InstanceCap > 0 /\ SeqCap \in Nat /\ SeqCap > 0
  BY SnowflakeAssumption
<1>2. InstanceCap * SeqCap \in Nat
  BY <1>1
<1>3. ASSUME NEW t \in Nat, NEW i \in Nat, NEW s \in 0..(SeqCap - 1), i < InstanceCap
      PROVE  PartsApart(t, i, s)
  <2>1. i \div InstanceCap = 0 /\ i % InstanceCap = i
    BY <1>1, <1>3
  <2>2. \A x : BitOr(x, 0) = x
    BY DEF BitOr
  <2>3. Id(t, i, s) = t * (InstanceCap * SeqCap) + i * SeqCap + s
    BY <2>1, <2>2 DEF Id
  <2>4. i * SeqCap \in Nat
    BY <1>1
  <2>5. t * (InstanceCap * SeqCap) \in Nat
    BY <1>2
  <2>6. i * SeqCap + SeqCap <= InstanceCap * SeqCap
    BY <1>1, <1>3
  <2>7. s \in Nat
    BY <1>1
  <2> QED
    BY <2>3, <2>4, <2>5, <2>6, <2>7 DEF PartsApart
<1> QED
  BY <1>2, <1>3

\* Ids are ordered by their time, then by the instance, then by the sequence
\* number.
LEMMA IdOrder ==
    ASSUME NEW t \in Nat, NEW u \in Nat,
           NEW i \in Nat, i < InstanceCap, NEW j \in Nat, j < InstanceCap,
           NEW r \in 0..(SeqCap - 1), NEW s \in 0..(SeqCap - 1),
           t < u \/ (t = u /\ i < j) \/ (t = u /\ i = j /\ r < s)
    PROVE  Id(t, i, r) < Id(u, j, s)
<1> DEFINE M == InstanceCap * SeqCap
           A == t * M
           B == u * M
           C == i * SeqCap
           D == j * SeqCap
<1>1. SeqCap \in Nat /\ SeqCap > 0 /\ M \in Nat
  BY IdParts, SnowflakeAssumption
<1>2. t < u => A + M <= B
  <2> HIDE DEF M
  <2> QED
    BY <1>1
<1>3. i < j => C + SeqCap <= D
  BY <1>1
<1>4. (t = u => A = B) /\ (i = j => C = D)
  OBVIOUS
<1>5. /\ A \in Nat /\ B \in Nat /\ C \in Nat /\ D \in Nat
      /\ C + SeqCap <= M /\ D + SeqCap <= M
      /\ Id(t, i, r) = A + C + r /\ Id(u, j, s) = B + D + s
  <2>1. PartsApart(t, i, r) /\ PartsApart(u, j, s)
    BY IdParts
  <2> QED
    BY <2>1, Zenon DEF PartsApart
<1>6. r \in Nat /\ s \in Nat /\ r < SeqCap /\ s < SeqCap
  BY <1>1
<1> HIDE DEF M, A, B, C, D
<1> QED
  BY <1>1, <1>2, <1>3, <1>4, <1>5, <1>6

\* Snowflake.parse finds the time again.
LEMMA ParseTime ==
    ASSUME NEW t \in Nat, NEW i \in Nat, i < InstanceCap, NEW s \in 0..(SeqCap - 1)
    PROVE  Parse(Id(t, i, s)).timestamp = t
<1> DEFINE M == InstanceCap * SeqCap
           A == t * M
           C == i * SeqCap
           x == Id(t, i, s)
           q == x \div M
<1>1. /\ SeqCap \in Nat /\ SeqCap > 0 /\ M \in Nat
      /\ A \in Nat /\ C \in Nat /\ C + SeqCap <= M /\ x = A + C + s /\ x \in Nat
      /\ s \in Nat /\ s < SeqCap
  <2>1. SeqCap \in Nat /\ SeqCap > 0 /\ M \in Nat
    BY IdParts, SnowflakeAssumption
  <2>2. PartsApart(t, i, s)
    BY IdParts
  <2>3. A \in Nat /\ C \in Nat /\ C + SeqCap <= M /\ x = A + C + s /\ x \in Nat
    BY <2>2, Zenon DEF PartsApart
  <2>4. s \in Nat /\ s < SeqCap
    BY <2>1
  <2> QED
    BY <2>1, <2>3, <2>4
<1>2. M > 0 /\ A <= x /\ x < A + M
  <2> HIDE DEF M, A, C, x
  <2> QED
    BY <1>1
<1>3. q = t
  <2> HIDE DEF M, C, x
  <2>1. q \in Int /\ q * M <= x /\ x < q * M + M
    BY <1>1, <1>2
  <2> HIDE DEF q
  <2>2. q < t => q * M + M <= A
    BY <1>1, <2>1
  <2>3. t < q => A + M <= q * M
    BY <1>1, <2>1
  <2>4. q * M \in Int
    BY <1>1, <2>1
  <2> DEFINE Q == q * M
  <2> HIDE DEF Q, A
  <2>5. ~(q < t) /\ ~(t < q)
    BY <1>1, <1>2, <2>1, <2>2, <2>3, <2>4 DEF Q
  <2> QED
    BY <2>1, <2>5
<1>4. Parse(x).timestamp = q
  BY DEF Parse
<1> QED
  BY <1>3, <1>4

\* The types; nothing is said of the ids of an instance that does not fit.
GeneratorTypes ==
    /\ now \in Nat
    /\ ts \in [Generators -> Nat]
    /\ seq \in [Generators -> 0..(SeqCap - 1)]
    /\ DOMAIN made = Generators /\ made = [g \in Generators |-> made[g]]
    /\ DOMAIN times = Generators /\ times = [g \in Generators |-> times[g]]
    /\ \A g \in Generators : Fits(g) => made[g] \in Seq(Nat)
    /\ \A g \in Generators : times[g] \in Seq(Nat)

\* What every id of an instance that fits was made of.
MadeInv ==
    \A g \in Generators : Fits(g) =>
        /\ Len(times[g]) = Len(made[g])
        /\ \A k \in 1..Len(made[g]) : \E s \in 0..(SeqCap - 1) :
            made[g][k] = Id(times[g][k], Instance[g], s)

\* The last id is the largest so far: the generator goes on from it.
LastInv ==
    \A g \in Generators : Fits(g) =>
        \A k \in 1..Len(made[g]) :
            made[g][k] <= Id(ts[g], Instance[g], seq[g])

\* The inductive invariant behind IdsIncrease: only the last id is compared
\* with the clock.
GeneratorInv == GeneratorTypes /\ MadeInv /\ LastInv /\ IdsIncrease

\* What appending a number does to a sequence of numbers.
LEMMA AppendNumber ==
    ASSUME NEW q \in Seq(Nat), NEW x \in Nat
    PROVE  /\ Append(q, x) \in Seq(Nat)
           /\ Len(q) \in Nat
           /\ Len(Append(q, x)) = Len(q) + 1
           /\ \A k \in 1..Len(q) : Append(q, x)[k] = q[k] /\ q[k] \in Nat
           /\ Append(q, x)[Len(q) + 1] = x
           /\ \A k \in 1..(Len(q) + 1) : k \in 1..Len(q) \/ k = Len(q) + 1
OBVIOUS

\* Making an id that is later than the last one.
LEMMA MakesStep ==
    ASSUME GeneratorInv, NEW g \in Generators, Makes(g),
           NEW s \in 0..(SeqCap - 1), seq' = [seq EXCEPT ![g] = s],
           ts[g] < now \/ (ts[g] = now /\ seq[g] < s)
    PROVE  GeneratorInv'
<1> DEFINE id == Id(now, Instance[g], s)
           old == Id(ts[g], Instance[g], seq[g])
<1>1. /\ ts' = [ts EXCEPT ![g] = now]
      /\ seq'[g] = s
      /\ made' = [made EXCEPT ![g] = Append(made[g], Id(now, Instance[g], seq'[g]))]
      /\ times' = [times EXCEPT ![g] = Append(times[g], now)]
      /\ now' = now
  BY DEF Makes, GeneratorInv, GeneratorTypes
<1>2. made' = [made EXCEPT ![g] = Append(made[g], id)]
  BY <1>1
<1>3. Instance \in [Generators -> Nat]
  BY SnowflakeAssumption
<1>4. ASSUME Fits(g)
      PROVE  id \in Nat /\ old \in Nat /\ old < id
  <2>1. Instance[g] \in Nat /\ Instance[g] < InstanceCap
    BY <1>3, <1>4 DEF Fits
  <2>2. now \in Nat /\ ts[g] \in Nat /\ seq[g] \in 0..(SeqCap - 1)
    BY DEF GeneratorInv, GeneratorTypes
  <2>3. id \in Nat /\ old \in Nat
    BY <2>1, <2>2, IdParts, Zenon DEF PartsApart
  <2> QED
    BY <2>1, <2>2, <2>3, IdOrder
<1> HIDE DEF id, old
<1>5. \A h \in Generators : made'[h] = IF h = g THEN Append(made[g], id) ELSE made[h]
  BY <1>2 DEF GeneratorInv, GeneratorTypes
<1>6. \A h \in Generators : times'[h] = IF h = g THEN Append(times[g], now) ELSE times[h]
  BY <1>1 DEF GeneratorInv, GeneratorTypes
<1>7. \A h \in Generators : h # g => ts'[h] = ts[h] /\ seq'[h] = seq[h]
  BY <1>1 DEF GeneratorInv, GeneratorTypes
<1>8. ts'[g] = now /\ seq'[g] = s
  BY <1>1 DEF GeneratorInv, GeneratorTypes
<1>9. GeneratorTypes'
  <2>1. /\ now' \in Nat
        /\ ts' \in [Generators -> Nat]
        /\ seq' \in [Generators -> 0..(SeqCap - 1)]
    BY <1>1 DEF GeneratorInv, GeneratorTypes
  <2>2. /\ DOMAIN made' = Generators /\ made' = [h \in Generators |-> made'[h]]
        /\ DOMAIN times' = Generators /\ times' = [h \in Generators |-> times'[h]]
    BY <1>1 DEF GeneratorInv, GeneratorTypes
  <2>3. ASSUME NEW h \in Generators, Fits(h) PROVE made'[h] \in Seq(Nat)
    <3>1. made[h] \in Seq(Nat)
      BY <2>3 DEF GeneratorInv, GeneratorTypes
    <3>2. h = g => id \in Nat
      BY <1>4, <2>3
    <3>3. CASE h = g
      <4>1. made'[h] = Append(made[h], id)
        BY <1>5, <3>3
      <4>2. Append(made[h], id) \in Seq(Nat)
        BY <3>1, <3>2, <3>3, AppendNumber
      <4> QED
        BY <4>1, <4>2, Zenon
    <3>4. CASE h # g
      BY <1>5, <3>1, <3>4, Zenon
    <3> QED
      BY <3>3, <3>4
  <2>4. ASSUME NEW h \in Generators PROVE times'[h] \in Seq(Nat)
    <3>1. times[h] \in Seq(Nat) /\ now \in Nat
      BY DEF GeneratorInv, GeneratorTypes
    <3>2. CASE h = g
      <4>1. times'[h] = Append(times[h], now)
        BY <1>6, <3>2
      <4>2. Append(times[h], now) \in Seq(Nat)
        BY <3>1, AppendNumber
      <4> QED
        BY <4>1, <4>2, Zenon
    <3>3. CASE h # g
      BY <1>6, <3>1, <3>3, Zenon
    <3> QED
      BY <3>2, <3>3
  <2>5. \A h : Fits(h)' <=> Fits(h)
    BY DEF Fits
  <2> QED
    BY <2>1, <2>2, <2>3, <2>4, <2>5 DEF GeneratorTypes
<1>10. ASSUME NEW h \in Generators, Fits(h), h # g
       PROVE  /\ made'[h] = made[h] /\ times'[h] = times[h]
              /\ ts'[h] = ts[h] /\ seq'[h] = seq[h]
  BY <1>5, <1>6, <1>7, <1>10
<1>11. ASSUME Fits(g)
       PROVE  /\ made[g] \in Seq(Nat) /\ times[g] \in Seq(Nat)
              /\ Len(made[g]) \in Nat /\ Len(times[g]) = Len(made[g])
              /\ Len(made'[g]) = Len(made[g]) + 1 /\ Len(times'[g]) = Len(made[g]) + 1
              /\ \A k \in 1..Len(made[g]) :
                    /\ made'[g][k] = made[g][k] /\ times'[g][k] = times[g][k]
                    /\ made[g][k] \in Nat /\ made[g][k] <= old
              /\ made'[g][Len(made[g]) + 1] = id /\ times'[g][Len(made[g]) + 1] = now
              /\ \A k \in 1..Len(made'[g]) : k \in 1..Len(made[g]) \/ k = Len(made[g]) + 1
  <2>1. /\ made[g] \in Seq(Nat) /\ times[g] \in Seq(Nat)
        /\ Len(times[g]) = Len(made[g])
    BY <1>11 DEF GeneratorInv, GeneratorTypes, MadeInv
  <2>2. \A k \in 1..Len(made[g]) : made[g][k] <= old
    BY <1>11 DEF GeneratorInv, LastInv, old
  <2>3. made'[g] = Append(made[g], id) /\ times'[g] = Append(times[g], now)
    BY <1>5, <1>6
  <2> DEFINE a == made[g]
             b == times[g]
  <2>4. /\ a \in Seq(Nat) /\ b \in Seq(Nat) /\ Len(b) = Len(a)
        /\ made'[g] = Append(a, id) /\ times'[g] = Append(b, now)
        /\ id \in Nat /\ now \in Nat
        /\ \A k \in 1..Len(a) : a[k] <= old
    BY <1>4, <1>11, <2>1, <2>2, <2>3 DEF GeneratorInv, GeneratorTypes
  <2> HIDE DEF a, b
  <2>5. /\ Len(a) \in Nat
        /\ Len(made'[g]) = Len(a) + 1 /\ Len(times'[g]) = Len(a) + 1
        /\ \A k \in 1..Len(a) : made'[g][k] = a[k] /\ a[k] \in Nat
        /\ \A k \in 1..Len(a) : times'[g][k] = b[k]
        /\ made'[g][Len(a) + 1] = id /\ times'[g][Len(a) + 1] = now
        /\ \A k \in 1..(Len(a) + 1) : k \in 1..Len(a) \/ k = Len(a) + 1
    <3>1. PICK u : u = Append(a, id)
      OBVIOUS
    <3>2. PICK v : v = Append(b, now)
      OBVIOUS
    <3>3. made'[g] = u /\ times'[g] = v
      BY <2>4, <3>1, <3>2
    <3>4. /\ Len(a) \in Nat /\ Len(u) = Len(a) + 1
          /\ \A k \in 1..Len(a) : u[k] = a[k] /\ a[k] \in Nat
          /\ u[Len(a) + 1] = id
          /\ \A k \in 1..(Len(a) + 1) : k \in 1..Len(a) \/ k = Len(a) + 1
      BY <2>4, <3>1, AppendNumber
    <3>5. /\ Len(v) = Len(b) + 1
          /\ \A k \in 1..Len(b) : v[k] = b[k]
          /\ v[Len(b) + 1] = now
      BY <2>4, <3>2, AppendNumber
    <3> QED
      BY <2>4, <3>3, <3>4, <3>5
  <2> QED
    BY <2>1, <2>4, <2>5, Zenon DEF a, b
<1>12. MadeInv'
  <2> SUFFICES ASSUME NEW h \in Generators, Fits(h)
               PROVE  /\ Len(times'[h]) = Len(made'[h])
                      /\ \A k \in 1..Len(made'[h]) : \E z \in 0..(SeqCap - 1) :
                            made'[h][k] = Id(times'[h][k], Instance[h], z)
    BY DEF MadeInv, Fits
  <2>1. CASE h = g
    <3>1. Len(times'[g]) = Len(made'[g])
      BY <1>11, <2>1
    <3>2. ASSUME NEW k \in 1..Len(made[g])
          PROVE  \E z \in 0..(SeqCap - 1) : made'[g][k] = Id(times'[g][k], Instance[g], z)
      BY <1>11, <2>1 DEF GeneratorInv, MadeInv
    <3>3. made'[g][Len(made[g]) + 1] = Id(times'[g][Len(made[g]) + 1], Instance[g], s)
      BY <1>11, <2>1 DEF id
    <3> QED
      BY <1>11, <2>1, <3>1, <3>2, <3>3
  <2>2. CASE h # g
    BY <1>10, <2>2 DEF GeneratorInv, MadeInv
  <2> QED
    BY <2>1, <2>2
<1>13. LastInv'
  <2> SUFFICES ASSUME NEW h \in Generators, Fits(h), NEW k \in 1..Len(made'[h])
               PROVE  made'[h][k] <= Id(ts'[h], Instance[h], seq'[h])
    BY DEF LastInv, Fits
  <2>1. CASE h = g
    <3>0. Fits(g) /\ k \in 1..Len(made'[g])
      BY <2>1
    <3>1. Id(ts'[h], Instance[h], seq'[h]) = id
      BY <1>8, <2>1 DEF id
    <3>2. made'[g][k] <= id
      <4>1. CASE k \in 1..Len(made[g])
        <5>1. made'[g][k] <= old /\ made'[g][k] \in Nat
          BY <1>11, <3>0, <4>1
        <5>2. id \in Nat /\ old \in Nat /\ old < id
          BY <1>4, <3>0
        <5> QED
          BY <5>1, <5>2
      <4>2. CASE k = Len(made[g]) + 1
        BY <1>4, <1>11, <3>0, <4>2
      <4> QED
        BY <1>11, <3>0, <4>1, <4>2
    <3> QED
      BY <2>1, <3>1, <3>2
  <2>2. CASE h # g
    BY <1>10, <2>2 DEF GeneratorInv, LastInv
  <2> QED
    BY <2>1, <2>2
<1>14. IdsIncrease'
  <2> SUFFICES ASSUME NEW h \in Generators, Fits(h),
                      NEW k \in 1..Len(made'[h]), NEW l \in 1..Len(made'[h]), k < l
               PROVE  made'[h][k] < made'[h][l]
    BY DEF IdsIncrease, Fits
  <2>1. CASE h = g
    <3>0. Fits(g) /\ k \in 1..Len(made'[g]) /\ l \in 1..Len(made'[g])
      BY <2>1
    <3>1. k \in 1..Len(made[g])
      BY <1>11, <2>1
    <3>2. CASE l \in 1..Len(made[g])
      <4>1. made[g][k] < made[g][l]
        BY <2>1, <3>1, <3>2 DEF GeneratorInv, IdsIncrease
      <4> QED
        BY <1>11, <2>1, <3>1, <3>2, <4>1
    <3>3. CASE l = Len(made[g]) + 1
      <4>1. made'[g][k] <= old /\ made'[g][k] \in Nat /\ made'[g][l] = id
        BY <1>11, <3>0, <3>1, <3>3
      <4>2. id \in Nat /\ old \in Nat /\ old < id
        BY <1>4, <3>0
      <4> QED
        BY <2>1, <4>1, <4>2
    <3> QED
      BY <1>11, <2>1, <3>2, <3>3
  <2>2. CASE h # g
    BY <1>10, <2>2 DEF GeneratorInv, IdsIncrease
  <2> QED
    BY <2>1, <2>2
<1> QED
  BY <1>9, <1>12, <1>13, <1>14 DEF GeneratorInv

\* A new generator has made none.
LEMMA GeneratorInit ==
    ASSUME SnowflakeInit
    PROVE  GeneratorInv
<1>1. /\ now = 0
      /\ ts = [g \in Generators |-> now] /\ seq = [g \in Generators |-> 0]
      /\ made = [g \in Generators |-> <<>>] /\ times = [g \in Generators |-> <<>>]
  BY DEF SnowflakeInit
<1>2. 0 \in 0..(SeqCap - 1)
  BY SnowflakeAssumption
<1>3. GeneratorTypes
  BY <1>1, <1>2 DEF GeneratorTypes
<1>4. \A g \in Generators : Len(made[g]) = 0 /\ Len(times[g]) = 0
  BY <1>1
<1> QED
  BY <1>3, <1>4 DEF GeneratorInv, MadeInv, LastInv, IdsIncrease

\* A clock that is set back, or stands still, makes no id that is not later
\* than the last one.
LEMMA GeneratorStep ==
    ASSUME GeneratorInv, [SnowflakeNext]_snowflakeVars
    PROVE  GeneratorInv'
<1>1. GeneratorTypes
  BY DEF GeneratorInv
<1>2. SeqCap \in Nat /\ MaxNow \in Nat /\ SeqCap > 0
  BY SnowflakeAssumption
<1>3. ASSUME now' \in Nat, UNCHANGED <<ts, seq, made, times>>
      PROVE  GeneratorInv'
  BY <1>3 DEF GeneratorInv, GeneratorTypes, MadeInv, LastInv, IdsIncrease, Fits
<1>4. ASSUME NEW g \in Generators, GenerateInSame(g)
      PROVE  GeneratorInv'
  <2>1. /\ ts[g] = now /\ seq[g] # SeqCap - 1
        /\ seq' = [seq EXCEPT ![g] = seq[g] + 1]
        /\ Makes(g)
    BY <1>4 DEF GenerateInSame
  <2>2. seq[g] + 1 \in 0..(SeqCap - 1) /\ seq[g] < seq[g] + 1
    BY <1>1, <1>2, <2>1 DEF GeneratorTypes
  <2> QED
    BY <2>1, <2>2, MakesStep
<1>5. ASSUME NEW g \in Generators, GenerateInNext(g)
      PROVE  GeneratorInv'
  <2>1. /\ ts[g] < now
        /\ seq' = [seq EXCEPT ![g] = 0]
        /\ Makes(g)
    BY <1>5 DEF GenerateInNext
  <2>2. 0 \in 0..(SeqCap - 1)
    BY <1>2
  <2> QED
    BY <2>1, <2>2, MakesStep
<1>6. CASE Tick
  <2>1. now' \in Nat /\ UNCHANGED <<ts, seq, made, times>>
    BY <1>2, <1>6 DEF Tick
  <2> QED
    BY <1>3, <2>1
<1>7. CASE UNCHANGED snowflakeVars
  <2>1. now' \in Nat /\ UNCHANGED <<ts, seq, made, times>>
    BY <1>1, <1>7 DEF snowflakeVars, GeneratorTypes
  <2> QED
    BY <1>3, <2>1
<1>8. ASSUME NEW g \in Generators, GenerateNone(g)
      PROVE  UNCHANGED snowflakeVars
  BY <1>8 DEF GenerateNone
<1> QED
  BY <1>4, <1>5, <1>6, <1>7, <1>8 DEF SnowflakeNext

\* The generator of a node never makes an id that is not larger than all its
\* earlier ones, whatever its clock does.
THEOREM IdsGrow == SnowflakeSpec => []IdsIncrease
<1>1. SnowflakeInit => GeneratorInv
  BY GeneratorInit
<1>2. GeneratorInv /\ [SnowflakeNext]_snowflakeVars => GeneratorInv'
  BY GeneratorStep
<1>3. GeneratorInv => IdsIncrease
  BY DEF GeneratorInv
<1> QED
  BY <1>1, <1>2, <1>3, PTL DEF SnowflakeSpec

\* Two nodes of different instance ids never make the same id, and
\* Snowflake.parse gives back the time an id was made at: entries are told
\* apart and ordered by it.
THEOREM IdsParsed == SnowflakeSpec => [](IdsDisjoint /\ ParsedTime)
<1>1. SnowflakeInit => GeneratorInv
  BY GeneratorInit
<1>2. GeneratorInv /\ [SnowflakeNext]_snowflakeVars => GeneratorInv'
  BY GeneratorStep
<1>3. ASSUME GeneratorInv, NEW g \in Generators, Fits(g), NEW k \in 1..Len(made[g])
      PROVE  /\ times[g][k] \in Nat
             /\ Instance[g] \in Nat /\ Instance[g] < InstanceCap
             /\ \E s \in 0..(SeqCap - 1) :
                    made[g][k] = Id(times[g][k], Instance[g], s)
  <2>1. /\ Len(times[g]) = Len(made[g])
        /\ \E s \in 0..(SeqCap - 1) : made[g][k] = Id(times[g][k], Instance[g], s)
    BY <1>3 DEF GeneratorInv, MadeInv
  <2>2. times[g] \in Seq(Nat)
    BY <1>3 DEF GeneratorInv, GeneratorTypes
  <2>3. times[g][k] \in Nat
    BY <2>1, <2>2
  <2>4. Instance[g] \in Nat /\ Instance[g] < InstanceCap
    BY <1>3, SnowflakeAssumption DEF Fits
  <2> QED
    BY <2>1, <2>3, <2>4
<1>4. GeneratorInv => ParsedTime
  <2> SUFFICES ASSUME GeneratorInv, NEW g \in Generators, Fits(g),
                      NEW k \in 1..Len(made[g])
               PROVE  Parse(made[g][k]).timestamp = times[g][k]
    BY DEF ParsedTime
  <2>1. times[g][k] \in Nat /\ Instance[g] \in Nat /\ Instance[g] < InstanceCap
    BY <1>3
  <2>2. PICK s \in 0..(SeqCap - 1) : made[g][k] = Id(times[g][k], Instance[g], s)
    BY <1>3
  <2>3. Parse(Id(times[g][k], Instance[g], s)).timestamp = times[g][k]
    BY <2>1, ParseTime
  <2> QED
    BY <2>2, <2>3, Zenon
<1>5. GeneratorInv => IdsDisjoint
  <2> SUFFICES ASSUME GeneratorInv, NEW g \in Generators, NEW h \in Generators,
                      Fits(g), Fits(h), Instance[g] # Instance[h],
                      NEW k \in 1..Len(made[g]), NEW l \in 1..Len(made[h])
               PROVE  made[g][k] # made[h][l]
    BY DEF IdsDisjoint
  <2> DEFINE t == times[g][k]
             u == times[h][l]
             i == Instance[g]
             j == Instance[h]
  <2>1. t \in Nat /\ i \in Nat /\ i < InstanceCap
    BY <1>3
  <2>2. u \in Nat /\ j \in Nat /\ j < InstanceCap
    BY <1>3
  <2>3. PICK r \in 0..(SeqCap - 1) : made[g][k] = Id(t, i, r)
    BY <1>3
  <2>4. PICK s \in 0..(SeqCap - 1) : made[h][l] = Id(u, j, s)
    BY <1>3
  <2>5. i # j
    OBVIOUS
  <2> HIDE DEF t, u, i, j
  <2>6. t < u \/ (t = u /\ i < j) => Id(t, i, r) < Id(u, j, s)
    BY <2>1, <2>2, IdOrder
  <2>7. u < t \/ (u = t /\ j < i) => Id(u, j, s) < Id(t, i, r)
    BY <2>1, <2>2, IdOrder
  <2>8. t < u \/ (t = u /\ i < j) \/ u < t \/ (u = t /\ j < i)
    BY <2>1, <2>2, <2>5
  <2>9. Id(t, i, r) \in Nat /\ Id(u, j, s) \in Nat
    BY <2>1, <2>2, IdParts, Zenon DEF PartsApart
  <2> DEFINE x == Id(t, i, r)
             y == Id(u, j, s)
  <2> HIDE DEF x, y
  <2>10. x # y
    BY <2>6, <2>7, <2>8, <2>9 DEF x, y
  <2> QED
    BY <2>3, <2>4, <2>10 DEF x, y
<1> QED
  BY <1>1, <1>2, <1>4, <1>5, PTL DEF SnowflakeSpec
=============================================================================
