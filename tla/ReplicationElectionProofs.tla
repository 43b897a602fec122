--------------------- MODULE ReplicationElectionProofs ---------------------
(***************************************************************************)
(* Theorems about elections, roles and terms, for any finite cluster with  *)
(* one largest instance id and any number of elections, submissions,       *)
(* suspicions, crashes and requests in flight.                             *)
(***************************************************************************)
EXTENDS ReplicationElection, WellFoundedInduction, SequenceTheorems, TLAPS

Kinds == {"election", "submission"}
Started == {"candidate", "won", "lost", "shipping"}
Pcs == Started \cup {"created", "notifying"}
Anyone == Nodes \cup {NoNode}
Entries == [leader : Anyone, term : Nat]

TaskSet ==
    [node : Nodes, kind : Kinds, pc : Pcs, next : Nat, entry : Entries,
     members : SUBSET Nodes, failed : Anyone, probe : Anyone]

Updates ==
    [type : {"update"}, from : Nodes, to : Nodes, term : Nat, entry : Entries, failed : Anyone]
Failures == [type : {"failure", "noted"}, from : Nodes, to : Nodes, failed : Nodes]

\* The types of the fields of the nodes.
NodeTypes ==
    /\ term \in [Nodes -> Nat] /\ logTerm \in [Nodes -> Nat]
    /\ role \in [Nodes -> {"FOLLOWER", "CANDIDATE", "LEADER"}]
    /\ election \in [Nodes -> {"READY", "ACTIVE"}]
    /\ leader \in [Nodes -> Anyone]

\* The types of what a node knows of the others.
WatchTypes ==
    /\ statuses \in [Nodes -> [Nodes -> {"healthy", "suspect", "failed"}]]
    /\ suspicion \in [Nodes -> [Nodes -> {"none", "probing", "judged"}]]

\* A submission is created and ships; an election has all the other awaits.
TaskTypes ==
    /\ IsABag(tasks) /\ Tasks \subseteq TaskSet
    /\ \A k \in Tasks : k.kind = "submission" => k.pc \in {"created", "shipping"}

\* The types of what is under way between the nodes and inside them.
WireTypes ==
    /\ net \subseteq Updates \cup Failures
    /\ adopting \subseteq [node : Nodes, leader : Anyone]
    /\ cancels \in [Nodes -> Seq(Nat)]

\* The types of the rest.
OtherTypes ==
    /\ crashed \subseteq Nodes /\ booted \subseteq Nodes
    /\ elected \subseteq Nodes \X Nat

Types == NodeTypes /\ WatchTypes /\ TaskTypes /\ WireTypes /\ OtherTypes

\* Unless a live node was taken for suspect or failed, a node that does not
\* look healthy has crashed.
AccurateInv ==
    accurate => \A n, m \in Nodes : statuses[n][m] # "healthy" => m \in crashed

\* The node leads or is about to.
Heads(n) == role[n] = "LEADER" \/ \E k \in Tasks : k.node = n /\ k.pc = "won"

\* Then it has the largest instance id of the nodes that live.
HighestInv ==
    accurate => \A n \in Live : Heads(n) => \A m \in Live : Instance[m] <= Instance[n]

\* The node sends updates or may begin to.
Claims(n) ==
    role[n] = "LEADER" \/ \E k \in Tasks : k.node = n /\ (k.kind = "submission" \/ k.pc = "shipping")

\* run_election has begun and its next_term is set.
Standing(k) == k.kind = "election" /\ k.pc \in Started

\* A node that was not interrupted won the term it sends; and since any of
\* its elections began it has won all the terms it came to, so that it has
\* won the one to which the end of the election sets it back, too.
WonInv ==
    /\ \A n \in Nodes \ interrupted : Claims(n) => <<n, term[n]>> \in elected
    /\ \A k \in Tasks : Standing(k) /\ k.node \notin interrupted =>
        \A j \in k.next..term[k.node] : <<k.node, j>> \in elected

\* Unless a term was set back, nothing that is logged, to be logged or under
\* way is of a later term than the node that has it.
LogInv ==
    lowered = {} =>
        /\ \A n \in Nodes : logTerm[n] <= term[n]
        /\ \A k \in Tasks : k.entry.term <= term[k.node]
        /\ \A r \in net : r.type = "update" => r.entry.term <= r.term

ElectionInv ==
    Types /\ ActiveHasElection /\ AccurateInv /\ HighestInv /\ WonInv /\ TermWasWon /\ LogInv

-----------------------------------------------------------------------------
(* The bag of tasks *)

\* What is added to a bag is in it, and so is all that was.
LEMMA BagPlus ==
  ASSUME NEW B, IsABag(B), NEW k
  PROVE  /\ IsABag(B (+) SetToBag({k}))
         /\ BagToSet(B (+) SetToBag({k})) = BagToSet(B) \cup {k}
<1> DEFINE C == SetToBag({k})
           S == B (+) C
<1>1. C = [e \in {k} |-> 1]
  BY DEF SetToBag
<1>2. S = [e \in DOMAIN B \cup {k} |->
              (IF e \in DOMAIN B THEN B[e] ELSE 0) + (IF e \in {k} THEN C[e] ELSE 0)]
  BY <1>1 DEF (+)
<1>3. \A e \in DOMAIN S : S[e] \in {n \in Nat : n > 0}
  BY <1>1, <1>2 DEF IsABag
<1> QED
  BY <1>1, <1>2, <1>3 DEF IsABag, BagToSet

\* Taking one element from a bag leaves all the others.
LEMMA BagMinus ==
  ASSUME NEW B, IsABag(B), NEW k
  PROVE  /\ IsABag(B (-) SetToBag({k}))
         /\ BagToSet(B (-) SetToBag({k})) \subseteq BagToSet(B)
         /\ BagToSet(B) \ {k} \subseteq BagToSet(B (-) SetToBag({k}))
<1> DEFINE C == SetToBag({k})
           D == [e \in DOMAIN B |-> IF e \in DOMAIN C THEN B[e] - C[e] ELSE B[e]]
           S == B (-) C
<1>1. C = [e \in {k} |-> 1]
  BY DEF SetToBag
<1>2. S = [e \in {d \in DOMAIN D : D[d] > 0} |-> D[e]]
  BY DEF (-)
<1>3. \A e \in DOMAIN B : B[e] \in Nat /\ B[e] > 0
  BY DEF IsABag
<1>4. \A e \in DOMAIN B : D[e] \in Int /\ (e # k => D[e] = B[e])
  BY <1>1, <1>3
<1>5. S \in [DOMAIN S -> {n \in Nat : n > 0}]
  <2>1. \A e \in DOMAIN S : e \in DOMAIN B /\ S[e] = D[e] /\ D[e] > 0
    BY <1>2
  <2>2. S = [e \in DOMAIN S |-> S[e]]
    BY <1>2
  <2> HIDE DEF S, D
  <2>3. \A e \in DOMAIN S : S[e] \in Nat /\ S[e] > 0
    BY <1>4, <2>1
  <2> QED
    BY <2>2, <2>3
<1>6. DOMAIN S \subseteq DOMAIN B /\ DOMAIN B \ {k} \subseteq DOMAIN S
  BY <1>2, <1>3, <1>4
<1> QED
  BY <1>5, <1>6 DEF IsABag, BagToSet

\* What an action does to the tasks: l is new, and all but k remain.
NewTask(l) == IsABag(tasks)' /\ l \in Tasks' /\ Tasks' \subseteq Tasks \cup {l}
Remain(k) == Tasks \ {k} \subseteq Tasks'

\* A coroutine that starts joins the others.
LEMMA StartsTask ==
  ASSUME TaskTypes, NEW l, Starts(l)
  PROVE  NewTask(l) /\ Tasks \subseteq Tasks'
BY BagPlus DEF TaskTypes, Starts, NewTask, Tasks

\* A coroutine that goes on to another await takes its own place.
LEMMA BecomesTask ==
  ASSUME TaskTypes, NEW k, NEW l, Becomes(k, l)
  PROVE  NewTask(l) /\ Remain(k)
<1> DEFINE B == tasks (-) SetToBag({k})
<1>1. IsABag(B) /\ BagToSet(B) \subseteq Tasks /\ Tasks \ {k} \subseteq BagToSet(B)
  BY BagMinus DEF TaskTypes, Tasks
<1>2. tasks' = B (+) SetToBag({l})
  BY DEF Becomes
<1>3. IsABag(tasks') /\ Tasks' = BagToSet(B) \cup {l}
  BY <1>1, <1>2, BagPlus DEF Tasks
<1> QED
  BY <1>1, <1>3 DEF NewTask, Remain

\* A coroutine that ends leaves the others alone.
LEMMA EndsTask ==
  ASSUME TaskTypes, NEW k, Ends(k)
  PROVE  IsABag(tasks)' /\ Tasks' \subseteq Tasks /\ Remain(k)
BY BagMinus DEF TaskTypes, Ends, Tasks, Remain

\* Coroutines that are taken away leave the others alone.
LEMMA WithoutTasks ==
  ASSUME TaskTypes, NEW K, tasks' = Without(K)
  PROVE  IsABag(tasks)' /\ Tasks' = Tasks \ K
BY DEF TaskTypes, Without, Tasks, IsABag, BagToSet

\* The types of the tasks after a step that adds one, and after one that
\* adds none.
LEMMA TaskAdded ==
  ASSUME TaskTypes, NEW l \in TaskSet, NewTask(l),
         l.kind = "submission" => l.pc \in {"created", "shipping"}
  PROVE  TaskTypes'
BY DEF TaskTypes, NewTask

\* A step that starts no coroutine keeps their types.
LEMMA NoTaskAdded ==
  ASSUME TaskTypes, IsABag(tasks)', Tasks' \subseteq Tasks
  PROVE  TaskTypes'
BY DEF TaskTypes

-----------------------------------------------------------------------------
(* Instance ids *)

Below == OpToRel(<, Nat)

\* The order of the numbers is well founded.
LEMMA BelowWellFounded == IsWellFoundedOn(Below, Nat) /\ \A i, j \in Nat : <<i, j>> \in Below <=> i < j
<1>1. IsWellFoundedOn(Below, Nat)
  BY NatLessThanWellFounded, Zenon DEF Below
<1>2. \A i, j \in Nat : <<i, j>> \in Below <=> i < j
  BY DEF Below, OpToRel
<1> QED
  BY <1>1, <1>2

\* A set of numbers that is not empty has a least one.
LEMMA LeastNumber ==
  ASSUME NEW T \in SUBSET Nat, T # {}
  PROVE  \E x \in T : \A y \in T : x <= y
<1>1. IsWellFoundedOn(Below, Nat) /\ T \subseteq Nat
  BY BelowWellFounded
<1>2. \E x \in T : \A y \in T : ~ (<<y, x>> \in Below)
  BY <1>1, WFMin, Zenon
<1>3. PICK x \in T : \A y \in T : ~ (<<y, x>> \in Below)
  BY <1>2
<1>4. ASSUME NEW y \in T PROVE x <= y
  <2>1. x \in Nat /\ y \in Nat /\ ~ (<<y, x>> \in Below)
    BY <1>3
  <2>2. ~ (y < x)
    BY <2>1, BelowWellFounded
  <2> QED
    BY <2>1, <2>2
<1> QED
  BY <1>4

\* One node has the largest instance id, and the first leader is that one.
LEMMA TopIsLargest == Top \in Nodes \ Late /\ \A m \in Nodes : Instance[m] <= Instance[Top]
<1>1. Instance \in [Nodes -> Nat]
  BY ElectionAssumption
<1>2. PICK n \in Nodes \ Late : \A m \in Nodes \ {n} : Instance[m] < Instance[n]
  BY ElectionAssumption
<1>3. \A m \in Nodes : Instance[m] <= Instance[n]
  BY <1>1, <1>2
<1>4. Top \in Nodes /\ \A m \in Nodes : Instance[m] <= Instance[Top]
  BY <1>3 DEF Top
<1>5. Top = n
  <2> SUFFICES ASSUME Top # n PROVE FALSE
    OBVIOUS
  <2>1. Instance[Top] < Instance[n] /\ Instance[n] <= Instance[Top]
    BY <1>2, <1>4
  <2> QED
    BY <1>1, <1>4, <2>1
<1> QED
  BY <1>4, <1>5

\* Some node of a set of nodes has the largest id of the set.
LEMMA LargestOf ==
  ASSUME NEW S \in SUBSET Nodes, S # {}
  PROVE  \E m \in S : \A o \in S : Instance[o] <= Instance[m]
<1> DEFINE Gap(m) == Instance[Top] - Instance[m]
           T == {Gap(m) : m \in S}
<1>1. Instance \in [Nodes -> Nat] /\ Top \in Nodes
  BY ElectionAssumption, TopIsLargest
<1>2. \A m \in S : Gap(m) \in Nat
  BY <1>1, TopIsLargest
<1>3. T \in SUBSET Nat /\ T # {}
  BY <1>2
<1>4. PICK x \in T : \A y \in T : x <= y
  BY <1>3, LeastNumber
<1>5. PICK m \in S : x = Gap(m)
  OBVIOUS
<1>6. \A o \in S : Gap(m) <= Gap(o)
  BY <1>4, <1>5
<1>7. \A o \in S : Instance[o] <= Instance[m]
  BY <1>1, <1>6
<1> QED
  BY <1>7

\* The node that _get_max_instance_id finds; if it is the node itself, no
\* node that looks healthy has a larger id.
LEMMA WinnerFound ==
  ASSUME NEW n \in Nodes
  PROVE  /\ GetMaxInstanceId(n) \in Nodes
         /\ GetMaxInstanceId(n) = n => \A m \in Healthy(n) : Instance[m] <= Instance[n]
<1> DEFINE candidates == Healthy(n) \cup {n}
           top == {m \in candidates : \A o \in candidates : Instance[o] <= Instance[m]}
<1>1. candidates \in SUBSET Nodes /\ candidates # {}
  BY DEF Healthy
<1>2. top # {} /\ top \subseteq Nodes
  <2> HIDE DEF candidates
  <2>1. \E m \in candidates : \A o \in candidates : Instance[o] <= Instance[m]
    BY <1>1, LargestOf
  <2> QED
    BY <1>1, <2>1
<1>3. GetMaxInstanceId(n) = IF n \in top THEN n ELSE CHOOSE m \in top : TRUE
  BY DEF GetMaxInstanceId
<1>4. GetMaxInstanceId(n) \in top
  <2> HIDE DEF top
  <2> QED
    BY <1>2, <1>3
<1> QED
  BY <1>2, <1>4

-----------------------------------------------------------------------------
(* What most steps do: each invariant is kept by any step of this kind *)

\* An ACTIVE status has the election it had, or a new one.
ElectionsGoOn ==
    /\ crashed \subseteq crashed' /\ stalled \subseteq stalled'
    /\ \A n \in Nodes \ crashed' : election'[n] = "ACTIVE" /\ n \notin stalled' =>
        /\ election[n] = "ACTIVE" \/ \E l \in Tasks' : l.node = n /\ l.kind = "election"
        /\ \A k \in Tasks : k.node = n /\ k.kind = "election" =>
            \E l \in Tasks' : l.node = n /\ l.kind = "election"

\* Elections that go on keep ActiveHasElection.
LEMMA ElectionsKept ==
  ASSUME ActiveHasElection, ElectionsGoOn
  PROVE  ActiveHasElection'
<1> SUFFICES ASSUME NEW n \in Live', election'[n] = "ACTIVE", n \notin stalled'
             PROVE  \E l \in Tasks' : l.node = n /\ l.kind = "election"
  BY DEF ActiveHasElection, Electing
<1>1. n \in Nodes \ crashed' /\ n \in Live /\ n \notin stalled
  BY DEF Live, ElectionsGoOn
<1>2. CASE election[n] = "ACTIVE"
  <2>1. \E k \in Tasks : k.node = n /\ k.kind = "election"
    BY <1>1, <1>2 DEF ActiveHasElection, Electing
  <2> QED
    BY <1>1, <2>1 DEF ElectionsGoOn
<1> QED
  BY <1>1, <1>2 DEF ElectionsGoOn

\* No live node has a larger instance id.
Largest(n) == accurate => \A m \in Live : Instance[m] <= Instance[n]

\* Nobody takes the lead who was not about to or has the largest id.
HeadsGoOn ==
    /\ (accurate' => accurate) /\ crashed \subseteq crashed'
    /\ \A n \in Nodes : role'[n] = "LEADER" => Heads(n)
    /\ \A l \in Tasks' \ Tasks : l.pc = "won" => Heads(l.node) \/ Largest(l.node)

\* Who leads, or is about to, still has the largest id of those that live.
LEMMA HeadsKept ==
  ASSUME HighestInv, HeadsGoOn
  PROVE  HighestInv'
<1> SUFFICES ASSUME accurate', NEW n \in Live', Heads(n)', NEW m \in Live'
             PROVE  Instance[m] <= Instance[n]
  BY DEF HighestInv
<1>1. n \in Live /\ m \in Live /\ n \in Nodes
  BY DEF Live, HeadsGoOn
<1>2. Heads(n) \/ Largest(n)
  <2>1. CASE role'[n] = "LEADER"
    BY <1>1, <2>1 DEF HeadsGoOn
  <2>2. CASE \E k \in Tasks' : k.node = n /\ k.pc = "won"
    <3>1. PICK k \in Tasks' : k.node = n /\ k.pc = "won"
      BY <2>2
    <3>2. CASE k \in Tasks
      BY <3>1, <3>2 DEF Heads
    <3> QED
      BY <3>1, <3>2 DEF HeadsGoOn
  <2> QED
    BY <2>1, <2>2 DEF Heads
<1> QED
  BY <1>1, <1>2 DEF HighestInv, HeadsGoOn, Largest

\* Terms are kept, won, or set back to that of an election - or the node
\* neither leads nor has tasks; and nobody begins to send a term not won.
TermsGoOn ==
    /\ interrupted \subseteq interrupted' /\ elected \subseteq elected'
    /\ \A n \in Nodes \ interrupted' :
        /\ \/ term'[n] = term[n]
           \/ term'[n] = term[n] + 1 /\ <<n, term'[n]>> \in elected'
           \/ \E k \in Tasks : Standing(k) /\ k.node = n /\ k.next = term'[n] /\ term'[n] <= term[n]
           \/ ~ Claims(n) /\ \A k \in Tasks : k.node # n
        /\ role'[n] = "LEADER" => Claims(n) \/ <<n, term'[n]>> \in elected'
    /\ \A l \in Tasks' \ Tasks :
        /\ l.kind = "submission" \/ l.pc = "shipping" =>
            Claims(l.node) \/ <<l.node, term'[l.node]>> \in elected'
        /\ Standing(l) =>
            \/ l.next = term[l.node] + 1 /\ term'[l.node] = term[l.node]
            \/ \E k \in Tasks : Standing(k) /\ k.node = l.node /\ k.next = l.next

\* Nodes that go on as they were, or stand for election, send terms they won.
LEMMA TermsKept ==
  ASSUME Types, Types', WonInv, TermsGoOn
  PROVE  WonInv'
<1>1. ASSUME NEW n \in Nodes \ interrupted', Claims(n)'
      PROVE  <<n, term'[n]>> \in elected'
  <2>1. n \in Nodes \ interrupted /\ term[n] \in Nat /\ term'[n] \in Nat
    BY <1>1 DEF TermsGoOn, Types, NodeTypes
  <2>2. Claims(n) \/ <<n, term'[n]>> \in elected'
    <3>1. CASE role'[n] = "LEADER"
      BY <1>1, <3>1 DEF TermsGoOn
    <3>2. CASE \E k \in Tasks' : k.node = n /\ (k.kind = "submission" \/ k.pc = "shipping")
      <4>1. PICK k \in Tasks' : k.node = n /\ (k.kind = "submission" \/ k.pc = "shipping")
        BY <3>2
      <4>2. CASE k \in Tasks
        BY <4>1, <4>2 DEF Claims
      <4> QED
        BY <4>1, <4>2 DEF TermsGoOn
    <3> QED
      BY <1>1, <3>1, <3>2 DEF Claims
  <2>3. CASE Claims(n) /\ term'[n] = term[n]
    BY <2>1, <2>3 DEF WonInv, TermsGoOn
  <2>4. CASE \E k \in Tasks : Standing(k) /\ k.node = n /\ k.next = term'[n] /\ term'[n] <= term[n]
    <3>1. PICK k \in Tasks : Standing(k) /\ k.node = n /\ k.next = term'[n] /\ term'[n] <= term[n]
      BY <2>4
    <3>2. term'[n] \in k.next..term[k.node]
      BY <2>1, <3>1
    <3> QED
      BY <2>1, <3>1, <3>2 DEF WonInv, TermsGoOn
  <2> QED
    BY <1>1, <2>2, <2>3, <2>4 DEF TermsGoOn
<1>2. ASSUME NEW l \in Tasks', Standing(l), l.node \notin interrupted', NEW j \in l.next..term'[l.node]
      PROVE  <<l.node, j>> \in elected'
  <2> DEFINE n == l.node
  <2>1. n \in Nodes \ interrupted' /\ n \notin interrupted
    BY <1>2 DEF Types, TaskTypes, TaskSet, TermsGoOn
  <2>2. /\ term[n] \in Nat /\ term'[n] \in Nat /\ l.next \in Nat
        /\ j \in Int /\ l.next <= j /\ j <= term'[n]
    BY <1>2, <2>1 DEF Types, NodeTypes, TaskTypes, TaskSet
  <2>3. CASE j = term'[n] /\ <<n, term'[n]>> \in elected'
    BY <2>3
  <2>4. CASE j <= term[n] /\ \E k \in Tasks : Standing(k) /\ k.node = n /\ k.next = l.next
    <3>1. PICK k \in Tasks : Standing(k) /\ k.node = n /\ k.next = l.next
      BY <2>4
    <3>2. j \in k.next..term[k.node]
      BY <2>2, <2>4, <3>1
    <3> QED
      BY <2>1, <3>1, <3>2 DEF WonInv, TermsGoOn
  <2>5. CASE l.next = term[n] + 1 /\ term'[n] = term[n]
    BY <2>2, <2>5
  <2>6. CASE \E k \in Tasks : Standing(k) /\ k.node = n /\ k.next = l.next
    <3>1. \/ term'[n] <= term[n]
          \/ term'[n] = term[n] + 1 /\ <<n, term'[n]>> \in elected'
      BY <2>1, <2>2, <2>6 DEF TermsGoOn
    <3>2. j <= term[n] \/ (j = term'[n] /\ <<n, term'[n]>> \in elected')
      BY <2>2, <3>1
    <3> QED
      BY <2>3, <2>4, <2>6, <3>2
  <2> QED
    BY <1>2, <2>5, <2>6 DEF TermsGoOn
<1> QED
  BY <1>1, <1>2 DEF WonInv

\* An update that is sent carries a term that was won.
UpdatesGoOn ==
    /\ interrupted \subseteq interrupted' /\ elected \subseteq elected'
    /\ \A r \in net' \ net : r.type = "update" =>
        r.from \in interrupted' \/ <<r.from, r.term>> \in elected'

\* New updates carry terms that were won, and the others did.
LEMMA UpdatesKept ==
  ASSUME TermWasWon, UpdatesGoOn
  PROVE  TermWasWon'
BY DEF TermWasWon, UpdatesGoOn

\* No term falls, and what is logged or sent comes from the tasks.
LogsGoOn ==
    /\ lowered \subseteq lowered'
    /\ lowered' = {} => \A n \in Nodes :
        term[n] <= term'[n] /\ (logTerm'[n] = logTerm[n] \/ logTerm'[n] <= term'[n])
    /\ lowered' = {} => \A l \in Tasks' \ Tasks :
        \/ l.entry.term <= term'[l.node]
        \/ \E k \in Tasks : k.node = l.node /\ k.entry = l.entry
    /\ lowered' = {} => \A r \in net' \ net : r.type = "update" => r.entry.term <= r.term

\* Logs that are kept are not ahead.
LEMMA LogsKept ==
  ASSUME Types, Types', LogInv, LogsGoOn
  PROVE  LogInv'
<1> SUFFICES ASSUME lowered' = {} PROVE LogInv'
  BY DEF LogInv
<1>1. lowered = {}
  BY DEF LogsGoOn
<1>2. ASSUME NEW n \in Nodes PROVE logTerm'[n] <= term'[n]
  <2>1. /\ term[n] \in Nat /\ term'[n] \in Nat /\ logTerm[n] \in Nat /\ logTerm'[n] \in Nat
        /\ logTerm[n] <= term[n]
    BY <1>1 DEF Types, NodeTypes, LogInv
  <2> QED
    BY <2>1 DEF LogsGoOn
<1>3. ASSUME NEW l \in Tasks' PROVE l.entry.term <= term'[l.node]
  <2>1. CASE l.entry.term <= term'[l.node]
    BY <2>1
  <2>2. CASE \E k \in Tasks : k.node = l.node /\ k.entry = l.entry
    <3>1. PICK k \in Tasks : k.node = l.node /\ k.entry = l.entry
      BY <2>2
    <3>2. k.entry.term <= term[k.node] /\ k.node \in Nodes /\ k.entry.term \in Nat
      BY <1>1 DEF LogInv, Types, TaskTypes, TaskSet, Entries
    <3>3. term[k.node] <= term'[k.node] /\ term[k.node] \in Nat /\ term'[k.node] \in Nat
      BY <3>2 DEF LogsGoOn, Types, NodeTypes
    <3> QED
      BY <3>1, <3>2, <3>3
  <2> QED
    BY <2>1, <2>2 DEF LogsGoOn
<1>4. ASSUME NEW r \in net', r.type = "update" PROVE r.entry.term <= r.term
  BY <1>1, <1>4 DEF LogInv, LogsGoOn
<1> QED
  BY <1>2, <1>3, <1>4 DEF LogInv

\* Nothing looks worse than it did.
LooksNoWorse ==
    /\ (accurate' => accurate) /\ crashed \subseteq crashed'
    /\ \A n, m \in Nodes : statuses'[n][m] # "healthy" =>
        statuses[n][m] # "healthy" \/ (accurate' => m \in crashed')

\* What the nodes see of each other stays accurate.
LEMMA LooksKept ==
  ASSUME AccurateInv, LooksNoWorse
  PROVE  AccurateInv'
BY DEF AccurateInv, LooksNoWorse

\* A step that is of all these kinds keeps the invariant.
Ordinary ==
    /\ Types' /\ ElectionsGoOn /\ HeadsGoOn /\ TermsGoOn
    /\ UpdatesGoOn /\ LogsGoOn /\ LooksNoWorse

\* A step that is ordinary in all respects keeps the invariant.
LEMMA OrdinaryStep ==
  ASSUME ElectionInv, Ordinary
  PROVE  ElectionInv'
BY ElectionsKept, HeadsKept, TermsKept, UpdatesKept, LogsKept, LooksKept DEF ElectionInv, Ordinary

-----------------------------------------------------------------------------
(* Steps of the watch *)

\* Suspect, AnswerHealthy and EndSuspicion touch only what a node knows of
\* another; a live node that is taken for suspect is on record.
LEMMA WatchSteps ==
  ASSUME ElectionInv, NEW n \in Nodes, NEW m \in Nodes,
         Suspect(n, m) \/ AnswerHealthy(n, m) \/ EndSuspicion(n, m)
  PROVE  Ordinary
<1> USE DEF nodeVars, wireVars, hostVars, taskVars, historyVars
<1>1. /\ UNCHANGED <<nodeVars, wireVars, hostVars, taskVars, interrupted, stalled, lowered, elected>>
      /\ accurate' => accurate
      /\ \A o, q \in Nodes : statuses'[o][q] # "healthy" =>
            statuses[o][q] # "healthy" \/ (accurate' => q \in crashed')
      /\ WatchTypes'
  <2>1. WatchTypes
    BY DEF ElectionInv, Types
  <2>2. CASE Suspect(n, m)
    BY <2>1, <2>2 DEF Suspect, WatchTypes
  <2>3. CASE AnswerHealthy(n, m)
    BY <2>1, <2>3 DEF AnswerHealthy, WatchTypes
  <2>4. CASE EndSuspicion(n, m)
    BY <2>1, <2>4 DEF EndSuspicion, WatchTypes
  <2> QED
    BY <2>2, <2>3, <2>4
<1>2. Tasks' = Tasks
  BY <1>1 DEF Tasks
<1>3. Types'
  BY <1>1, <1>2 DEF ElectionInv, Types, NodeTypes, TaskTypes, WireTypes, OtherTypes
<1>4. ElectionsGoOn
  BY <1>1, <1>2 DEF ElectionsGoOn
<1>5. HeadsGoOn /\ TermsGoOn
  BY <1>1, <1>2 DEF HeadsGoOn, TermsGoOn, Heads, Claims
<1>6. LogsGoOn
  BY <1>1, <1>2 DEF LogsGoOn, ElectionInv, Types, NodeTypes
<1>7. UpdatesGoOn /\ LooksNoWorse
  BY <1>1 DEF UpdatesGoOn, LooksNoWorse
<1> QED
  BY <1>3, <1>4, <1>5, <1>6, <1>7 DEF Ordinary

\* The tasks after suspicions were called off.
LEMMA CancelledProbe ==
  ASSUME TaskTypes, WatchTypes, NEW n \in Nodes, NEW M, CancelSuspicionProbe(n, M)
  PROVE  /\ TaskTypes' /\ Tasks' \subseteq Tasks /\ stalled \subseteq stalled'
         /\ \A k \in Tasks : k \in Tasks' \/ k.node \in stalled'
         /\ suspicion' \in [Nodes -> [Nodes -> {"none", "probing", "judged"}]]
<1> DEFINE halted == {k \in Electing(n) : k.probe \in M}
<1>1. tasks' = Without(halted) /\ stalled' = stalled \cup IF halted # {} THEN {n} ELSE {}
  BY DEF CancelSuspicionProbe
<1>2. IsABag(tasks)' /\ Tasks' = Tasks \ halted
  <2> HIDE DEF halted
  <2> QED
    BY <1>1, WithoutTasks
<1>3. TaskTypes'
  BY <1>2, NoTaskAdded
<1>4. \A k \in halted : k.node = n
  BY DEF Electing
<1>5. suspicion' \in [Nodes -> [Nodes -> {"none", "probing", "judged"}]]
  <2>1. suspicion' = [suspicion EXCEPT ![n] = [m \in Nodes |-> IF m \in M THEN "none" ELSE @[m]]]
    BY DEF CancelSuspicionProbe
  <2>2. suspicion \in [Nodes -> [Nodes -> {"none", "probing", "judged"}]]
    BY DEF WatchTypes
  <2> QED
    BY <2>1, <2>2
<1> HIDE DEF halted
<1> QED
  BY <1>1, <1>2, <1>3, <1>4, <1>5

\* update_node_health may halt elections that ran in the suspicion.
LEMMA UpdateNodeHealthStep ==
  ASSUME ElectionInv, NEW n \in Nodes, NEW m \in Nodes, UpdateNodeHealth(n, m)
  PROVE  Ordinary
<1> USE DEF nodeVars, wireVars, hostVars, counts
<1>1. /\ UNCHANGED <<nodeVars, wireVars, hostVars, accurate, interrupted, lowered, elected>>
      /\ statuses' = [statuses EXCEPT ![n][m] = "healthy"]
      /\ CancelSuspicionProbe(n, {m})
  BY DEF UpdateNodeHealth
<1>2. Types
  BY DEF ElectionInv
<1>3. /\ TaskTypes' /\ Tasks' \subseteq Tasks /\ stalled \subseteq stalled'
      /\ \A k \in Tasks : k \in Tasks' \/ k.node \in stalled'
      /\ suspicion' \in [Nodes -> [Nodes -> {"none", "probing", "judged"}]]
  BY <1>1, <1>2, CancelledProbe, Zenon DEF Types
<1>4. WatchTypes' /\ \A o, q \in Nodes : statuses'[o][q] # "healthy" => statuses[o][q] # "healthy"
  BY <1>1, <1>2, <1>3 DEF Types, WatchTypes
<1>5. Types'
  BY <1>1, <1>2, <1>3, <1>4 DEF Types, NodeTypes, WireTypes, OtherTypes
<1>6. ElectionsGoOn
  BY <1>1, <1>3 DEF ElectionsGoOn
<1>7. HeadsGoOn /\ TermsGoOn
  BY <1>1, <1>3 DEF HeadsGoOn, TermsGoOn, Heads, Claims
<1>8. LogsGoOn
  BY <1>1, <1>2, <1>3 DEF LogsGoOn, Types, NodeTypes
<1>9. UpdatesGoOn /\ LooksNoWorse
  BY <1>1, <1>4 DEF UpdatesGoOn, LooksNoWorse
<1> QED
  BY <1>5, <1>6, <1>7, <1>8, <1>9 DEF Ordinary

\* receive_log_update of no higher term logs an entry that is of no later
\* term than the message, and so of no later term than the node.
LEMMA ReceiveLogUpdateStep ==
  ASSUME ElectionInv, NEW r \in net, ReceiveLogUpdate(r)
  PROVE  Ordinary
<1> DEFINE n == r.to
<1> USE DEF nodeVars, hostVars, counts
<1>1. /\ UNCHANGED <<term, role, election, leader, statuses, adopting, cancels, hostVars,
                     accurate, interrupted, lowered, elected>>
      /\ r.type = "update" /\ r.term <= term[n] /\ net' = net \ {r}
      /\ CancelSuspicionProbe(n, {r.from, r.failed} \ {NoNode})
      /\ LogUpdate(n, r.entry)
  BY DEF ReceiveLogUpdate
<1>2. Types /\ LogInv
  BY DEF ElectionInv
<1>3. r \in Updates
  BY <1>1, <1>2 DEF Types, WireTypes, Failures
<1>4. n \in Nodes /\ r.entry.term \in Nat /\ r.term \in Nat
  BY <1>3 DEF Updates, Entries
<1>5. /\ TaskTypes' /\ Tasks' \subseteq Tasks /\ stalled \subseteq stalled'
      /\ \A k \in Tasks : k \in Tasks' \/ k.node \in stalled'
      /\ suspicion' \in [Nodes -> [Nodes -> {"none", "probing", "judged"}]]
  BY <1>1, <1>2, <1>4, CancelledProbe, Zenon DEF Types
<1>6. logTerm' \in [Nodes -> Nat] /\ \A o \in Nodes : logTerm'[o] = logTerm[o] \/ (o = n /\ logTerm'[o] = r.entry.term)
  BY <1>1, <1>2, <1>4 DEF LogUpdate, Types, NodeTypes
<1>7. Types'
  BY <1>1, <1>2, <1>5, <1>6 DEF Types, NodeTypes, WatchTypes, WireTypes, OtherTypes
<1>8. ElectionsGoOn
  BY <1>1, <1>5 DEF ElectionsGoOn
<1>9. HeadsGoOn /\ TermsGoOn
  BY <1>1, <1>5 DEF HeadsGoOn, TermsGoOn, Heads, Claims
<1>10. LogsGoOn
  <2>1. lowered = {} => r.entry.term <= term[n]
    <3>1. lowered = {} => r.entry.term <= r.term
      BY <1>1, <1>2 DEF LogInv
    <3> QED
      BY <1>1, <1>2, <1>4, <3>1 DEF Types, NodeTypes
  <2>2. \A o \in Nodes : term[o] \in Nat /\ term'[o] = term[o]
    BY <1>1, <1>2 DEF Types, NodeTypes
  <2> QED
    BY <1>1, <1>5, <1>6, <2>1, <2>2 DEF LogsGoOn
<1>11. UpdatesGoOn /\ LooksNoWorse
  BY <1>1 DEF UpdatesGoOn, LooksNoWorse
<1> QED
  BY <1>7, <1>8, <1>9, <1>10, <1>11 DEF Ordinary

\* The second half of receive_log_update makes a follower of the node.
LEMMA AdoptLeaderStep ==
  ASSUME ElectionInv, NEW a \in adopting, AdoptLeader(a)
  PROVE  Ordinary
<1> DEFINE n == a.node
<1> USE DEF watchVars, hostVars, taskVars, historyVars
<1>1. /\ UNCHANGED <<term, logTerm, watchVars, net, cancels, hostVars, taskVars, historyVars>>
      /\ adopting' = adopting \ {a}
      /\ leader' = [leader EXCEPT ![n] = a.leader]
      /\ election' = [election EXCEPT ![n] = "READY"]
      /\ role' = [role EXCEPT ![n] = "FOLLOWER"]
  BY DEF AdoptLeader
<1>2. Types
  BY DEF ElectionInv
<1>3. n \in Nodes /\ a.leader \in Anyone
  BY <1>2 DEF Types, WireTypes
<1>4. Tasks' = Tasks
  BY <1>1 DEF Tasks
<1>5. NodeTypes' /\ \A o \in Nodes : /\ election'[o] = "ACTIVE" => election[o] = "ACTIVE"
                                     /\ role'[o] = "LEADER" => role[o] = "LEADER"
  BY <1>1, <1>2, <1>3 DEF Types, NodeTypes
<1>6. Types'
  BY <1>1, <1>2, <1>4, <1>5 DEF Types, WatchTypes, TaskTypes, WireTypes, OtherTypes
<1>7. ElectionsGoOn
  BY <1>1, <1>4, <1>5 DEF ElectionsGoOn
<1>8. HeadsGoOn /\ TermsGoOn
  BY <1>1, <1>4, <1>5 DEF HeadsGoOn, TermsGoOn, Heads, Claims
<1>9. LogsGoOn
  BY <1>1, <1>2, <1>4 DEF LogsGoOn, Types, NodeTypes
<1>10. UpdatesGoOn /\ LooksNoWorse
  BY <1>1 DEF UpdatesGoOn, LooksNoWorse
<1> QED
  BY <1>6, <1>7, <1>8, <1>9, <1>10 DEF Ordinary

\* What a crash leaves of the wires and the tasks is what was there.
LEMMA CrashStep ==
  ASSUME ElectionInv, NEW n \in Nodes, Crash(n)
  PROVE  Ordinary
<1> DEFINE mine == {k \in Tasks : k.node = n}
<1> USE DEF nodeVars, watchVars, counts, historyVars
<1>1. /\ UNCHANGED <<nodeVars, watchVars, booted, counts, historyVars>>
      /\ crashed' = crashed \cup {n} /\ tasks' = Without(mine)
      /\ net' = {r \in net : r.to # n} /\ adopting' = {a \in adopting : a.node # n}
      /\ cancels' = [cancels EXCEPT ![n] = <<>>]
  BY DEF Crash
<1>2. Types
  BY DEF ElectionInv
<1>3. IsABag(tasks)' /\ Tasks' = Tasks \ mine
  <2> HIDE DEF mine
  <2> QED
    BY <1>1, <1>2, WithoutTasks DEF Types
<1>4. TaskTypes'
  BY <1>2, <1>3, NoTaskAdded DEF Types
<1>5. WireTypes'
  <2>1. cancels' \in [Nodes -> Seq(Nat)]
    BY <1>1, <1>2 DEF Types, WireTypes
  <2> QED
    BY <1>1, <1>2, <2>1 DEF Types, WireTypes
<1>6. Types'
  BY <1>1, <1>2, <1>4, <1>5 DEF Types, NodeTypes, WatchTypes, OtherTypes
<1>7. ElectionsGoOn
  BY <1>1, <1>3 DEF ElectionsGoOn
<1>8. HeadsGoOn /\ TermsGoOn
  BY <1>1, <1>3 DEF HeadsGoOn, TermsGoOn, Heads, Claims
<1>9. LogsGoOn
  BY <1>1, <1>2, <1>3 DEF LogsGoOn, Types, NodeTypes
<1>10. UpdatesGoOn /\ LooksNoWorse
  BY <1>1 DEF UpdatesGoOn, LooksNoWorse
<1> QED
  BY <1>6, <1>7, <1>8, <1>9, <1>10 DEF Ordinary

-----------------------------------------------------------------------------
(* Steps that create a task *)

\* register() begins the election itself, for the term after its own.
LEMMA BootStep ==
  ASSUME ElectionInv, NEW n \in Nodes, Boot(n)
  PROVE  Ordinary
<1> USE DEF watchVars, wireVars, historyVars
<1>1. /\ UNCHANGED <<term, leader, logTerm, watchVars, wireVars, crashed, historyVars>>
      /\ booted' = booted \cup {n}
  BY DEF Boot
<1>2. Types
  BY DEF ElectionInv
<1>3. CASE term[n] # 0
  <2>1. UNCHANGED <<election, role, tasks>>
    BY <1>3 DEF Boot
  <2>2. Tasks' = Tasks
    BY <2>1 DEF Tasks
  <2>3. Types'
    BY <1>1, <1>2, <2>1, <2>2 DEF Types, NodeTypes, WatchTypes, TaskTypes, WireTypes, OtherTypes
  <2>4. ElectionsGoOn
    BY <1>1, <2>1, <2>2 DEF ElectionsGoOn
  <2>5. HeadsGoOn /\ TermsGoOn
    BY <1>1, <2>1, <2>2 DEF HeadsGoOn, TermsGoOn, Heads, Claims
  <2>6. LogsGoOn
    BY <1>1, <1>2, <2>2 DEF LogsGoOn, Types, NodeTypes
  <2>7. UpdatesGoOn /\ LooksNoWorse
    BY <1>1 DEF UpdatesGoOn, LooksNoWorse
  <2> QED
    BY <2>3, <2>4, <2>5, <2>6, <2>7 DEF Ordinary
<1>4. CASE term[n] = 0
  <2> DEFINE l == [Task(n, "election", "candidate", NoNode) EXCEPT !.next = 1]
  <2>1. /\ election' = [election EXCEPT ![n] = "ACTIVE"]
        /\ role' = [role EXCEPT ![n] = "CANDIDATE"]
        /\ Starts(l)
    BY <1>4 DEF Boot, RunElection, StartsElection
  <2>2. /\ l \in TaskSet /\ l.node = n /\ l.kind = "election" /\ l.pc = "candidate"
        /\ l.entry = Entry(NoNode, 0) /\ l.next = 1
    BY DEF Task, TaskSet, Entry, Entries, Anyone, Kinds, Pcs, Started
  <2> HIDE DEF l
  <2>3. NewTask(l) /\ Tasks \subseteq Tasks'
    BY <1>2, <2>1, StartsTask DEF Types
  <2>4. TaskTypes'
    BY <1>2, <2>2, <2>3, TaskAdded DEF Types
  <2>5. NodeTypes' /\ \A o \in Nodes : /\ role'[o] = "LEADER" => role[o] = "LEADER"
                                       /\ o # n => election'[o] = election[o]
    BY <1>1, <1>2, <2>1 DEF Types, NodeTypes
  <2>6. Types'
    BY <1>1, <1>2, <2>4, <2>5 DEF Types, WatchTypes, WireTypes, OtherTypes
  <2>7. ElectionsGoOn
    BY <1>1, <2>2, <2>3, <2>5 DEF ElectionsGoOn, NewTask
  <2>8. HeadsGoOn
    BY <1>1, <2>2, <2>3, <2>5 DEF HeadsGoOn, Heads, NewTask
  <2>9. TermsGoOn
    BY <1>1, <1>4, <2>2, <2>3, <2>5 DEF TermsGoOn, Claims, NewTask
  <2>10. LogsGoOn
    BY <1>1, <1>2, <2>2, <2>3 DEF LogsGoOn, NewTask, Types, NodeTypes, Entry
  <2>11. UpdatesGoOn /\ LooksNoWorse
    BY <1>1 DEF UpdatesGoOn, LooksNoWorse
  <2> QED
    BY <2>6, <2>7, <2>8, <2>9, <2>10, <2>11 DEF Ordinary
<1> QED
  BY <1>3, <1>4

\* A leader's periodic submission carries the leader's term.
LEMMA RunRaftMonitorStep ==
  ASSUME ElectionInv, NEW n \in Nodes, RunRaftMonitor(n)
  PROVE  Ordinary
<1> DEFINE l == [Task(n, "submission", "created", NoNode) EXCEPT !.entry = Entry(n, term[n])]
<1> USE DEF nodeVars, watchVars, wireVars, hostVars, historyVars
<1>1. /\ UNCHANGED <<nodeVars, watchVars, wireVars, hostVars, historyVars>>
      /\ role[n] = "LEADER" /\ Starts(l)
  BY DEF RunRaftMonitor
<1>2. Types
  BY DEF ElectionInv
<1>3. term[n] \in Nat
  BY <1>2 DEF Types, NodeTypes
<1>4. /\ l \in TaskSet /\ l.node = n /\ l.kind = "submission" /\ l.pc = "created"
      /\ l.entry.term = term[n]
  BY <1>3 DEF Task, TaskSet, Entry, Entries, Anyone, Kinds, Pcs, Started
<1> HIDE DEF l
<1>5. NewTask(l) /\ Tasks \subseteq Tasks'
  BY <1>1, <1>2, StartsTask DEF Types
<1>6. TaskTypes'
  BY <1>2, <1>4, <1>5, TaskAdded DEF Types
<1>7. Types'
  BY <1>1, <1>2, <1>6 DEF Types, NodeTypes, WatchTypes, WireTypes, OtherTypes
<1>8. ElectionsGoOn
  BY <1>1, <1>5 DEF ElectionsGoOn
<1>9. HeadsGoOn
  BY <1>1, <1>4, <1>5 DEF HeadsGoOn, Heads, NewTask
<1>10. TermsGoOn
  BY <1>1, <1>4, <1>5 DEF TermsGoOn, Claims, NewTask, Standing
<1>11. LogsGoOn
  <2>1. \A o \in Nodes : term[o] \in Nat
    BY <1>2 DEF Types, NodeTypes
  <2> QED
    BY <1>1, <1>3, <1>4, <1>5, <2>1 DEF LogsGoOn, NewTask
<1>12. UpdatesGoOn /\ LooksNoWorse
  BY <1>1 DEF UpdatesGoOn, LooksNoWorse
<1> QED
  BY <1>7, <1>8, <1>9, <1>10, <1>11, <1>12 DEF Ordinary

\* The end of a suspicion: the election is ACTIVE from the notification on.
LEMMA StartSuspectMonitorStep ==
  ASSUME ElectionInv, NEW n \in Nodes, NEW m \in Nodes, StartSuspectMonitor(n, m)
  PROVE  Ordinary
<1> USE DEF hostVars, historyVars
<1>1. /\ UNCHANGED <<term, role, leader, logTerm, statuses, adopting, cancels, hostVars, historyVars>>
      /\ suspicion' = [suspicion EXCEPT ![n][m] = "none"]
  BY DEF StartSuspectMonitor
<1>2. Types
  BY DEF ElectionInv
<1>3. WatchTypes'
  BY <1>1, <1>2 DEF Types, WatchTypes
<1>4. CASE UNCHANGED <<election, tasks, net>>
  <2>1. Tasks' = Tasks
    BY <1>4 DEF Tasks
  <2>2. Types'
    BY <1>1, <1>2, <1>3, <1>4, <2>1 DEF Types, NodeTypes, TaskTypes, WireTypes, OtherTypes
  <2>3. ElectionsGoOn
    BY <1>1, <1>4, <2>1 DEF ElectionsGoOn
  <2>4. HeadsGoOn /\ TermsGoOn
    BY <1>1, <2>1 DEF HeadsGoOn, TermsGoOn, Heads, Claims
  <2>5. LogsGoOn
    BY <1>1, <1>2, <1>4, <2>1 DEF LogsGoOn, Types, NodeTypes
  <2>6. UpdatesGoOn /\ LooksNoWorse
    BY <1>1, <1>4 DEF UpdatesGoOn, LooksNoWorse
  <2> QED
    BY <2>2, <2>3, <2>4, <2>5, <2>6 DEF Ordinary
<1>5. CASE /\ election' = [election EXCEPT ![n] = "ACTIVE"]
           /\ StartsElection([Task(n, "election", "notifying", m)
                                 EXCEPT !.probe = m, !.members = Healthy(n)])
           /\ Send({[type |-> "failure", from |-> n, to |-> o, failed |-> m] : o \in Healthy(n)})
  <2> DEFINE l == [Task(n, "election", "notifying", m) EXCEPT !.probe = m, !.members = Healthy(n)]
  <2>1. /\ l \in TaskSet /\ l.node = n /\ l.kind = "election" /\ l.pc = "notifying"
        /\ l.entry = Entry(NoNode, 0)
    BY DEF Task, TaskSet, Entry, Entries, Anyone, Kinds, Pcs, Healthy
  <2>2. Starts(l)
    BY <1>5 DEF StartsElection
  <2>3. \A r \in net' \ net : r \in Failures
    BY <1>5 DEF Send, Failures, Healthy
  <2> HIDE DEF l
  <2>4. NewTask(l) /\ Tasks \subseteq Tasks'
    BY <1>2, <2>2, StartsTask DEF Types
  <2>5. TaskTypes'
    BY <1>2, <2>1, <2>4, TaskAdded DEF Types
  <2>6. NodeTypes' /\ \A o \in Nodes : o # n => election'[o] = election[o]
    BY <1>1, <1>2, <1>5 DEF Types, NodeTypes
  <2>7. WireTypes'
    BY <1>1, <1>2, <2>3 DEF Types, WireTypes
  <2>8. Types'
    BY <1>1, <1>2, <1>3, <2>5, <2>6, <2>7 DEF Types, OtherTypes
  <2>9. ElectionsGoOn
    BY <1>1, <2>1, <2>4, <2>6 DEF ElectionsGoOn, NewTask
  <2>10. HeadsGoOn
    BY <1>1, <2>1, <2>4 DEF HeadsGoOn, Heads, NewTask
  <2>11. TermsGoOn
    BY <1>1, <2>1, <2>4 DEF TermsGoOn, Claims, NewTask, Standing, Started
  <2>12. \A r \in net' \ net : r.type # "update"
    BY <2>3 DEF Failures
  <2>13. LogsGoOn
    BY <1>1, <1>2, <2>1, <2>4, <2>12 DEF LogsGoOn, NewTask, Types, NodeTypes, Entry
  <2>14. UpdatesGoOn /\ LooksNoWorse
    BY <1>1, <2>12 DEF UpdatesGoOn, LooksNoWorse
  <2> QED
    BY <2>8, <2>9, <2>10, <2>11, <2>13, <2>14 DEF Ordinary
<1> QED
  BY <1>4, <1>5 DEF StartSuspectMonitor

\* A failure notification makes the receiver take the node for failed and
\* create an election of its own.
LEMMA ReceiveFailureNotificationStep ==
  ASSUME ElectionInv, NEW r \in net, ReceiveFailureNotification(r)
  PROVE  Ordinary
<1> DEFINE n == r.to
           noted == [r EXCEPT !.type = "noted"]
<1> USE DEF hostVars
<1>1. /\ UNCHANGED <<term, role, leader, logTerm, suspicion, adopting, cancels, hostVars,
                     interrupted, stalled, lowered, elected>>
      /\ r.type = "failure" /\ net' = (net \ {r}) \cup {noted}
  BY DEF ReceiveFailureNotification
<1>2. Types
  BY DEF ElectionInv
<1>3. r \in Failures
  BY <1>1, <1>2 DEF Types, WireTypes, Updates
<1>4. /\ n \in Nodes /\ r.failed \in Nodes
      /\ noted \in Failures /\ noted.type = "noted"
  BY <1>3 DEF Failures
<1> HIDE DEF noted
<1>5. \A q \in net' \ net : q.type # "update"
  BY <1>1, <1>4
<1>6. WireTypes'
  BY <1>1, <1>2, <1>4 DEF Types, WireTypes
<1>7. CASE UNCHANGED <<statuses, election, tasks, accurate>>
  <2>1. Tasks' = Tasks
    BY <1>7 DEF Tasks
  <2>2. Types'
    BY <1>1, <1>2, <1>6, <1>7, <2>1 DEF Types, NodeTypes, WatchTypes, TaskTypes, OtherTypes
  <2>3. ElectionsGoOn
    BY <1>1, <1>7, <2>1 DEF ElectionsGoOn
  <2>4. HeadsGoOn /\ TermsGoOn
    BY <1>1, <1>7, <2>1 DEF HeadsGoOn, TermsGoOn, Heads, Claims
  <2>5. LogsGoOn
    BY <1>1, <1>2, <1>5, <2>1 DEF LogsGoOn, Types, NodeTypes
  <2>6. UpdatesGoOn /\ LooksNoWorse
    BY <1>1, <1>5, <1>7 DEF UpdatesGoOn, LooksNoWorse
  <2> QED
    BY <2>2, <2>3, <2>4, <2>5, <2>6 DEF Ordinary
<1>8. CASE /\ statuses' = [statuses EXCEPT ![n][r.failed] = "failed"]
           /\ election' = [election EXCEPT ![n] = "ACTIVE"]
           /\ StartsElection(Task(n, "election", "created", r.failed))
           /\ accurate' = (accurate /\ r.failed \in crashed)
  <2> DEFINE l == Task(n, "election", "created", r.failed)
  <2>1. /\ l \in TaskSet /\ l.node = n /\ l.kind = "election" /\ l.pc = "created"
        /\ l.entry = Entry(NoNode, 0)
    BY <1>4 DEF Task, TaskSet, Entry, Entries, Anyone, Kinds, Pcs
  <2>2. Starts(l)
    BY <1>8 DEF StartsElection
  <2> HIDE DEF l
  <2>3. NewTask(l) /\ Tasks \subseteq Tasks'
    BY <1>2, <2>2, StartsTask DEF Types
  <2>4. TaskTypes'
    BY <1>2, <2>1, <2>3, TaskAdded DEF Types
  <2>5. NodeTypes' /\ \A o \in Nodes : o # n => election'[o] = election[o]
    BY <1>1, <1>2, <1>8 DEF Types, NodeTypes
  <2>6. /\ WatchTypes'
        /\ \A o, q \in Nodes : statuses'[o][q] = statuses[o][q] \/ q = r.failed
    BY <1>1, <1>2, <1>4, <1>8 DEF Types, WatchTypes
  <2>7. Types'
    BY <1>1, <1>2, <1>6, <2>4, <2>5, <2>6 DEF Types, OtherTypes
  <2>8. ElectionsGoOn
    BY <1>1, <2>1, <2>3, <2>5 DEF ElectionsGoOn, NewTask
  <2>9. HeadsGoOn
    BY <1>1, <1>8, <2>1, <2>3 DEF HeadsGoOn, Heads, NewTask
  <2>10. TermsGoOn
    BY <1>1, <2>1, <2>3 DEF TermsGoOn, Claims, NewTask, Standing, Started
  <2>11. LogsGoOn
    <3>1. l.entry.term = 0 /\ l.node \in Nodes
      BY <1>4, <2>1 DEF Entry
    <3>2. \A o \in Nodes : term[o] \in Nat /\ term'[o] = term[o]
      BY <1>1, <1>2 DEF Types, NodeTypes
    <3> QED
      BY <1>1, <1>5, <2>3, <3>1, <3>2 DEF LogsGoOn, NewTask
  <2>12. UpdatesGoOn
    BY <1>1, <1>5 DEF UpdatesGoOn
  <2>13. LooksNoWorse
    <3>1. (accurate' => accurate) /\ (accurate' => r.failed \in crashed)
      BY <1>8
    <3> QED
      BY <1>1, <2>6, <3>1 DEF LooksNoWorse
  <2> QED
    BY <2>7, <2>8, <2>9, <2>10, <2>11, <2>12, <2>13 DEF Ordinary
<1> QED
  BY <1>7, <1>8 DEF ReceiveFailureNotification

-----------------------------------------------------------------------------
(* Steps of a task *)

\* A task goes on as l, with the node, the kind and the entry it has.
Continues(l, k) ==
    l \in TaskSet /\ l.node = k.node /\ l.kind = k.kind /\ l.entry = k.entry

\* An election goes on.
LEMMA ElectionContinues ==
  ASSUME TaskTypes, NEW k \in Tasks, NEW l, Becomes(k, l), Continues(l, k),
         k.kind = "election" \/ l.pc \in {"created", "shipping"},
         UNCHANGED <<election, stalled, crashed>>
  PROVE  TaskTypes' /\ NewTask(l) /\ Remain(k) /\ ElectionsGoOn
<1>1. NewTask(l) /\ Remain(k)
  BY BecomesTask
<1>2. TaskTypes'
  BY <1>1, TaskAdded DEF Continues, TaskTypes, TaskSet, Kinds
<1>3. \A j \in Tasks : \E i \in Tasks' : i.node = j.node /\ i.kind = j.kind
  BY <1>1 DEF NewTask, Remain, Continues
<1>4. ElectionsGoOn
  BY <1>3 DEF ElectionsGoOn
<1> QED
  BY <1>1, <1>2, <1>4

\* The answer of a notified node reaches the notifying one.
LEMMA ReceiveNotedStep ==
  ASSUME ElectionInv, NEW k \in Tasks, NEW r \in net, ReceiveNoted(k, r)
  PROVE  Ordinary
<1> DEFINE l == [k EXCEPT !.members = @ \ {r.to}]
<1> USE DEF nodeVars, watchVars, hostVars, counts, historyVars
<1>1. /\ UNCHANGED <<nodeVars, watchVars, adopting, cancels, hostVars, counts, historyVars>>
      /\ k.pc = "notifying" /\ net' = net \ {r} /\ Becomes(k, l)
  BY DEF ReceiveNoted, Runs
<1>2. Types
  BY DEF ElectionInv
<1>3. k \in TaskSet /\ k.kind = "election"
  BY <1>1, <1>2 DEF Types, TaskTypes, TaskSet, Kinds
<1>4. Continues(l, k) /\ l.pc = k.pc /\ l.next = k.next
  BY <1>3 DEF Continues, TaskSet
<1> HIDE DEF l
<1>5. TaskTypes' /\ NewTask(l) /\ Remain(k) /\ ElectionsGoOn
  BY <1>1, <1>2, <1>3, <1>4, ElectionContinues DEF Types
<1>6. Types'
  BY <1>1, <1>2, <1>5 DEF Types, NodeTypes, WatchTypes, WireTypes, OtherTypes
<1>7. HeadsGoOn
  BY <1>1, <1>4, <1>5 DEF HeadsGoOn, Heads, NewTask
<1>8. TermsGoOn
  BY <1>1, <1>3, <1>4, <1>5 DEF TermsGoOn, Claims, NewTask, Continues, Standing, Started
<1>9. LogsGoOn
  BY <1>1, <1>2, <1>4, <1>5 DEF LogsGoOn, NewTask, Continues, Types, NodeTypes
<1>10. UpdatesGoOn /\ LooksNoWorse
  BY <1>1 DEF UpdatesGoOn, LooksNoWorse
<1> QED
  BY <1>5, <1>6, <1>7, <1>8, <1>9, <1>10 DEF Ordinary

\* run_election begins: it will lead to the term after the one the node has.
LEMMA RunElectionSteps ==
  ASSUME ElectionInv, NEW k \in Tasks, StartElection(k) \/ Notified(k)
  PROVE  Ordinary
<1> DEFINE n == k.node
           l == [k EXCEPT !.pc = "candidate", !.next = term[n] + 1]
<1> USE DEF watchVars, wireVars, hostVars, counts, historyVars
<1>1. /\ UNCHANGED <<term, election, leader, logTerm, watchVars, wireVars, hostVars, counts, historyVars>>
      /\ role' = [role EXCEPT ![n] = "CANDIDATE"] /\ Becomes(k, l)
      /\ k.kind = "election" \/ k.pc = "notifying"
  BY DEF StartElection, Notified, Runs, RunElection
<1>2. Types
  BY DEF ElectionInv
<1>3. k \in TaskSet /\ k.kind = "election" /\ n \in Nodes /\ term[n] \in Nat
  BY <1>1, <1>2 DEF Types, NodeTypes, TaskTypes, TaskSet, Kinds
<1>4. Continues(l, k) /\ l.pc = "candidate" /\ l.next = term[n] + 1
  <2>1. term[n] + 1 \in Nat /\ "candidate" \in Pcs
    BY <1>3 DEF Pcs, Started
  <2> QED
    BY <1>3, <2>1 DEF Continues, TaskSet
<1> HIDE DEF l
<1>5. TaskTypes' /\ NewTask(l) /\ Remain(k) /\ ElectionsGoOn
  BY <1>1, <1>2, <1>3, <1>4, ElectionContinues DEF Types
<1>6. NodeTypes' /\ \A o \in Nodes : role'[o] = "LEADER" => role[o] = "LEADER"
  BY <1>1, <1>2, <1>3 DEF Types, NodeTypes
<1>7. Types'
  BY <1>1, <1>2, <1>5, <1>6 DEF Types, WatchTypes, WireTypes, OtherTypes
<1>8. HeadsGoOn
  BY <1>1, <1>4, <1>5, <1>6 DEF HeadsGoOn, Heads, NewTask
<1>9. TermsGoOn
  BY <1>1, <1>3, <1>4, <1>5, <1>6 DEF TermsGoOn, Claims, NewTask, Continues
<1>10. LogsGoOn
  BY <1>1, <1>2, <1>4, <1>5 DEF LogsGoOn, NewTask, Continues, Types, NodeTypes
<1>11. UpdatesGoOn /\ LooksNoWorse
  BY <1>1 DEF UpdatesGoOn, LooksNoWorse
<1> QED
  BY <1>5, <1>7, <1>8, <1>9, <1>10, <1>11 DEF Ordinary

\* A notification that raises ends the election, which is on record.
LEMMA NotifyRaisesStep ==
  ASSUME ElectionInv, NEW k \in Tasks, NotifyRaises(k)
  PROVE  Ordinary
<1> USE DEF nodeVars, watchVars, hostVars, counts
<1>1. /\ UNCHANGED <<nodeVars, watchVars, adopting, cancels, hostVars, counts,
                     accurate, interrupted, lowered, elected>>
      /\ Ends(k) /\ stalled' = stalled \cup {k.node}
      /\ net' \subseteq net
  BY DEF NotifyRaises
<1>2. Types
  BY DEF ElectionInv
<1>3. IsABag(tasks)' /\ Tasks' \subseteq Tasks /\ Remain(k)
  BY <1>1, <1>2, EndsTask DEF Types
<1>4. TaskTypes'
  BY <1>2, <1>3, NoTaskAdded DEF Types
<1>5. Types'
  BY <1>1, <1>2, <1>4 DEF Types, NodeTypes, WatchTypes, WireTypes, OtherTypes
<1>6. ElectionsGoOn
  BY <1>1, <1>3 DEF ElectionsGoOn, Remain
<1>7. HeadsGoOn /\ TermsGoOn
  BY <1>1, <1>3 DEF HeadsGoOn, TermsGoOn, Heads, Claims
<1>8. LogsGoOn
  BY <1>1, <1>2, <1>3 DEF LogsGoOn, Types, NodeTypes
<1>9. UpdatesGoOn /\ LooksNoWorse
  BY <1>1 DEF UpdatesGoOn, LooksNoWorse
<1> QED
  BY <1>5, <1>6, <1>7, <1>8, <1>9 DEF Ordinary

\* A task ships: a submission ends once it has nobody left.
LEMMA TaskShips ==
  ASSUME TaskTypes, NEW k \in Tasks, NEW l, Ships(k, l), Continues(l, k),
         l.pc \in {"created", "shipping"}, UNCHANGED <<election, stalled, crashed>>
  PROVE  TaskTypes' /\ Tasks' \subseteq Tasks \cup {l} /\ ElectionsGoOn
<1>1. CASE Becomes(k, l)
  BY <1>1, ElectionContinues DEF NewTask
<1>2. CASE l.kind = "submission" /\ Ends(k)
  <2>1. IsABag(tasks)' /\ Tasks' \subseteq Tasks /\ Remain(k)
    BY <1>2, EndsTask
  <2>2. TaskTypes'
    BY <2>1, NoTaskAdded
  <2>3. \A j \in Tasks : j.kind = "election" => j \in Tasks'
    BY <1>2, <2>1 DEF Remain, Continues
  <2>4. ElectionsGoOn
    BY <2>3 DEF ElectionsGoOn
  <2> QED
    BY <2>1, <2>2, <2>4
<1> QED
  BY <1>1, <1>2 DEF Ships

\* A submission logs its entry, which is of no later term than the node.
LEMMA StartSubmissionStep ==
  ASSUME ElectionInv, NEW k \in Tasks, StartSubmission(k)
  PROVE  Ordinary
<1> DEFINE n == k.node
           l == [k EXCEPT !.pc = "shipping", !.members = Healthy(n)]
<1> USE DEF watchVars, wireVars, hostVars, counts, historyVars
<1>1. /\ UNCHANGED <<term, role, election, leader, watchVars, wireVars, hostVars, counts, historyVars>>
      /\ k.kind = "submission" /\ LogUpdate(n, k.entry) /\ Ships(k, l)
  BY DEF StartSubmission
<1>2. Types /\ LogInv
  BY DEF ElectionInv
<1>3. k \in TaskSet /\ n \in Nodes /\ k.entry.term \in Nat
  BY <1>2 DEF Types, TaskTypes, TaskSet, Entries
<1>4. Continues(l, k) /\ l.pc = "shipping" /\ l.next = k.next
  <2>1. Healthy(n) \in SUBSET Nodes /\ "shipping" \in Pcs
    BY DEF Healthy, Pcs, Started
  <2> QED
    BY <1>3, <2>1 DEF Continues, TaskSet
<1> HIDE DEF l
<1>5. TaskTypes' /\ Tasks' \subseteq Tasks \cup {l} /\ ElectionsGoOn
  BY <1>1, <1>2, <1>4, TaskShips DEF Types
<1>6. /\ logTerm' \in [Nodes -> Nat]
      /\ \A o \in Nodes : logTerm'[o] = logTerm[o] \/ (o = n /\ logTerm'[o] = k.entry.term)
  BY <1>1, <1>2, <1>3 DEF LogUpdate, Types, NodeTypes
<1>7. Types'
  BY <1>1, <1>2, <1>5, <1>6 DEF Types, NodeTypes, WatchTypes, WireTypes, OtherTypes
<1>8. HeadsGoOn
  BY <1>1, <1>4, <1>5 DEF HeadsGoOn, Heads
<1>9. TermsGoOn
  BY <1>1, <1>4, <1>5 DEF TermsGoOn, Claims, Continues, Standing
<1>10. LogsGoOn
  <2>1. lowered = {} => k.entry.term <= term[n]
    BY <1>2 DEF LogInv
  <2>2. \A o \in Nodes : term[o] \in Nat /\ term'[o] = term[o]
    BY <1>1, <1>2 DEF Types, NodeTypes
  <2> QED
    BY <1>1, <1>4, <1>5, <1>6, <2>1, <2>2 DEF LogsGoOn, Continues
<1>11. UpdatesGoOn /\ LooksNoWorse
  BY <1>1 DEF UpdatesGoOn, LooksNoWorse
<1> QED
  BY <1>5, <1>7, <1>8, <1>9, <1>10, <1>11 DEF Ordinary

\* An update carries the node's term, which was won, and an entry of no later
\* term.
LEMMA SubmitLogUpdateStep ==
  ASSUME ElectionInv, NEW k \in Tasks, NEW m \in Nodes, SubmitLogUpdate(k, m)
  PROVE  Ordinary
<1> DEFINE n == k.node
           l == [k EXCEPT !.members = @ \ {m}]
           r == [type |-> "update", from |-> n, to |-> m, term |-> term[n],
                 entry |-> k.entry, failed |-> k.failed]
<1> USE DEF nodeVars, watchVars, hostVars, counts, historyVars
<1>1. /\ UNCHANGED <<nodeVars, watchVars, adopting, cancels, hostVars, counts, historyVars>>
      /\ k.pc = "shipping" /\ Ships(k, l) /\ net' \subseteq net \cup {r}
  BY DEF SubmitLogUpdate, Runs, Send
<1>2. Types /\ LogInv /\ WonInv
  BY DEF ElectionInv
<1>3. k \in TaskSet /\ n \in Nodes /\ term[n] \in Nat
  BY <1>2 DEF Types, NodeTypes, TaskTypes, TaskSet
<1>4. Continues(l, k) /\ l.pc = "shipping" /\ l.next = k.next
  BY <1>1, <1>3 DEF Continues, TaskSet
<1>5. r \in Updates /\ r.from = n /\ r.term = term[n] /\ r.entry = k.entry
  BY <1>3 DEF Updates, TaskSet
<1>6. n \notin interrupted => <<n, term[n]>> \in elected
  BY <1>1, <1>2, <1>3 DEF WonInv, Claims
<1>7. lowered = {} => k.entry.term <= term[n]
  BY <1>2 DEF LogInv
<1> HIDE DEF l, r
<1>8. TaskTypes' /\ Tasks' \subseteq Tasks \cup {l} /\ ElectionsGoOn
  BY <1>1, <1>2, <1>4, TaskShips DEF Types
<1>9. WireTypes'
  BY <1>1, <1>2, <1>5 DEF Types, WireTypes
<1>10. Types'
  BY <1>1, <1>2, <1>8, <1>9 DEF Types, NodeTypes, WatchTypes, OtherTypes
<1>11. HeadsGoOn
  BY <1>1, <1>4, <1>8 DEF HeadsGoOn, Heads
<1>12. TermsGoOn
  BY <1>1, <1>3, <1>4, <1>8 DEF TermsGoOn, Claims, Continues, Standing
<1>13. LogsGoOn
  <2>1. \A o \in Nodes : term[o] \in Nat
    BY <1>2 DEF Types, NodeTypes
  <2> QED
    BY <1>1, <1>4, <1>5, <1>7, <1>8, <2>1 DEF LogsGoOn, Continues
<1>14. UpdatesGoOn /\ LooksNoWorse
  BY <1>1, <1>5, <1>6 DEF UpdatesGoOn, LooksNoWorse
<1> QED
  BY <1>8, <1>10, <1>11, <1>12, <1>13, <1>14 DEF Ordinary

\* The vote: who elects itself sees no healthy node of a larger id, and
\* unless a live node was suspected all that live look healthy.
LEMMA ElectStep ==
  ASSUME ElectionInv, NEW k \in Tasks, Elect(k)
  PROVE  Ordinary
<1> DEFINE n == k.node
           winner == GetMaxInstanceId(n)
           l == [k EXCEPT !.pc = IF winner = n THEN "won" ELSE "lost"]
<1> USE DEF watchVars, wireVars, hostVars, counts, historyVars
<1>1. /\ UNCHANGED <<term, election, logTerm, watchVars, wireVars, hostVars, counts, historyVars>>
      /\ k.pc = "candidate" /\ Becomes(k, l)
      /\ leader' = [leader EXCEPT ![n] = winner]
      /\ role' = [role EXCEPT ![n] = IF winner = n THEN @ ELSE "FOLLOWER"]
  BY DEF Elect, Runs
<1>2. Types /\ AccurateInv
  BY DEF ElectionInv
<1>3. k \in TaskSet /\ k.kind = "election" /\ n \in Nodes
  BY <1>1, <1>2 DEF Types, TaskTypes, TaskSet, Kinds
<1>4. winner \in Nodes /\ (winner = n => \A m \in Healthy(n) : Instance[m] <= Instance[n])
  BY <1>3, WinnerFound
<1>5. winner = n => Largest(n)
  <2> SUFFICES ASSUME winner = n, accurate, NEW m \in Live PROVE Instance[m] <= Instance[n]
    BY DEF Largest
  <2>1. m = n \/ m \in Healthy(n)
    BY <1>2, <1>3 DEF Live, Healthy, AccurateInv
  <2>2. Instance[n] <= Instance[n]
    BY <1>3, ElectionAssumption
  <2> QED
    BY <1>4, <2>1, <2>2
<1> HIDE DEF winner
<1>6. /\ Continues(l, k) /\ l.next = k.next
      /\ l.pc = IF winner = n THEN "won" ELSE "lost"
  <2>1. (IF winner = n THEN "won" ELSE "lost") \in Pcs
    BY DEF Pcs, Started
  <2> QED
    BY <1>3, <2>1 DEF Continues, TaskSet
<1> HIDE DEF l
<1>7. TaskTypes' /\ NewTask(l) /\ Remain(k) /\ ElectionsGoOn
  BY <1>1, <1>2, <1>3, <1>6, ElectionContinues DEF Types
<1>8. NodeTypes' /\ \A o \in Nodes : role'[o] = "LEADER" => role[o] = "LEADER"
  BY <1>1, <1>2, <1>3, <1>4 DEF Types, NodeTypes, Anyone
<1>9. Types'
  BY <1>1, <1>2, <1>7, <1>8 DEF Types, WatchTypes, WireTypes, OtherTypes
<1>10. HeadsGoOn
  BY <1>1, <1>5, <1>6, <1>7, <1>8 DEF HeadsGoOn, Heads, NewTask, Continues
<1>11. TermsGoOn
  <2>1. Standing(k) /\ l.pc # "shipping" /\ l.kind = "election"
    BY <1>1, <1>3, <1>6 DEF Standing, Started, Continues
  <2> QED
    BY <1>1, <1>3, <1>6, <1>7, <1>8, <2>1 DEF TermsGoOn, Claims, NewTask, Continues
<1>12. LogsGoOn
  BY <1>1, <1>2, <1>6, <1>7 DEF LogsGoOn, NewTask, Continues, Types, NodeTypes
<1>13. UpdatesGoOn /\ LooksNoWorse
  BY <1>1 DEF UpdatesGoOn, LooksNoWorse
<1> QED
  BY <1>7, <1>9, <1>10, <1>11, <1>12, <1>13 DEF Ordinary

\* The winner wins the term it raises its own to, and logs an entry of it.
LEMMA LeadStep ==
  ASSUME ElectionInv, NEW k \in Tasks, Lead(k)
  PROVE  Ordinary
<1> DEFINE n == k.node
           t == term[n] + 1
           l == [k EXCEPT !.pc = "shipping", !.entry = Entry(n, term'[n]), !.members = Healthy(n)]
<1> USE DEF watchVars, wireVars, hostVars, counts
<1>1. /\ UNCHANGED <<election, leader, watchVars, wireVars, hostVars, counts,
                     accurate, interrupted, stalled, lowered>>
      /\ k.pc = "won" /\ Becomes(k, l)
      /\ role' = [role EXCEPT ![n] = "LEADER"] /\ term' = [term EXCEPT ![n] = @ + 1]
      /\ LogUpdate(n, Entry(n, term'[n]))
      /\ elected' = elected \cup {<<n, term'[n]>>}
  BY DEF Lead, Runs
<1>2. Types
  BY DEF ElectionInv
<1>3. k \in TaskSet /\ k.kind = "election" /\ n \in Nodes
  BY <1>1, <1>2 DEF Types, TaskTypes, TaskSet, Kinds
<1>4. term[n] \in Nat /\ t \in Nat /\ term'[n] = t
  BY <1>1, <1>2, <1>3 DEF Types, NodeTypes
<1>5. /\ l \in TaskSet /\ l.node = n /\ l.kind = "election" /\ l.next = k.next
      /\ l.pc = "shipping" /\ l.entry.term = t
  <2>1. Healthy(n) \in SUBSET Nodes /\ "shipping" \in Pcs /\ Entry(n, t) \in Entries
    BY <1>3, <1>4 DEF Healthy, Pcs, Started, Entry, Entries, Anyone
  <2> QED
    BY <1>3, <1>4, <2>1 DEF TaskSet, Entry
<1> HIDE DEF l
<1>6. NewTask(l) /\ Remain(k)
  BY <1>1, <1>2, BecomesTask DEF Types
<1>7. TaskTypes'
  BY <1>2, <1>5, <1>6, TaskAdded DEF Types
<1>8. NodeTypes' /\ \A o \in Nodes : o # n => /\ role'[o] = role[o] /\ term'[o] = term[o]
                                              /\ logTerm'[o] = logTerm[o]
  BY <1>1, <1>2, <1>3, <1>4 DEF Types, NodeTypes, LogUpdate, Entry
<1>9. logTerm'[n] = t \/ logTerm'[n] = logTerm[n]
  BY <1>1, <1>2, <1>3, <1>4 DEF Types, NodeTypes, LogUpdate, Entry
<1>10. Types'
  BY <1>1, <1>2, <1>3, <1>4, <1>7, <1>8 DEF Types, WatchTypes, WireTypes, OtherTypes
<1>11. ElectionsGoOn
  BY <1>1, <1>3, <1>5, <1>6 DEF ElectionsGoOn, NewTask, Remain
<1>12. HeadsGoOn
  BY <1>1, <1>5, <1>6, <1>8 DEF HeadsGoOn, Heads, NewTask
<1>13. TermsGoOn
  <2>1. <<n, t>> \in elected' /\ elected \subseteq elected' /\ interrupted \subseteq interrupted'
    BY <1>1, <1>4
  <2>2. Standing(k)
    BY <1>1, <1>3 DEF Standing, Started
  <2>3. \A o \in Nodes : o # n /\ role'[o] = "LEADER" => Claims(o)
    BY <1>8 DEF Claims
  <2>4. \A j \in Tasks' \ Tasks : j = l
    BY <1>6 DEF NewTask
  <2> QED
    BY <1>4, <1>5, <1>8, <2>1, <2>2, <2>3, <2>4 DEF TermsGoOn
<1>14. LogsGoOn
  <2>1. \A o \in Nodes : term[o] \in Nat /\ term[o] <= term'[o]
    BY <1>2, <1>4, <1>8 DEF Types, NodeTypes
  <2>2. \A o \in Nodes : logTerm'[o] = logTerm[o] \/ logTerm'[o] <= term'[o]
    BY <1>4, <1>8, <1>9
  <2>3. l.entry.term <= term'[l.node]
    BY <1>4, <1>5
  <2> QED
    BY <1>1, <1>6, <2>1, <2>2, <2>3 DEF LogsGoOn, NewTask
<1>15. UpdatesGoOn /\ LooksNoWorse
  BY <1>1 DEF UpdatesGoOn, LooksNoWorse
<1> QED
  BY <1>10, <1>11, <1>12, <1>13, <1>14, <1>15 DEF Ordinary

\* The end of run_election sets a term that ran ahead back to next_term.
LEMMA FinishElectionStep ==
  ASSUME ElectionInv, NEW k \in Tasks, FinishElection(k)
  PROVE  Ordinary
<1> DEFINE n == k.node
<1> USE DEF watchVars, wireVars, hostVars, counts
<1>1. /\ UNCHANGED <<role, leader, logTerm, watchVars, wireVars, hostVars, counts,
                     accurate, interrupted, stalled, elected>>
      /\ term' = [term EXCEPT ![n] = IF @ > k.next THEN k.next ELSE @]
      /\ election' = [election EXCEPT ![n] = "READY"]
      /\ lowered' = lowered \cup IF term[n] > k.next THEN {n} ELSE {}
      /\ Ends(k)
  BY DEF FinishElection
<1>2. Types
  BY DEF ElectionInv
<1>3. k \in TaskSet /\ n \in Nodes /\ k.next \in Nat /\ term[n] \in Nat
  BY <1>2 DEF Types, NodeTypes, TaskTypes, TaskSet
<1>4. Standing(k)
  BY <1>2, <1>3 DEF FinishElection, Finishing, Runs, Standing, Started, Types, TaskTypes, TaskSet, Kinds
<1>5. IsABag(tasks)' /\ Tasks' \subseteq Tasks /\ Remain(k)
  BY <1>1, <1>2, EndsTask DEF Types
<1>6. TaskTypes'
  BY <1>2, <1>5, NoTaskAdded DEF Types
<1>7. /\ NodeTypes'
      /\ \A o \in Nodes : o # n => term'[o] = term[o] /\ election'[o] = election[o]
      /\ election'[n] = "READY"
  BY <1>1, <1>2, <1>3 DEF Types, NodeTypes
<1>8. IF term[n] > k.next THEN term'[n] = k.next /\ n \in lowered' ELSE term'[n] = term[n]
  BY <1>1, <1>2, <1>3 DEF Types, NodeTypes
<1>9. Types'
  BY <1>1, <1>2, <1>6, <1>7 DEF Types, WatchTypes, WireTypes, OtherTypes
<1>10. ElectionsGoOn
  BY <1>1, <1>5, <1>7 DEF ElectionsGoOn, Remain
<1>11. HeadsGoOn
  BY <1>1, <1>5 DEF HeadsGoOn, Heads
<1>12. TermsGoOn
  <2>1. term'[n] = term[n] \/ (k.next = term'[n] /\ term'[n] <= term[n])
    BY <1>3, <1>8
  <2>2. \A o \in Nodes : role'[o] = "LEADER" => Claims(o)
    BY <1>1 DEF Claims
  <2> QED
    BY <1>1, <1>4, <1>5, <1>7, <2>1, <2>2 DEF TermsGoOn
<1>13. LogsGoOn
  <2>1. \A o \in Nodes : term[o] \in Nat
    BY <1>2 DEF Types, NodeTypes
  <2> QED
    BY <1>1, <1>5, <1>7, <1>8, <2>1 DEF LogsGoOn
<1>14. UpdatesGoOn /\ LooksNoWorse
  BY <1>1 DEF UpdatesGoOn, LooksNoWorse
<1> QED
  BY <1>9, <1>10, <1>11, <1>12, <1>13, <1>14 DEF Ordinary

-----------------------------------------------------------------------------
(* Terms that are taken over *)

\* A node that leads, stands or submits is on record when it is given a term.
LEMMA BusyRecorded ==
  ASSUME NEW n \in Nodes, interrupted' = interrupted \cup IF Busy(n) THEN {n} ELSE {}
  PROVE  /\ interrupted \subseteq interrupted'
         /\ n \notin interrupted' => ~ Claims(n) /\ \A k \in Tasks : k.node # n
BY DEF Busy, Claims

\* A log update of a higher term: the receiver takes over the term and stores
\* nothing.
LEMMA ReceiveHigherTermStep ==
  ASSUME ElectionInv, NEW r \in net, ReceiveHigherTerm(r)
  PROVE  Ordinary
<1> DEFINE n == r.to
<1> USE DEF watchVars, hostVars, taskVars
<1>1. /\ UNCHANGED <<role, election, leader, logTerm, watchVars, hostVars, taskVars,
                     accurate, stalled, lowered, elected>>
      /\ r.type = "update" /\ r.term > term[n] /\ net' = net \ {r}
      /\ cancels' = [cancels EXCEPT ![n] = Append(@, r.term)]
      /\ term' = [term EXCEPT ![n] = r.term]
      /\ adopting' = adopting \cup {[node |-> n, leader |-> r.entry.leader]}
      /\ interrupted' = interrupted \cup IF Busy(n) THEN {n} ELSE {}
  BY DEF ReceiveHigherTerm
<1>2. Types
  BY DEF ElectionInv
<1>3. r \in Updates
  BY <1>1, <1>2 DEF Types, WireTypes, Failures
<1>4. n \in Nodes /\ r.entry.leader \in Anyone /\ r.term \in Nat
  BY <1>3 DEF Updates, Entries
<1>5. Tasks' = Tasks
  BY <1>1 DEF Tasks
<1>6. NodeTypes' /\ term'[n] = r.term /\ \A o \in Nodes : o # n => term'[o] = term[o]
  BY <1>1, <1>2, <1>4 DEF Types, NodeTypes
<1>7. WireTypes'
  <2>1. cancels' \in [Nodes -> Seq(Nat)]
    BY <1>1, <1>2, <1>4 DEF Types, WireTypes
  <2> QED
    BY <1>1, <1>2, <1>4, <2>1 DEF Types, WireTypes
<1>8. Types'
  BY <1>1, <1>2, <1>5, <1>6, <1>7 DEF Types, WatchTypes, TaskTypes, OtherTypes
<1>9. ElectionsGoOn
  BY <1>1, <1>5 DEF ElectionsGoOn
<1>10. HeadsGoOn
  BY <1>1, <1>5 DEF HeadsGoOn, Heads
<1>11. TermsGoOn
  <2>1. /\ interrupted \subseteq interrupted'
        /\ n \notin interrupted' => ~ Claims(n) /\ \A k \in Tasks : k.node # n
    BY <1>1, <1>4, BusyRecorded
  <2>2. \A o \in Nodes : role'[o] = "LEADER" => Claims(o)
    BY <1>1 DEF Claims
  <2> QED
    BY <1>1, <1>5, <1>6, <2>1, <2>2 DEF TermsGoOn
<1>12. LogsGoOn
  <2>1. \A o \in Nodes : term[o] \in Nat
    BY <1>2 DEF Types, NodeTypes
  <2>2. \A o \in Nodes : term[o] <= term'[o]
    BY <1>1, <1>4, <1>6, <2>1
  <2> QED
    BY <1>1, <1>5, <2>2 DEF LogsGoOn
<1>13. UpdatesGoOn /\ LooksNoWorse
  <2>1. interrupted \subseteq interrupted'
    BY <1>1
  <2> QED
    BY <1>1, <2>1 DEF UpdatesGoOn, LooksNoWorse
<1> QED
  BY <1>8, <1>9, <1>10, <1>11, <1>12, <1>13 DEF Ordinary

\* The late _cancel_election may set the term back, which is on record.
LEMMA CancelElectionStep ==
  ASSUME ElectionInv, NEW n \in Nodes, CancelElection(n)
  PROVE  Ordinary
<1> DEFINE t == Head(cancels[n])
<1> USE DEF watchVars, hostVars, taskVars
<1>1. /\ UNCHANGED <<role, leader, logTerm, watchVars, net, adopting, hostVars, taskVars,
                     accurate, stalled, elected>>
      /\ cancels[n] # <<>> /\ cancels' = [cancels EXCEPT ![n] = Tail(@)]
      /\ election' = [election EXCEPT ![n] = "READY"]
      /\ term' = [term EXCEPT ![n] = t]
      /\ interrupted' = interrupted \cup IF Busy(n) THEN {n} ELSE {}
      /\ lowered' = lowered \cup IF t < term[n] THEN {n} ELSE {}
  BY DEF CancelElection
<1>2. Types
  BY DEF ElectionInv
<1>3. t \in Nat /\ Tail(cancels[n]) \in Seq(Nat)
  BY <1>1, <1>2 DEF Types, WireTypes
<1> HIDE DEF t
<1>4. Tasks' = Tasks
  BY <1>1 DEF Tasks
<1>5. /\ NodeTypes' /\ term'[n] = t /\ election'[n] = "READY"
      /\ \A o \in Nodes : o # n => term'[o] = term[o] /\ election'[o] = election[o]
  BY <1>1, <1>2, <1>3 DEF Types, NodeTypes
<1>6. WireTypes'
  <2>1. cancels' \in [Nodes -> Seq(Nat)]
    BY <1>1, <1>2, <1>3 DEF Types, WireTypes
  <2> QED
    BY <1>1, <1>2, <2>1 DEF Types, WireTypes
<1>7. Types'
  BY <1>1, <1>2, <1>4, <1>5, <1>6 DEF Types, WatchTypes, TaskTypes, OtherTypes
<1>8. ElectionsGoOn
  BY <1>1, <1>4, <1>5 DEF ElectionsGoOn
<1>9. HeadsGoOn
  BY <1>1, <1>4 DEF HeadsGoOn, Heads
<1>10. TermsGoOn
  <2>1. /\ interrupted \subseteq interrupted'
        /\ n \notin interrupted' => ~ Claims(n) /\ \A k \in Tasks : k.node # n
    BY <1>1, BusyRecorded
  <2>2. \A o \in Nodes : role'[o] = "LEADER" => Claims(o)
    BY <1>1 DEF Claims
  <2> QED
    BY <1>1, <1>4, <1>5, <2>1, <2>2 DEF TermsGoOn
<1>11. LogsGoOn
  <2>1. \A o \in Nodes : term[o] \in Nat
    BY <1>2 DEF Types, NodeTypes
  <2>2. lowered \subseteq lowered' /\ (lowered' = {} => term[n] <= t)
    <3>1. lowered \subseteq lowered' /\ (t < term[n] => n \in lowered')
      BY <1>1
    <3>2. term[n] \in Nat
      BY <2>1
    <3> QED
      BY <1>3, <3>1, <3>2
  <2>3. lowered' = {} => \A o \in Nodes : term[o] <= term'[o]
    BY <1>5, <2>1, <2>2
  <2> QED
    BY <1>1, <1>4, <2>2, <2>3 DEF LogsGoOn
<1>12. UpdatesGoOn /\ LooksNoWorse
  <2>1. interrupted \subseteq interrupted'
    BY <1>1
  <2> QED
    BY <1>1, <2>1 DEF UpdatesGoOn, LooksNoWorse
<1> QED
  BY <1>7, <1>8, <1>9, <1>10, <1>11, <1>12 DEF Ordinary

-----------------------------------------------------------------------------
(* The invariant *)

\* At the start the first leader has won its term and is of the largest id.
LEMMA ElectionInit == Init => ElectionInv
<1> SUFFICES ASSUME Init PROVE ElectionInv
  OBVIOUS
<1> USE DEF Init
<1>1. Tasks = {} /\ IsABag(tasks)
  <2>1. tasks = [e \in {} |-> 1]
    BY DEF EmptyBag, SetToBag
  <2> QED
    BY <2>1 DEF Tasks, BagToSet, IsABag
<1>2. Top \in Nodes \ Late /\ \A m \in Nodes : Instance[m] <= Instance[Top]
  BY TopIsLargest
<1>3. NodeTypes /\ WatchTypes
  BY <1>2 DEF NodeTypes, WatchTypes, Anyone, Reached
<1>4. TaskTypes
  BY <1>1 DEF TaskTypes
<1>5. WireTypes
  BY DEF WireTypes
<1>6. OtherTypes
  BY <1>2 DEF OtherTypes, Reached
<1>7. ActiveHasElection
  BY DEF ActiveHasElection, Live
<1>8. AccurateInv
  BY DEF AccurateInv
<1>9. HighestInv
  BY <1>1, <1>2 DEF HighestInv, Heads, Live
<1>10. WonInv
  BY <1>1, <1>2 DEF WonInv, Claims, Reached
<1>11. TermWasWon
  BY DEF TermWasWon
<1>12. LogInv
  BY <1>1, <1>2 DEF LogInv, Reached
<1> QED
  BY <1>3, <1>4, <1>5, <1>6, <1>7, <1>8, <1>9, <1>10, <1>11, <1>12 DEF ElectionInv, Types

\* Every step keeps it.
LEMMA ElectionNext == ElectionInv /\ [Next]_vars => ElectionInv'
<1> SUFFICES ASSUME ElectionInv, [Next]_vars PROVE ElectionInv'
  OBVIOUS
<1>1. CASE UNCHANGED vars
  <2>1. /\ Tasks' = Tasks
        /\ UNCHANGED <<nodeVars, watchVars, wireVars, hostVars, taskVars, historyVars>>
    BY <1>1 DEF Tasks, vars, taskVars
  <2>2. UNCHANGED <<term, role, election, leader, logTerm, statuses, suspicion, net, adopting, cancels,
                    booted, crashed, tasks, accurate, interrupted, stalled, lowered, elected>>
    BY <2>1 DEF nodeVars, watchVars, wireVars, hostVars, taskVars, historyVars
  <2>3. Types'
    BY <2>1, <2>2 DEF ElectionInv, Types, NodeTypes, WatchTypes, TaskTypes, WireTypes, OtherTypes
  <2>4. ElectionsGoOn
    BY <2>1, <2>2 DEF ElectionsGoOn
  <2>5. HeadsGoOn /\ TermsGoOn
    BY <2>1, <2>2 DEF HeadsGoOn, TermsGoOn, Heads, Claims
  <2>6. LogsGoOn
    BY <2>1, <2>2 DEF LogsGoOn, ElectionInv, Types, NodeTypes
  <2>7. UpdatesGoOn /\ LooksNoWorse
    BY <2>2 DEF UpdatesGoOn, LooksNoWorse
  <2> QED
    BY <2>3, <2>4, <2>5, <2>6, <2>7, OrdinaryStep DEF Ordinary
<1>2. CASE Next
  <2>1. ASSUME NEW n \in Nodes, Boot(n) \/ RunRaftMonitor(n) \/ CancelElection(n) \/ Crash(n)
        PROVE  Ordinary
    BY <2>1, BootStep, RunRaftMonitorStep, CancelElectionStep, CrashStep
  <2>2. ASSUME NEW k \in Tasks, TaskStep(k)
        PROVE  Ordinary
    BY <2>2, RunElectionSteps, ElectStep, LeadStep, FinishElectionStep, StartSubmissionStep,
       NotifyRaisesStep DEF TaskStep
  <2>3. ASSUME NEW k \in Tasks, NEW m \in Nodes, SubmitLogUpdate(k, m)
        PROVE  Ordinary
    BY <2>3, SubmitLogUpdateStep
  <2>4. ASSUME NEW k \in Tasks, NEW r \in net, ReceiveNoted(k, r)
        PROVE  Ordinary
    BY <2>4, ReceiveNotedStep
  <2>5. ASSUME NEW r \in net, ReceiveHigherTerm(r) \/ ReceiveLogUpdate(r) \/ ReceiveFailureNotification(r)
        PROVE  Ordinary
    BY <2>5, ReceiveHigherTermStep, ReceiveLogUpdateStep, ReceiveFailureNotificationStep
  <2>6. ASSUME NEW a \in adopting, AdoptLeader(a)
        PROVE  Ordinary
    BY <2>6, AdoptLeaderStep
  <2>7. ASSUME NEW n \in Nodes, NEW m \in Nodes,
               \/ Suspect(n, m) \/ UpdateNodeHealth(n, m) \/ AnswerHealthy(n, m)
               \/ EndSuspicion(n, m) \/ StartSuspectMonitor(n, m)
        PROVE  Ordinary
    BY <2>7, WatchSteps, UpdateNodeHealthStep, StartSuspectMonitorStep
  <2>8. Ordinary
    BY <1>2, <2>1, <2>2, <2>3, <2>4, <2>5, <2>6, <2>7 DEF Next
  <2> QED
    BY <2>8, OrdinaryStep
<1> QED
  BY <1>1, <1>2

\* The invariant holds of every behaviour.
LEMMA ElectionInvHolds == Spec => []ElectionInv
  BY ElectionInit, ElectionNext, PTL DEF Spec

-----------------------------------------------------------------------------
(* The theorems *)

\* The fields keep their types and the tasks are a bag.
THEOREM ElectionTypeCorrect == Spec => []TypeOK
<1>1. ElectionInv => TypeOK
  <2> SUFFICES ASSUME ElectionInv PROVE TypeOK
    OBVIOUS
  <2>1. Types
    BY DEF ElectionInv
  <2>2. \A n \in Nodes : /\ term[n] \in Nat /\ logTerm[n] \in Nat
                         /\ role[n] \in {"FOLLOWER", "CANDIDATE", "LEADER"}
                         /\ election[n] \in {"READY", "ACTIVE"}
                         /\ leader[n] \in Nodes \cup {NoNode}
    BY <2>1 DEF Types, NodeTypes, Anyone
  <2>3. \A n, m \in Nodes : /\ statuses[n][m] \in {"healthy", "suspect", "failed"}
                            /\ suspicion[n][m] \in {"none", "probing", "judged"}
    BY <2>1 DEF Types, WatchTypes
  <2>4. \A k \in Tasks : k.node \in Nodes /\ k.members \subseteq Nodes
    BY <2>1 DEF Types, TaskTypes, TaskSet
  <2> QED
    BY <2>1, <2>2, <2>3, <2>4 DEF TypeOK, Types, TaskTypes, OtherTypes
<1> QED
  BY <1>1, ElectionInvHolds, PTL

\* Two live nodes never lead at once, whatever else fails, as long as none is
\* taken for suspect or failed while it lives: only the largest id wins.
THEOREM LeadersUnique == Spec => []LeaderUnique
<1>1. ElectionInv => LeaderUnique
  <2> SUFFICES ASSUME ElectionInv, accurate, NEW n \in Live, NEW m \in Live,
                      role[n] = "LEADER", role[m] = "LEADER"
               PROVE  Instance[n] = Instance[m]
    BY DEF LeaderUnique
  <2>1. Instance[m] <= Instance[n] /\ Instance[n] <= Instance[m]
    BY DEF ElectionInv, HighestInv, Heads
  <2>2. Instance[n] \in Nat /\ Instance[m] \in Nat
    BY ElectionAssumption DEF Live
  <2> QED
    BY <2>1, <2>2
<1> QED
  BY <1>1, ElectionInvHolds, PTL

\* An ACTIVE _election_status belongs to an election that runs, or to one that
\* ended half way.
THEOREM ActiveIsElecting == Spec => []ActiveHasElection
<1>1. ElectionInv => ActiveHasElection
  BY DEF ElectionInv
<1> QED
  BY <1>1, ElectionInvHolds, PTL

\* Log updates carry terms their sender has won, unless the sender was given
\* a term while it led, stood for election or submitted.
THEOREM TermsWon == Spec => []TermWasWon
<1>1. ElectionInv => TermWasWon
  BY DEF ElectionInv
<1> QED
  BY <1>1, ElectionInvHolds, PTL

\* As long as no term is set back, no log is ahead of its node's term.
THEOREM LogNotAhead == Spec => []LeaderCanLog
<1>1. ElectionInv => LeaderCanLog
  BY DEF ElectionInv, LogInv, LeaderCanLog, Live
<1> QED
  BY <1>1, ElectionInvHolds, PTL
=============================================================================
