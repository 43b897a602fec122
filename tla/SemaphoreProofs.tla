-------------------------- MODULE SemaphoreProofs --------------------------
(***************************************************************************)
(* Theorems about the engine semaphore, for every finite set of tasks and  *)
(* every positive initial counter.                                         *)
(***************************************************************************)
EXTENDS Semaphore, FiniteSetTheorems, TLAPS

\* What a step leaves of the types, without the counter's bounds.
Types ==
    /\ value \in Int
    /\ waiters \in Seq(Tasks)
    /\ wakeupScheduled \in BOOLEAN
    /\ pc \in [Tasks -> PCs]

\* The inductive invariant behind TypeOK and PermitConservation: the bound
\* on the counter follows from conservation and from value >= 0, which
\* AcquireNow and ResumeTake keep by testing the counter.
PermitInv ==
    /\ Types
    /\ value >= 0
    /\ PermitConservation

-----------------------------------------------------------------------------
\* A set of tasks is finite, so it has a cardinality in Nat.
LEMMA AtFinite ==
    ASSUME NEW p, NEW s
    PROVE  /\ IsFiniteSet({t \in Tasks : p[t] = s})
           /\ Cardinality({t \in Tasks : p[t] = s}) \in Nat
<1>1. {t \in Tasks : p[t] = s} \subseteq Tasks
  OBVIOUS
<1> QED
  BY <1>1, TasksAssumption, FS_Subset, FS_CardinalityType

\* _wake_up_next moves at most one task, from "waiting" to "woken": whom it
\* leaves holding is decided by the program counters it started from.
LEMMA WakeUpNextFrame ==
    ASSUME Types, NEW p \in [Tasks -> PCs], WakeUpNext(p)
    PROVE  /\ waiters' \in Seq(Tasks)
           /\ wakeupScheduled' \in BOOLEAN
           /\ pc' \in [Tasks -> PCs]
           /\ \A t \in Tasks : pc'[t] = "holding" <=> p[t] = "holding"
<1>1. CASE Pending(p) = {}
  <2>1. waiters' = <<>> /\ pc' = p /\ wakeupScheduled' = wakeupScheduled
    BY <1>1, WakeUpNext(p) DEF WakeUpNext
  <2> QED
    BY <2>1 DEF Types
<1>2. CASE Pending(p) # {}
  <2>1. PICK i \in Pending(p) :
          /\ waiters' = SubSeq(waiters, i + 1, Len(waiters))
          /\ pc' = [p EXCEPT ![waiters[i]] = "woken"]
          /\ wakeupScheduled' = TRUE
    BY <1>2, WakeUpNext(p) DEF WakeUpNext
  <2>2. /\ i \in 1..Len(waiters)
        /\ waiters[i] \in Tasks
        /\ p[waiters[i]] = "waiting"
    BY <2>1 DEF Pending, Types
  <2>3. waiters' \in Seq(Tasks)
    BY <2>1, <2>2 DEF Types
  <2>4. pc' \in [Tasks -> PCs]
    BY <2>1, <2>2 DEF PCs
  <2>5. \A t \in Tasks : pc'[t] = "holding" <=> p[t] = "holding"
    BY <2>1, <2>2
  <2> QED
    BY <2>1, <2>3, <2>4, <2>5
<1> QED
  BY <1>1, <1>2

\* How the number of holders follows the program counters.
LEMMA HoldersSame ==
    ASSUME \A t \in Tasks : pc'[t] = "holding" <=> pc[t] = "holding"
    PROVE  Cardinality(At("holding"))' = Cardinality(At("holding"))
<1>1. At("holding")' = At("holding")
  BY DEF At
<1> QED
  BY <1>1

\* A task that enters adds one to the holders.
LEMMA HoldersGain ==
    ASSUME NEW t \in Tasks, pc[t] # "holding", pc'[t] = "holding",
           \A u \in Tasks \ {t} : pc'[u] = "holding" <=> pc[u] = "holding"
    PROVE  Cardinality(At("holding"))' = Cardinality(At("holding")) + 1
<1>1. At("holding")' = At("holding") \cup {t}
  BY DEF At
<1>2. t \notin At("holding")
  BY DEF At
<1>3. IsFiniteSet(At("holding"))
  BY AtFinite DEF At
<1> QED
  BY <1>1, <1>2, <1>3, FS_AddElement

\* A task that leaves takes one from the holders.
LEMMA HoldersLose ==
    ASSUME NEW t \in Tasks, pc[t] = "holding", pc'[t] # "holding",
           \A u \in Tasks \ {t} : pc'[u] = "holding" <=> pc[u] = "holding"
    PROVE  Cardinality(At("holding"))' = Cardinality(At("holding")) - 1
<1>1. At("holding")' = At("holding") \ {t}
  BY DEF At
<1>2. t \in At("holding")
  BY DEF At
<1>3. IsFiniteSet(At("holding"))
  BY AtFinite DEF At
<1> QED
  BY <1>1, <1>2, <1>3, FS_RemoveElement

-----------------------------------------------------------------------------
\* The counter keeps step with the holders, whatever the task does.
LEMMA PermitStep ==
    ASSUME PermitInv, [Next]_vars
    PROVE  PermitInv'
<1> USE DEF PermitInv, PermitConservation
<1>0. Cardinality(At("holding")) \in Nat
  BY AtFinite DEF At
<1>1. CASE UNCHANGED vars
  BY <1>1 DEF vars, Types, At
<1>2. ASSUME NEW t \in Tasks, AcquireNow(t)
      PROVE  PermitInv'
  <2>1. Types'
    BY <1>2 DEF AcquireNow, Take, Types, PCs
  <2>2. Cardinality(At("holding"))' = Cardinality(At("holding")) + 1
    BY <1>2, HoldersGain DEF AcquireNow, Take, Types
  <2> QED
    BY <1>0, <1>2, <2>1, <2>2, ValueAssumption DEF AcquireNow, Take, MustWait, Types
<1>3. ASSUME NEW t \in Tasks, AcquireWait(t)
      PROVE  PermitInv'
  <2>1. Types'
    BY <1>3 DEF AcquireWait, Enqueue, Types, PCs
  <2>2. Cardinality(At("holding"))' = Cardinality(At("holding"))
    BY <1>3, HoldersSame DEF AcquireWait, Enqueue, Types
  <2> QED
    BY <1>3, <2>1, <2>2 DEF AcquireWait, Enqueue
<1>4. ASSUME NEW t \in Tasks, ResumeTake(t)
      PROVE  PermitInv'
  <2>1. Types'
    <3>1. wakeupScheduled' \in BOOLEAN
      BY <1>4, Zenon DEF ResumeTake
    <3>2. (value \in Int /\ waiters \in Seq(Tasks) /\ pc \in [Tasks -> PCs])'
      BY <1>4 DEF ResumeTake, Take, Types, PCs
    <3> QED
      BY <3>1, <3>2 DEF Types
  <2>2. Cardinality(At("holding"))' = Cardinality(At("holding")) + 1
    BY <1>4, HoldersGain DEF ResumeTake, Take, Types
  <2> QED
    BY <1>0, <1>4, <2>1, <2>2, ValueAssumption DEF ResumeTake, Take, Types
<1>5. ASSUME NEW t \in Tasks, ResumeWait(t)
      PROVE  PermitInv'
  <2>1. Types'
    <3>1. wakeupScheduled' \in BOOLEAN
      BY <1>5, Zenon DEF ResumeWait
    <3>2. (value \in Int /\ waiters \in Seq(Tasks) /\ pc \in [Tasks -> PCs])'
      BY <1>5 DEF ResumeWait, Enqueue, Types, PCs
    <3> QED
      BY <3>1, <3>2 DEF Types
  <2>2. Cardinality(At("holding"))' = Cardinality(At("holding"))
    BY <1>5, HoldersSame DEF ResumeWait, Enqueue, Types
  <2> QED
    BY <1>5, <2>1, <2>2 DEF ResumeWait, Enqueue
<1>6. ASSUME NEW t \in Tasks, Release(t)
      PROVE  PermitInv'
  <2> DEFINE p == [pc EXCEPT ![t] = "done"]
  <2>1. p \in [Tasks -> PCs]
    BY DEF Types, PCs
  <2>2. Types' /\ \A u \in Tasks : pc'[u] = "holding" <=> p[u] = "holding"
    <3>1. WakeUpNext(p) /\ value' = value + 1
      BY <1>6 DEF Release
    <3>2. /\ (waiters \in Seq(Tasks) /\ wakeupScheduled \in BOOLEAN /\ pc \in [Tasks -> PCs])'
          /\ \A u \in Tasks : pc'[u] = "holding" <=> p[u] = "holding"
      BY <2>1, <3>1, WakeUpNextFrame, Zenon
    <3>3. value' \in Int
      BY <3>1 DEF Types
    <3> QED
      BY <3>2, <3>3, Zenon DEF Types
  <2>3. Cardinality(At("holding"))' = Cardinality(At("holding")) - 1
    BY <1>6, <2>2, HoldersLose DEF Release, Types
  <2> QED
    BY <1>0, <1>6, <2>2, <2>3, ValueAssumption DEF Release, Types
<1>7. ASSUME NEW t \in Tasks, Cancel(t)
      PROVE  PermitInv'
  <2>1. Types'
    BY <1>7 DEF Cancel, Types, PCs
  <2>2. Cardinality(At("holding"))' = Cardinality(At("holding"))
    BY <1>7, HoldersSame DEF Cancel, Types
  <2> QED
    BY <1>7, <2>1, <2>2 DEF Cancel
<1>8. ASSUME NEW t \in Tasks, RaiseCancelled(t)
      PROVE  PermitInv'
  <2> DEFINE p == [pc EXCEPT ![t] = "gone"]
  <2>1. p \in [Tasks -> PCs]
    BY DEF Types, PCs
  <2>2. Types' /\ \A u \in Tasks : pc'[u] = "holding" <=> p[u] = "holding"
    <3>1. WakeUpNext(p) /\ value' = value
      BY <1>8 DEF RaiseCancelled
    <3>2. /\ (waiters \in Seq(Tasks) /\ wakeupScheduled \in BOOLEAN /\ pc \in [Tasks -> PCs])'
          /\ \A u \in Tasks : pc'[u] = "holding" <=> p[u] = "holding"
      BY <2>1, <3>1, WakeUpNextFrame, Zenon
    <3>3. value' \in Int
      BY <3>1 DEF Types
    <3> QED
      BY <3>2, <3>3, Zenon DEF Types
  <2>3. Cardinality(At("holding"))' = Cardinality(At("holding"))
    BY <1>8, <2>2, HoldersSame DEF RaiseCancelled, Types
  <2> QED
    BY <1>8, <2>2, <2>3 DEF RaiseCancelled
<1> QED
  BY <1>1, <1>2, <1>3, <1>4, <1>5, <1>6, <1>7, <1>8 DEF Next

\* At first all permits are free.
LEMMA PermitInit == Init => PermitInv
<1> SUFFICES ASSUME Init PROVE PermitInv
  OBVIOUS
<1>1. At("holding") = {}
  BY DEF Init, At
<1>2. Cardinality(At("holding")) = 0
  BY <1>1, FS_EmptySet
<1>3. wakeupScheduled \in BOOLEAN
  BY Zenon DEF Init
<1>4. Types
  BY <1>3, ValueAssumption DEF Init, Types, PCs
<1> QED
  BY <1>2, <1>4, ValueAssumption DEF Init, PermitInv, PermitConservation

\* Permits are conserved throughout.
LEMMA PermitAlways == Spec => []PermitInv
BY PermitInit, PermitStep, PTL DEF Spec

\* Counter and holders add up to the initial value in every reachable state,
\* for any number of tasks, any order of wake-ups and any cancellations.
THEOREM PermitsConserved == Spec => []PermitConservation
<1>1. PermitInv => PermitConservation
  BY DEF PermitInv
<1> QED
  BY <1>1, PermitAlways, PTL

\* The counter stays within 0..Value: the docstring's "can never go below
\* zero" holds of the engine semaphore.
THEOREM TypeCorrect == Spec => []TypeOK
<1>1. PermitInv => TypeOK
  <2> SUFFICES ASSUME PermitInv PROVE TypeOK
    OBVIOUS
  <2>1. Cardinality(At("holding")) \in Nat
    BY AtFinite DEF At
  <2>2. value \in 0..Value
    BY <2>1, ValueAssumption DEF PermitInv, PermitConservation, Types
  <2> QED
    BY <2>2 DEF PermitInv, Types, TypeOK
<1> QED
  BY <1>1, PermitAlways, PTL

-----------------------------------------------------------------------------
\* A waiting task has a future in the deque.
Queued == \A t \in Tasks : pc[t] = "waiting" => \E i \in 1..Len(waiters) : waiters[i] = t

\* What holds, besides NoStrandedWaiter, as long as no task was cancelled.  A task goes to the deque because the flag is up, and then a
\* woken task is about to run, or because the counter is zero, and then by
\* conservation someone holds a permit; release() empties the deque only
\* when, by Queued, nobody waits.
QuietInv ==
    /\ PermitInv
    /\ \A t \in Tasks : pc[t] # "cancelled"
    /\ WakeupFlagAccurate
    /\ Queued
    /\ NoStrandedWaiter

\* With the counter at zero someone is inside the block.
LEMMA ZeroMeansHolder ==
    ASSUME PermitInv, value <= 0
    PROVE  \E h \in Tasks : pc[h] = "holding"
<1>0. Cardinality(At("holding")) \in Nat
  BY AtFinite DEF At
<1>1. Cardinality(At("holding")) = Value
  BY <1>0, ValueAssumption DEF PermitInv, PermitConservation, Types
<1>2. At("holding") # {}
  BY <1>1, FS_EmptySet, ValueAssumption
<1> QED
  BY <1>2 DEF At

\* _wake_up_next keeps every waiting task in the deque, and leaves a woken
\* task behind whenever a task still waits.
LEMMA WakeUpNextReaches ==
    ASSUME Types, Queued, NEW p \in [Tasks -> PCs], WakeUpNext(p),
           \A t \in Tasks : p[t] = "waiting" => pc[t] = "waiting"
    PROVE  /\ Queued'
           /\ \A t \in Tasks : pc'[t] \in {p[t], "woken"}
           /\ \A t \in Tasks : p[t] = "woken" => pc'[t] = "woken"
           /\ wakeupScheduled' =>
                 wakeupScheduled \/ \E u \in Tasks : pc'[u] = "woken"
           /\ \A t \in Tasks : pc'[t] = "waiting" => \E u \in Tasks : pc'[u] = "woken"
<1>1. CASE Pending(p) = {}
  <2>1. waiters' = <<>> /\ pc' = p /\ wakeupScheduled' = wakeupScheduled
    BY <1>1, WakeUpNext(p) DEF WakeUpNext
  <2>2. \A t \in Tasks : p[t] # "waiting"
    BY <1>1 DEF Queued, Pending
  <2> QED
    BY <2>1, <2>2 DEF Queued
<1>2. CASE Pending(p) # {}
  <2>1. PICK i \in Pending(p) :
          /\ \A j \in Pending(p) : i <= j
          /\ waiters' = SubSeq(waiters, i + 1, Len(waiters))
          /\ pc' = [p EXCEPT ![waiters[i]] = "woken"]
    BY <1>2, WakeUpNext(p) DEF WakeUpNext
  <2>2. /\ i \in 1..Len(waiters)
        /\ waiters[i] \in Tasks
        /\ p[waiters[i]] = "waiting"
    BY <2>1 DEF Pending, Types
  <2>3. ASSUME NEW t \in Tasks, pc'[t] = "waiting"
        PROVE  \E k \in 1..Len(waiters') : waiters'[k] = t
    <3>1. t # waiters[i] /\ p[t] = "waiting"
      BY <2>1, <2>2, <2>3
    <3>2. PICK j \in 1..Len(waiters) : waiters[j] = t
      BY <3>1 DEF Queued
    <3>3. j > i
      BY <2>1, <2>2, <3>1, <3>2 DEF Pending, Types
    <3>4. Len(waiters') = Len(waiters) - i /\ waiters'[j - i] = waiters[j]
      BY <2>1, <2>2, <3>2, <3>3 DEF Types
    <3> QED
      BY <2>2, <3>2, <3>3, <3>4 DEF Types
  <2>4. Queued'
    BY <2>3 DEF Queued
  <2>5. pc'[waiters[i]] = "woken"
    BY <2>1, <2>2
  <2>6. \A t \in Tasks : pc'[t] \in {p[t], "woken"} /\ (p[t] = "woken" => pc'[t] = "woken")
    BY <2>1, <2>2
  <2> QED
    BY <2>2, <2>4, <2>5, <2>6
<1> QED
  BY <1>1, <1>2

\* A cancelled task stays cancelled or gone.
LEMMA CancelledStays ==
    ASSUME Types, [Next]_vars, Uncancelled'
    PROVE  Uncancelled
<1> SUFFICES ASSUME NEW u \in Tasks, pc[u] \in {"cancelled", "gone"}
             PROVE  pc'[u] \in {"cancelled", "gone"}
  BY DEF Uncancelled, At
<1>0. ASSUME NEW p \in [Tasks -> PCs], p[u] \in {"cancelled", "gone"}, WakeUpNext(p)
      PROVE  pc'[u] \in {"cancelled", "gone"}
  <2>1. CASE Pending(p) = {}
    BY <1>0, <2>1 DEF WakeUpNext
  <2>2. CASE Pending(p) # {}
    <3>1. PICK i \in Pending(p) : pc' = [p EXCEPT ![waiters[i]] = "woken"]
      BY <1>0, <2>2 DEF WakeUpNext
    <3>2. p[waiters[i]] = "waiting"
      BY <3>1 DEF Pending
    <3> QED
      BY <1>0, <3>1, <3>2
  <2> QED
    BY <2>1, <2>2
<1>1. CASE UNCHANGED vars
  BY <1>1 DEF vars
<1>2. ASSUME NEW t \in Tasks, AcquireNow(t) \/ AcquireWait(t) \/ ResumeTake(t) \/ ResumeWait(t)
      PROVE  pc'[u] \in {"cancelled", "gone"}
  BY <1>2 DEF AcquireNow, AcquireWait, ResumeTake, ResumeWait, Take, Enqueue, Types
<1>3. ASSUME NEW t \in Tasks, Release(t)
      PROVE  pc'[u] \in {"cancelled", "gone"}
  <2>1. /\ [pc EXCEPT ![t] = "done"] \in [Tasks -> PCs]
        /\ [pc EXCEPT ![t] = "done"][u] = pc[u]
        /\ WakeUpNext([pc EXCEPT ![t] = "done"])
    BY <1>3 DEF Release, Types, PCs
  <2> QED
    BY <1>0, <2>1
<1>4. ASSUME NEW t \in Tasks, Cancel(t)
      PROVE  pc'[u] \in {"cancelled", "gone"}
  BY <1>4 DEF Cancel, Types
<1>5. ASSUME NEW t \in Tasks, RaiseCancelled(t)
      PROVE  pc'[u] \in {"cancelled", "gone"}
  <2>1. /\ [pc EXCEPT ![t] = "gone"] \in [Tasks -> PCs]
        /\ [pc EXCEPT ![t] = "gone"][u] \in {"cancelled", "gone"}
        /\ WakeUpNext([pc EXCEPT ![t] = "gone"])
    BY <1>5 DEF RaiseCancelled, Types, PCs
  <2> QED
    BY <1>0, <2>1
<1> QED
  BY <1>1, <1>2, <1>3, <1>4, <1>5 DEF Next

\* Until a task is cancelled every step keeps the waiters queued and served.
LEMMA QuietStep ==
    ASSUME QuietInv, [Next]_vars, Uncancelled'
    PROVE  QuietInv'
<1> USE DEF At
<1>0. PermitInv' /\ PermitInv /\ Types
  BY PermitStep DEF QuietInv, PermitInv
<1>1. CASE UNCHANGED vars
  BY <1>0, <1>1 DEF vars, QuietInv, WakeupFlagAccurate, Queued, NoStrandedWaiter, Uncancelled
<1>2. ASSUME NEW t \in Tasks, AcquireNow(t)
      PROVE  QuietInv'
  <2>1. pc' = [pc EXCEPT ![t] = "holding"] /\ pc[t] = "idle"
    BY <1>2 DEF AcquireNow, Take
  <2>2. /\ ~wakeupScheduled
        /\ wakeupScheduled' = wakeupScheduled
        /\ waiters' = waiters
    BY <1>2 DEF AcquireNow, Take, MustWait
  <2>3. WakeupFlagAccurate' /\ NoStrandedWaiter'
    BY <1>0, <2>1, <2>2 DEF WakeupFlagAccurate, NoStrandedWaiter, Types
  <2>4. Queued' /\ \A u \in Tasks : pc'[u] # "cancelled"
    BY <1>0, <2>1, <2>2 DEF QuietInv, Queued, Types
  <2> QED
    BY <1>0, <2>3, <2>4 DEF QuietInv
<1>3. ASSUME NEW t \in Tasks, pc[t] \in {"idle", "woken"}, Enqueue(t),
             wakeupScheduled' => \E u \in Tasks : pc'[u] = "woken",
             \E u \in Tasks : pc'[u] \in {"woken", "holding"}
      PROVE  QuietInv'
  <2>1. pc' = [pc EXCEPT ![t] = "waiting"] /\ waiters' = Append(waiters, t)
    BY <1>3 DEF Enqueue
  <2>2. ASSUME NEW u \in Tasks, pc'[u] = "waiting"
        PROVE  \E i \in 1..Len(waiters') : waiters'[i] = u
    <3>1. CASE u = t
      BY <1>0, <2>1, <3>1 DEF Types
    <3>2. CASE u # t
      <4>1. PICK i \in 1..Len(waiters) : waiters[i] = u
        BY <1>0, <2>1, <2>2, <3>2 DEF QuietInv, Queued, Types
      <4> QED
        BY <1>0, <2>1, <4>1 DEF Types
    <3> QED
      BY <3>1, <3>2
  <2>3. Queued'
    BY <2>2 DEF Queued
  <2>4. \A u \in Tasks : pc'[u] # "cancelled"
    BY <1>0, <2>1 DEF QuietInv, Types
  <2>5. WakeupFlagAccurate' /\ NoStrandedWaiter'
    BY <1>3 DEF WakeupFlagAccurate, NoStrandedWaiter
  <2> QED
    BY <1>0, <2>3, <2>4, <2>5 DEF QuietInv
<1>4. ASSUME NEW t \in Tasks, AcquireWait(t)
      PROVE  QuietInv'
  <2>1. /\ Enqueue(t) /\ pc[t] = "idle" /\ MustWait
        /\ wakeupScheduled' = wakeupScheduled
        /\ pc' = [pc EXCEPT ![t] = "waiting"]
    BY <1>4 DEF AcquireWait, Enqueue
  <2>2. wakeupScheduled => \E u \in Tasks : pc[u] = "woken"
    BY DEF QuietInv, WakeupFlagAccurate
  <2>3. ~wakeupScheduled => \E u \in Tasks : pc[u] = "holding"
    BY <1>0, <2>1, ZeroMeansHolder DEF MustWait
  <2>4. \A u \in Tasks : u # t => pc'[u] = pc[u]
    BY <1>0, <2>1 DEF Types
  <2>5. wakeupScheduled' => \E u \in Tasks : pc'[u] = "woken"
    BY <2>1, <2>2, <2>4
  <2>6. \E u \in Tasks : pc'[u] \in {"woken", "holding"}
    BY <2>1, <2>2, <2>3, <2>4
  <2> QED
    BY <1>3, <2>1, <2>5, <2>6
<1>5. ASSUME NEW t \in Tasks, ResumeTake(t)
      PROVE  QuietInv'
  <2>1. /\ pc' = [pc EXCEPT ![t] = "holding"] /\ pc[t] = "woken"
        /\ ~wakeupScheduled' /\ waiters' = waiters
    BY <1>5 DEF ResumeTake, Take
  <2>2. pc'[t] = "holding"
    BY <1>0, <2>1 DEF Types
  <2>3. WakeupFlagAccurate' /\ NoStrandedWaiter'
    BY <2>1, <2>2 DEF WakeupFlagAccurate, NoStrandedWaiter
  <2>4. Queued' /\ \A u \in Tasks : pc'[u] # "cancelled"
    BY <1>0, <2>1 DEF QuietInv, Queued, Types
  <2> QED
    BY <1>0, <2>3, <2>4 DEF QuietInv
<1>6. ASSUME NEW t \in Tasks, ResumeWait(t)
      PROVE  QuietInv'
  <2>1. /\ Enqueue(t) /\ pc[t] = "woken" /\ value <= 0
        /\ ~wakeupScheduled'
        /\ pc' = [pc EXCEPT ![t] = "waiting"]
    BY <1>6 DEF ResumeWait, Enqueue
  <2>2. PICK h \in Tasks : pc[h] = "holding"
    BY <1>0, <2>1, ZeroMeansHolder
  <2>3. pc'[h] = "holding"
    BY <1>0, <2>1, <2>2 DEF Types
  <2> QED
    BY <1>3, <2>1, <2>3
<1>7. ASSUME NEW t \in Tasks, Release(t)
      PROVE  QuietInv'
  <2> DEFINE p == [pc EXCEPT ![t] = "done"]
  <2>1. WakeUpNext(p) /\ pc[t] = "holding"
    BY <1>7 DEF Release
  <2>2. /\ p \in [Tasks -> PCs]
        /\ \A u \in Tasks : p[u] = "waiting" => pc[u] = "waiting"
        /\ \A u \in Tasks : pc[u] = "woken" => p[u] = "woken"
        /\ \A u \in Tasks : p[u] # "cancelled"
    BY <1>0, <2>1 DEF Types, PCs, QuietInv
  <2> HIDE DEF p
  <2>3. /\ Queued'
        /\ \A u \in Tasks : pc'[u] \in {p[u], "woken"}
        /\ \A u \in Tasks : p[u] = "woken" => pc'[u] = "woken"
        /\ wakeupScheduled' =>
              wakeupScheduled \/ \E u \in Tasks : pc'[u] = "woken"
        /\ \A u \in Tasks : pc'[u] = "waiting" => \E v \in Tasks : pc'[v] = "woken"
    BY <1>0, <2>1, <2>2, WakeUpNextReaches DEF QuietInv
  <2>4. WakeupFlagAccurate'
    BY <2>2, <2>3 DEF QuietInv, WakeupFlagAccurate
  <2>5. NoStrandedWaiter' /\ \A u \in Tasks : pc'[u] # "cancelled"
    BY <2>2, <2>3 DEF NoStrandedWaiter
  <2> QED
    BY <1>0, <2>3, <2>4, <2>5 DEF QuietInv
<1>8. ASSUME NEW t \in Tasks, Cancel(t)
      PROVE  QuietInv'
  <2>1. pc'[t] = "cancelled"
    BY <1>0, <1>8 DEF Cancel, Types
  <2> QED
    BY <2>1 DEF Uncancelled
<1>9. ASSUME NEW t \in Tasks, RaiseCancelled(t)
      PROVE  QuietInv'
  BY <1>9 DEF RaiseCancelled, QuietInv
<1> QED
  BY <1>1, <1>2, <1>4, <1>5, <1>6, <1>7, <1>8, <1>9 DEF Next

\* The inductive invariant: permits are conserved, and before the first
\* cancellation nobody is stranded.
UntilCancelled == PermitInv /\ (Uncancelled => QuietInv)

\* Nobody is stranded before the first cancellation, in any behaviour.
LEMMA QuietAlways == Spec => []UntilCancelled
<1>1. Init => UntilCancelled
  BY PermitInit DEF Init, UntilCancelled, QuietInv, At, WakeupFlagAccurate, Queued, NoStrandedWaiter
<1>2. UntilCancelled /\ [Next]_vars => UntilCancelled'
  <2> SUFFICES ASSUME UntilCancelled, [Next]_vars
               PROVE  UntilCancelled'
    OBVIOUS
  <2>1. PermitInv'
    BY PermitStep DEF UntilCancelled
  <2>2. ASSUME Uncancelled'
        PROVE  QuietInv'
    <3>1. Uncancelled
      BY <2>2, CancelledStays DEF UntilCancelled, PermitInv
    <3> QED
      BY <2>2, <3>1, QuietStep DEF UntilCancelled
  <2> QED
    BY <2>1, <2>2 DEF UntilCancelled
<1> QED
  BY <1>1, <1>2, PTL DEF Spec

\* Until a task is cancelled the semaphore never parks everyone: while a
\* task waits in acquire(), another holds a permit or is about to run.
THEOREM NeverStranded == Spec => []NoStrandedWaiter
<1>1. UntilCancelled => NoStrandedWaiter
  BY DEF UntilCancelled, QuietInv, NoStrandedWaiter
<1> QED
  BY <1>1, QuietAlways, PTL

\* Until a task is cancelled _wakeup_scheduled means what its comment says.
THEOREM FlagAccurate == Spec => [](Uncancelled => WakeupFlagAccurate)
<1>1. UntilCancelled => (Uncancelled => WakeupFlagAccurate)
  BY DEF UntilCancelled, QuietInv
<1> QED
  BY <1>1, QuietAlways, PTL

-----------------------------------------------------------------------------
\* A wake-up is invisible to the permit pool.
LEMMA WakeUpNextStage ==
    ASSUME Types, NEW p \in [Tasks -> PCs], WakeUpNext(p)
    PROVE  \A t \in Tasks : Stage(pc'[t]) = Stage(p[t])
<1>1. CASE Pending(p) = {}
  BY <1>1, WakeUpNext(p) DEF WakeUpNext
<1>2. CASE Pending(p) # {}
  <2>1. PICK i \in Pending(p) : pc' = [p EXCEPT ![waiters[i]] = "woken"]
    BY <1>2, WakeUpNext(p) DEF WakeUpNext
  <2>2. p[waiters[i]] = "waiting"
    BY <2>1 DEF Pending
  <2> QED
    BY <2>1, <2>2 DEF Stage
<1> QED
  BY <1>1, <1>2

\* How a change of one task's stage looks in the abstract state.
LEMMA StageUpdate ==
    ASSUME NEW t \in Tasks, NEW s, Stage(pc'[t]) = s,
           \A u \in Tasks \ {t} : Stage(pc'[u]) = Stage(pc[u])
    PROVE  [u \in Tasks |-> Stage(pc'[u])]
             = [[u \in Tasks |-> Stage(pc[u])] EXCEPT ![t] = s]
OBVIOUS

\* Tasks that keep their stages are where they were in the permit pool.
LEMMA StageSame ==
    ASSUME \A u \in Tasks : Stage(pc'[u]) = Stage(pc[u])
    PROVE  [u \in Tasks |-> Stage(pc'[u])] = [u \in Tasks |-> Stage(pc[u])]
OBVIOUS

\* A step of the semaphore is a step of the permit pool or leaves it alone.
LEMMA PermitPoolStep ==
    ASSUME PermitInv, [Next]_vars
    PROVE  [Permits!Next]_([t \in Tasks |-> Stage(pc[t])])
<1> DEFINE S == [t \in Tasks |-> Stage(pc[t])]
<1>0. Types /\ Permits!Inside = At("holding") /\ Cardinality(At("holding")) \in Nat
  <2>1. Permits!Inside = At("holding")
    BY DEF Permits!Inside, At, Stage
  <2> QED
    BY <2>1, AtFinite DEF PermitInv, At
<1>1. ASSUME NEW t \in Tasks, Take(t), Stage(pc[t]) = "outside", value > 0
      PROVE  Permits!Next
  <2>1. S' = [S EXCEPT ![t] = "inside"]
    <3>1. pc' = [pc EXCEPT ![t] = "holding"]
      BY <1>1 DEF Take
    <3>2. Stage(pc'[t]) = "inside" /\ \A u \in Tasks \ {t} : Stage(pc'[u]) = Stage(pc[u])
      BY <1>0, <3>1 DEF Types, Stage
    <3> QED
      BY <3>2, StageUpdate
  <2>2. Permits!Cardinality(Permits!Inside) < Value
    <3>1. Permits!Cardinality(At("holding")) = Cardinality(At("holding"))
      BY Zenon DEF Permits!Cardinality, Cardinality
    <3> QED
      BY <1>0, <1>1, <3>1, ValueAssumption DEF PermitInv, PermitConservation, Types
  <2> QED
    BY <1>1, <2>1, <2>2 DEF Permits!Next, Permits!Enter
<1>2. ASSUME NEW t \in Tasks, Stage(pc[t]) \in {"inside", "outside"},
             Stage(pc'[t]) = "left",
             \A u \in Tasks \ {t} : Stage(pc'[u]) = Stage(pc[u])
      PROVE  Permits!Next
  <2>1. S' = [S EXCEPT ![t] = "left"]
    BY <1>2, StageUpdate
  <2> QED
    BY <1>2, <2>1 DEF Permits!Next, Permits!Leave
<1>3. ASSUME NEW t \in Tasks, AcquireNow(t) \/ ResumeTake(t)
      PROVE  Permits!Next
  <2>1. Take(t) /\ Stage(pc[t]) = "outside" /\ value > 0
    BY <1>0, <1>3 DEF AcquireNow, ResumeTake, MustWait, Stage, Types
  <2> QED
    BY <1>1, <2>1
<1>4. ASSUME NEW t \in Tasks, AcquireWait(t) \/ ResumeWait(t) \/ Cancel(t)
      PROVE  S' = S
  <2>1. pc[t] \in {"idle", "woken", "waiting"}
    BY <1>4 DEF AcquireWait, ResumeWait, Cancel
  <2>2. pc' = [pc EXCEPT ![t] = "waiting"] \/ pc' = [pc EXCEPT ![t] = "cancelled"]
    BY <1>4 DEF AcquireWait, ResumeWait, Cancel, Enqueue
  <2>3. \A u \in Tasks : Stage(pc'[u]) = Stage(pc[u])
    BY <1>0, <2>1, <2>2 DEF Types, Stage
  <2> QED
    BY <2>3, StageSame
<1>5. ASSUME NEW t \in Tasks, NEW s \in {"done", "gone"},
             pc[t] \in {"holding", "cancelled"}, WakeUpNext([pc EXCEPT ![t] = s])
      PROVE  Permits!Next
  <2> DEFINE p == [pc EXCEPT ![t] = s]
  <2>1. p \in [Tasks -> PCs]
    BY <1>0 DEF Types, PCs
  <2>2. \A u \in Tasks : Stage(pc'[u]) = Stage(p[u])
    BY <1>0, <1>5, <2>1, WakeUpNextStage
  <2>3. Stage(p[t]) = "left" /\ \A u \in Tasks \ {t} : p[u] = pc[u]
    BY <1>0 DEF Types, Stage
  <2>4. Stage(pc[t]) \in {"inside", "outside"}
    BY <1>5 DEF Stage
  <2> HIDE DEF p
  <2> QED
    BY <1>2, <2>2, <2>3, <2>4
<1>6. ASSUME NEW t \in Tasks, Release(t) \/ RaiseCancelled(t)
      PROVE  Permits!Next
  BY <1>5, <1>6 DEF Release, RaiseCancelled
<1>7. CASE UNCHANGED vars
  BY <1>7 DEF vars
<1> QED
  BY <1>3, <1>4, <1>6, <1>7 DEF Next

\* The semaphore implements the permit pool the engines are modelled with,
\* cancellation included.
THEOREM PermitPoolImplemented == Spec => ImplementsPermitPool
<1>1. Init => Permits!Init
  BY DEF Init, Permits!Init, Stage
<1>2. PermitInv /\ [Next]_vars => [Permits!Next]_([t \in Tasks |-> Stage(pc[t])])
  BY PermitPoolStep
<1> QED
  BY <1>1, <1>2, PermitAlways, PTL DEF Spec, ImplementsPermitPool, Permits!Spec
=============================================================================
