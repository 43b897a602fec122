------------------------ MODULE EngineSessionProofs ------------------------
(***************************************************************************)
(* Theorems about an engine session under load, for every finite set of    *)
(* requests, every pool size and any number of resizes and iterations.     *)
(***************************************************************************)
EXTENDS EngineSession, FiniteSetTheorems, TLAPS

PCs == {"free", "spawned", "queued", "running", "returned", "ended", "aborted", "cancelled"}

\* The types, without the bounds that need the accounts below.  Each resize
\* and each iteration installs one semaphore, so their numbers suffice.
Types ==
    /\ engine \in Engines
    /\ pc \in [Requests -> PCs]
    /\ semOf \in [Requests -> Gens] /\ gen \in Gens
    /\ permits \in [Gens -> Nat]
    /\ size \in 1..MaxSize
    /\ pool \in Nat /\ active \in Int
    /\ waiter \in {"none", "pending", "cancelled"}
    /\ generator \in {"loop", "slept", "waiting", "exhausted"}
    /\ elapsed \in BOOLEAN /\ timeUp \in BOOLEAN
    /\ phase \in {"generating", "draining", "collecting", "cancelling", "raised", "closed"}
    /\ pending \subseteq Requests
    /\ leaked \in Nat /\ late \in Nat
    /\ iteration \in 1..MaxIterations /\ gen <= Resizes + iteration - 1

\* Where the persona and its generator can be together: no request is between
\* its creation and its first step when the generator goes on, and a pending
\* waiter is one the generator awaits.
PersonaInv ==
    /\ phase = "generating" <=> generator # "exhausted"
    /\ generator # "slept" => At({"spawned"}) = {}
    /\ waiter = "pending" => generator = "waiting"

\* A request spawned too late is seen by the generator before the next.
LateInv ==
    /\ late \in {0, 1}
    /\ late = 1 => timeUp /\ (generator = "slept" \/ elapsed)

\* No queued request outlives cancel_pending.
QueuedInv ==
    /\ phase = "collecting" => At({"queued"}) \subseteq pending
    /\ phase \in {"cancelling", "closed"} => At({"queued"}) = {}

\* The requests that hold a permit of semaphore g.
Holding(g) == {r \in Requests : pc[r] \in InBlock /\ semOf[r] = g}

\* No semaphore gives out more than the largest pool, and none is entered
\* before it is installed.
PermitsInv ==
    /\ \A r \in Requests : semOf[r] <= gen
    /\ \A g \in Gens : permits[g] + Cardinality(Holding(g)) <= MaxSize

\* In the first pool, until cancel_pending takes connections out of it, there
\* is a connection for every free permit, besides those that went back before
\* their permit did.
PoolInv ==
    gen = 0 /\ phase \notin {"cancelling", "closed"} =>
        pool >= permits[0] + Cardinality(At({"returned"}))

-----------------------------------------------------------------------------
\* Request r goes on to p.
Moves(r, p) == pc' = [pc EXCEPT ![r] = p]

\* Sets of requests are finite.
LEMMA RequestsFinite ==
    ASSUME NEW S \in SUBSET Requests
    PROVE  IsFiniteSet(S) /\ Cardinality(S) \in Nat
BY SessionAssumption, FS_Subset, FS_CardinalityType

\* How the number of requests at some program counters follows one request.
LEMMA MoveCount ==
    ASSUME Types, NEW r \in Requests, NEW p, Moves(r, p), NEW S
    PROVE  /\ Cardinality(At(S)) \in Nat
           /\ Cardinality(At(S)') = Cardinality(At(S)) + (IF p \in S THEN 1 ELSE 0)
                                        - (IF pc[r] \in S THEN 1 ELSE 0)
<1>1. IsFiniteSet(At(S)) /\ Cardinality(At(S)) \in Nat
  <2>1. At(S) \in SUBSET Requests
    BY DEF At
  <2> QED
    BY <2>1, RequestsFinite
<1>2. r \in At(S) <=> pc[r] \in S
  BY DEF At
<1>3. CASE p \in S
  <2>1. At(S)' = At(S) \cup {r}
    BY <1>3 DEF Moves, At, Types
  <2>2. Cardinality(At(S) \cup {r}) = IF r \in At(S) THEN Cardinality(At(S)) ELSE Cardinality(At(S)) + 1
    BY <1>1, FS_AddElement
  <2> QED
    BY <1>1, <1>2, <1>3, <2>1, <2>2
<1>4. CASE p \notin S
  <2>1. At(S)' = At(S) \ {r}
    BY <1>4 DEF Moves, At, Types
  <2>2. Cardinality(At(S) \ {r}) = IF r \in At(S) THEN Cardinality(At(S)) - 1 ELSE Cardinality(At(S))
    BY <1>1, FS_RemoveElement
  <2> QED
    BY <1>1, <1>2, <1>4, <2>1, <2>2
<1> QED
  BY <1>3, <1>4

\* And the number of holders of a semaphore.
LEMMA HoldingCount ==
    ASSUME Types, NEW r \in Requests, NEW p, Moves(r, p), NEW g, semOf' = semOf
    PROVE  /\ Cardinality(Holding(g)) \in Nat
           /\ Cardinality(Holding(g)') = Cardinality(Holding(g))
                    + (IF p \in InBlock /\ semOf[r] = g THEN 1 ELSE 0)
                    - (IF pc[r] \in InBlock /\ semOf[r] = g THEN 1 ELSE 0)
<1>1. IsFiniteSet(Holding(g)) /\ Cardinality(Holding(g)) \in Nat
  <2>1. Holding(g) \in SUBSET Requests
    BY DEF Holding
  <2> QED
    BY <2>1, RequestsFinite
<1>2. r \in Holding(g) <=> pc[r] \in InBlock /\ semOf[r] = g
  BY DEF Holding
<1>3. CASE p \in InBlock /\ semOf[r] = g
  <2>1. Holding(g)' = Holding(g) \cup {r}
    BY <1>3 DEF Moves, Holding, Types
  <2>2. Cardinality(Holding(g) \cup {r}) = IF r \in Holding(g) THEN Cardinality(Holding(g)) ELSE Cardinality(Holding(g)) + 1
    BY <1>1, FS_AddElement
  <2> QED
    BY <1>1, <1>2, <1>3, <2>1, <2>2
<1>4. CASE ~(p \in InBlock /\ semOf[r] = g)
  <2>1. Holding(g)' = Holding(g) \ {r}
    BY <1>4 DEF Moves, Holding, Types
  <2>2. Cardinality(Holding(g) \ {r}) = IF r \in Holding(g) THEN Cardinality(Holding(g)) - 1 ELSE Cardinality(Holding(g))
    BY <1>1, FS_RemoveElement
  <2> QED
    BY <1>1, <1>2, <1>4, <2>1, <2>2
<1> QED
  BY <1>3, <1>4

-----------------------------------------------------------------------------
\* Every step keeps the types; active may still be any integer.
LEMMA TypesStep ==
    ASSUME Types, [Next]_vars
    PROVE  Types'
<1> USE SessionAssumption DEF Gens, PCs, Done, InBlock
<1>1. ASSUME NEW r \in Requests, Request(r)
      PROVE  Types'
  <2>1. CASE Start(r)
    BY <2>1 DEF Types, Start, personaVars
  <2>2. CASE Enter(r)
    BY <2>2 DEF Types, Enter, personaVars
  <2>3. CASE EnterStarved(r)
    BY <2>3 DEF Types, EnterStarved, Epilogue, personaVars
  <2>4. CASE EnterAborts(r)
    BY <2>4 DEF Types, EnterAborts, personaVars
  <2>5. CASE ReturnEarly(r)
    BY <2>5 DEF Types, ReturnEarly, personaVars
  <2>6. CASE Succeed(r)
    BY <2>6 DEF Types, Succeed, Leave, Epilogue, personaVars
  <2>7. CASE Fail(r)
    BY <2>7 DEF Types, Fail, Leave, Epilogue, personaVars
  <2> QED
    BY <1>1, <2>1, <2>2, <2>3, <2>4, <2>5, <2>6, <2>7 DEF Request
<1>2. CASE Spawn
  BY <1>2 DEF Types, Spawn, SpawnOf
<1>3. CASE Tick
  BY <1>3 DEF Types, Tick, sessionVars
<1>4. CASE ThresholdTimeout \/ Deadline
  BY <1>4 DEF Types, ThresholdTimeout, Deadline, sessionVars, personaVars
<1>5. CASE StopGenerating \/ Drained \/ CollectRaises \/ Close
  BY <1>5 DEF Types, StopGenerating, Drained, CollectRaises, Close, sessionVars
<1>6. CASE CancelPending
  <2>1. PICK C \in SUBSET (pending \cap InFlight) :
          /\ pc' = [r \in Requests |-> IF r \in C THEN "cancelled" ELSE pc[r]]
          /\ permits' = [g \in Gens |-> permits[g] +
                  Cardinality({r \in C : pc[r] \in InBlock /\ semOf[r] = g})]
          /\ leaked' = leaked + Cardinality(C)
    BY <1>6 DEF CancelPending
  <2>2. C \in SUBSET Requests
    BY DEF InFlight, At
  <2>3. Cardinality(C) \in Nat
    BY <2>2, RequestsFinite
  <2>4. \A g \in Gens : Cardinality({r \in C : pc[r] \in InBlock /\ semOf[r] = g}) \in Nat
    <3> TAKE g \in Gens
    <3>1. {r \in C : pc[r] \in InBlock /\ semOf[r] = g} \in SUBSET Requests
      BY <2>2
    <3> QED
      BY <3>1, RequestsFinite
  <2>5. permits' \in [Gens -> Nat]
    <3> HIDE DEF Gens
    <3> QED
      BY <2>1, <2>4 DEF Types
  <2>6. pc' \in [Requests -> PCs] /\ leaked' \in Nat
    BY <2>1, <2>3 DEF Types
  <2> QED
    BY <1>6, <2>5, <2>6 DEF Types, CancelPending
<1>7. ASSUME NEW k \in 1..MaxSize, ExtendPool(k)
      PROVE  Types'
  BY <1>7 DEF Types, ExtendPool, personaVars
<1>8. ASSUME NEW k \in 1..MaxSize, ShrinkPool(k)
      PROVE  Types'
  BY <1>8 DEF Types, ShrinkPool, personaVars
<1>9. CASE NextIteration
  <2>1. pc' \in [Requests -> PCs]
    BY <1>9 DEF Types, NextIteration
  <2>2. permits' \in [Gens -> Nat]
    BY <1>9 DEF Types, NextIteration
  <2>3. gen' \in Gens /\ iteration' \in 1..MaxIterations /\ gen' <= Resizes + iteration' - 1
    BY <1>9 DEF Types, NextIteration
  <2>4. size' \in 1..MaxSize /\ pool' \in Nat
    BY <1>9 DEF NextIteration
  <2>5. /\ generator' = "loop" /\ phase' = "generating" /\ elapsed' = FALSE /\ timeUp' = FALSE
        /\ pending' = {} /\ late' = 0
        /\ UNCHANGED <<engine, semOf, active, leaked, waiter>>
    BY <1>9 DEF NextIteration
  <2> QED
    BY <2>1, <2>2, <2>3, <2>4, <2>5 DEF Types
<1>10. CASE UNCHANGED vars
  BY <1>10 DEF Types, vars, sessionVars, personaVars
<1> QED
  BY <1>1, <1>2, <1>3, <1>4, <1>5, <1>6, <1>7, <1>8, <1>9, <1>10 DEF Next, Persona

\* active follows the requests in flight: Start counts one in, the epilogue
\* counts one out, and what leaves without the epilogue is in leaked.
LEMMA ActiveStep ==
    ASSUME Types, ActiveCountsInFlight, [Next]_vars
    PROVE  ActiveCountsInFlight'
<1> USE DEF ActiveCountsInFlight
<1> DEFINE F == {"queued", "running", "returned"}
<1>t. active \in Int /\ leaked \in Nat /\ Cardinality(InFlight) \in Nat
  <2>1. InFlight \in SUBSET Requests
    BY DEF At, InFlight
  <2> QED
    BY <2>1, RequestsFinite DEF Types
<1>a. InFlight = At(F) /\ InFlight' = At(F)'
  BY DEF InFlight, At, InBlock
<1>0. InFlight \in SUBSET Requests
  BY DEF At, InFlight
<1>1. ASSUME NEW r \in Requests, NEW p, Moves(r, p)
      PROVE  /\ Cardinality(InFlight) \in Nat
             /\ Cardinality(InFlight') = Cardinality(InFlight)
                    + (IF p \in F THEN 1 ELSE 0) - (IF pc[r] \in F THEN 1 ELSE 0)
  <2> HIDE DEF F
  <2> QED
    BY <1>1, <1>a, MoveCount
<1>2. ASSUME NEW r \in Requests, Request(r)
      PROVE  ActiveCountsInFlight'
  <2>1. CASE Start(r)
    <3>1. /\ Moves(r, "queued") /\ pc[r] = "spawned"
          /\ active' = active + 1 /\ leaked' = leaked
      BY <2>1 DEF Moves, Start
    <3>2. Cardinality(InFlight') = Cardinality(InFlight) + 1
      BY <1>1, <3>1
    <3> QED
      BY <1>t, <3>1, <3>2
  <2>2. CASE Enter(r) \/ ReturnEarly(r)
    <3>1. PICK p \in InBlock : Moves(r, p)
      BY <2>2 DEF Moves, Enter, ReturnEarly, InBlock
    <3>2. pc[r] \in F /\ active' = active /\ leaked' = leaked
      BY <2>2 DEF Moves, Enter, ReturnEarly
    <3>3. Cardinality(InFlight') = Cardinality(InFlight)
      BY <1>1, <3>1, <3>2 DEF InBlock
    <3> QED
      BY <1>t, <3>1, <3>2, <3>3
  <2>3. CASE EnterStarved(r) \/ Succeed(r) \/ Fail(r)
    <3>1. /\ Moves(r, "ended") /\ pc[r] \in F
          /\ active' = active - 1 /\ leaked' = leaked
      BY <2>3 DEF Moves, EnterStarved, Succeed, Fail, Leave, Epilogue, InBlock
    <3>2. Cardinality(InFlight') = Cardinality(InFlight) - 1
      BY <1>1, <3>1
    <3> QED
      BY <1>t, <3>1, <3>2
  <2>4. CASE EnterAborts(r)
    <3>1. /\ Moves(r, "aborted") /\ pc[r] = "queued"
          /\ active' = active /\ leaked' = leaked + 1
      BY <2>4 DEF Moves, EnterAborts
    <3>2. Cardinality(InFlight') = Cardinality(InFlight) - 1
      BY <1>1, <3>1
    <3> QED
      BY <1>t, <3>1, <3>2
  <2> QED
    BY <1>2, <2>1, <2>2, <2>3, <2>4 DEF Request
<1>3. CASE Spawn
  <2>1. PICK r \in Requests : /\ Moves(r, "spawned") /\ pc[r] = "free"
                              /\ active' = active /\ leaked' = leaked
    BY <1>3 DEF Moves, Spawn, SpawnOf
  <2>2. Cardinality(InFlight') = Cardinality(InFlight)
    BY <1>1, <2>1
  <2> QED
    BY <1>t, <2>1, <2>2
<1>4. CASE CancelPending
  <2>1. PICK C \in SUBSET (pending \cap InFlight) :
          /\ pc' = [r \in Requests |-> IF r \in C THEN "cancelled" ELSE pc[r]]
          /\ leaked' = leaked + Cardinality(C)
    BY <1>4 DEF CancelPending
  <2>2. InFlight' = InFlight \ C
    BY <2>1 DEF At, InFlight, InBlock, Types
  <2>3. Cardinality(InFlight \ C) = Cardinality(InFlight) - Cardinality(C)
    <3>1. IsFiniteSet(InFlight) /\ IsFiniteSet(C) /\ InFlight \cap C = C
      BY <1>0, <2>1, RequestsFinite
    <3> QED
      BY <3>1, FS_Difference
  <2>4. Cardinality(InFlight) \in Nat /\ Cardinality(C) \in Nat
    BY <1>0, <2>1, RequestsFinite
  <2> QED
    BY <1>4, <2>1, <2>2, <2>3, <2>4 DEF CancelPending, Types
<1>5. CASE NextIteration
  <2>1. InFlight' = InFlight
    BY <1>5 DEF NextIteration, At, InFlight, InBlock, Done, Types
  <2> QED
    BY <1>5, <2>1 DEF NextIteration
<1>6. ASSUME UNCHANGED <<pc, active, leaked>>
      PROVE  ActiveCountsInFlight'
  BY <1>6 DEF At, InFlight
<1>7. ASSUME \/ Tick \/ ThresholdTimeout \/ Deadline \/ StopGenerating \/ Drained
             \/ CollectRaises \/ Close \/ UNCHANGED vars
             \/ \E k \in 1..MaxSize : ExtendPool(k) \/ ShrinkPool(k)
      PROVE  UNCHANGED <<pc, active, leaked>>
  BY <1>7 DEF Tick, ThresholdTimeout, Deadline, StopGenerating, Drained, CollectRaises, Close,
              ExtendPool, ShrinkPool, vars, sessionVars
<1> QED
  BY <1>2, <1>3, <1>4, <1>5, <1>6, <1>7 DEF Next, Persona

\* The persona and its generator stay in step with each other: execute() asks
\* for the next request only after the last one ran, and only the generator
\* sets a waiter, which it awaits at once.
LEMMA PersonaStep ==
    ASSUME Types, PersonaInv, [Next]_vars
    PROVE  PersonaInv'
<1> USE DEF PersonaInv, At
<1>1. ASSUME NEW r \in Requests, Request(r)
      PROVE  PersonaInv'
  <2>1. CASE Start(r) \/ Enter(r) \/ EnterAborts(r) \/ ReturnEarly(r)
    <3>1. PICK p \in PCs \ {"spawned"} : Moves(r, p)
      BY <2>1 DEF Start, Enter, EnterAborts, ReturnEarly, Moves, PCs
    <3>2. UNCHANGED <<phase, generator, waiter>>
      BY <2>1 DEF Start, Enter, EnterAborts, ReturnEarly, personaVars
    <3> QED
      BY <3>1, <3>2 DEF Moves, Types
  <2>2. CASE EnterStarved(r) \/ Succeed(r) \/ Fail(r)
    <3>1. pc' = [pc EXCEPT ![r] = "ended"] /\ phase' = phase /\ Epilogue(r)
      BY <2>2 DEF EnterStarved, Succeed, Fail, Leave, personaVars
    <3>2. At({"spawned"})' \subseteq At({"spawned"})
      BY <3>1 DEF Types
    <3> QED
      BY <3>1, <3>2 DEF Epilogue, Types
  <2> QED
    BY <1>1, <2>1, <2>2 DEF Request
<1>2. CASE Spawn
  BY <1>2 DEF Spawn, SpawnOf
<1>3. CASE Tick \/ ThresholdTimeout
  BY <1>3 DEF Tick, ThresholdTimeout, sessionVars, personaVars
<1>4. CASE StopGenerating \/ Drained \/ CollectRaises \/ Close \/ Deadline
  BY <1>4 DEF StopGenerating, Drained, CollectRaises, Close, Deadline, sessionVars
<1>5. CASE CancelPending
  <2>1. At({"spawned"})' \subseteq At({"spawned"})
    BY <1>5 DEF CancelPending
  <2> QED
    BY <1>5, <2>1 DEF CancelPending
<1>6. ASSUME NEW k \in 1..MaxSize, ExtendPool(k) \/ ShrinkPool(k)
      PROVE  PersonaInv'
  BY <1>6 DEF ExtendPool, ShrinkPool, personaVars
<1>7. CASE NextIteration
  <2>1. At({"spawned"})' \subseteq At({"spawned"})
    BY <1>7 DEF NextIteration
  <2> QED
    BY <1>7, <2>1 DEF NextIteration
<1>8. CASE UNCHANGED vars
  BY <1>8 DEF vars, sessionVars, personaVars
<1> QED
  BY <1>1, <1>2, <1>3, <1>4, <1>5, <1>6, <1>7, <1>8 DEF Next, Persona

\* After a late request the generator computes elapsed again before it can
\* yield another one.
LEMMA LateStep ==
    ASSUME Types, PersonaInv, LateInv, [Next]_vars
    PROVE  LateInv'
<1> USE DEF LateInv
<1>1. ASSUME NEW r \in Requests, Request(r)
      PROVE  LateInv'
  <2>1. UNCHANGED <<late, timeUp, elapsed>>
    BY <1>1 DEF Request, Start, Enter, EnterAborts, ReturnEarly, EnterStarved, Succeed, Fail, Leave, personaVars
  <2>2. generator' = generator \/ generator = "waiting"
    BY <1>1 DEF Request, Start, Enter, EnterAborts, ReturnEarly, EnterStarved, Succeed, Fail, Leave,
                Epilogue, PersonaInv
  <2> QED
    BY <2>1, <2>2
<1>2. CASE Spawn
  BY <1>2 DEF Spawn, SpawnOf, Types
<1>3. CASE Tick
  BY <1>3 DEF Tick
<1>4. CASE ThresholdTimeout
  BY <1>4 DEF ThresholdTimeout, personaVars
<1>5. CASE Deadline
  BY <1>5 DEF Deadline
<1>6. CASE StopGenerating \/ Drained \/ CollectRaises \/ CancelPending \/ Close
  BY <1>6 DEF StopGenerating, Drained, CollectRaises, CancelPending, Close
<1>7. ASSUME NEW k \in 1..MaxSize, ExtendPool(k) \/ ShrinkPool(k)
      PROVE  LateInv'
  BY <1>7 DEF ExtendPool, ShrinkPool, personaVars
<1>8. CASE NextIteration
  BY <1>8 DEF NextIteration
<1>9. CASE UNCHANGED vars
  BY <1>9 DEF vars, personaVars
<1> QED
  BY <1>1, <1>2, <1>3, <1>4, <1>5, <1>6, <1>7, <1>8, <1>9 DEF Next, Persona

\* asyncio.wait has seen every queued request, so cancel_pending ends them
\* all: once the generator has stopped no request can join the queue.
LEMMA QueuedStep ==
    ASSUME Types, PersonaInv, QueuedInv, [Next]_vars
    PROVE  QueuedInv'
<1> USE DEF QueuedInv
<1>1. ASSUME NEW r \in Requests, Request(r)
      PROVE  QueuedInv'
  <2>1. CASE Start(r)
    <3>1. phase = "generating"
      BY <2>1 DEF Start, PersonaInv, At
    <3> QED
      BY <2>1, <3>1 DEF Start, personaVars
  <2>2. CASE ~Start(r)
    <3>1. PICK p \in PCs \ {"queued"} : Moves(r, p)
      BY <1>1, <2>2 DEF Request, Enter, EnterAborts, ReturnEarly, EnterStarved, Succeed, Fail, Leave, Moves, PCs
    <3>2. UNCHANGED <<phase, pending>>
      BY <1>1, <2>2 DEF Request, Enter, EnterAborts, ReturnEarly, EnterStarved, Succeed, Fail, Leave, personaVars
    <3>3. At({"queued"})' \subseteq At({"queued"})
      BY <3>1 DEF Moves, At, Types
    <3> QED
      BY <3>2, <3>3
  <2> QED
    BY <2>1, <2>2
<1>2. CASE Spawn
  BY <1>2 DEF Spawn, SpawnOf
<1>3. CASE Tick \/ ThresholdTimeout \/ Deadline
  BY <1>3 DEF Tick, ThresholdTimeout, Deadline, sessionVars, personaVars, At
<1>4. CASE StopGenerating \/ CollectRaises
  BY <1>4 DEF StopGenerating, CollectRaises
<1>5. CASE Drained
  BY <1>5 DEF Drained, sessionVars, At, Done
<1>6. CASE CancelPending
  <2>1. At({"queued"})' = {}
    BY <1>6 DEF CancelPending, At, Types
  <2> QED
    BY <1>6, <2>1 DEF CancelPending
<1>7. CASE Close
  BY <1>7 DEF Close, sessionVars, At
<1>8. ASSUME NEW k \in 1..MaxSize, ExtendPool(k) \/ ShrinkPool(k)
      PROVE  QueuedInv'
  BY <1>8 DEF ExtendPool, ShrinkPool, personaVars
<1>9. CASE NextIteration
  BY <1>9 DEF NextIteration
<1>10. CASE UNCHANGED vars
  BY <1>10 DEF vars, sessionVars, personaVars, At
<1> QED
  BY <1>1, <1>2, <1>3, <1>4, <1>5, <1>6, <1>7, <1>8, <1>9, <1>10 DEF Next, Persona

\* A semaphore takes back the permits it gave out and no more, whichever
\* semaphore the session has by then.
LEMMA PermitsStep ==
    ASSUME Types, PermitsInv, [Next]_vars
    PROVE  PermitsInv'
<1> USE SessionAssumption
<1>0. \A g \in Gens : /\ Holding(g) \in SUBSET Requests
                      /\ Cardinality(Holding(g)) \in Nat /\ permits[g] \in Nat
  <2> TAKE g \in Gens
  <2>1. Holding(g) \in SUBSET Requests
    BY DEF Holding
  <2> QED
    BY <2>1, RequestsFinite DEF Types
<1>1. ASSUME UNCHANGED permits, gen' >= gen, \A r \in Requests : semOf'[r] <= gen',
             \A g \in Gens : Holding(g)' = Holding(g)
      PROVE  PermitsInv'
  BY <1>1 DEF PermitsInv, Gens
<1>2. ASSUME NEW r \in Requests, Request(r)
      PROVE  PermitsInv'
  <2>1. CASE Start(r)
    <3>1. \A g \in Gens : Holding(g)' = Holding(g)
      BY <2>1 DEF Start, Holding, InBlock, Types
    <3>2. \A q \in Requests : semOf'[q] <= gen'
      BY <2>1 DEF Start, PermitsInv, Types, Gens
    <3> QED
      BY <1>1, <2>1, <3>1, <3>2 DEF Start, Types, Gens
  <2>2. CASE EnterStarved(r) \/ EnterAborts(r) \/ ReturnEarly(r)
    <3>1. UNCHANGED <<permits, semOf, gen>>
      BY <2>2 DEF EnterStarved, EnterAborts, ReturnEarly
    <3>2. \A g \in Gens : Holding(g)' = Holding(g)
      BY <2>2, <3>1 DEF EnterStarved, EnterAborts, ReturnEarly, Holding, InBlock, Types
    <3> QED
      BY <1>1, <3>1, <3>2 DEF PermitsInv, Types, Gens
  <2>3. CASE Enter(r)
    <3>1. /\ Moves(r, "running") /\ pc[r] = "queued" /\ UNCHANGED <<semOf, gen>>
          /\ permits' = [permits EXCEPT ![semOf[r]] = @ - 1]
      BY <2>3 DEF Enter, Moves
    <3>2. ASSUME NEW g \in Gens
          PROVE  permits'[g] + Cardinality(Holding(g)') <= MaxSize
      <4>1. Cardinality(Holding(g)') = Cardinality(Holding(g)) + IF semOf[r] = g THEN 1 ELSE 0
        BY <1>0, <3>1, HoldingCount DEF InBlock
      <4>2. permits'[g] = permits[g] - IF semOf[r] = g THEN 1 ELSE 0
        BY <3>1 DEF Types
      <4>3. permits[g] + Cardinality(Holding(g)) <= MaxSize
        BY DEF PermitsInv
      <4> QED
        BY <1>0, <4>1, <4>2, <4>3
    <3> QED
      BY <3>1, <3>2 DEF PermitsInv
  <2>4. CASE Succeed(r) \/ Fail(r)
    <3>1. /\ Moves(r, "ended") /\ pc[r] \in InBlock /\ UNCHANGED <<semOf, gen>>
          /\ permits' = [permits EXCEPT ![semOf[r]] = @ + 1]
      BY <2>4 DEF Succeed, Fail, Leave, Moves, InBlock
    <3>2. ASSUME NEW g \in Gens
          PROVE  permits'[g] + Cardinality(Holding(g)') <= MaxSize
      <4>1. Cardinality(Holding(g)') = Cardinality(Holding(g)) - IF semOf[r] = g THEN 1 ELSE 0
        <5>1. "ended" \notin InBlock
          BY DEF InBlock
        <5> QED
          BY <1>0, <3>1, <5>1, HoldingCount
      <4>2. permits'[g] = permits[g] + IF semOf[r] = g THEN 1 ELSE 0
        BY <3>1 DEF Types
      <4>3. permits[g] + Cardinality(Holding(g)) <= MaxSize
        BY DEF PermitsInv
      <4> QED
        BY <1>0, <4>1, <4>2, <4>3
    <3> QED
      BY <3>1, <3>2 DEF PermitsInv
  <2> QED
    BY <1>2, <2>1, <2>2, <2>3, <2>4 DEF Request
<1>3. CASE Spawn
  <2>1. \A g \in Gens : Holding(g)' = Holding(g)
    BY <1>3 DEF Spawn, SpawnOf, Holding, InBlock, Types
  <2> QED
    BY <1>1, <1>3, <2>1 DEF Spawn, SpawnOf, PermitsInv, Types, Gens
<1>4. CASE CancelPending
  <2>1. PICK C \in SUBSET (pending \cap InFlight) :
          /\ pc' = [r \in Requests |-> IF r \in C THEN "cancelled" ELSE pc[r]]
          /\ permits' = [g \in Gens |-> permits[g] +
                  Cardinality({r \in C : pc[r] \in InBlock /\ semOf[r] = g})]
    BY <1>4 DEF CancelPending
  <2>2. UNCHANGED <<semOf, gen>>
    BY <1>4 DEF CancelPending
  <2>3. ASSUME NEW g \in Gens
        PROVE  permits'[g] + Cardinality(Holding(g)') <= MaxSize
    <3> DEFINE D == {r \in C : pc[r] \in InBlock /\ semOf[r] = g}
    <3>1. D \in SUBSET Holding(g)
      BY <2>1 DEF Holding, InFlight, At
    <3>2. Holding(g)' = Holding(g) \ D
      BY <2>1, <2>2 DEF Holding, InBlock, Types
    <3>3. permits'[g] = permits[g] + Cardinality(D)
      BY <2>1
    <3> HIDE DEF D
    <3>4. Cardinality(Holding(g) \ D) = Cardinality(Holding(g)) - Cardinality(D) /\ Cardinality(D) \in Nat
      <4>1. Holding(g) \cap D = D /\ IsFiniteSet(Holding(g)) /\ Cardinality(D) \in Nat
        BY <1>0, <3>1, RequestsFinite
      <4> QED
        BY <4>1, FS_Difference
    <3>5. permits[g] + Cardinality(Holding(g)) <= MaxSize
      BY DEF PermitsInv
    <3> QED
      BY <1>0, <3>2, <3>3, <3>4, <3>5
  <2> QED
    BY <2>2, <2>3 DEF PermitsInv
<1>5. ASSUME gen + 1 \in Gens, gen' = gen + 1, semOf' = semOf,
             \A g \in Gens : Holding(g)' = Holding(g),
             NEW n \in 0..MaxSize, permits' = [permits EXCEPT ![gen + 1] = n]
      PROVE  PermitsInv'
  <2>1. \A r \in Requests : semOf'[r] <= gen'
    BY <1>5 DEF PermitsInv, Types, Gens
  <2>2. Holding(gen + 1) = {}
    BY DEF Holding, PermitsInv, Types, Gens
  <2>3. ASSUME NEW g \in Gens
        PROVE  permits'[g] + Cardinality(Holding(g)') <= MaxSize
    <3>1. CASE g = gen + 1
      BY <1>5, <2>2, <3>1, FS_EmptySet DEF Types
    <3>2. CASE g # gen + 1
      BY <1>5, <3>2 DEF Types, PermitsInv
    <3> QED
      BY <3>1, <3>2
  <2> QED
    BY <2>1, <2>3 DEF PermitsInv
<1>6. ASSUME NEW k \in 1..MaxSize, ExtendPool(k) \/ ShrinkPool(k)
      PROVE  PermitsInv'
  <2>1. gen + 1 \in Gens /\ gen' = gen + 1 /\ semOf' = semOf /\ pc' = pc
    BY <1>6 DEF ExtendPool, ShrinkPool, Types, Gens
  <2>2. permits' = [permits EXCEPT ![gen + 1] = size'] /\ size' \in 0..MaxSize
    BY <1>6 DEF ExtendPool, ShrinkPool, Types
  <2>3. \A g \in Gens : Holding(g)' = Holding(g)
    BY <2>1 DEF Holding
  <2> QED
    BY <1>5, <2>1, <2>2, <2>3
<1>7. CASE NextIteration
  <2>1. /\ gen + 1 \in Gens /\ gen' = gen + 1 /\ semOf' = semOf
        /\ permits' = [permits EXCEPT ![gen + 1] = PoolSize]
        /\ PoolSize \in 0..MaxSize
    BY <1>7 DEF NextIteration, Types, Gens
  <2>2. \A g \in Gens : Holding(g)' = Holding(g)
    BY <1>7, <2>1 DEF NextIteration, Holding, InBlock, Done, Types
  <2> QED
    BY <1>5, <2>1, <2>2
<1>8. ASSUME \/ Tick \/ ThresholdTimeout \/ Deadline \/ StopGenerating \/ Drained
             \/ CollectRaises \/ Close \/ UNCHANGED vars
      PROVE  PermitsInv'
  <2>1. UNCHANGED <<pc, semOf, gen, permits>>
    BY <1>8 DEF Tick, ThresholdTimeout, Deadline, StopGenerating, Drained, CollectRaises, Close,
                vars, sessionVars
  <2>2. \A g \in Gens : Holding(g)' = Holding(g)
    BY <2>1 DEF Holding
  <2> QED
    BY <1>1, <2>1, <2>2 DEF PermitsInv, Types, Gens
<1> QED
  BY <1>2, <1>3, <1>4, <1>6, <1>7, <1>8 DEF Next, Persona

\* Every step of a request that moves a permit of the first pool moves a
\* connection with it.
LEMMA PoolStep ==
    ASSUME Types, PermitsInv, PoolInv, [Next]_vars
    PROVE  PoolInv'
<1> USE SessionAssumption
<1> DEFINE R == {"returned"}
<1>0. /\ Cardinality(At(R)) \in Nat /\ pool \in Nat
      /\ 0 \in Gens /\ permits[0] \in Nat
  <2>1. At(R) \in SUBSET Requests
    BY DEF At
  <2> QED
    BY <2>1, RequestsFinite DEF Types, Gens
<1>1. ASSUME NEW r \in Requests, NEW p, Moves(r, p)
      PROVE  Cardinality(At(R)') = Cardinality(At(R)) + (IF p = "returned" THEN 1 ELSE 0)
                                        - (IF pc[r] = "returned" THEN 1 ELSE 0)
  <2>1. \A x : x \in R <=> x = "returned"
    OBVIOUS
  <2> HIDE DEF R
  <2> QED
    BY <1>1, <2>1, MoveCount
<1>2. ASSUME NEW r \in Requests, Request(r)
      PROVE  PoolInv'
  <2>1. SUFFICES ASSUME gen = 0, phase \notin {"cancelling", "closed"}
                 PROVE  pool' >= permits'[0] + Cardinality(At(R)')
    BY <1>2 DEF PoolInv, Request, Start, Enter, EnterStarved, EnterAborts, ReturnEarly, Succeed, Fail,
                Leave, personaVars
  <2>2. pool >= permits[0] + Cardinality(At(R)) /\ semOf[r] = 0
    BY <2>1 DEF PoolInv, PermitsInv, Types, Gens
  <2>3. CASE Start(r)
    <3>1. Moves(r, "queued") /\ pc[r] = "spawned" /\ UNCHANGED <<permits, pool>>
      BY <2>3 DEF Start, Moves
    <3>2. Cardinality(At(R)') = Cardinality(At(R))
      BY <1>0, <1>1, <3>1
    <3> QED
      BY <2>2, <3>1, <3>2
  <2>4. CASE Enter(r)
    <3>1. /\ Moves(r, "running") /\ pc[r] = "queued" /\ pool' = pool - 1
          /\ permits'[0] = permits[0] - 1
      BY <1>0, <2>2, <2>4 DEF Enter, Moves, Types
    <3>2. Cardinality(At(R)') = Cardinality(At(R))
      BY <1>0, <1>1, <3>1
    <3> QED
      BY <1>0, <2>2, <3>1, <3>2
  <2>5. CASE EnterStarved(r) \/ EnterAborts(r)
    BY <1>0, <2>2, <2>5 DEF EnterStarved, EnterAborts
  <2>6. CASE ReturnEarly(r)
    <3>1. Moves(r, "returned") /\ pc[r] = "running" /\ pool' = pool + 1 /\ permits' = permits
      BY <2>6 DEF ReturnEarly, Moves
    <3>2. Cardinality(At(R)') = Cardinality(At(R)) + 1
      BY <1>0, <1>1, <3>1
    <3> QED
      BY <1>0, <2>2, <3>1, <3>2
  <2>7. CASE Succeed(r) \/ Fail(r)
    <3>1. /\ Moves(r, "ended") /\ permits'[0] = permits[0] + 1
          /\ pool' = pool + 1 \/ (pc[r] = "returned" /\ pool' = pool)
      BY <1>0, <2>2, <2>7 DEF Succeed, Fail, Leave, Moves, Types
    <3>2. Cardinality(At(R)') = Cardinality(At(R)) - IF pc[r] = "returned" THEN 1 ELSE 0
      BY <1>0, <1>1, <3>1
    <3> QED
      BY <1>0, <2>2, <3>1, <3>2
  <2> QED
    BY <1>2, <2>3, <2>4, <2>5, <2>6, <2>7 DEF Request
<1>3. CASE Spawn
  <2>1. PICK r \in Requests : /\ Moves(r, "spawned") /\ pc[r] = "free"
                              /\ UNCHANGED <<pool, permits, gen, phase>>
    BY <1>3 DEF Spawn, SpawnOf, Moves
  <2>2. Cardinality(At(R)') = Cardinality(At(R))
    BY <1>0, <1>1, <2>1
  <2> QED
    BY <2>1, <2>2 DEF PoolInv
<1>4. CASE CancelPending
  BY <1>4 DEF CancelPending, PoolInv
<1>5. ASSUME \/ NextIteration \/ \E k \in 1..MaxSize : ExtendPool(k) \/ ShrinkPool(k)
      PROVE  PoolInv'
  BY <1>5 DEF NextIteration, ExtendPool, ShrinkPool, PoolInv, Types, Gens
<1>6. ASSUME \/ Tick \/ ThresholdTimeout \/ Deadline \/ StopGenerating \/ Drained
             \/ CollectRaises \/ Close \/ UNCHANGED vars
      PROVE  PoolInv'
  <2>1. UNCHANGED <<pc, gen, permits, pool>> /\ (phase \in {"cancelling", "closed"} => phase' \in {"cancelling", "closed"})
    BY <1>6 DEF Tick, ThresholdTimeout, Deadline, StopGenerating, Drained, CollectRaises, Close,
                vars, sessionVars, personaVars
  <2>2. At(R)' = At(R)
    BY <2>1 DEF At
  <2> QED
    BY <2>1, <2>2 DEF PoolInv
<1> QED
  BY <1>2, <1>3, <1>4, <1>5, <1>6 DEF Next, Persona

-----------------------------------------------------------------------------
\* The whole inductive invariant.
SessionInv ==
    /\ Types /\ PersonaInv /\ LateInv /\ QueuedInv
    /\ ActiveCountsInFlight /\ PermitsInv /\ PoolInv

\* It holds when the session begins and every step keeps it.
LEMMA SessionInvHolds == Spec => []SessionInv
<1>1. Init => SessionInv
  <2> SUFFICES ASSUME Init PROVE SessionInv
    OBVIOUS
  <2> USE SessionAssumption DEF Init
  <2>1. \A S : S \subseteq PCs \ {"free"} => At(S) = {}
    BY DEF At, PCs
  <2>2. At({"spawned"}) = {} /\ At({"queued"}) = {} /\ At({"returned"}) = {} /\ InFlight = {}
    BY <2>1 DEF PCs, InFlight, InBlock
  <2>3. \A g \in Gens : Holding(g) = {}
    BY DEF Holding, InBlock
  <2>4. Types
    <3>1. permits \in [Gens -> Nat] /\ semOf \in [Requests -> Gens] /\ gen \in Gens
      BY DEF Gens
    <3>2. pc \in [Requests -> PCs]
      BY DEF PCs
    <3>3. /\ size \in 1..MaxSize /\ pool \in Nat /\ active \in Int /\ leaked \in Nat /\ late \in Nat
          /\ iteration \in 1..MaxIterations /\ gen <= Resizes + iteration - 1
      OBVIOUS
    <3>4. elapsed \in BOOLEAN /\ timeUp \in BOOLEAN /\ pending \subseteq Requests
      OBVIOUS
    <3>5. /\ engine \in Engines /\ waiter = "none" /\ generator = "loop" /\ phase = "generating"
      OBVIOUS
    <3> HIDE DEF Init
    <3> QED
      BY <3>1, <3>2, <3>3, <3>4, <3>5 DEF Types
  <2>5. PersonaInv /\ LateInv /\ QueuedInv
    BY <2>2 DEF PersonaInv, LateInv, QueuedInv
  <2>6. ActiveCountsInFlight
    BY <2>2, FS_EmptySet DEF ActiveCountsInFlight
  <2>7. PermitsInv
    <3>1. \A g \in Gens : permits[g] \in 0..PoolSize /\ Cardinality(Holding(g)) = 0
      BY <2>3, FS_EmptySet
    <3>2. \A r \in Requests : semOf[r] <= gen
      OBVIOUS
    <3> QED
      BY <3>1, <3>2 DEF PermitsInv
  <2>8. PoolInv
    <3>1. 0 \in Gens
      BY DEF Gens
    <3>2. permits[0] = PoolSize /\ Cardinality(At({"returned"})) = 0
      BY <2>2, <3>1, FS_EmptySet
    <3> QED
      BY <3>2 DEF PoolInv
  <2> QED
    BY <2>4, <2>5, <2>6, <2>7, <2>8 DEF SessionInv
<1>2. SessionInv /\ [Next]_vars => SessionInv'
  BY TypesStep, PersonaStep, LateStep, QueuedStep, ActiveStep, PermitsStep, PoolStep DEF SessionInv
<1> QED
  BY <1>1, <1>2, PTL DEF Spec

\* The session keeps its types: no semaphore has more free permits than the
\* largest pool, and active is never negative, although requests leave a
\* semaphore the session has replaced, and by exceptions.
THEOREM SessionTypeCorrect == Spec => []TypeOK
<1>1. SessionInv => TypeOK
  <2> SUFFICES ASSUME SessionInv PROVE TypeOK
    OBVIOUS
  <2>1. Types /\ ActiveCountsInFlight /\ PermitsInv
    BY DEF SessionInv
  <2>2. active \in Nat
    <3>1. InFlight \in SUBSET Requests
      BY DEF InFlight, At
    <3>2. Cardinality(InFlight) \in Nat
      BY <3>1, RequestsFinite
    <3> QED
      BY <2>1, <3>2 DEF ActiveCountsInFlight, Types
  <2>3. permits \in [Gens -> 0..MaxSize]
    <3>1. ASSUME NEW g \in Gens
          PROVE  permits[g] \in 0..MaxSize
      <4>1. Holding(g) \in SUBSET Requests
        BY DEF Holding
      <4>2. Cardinality(Holding(g)) \in Nat
        BY <4>1, RequestsFinite
      <4>3. permits[g] \in Nat /\ permits[g] + Cardinality(Holding(g)) <= MaxSize
        BY <2>1 DEF Types, PermitsInv
      <4> QED
        BY <4>2, <4>3, SessionAssumption
    <3> QED
      BY <2>1, <3>1 DEF Types
  <2> QED
    BY <2>1, <2>2, <2>3 DEF Types, TypeOK, PCs, Done
<1> QED
  BY <1>1, SessionInvHolds, PTL

\* active counts the requests in flight and those that left by CancelledError
\* or by an empty pool, whatever is resized, cancelled or run again.
THEOREM ActiveAccounted == Spec => []ActiveCountsInFlight
<1>1. SessionInv => ActiveCountsInFlight
  BY DEF SessionInv
<1> QED
  BY <1>1, SessionInvHolds, PTL

\* In the pool a session starts with, pool.connections.pop() never meets an
\* empty list once the semaphore let a request in.
THEOREM EntryServed == Spec => []EntryFindsConnection
<1>1. SessionInv => EntryFindsConnection
  <2> SUFFICES ASSUME SessionInv, gen = 0, NEW r \in At({"queued"}), permits[semOf[r]] > 0
               PROVE  pool > 0
    BY DEF EntryFindsConnection
  <2>1. r \in Requests /\ semOf[r] = 0 /\ permits[0] \in Nat /\ pool \in Nat
    BY SessionAssumption DEF SessionInv, At, PermitsInv, Types, Gens
  <2>2. phase \notin {"cancelling", "closed"}
    BY DEF SessionInv, QueuedInv
  <2>3. Cardinality(At({"returned"})) \in Nat
    <3>1. At({"returned"}) \in SUBSET Requests
      BY DEF At
    <3> QED
      BY <3>1, RequestsFinite
  <2>4. pool >= permits[0] + Cardinality(At({"returned"}))
    BY <2>2 DEF SessionInv, PoolInv
  <2> QED
    BY <2>1, <2>3, <2>4
<1> QED
  BY <1>1, SessionInvHolds, PTL

\* The generator yields one request at most after total_time has elapsed.
THEOREM OneLateRequest == Spec => []AtMostOneLate
<1>1. SessionInv => AtMostOneLate
  BY DEF SessionInv, LateInv, AtMostOneLate
<1> QED
  BY <1>1, SessionInvHolds, PTL
=============================================================================
