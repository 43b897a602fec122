--------------------------- MODULE EngineSession ---------------------------
(***************************************************************************)
(* One engine session under load: the request handlers of                  *)
(* hedra/core/engines/types/*/client.py, their semaphore and connection    *)
(* pool, and the persona that feeds them (default_persona.py, and the pool *)
(* resizing of the ramped and constant-arrival personas).                  *)
(*                                                                         *)
(* All of it runs on one event loop, one action per step between awaits.   *)
(* A semaphore is represented by what it promises (PermitPool): each       *)
(* resize of the pool installs a new semaphore, numbered by gen, while     *)
(* requests stay with the one they entered.  Connections are counted, not  *)
(* named.  Tracing hooks, which only add awaits, are left out.             *)
(***************************************************************************)
EXTENDS Integers, FiniteSets

CONSTANTS
    Requests,       \* execute_prepared_request coroutines, one per spawn
    PoolSize,       \* batch size: initial permits and connections
    MaxPoolSize,    \* max_pool_size, where the generator starts to wait
    Resizes,        \* how often the persona may resize the pool
    MaxSize,        \* bound on the pool's size
    MaxIterations   \* persona runs over the same session (the optimizer)

ASSUME SessionAssumption ==
    /\ IsFiniteSet(Requests)
    /\ PoolSize \in Nat \ {0} /\ MaxPoolSize \in Nat
    /\ Resizes \in Nat /\ MaxIterations \in Nat \ {0}
    /\ MaxSize \in Nat /\ MaxSize >= PoolSize

VARIABLES
    engine,     \* which client the session is
    pc,         \* where each request is
    semOf,      \* the semaphore each request entered
    gen,        \* the current semaphore
    permits,    \* free permits of each semaphore
    size,       \* pool.size
    pool,       \* len(pool.connections)
    active,     \* session.active
    waiter,     \* session.waiter: "none", "pending" or "cancelled"
    generator,  \* where the persona's generator is
    elapsed,    \* elapsed >= total_time, as the generator last computed it
    timeUp,     \* total_time has really elapsed
    phase,      \* where DefaultPersona.execute is
    pending,    \* the requests asyncio.wait left pending
    iteration,
    leaked,     \* history: requests that ended without active -= 1
    late        \* history: requests spawned after total_time

sessionVars == <<engine, pc, semOf, gen, permits, size, pool, active, leaked>>
personaVars == <<elapsed, timeUp, phase, pending, iteration, late>>
vars == <<sessionVars, waiter, generator, personaVars>>

-----------------------------------------------------------------------------
(***************************************************************************)
(* What tells the request handlers apart.  popInTry: the connection is     *)
(* taken inside the try block, so an empty pool is an error of the request *)
(* and not of its task.  early: the connection goes back to the pool       *)
(* before the after/check/notify hooks run.  recreate: a resize builds the *)
(* whole list of connections anew instead of extending or truncating it.   *)
(***************************************************************************)
HTTP         == [popInTry |-> TRUE,  early |-> TRUE,  recreate |-> FALSE]
HTTP3        == [popInTry |-> TRUE,  early |-> TRUE,  recreate |-> FALSE]
GraphQL      == [popInTry |-> TRUE,  early |-> TRUE,  recreate |-> FALSE]
UDP          == [popInTry |-> FALSE, early |-> TRUE,  recreate |-> FALSE]
Custom       == [popInTry |-> FALSE, early |-> TRUE,  recreate |-> FALSE]
Websocket    == [popInTry |-> FALSE, early |-> FALSE, recreate |-> FALSE]
HTTP2        == [popInTry |-> FALSE, early |-> FALSE, recreate |-> TRUE]
GRPC         == [popInTry |-> FALSE, early |-> FALSE, recreate |-> TRUE]
GraphQLHTTP2 == [popInTry |-> FALSE, early |-> FALSE, recreate |-> TRUE]

Engines == {HTTP, HTTP3, GraphQL, UDP, Custom, Websocket, HTTP2, GRPC, GraphQLHTTP2}

At(S) == {r \in Requests : pc[r] \in S}
InBlock == {"running", "returned"}
InFlight == At({"queued"} \cup InBlock)
Done == {"ended", "aborted", "cancelled"}
Gens == 0..(Resizes + MaxIterations)

Init ==
    /\ engine \in Engines
    /\ pc = [r \in Requests |-> "free"]
    /\ semOf = [r \in Requests |-> 0]
    /\ gen = 0
    /\ permits = [g \in Gens |-> IF g = 0 THEN PoolSize ELSE 0]
    /\ size = PoolSize
    /\ pool = PoolSize
    /\ active = 0
    /\ waiter = "none"
    /\ generator = "loop"
    /\ elapsed = FALSE
    /\ timeUp = FALSE
    /\ phase = "generating"
    /\ pending = {}
    /\ iteration = 1
    /\ leaked = 0
    /\ late = 0

-----------------------------------------------------------------------------
(* The request handlers *)

\* Up to `async with self.sem`, which picks the session's current semaphore.
Start(r) ==
    /\ pc[r] = "spawned"
    /\ pc' = [pc EXCEPT ![r] = "queued"]
    /\ semOf' = [semOf EXCEPT ![r] = gen]
    /\ active' = active + 1
    /\ UNCHANGED <<engine, gen, permits, size, pool, leaked, waiter, generator, personaVars>>

\* The semaphore lets r in, and it takes a connection.
Enter(r) ==
    /\ pc[r] = "queued"
    /\ permits[semOf[r]] > 0
    /\ pool > 0
    /\ pc' = [pc EXCEPT ![r] = "running"]
    /\ permits' = [permits EXCEPT ![semOf[r]] = @ - 1]
    /\ pool' = pool - 1
    /\ UNCHANGED <<engine, semOf, gen, size, active, leaked, waiter, generator, personaVars>>

\* Mutant: the request does not count itself out.
EpilogueKeepsActive(r) ==
    /\ active' = active
    /\ IF waiter # "none" /\ active <= size
       THEN /\ waiter' = "none"
            /\ generator' = IF waiter = "pending" THEN "loop" ELSE generator
       ELSE UNCHANGED <<waiter, generator>>

\* After the try statement: the request counts itself out and releases the
\* generator; set_result on a cancelled waiter raises, which clears it too.
Epilogue(r) ==
    /\ active' = active - 1
    /\ IF waiter # "none" /\ active - 1 <= size
       THEN /\ waiter' = "none"
            /\ generator' = IF waiter = "pending" THEN "loop" ELSE generator
       ELSE UNCHANGED <<waiter, generator>>

\* Leaving `async with`, with a result.
Leave(r) ==
    /\ pc' = [pc EXCEPT ![r] = "ended"]
    /\ permits' = [permits EXCEPT ![semOf[r]] = @ + 1]
    /\ Epilogue(r)
    /\ UNCHANGED <<engine, semOf, gen, size, leaked, personaVars>>

\* The pool is empty, and pop() is inside the try: the request fails, and
\* its handler adds a connection.  The permit is taken and given back.
EnterStarved(r) ==
    /\ pc[r] = "queued"
    /\ permits[semOf[r]] > 0
    /\ pool = 0
    /\ engine.popInTry
    /\ pool' = 1
    /\ pc' = [pc EXCEPT ![r] = "ended"]
    /\ Epilogue(r)
    /\ UNCHANGED <<engine, semOf, gen, permits, size, leaked, personaVars>>

\* The pool is empty, and pop() is outside the try: IndexError ends the task.
EnterAborts(r) ==
    /\ pc[r] = "queued"
    /\ permits[semOf[r]] > 0
    /\ pool = 0
    /\ ~engine.popInTry
    /\ pc' = [pc EXCEPT ![r] = "aborted"]
    /\ leaked' = leaked + 1
    /\ UNCHANGED <<engine, semOf, gen, permits, size, pool, active, waiter, generator, personaVars>>

\* The response is complete; hooks are still to run.
ReturnEarly(r) ==
    /\ pc[r] = "running"
    /\ engine.early
    /\ pc' = [pc EXCEPT ![r] = "returned"]
    /\ pool' = pool + 1
    /\ UNCHANGED <<engine, semOf, gen, permits, size, active, leaked, waiter, generator, personaVars>>

Succeed(r) ==
    /\ pc[r] = IF engine.early THEN "returned" ELSE "running"
    /\ pool' = IF engine.early THEN pool ELSE pool + 1
    /\ Leave(r)

\* Mutant: the failed connection is not replaced.
FailWithoutReplacement(r) ==
    /\ pc[r] \in InBlock
    /\ UNCHANGED pool
    /\ Leave(r)

\* `except Exception`: a timeout, a reset connection, a failing hook.  A
\* fresh connection replaces the one taken, even if that one was returned.
Fail(r) ==
    /\ pc[r] \in InBlock
    /\ pool' = pool + 1
    /\ Leave(r)

-----------------------------------------------------------------------------
(* The persona *)

SpawnOf(r) ==
    /\ pc[r] = "free"
    /\ pc' = [pc EXCEPT ![r] = "spawned"]
    /\ generator' = "slept"
    /\ late' = IF timeUp THEN late + 1 ELSE late
    /\ UNCHANGED <<engine, semOf, gen, permits, size, pool, active, leaked,
                   waiter, elapsed, timeUp, phase, pending, iteration>>

\* `while elapsed < total_time: yield`: execute creates the task.
Spawn ==
    /\ phase = "generating"
    /\ generator = "loop"
    /\ ~elapsed
    /\ \E r \in Requests : SpawnOf(r)

\* Mutant: elapsed is not computed again when the generator has to wait.
TickStale ==
    /\ generator = "slept"
    /\ At({"spawned"}) = {}
    /\ elapsed' = (timeUp /\ active <= MaxPoolSize)
    /\ generator' = "loop"
    /\ UNCHANGED <<sessionVars, waiter, timeUp, phase, pending, iteration, late>>

\* After sleep(0) the new task has run its first step.  With too many active
\* requests the generator awaits session.waiter, unless one is already set
\* (wait_for_active_threshold then returns) or no time is left (wait_for
\* then times out before starting it).
Tick ==
    /\ generator = "slept"
    /\ At({"spawned"}) = {}
    /\ elapsed' = timeUp
    /\ IF active > MaxPoolSize /\ waiter = "none" /\ ~timeUp
       THEN waiter' = "pending" /\ generator' = "waiting"
       ELSE generator' = "loop" /\ UNCHANGED waiter
    /\ UNCHANGED <<sessionVars, timeUp, phase, pending, iteration, late>>

\* wait_for times out: the future is cancelled and stays in session.waiter.
ThresholdTimeout ==
    /\ generator = "waiting"
    /\ timeUp
    /\ waiter' = "cancelled"
    /\ generator' = "loop"
    /\ UNCHANGED <<sessionVars, personaVars>>

Deadline ==
    /\ phase = "generating"
    /\ ~timeUp
    /\ timeUp' = TRUE
    /\ UNCHANGED <<sessionVars, waiter, generator, elapsed, phase, pending, iteration, late>>

\* extend_pool(k) between two spawns, with requests in flight.
ExtendPool(k) ==
    /\ phase = "generating" /\ generator = "slept" /\ At({"spawned"}) = {}
    /\ gen < Resizes
    /\ size + k <= MaxSize
    /\ size' = size + k
    /\ pool' = IF engine.recreate THEN size' ELSE pool + k
    /\ gen' = gen + 1
    /\ permits' = [permits EXCEPT ![gen + 1] = size']
    /\ UNCHANGED <<engine, pc, semOf, active, leaked, waiter, generator, personaVars>>

\* shrink_pool(k): the list is cut to the new size.
ShrinkPool(k) ==
    /\ phase = "generating" /\ generator = "slept" /\ At({"spawned"}) = {}
    /\ gen < Resizes
    /\ size - k > 0
    /\ size' = size - k
    /\ pool' = IF engine.recreate \/ pool > size' THEN size' ELSE pool
    /\ gen' = gen + 1
    /\ permits' = [permits EXCEPT ![gen + 1] = size']
    /\ UNCHANGED <<engine, pc, semOf, active, leaked, waiter, generator, personaVars>>

\* The generator is exhausted (or, a bound of the model, out of requests).
StopGenerating ==
    /\ phase = "generating"
    /\ generator = "loop"
    /\ elapsed \/ At({"free"}) = {}
    /\ generator' = "exhausted"
    /\ phase' = "draining"
    /\ UNCHANGED <<sessionVars, waiter, elapsed, timeUp, pending, iteration, late>>

\* asyncio.wait returns: everything is done, or graceful_stop has passed.
Drained ==
    /\ phase = "draining"
    /\ pending' = Requests \ At(Done \cup {"free"})
    /\ phase' = "collecting"
    /\ UNCHANGED <<sessionVars, waiter, generator, elapsed, timeUp, iteration, late>>

\* `await asyncio.gather(*completed)` raises what a completed task raised.
CollectRaises ==
    /\ phase = "collecting"
    /\ \E r \in Requests \ pending : pc[r] = "aborted"
    /\ phase' = "raised"
    /\ UNCHANGED <<sessionVars, waiter, generator, elapsed, timeUp, pending, iteration, late>>

\* cancel_pending for all pending tasks, in one turn of the loop.  A request
\* whose read completed in that turn may swallow the cancellation and is
\* awaited; the others leave with CancelledError, which no handler catches:
\* the permit is released, the connection and active are not restored.
CancelPending ==
    /\ phase = "collecting"
    /\ \A r \in Requests \ pending : pc[r] # "aborted"
    /\ \E C \in SUBSET (pending \cap InFlight) :
        /\ At({"queued"}) \cap pending \subseteq C
        /\ pc' = [r \in Requests |-> IF r \in C THEN "cancelled" ELSE pc[r]]
        /\ permits' = [g \in Gens |-> permits[g] +
                Cardinality({r \in C : pc[r] \in InBlock /\ semOf[r] = g})]
        /\ leaked' = leaked + Cardinality(C)
    /\ phase' = "cancelling"
    /\ UNCHANGED <<engine, semOf, gen, size, pool, active, waiter, generator,
                   elapsed, timeUp, pending, iteration, late>>

\* Every pending task is resolved; the sessions are closed.
Close ==
    /\ phase = "cancelling"
    /\ \A r \in pending : pc[r] \in Done
    /\ phase' = "closed"
    /\ UNCHANGED <<sessionVars, waiter, generator, elapsed, timeUp, pending, iteration, late>>

\* The optimizer runs the next iteration on the same session, whether or not
\* execute raised: a new semaphore and a new pool, active and waiter as left.
NextIteration ==
    /\ phase \in {"closed", "raised"}
    /\ iteration < MaxIterations
    /\ iteration' = iteration + 1
    /\ gen' = gen + 1
    /\ permits' = [permits EXCEPT ![gen + 1] = PoolSize]
    /\ size' = PoolSize
    /\ pool' = PoolSize
    /\ pc' = [r \in Requests |-> IF pc[r] \in Done THEN "free" ELSE pc[r]]
    /\ generator' = "loop"
    /\ elapsed' = FALSE
    /\ timeUp' = FALSE
    /\ phase' = "generating"
    /\ pending' = {}
    /\ late' = 0
    /\ UNCHANGED <<engine, semOf, active, leaked, waiter>>

Request(r) ==
    \/ Start(r) \/ Enter(r) \/ EnterStarved(r) \/ EnterAborts(r)
    \/ ReturnEarly(r) \/ Succeed(r) \/ Fail(r)

Persona ==
    \/ Spawn \/ Tick \/ ThresholdTimeout \/ StopGenerating
    \/ Drained \/ CollectRaises \/ CancelPending \/ Close

Next ==
    \/ \E r \in Requests : Request(r)
    \/ Persona
    \/ Deadline
    \/ \E k \in 1..MaxSize : ExtendPool(k) \/ ShrinkPool(k)
    \/ NextIteration

Spec == Init /\ [][Next]_vars

(***************************************************************************)
(* The loop runs ready tasks; a request inside the block ends, since its   *)
(* connects and reads have timeouts; time passes.  When the clocks run out *)
(* is not assumed: ThresholdTimeout needs no fairness for the generator to *)
(* go on.                                                                  *)
(***************************************************************************)
Fairness ==
    /\ \A r \in Requests : WF_vars(Request(r))
    /\ WF_vars(Spawn \/ Tick \/ StopGenerating)
    /\ WF_vars(Drained) /\ WF_vars(CollectRaises) /\ WF_vars(CancelPending) /\ WF_vars(Close)

FairSpec == Spec /\ Fairness

-----------------------------------------------------------------------------
\* Types, and the bounds within which the counters stay.
TypeOK ==
    /\ engine \in Engines
    /\ pc \in [Requests -> {"free", "spawned", "queued", "running", "returned"} \cup Done]
    /\ semOf \in [Requests -> Gens] /\ gen \in Gens
    /\ permits \in [Gens -> 0..MaxSize]
    /\ size \in 1..MaxSize
    /\ pool \in Nat /\ active \in Nat
    /\ waiter \in {"none", "pending", "cancelled"}
    /\ generator \in {"loop", "slept", "waiting", "exhausted"}
    /\ elapsed \in BOOLEAN /\ timeUp \in BOOLEAN
    /\ phase \in {"generating", "draining", "collecting", "cancelling", "raised", "closed"}
    /\ pending \subseteq Requests
    /\ leaked \in Nat /\ late \in Nat

\* A request that the semaphore lets in finds a connection in the pool, in
\* every engine, as long as the pool was not resized or set up again.
EntryFindsConnection == gen = 0 =>
    \A r \in At({"queued"}) : permits[semOf[r]] > 0 => pool > 0

\* active counts the requests in flight, plus every request that left by
\* CancelledError or by an empty pool: nothing else makes it drift.
ActiveCountsInFlight == active = Cardinality(InFlight) + leaked

\* In a first run the requests in flight exceed max_pool_size at most by the
\* one that tripped it and the one spawned after the deadline.
BacklogBounded == Cardinality(InFlight) <= MaxPoolSize + 2

\* elapsed is not computed again after the generator waited, so one request
\* is spawned after total_time, but never a second one.
AtMostOneLate == late <= 1

\* A generator held back by the threshold goes on once requests complete,
\* without waiting for its timeout, unless some request was not counted down.
GeneratorResumes == generator = "waiting" ~> generator # "waiting" \/ leaked > 0

\* Once the generator stops, execute() closes the sessions or raises.
RunEnds == phase = "draining" ~> phase \in {"closed", "raised"}
=============================================================================
