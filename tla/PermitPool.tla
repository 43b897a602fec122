----------------------------- MODULE PermitPool -----------------------------
(***************************************************************************)
(* What a semaphore promises its callers: at most Value tasks are inside   *)
(* at a time; a task enters once, and leaves, or gives up before entering. *)
(***************************************************************************)
EXTENDS Integers, FiniteSets

CONSTANTS Tasks, Value

VARIABLE stage

Inside == {t \in Tasks : stage[t] = "inside"}

Init == stage = [t \in Tasks |-> "outside"]

Enter(t) ==
    /\ stage[t] = "outside"
    /\ Cardinality(Inside) < Value
    /\ stage' = [stage EXCEPT ![t] = "inside"]

Leave(t) ==
    /\ stage[t] \in {"inside", "outside"}
    /\ stage' = [stage EXCEPT ![t] = "left"]

Next == \E t \in Tasks : Enter(t) \/ Leave(t)

Spec == Init /\ [][Next]_stage
=============================================================================
