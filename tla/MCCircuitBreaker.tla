-------------------------- MODULE MCCircuitBreaker --------------------------
(* The circuit breaker with a short window. *)
EXTENDS CircuitBreaker
=============================================================================
