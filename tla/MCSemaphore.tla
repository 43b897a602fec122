---------------------------- MODULE MCSemaphore ----------------------------
(* The engine semaphore on small instances. *)
EXTENDS Semaphore
=============================================================================
