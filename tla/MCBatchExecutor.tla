-------------------------- MODULE MCBatchExecutor --------------------------
(* BatchExecutor for TLC: the pool and the stages are bounded by constants *)
EXTENDS BatchExecutor
=============================================================================
