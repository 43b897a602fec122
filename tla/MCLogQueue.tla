----------------------------- MODULE MCLogQueue -----------------------------
(* The replicated log on small instances. *)
EXTENDS LogQueue
=============================================================================
