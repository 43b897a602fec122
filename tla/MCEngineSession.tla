-------------------------- MODULE MCEngineSession --------------------------
(* Engine sessions on small instances. *)
EXTENDS EngineSession
=============================================================================
