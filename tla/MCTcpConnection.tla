-------------------------- MODULE MCTcpConnection --------------------------
(* One TCP connection on small instances. *)
EXTENDS TcpConnection, TLC
=============================================================================
