-------------------------- MODULE MCUdpConnection --------------------------
(* Request and response pairing on small instances. *)
EXTENDS UdpConnection
=============================================================================
