----------------------- MODULE MCReplicationElection -----------------------
(* Three nodes on hosts and ports of their own, with different ids. *)
EXTENDS ReplicationElection

CONSTANTS n1, n2, n3

MCNodes == {n1, n2, n3}
MCHost == [n \in MCNodes |-> n]
MCPort == MCHost
MCInstance == [n \in MCNodes |-> CASE n = n1 -> 1 [] n = n2 -> 2 [] n = n3 -> 3]
=============================================================================
