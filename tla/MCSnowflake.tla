---------------------------- MODULE MCSnowflake ----------------------------
(* Sequence numbers of one bit and instances of two: a node whose instance  *)
(* id fits, its neighbour, and one whose id has more bits, as most of       *)
(* random.randint(0, 2**16) have.                                           *)
EXTENDS Snowflake

CONSTANTS g1, g2, g3

MCGenerators == {g1, g2}
MCInstance == [g \in MCGenerators |-> IF g = g1 THEN 1 ELSE 2]
WideGenerators == {g3}
WideInstance == [g \in WideGenerators |-> 21]
=============================================================================
