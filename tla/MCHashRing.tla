----------------------------- MODULE MCHashRing -----------------------------
(* Instances of HashRing for TLC. *)
EXTENDS HashRing

CONSTANTS a1, a2, a3, k1, k2

\* Every hash function into five positions, collisions included.
AllFunctions == [Address \cup Key -> -2..2]

\* The addresses apps/main_client.cpp configures, as characters.
Host == <<49, 50, 55, 46, 48, 46, 48, 46, 49, 58>>  \* "127.0.0.1:"
DeployedNodes == {Host \o <<56, 48, 48, 49>>, Host \o <<56, 48, 48, 50>>}  \* 8001, 8002
CodeHash == {[s \in Address \cup Key |-> HashKey(s)]}
=============================================================================
