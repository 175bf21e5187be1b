---------------------------- MODULE MCHashRing -----------------------------
(***************************************************************************)
(* A ring of three nodes for TLC, with every assignment of keys up to the  *)
(* order of the virtual nodes of one node, which sorting makes irrelevant. *)
(***************************************************************************)
EXTENDS HashRing

CONSTANTS n1, n2, n3

AnyPlaces == {p \in [Nodes -> [1..VNodes -> 0..(Keys - 1)]] :
                \A n \in Nodes : \A i \in 2..VNodes : p[n][i - 1] <= p[n][i]}

NodesAlike == Permutations(Nodes)
=============================================================================
