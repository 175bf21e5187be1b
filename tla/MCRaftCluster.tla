--------------------------- MODULE MCRaftCluster ---------------------------
(***************************************************************************)
(* Small clusters on which TLC checks RaftCluster.                         *)
(***************************************************************************)
EXTENDS RaftCluster

CONSTANTS s, a

\* scripts/start_nodes.sh: every node but the first joins by way of the first.
Scripts == [n \in Nodes |-> IF n = s THEN {} ELSE {s}]
=============================================================================
