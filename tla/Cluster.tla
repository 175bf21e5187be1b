------------------------------ MODULE Cluster ------------------------------
(***************************************************************************)
(* The parameters that the modules of one AtlasStore deployment share.     *)
(***************************************************************************)
EXTENDS Naturals, FiniteSets

CONSTANTS
    Nodes,      \* addresses of the storage nodes
    Hashes,     \* SHA-256 names of chunks
    Objects,    \* upload requests, each of which may become an object
    AllParts,   \* chunk indexes
    RF,         \* REPLICATION_FACTOR of internal/config
    FaultKinds, \* the kinds of failures that are injected
    MaxFaults   \* bound on their number in one behaviour

ASSUME ClusterAssumption ==
    /\ IsFiniteSet(Nodes)
    /\ Objects # {}
    /\ AllParts # {} /\ AllParts \subseteq Nat
    /\ RF \in Nat \ {0}
    /\ FaultKinds \subseteq {"node", "call", "disk", "read", "gateway", "database"}
    /\ MaxFaults \in Nat

\* The number of stored replicas an upload of a chunk needs.
Quorum == (RF \div 2) + 1
=============================================================================
