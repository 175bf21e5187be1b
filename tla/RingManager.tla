---------------------------- MODULE RingManager ----------------------------
(***************************************************************************)
(* The gateway's view of the cluster: internal/api/ring_manager.go.        *)
(*                                                                         *)
(* SyncLoop replaces rm.Ring by an empty ring and adds the members one by  *)
(* one.  It holds rm.mu while it does, but the handlers read rm.Ring       *)
(* without it, so every intermediate ring can be used to place a chunk.    *)
(* Only the rebalancer's IsEmpty test takes the lock.                      *)
(***************************************************************************)
EXTENDS Cluster, Placement

CONSTANTS
    Views,      \* memberships that /state or the nodes table may return
    Rank,       \* Rank[h][n]: place of n among the nodes met clockwise from h
    MaxSyncs    \* bound on the ring rebuilds in one behaviour

ASSUME RingAssumption ==
    /\ Views \subseteq SUBSET Nodes
    /\ Rank \in [Hashes -> [Nodes -> Nat]]
    /\ \A h \in Hashes : \A m, n \in Nodes : Rank[h][m] = Rank[h][n] => m = n
    /\ MaxSyncs \in Nat

VARIABLES
    ring,       \* nodes in rm.Ring at this instant
    joining,    \* members the running rebuild has still to add
    syncing,    \* SyncLoop holds rm.mu
    degraded,   \* rm.degraded: fewer members than a write quorum
    syncs       \* rebuilds so far

ringVars == <<ring, joining, syncing, degraded, syncs>>

RingTypeOK ==
    /\ ring \in SUBSET Nodes
    /\ joining \in SUBSET Nodes
    /\ syncing \in BOOLEAN
    /\ degraded \in BOOLEAN
    /\ syncs \in 0..MaxSyncs

RingInit ==
    /\ ring = {}
    /\ joining = {}
    /\ syncing = FALSE
    /\ degraded = FALSE
    /\ syncs = 0

\* pkg/ring GetNodes on a ring of the nodes in S (HashRing, NearestFirst).
GetNodes(S, h) == FirstClockwise(S, Rank[h], RF)

\* rm.Ring = ring.New(50), the members of V to be added
Rebuild(V) ==
    /\ ~syncing
    /\ syncing' = TRUE
    /\ ring' = {}
    /\ joining' = V
    /\ UNCHANGED degraded

\* A round of SyncLoop that found the membership V.
SyncReset(V) ==
    /\ syncs < MaxSyncs
    /\ syncs' = syncs + 1
    /\ Rebuild(V)

\* rm.Ring.AddNode(addr)
SyncAdd(n) ==
    /\ syncing /\ n \in joining
    /\ ring' = ring \cup {n}
    /\ joining' = joining \ {n}
    /\ UNCHANGED <<syncing, degraded, syncs>>

\* The count of members decides rm.degraded, then rm.mu.Unlock().
SyncDone ==
    /\ syncing /\ joining = {}
    /\ syncing' = FALSE
    /\ degraded' = (Cardinality(ring) < Quorum)
    /\ UNCHANGED <<ring, joining, syncs>>

SyncStep == (\E V \in Views : SyncReset(V)) \/ (\E n \in joining : SyncAdd(n)) \/ SyncDone

\* A gateway process that has just started: NewRingManager.
RingRestart ==
    /\ ring' = {} /\ joining' = {} /\ syncing' = FALSE /\ degraded' = FALSE
    /\ UNCHANGED syncs
=============================================================================
