-------------------------- MODULE MembershipProofs --------------------------
(***************************************************************************)
(* Types of Membership for any nodes, seed and joiners, and any number of  *)
(* failures, with any goroutines of the health checker under way.          *)
(***************************************************************************)
EXTENDS Membership, TLAPS

\* What a step does to the ring keeps its types.
LEMMA RebuildTyped ==
    ASSUME RingTypeOK, NEW V \in SUBSET Nodes, Rebuild(V), UNCHANGED syncs
    PROVE  RingTypeOK'
<1>1. syncing' \in BOOLEAN /\ degraded' \in BOOLEAN
  BY Zenon DEF Rebuild, RingTypeOK
<1> QED BY <1>1 DEF Rebuild, RingTypeOK

LEMMA AddTyped ==
    ASSUME RingTypeOK, SyncDone \/ \E n \in joining : SyncAdd(n)
    PROVE  RingTypeOK'
<1>1. ASSUME NEW n \in joining, SyncAdd(n) PROVE RingTypeOK'
  BY <1>1 DEF SyncAdd, RingTypeOK
<1>2. ASSUME SyncDone PROVE RingTypeOK'
  <2>1. syncing' \in BOOLEAN
    BY <1>2, Zenon DEF SyncDone
  <2>2. degraded' \in BOOLEAN
    BY <1>2 DEF SyncDone
  <2> QED BY <1>2, <2>1, <2>2 DEF SyncDone, RingTypeOK
<1> QED BY <1>1, <1>2

LEMMA RestartTyped ==
    ASSUME RingTypeOK, RingRestart
    PROVE  RingTypeOK'
<1>1. syncing' \in BOOLEAN /\ degraded' \in BOOLEAN
  BY Zenon DEF RingRestart
<1> QED BY <1>1 DEF RingRestart, RingTypeOK

\* The types of what Membership adds to RingManager.
OwnTypeOK ==
    /\ proc \in [Nodes -> {"down", "starting", "serving"}]
    /\ view \in SUBSET Nodes
    /\ table \in [Nodes -> Statuses \cup {"absent"}]
    /\ check \in [Nodes -> SUBSET Statuses]
    /\ tripped \in [Nodes -> BOOLEAN]
    /\ faults \in 0..MaxFaults

LEMMA FaultTyped ==
    ASSUME OwnTypeOK, NEW kind, Fault(kind)
    PROVE  faults' \in 0..MaxFaults
BY ClusterAssumption DEF OwnTypeOK, Fault

\* A storage node starts, registers itself or dies.
LEMMA NodeTyped ==
    ASSUME TypeOK, NEW n \in Nodes, Start(n) \/ Register(n) \/ Crash(n)
    PROVE  TypeOK'
<1>1. OwnTypeOK /\ RingTypeOK
  BY DEF TypeOK, OwnTypeOK
<1>2. RingTypeOK'
  BY <1>1 DEF Start, Register, Crash, ringVars, RingTypeOK
<1>3. proc' \in [Nodes -> {"down", "starting", "serving"}]
  BY <1>1 DEF OwnTypeOK, Start, Register, Crash
<1>4. view' \in SUBSET Nodes
  BY <1>1 DEF OwnTypeOK, Start, Register, Crash, State!Restart
<1>5. table' \in [Nodes -> Statuses \cup {"absent"}]
  BY <1>1 DEF OwnTypeOK, Start, Register, RegisterNode, Crash, Statuses
<1>6. check' = check /\ tripped' = tripped
  BY DEF Start, Register, Crash
<1>7. faults' \in 0..MaxFaults
  <2>1. faults' = faults \/ \E kind : Fault(kind)
    BY DEF Start, Register, RegisterNode, Crash
  <2> QED BY <1>1, <2>1, FaultTyped DEF OwnTypeOK
<1> QED BY <1>1, <1>2, <1>3, <1>4, <1>5, <1>6, <1>7 DEF TypeOK, OwnTypeOK

\* The goroutines of the health checker and the breakers.
LEMMA HealthTyped ==
    ASSUME TypeOK, NEW n \in Nodes,
           HealthChecked(n) \/ BreakerTrips(n) \/ BreakerCloses(n)
             \/ \E status \in Statuses : UpdateNodeStatus(n, status)
    PROVE  TypeOK'
<1>1. OwnTypeOK /\ RingTypeOK
  BY DEF TypeOK, OwnTypeOK
<1>2. UNCHANGED <<ringVars, proc, view>>
  BY DEF HealthChecked, HealthOK, HealthFails, Health, BreakerTrips, BreakerCloses, UpdateNodeStatus
<1>3. RingTypeOK'
  BY <1>1, <1>2 DEF ringVars, RingTypeOK
<1>4. table' \in [Nodes -> Statuses \cup {"absent"}]
  BY <1>1 DEF OwnTypeOK, HealthChecked, HealthOK, HealthFails, Health, BreakerTrips, BreakerCloses, UpdateNodeStatus
<1>5. check' \in [Nodes -> SUBSET Statuses]
  <2>1. \A S \in SUBSET Statuses : \A status \in Statuses :
          S \cup {status} \in SUBSET Statuses /\ S \ {status} \in SUBSET Statuses
    OBVIOUS
  <2>2. "active" \in Statuses /\ "inactive" \in Statuses
    BY DEF Statuses
  <2> QED BY <1>1, <2>1, <2>2 DEF OwnTypeOK, HealthChecked, HealthOK, HealthFails, Health,
                                  BreakerTrips, BreakerCloses, UpdateNodeStatus
<1>6. tripped' \in [Nodes -> BOOLEAN]
  BY <1>1 DEF OwnTypeOK, HealthChecked, HealthOK, HealthFails, Health, BreakerTrips, BreakerCloses, UpdateNodeStatus
<1>7. faults' \in 0..MaxFaults
  <2>1. faults' = faults \/ \E kind : Fault(kind)
    BY DEF HealthChecked, HealthOK, HealthFails, BreakerTrips, BreakerCloses, UpdateNodeStatus
  <2> QED BY <1>1, <2>1, FaultTyped DEF OwnTypeOK
<1> QED BY <1>1, <1>2, <1>3, <1>4, <1>5, <1>6, <1>7 DEF TypeOK, OwnTypeOK

\* SyncLoop, with any membership it may be told.
LEMMA SyncTyped ==
    ASSUME TypeOK, Sync
    PROVE  TypeOK'
<1>1. OwnTypeOK /\ RingTypeOK
  BY DEF TypeOK, OwnTypeOK
<1>2. CASE SyncFromRaft
  <2>1. RingTypeOK'
    BY <1>1, <1>2, RebuildTyped DEF SyncFromRaft, OwnTypeOK
  <2> QED BY <1>1, <1>2, <2>1 DEF SyncFromRaft, memberVars, TypeOK, OwnTypeOK
<1>3. CASE SyncFromTable
  <2>1. PICK V \in SUBSET Nodes : Rebuild(V)
    BY <1>3 DEF SyncFromTable, Active
  <2>2. RingTypeOK'
    BY <1>1, <1>3, <2>1, RebuildTyped DEF SyncFromTable
  <2>3. faults' \in 0..MaxFaults
    <3>1. faults' = faults \/ \E kind : Fault(kind)
      BY <1>3 DEF SyncFromTable, GetAllNodes
    <3> QED BY <1>1, <3>1, FaultTyped DEF OwnTypeOK
  <2> QED BY <1>1, <1>3, <2>2, <2>3 DEF SyncFromTable, TypeOK, OwnTypeOK
<1>4. CASE (SyncDone \/ \E n \in joining : SyncAdd(n)) /\ UNCHANGED memberVars
  <2>1. RingTypeOK'
    BY <1>1, <1>4, AddTyped
  <2> QED BY <1>1, <1>4, <2>1 DEF memberVars, TypeOK, OwnTypeOK
<1> QED BY <1>2, <1>3, <1>4 DEF Sync

LEMMA CrashTyped ==
    ASSUME TypeOK, GatewayCrash
    PROVE  TypeOK'
<1>1. OwnTypeOK /\ RingTypeOK
  BY DEF TypeOK, OwnTypeOK
<1>2. RingTypeOK'
  BY <1>1, RestartTyped DEF GatewayCrash
<1>3. faults' \in 0..MaxFaults
  BY <1>1, FaultTyped DEF GatewayCrash
<1>4. tripped' \in [Nodes -> BOOLEAN] /\ check' \in [Nodes -> SUBSET Statuses]
  BY DEF GatewayCrash
<1> QED BY <1>1, <1>2, <1>3, <1>4 DEF GatewayCrash, TypeOK, OwnTypeOK

\* ring_manager.go:36-84 and health_checker.go:12-32: whatever order nodes,
\* checks and rounds of SyncLoop come in and whatever fails, what is in the
\* table, the ring and the rebuild under way are storage nodes of the cluster.
THEOREM MembersTyped == Spec => []TypeOK
<1>1. Init => TypeOK
  <2> SUFFICES ASSUME Init PROVE TypeOK
    OBVIOUS
  <2>1. syncing \in BOOLEAN /\ degraded \in BOOLEAN
    BY Zenon DEF Init, RingInit
  <2>2. syncs \in 0..MaxSyncs /\ faults \in 0..MaxFaults
    BY RingAssumption, ClusterAssumption DEF Init, RingInit
  <2>3. tripped \in [Nodes -> BOOLEAN]
    BY DEF Init
  <2> QED BY <2>1, <2>2, <2>3 DEF Init, RingInit, RingTypeOK, TypeOK
<1>2. TypeOK /\ [Next]_vars => TypeOK'
  <2> SUFFICES ASSUME TypeOK, [Next]_vars PROVE TypeOK'
    OBVIOUS
  <2>1. CASE ViewGrows
    <3>1. view' \in SUBSET Nodes
      BY <2>1 DEF ViewGrows, State!Grow
    <3> QED BY <2>1, <3>1 DEF ViewGrows, ringVars, RingTypeOK, TypeOK
  <2>2. CASE UNCHANGED vars
    BY <2>2 DEF vars, ringVars, memberVars, RingTypeOK, TypeOK
  <2> QED BY <2>1, <2>2, NodeTyped, HealthTyped, SyncTyped, CrashTyped DEF Next
<1> QED BY <1>1, <1>2, PTL DEF Spec
=============================================================================
