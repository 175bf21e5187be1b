---------------------------- MODULE RaftCluster ----------------------------
(***************************************************************************)
(* How storage nodes come into the replicated node set: startRaft,         *)
(* startRaftAPI, and the join and announce goroutines of                   *)
(* cmd/storagenode/main.go, on top of ClusterFSM.  Of hashicorp/raft only  *)
(* what its callers see is here: one log, one leader with a majority       *)
(* behind it, calls that may fail after they took effect.                  *)
(***************************************************************************)
EXTENDS ClusterFSM, FiniteSets

CONSTANTS
    Nodes,      \* storage nodes that may join the cluster of Seed
    Seed,       \* the node that bootstraps it, and that the gateway asks
    Peers,      \* Peers[n]: whom n asks to join (RAFT_PEERS); {} for Seed
    NoNode,     \* raftNode.Leader() = ""
    MaxFaults   \* bound on crashes, lost leaders and failed calls

ASSUME RaftAssumption ==
    /\ IsFiniteSet(Nodes) /\ NoNode \notin Nodes
    /\ Addresses = Nodes /\ Replicas \subseteq Nodes /\ Seed \in Replicas
    /\ Peers \in [Nodes -> SUBSET Nodes] /\ Peers[Seed] = {}
    /\ MaxFaults \in Nat

VARIABLES
    up,         \* nodes whose process runs
    announced,  \* nodes whose announce goroutine has ended
    joined,     \* nodes whose join loop has ended: a peer answered 200
    asks,       \* /join handlers at work
    voters,     \* servers of the Raft configuration
    leader,
    faults

raftVars == <<asks, voters, leader>>
nodeVars == <<up, announced, joined>>
vars == <<fsmVars, raftVars, nodeVars, faults>>

\* A handler at node at for node; voter: AddVoter is done; live: node waits.
Asks == [node: Nodes, at: Nodes, voter: BOOLEAN, live: BOOLEAN]

TypeOK ==
    /\ FsmTypeOK
    /\ up \in SUBSET Nodes
    /\ announced \in SUBSET Nodes
    /\ joined \in SUBSET Nodes
    /\ asks \in SUBSET Asks
    /\ voters \in SUBSET Nodes
    /\ leader \in Nodes \cup {NoNode}
    /\ faults \in 0..MaxFaults

\* BootstrapCluster of Seed is done when it starts for the first time.
Init ==
    /\ FsmInit
    /\ up = {} /\ announced = {} /\ joined = {}
    /\ asks = {} /\ voters = {Seed} /\ leader = NoNode
    /\ faults = 0

Fault == faults < MaxFaults /\ faults' = faults + 1
HasMajority(V) == 2 * Cardinality(V \cap up) > Cardinality(V)
-----------------------------------------------------------------------------
\* main up to the start of its goroutines
Start(n) ==
    /\ n \notin up
    /\ up' = up \cup {n}
    /\ announced' = announced \ {n}
    /\ joined' = joined \ {n}
    /\ IF n \in Replicas THEN Reopen(n) ELSE UNCHANGED fsmVars
    /\ UNCHANGED <<raftVars, faults>>

Crash(n) ==
    /\ n \in up /\ Fault
    /\ up' = up \ {n}
    /\ leader' = IF leader = n THEN NoNode ELSE leader
    /\ asks' = {[a EXCEPT !.live = @ /\ a.node # n] : a \in {b \in asks : b.at # n}}
    /\ UNCHANGED <<fsmVars, voters, announced, joined>>

Elect(n) ==
    /\ leader = NoNode /\ n \in voters \cap up /\ HasMajority(voters)
    /\ leader' = n
    /\ UNCHANGED <<fsmVars, asks, voters, nodeVars, faults>>

\* Without a majority the lease of the leader runs out.
LoseLeader ==
    /\ leader # NoNode
    /\ (~HasMajority(voters) /\ UNCHANGED faults) \/ Fault
    /\ leader' = NoNode
    /\ UNCHANGED <<fsmVars, asks, voters, nodeVars>>

\* A replica learns from the leader what is committed.
CatchUp(r) ==
    /\ r \in up /\ leader # NoNode
    /\ Apply(r) \/ \E s \in Replicas \ {r} : Install(r, s)
    /\ UNCHANGED <<raftVars, nodeVars, faults>>

SnapshotStep(r) ==
    /\ r \in up
    /\ Snapshot(r) \/ Persist(r) \/ PersistFails(r)
    /\ UNCHANGED <<raftVars, nodeVars, faults>>
-----------------------------------------------------------------------------
\* Seeded fault: a node that is a voter does not ask again.
AskOnce(n, p) ==
    /\ n \in up \ (joined \cup voters) /\ p \in Peers[n] /\ p = leader
    /\ \A a \in asks : ~(a.node = n /\ a.live)
    /\ asks' = asks \cup {[node |-> n, at |-> p, voter |-> FALSE, live |-> TRUE]}
    /\ UNCHANGED <<fsmVars, voters, leader, nodeVars, faults>>

\* The join loop repeats until a peer answers 200; a peer that is down or not
\* the leader changes nothing.
Ask(n, p) ==
    /\ n \in up \ joined /\ p \in Peers[n] /\ p = leader
    /\ \A a \in asks : ~(a.node = n /\ a.live)
    /\ asks' = asks \cup {[node |-> n, at |-> p, voter |-> FALSE, live |-> TRUE]}
    /\ UNCHANGED <<fsmVars, voters, leader, nodeVars, faults>>

\* A call of the handler a into the library succeeds while its node leads a
\* majority of V, and may fail for reasons of its own.
Succeeds(a, V) == leader = a.at /\ HasMajority(V)
MayFail(a, V) == (~Succeeds(a, V) /\ UNCHANGED faults) \/ Fault

AddVoter(a) ==
    /\ ~a.voter /\ Succeeds(a, voters \cup {a.node})
    /\ voters' = voters \cup {a.node}
    /\ asks' = (asks \ {a}) \cup {[a EXCEPT !.voter = TRUE]}
    /\ UNCHANGED <<fsmVars, leader, nodeVars, faults>>

\* The change may survive in the log although AddVoter reports an error.
AddVoterFails(a) ==
    /\ ~a.voter /\ MayFail(a, voters \cup {a.node})
    /\ voters' \in {voters, voters \cup {a.node}}
    /\ asks' = asks \ {a}
    /\ UNCHANGED <<fsmVars, leader, nodeVars>>

\* raftNode.Apply, then 200 to the loop of the node if it is still there
ApplyJoin(a) ==
    /\ a.voter /\ Succeeds(a, voters)
    /\ Commit(Join(a.node))
    /\ asks' = asks \ {a}
    /\ joined' = IF a.live THEN joined \cup {a.node} ELSE joined
    /\ UNCHANGED <<voters, leader, up, announced, faults>>

\* Seeded fault: an error of Apply is logged and 200 is answered.
ApplyJoinIgnored(a) ==
    /\ a.voter /\ MayFail(a, voters)
    /\ UNCHANGED fsmVars
    /\ asks' = asks \ {a}
    /\ joined' = IF a.live THEN joined \cup {a.node} ELSE joined
    /\ UNCHANGED <<voters, leader, up, announced>>

\* After an error of Apply the command may be in the log all the same.
ApplyJoinFails(a) ==
    /\ a.voter /\ MayFail(a, voters)
    /\ Commit(Join(a.node)) \/ UNCHANGED fsmVars
    /\ asks' = asks \ {a}
    /\ UNCHANGED <<voters, leader, nodeVars>>

\* The goroutine sees that there is a leader.  Only the leader announces
\* itself, and whether Apply succeeded is not looked at.
Announce(n) ==
    /\ n \in (up \cap voters) \ announced /\ leader # NoNode
    /\ announced' = announced \cup {n}
    /\ \/ leader = n /\ HasMajority(voters) /\ Commit(Join(n)) /\ UNCHANGED faults
       \/ leader = n /\ ((~HasMajority(voters) /\ UNCHANGED faults) \/ Fault) /\ UNCHANGED fsmVars
       \/ leader # n /\ UNCHANGED <<fsmVars, faults>>
    /\ UNCHANGED <<raftVars, up, joined>>
-----------------------------------------------------------------------------
JoinStep(n) ==
    \/ \E p \in Peers[n] : Ask(n, p)
    \/ \E a \in asks : a.node = n /\ (AddVoter(a) \/ AddVoterFails(a) \/ ApplyJoin(a) \/ ApplyJoinFails(a))

Next ==
    \/ \E n \in Nodes : Start(n) \/ Crash(n) \/ Elect(n) \/ Announce(n) \/ JoinStep(n)
    \/ \E r \in Replicas : CatchUp(r) \/ SnapshotStep(r)
    \/ LoseLeader

Spec == Init /\ [][Next]_vars

\* Goroutines of running processes go on, the library elects a leader and
\* brings replicas up to date; nobody has to start a node.
FairSpec ==
    /\ Spec
    /\ \A n \in Nodes : WF_vars(Announce(n)) /\ WF_vars(JoinStep(n))
    /\ \A r \in Replicas : WF_vars(CatchUp(r))
    /\ WF_vars(\E n \in Nodes : Elect(n))
-----------------------------------------------------------------------------
Known == Members(log, Len(log))

\* main.go:203-211: a node stops asking once a peer answered 200, so by then
\* the log must have it, whatever became of that peer and of other requests.
JoinedInLog == joined \subseteq Known

\* main.go:199-219: a join loop ends when a peer it asks stays leader.
JoinEnds ==
    \A n \in Nodes : Peers[n] # {} =>
        (<>[](n \in up /\ leader \in Peers[n] /\ HasMajority(voters)) => <>(n \in joined))

\* main.go:94 answers with the local FSM: it comes to what the log says, after
\* restarts too, when its node and a majority stay up.
StateConverges ==
    <>[](Seed \in up /\ HasMajority(voters)) => <>[](fsm[Seed] = Known)

\* main.go:81-97 as the gateway sees it.
State == INSTANCE ClusterState WITH answers <- Seed \in up, view <- fsm[Seed]
StateSpec == State!Spec
=============================================================================
