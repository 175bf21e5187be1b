----------------------------- MODULE ClusterFSM ----------------------------
(***************************************************************************)
(* The replicated set of storage nodes: pkg/raft/fsm.go, driven the way    *)
(* hashicorp/raft drives an FSM.  The library keeps one log of committed   *)
(* commands; every replica applies them in order, may take a snapshot      *)
(* while it goes on applying, and starts again from its latest snapshot.   *)
(***************************************************************************)
EXTENDS Naturals, Sequences

CONSTANTS
    Addresses,  \* gRPC addresses that commands may carry
    Replicas    \* the processes with a ClusterFSM

VARIABLES
    log,        \* committed commands
    fsm,        \* fsm[r]: f.nodes
    applied,    \* applied[r]: how much of the log r has applied
    image,      \* image[r]: the fsmSnapshot being persisted; index 0: none
    snapshot    \* snapshot[r]: the latest one in r's snapshot store

fsmVars == <<log, fsm, applied, image, snapshot>>

Command == [type: {"node_join", "node_leave"}, address: Addresses]

\* Seeded fault: the address of Raft is sent, not that of gRPC.
JoinRaftAddress(a) == [type |-> "node_join", address |-> <<"raft", a>>]

Join(a) == [type |-> "node_join", address |-> a]
Leave(a) == [type |-> "node_leave", address |-> a]

NoImage == [index |-> 0, nodes |-> {}]
Images == [index: Nat, nodes: SUBSET Addresses]

FsmTypeOK ==
    /\ log \in Seq(Command)
    /\ fsm \in [Replicas -> SUBSET Addresses]
    /\ applied \in [Replicas -> Nat]
    /\ image \in [Replicas -> Images]
    /\ snapshot \in [Replicas -> Images]

FsmInit ==
    /\ log = <<>>
    /\ fsm = [r \in Replicas |-> {}]
    /\ applied = [r \in Replicas |-> 0]
    /\ image = [r \in Replicas |-> NoImage]
    /\ snapshot = [r \in Replicas |-> NoImage]
-----------------------------------------------------------------------------
\* A quorum has the command in its log.
Commit(c) ==
    /\ log' = Append(log, c)
    /\ UNCHANGED <<fsm, applied, image, snapshot>>

\* Seeded fault: a command that is a repetition undoes itself.
ToggleCommand(nodes, c) ==
    IF c.type = "node_leave" \/ c.address \in nodes THEN nodes \ {c.address}
                                                    ELSE nodes \cup {c.address}

ApplyCommand(nodes, c) ==
    IF c.type = "node_join" THEN nodes \cup {c.address} ELSE nodes \ {c.address}

Apply(r) ==
    /\ applied[r] < Len(log)
    /\ fsm' = [fsm EXCEPT ![r] = ApplyCommand(@, log[applied[r] + 1])]
    /\ applied' = [applied EXCEPT ![r] = @ + 1]
    /\ UNCHANGED <<log, image, snapshot>>

\* The library calls Snapshot between two Apply, Persist while others run.
Snapshot(r) ==
    /\ image[r] = NoImage /\ applied[r] > snapshot[r].index
    /\ image' = [image EXCEPT ![r] = [index |-> applied[r], nodes |-> fsm[r]]]
    /\ UNCHANGED <<log, fsm, applied, snapshot>>

\* Seeded fault: Snapshot returned f.nodes itself and not a copy.
PersistShared(r) ==
    /\ image[r] # NoImage
    /\ image' = [image EXCEPT ![r] = NoImage]
    /\ snapshot' = [snapshot EXCEPT ![r] = [image[r] EXCEPT !.nodes = fsm[r]]]
    /\ UNCHANGED <<log, fsm, applied>>

\* The store lists the snapshot with the highest index first.
Persist(r) ==
    /\ image[r] # NoImage
    /\ image' = [image EXCEPT ![r] = NoImage]
    /\ snapshot' = [snapshot EXCEPT ![r] = IF image[r].index > @.index THEN image[r] ELSE @]
    /\ UNCHANGED <<log, fsm, applied>>

\* sink.Cancel
PersistFails(r) ==
    /\ image[r] # NoImage
    /\ image' = [image EXCEPT ![r] = NoImage]
    /\ UNCHANGED <<log, fsm, applied, snapshot>>

\* Seeded fault: the snapshot is merged into the map.
RestoreMerges(nodes, s) == nodes \cup s.nodes

\* Seeded fault: a local variable is assigned, not f.nodes.
RestoreForgets(nodes, s) == nodes

\* f.nodes = nodes
Restored(nodes, s) == s.nodes

\* r lags so far behind that s sends it a snapshot in place of the log.
Install(r, s) ==
    /\ snapshot[s].index > applied[r]
    /\ snapshot' = [snapshot EXCEPT ![r] = snapshot[s]]
    /\ fsm' = [fsm EXCEPT ![r] = Restored(@, snapshot[s])]
    /\ applied' = [applied EXCEPT ![r] = snapshot[s].index]
    /\ UNCHANGED <<log, image>>

\* The process of r died and starts: NewClusterFSM, then NewRaft restores.
Reopen(r) ==
    /\ fsm' = [fsm EXCEPT ![r] = Restored({}, snapshot[r])]
    /\ applied' = [applied EXCEPT ![r] = snapshot[r].index]
    /\ image' = [image EXCEPT ![r] = NoImage]
    /\ UNCHANGED <<log, snapshot>>

FsmNext ==
    \/ \E c \in Command : Commit(c)
    \/ \E r \in Replicas :
          \/ Apply(r) \/ Snapshot(r) \/ Persist(r) \/ PersistFails(r) \/ Reopen(r)
          \/ \E s \in Replicas : Install(r, s)

FsmSpec == FsmInit /\ [][FsmNext]_fsmVars
-----------------------------------------------------------------------------
\* The nodes whose last command among the first k of l is a join.
Members(l, k) ==
    {a \in Addresses : \E i \in 1..k : /\ l[i] = Join(a)
                                       /\ \A j \in (i + 1)..k : l[j] # Leave(a)}

\* fsm.go:11-88: whatever a replica went through - lag, snapshots taken in
\* the middle of other commands, persisted late or cancelled, a snapshot of
\* another replica, restarts - its map, the image it is writing and the
\* snapshot it would start from are the log up to their index.
FsmIsLog ==
    \A r \in Replicas :
        /\ applied[r] \in 0..Len(log) /\ fsm[r] = Members(log, applied[r])
        /\ image[r].index \in 0..Len(log) /\ image[r].nodes = Members(log, image[r].index)
        /\ snapshot[r].index \in 0..Len(log) /\ snapshot[r].nodes = Members(log, snapshot[r].index)
=============================================================================
