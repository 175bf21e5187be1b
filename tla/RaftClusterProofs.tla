------------------------- MODULE RaftClusterProofs -------------------------
(***************************************************************************)
(* Proofs about RaftCluster for any nodes, replicas, peers and bound on    *)
(* the faults: the FSM follows the log there too, a node that stopped      *)
(* asking to join is in the log, and GET /state is as ClusterState says.   *)
(***************************************************************************)
EXTENDS RaftCluster, TLAPS
-----------------------------------------------------------------------------
(***************************************************************************)
(* The FSM, for any addresses, replicas and commands (ClusterFSM alone).   *)
(***************************************************************************)
\* fsm.go:16-19, NewClusterFSM: before any command there are no nodes.
LEMMA MembersNone ==
    ASSUME NEW l PROVE Members(l, 0) = {}
  BY DEF Members

\* A command that is appended changes nothing of what came before it.
LEMMA MembersPrefix ==
    ASSUME NEW l \in Seq(Command), NEW c \in Command, NEW k \in 0..Len(l)
    PROVE  Members(Append(l, c), k) = Members(l, k)
<1>1. \A i \in 1..k : Append(l, c)[i] = l[i]
  OBVIOUS
<1>2. \A i \in 1..k : \A j \in (i + 1)..k : j \in 1..k
  OBVIOUS
<1> QED BY <1>1, <1>2 DEF Members

\* fsm.go:31-39: applying a command to the members before it gives those after it.
LEMMA MembersStep ==
    ASSUME NEW l \in Seq(Command), NEW k \in Nat, k < Len(l)
    PROVE  Members(l, k + 1) = ApplyCommand(Members(l, k), l[k + 1])
<1> DEFINE c == l[k + 1]
<1>1. c \in Command
  OBVIOUS
<1>2. ASSUME NEW a \in Addresses, a # c.address
      PROVE  a \in Members(l, k + 1) <=> a \in Members(l, k)
  <2>1. c # Join(a) /\ c # Leave(a)
    BY <1>1, <1>2 DEF Command, Join, Leave
  <2>2. ASSUME NEW i \in 1..k
        PROVE  (\A j \in (i + 1)..(k + 1) : l[j] # Leave(a)) <=> (\A j \in (i + 1)..k : l[j] # Leave(a))
    <3>1. \A j \in (i + 1)..(k + 1) : j \in (i + 1)..k \/ j = k + 1
      OBVIOUS
    <3>2. \A j \in (i + 1)..k : j \in (i + 1)..(k + 1)
      OBVIOUS
    <3> QED BY <2>1, <3>1, <3>2
  <2>3. \A i \in 1..(k + 1) : l[i] = Join(a) => i \in 1..k
    BY <2>1
  <2>4. \A i \in 1..k : i \in 1..(k + 1)
    OBVIOUS
  <2> QED BY <2>2, <2>3, <2>4 DEF Members
<1>3. CASE c.type = "node_join"
  <2>1. c = Join(c.address) /\ c.address \in Addresses
    BY <1>1, <1>3 DEF Command, Join
  <2>2. c.address \in Members(l, k + 1)
    <3>1. k + 1 \in 1..(k + 1) /\ ((k + 1) + 1)..(k + 1) = {}
      OBVIOUS
    <3> QED BY <2>1, <3>1 DEF Members
  <2>3. Members(l, k + 1) \subseteq Addresses /\ Members(l, k) \subseteq Addresses
    BY DEF Members
  <2> QED BY <1>2, <1>3, <2>1, <2>2, <2>3 DEF ApplyCommand
<1>4. CASE c.type # "node_join"
  <2>1. c = Leave(c.address) /\ c.address \in Addresses /\ c # Join(c.address)
    BY <1>1, <1>4 DEF Command, Join, Leave
  <2>2. c.address \notin Members(l, k + 1)
    <3>1. ASSUME NEW i \in 1..(k + 1), l[i] = Join(c.address)
          PROVE  k + 1 \in (i + 1)..(k + 1)
      BY <2>1, <3>1
    <3> QED BY <2>1, <3>1 DEF Members
  <2>3. Members(l, k + 1) \subseteq Addresses /\ Members(l, k) \subseteq Addresses
    BY DEF Members
  <2> QED BY <1>2, <1>4, <2>1, <2>2, <2>3 DEF ApplyCommand
<1> QED BY <1>3, <1>4
-----------------------------------------------------------------------------
FsmInv == FsmTypeOK /\ FsmIsLog

\* A snapshot of what replica r has applied is a true one.
LEMMA RestoredIsLog ==
    ASSUME FsmInv, NEW r \in Replicas, NEW nodes
    PROVE  /\ snapshot[r] \in Images /\ snapshot[r].index \in 0..Len(log)
           /\ Restored(nodes, snapshot[r]) = Members(log, snapshot[r].index)
           /\ Restored(nodes, snapshot[r]) \in SUBSET Addresses
  BY DEF FsmInv, FsmTypeOK, FsmIsLog, Restored, Images

LEMMA FsmInvInit ==
    ASSUME FsmInit PROVE FsmInv
<1>1. FsmTypeOK
  BY DEF FsmInit, FsmTypeOK, NoImage, Images
<1>2. FsmIsLog
  <2>1. log \in Seq(Command) /\ 0 \in 0..Len(log) /\ Members(log, 0) = {}
    BY MembersNone DEF FsmInit
  <2>2. NoImage.index = 0 /\ NoImage.nodes = {}
    BY DEF NoImage
  <2> QED BY <2>1, <2>2 DEF FsmInit, FsmIsLog
<1> QED BY <1>1, <1>2 DEF FsmInv

\* main.go:73, 237: the log grows; no replica has applied the new command.
LEMMA CommitKeeps ==
    ASSUME FsmInv, NEW c \in Command, Commit(c)
    PROVE  FsmInv' /\ Len(log') = Len(log) + 1 /\ log' = Append(log, c)
<1>1. log \in Seq(Command) /\ log' = Append(log, c) /\ log' \in Seq(Command) /\ Len(log') = Len(log) + 1
  BY DEF FsmInv, FsmTypeOK, Commit
<1>2. FsmTypeOK'
  BY <1>1 DEF FsmInv, FsmTypeOK, Commit
<1>3. \A k \in 0..Len(log) : k \in 0..Len(log') /\ Members(log', k) = Members(log, k)
  BY <1>1, MembersPrefix
<1>4. FsmIsLog'
  BY <1>3 DEF FsmInv, FsmIsLog, Commit
<1> QED BY <1>1, <1>2, <1>4 DEF FsmInv

LEMMA ApplyKeeps ==
    ASSUME FsmInv, NEW r \in Replicas, Apply(r)
    PROVE  FsmInv'
<1>1. applied[r] \in Nat /\ applied[r] < Len(log) /\ log \in Seq(Command)
  BY DEF FsmInv, FsmTypeOK, Apply
<1>2. fsm'[r] = Members(log, applied[r] + 1)
  <2>1. fsm'[r] = ApplyCommand(Members(log, applied[r]), log[applied[r] + 1])
    BY DEF FsmInv, FsmTypeOK, FsmIsLog, Apply
  <2> QED BY <1>1, <2>1, MembersStep
<1>3. FsmTypeOK'
  <2>1. fsm'[r] \in SUBSET Addresses
    BY <1>2 DEF Members
  <2> QED BY <2>1 DEF FsmInv, FsmTypeOK, Apply
<1>4. FsmIsLog'
  <2>1. applied'[r] = applied[r] + 1 /\ applied'[r] \in 0..Len(log)
    BY <1>1 DEF FsmInv, FsmTypeOK, Apply
  <2>2. \A q \in Replicas \ {r} : fsm'[q] = fsm[q] /\ applied'[q] = applied[q]
    BY DEF FsmInv, FsmTypeOK, Apply
  <2> QED BY <1>2, <2>1, <2>2 DEF FsmInv, FsmIsLog, Apply
<1> QED BY <1>3, <1>4 DEF FsmInv

LEMMA SnapshotKeeps ==
    ASSUME FsmInv, NEW r \in Replicas, Snapshot(r)
    PROVE  FsmInv'
<1>1. image'[r] \in Images /\ image'[r].index = applied[r] /\ image'[r].nodes = fsm[r]
  BY DEF FsmInv, FsmTypeOK, Snapshot, Images
<1>2. \A q \in Replicas \ {r} : image'[q] = image[q]
  BY DEF FsmInv, FsmTypeOK, Snapshot
<1>3. FsmTypeOK'
  BY <1>1 DEF FsmInv, FsmTypeOK, Snapshot
<1>4. FsmIsLog'
  BY <1>1, <1>2 DEF FsmInv, FsmIsLog, Snapshot
<1> QED BY <1>3, <1>4 DEF FsmInv

LEMMA PersistKeeps ==
    ASSUME FsmInv, NEW r \in Replicas, Persist(r) \/ PersistFails(r)
    PROVE  FsmInv'
<1>1. NoImage \in Images /\ NoImage.index = 0 /\ NoImage.nodes = {}
  BY DEF NoImage, Images
<1>2. image' = [image EXCEPT ![r] = NoImage] /\ snapshot'[r] \in {image[r], snapshot[r]}
  BY DEF FsmInv, FsmTypeOK, Persist, PersistFails
<1>3. \A q \in Replicas \ {r} : snapshot'[q] = snapshot[q]
  BY DEF FsmInv, FsmTypeOK, Persist, PersistFails
<1>4. UNCHANGED <<log, fsm, applied>>
  BY DEF Persist, PersistFails
<1>5. FsmTypeOK'
  BY <1>1, <1>2, <1>4 DEF FsmInv, FsmTypeOK, Persist, PersistFails
<1>6. FsmIsLog'
  <2>1. 0 \in 0..Len(log) /\ Members(log, 0) = {}
    BY MembersNone DEF FsmInv, FsmTypeOK
  <2>2. image'[r] = NoImage /\ \A q \in Replicas \ {r} : image'[q] = image[q]
    BY <1>2 DEF FsmInv, FsmTypeOK
  <2> SUFFICES ASSUME NEW q \in Replicas
               PROVE  /\ applied[q] \in 0..Len(log) /\ fsm[q] = Members(log, applied[q])
                      /\ image'[q].index \in 0..Len(log)
                      /\ image'[q].nodes = Members(log, image'[q].index)
                      /\ snapshot'[q].index \in 0..Len(log)
                      /\ snapshot'[q].nodes = Members(log, snapshot'[q].index)
    BY <1>4 DEF FsmIsLog
  <2>3. CASE q = r
    BY <1>1, <1>2, <2>1, <2>2, <2>3 DEF FsmInv, FsmIsLog
  <2>4. CASE q # r
    BY <1>3, <2>2, <2>4 DEF FsmInv, FsmIsLog
  <2> QED BY <2>3, <2>4
<1> QED BY <1>5, <1>6 DEF FsmInv

LEMMA InstallKeeps ==
    ASSUME FsmInv, NEW r \in Replicas, NEW s \in Replicas, Install(r, s)
    PROVE  FsmInv'
<1>1. /\ snapshot[s] \in Images /\ snapshot[s].index \in 0..Len(log)
      /\ Restored(fsm[r], snapshot[s]) = Members(log, snapshot[s].index)
      /\ Restored(fsm[r], snapshot[s]) \in SUBSET Addresses
      /\ snapshot[s].nodes = Members(log, snapshot[s].index)
  BY RestoredIsLog DEF FsmInv, FsmIsLog
<1>2. /\ fsm'[r] = Restored(fsm[r], snapshot[s]) /\ applied'[r] = snapshot[s].index
      /\ snapshot'[r] = snapshot[s]
      /\ \A q \in Replicas \ {r} : fsm'[q] = fsm[q] /\ applied'[q] = applied[q] /\ snapshot'[q] = snapshot[q]
  BY DEF FsmInv, FsmTypeOK, Install
<1>3. FsmTypeOK'
  BY <1>1 DEF FsmInv, FsmTypeOK, Install
<1>4. FsmIsLog'
  BY <1>1, <1>2 DEF FsmInv, FsmIsLog, Install
<1> QED BY <1>3, <1>4 DEF FsmInv

LEMMA ReopenKeeps ==
    ASSUME FsmInv, NEW r \in Replicas, Reopen(r)
    PROVE  FsmInv'
<1>1. /\ snapshot[r] \in Images /\ snapshot[r].index \in 0..Len(log)
      /\ Restored({}, snapshot[r]) = Members(log, snapshot[r].index)
      /\ Restored({}, snapshot[r]) \in SUBSET Addresses
  BY RestoredIsLog
<1>2. NoImage \in Images /\ NoImage.index = 0 /\ NoImage.nodes = {}
  BY DEF NoImage, Images
<1>3. /\ fsm'[r] = Restored({}, snapshot[r]) /\ applied'[r] = snapshot[r].index /\ image'[r] = NoImage
      /\ \A q \in Replicas \ {r} : fsm'[q] = fsm[q] /\ applied'[q] = applied[q] /\ image'[q] = image[q]
  BY DEF FsmInv, FsmTypeOK, Reopen
<1>4. FsmTypeOK'
  BY <1>1, <1>2 DEF FsmInv, FsmTypeOK, Reopen
<1>5. FsmIsLog'
  <2>1. 0 \in 0..Len(log) /\ Members(log, 0) = {}
    BY MembersNone DEF FsmInv, FsmTypeOK
  <2> QED BY <1>1, <1>2, <1>3, <2>1 DEF FsmInv, FsmIsLog, Reopen
<1> QED BY <1>4, <1>5 DEF FsmInv

LEMMA FsmUnchanged ==
    ASSUME FsmInv, UNCHANGED fsmVars PROVE FsmInv'
  BY DEF FsmInv, FsmTypeOK, FsmIsLog, fsmVars

LEMMA FsmNextKeeps ==
    ASSUME FsmInv, [FsmNext]_fsmVars PROVE FsmInv'
  BY CommitKeeps, ApplyKeeps, SnapshotKeeps, PersistKeeps, InstallKeeps, ReopenKeeps, FsmUnchanged
  DEF FsmNext

\* fsm.go:11-88: for any commands, any lag, and any order of snapshots, restores
\* and restarts, every replica holds what the log says up to its index.
THEOREM ReplicasFollowLog == FsmSpec => []FsmIsLog
<1>1. FsmInit => FsmInv
  BY FsmInvInit
<1>2. FsmInv /\ [FsmNext]_fsmVars => FsmInv'
  BY FsmNextKeeps
<1>3. FsmInv => FsmIsLog
  BY DEF FsmInv
<1> QED BY <1>1, <1>2, <1>3, PTL DEF FsmSpec
-----------------------------------------------------------------------------
(***************************************************************************)
(* How nodes come into the log.                                            *)
(***************************************************************************)

\* Types of what RaftCluster adds to ClusterFSM.
OwnTypeOK ==
    /\ up \in SUBSET Nodes
    /\ announced \in SUBSET Nodes
    /\ joined \in SUBSET Nodes
    /\ asks \in SUBSET Asks
    /\ voters \in SUBSET Nodes
    /\ leader \in Nodes \cup {NoNode}
    /\ faults \in 0..MaxFaults

\* Nothing in the code sends CmdNodeLeave.
OnlyJoins == \A i \in 1..Len(log) : \E n \in Nodes : log[i] = Join(n)

\* A snapshot never runs ahead of the replica that keeps it.
Behind ==
    \A r \in Replicas : snapshot[r].index <= applied[r] /\ image[r].index <= applied[r]

RaftInv == FsmInv /\ OwnTypeOK /\ OnlyJoins /\ Behind /\ JoinedInLog
-----------------------------------------------------------------------------
\* With joins only, more of the log never means fewer members.
LEMMA MembersGrow ==
    ASSUME NEW l, NEW j \in Nat, NEW k \in Nat, j <= k,
           \A i \in 1..k : \E n \in Nodes : l[i] = Join(n)
    PROVE  Members(l, j) \subseteq Members(l, k)
<1>1. \A i \in 1..k : \A a \in Addresses : l[i] # Leave(a)
  <2>1. \A a, b : Join(a).type = "node_join" /\ Leave(b).type = "node_leave"
    BY DEF Join, Leave
  <2> QED BY <2>1
<1> QED
  <2> SUFFICES ASSUME NEW a \in Members(l, j) PROVE a \in Members(l, k)
    OBVIOUS
  <2>1. PICK i \in 1..j : l[i] = Join(a)
    BY DEF Members
  <2>2. i \in 1..k /\ \A m \in (i + 1)..k : m \in 1..k
    OBVIOUS
  <2>3. a \in Addresses
    BY DEF Members
  <2> QED BY <1>1, <2>1, <2>2, <2>3 DEF Members

\* main.go:71-73, 235-237: what Apply appends is a member from then on.
LEMMA JoinIsKnown ==
    ASSUME NEW l \in Seq(Command), NEW n \in Nodes
    PROVE  n \in Members(Append(l, Join(n)), Len(l) + 1)
<1>1. Append(l, Join(n))[Len(l) + 1] = Join(n)
  OBVIOUS
<1>2. Len(l) + 1 \in 1..(Len(l) + 1) /\ ((Len(l) + 1) + 1)..(Len(l) + 1) = {}
  OBVIOUS
<1>3. n \in Addresses
  BY RaftAssumption
<1> QED BY <1>1, <1>2, <1>3 DEF Members

\* Of the log, a step of the cluster is a step of ClusterFSM that joins.
LEMMA StepOfFsm ==
    ASSUME RaftInv, Next
    PROVE  /\ [FsmNext]_fsmVars
           /\ log' = log \/ \E n \in Nodes : log' = Append(log, Join(n))
<1>1. \A n \in Nodes : Join(n) \in Command
  BY RaftAssumption DEF Join, Command
<1>2. \A n \in Nodes : Commit(Join(n)) => FsmNext /\ log' = Append(log, Join(n))
  BY <1>1 DEF FsmNext, Commit
<1>3. UNCHANGED fsmVars => log' = log
  BY DEF fsmVars
<1>4. \A r \in Replicas : \A s \in Replicas :
         Apply(r) \/ Snapshot(r) \/ Persist(r) \/ PersistFails(r) \/ Reopen(r) \/ Install(r, s)
            => FsmNext /\ log' = log
  BY DEF FsmNext, Apply, Snapshot, Persist, PersistFails, Reopen, Install
<1>5. CASE \E n \in Nodes : Start(n)
  BY <1>3, <1>4, <1>5 DEF Start
<1>6. CASE \E n \in Nodes : Crash(n) \/ Elect(n) \/ LoseLeader
  BY <1>3, <1>6 DEF Crash, Elect, LoseLeader
<1>7. CASE \E n \in Nodes : Announce(n)
  BY <1>2, <1>3, <1>7 DEF Announce
<1>8. CASE \E n \in Nodes : JoinStep(n)
  <2>1. \A n \in Nodes : \A p \in Peers[n] : Ask(n, p) => UNCHANGED fsmVars
    BY DEF Ask
  <2>2. \A a \in asks : AddVoter(a) \/ AddVoterFails(a) => UNCHANGED fsmVars
    BY DEF AddVoter, AddVoterFails
  <2>3. \A a \in asks : a.node \in Nodes
    BY DEF RaftInv, OwnTypeOK, Asks
  <2>4. \A a \in asks : ApplyJoin(a) \/ ApplyJoinFails(a) => Commit(Join(a.node)) \/ UNCHANGED fsmVars
    BY DEF ApplyJoin, ApplyJoinFails
  <2> QED BY <1>2, <1>3, <1>8, <2>1, <2>2, <2>3, <2>4 DEF JoinStep
<1>9. CASE \E r \in Replicas : CatchUp(r) \/ SnapshotStep(r)
  BY <1>4, <1>9 DEF CatchUp, SnapshotStep
<1>10. CASE LoseLeader
  BY <1>3, <1>10 DEF LoseLeader
<1> QED BY <1>5, <1>6, <1>7, <1>8, <1>9, <1>10 DEF Next
\* What was in the log stays, and its members stay members.
LEMMA KnownGrows ==
    ASSUME RaftInv, Next
    PROVE  /\ OnlyJoins'
           /\ Known \subseteq Known'
           /\ \A n \in Nodes : log' = Append(log, Join(n)) => n \in Known'
<1>1. log \in Seq(Command) /\ Len(log) \in Nat
  BY DEF RaftInv, FsmInv, FsmTypeOK
<1>2. CASE log' = log
  <2>1. \A n \in Nodes : log' # Append(log, Join(n))
    BY <1>1, <1>2
  <2> QED BY <1>2, <2>1 DEF RaftInv, OnlyJoins, Known
<1>3. ASSUME NEW n \in Nodes, log' = Append(log, Join(n))
      PROVE  OnlyJoins' /\ Known \subseteq Known' /\ n \in Known'
  <2>1. Join(n) \in Command
    BY RaftAssumption DEF Join, Command
  <2>2. log' \in Seq(Command) /\ Len(log') = Len(log) + 1
    BY <1>1, <1>3, <2>1
  <2>3. \A i \in 1..Len(log') : log'[i] = IF i = Len(log) + 1 THEN Join(n) ELSE log[i]
    BY <1>1, <1>3, <2>1
  <2>4. \A i \in 1..Len(log') : i # Len(log) + 1 => i \in 1..Len(log)
    BY <1>1, <2>2
  <2>5. OnlyJoins'
    BY <2>3, <2>4 DEF RaftInv, OnlyJoins
  <2>6. Members(log', Len(log)) \subseteq Members(log', Len(log'))
    BY <1>1, <2>2, <2>5, MembersGrow DEF OnlyJoins
  <2>7. Members(log', Len(log)) = Members(log, Len(log))
    BY <1>1, <1>3, <2>1, MembersPrefix
  <2>8. n \in Members(log', Len(log'))
    BY <1>1, <1>3, <2>2, JoinIsKnown
  <2> QED BY <2>5, <2>6, <2>7, <2>8 DEF Known
<1>4. \A m, n \in Nodes : Append(log, Join(m)) = Append(log, Join(n)) => m = n
  <2>1. \A n \in Nodes : Join(n) \in Command /\ Join(n).address = n
    BY RaftAssumption DEF Join, Command
  <2>2. \A n \in Nodes : Append(log, Join(n))[Len(log) + 1] = Join(n)
    BY <1>1, <2>1
  <2> QED BY <2>1, <2>2
<1> QED BY <1>2, <1>3, <1>4, StepOfFsm

LEMMA BehindKept ==
    ASSUME RaftInv, [FsmNext]_fsmVars PROVE Behind'
<1> USE DEF RaftInv, FsmInv, FsmTypeOK, Behind
<1>1. ASSUME NEW c \in Command, Commit(c) PROVE Behind'
  BY <1>1 DEF Commit
<1>2. ASSUME NEW r \in Replicas, Apply(r) PROVE Behind'
  BY <1>2 DEF Apply, Images
<1>3. ASSUME NEW r \in Replicas, Snapshot(r) PROVE Behind'
  BY <1>3 DEF Snapshot
<1>4. ASSUME NEW r \in Replicas, Persist(r) \/ PersistFails(r) PROVE Behind'
  <2>1. NoImage.index = 0
    BY DEF NoImage
  <2>2. image'[r] = NoImage /\ snapshot'[r] \in {image[r], snapshot[r]} /\ UNCHANGED applied
    BY <1>4 DEF Persist, PersistFails
  <2>3. \A q \in Replicas \ {r} : image'[q] = image[q] /\ snapshot'[q] = snapshot[q]
    BY <1>4 DEF Persist, PersistFails
  <2> QED BY <2>1, <2>2, <2>3
<1>5. ASSUME NEW r \in Replicas, NEW s \in Replicas, Install(r, s) PROVE Behind'
  BY <1>5 DEF Install, Images
<1>6. ASSUME NEW r \in Replicas, Reopen(r) PROVE Behind'
  <2>1. NoImage.index = 0
    BY DEF NoImage
  <2> QED BY <1>6, <2>1 DEF Reopen, Images
<1>7. ASSUME UNCHANGED fsmVars PROVE Behind'
  BY <1>7 DEF fsmVars
<1> QED BY <1>1, <1>2, <1>3, <1>4, <1>5, <1>6, <1>7 DEF FsmNext

LEMMA OwnTypeKept ==
    ASSUME RaftInv, Next PROVE OwnTypeOK'
<1> USE DEF RaftInv, OwnTypeOK
<1>1. Fault => faults' \in 0..MaxFaults
  BY RaftAssumption DEF Fault
<1>2. ASSUME NEW n \in Nodes, Start(n) PROVE OwnTypeOK'
  BY <1>2 DEF Start, raftVars
<1>3. ASSUME NEW n \in Nodes, Crash(n) PROVE OwnTypeOK'
  <2>1. asks' \in SUBSET Asks
    BY <1>3 DEF Crash, Asks
  <2> QED BY <1>1, <1>3, <2>1 DEF Crash
<1>4. ASSUME NEW n \in Nodes, Elect(n) PROVE OwnTypeOK'
  BY <1>4 DEF Elect, nodeVars
<1>5. ASSUME LoseLeader PROVE OwnTypeOK'
  BY <1>1, <1>5 DEF LoseLeader, nodeVars
<1>6. ASSUME NEW n \in Nodes, Announce(n) PROVE OwnTypeOK'
  BY <1>1, <1>6 DEF Announce, raftVars
<1>7. ASSUME NEW n \in Nodes, NEW p \in Peers[n], Ask(n, p) PROVE OwnTypeOK'
  <2>1. p \in Nodes
    BY <1>7, RaftAssumption
  <2>2. [node |-> n, at |-> p, voter |-> FALSE, live |-> TRUE] \in Asks
    BY <2>1 DEF Asks
  <2>3. asks' \in SUBSET Asks
    BY <1>7, <2>2 DEF Ask
  <2> QED BY <1>7, <2>3 DEF Ask, nodeVars
<1>8. ASSUME NEW a \in asks, AddVoter(a) \/ AddVoterFails(a) \/ ApplyJoin(a) \/ ApplyJoinFails(a)
      PROVE  OwnTypeOK'
  <2>1. a \in Asks /\ a.node \in Nodes /\ [a EXCEPT !.voter = TRUE] \in Asks
    BY DEF Asks
  <2>2. faults' \in 0..MaxFaults
    BY <1>1, <1>8 DEF AddVoter, AddVoterFails, ApplyJoin, ApplyJoinFails, MayFail
  <2>3. asks' \in SUBSET Asks
    BY <1>8, <2>1 DEF AddVoter, AddVoterFails, ApplyJoin, ApplyJoinFails
  <2>4. voters' \in SUBSET Nodes /\ joined' \in SUBSET Nodes
    BY <1>8, <2>1 DEF AddVoter, AddVoterFails, ApplyJoin, ApplyJoinFails, nodeVars
  <2>5. UNCHANGED <<leader, up, announced>>
    BY <1>8 DEF AddVoter, AddVoterFails, ApplyJoin, ApplyJoinFails, nodeVars
  <2> QED BY <2>2, <2>3, <2>4, <2>5
<1>9. ASSUME NEW r \in Replicas, CatchUp(r) \/ SnapshotStep(r) PROVE OwnTypeOK'
  BY <1>9 DEF CatchUp, SnapshotStep, raftVars, nodeVars
<1> QED BY <1>2, <1>3, <1>4, <1>5, <1>6, <1>7, <1>8, <1>9 DEF Next, JoinStep

\* main.go:70-79, 203-211: 200 is answered after Apply succeeded.
LEMMA JoinedKept ==
    ASSUME RaftInv, Next PROVE JoinedInLog'
<1>1. ASSUME NEW a \in asks, ApplyJoin(a) PROVE joined' \subseteq Known'
  <2>1. a.node \in Nodes /\ log' = Append(log, Join(a.node)) /\ joined' \subseteq joined \cup {a.node}
    BY <1>1 DEF ApplyJoin, Commit, RaftInv, OwnTypeOK, Asks
  <2> QED BY <2>1, KnownGrows DEF RaftInv, JoinedInLog
<1>2. (\E a \in asks : ApplyJoin(a)) \/ joined' \subseteq joined
  BY DEF Next, Start, Crash, Elect, LoseLeader, Announce, CatchUp, SnapshotStep, JoinStep, Ask,
         AddVoter, AddVoterFails, ApplyJoinFails, nodeVars
<1> QED BY <1>1, <1>2, KnownGrows DEF RaftInv, JoinedInLog-----------------------------------------------------------------------------
LEMMA RaftInvInit ==
    ASSUME Init PROVE RaftInv
<1>1. FsmInv
  BY FsmInvInit DEF Init
<1>2. OwnTypeOK
  BY RaftAssumption DEF Init, OwnTypeOK
<1>3. OnlyJoins /\ JoinedInLog
  BY DEF Init, FsmInit, OnlyJoins, JoinedInLog
<1>4. Behind
  BY DEF Init, FsmInit, Behind, NoImage
<1> QED BY <1>1, <1>2, <1>3, <1>4 DEF RaftInv

LEMMA RaftInvKept ==
    ASSUME RaftInv, [Next]_vars PROVE RaftInv'
<1>1. CASE Next
  <2>1. [FsmNext]_fsmVars
    BY <1>1, StepOfFsm
  <2>2. FsmInv'
    BY <2>1, FsmNextKeeps DEF RaftInv
  <2> QED BY <1>1, <2>1, <2>2, KnownGrows, BehindKept, OwnTypeKept, JoinedKept DEF RaftInv
<1>2. CASE UNCHANGED vars
  <2>1. UNCHANGED fsmVars
    BY <1>2 DEF vars
  <2>2. FsmInv'
    BY <2>1, FsmNextKeeps DEF RaftInv
  <2>3. OwnTypeOK'
    BY <1>2 DEF RaftInv, OwnTypeOK, vars, raftVars, nodeVars
  <2>4. OnlyJoins' /\ JoinedInLog'
    BY <1>2 DEF RaftInv, OnlyJoins, JoinedInLog, Known, vars, fsmVars, nodeVars
  <2> QED BY <2>1, <2>2, <2>3, <2>4, BehindKept DEF RaftInv
<1> QED BY <1>1, <1>2

LEMMA RaftInvHolds == Spec => []RaftInv
  BY RaftInvInit, RaftInvKept, PTL DEF Spec

\* Every reachable state is typed: commands carry gRPC addresses of nodes.
THEOREM RaftTyped == Spec => []TypeOK
<1>1. RaftInv => TypeOK
  BY DEF RaftInv, FsmInv, OwnTypeOK, TypeOK
<1> QED BY <1>1, RaftInvHolds, PTL

\* main.go:73, 94, 237 with fsm.go: whatever joins, leaders and crashes do, a
\* replica holds what the log says.
THEOREM RaftFsmIsLog == Spec => []FsmIsLog
<1>1. RaftInv => FsmIsLog
  BY DEF RaftInv, FsmInv
<1> QED BY <1>1, RaftInvHolds, PTL

\* main.go:203-211: a node whose join loop has ended is in the log.
THEOREM JoinedNodesKnown == Spec => []JoinedInLog
<1>1. RaftInv => JoinedInLog
  BY DEF RaftInv
<1> QED BY <1>1, RaftInvHolds, PTL
-----------------------------------------------------------------------------
LEMMA LogMembersGrow ==
    ASSUME RaftInv, NEW j \in 0..Len(log), NEW k \in 0..Len(log), j <= k
    PROVE  Members(log, j) \subseteq Members(log, k)
<1>1. Len(log) \in Nat
  BY DEF RaftInv, FsmInv, FsmTypeOK
<1>2. \A i \in 1..k : i \in 1..Len(log)
  BY <1>1
<1>3. j \in Nat /\ k \in Nat
  BY <1>1
<1>4. \A i \in 1..k : \E n \in Nodes : log[i] = Join(n)
  BY <1>2 DEF RaftInv, OnlyJoins
<1> QED BY <1>3, <1>4, MembersGrow

\* fsm.go:22-41, 65-76: a replica that applies more of the log, or is given the
\* snapshot of another one, loses no node.
LEMMA CatchUpGrows ==
    ASSUME RaftInv, NEW r \in Replicas, CatchUp(r) \/ SnapshotStep(r)
    PROVE  fsm[r] \subseteq fsm'[r] /\ \A q \in Replicas \ {r} : fsm'[q] = fsm[q]
<1>1. CASE Snapshot(r) \/ Persist(r) \/ PersistFails(r)
  BY <1>1 DEF Snapshot, Persist, PersistFails
<1>2. ASSUME Apply(r) \/ \E s \in Replicas : Install(r, s)
      PROVE  fsm[r] \subseteq fsm'[r] /\ \A q \in Replicas \ {r} : fsm'[q] = fsm[q]
  <2>1. FsmInv'
    <3>1. FsmNext
      BY <1>2 DEF FsmNext
    <3> QED BY <3>1, FsmNextKeeps DEF RaftInv
  <2>2. UNCHANGED log /\ applied[r] <= applied'[r]
    BY <1>2 DEF Apply, Install, Images, RaftInv, FsmInv, FsmTypeOK
  <2>3. applied[r] \in 0..Len(log) /\ applied'[r] \in 0..Len(log)
    BY <2>1, <2>2 DEF RaftInv, FsmInv, FsmIsLog
  <2>4. fsm[r] = Members(log, applied[r]) /\ fsm'[r] = Members(log, applied'[r])
    BY <2>1, <2>2 DEF RaftInv, FsmInv, FsmIsLog
  <2>5. \A q \in Replicas \ {r} : fsm'[q] = fsm[q]
    BY <1>2 DEF Apply, Install, RaftInv, FsmInv, FsmTypeOK
  <2> QED BY <2>2, <2>3, <2>4, <2>5, LogMembersGrow
<1> QED BY <1>1, <1>2 DEF CatchUp, SnapshotStep

\* main.go:135, 194-195: a replica that starts again has what its snapshot had.
LEMMA ReopenShrinks ==
    ASSUME RaftInv, NEW r \in Replicas, Reopen(r)
    PROVE  fsm'[r] \subseteq fsm[r] /\ \A q \in Replicas \ {r} : fsm'[q] = fsm[q]
<1>1. fsm'[r] = Members(log, snapshot[r].index)
  BY RestoredIsLog DEF Reopen, RaftInv, FsmInv, FsmTypeOK
<1>2. /\ snapshot[r].index \in 0..Len(log) /\ applied[r] \in 0..Len(log)
      /\ snapshot[r].index <= applied[r] /\ fsm[r] = Members(log, applied[r])
  BY DEF RaftInv, FsmInv, FsmIsLog, Behind
<1>3. \A q \in Replicas \ {r} : fsm'[q] = fsm[q]
  BY DEF Reopen, RaftInv, FsmInv, FsmTypeOK
<1> QED BY <1>1, <1>2, <1>3, LogMembersGrow

\* A step of the cluster is a step of ClusterState or leaves it alone.
LEMMA StepOfState ==
    ASSUME RaftInv, [Next]_vars
    PROVE  [State!Next]_State!vars
<1> USE DEF State!Next, State!Grow, State!Stop, State!Restart, State!vars
<1>1. fsm[Seed] \in SUBSET Nodes /\ fsm'[Seed] \in SUBSET Nodes
  <2>1. FsmTypeOK /\ FsmTypeOK'
    BY RaftInvKept DEF RaftInv, FsmInv
  <2> QED BY <2>1, RaftAssumption DEF FsmTypeOK
<1>2. CASE Start(Seed)
  <2>1. Seed \notin up /\ Seed \in up' /\ Reopen(Seed)
    BY <1>2, RaftAssumption DEF Start
  <2>2. fsm'[Seed] \in SUBSET fsm[Seed]
    BY <2>1, ReopenShrinks, RaftAssumption
  <2> QED BY <2>1, <2>2
<1>3. ASSUME NEW n \in Nodes, Start(n), n # Seed PROVE [State!Next]_State!vars
  <2>1. (Seed \in up') = (Seed \in up)
    BY <1>3 DEF Start
  <2>2. fsm'[Seed] = fsm[Seed]
    BY <1>3, ReopenShrinks, RaftAssumption DEF Start, fsmVars
  <2> QED BY <2>1, <2>2
<1>4. CASE \E n \in Nodes : Crash(n)
  <2>1. UNCHANGED fsm /\ up' \subseteq up
    BY <1>4 DEF Crash, fsmVars
  <2>2. CASE Seed \in up /\ Seed \notin up'
    BY <2>1, <2>2
  <2>3. CASE (Seed \in up') = (Seed \in up)
    BY <2>1, <2>3
  <2> QED BY <2>1, <2>2, <2>3
<1>5. ASSUME NEW r \in Replicas, CatchUp(r) \/ SnapshotStep(r) PROVE [State!Next]_State!vars
  <2>1. UNCHANGED up /\ r \in up
    BY <1>5 DEF CatchUp, SnapshotStep, nodeVars
  <2>2. CASE r = Seed
    BY <1>1, <1>5, <2>1, <2>2, CatchUpGrows
  <2>3. CASE r # Seed
    BY <1>5, <2>1, <2>3, CatchUpGrows, RaftAssumption
  <2> QED BY <2>2, <2>3
<1>6. CASE \/ \E n \in Nodes : Elect(n) \/ Announce(n) \/ JoinStep(n)
           \/ LoseLeader \/ UNCHANGED vars
  <2>1. UNCHANGED <<fsm, up>>
    BY <1>6 DEF Elect, Announce, JoinStep, Ask, AddVoter, AddVoterFails, ApplyJoin, ApplyJoinFails, LoseLeader,
                Commit, vars, fsmVars, nodeVars
  <2> QED BY <2>1
<1> QED BY <1>2, <1>3, <1>4, <1>5, <1>6 DEF Next

\* main.go:81-97: what the gateway is told implements ClusterState.
THEOREM ImplementsState == Spec => StateSpec
<1>1. Init => State!Init
  BY RaftAssumption DEF Init, FsmInit, State!Init
<1>2. RaftInv /\ [Next]_vars => [State!Next]_State!vars
  BY StepOfState
<1> QED BY <1>1, <1>2, RaftInvHolds, PTL DEF Spec, StateSpec, State!Spec
=============================================================================
