------------------------ MODULE ComponentProofs --------------------------
(***************************************************************************)
(* Lemmas about the components that ObjectStore and Multipart share: the   *)
(* storage nodes, the tables and the ring.                                 *)
(***************************************************************************)
EXTENDS StorageNode, Metadata, RingManager, FiniteSetTheorems, TLAPS

\* The components start typed.
LEMMA ComponentsInit ==
    /\ StorageInit => StorageTypeOK
    /\ MetadataInit => MetadataTypeOK
    /\ RingInit => RingTypeOK
<1>1. StorageInit => StorageTypeOK
  BY ClusterAssumption DEF StorageInit, StorageTypeOK, Files
<1>2. MetadataInit => MetadataTypeOK
  BY DEF MetadataInit, MetadataTypeOK
<1>3. ASSUME RingInit PROVE RingTypeOK
  <2>1. 0 \in 0..MaxSyncs
    BY RingAssumption
  <2>2. syncing \in BOOLEAN /\ degraded \in BOOLEAN
    BY <1>3, Zenon DEF RingInit
  <2> QED BY <1>3, <2>1, <2>2 DEF RingInit, RingTypeOK
<1> QED BY <1>1, <1>2, <1>3

\* A step that leaves a component alone leaves its types alone.
LEMMA ComponentsUntouched ==
    /\ UNCHANGED storageVars /\ StorageTypeOK => StorageTypeOK'
    /\ UNCHANGED metadataVars /\ MetadataTypeOK => MetadataTypeOK'
    /\ UNCHANGED ringVars /\ RingTypeOK => RingTypeOK'
<1>1. UNCHANGED storageVars /\ StorageTypeOK => StorageTypeOK'
  BY DEF storageVars, StorageTypeOK
<1>2. UNCHANGED metadataVars /\ MetadataTypeOK => MetadataTypeOK'
  BY DEF metadataVars, MetadataTypeOK
<1>3. UNCHANGED ringVars /\ RingTypeOK => RingTypeOK'
  BY DEF ringVars, RingTypeOK
<1> QED BY <1>1, <1>2, <1>3

\* A finished handler leaves at most its own call, with an answer in it.
LEMMA AnsweredType ==
    ASSUME NEW c \in Calls, NEW answer \in {"ok", "failed"}
    PROVE  Answered(c, answer) \subseteq Calls
  BY DEF Answered, Calls

\* Calls stay calls when some of their callers stop waiting.
LEMMA AbandonType ==
    ASSUME calls \in SUBSET Calls, NEW B
    PROVE  Abandon(B) \in SUBSET Calls
<1>1. \A c \in Calls : [c EXCEPT !.live = FALSE] \in Calls
  BY DEF Calls
<1> QED BY <1>1 DEF Abandon

\* The handlers of the nodes and every failure of a call keep the types.
LEMMA StorageTypePreserved ==
    ASSUME StorageTypeOK, StorageNext
    PROVE  StorageTypeOK'
<1> USE DEF StorageTypeOK
<1>0. \A c \in calls : c \in Calls /\ c.node \in Nodes /\ c.hash \in Hashes
                         /\ c.data \in Bytes
  BY DEF Calls
<1>a. ASSUME NEW kind, Fault(kind) PROVE faults' \in 0..MaxFaults
  BY <1>a, ClusterAssumption DEF Fault
<1>b. ASSUME UNCHANGED faults PROVE faults' \in 0..MaxFaults
  BY <1>b
<1>c. ASSUME NEW c \in calls, Handle(c) PROVE UNCHANGED faults
  BY <1>c DEF Handle, SaveCreate, SaveWrite, RemoveFile, RemoveMissing, Refused
<1>d. ASSUME NEW c \in calls, CallFails(c)
      PROVE UNCHANGED faults \/ \E kind : Fault(kind)
  BY <1>d DEF CallFails, SaveWriteFails, Rejected, TimedOut, LateLost
<1>e. ASSUME NEW n \in Nodes, NodeCrash(n) PROVE \E kind : Fault(kind)
  BY <1>e DEF NodeCrash
<1>f. ASSUME NEW n \in Nodes, NodeRestart(n) PROVE UNCHANGED faults
  BY <1>f DEF NodeRestart
<1>1. faults' \in 0..MaxFaults
  BY <1>a, <1>b, <1>c, <1>d, <1>e, <1>f DEF StorageNext, NodeStep
<1>2. ASSUME NEW c \in calls, SaveCreate(c) PROVE StorageTypeOK'
  BY <1>0, <1>1, <1>2 DEF SaveCreate, Calls, Files, Pending
<1>3. ASSUME NEW c \in calls, SaveWrite(c) PROVE StorageTypeOK'
  BY <1>0, <1>1, <1>3, AnsweredType DEF SaveWrite, Files
<1>4. ASSUME NEW c \in calls, SaveWriteFails(c) PROVE StorageTypeOK'
  BY <1>0, <1>1, <1>4, AnsweredType DEF SaveWriteFails, Files, Bytes
<1>5. ASSUME NEW c \in calls, RemoveFile(c) PROVE StorageTypeOK'
  <2>1. disk' \in [Nodes -> [Hashes -> Files]]
    BY <1>0, <1>5 DEF RemoveFile, Files
  <2>2. calls' \in SUBSET Calls
    BY <1>0, <1>5, AnsweredType DEF RemoveFile, Calls, Pending
  <2> QED BY <1>1, <1>5, <2>1, <2>2 DEF RemoveFile
<1>6. ASSUME NEW c \in calls, RemoveMissing(c) \/ Refused(c) \/ Rejected(c) \/ LateLost(c)
      PROVE StorageTypeOK'
  BY <1>0, <1>1, <1>6, AnsweredType DEF RemoveMissing, Refused, Rejected, LateLost
<1>7. ASSUME NEW c \in calls, TimedOut(c) PROVE StorageTypeOK'
  BY <1>0, <1>1, <1>7 DEF TimedOut, Calls
<1>8. ASSUME NEW n \in Nodes, NodeCrash(n) PROVE StorageTypeOK'
  <2>1. disk' \in [Nodes -> [Hashes -> Files]]
    BY <1>8 DEF NodeCrash, Files, Bytes
  <2>2. calls' \in SUBSET Calls
    BY <1>0, <1>8, AnsweredType DEF NodeCrash
  <2> QED BY <1>1, <1>8, <2>1, <2>2 DEF NodeCrash
<1>9. ASSUME NEW n \in Nodes, NodeRestart(n) PROVE StorageTypeOK'
  BY <1>1, <1>9 DEF NodeRestart
<1> QED
  BY <1>2, <1>3, <1>4, <1>5, <1>6, <1>7, <1>8, <1>9
     DEF StorageNext, NodeStep, Handle, CallFails

----------------------------------------------------------------------------
(* Calls, failures and placement.                                          *)

\* A failure leaves the counter of failures within its bound.
LEMMA FaultType ==
    ASSUME faults \in 0..MaxFaults, NEW kind, Fault(kind)
    PROVE  faults' \in 0..MaxFaults
  BY ClusterAssumption DEF Fault

\* New calls are calls.
LEMMA NewCallsType ==
    ASSUME NEW by \in Callers, NEW S \in SUBSET Nodes, NEW h \in Hashes, NEW d \in Bytes
    PROVE  /\ SaveCalls(by, S, h, d) \subseteq Calls
           /\ DeleteCalls(by, S, h) \subseteq Calls
<1>1. ASSUME NEW op \in {"save", "delete"}, NEW n \in S, NEW e \in Bytes
      PROVE  Call(by, op, n, h, e) \in Calls
  BY DEF Call, Calls, Pending
<1>2. "good" \in Bytes
  BY DEF Bytes
<1> QED BY <1>1, <1>2 DEF SaveCalls, DeleteCalls

\* Only nodes that were called can have answered.
LEMMA SucceededType ==
    ASSUME calls \in SUBSET Calls, NEW by
    PROVE  Succeeded(by) \subseteq Nodes
  BY DEF Succeeded, Awaited, Calls

\* Placement picks nodes of the ring.
LEMMA GetNodesType ==
    ASSUME NEW S, NEW h
    PROVE  GetNodes(S, h) \subseteq S
  BY DEF GetNodes, FirstClockwise

----------------------------------------------------------------------------
(* The tables and the ring.                                                *)

\* Every statement keeps the types and only CreateChunk adds chunk rows.
LEMMA MetadataStatements ==
    ASSUME MetadataTypeOK, NEW o \in Objects, NEW i \in AllParts,
           NEW S \in SUBSET Nodes
    PROVE  /\ CreateObject(o) => MetadataTypeOK' /\ chunks' = chunks
           /\ CreateChunk(o, i, S) => MetadataTypeOK' /\ chunks' = [chunks EXCEPT ![o] = @ \cup {i}]
           /\ DeleteObject(o) => MetadataTypeOK' /\ chunks' = [chunks EXCEPT ![o] = {}]
           /\ \A n \in Nodes : AddChunkLocation(o, i, n) \/ RemoveChunkLocation(o, i, n)
                               => MetadataTypeOK' /\ chunks' = chunks
           /\ UNCHANGED metadataVars => MetadataTypeOK' /\ chunks' = chunks
<1>1. CreateObject(o) => MetadataTypeOK' /\ chunks' = chunks
  BY DEF MetadataTypeOK, CreateObject
<1>2. CreateChunk(o, i, S) => MetadataTypeOK' /\ chunks' = [chunks EXCEPT ![o] = @ \cup {i}]
  BY DEF MetadataTypeOK, CreateChunk
<1>3. DeleteObject(o) => MetadataTypeOK' /\ chunks' = [chunks EXCEPT ![o] = {}]
  BY DEF MetadataTypeOK, DeleteObject
<1>4. ASSUME NEW n \in Nodes, AddChunkLocation(o, i, n) PROVE MetadataTypeOK' /\ chunks' = chunks
  BY <1>4 DEF MetadataTypeOK, AddChunkLocation
<1>5. ASSUME NEW n \in Nodes, RemoveChunkLocation(o, i, n) PROVE MetadataTypeOK' /\ chunks' = chunks
  BY <1>5 DEF MetadataTypeOK, RemoveChunkLocation
<1>6. UNCHANGED metadataVars => MetadataTypeOK' /\ chunks' = chunks
  BY DEF MetadataTypeOK, metadataVars
<1> QED BY <1>1, <1>2, <1>3, <1>4, <1>5, <1>6

\* Every step of SyncLoop keeps the types.
LEMMA RingTypePreserved ==
    ASSUME RingTypeOK, SyncStep
    PROVE  RingTypeOK'
<1>1. ASSUME NEW V \in Views, SyncReset(V) PROVE RingTypeOK'
  <2>1. syncs' \in 0..MaxSyncs
    BY <1>1, RingAssumption DEF SyncReset, Rebuild, RingTypeOK
  <2>2. syncing' \in BOOLEAN /\ degraded' \in BOOLEAN
    BY <1>1, Zenon DEF SyncReset, Rebuild, RingTypeOK
  <2> QED BY <1>1, <2>1, <2>2, RingAssumption DEF SyncReset, Rebuild, RingTypeOK
<1>2. ASSUME NEW n \in joining, SyncAdd(n) PROVE RingTypeOK'
  BY <1>2 DEF SyncAdd, RingTypeOK
<1>3. ASSUME SyncDone PROVE RingTypeOK'
  <2>1. syncing' \in BOOLEAN /\ degraded' \in BOOLEAN
    <3>1. syncing' \in BOOLEAN
      BY <1>3, Zenon DEF SyncDone
    <3>2. degraded' \in BOOLEAN
      BY <1>3 DEF SyncDone
    <3> QED BY <3>1, <3>2
  <2> QED BY <1>3, <2>1 DEF SyncDone, RingTypeOK
<1> QED BY <1>1, <1>2, <1>3 DEF SyncStep

\* A ring manager that starts anew is typed.
LEMMA RingRestartType ==
    ASSUME RingTypeOK, RingRestart
    PROVE  RingTypeOK'
<1>1. syncing' \in BOOLEAN /\ degraded' \in BOOLEAN
  BY Zenon DEF RingRestart
<1> QED BY <1>1 DEF RingRestart, RingTypeOK

----------------------------------------------------------------------------
(* What the nodes do to the files of a hash.                               *)

\* Nodes on which file h is good, or truncated by a handler about to write it.
IntactFiles(h) ==
    {n \in Nodes : \/ disk[n][h] = "good"
                   \/ \E c \in calls : c.node = n /\ c.hash = h /\ c.step = "created"}

\* Nobody deletes file h, and whoever writes it writes good bytes.
OnlySaves(h) ==
    \A c \in calls : c.hash = h => c.op = "save" /\ c.data = "good" /\ c.step # "unlinked"

\* A step that costs file h at most one intact copy per failure.
OneLoss(h) ==
    /\ faults' \in Nat /\ faults <= faults'
    /\ \/ IntactFiles(h) \subseteq IntactFiles(h)'
       \/ faults < faults' /\ \E n \in Nodes : IntactFiles(h) \ {n} \subseteq IntactFiles(h)'

\* The nodes answer calls and never make any.
LEMMA StorageOldCalls ==
    ASSUME calls \subseteq Calls, StorageNext
    PROVE  \A c \in calls' : \E b \in calls :
              /\ c.by = b.by /\ c.op = b.op /\ c.node = b.node /\ c.hash = b.hash /\ c.data = b.data
              /\ c.live => b.live
<1>1. ASSUME NEW b \in calls, NEW v
      PROVE  /\ [b EXCEPT !.step = v].by = b.by /\ [b EXCEPT !.step = v].op = b.op
             /\ [b EXCEPT !.step = v].node = b.node /\ [b EXCEPT !.step = v].hash = b.hash
             /\ [b EXCEPT !.step = v].data = b.data /\ [b EXCEPT !.step = v].live = b.live
             /\ [b EXCEPT !.step = v].step = v
  BY DEF Calls
<1>2. ASSUME NEW b \in calls
      PROVE  /\ [b EXCEPT !.live = FALSE].by = b.by /\ [b EXCEPT !.live = FALSE].op = b.op
             /\ [b EXCEPT !.live = FALSE].node = b.node /\ [b EXCEPT !.live = FALSE].hash = b.hash
             /\ [b EXCEPT !.live = FALSE].data = b.data /\ ~[b EXCEPT !.live = FALSE].live
  BY DEF Calls
<1>3. ASSUME NEW c \in calls, Handle(c) \/ CallFails(c), NEW d \in calls'
      PROVE  \/ d \in calls
             \/ \E b \in calls, v \in {"created", "unlinked", "ok", "failed"} : d = [b EXCEPT !.step = v]
             \/ \E b \in calls : d = [b EXCEPT !.live = FALSE]
  BY <1>3 DEF Handle, CallFails, SaveCreate, SaveWrite, SaveWriteFails, RemoveFile, RemoveMissing,
              Refused, Rejected, TimedOut, LateLost, Answered
<1>4. ASSUME NEW n \in Nodes, NodeCrash(n), NEW d \in calls'
      PROVE  d \in calls \/ \E b \in calls : d = [b EXCEPT !.step = "failed"]
  BY <1>4 DEF NodeCrash, Answered
<1>5. ASSUME NEW n \in Nodes, NodeRestart(n) PROVE calls' = calls
  BY <1>5 DEF NodeRestart
<1>6. ASSUME NEW d \in calls'
      PROVE  \/ d \in calls
             \/ \E b \in calls, v \in {"created", "unlinked", "ok", "failed"} : d = [b EXCEPT !.step = v]
             \/ \E b \in calls : d = [b EXCEPT !.live = FALSE]
  BY <1>3, <1>4, <1>5 DEF StorageNext, NodeStep
<1> SUFFICES ASSUME NEW d \in calls'
             PROVE  \E b \in calls :
                       /\ d.by = b.by /\ d.op = b.op /\ d.node = b.node /\ d.hash = b.hash
                       /\ d.data = b.data /\ (d.live => b.live)
  OBVIOUS
<1>7. CASE d \in calls
  BY <1>7
<1>8. ASSUME NEW b \in calls, NEW v \in {"created", "unlinked", "ok", "failed"}, d = [b EXCEPT !.step = v]
      PROVE  /\ d.by = b.by /\ d.op = b.op /\ d.node = b.node /\ d.hash = b.hash
             /\ d.data = b.data /\ (d.live => b.live)
  BY <1>1, <1>8
<1>9. ASSUME NEW b \in calls, d = [b EXCEPT !.live = FALSE]
      PROVE  /\ d.by = b.by /\ d.op = b.op /\ d.node = b.node /\ d.hash = b.hash
             /\ d.data = b.data /\ (d.live => b.live)
  BY <1>2, <1>9
<1> QED BY <1>6, <1>7, <1>8, <1>9

\* A file that is only saved stays a file that is only saved.
LEMMA StorageOnlySaves ==
    ASSUME calls \subseteq Calls, StorageNext, NEW h, OnlySaves(h)
    PROVE  OnlySaves(h)'
<1>1. ASSUME NEW d \in calls', d.hash = h PROVE d.op = "save" /\ d.data = "good"
  BY <1>1, StorageOldCalls DEF OnlySaves
<1>2. ASSUME NEW b \in calls, NEW v
      PROVE  [b EXCEPT !.step = v].step = v /\ [b EXCEPT !.step = v].hash = b.hash
             /\ [b EXCEPT !.live = FALSE].step = b.step /\ [b EXCEPT !.live = FALSE].hash = b.hash
  BY DEF Calls
<1>3. ASSUME NEW d \in calls', d.step = "unlinked", d.hash = h PROVE FALSE
  <2>1. ASSUME NEW b \in calls, NEW v, v # "unlinked", d = [b EXCEPT !.step = v] PROVE FALSE
    BY <1>2, <1>3, <2>1
  <2>2. ASSUME NEW b \in calls, d = [b EXCEPT !.live = FALSE] PROVE d.step = b.step /\ d.hash = b.hash
    BY <1>2, <2>2
  <2>3. d \notin calls
    BY <1>3 DEF OnlySaves
  <2>4. ASSUME NEW c \in calls, RemoveFile(c) PROVE FALSE
    <3>1. c.hash # h
      BY <2>4 DEF RemoveFile, OnlySaves
    <3>2. \/ \E a \in calls : a.hash = c.hash /\ d = [a EXCEPT !.step = "unlinked"]
          \/ d = [c EXCEPT !.step = "ok"]
      BY <2>3, <2>4 DEF RemoveFile, Answered
    <3>3. ASSUME NEW a \in calls, a.hash = c.hash, NEW v, d = [a EXCEPT !.step = v] PROVE d.hash = c.hash
      BY <1>2, <3>3
    <3>4. d.hash = c.hash
      BY <3>2, <3>3
    <3> QED BY <1>3, <3>1, <3>4
  <2>5. ASSUME NEW c \in calls, SaveCreate(c) PROVE FALSE
    BY <2>1, <2>3, <2>5 DEF SaveCreate
  <2>6. ASSUME NEW c \in calls,
               \/ SaveWrite(c) \/ SaveWriteFails(c) \/ RemoveMissing(c)
               \/ Refused(c) \/ Rejected(c) \/ LateLost(c)
        PROVE  FALSE
    <3>1. d = [c EXCEPT !.step = "ok"] \/ d = [c EXCEPT !.step = "failed"]
      BY <2>3, <2>6 DEF SaveWrite, SaveWriteFails, RemoveMissing, Refused, Rejected, LateLost, Answered
    <3> QED BY <2>1, <3>1
  <2>7. ASSUME NEW c \in calls, TimedOut(c) PROVE FALSE
    <3>1. d = [c EXCEPT !.step = "failed"] \/ d = [c EXCEPT !.live = FALSE]
      BY <2>3, <2>7 DEF TimedOut
    <3>2. d # [c EXCEPT !.step = "failed"]
      BY <2>1
    <3> QED BY <1>3, <2>2, <3>1, <3>2 DEF OnlySaves
  <2>8. ASSUME NEW n \in Nodes, NodeCrash(n) PROVE FALSE
    <3>1. \E b \in calls : d = [b EXCEPT !.step = "failed"]
      BY <2>3, <2>8 DEF NodeCrash, Answered
    <3> QED BY <2>1, <3>1
  <2>9. ASSUME NEW n \in Nodes, NodeRestart(n) PROVE FALSE
    BY <2>3, <2>9 DEF NodeRestart
  <2> QED BY <2>4, <2>5, <2>6, <2>7, <2>8, <2>9 DEF StorageNext, NodeStep, Handle, CallFails
<1> QED BY <1>1, <1>3 DEF OnlySaves

\* While file h is only saved a failure costs it one intact copy, and nothing
\* else costs it any.
LEMMA StorageLoss ==
    ASSUME StorageTypeOK, StorageNext, NEW h \in Hashes, OnlySaves(h)
    PROVE  OneLoss(h)
<1>0. /\ disk \in [Nodes -> [Hashes -> Files]] /\ calls \subseteq Calls /\ faults \in Nat
      /\ \A c \in calls : c.node \in Nodes /\ c.hash \in Hashes
  BY DEF StorageTypeOK, Calls
<1>1. ASSUME NEW kind, Fault(kind) PROVE faults' \in Nat /\ faults < faults'
  BY <1>0, <1>1 DEF Fault
<1>2. ASSUME UNCHANGED faults, IntactFiles(h) \subseteq IntactFiles(h)' PROVE OneLoss(h)
  BY <1>0, <1>2 DEF OneLoss
<1>3. ASSUME NEW kind, Fault(kind), NEW n \in Nodes,
             \A m \in Nodes \ {n} : /\ disk'[m][h] = disk[m][h]
                                    /\ \A c \in calls : c.node = m => c \in calls'
      PROVE  OneLoss(h)
  BY <1>0, <1>1, <1>3 DEF OneLoss, IntactFiles
<1>4. ASSUME NEW c \in calls, SaveCreate(c) PROVE OneLoss(h)
  <2>1. [c EXCEPT !.step = "created"] \in calls'
        /\ [c EXCEPT !.step = "created"].node = c.node /\ [c EXCEPT !.step = "created"].hash = c.hash
        /\ [c EXCEPT !.step = "created"].step = "created"
    BY <1>0, <1>4 DEF SaveCreate, Calls
  <2>2. \A a \in calls : a.step = "created" => a \in calls'
    BY <1>4 DEF SaveCreate
  <2>3. \A m \in Nodes : disk'[m][h] = disk[m][h] \/ (m = c.node /\ h = c.hash)
    BY <1>0, <1>4 DEF SaveCreate
  <2>4. IntactFiles(h) \subseteq IntactFiles(h)'
    BY <2>1, <2>2, <2>3 DEF IntactFiles
  <2> QED BY <1>2, <1>4, <2>4 DEF SaveCreate
<1>5. ASSUME NEW c \in calls, SaveWrite(c) PROVE OneLoss(h)
  <2>1. c.hash = h => c.data = "good" /\ c.step = "created"
    BY <1>5 DEF OnlySaves, SaveWrite
  <2>2. \A m \in Nodes : \/ disk'[m][h] = disk[m][h] /\ ~(m = c.node /\ h = c.hash)
                         \/ disk'[m][h] = "good"
    BY <1>0, <1>5, <2>1 DEF SaveWrite
  <2>3. \A a \in calls : a = c \/ a \in calls'
    BY <1>5 DEF SaveWrite
  <2>4. IntactFiles(h) \subseteq IntactFiles(h)'
    BY <2>2, <2>3 DEF IntactFiles
  <2> QED BY <1>2, <1>5, <2>4 DEF SaveWrite
<1>6. ASSUME NEW c \in calls, SaveWriteFails(c) PROVE OneLoss(h)
  <2>1. \A m \in Nodes \ {c.node} : disk'[m][h] = disk[m][h]
    BY <1>0, <1>6 DEF SaveWriteFails
  <2>2. \A a \in calls : a.node # c.node => a \in calls'
    BY <1>6 DEF SaveWriteFails
  <2> QED BY <1>0, <1>3, <1>6, <2>1, <2>2 DEF SaveWriteFails
<1>7. ASSUME NEW c \in calls, RemoveFile(c) PROVE OneLoss(h)
  <2>1. c.hash # h
    BY <1>7 DEF RemoveFile, OnlySaves
  <2>2. \A m \in Nodes : disk'[m][h] = disk[m][h]
    BY <1>0, <1>7, <2>1 DEF RemoveFile
  <2>3. \A a \in calls : a.hash = h => a \in calls'
    BY <1>7, <2>1 DEF RemoveFile
  <2>4. IntactFiles(h) \subseteq IntactFiles(h)'
    BY <2>2, <2>3 DEF IntactFiles
  <2> QED BY <1>2, <1>7, <2>4 DEF RemoveFile
<1>8. ASSUME NEW c \in calls, RemoveMissing(c) \/ Refused(c) \/ LateLost(c) PROVE OneLoss(h)
  <2>1. c.step # "created" /\ disk' = disk /\ \A a \in calls : a = c \/ a \in calls'
    BY <1>8 DEF RemoveMissing, Refused, LateLost
  <2>2. IntactFiles(h) \subseteq IntactFiles(h)'
    BY <2>1 DEF IntactFiles
  <2> QED BY <1>2, <1>8, <2>2 DEF RemoveMissing, Refused, LateLost
<1>9. ASSUME NEW c \in calls, Rejected(c) \/ TimedOut(c) PROVE OneLoss(h)
  <2>1. disk' = disk /\ \A a \in calls : a.node # c.node => a \in calls'
    BY <1>9 DEF Rejected, TimedOut
  <2> QED BY <1>0, <1>3, <1>9, <2>1 DEF Rejected, TimedOut
<1>10. ASSUME NEW n \in Nodes, NodeCrash(n) PROVE OneLoss(h)
  <2>1. \A m \in Nodes \ {n} : disk'[m][h] = disk[m][h]
    BY <1>0, <1>10 DEF NodeCrash
  <2>2. \A a \in calls : a.node # n => a \in calls'
    BY <1>10 DEF NodeCrash
  <2> QED BY <1>3, <1>10, <2>1, <2>2 DEF NodeCrash
<1>11. ASSUME NEW n \in Nodes, NodeRestart(n) PROVE OneLoss(h)
  BY <1>2, <1>11 DEF NodeRestart, IntactFiles
<1> QED BY <1>4, <1>5, <1>6, <1>7, <1>8, <1>9, <1>10, <1>11
        DEF StorageNext, NodeStep, Handle, CallFails

\* A SaveChunk that a node confirms leaves an intact file there.
LEMMA StorageConfirms ==
    ASSUME StorageTypeOK, StorageNext, NEW h \in Hashes, OnlySaves(h),
           NEW d \in calls', d \notin calls, d.hash = h, d.step = "ok"
    PROVE  d.node \in IntactFiles(h)'
<1>0. /\ disk \in [Nodes -> [Hashes -> Files]] /\ calls \subseteq Calls
      /\ \A c \in calls : c.node \in Nodes /\ c.hash \in Hashes
  BY DEF StorageTypeOK, Calls
<1>1. ASSUME NEW b \in calls, NEW v
      PROVE  /\ [b EXCEPT !.step = v].step = v /\ [b EXCEPT !.step = v].hash = b.hash
             /\ [b EXCEPT !.step = v].node = b.node
             /\ [b EXCEPT !.live = FALSE].step = b.step
  BY <1>0 DEF Calls
<1>2. ASSUME NEW b \in calls, NEW v, v # "ok", d = [b EXCEPT !.step = v] PROVE FALSE
  BY <1>1, <1>2
<1>3. ASSUME NEW c \in calls, SaveWrite(c) PROVE d.node \in IntactFiles(h)'
  <2>1. d = [c EXCEPT !.step = "ok"]
    BY <1>3 DEF SaveWrite, Answered
  <2>2. d.hash = c.hash /\ d.node = c.node
    BY <1>1, <2>1
  <2>3. c.data = "good" /\ c.step = "created"
    BY <1>3, <2>2 DEF OnlySaves, SaveWrite
  <2>4. disk'[c.node][h] = "good"
    BY <1>0, <1>3, <2>2, <2>3 DEF SaveWrite
  <2> QED BY <1>0, <2>2, <2>4 DEF IntactFiles
<1>4. ASSUME NEW c \in calls, SaveCreate(c) PROVE FALSE
  BY <1>2, <1>4 DEF SaveCreate
<1>5. ASSUME NEW c \in calls,
             SaveWriteFails(c) \/ RemoveMissing(c) \/ Refused(c) \/ Rejected(c) \/ LateLost(c)
      PROVE  FALSE
  BY <1>2, <1>5 DEF SaveWriteFails, RemoveMissing, Refused, Rejected, LateLost, Answered
<1>6. ASSUME NEW c \in calls, TimedOut(c) PROVE FALSE
  <2>1. d = [c EXCEPT !.step = "failed"] \/ d = [c EXCEPT !.live = FALSE]
    BY <1>6 DEF TimedOut
  <2>2. d = [c EXCEPT !.live = FALSE]
    BY <1>2, <2>1
  <2>3. d.step = c.step
    BY <1>1, <2>2
  <2> QED BY <1>6, <2>3 DEF TimedOut, Pending
<1>7. ASSUME NEW c \in calls, RemoveFile(c) PROVE FALSE
  <2>1. c.hash # h
    BY <1>7 DEF RemoveFile, OnlySaves
  <2>2. \/ \E a \in calls : d = [a EXCEPT !.step = "unlinked"]
        \/ d = [c EXCEPT !.step = "ok"]
    BY <1>7 DEF RemoveFile, Answered
  <2>3. d = [c EXCEPT !.step = "ok"]
    BY <1>2, <2>2
  <2> QED BY <1>1, <2>1, <2>3
<1>8. ASSUME NEW n \in Nodes, NodeCrash(n) PROVE FALSE
  <2>1. \E b \in calls : d = [b EXCEPT !.step = "failed"]
    BY <1>8 DEF NodeCrash, Answered
  <2> QED BY <1>2, <2>1
<1>9. ASSUME NEW n \in Nodes, NodeRestart(n) PROVE FALSE
  BY <1>9 DEF NodeRestart
<1> QED BY <1>3, <1>4, <1>5, <1>6, <1>7, <1>8, <1>9 DEF StorageNext, NodeStep, Handle, CallFails

\* What a group of goroutines has been told: nothing new but what is true.
LEMMA StorageSucceeded ==
    ASSUME StorageTypeOK, StorageNext, NEW h \in Hashes, OnlySaves(h),
           NEW by, \A c \in calls : c.by = by => c.hash = h
    PROVE  Succeeded(by)' \subseteq Succeeded(by) \cup IntactFiles(h)'
<1>1. calls \subseteq Calls
  BY DEF StorageTypeOK
<1>2. ASSUME NEW d \in calls', d.by = by, d.live, d.step = "ok"
      PROVE  d.node \in Succeeded(by) \cup IntactFiles(h)'
  <2>1. d.hash = h
    BY <1>1, <1>2, StorageOldCalls
  <2>2. CASE d \in calls
    BY <1>2, <2>2 DEF Succeeded, Awaited
  <2>3. CASE d \notin calls
    BY <1>2, <2>1, <2>3, StorageConfirms
  <2> QED BY <2>2, <2>3
<1> QED BY <1>2 DEF Succeeded, Awaited

----------------------------------------------------------------------------
(* Counting copies.                                                        *)

\* No more nodes of S have lost file h than there have been failures.
FewLost(S, h) == Cardinality(S \ IntactFiles(h)) <= faults

\* A step that costs at most one copy per failure keeps a set of replicas
\* that many; new ones may join the set while their files are intact.
LEMMA FewLostKept ==
    ASSUME NEW h, OneLoss(h), faults \in Nat,
           NEW S \in SUBSET Nodes, NEW T \in SUBSET Nodes, FewLost(S, h),
           T \subseteq S \cup IntactFiles(h)'
    PROVE  Cardinality(T \ IntactFiles(h)') <= faults'
<1>1. IsFiniteSet(S \ IntactFiles(h)) /\ Cardinality(S \ IntactFiles(h)) \in Nat
  BY ClusterAssumption, FS_Subset, FS_CardinalityType
<1>2. CASE IntactFiles(h) \subseteq IntactFiles(h)'
  <2>1. T \ IntactFiles(h)' \subseteq S \ IntactFiles(h)
    BY <1>2
  <2>2. Cardinality(T \ IntactFiles(h)') <= Cardinality(S \ IntactFiles(h))
        /\ Cardinality(T \ IntactFiles(h)') \in Nat
    BY <1>1, <2>1, FS_Subset, FS_CardinalityType
  <2> QED BY <1>1, <2>2 DEF FewLost, OneLoss
<1>3. ASSUME faults < faults', NEW n \in Nodes, IntactFiles(h) \ {n} \subseteq IntactFiles(h)'
      PROVE  Cardinality(T \ IntactFiles(h)') <= faults'
  <2>1. T \ IntactFiles(h)' \subseteq (S \ IntactFiles(h)) \cup {n}
    BY <1>3
  <2>2. /\ IsFiniteSet((S \ IntactFiles(h)) \cup {n})
        /\ Cardinality((S \ IntactFiles(h)) \cup {n}) \in Nat
        /\ Cardinality((S \ IntactFiles(h)) \cup {n}) <= Cardinality(S \ IntactFiles(h)) + 1
    BY <1>1, FS_AddElement, FS_CardinalityType
  <2>3. Cardinality(T \ IntactFiles(h)') <= Cardinality((S \ IntactFiles(h)) \cup {n})
        /\ Cardinality(T \ IntactFiles(h)') \in Nat
    BY <2>1, <2>2, FS_Subset, FS_CardinalityType
  <2> QED BY <1>1, <1>3, <2>2, <2>3 DEF FewLost, OneLoss
<1> QED BY <1>2, <1>3 DEF OneLoss

\* Of a quorum at least so many are intact.
LEMMA QuorumLeft ==
    ASSUME NEW h, faults \in Nat, NEW S \in SUBSET Nodes, FewLost(S, h), Cardinality(S) >= Quorum
    PROVE  Cardinality(S \cap IntactFiles(h)) + faults >= Quorum
<1>1. IsFiniteSet(S) /\ Cardinality(S) \in Nat
  BY ClusterAssumption, FS_Subset, FS_CardinalityType
<1>2. /\ Cardinality(S \ IntactFiles(h)) = Cardinality(S) - Cardinality(S \cap IntactFiles(h))
      /\ IsFiniteSet(S \cap IntactFiles(h)) /\ Cardinality(S \cap IntactFiles(h)) \in Nat
  BY <1>1, FS_Difference, FS_Intersection, FS_CardinalityType
<1>3. Quorum \in Nat
  BY ClusterAssumption DEF Quorum
<1> QED BY <1>1, <1>2, <1>3 DEF FewLost

----------------------------------------------------------------------------
(* What the gateway does to the files of a hash: nothing.                  *)

\* Files stay, and so do the handlers that have one open.
OpenKept ==
    /\ disk' = disk
    /\ \A c \in calls : c.step = "created" =>
         \E d \in calls' : d.node = c.node /\ d.hash = c.hash /\ d.step = "created"

\* A step of the gateway costs no file, whatever fails in it.
LEMMA GatewayLoss ==
    ASSUME faults \in Nat, OpenKept, UNCHANGED faults \/ \E kind : Fault(kind), NEW h
    PROVE  OneLoss(h)
<1>1. faults' \in Nat /\ faults <= faults'
  BY DEF Fault
<1>2. IntactFiles(h) \subseteq IntactFiles(h)'
  BY DEF OpenKept, IntactFiles
<1> QED BY <1>1, <1>2 DEF OneLoss

\* A group of goroutines collects answers, of which an open handler has none.
LEMMA CollectedOpen ==
    ASSUME NEW by, AllAnswered(by), NEW c \in calls, c.step = "created"
    PROVE  c \notin Awaited(by)
  BY DEF AllAnswered, Pending

\* The calls of goroutines that stop waiting are at the nodes as before.
LEMMA AbandonedCalls ==
    ASSUME calls \subseteq Calls, NEW B
    PROVE  /\ \A c \in calls : c.step = "created" =>
                \E d \in Abandon(B) : d.node = c.node /\ d.hash = c.hash /\ d.step = "created"
           /\ \A d \in Abandon(B) : \E b \in calls :
                /\ d.by = b.by /\ d.op = b.op /\ d.node = b.node /\ d.hash = b.hash
                /\ d.data = b.data /\ d.step = b.step
                /\ d.live => d = b /\ b.by \notin B
<1>1. ASSUME NEW b \in calls
      PROVE  LET d == [b EXCEPT !.live = FALSE]
             IN  /\ d.by = b.by /\ d.op = b.op /\ d.node = b.node /\ d.hash = b.hash
                 /\ d.data = b.data /\ d.step = b.step /\ ~d.live
  BY DEF Calls
<1>2. ASSUME NEW c \in calls, c.step = "created"
      PROVE  \E d \in Abandon(B) : d.node = c.node /\ d.hash = c.hash /\ d.step = "created"
  <2>1. CASE c.by \notin B \/ ~c.live
    BY <1>2, <2>1 DEF Abandon
  <2>2. CASE c.by \in B /\ c.live
    <3>1. [c EXCEPT !.live = FALSE] \in Abandon(B)
      BY <1>2, <2>2 DEF Abandon, Pending
    <3> QED BY <1>1, <1>2, <3>1
  <2> QED BY <2>1, <2>2
<1>3. ASSUME NEW d \in Abandon(B)
      PROVE  \E b \in calls :
                /\ d.by = b.by /\ d.op = b.op /\ d.node = b.node /\ d.hash = b.hash
                /\ d.data = b.data /\ d.step = b.step
                /\ d.live => d = b /\ b.by \notin B
  <2>1. CASE d \in calls /\ (d.by \notin B \/ ~d.live)
    BY <2>1
  <2>2. ASSUME NEW b \in calls, d = [b EXCEPT !.live = FALSE]
        PROVE  /\ d.by = b.by /\ d.op = b.op /\ d.node = b.node /\ d.hash = b.hash
               /\ d.data = b.data /\ d.step = b.step /\ ~d.live
    BY <1>1, <2>2
  <2>3. (d \in calls /\ (d.by \notin B \/ ~d.live)) \/ \E b \in calls : d = [b EXCEPT !.live = FALSE]
    BY DEF Abandon
  <2>4. CASE \E b \in calls : d = [b EXCEPT !.live = FALSE]
    BY <2>2, <2>4
  <2> QED BY <2>1, <2>3, <2>4
<1> QED BY <1>2, <1>3

----------------------------------------------------------------------------
(* The nodes while nothing fails.                                          *)

\* Without a failure a node handles a call, drops one nobody waits for, or
\* is started again.
LEMMA FaultlessSteps ==
    ASSUME StorageTypeOK, StorageNext, UNCHANGED faults
    PROVE  \/ \E c \in calls : Handle(c) \/ LateLost(c)
           \/ \E n \in Nodes : NodeRestart(n)
<1>1. faults \in Nat
  BY DEF StorageTypeOK
<1>2. \A kind : ~Fault(kind)
  BY <1>1 DEF Fault
<1>3. \A c \in calls : ~(SaveWriteFails(c) \/ Rejected(c) \/ TimedOut(c))
  BY <1>2 DEF SaveWriteFails, Rejected, TimedOut
<1>4. \A n \in Nodes : ~NodeCrash(n)
  BY <1>2 DEF NodeCrash
<1> QED BY <1>3, <1>4 DEF StorageNext, NodeStep, CallFails

\* Then a call changes in nothing but how far its handler went.
LEMMA FaultlessCalls ==
    ASSUME StorageTypeOK, StorageNext, UNCHANGED faults, NEW d \in calls'
    PROVE  \E b \in calls :
              /\ d.by = b.by /\ d.op = b.op /\ d.node = b.node /\ d.hash = b.hash
              /\ d.data = b.data /\ d.live = b.live
<1>1. ASSUME NEW b \in calls, NEW v, d = [b EXCEPT !.step = v]
      PROVE  /\ d.by = b.by /\ d.op = b.op /\ d.node = b.node /\ d.hash = b.hash
             /\ d.data = b.data /\ d.live = b.live
  BY <1>1 DEF StorageTypeOK, Calls
<1>2. ASSUME NEW c \in calls, Handle(c) \/ LateLost(c)
      PROVE  d \in calls \/ \E b \in calls, v \in {"created", "unlinked", "ok", "failed"} :
                              d = [b EXCEPT !.step = v]
  BY <1>2 DEF Handle, SaveCreate, SaveWrite, RemoveFile, RemoveMissing, Refused, LateLost, Answered
<1>3. ASSUME NEW n \in Nodes, NodeRestart(n) PROVE d \in calls
  BY <1>3 DEF NodeRestart
<1>4. d \in calls \/ \E b \in calls, v \in {"created", "unlinked", "ok", "failed"} :
                       d = [b EXCEPT !.step = v]
  BY <1>2, <1>3, FaultlessSteps
<1> QED BY <1>1, <1>4

\* The calls for file h.
CallsFor(h) == {c \in calls : c.hash = h}

\* All of them are awaited, no two are at one node, and each is a save of
\* good bytes or a delete that has met no handler with the file open.
Orderly(h) ==
    \A c \in CallsFor(h) :
        /\ c.live
        /\ \A d \in CallsFor(h) : c.node = d.node => c = d
        /\ c.op = "save" => c.data = "good" /\ c.step # "unlinked"
        /\ c.op = "delete" => c.step \notin {"created", "unlinked"}

\* One call of file h goes a step further, at its node only.
CallMoves(h, c, d) ==
    /\ c \in CallsFor(h) /\ CallsFor(h)' = (CallsFor(h) \ {c}) \cup {d}
    /\ d.by = c.by /\ d.op = c.op /\ d.node = c.node /\ d.hash = c.hash
    /\ d.data = c.data /\ d.live = c.live
    /\ d.step \in {"created", "ok", "failed"}
    /\ c.op = "delete" => d.step # "created"
    /\ c.op = "save" /\ d.step = "ok" => disk'[c.node][h] = "good"
    /\ \A n \in Nodes \ {c.node} : disk'[n][h] = disk[n][h]

\* While nothing fails, the nodes leave file h and its calls alone or take
\* one of the calls a step further.
LEMMA StorageMoves ==
    ASSUME StorageTypeOK, StorageNext, UNCHANGED faults, NEW h \in Hashes, Orderly(h)
    PROVE  \/ CallsFor(h)' = CallsFor(h) /\ \A n \in Nodes : disk'[n][h] = disk[n][h]
           \/ \E c \in calls, d \in calls' : CallMoves(h, c, d)
<1>0. /\ disk \in [Nodes -> [Hashes -> Files]] /\ calls \subseteq Calls
      /\ \A c \in calls : c.node \in Nodes /\ c.hash \in Hashes /\ c.op \in {"save", "delete"}
  BY DEF StorageTypeOK, Calls
<1>1. ASSUME NEW b \in calls, NEW v
      PROVE  /\ [b EXCEPT !.step = v].by = b.by /\ [b EXCEPT !.step = v].op = b.op
             /\ [b EXCEPT !.step = v].node = b.node /\ [b EXCEPT !.step = v].hash = b.hash
             /\ [b EXCEPT !.step = v].data = b.data /\ [b EXCEPT !.step = v].live = b.live
             /\ [b EXCEPT !.step = v].step = v
  BY <1>0 DEF Calls
<1> DEFINE Same == CallsFor(h)' = CallsFor(h) /\ \A n \in Nodes : disk'[n][h] = disk[n][h]
           Moves == \E c \in calls, d \in calls' : CallMoves(h, c, d)
<1>2. ASSUME NEW c \in calls, c.hash = h, NEW v \in {"created", "ok", "failed"},
             calls' = (calls \ {c}) \cup {[c EXCEPT !.step = v]},
             c.op = "delete" => v # "created",
             c.op = "save" /\ v = "ok" => disk'[c.node][h] = "good",
             \A n \in Nodes \ {c.node} : disk'[n][h] = disk[n][h]
      PROVE  Moves
  <2> DEFINE d == [c EXCEPT !.step = v]
  <2>0. d.hash = h
    BY <1>1, <1>2
  <2> HIDE DEF d
  <2>1. CallsFor(h)' = (CallsFor(h) \ {c}) \cup {d}
    BY <1>2, <2>0 DEF CallsFor, d
  <2>2. d \in calls'
    BY <1>2 DEF d
  <2>3. CallMoves(h, c, d)
    BY <1>1, <1>2, <2>1 DEF CallMoves, CallsFor, d
  <2> QED BY <2>2, <2>3
<1>3. ASSUME NEW c \in calls, c.hash # h, \A d \in calls' \ calls : d.hash # h,
             \A b \in calls \ calls' : b.hash # h,
             \A n \in Nodes : disk'[n][h] = disk[n][h]
      PROVE  Same
  BY <1>3 DEF CallsFor
<1>a. ASSUME NEW c \in calls, c.hash # h, NEW v, NEW d, d = [c EXCEPT !.step = v] PROVE d.hash # h
  BY <1>1, <1>a
<1>4. \A v : \A c \in CallsFor(h) : Answered(c, v) = {[c EXCEPT !.step = v]}
  BY DEF Answered, Orderly
<1>5. ASSUME NEW c \in calls, SaveCreate(c) PROVE Same \/ Moves
  <2>1. CASE c.hash = h
    <3>1. \A n \in Nodes \ {c.node} : disk'[n][h] = disk[n][h]
      BY <1>0, <1>5 DEF SaveCreate
    <3> QED BY <1>2, <1>5, <2>1, <3>1 DEF SaveCreate
  <2>2. CASE c.hash # h
    <3>1. \A n \in Nodes : disk'[n][h] = disk[n][h]
      BY <1>0, <1>5, <2>2 DEF SaveCreate
    <3>2. \A d \in calls' \ calls : d.hash # h
      <4>1. \A d \in calls' \ calls : d = [c EXCEPT !.step = "created"]
        BY <1>5 DEF SaveCreate
      <4> QED BY <1>a, <2>2, <4>1
    <3> QED BY <1>3, <1>5, <2>2, <3>1, <3>2 DEF SaveCreate
  <2> QED BY <2>1, <2>2
<1>6. ASSUME NEW c \in calls, SaveWrite(c) PROVE Same \/ Moves
  <2>1. CASE c.hash = h
    <3>1. c \in CallsFor(h)
      BY <2>1 DEF CallsFor
    <3>2. c.op = "save" /\ c.step = "created" /\ c.data = "good"
      BY <1>0, <1>6, <3>1 DEF SaveWrite, Orderly
    <3>3. disk'[c.node][h] = "good" /\ \A n \in Nodes \ {c.node} : disk'[n][h] = disk[n][h]
      BY <1>0, <1>6, <2>1, <3>2 DEF SaveWrite
    <3>4. calls' = (calls \ {c}) \cup {[c EXCEPT !.step = "ok"]}
      BY <1>4, <1>6, <3>1 DEF SaveWrite
    <3> QED BY <1>2, <2>1, <3>2, <3>3, <3>4
  <2>2. CASE c.hash # h
    <3>1. \A n \in Nodes : disk'[n][h] = disk[n][h]
      BY <1>0, <1>6, <2>2 DEF SaveWrite
    <3>2. \A d \in calls' \ calls : d = [c EXCEPT !.step = "ok"]
      BY <1>6 DEF SaveWrite, Answered
    <3>3. \A d \in calls' \ calls : d.hash # h
      BY <1>a, <2>2, <3>2
    <3> QED BY <1>3, <1>6, <2>2, <3>1, <3>3 DEF SaveWrite
  <2> QED BY <2>1, <2>2
<1>7. ASSUME NEW c \in calls, RemoveFile(c) PROVE Same \/ Moves
  <2> DEFINE open == {a \in calls : a.node = c.node /\ a.hash = c.hash /\ a.step = "created"}
  <2>1. calls' = (calls \ (open \cup {c})) \cup {[a EXCEPT !.step = "unlinked"] : a \in open}
                   \cup Answered(c, "ok")
    BY <1>7 DEF RemoveFile
  <2>2. CASE c.hash = h
    <3>1. c \in CallsFor(h) /\ c.step = "sent" /\ c.op = "delete"
      BY <1>7, <2>2 DEF CallsFor, RemoveFile
    <3>2. ASSUME NEW a \in open PROVE FALSE
      <4>1. a \in CallsFor(h) /\ a.node = c.node /\ a.step = "created"
        BY <2>2 DEF CallsFor
      <4> QED BY <3>1, <4>1 DEF Orderly
    <3>3. calls' = (calls \ {c}) \cup {[c EXCEPT !.step = "ok"]}
      BY <1>4, <2>1, <3>1, <3>2
    <3>4. \A n \in Nodes \ {c.node} : disk'[n][h] = disk[n][h]
      BY <1>0, <1>7 DEF RemoveFile
    <3> QED BY <1>2, <2>2, <3>1, <3>3, <3>4
  <2>3. CASE c.hash # h
    <3>1. \A n \in Nodes : disk'[n][h] = disk[n][h]
      BY <1>0, <1>7, <2>3 DEF RemoveFile
    <3>2. \A d \in calls' \ calls : d.hash # h
      <4>1. ASSUME NEW d \in calls' \ calls PROVE d.hash # h
        <5>1. \/ \E a \in open : d = [a EXCEPT !.step = "unlinked"]
              \/ d = [c EXCEPT !.step = "ok"]
          BY <2>1, <4>1 DEF Answered
        <5>2. ASSUME NEW a \in open, d = [a EXCEPT !.step = "unlinked"] PROVE d.hash = c.hash
          BY <1>1, <5>2
        <5>3. d = [c EXCEPT !.step = "ok"] => d.hash = c.hash
          BY <1>1
        <5> QED BY <2>3, <5>1, <5>2, <5>3
      <4> QED BY <4>1
    <3>3. \A b \in calls \ calls' : b.hash # h
      BY <2>1, <2>3
    <3> QED BY <1>3, <2>3, <3>1, <3>2, <3>3
  <2> QED BY <2>2, <2>3
<1>8. ASSUME NEW c \in calls, RemoveMissing(c) \/ Refused(c) PROVE Same \/ Moves
  <2>1. calls' = (calls \ {c}) \cup Answered(c, "failed") /\ disk' = disk
    BY <1>8 DEF RemoveMissing, Refused
  <2>2. CASE c.hash = h
    <3>1. calls' = (calls \ {c}) \cup {[c EXCEPT !.step = "failed"]}
      BY <1>4, <2>1, <2>2 DEF CallsFor
    <3> QED BY <1>2, <2>1, <2>2, <3>1
  <2>3. CASE c.hash # h
    <3>1. \A d \in calls' \ calls : d = [c EXCEPT !.step = "failed"]
      BY <2>1 DEF Answered
    <3>2. \A d \in calls' \ calls : d.hash # h
      BY <1>a, <2>3, <3>1
    <3> QED BY <1>3, <2>1, <2>3, <3>2
  <2> QED BY <2>2, <2>3
<1>9. ASSUME NEW c \in calls, LateLost(c) PROVE Same
  <2>1. c.hash # h
    BY <1>9 DEF LateLost, Orderly, CallsFor
  <2> QED BY <1>3, <1>9, <2>1 DEF LateLost
<1>10. ASSUME NEW n \in Nodes, NodeRestart(n) PROVE Same
  BY <1>10 DEF NodeRestart, CallsFor
<1> QED BY <1>5, <1>6, <1>7, <1>8, <1>9, <1>10, FaultlessSteps DEF Handle
=============================================================================
