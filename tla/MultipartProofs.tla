-------------------------- MODULE MultipartProofs --------------------------
(***************************************************************************)
(* Theorems about Multipart for every number of parts, nodes, Complete     *)
(* requests, resends and failures.                                         *)
(***************************************************************************)
EXTENDS Multipart, ComponentProofs

\* Under way: the statements of the transaction are being executed.
UnderWay(o) == complete[o] \in {"found", "sized", "copied"}
Copied(o) == {i \in AllParts : copied[o][i] # {}}

\* The life of the upload row and what it says of the other tables.
SessionInv ==
    /\ session = "none" => acked = {} /\ \A o \in Objects : complete[o] = "idle"
    /\ session = "open" => acked \subseteq partRows
    /\ session # "open" => partRows = {}
    /\ session # "gone" => \A o \in Objects : objects[o] = "none"

\* Part rows have locations.
PartInv == \A i \in AllParts :
    /\ partNodes[i] # {} <=> i \in partRows
    /\ sending[i] = "stored" => stored[i] # {}

\* What a transaction has read so far is complete, or the upload is gone.
CompleteInv(o) ==
    /\ complete[o] = "idle" \/ UnderWay(o) => objects[o] = "none"
    /\ UnderWay(o) => promised[o] \subseteq acked
    /\ complete[o] = "sized" /\ session = "open" => size[o] \subseteq partRows
    /\ complete[o] = "copied" => \/ promised[o] \cup size[o] \subseteq Copied(o)
                                 \/ Copied(o) = {} /\ session = "gone"

MultipartInv ==
    /\ TypeOK /\ SessionInv /\ PartInv
    /\ \A o \in Objects : CompleteInv(o)
    /\ CompletedSomewhere /\ WholeOrEmpty

----------------------------------------------------------------------------
(* Typing.                                                                 *)

\* A step of the nodes, the sync loop or nobody.
LEMMA EnvironmentTyped ==
    ASSUME TypeOK, Storage \/ Sync \/ UNCHANGED vars
    PROVE  TypeOK'
<1>1. RequestTypeOK'
  BY DEF TypeOK, RequestTypeOK, Storage, Sync, vars, partVars, completeVars
<1>2. StorageTypeOK' /\ MetadataTypeOK' /\ RingTypeOK'
  BY ComponentsUntouched, StorageTypePreserved, RingTypePreserved
     DEF TypeOK, Storage, Sync, vars
<1> QED BY <1>1, <1>2 DEF TypeOK

\* A step of a request for a part.
LEMMA PartTyped ==
    ASSUME TypeOK, NEW i \in AllParts, UploadPart(i)
    PROVE  TypeOK'
<1>0. StorageTypeOK /\ MetadataTypeOK /\ RingTypeOK /\ RequestTypeOK
  BY DEF TypeOK
<1>1. PartCaller(i) \in Callers /\ PartHash[i] \in Hashes /\ "good" \in Bytes
  BY MultipartAssumption DEF PartCaller, Callers, Bytes
<1>2. CASE SendPart(i)
  <2>1. GetNodes(ring, PartHash[i]) \in SUBSET Nodes
    BY <1>0, GetNodesType DEF RingTypeOK
  <2>2. SaveCalls(PartCaller(i), GetNodes(ring, PartHash[i]), PartHash[i], "good") \subseteq Calls
    BY <1>1, <2>1, NewCallsType
  <2>3. StorageTypeOK'
    BY <1>0, <1>2, <2>2 DEF SendPart, StorageTypeOK
  <2>4. RequestTypeOK'
    BY <1>0, <1>2, MultipartAssumption DEF SendPart, RequestTypeOK, completeVars
  <2> QED BY <1>0, <1>2, <2>3, <2>4, ComponentsUntouched DEF TypeOK, SendPart
<1>3. CASE SettlePart(i)
  <2>1. Succeeded(PartCaller(i)) \in SUBSET Nodes
    BY <1>0, SucceededType DEF StorageTypeOK
  <2>2. StorageTypeOK'
    BY <1>0, <1>3 DEF SettlePart, StorageTypeOK
  <2>3. RequestTypeOK'
    BY <1>0, <1>3, <2>1 DEF SettlePart, RequestTypeOK, completeVars
  <2> QED BY <1>0, <1>3, <2>2, <2>3, ComponentsUntouched DEF TypeOK, SettlePart
<1>4. CASE RecordPart(i) \/ RecordPartFails(i)
  <2>1. ASSUME CreateMultipartChunk(i)
        PROVE  partRows' \in SUBSET AllParts /\ partNodes' \in [AllParts -> SUBSET Nodes]
    BY <1>0, <2>1 DEF CreateMultipartChunk, RequestTypeOK
  <2>2. /\ sending' \in [AllParts -> {"idle", "saving", "stored", "ok", "failed"}]
        /\ stored' \in [AllParts -> SUBSET Nodes] /\ acked' \in SUBSET AllParts
        /\ UNCHANGED <<session, sends, completeVars>>
        /\ CreateMultipartChunk(i) \/ UNCHANGED <<partRows, partNodes>>
    BY <1>0, <1>4 DEF RecordPart, RecordPartFails, RequestTypeOK
  <2>3. RequestTypeOK'
    BY <1>0, <2>1, <2>2 DEF RequestTypeOK, completeVars
  <2>4. StorageTypeOK'
    BY <1>0, <1>4, FaultType DEF RecordPart, RecordPartFails, StorageTypeOK, storageVars
  <2>5. UNCHANGED <<metadataVars, ringVars>>
    BY <1>4 DEF RecordPart, RecordPartFails
  <2> QED BY <1>0, <2>3, <2>4, <2>5, ComponentsUntouched DEF TypeOK
<1> QED BY <1>2, <1>3, <1>4 DEF UploadPart

\* The upload becomes an object: the tables stay typed.
LEMMA PublishTyped ==
    ASSUME MetadataTypeOK, RequestTypeOK, NEW o \in Objects, Publish(o)
    PROVE  /\ MetadataTypeOK'
           /\ session' = "gone" /\ partRows' = {} /\ partNodes' = NoParts
           /\ partNodes' \in [AllParts -> SUBSET Nodes]
  BY DEF Publish, MetadataTypeOK, RequestTypeOK, NoParts

\* A step of a Complete request.
LEMMA CompleteTyped ==
    ASSUME TypeOK, NEW o \in Objects, CompleteMultipart(o)
    PROVE  TypeOK'
<1>0. StorageTypeOK /\ MetadataTypeOK /\ RingTypeOK /\ RequestTypeOK
  BY DEF TypeOK
<1>1. CASE CompleteFind(o) \/ CompleteSize(o) \/ CompleteCopy(o)
  <2>1. RequestTypeOK'
    BY <1>0, <1>1 DEF CompleteFind, CompleteSize, CompleteCopy, RequestTypeOK, partVars
  <2> QED BY <1>0, <1>1, <2>1, ComponentsUntouched
          DEF TypeOK, CompleteFind, CompleteSize, CompleteCopy
<1>2. CASE CompleteCommit(o) \/ CompleteFails(o)
  <2>1. Publish(o) \/ UNCHANGED <<metadataVars, session, partRows, partNodes>>
    BY <1>2 DEF CompleteCommit, CompleteFails
  <2>2. /\ complete' \in [Objects -> {"idle", "found", "sized", "copied", "ok", "failed"}]
        /\ UNCHANGED <<ringVars, sending, stored, sends, acked, size, copied, promised>>
        /\ UNCHANGED <<disk, alive, calls>> /\ (UNCHANGED faults \/ \E kind : Fault(kind))
    BY <1>0, <1>2 DEF CompleteCommit, CompleteFails, RequestTypeOK, storageVars
  <2>3. RequestTypeOK' /\ MetadataTypeOK'
    BY <1>0, <2>1, <2>2, PublishTyped, ComponentsUntouched DEF RequestTypeOK
  <2>4. StorageTypeOK'
    BY <1>0, <2>2, FaultType DEF StorageTypeOK
  <2> QED BY <1>0, <2>2, <2>3, <2>4, ComponentsUntouched DEF TypeOK
<1> QED BY <1>1, <1>2 DEF CompleteMultipart

\* A new upload, and a gateway that starts anew.
LEMMA SessionTyped ==
    ASSUME TypeOK, InitMultipart \/ GatewayCrash
    PROVE  TypeOK'
<1>0. StorageTypeOK /\ MetadataTypeOK /\ RingTypeOK /\ RequestTypeOK
  BY DEF TypeOK
<1>1. CASE InitMultipart
  <2>1. RequestTypeOK'
    BY <1>0, <1>1 DEF InitMultipart, RequestTypeOK, completeVars
  <2> QED BY <1>0, <1>1, <2>1, ComponentsUntouched DEF TypeOK, InitMultipart
<1>2. CASE GatewayCrash
  <2>1. RequestTypeOK'
    BY <1>0, <1>2 DEF GatewayCrash, RequestTypeOK, NoParts
  <2>2. StorageTypeOK'
    BY <1>0, <1>2, AbandonType, FaultType DEF GatewayCrash, StorageTypeOK
  <2> QED BY <1>0, <1>2, <2>1, <2>2, ComponentsUntouched, RingRestartType DEF TypeOK, GatewayCrash
<1> QED BY <1>1, <1>2

----------------------------------------------------------------------------
(* The invariant.                                                          *)

\* A quorum is not empty.
LEMMA QuorumHasNode ==
    ASSUME NEW S, EnoughNodes(S)
    PROVE  S # {}
<1>1. Quorum \in Nat /\ Quorum > 0
  BY ClusterAssumption DEF Quorum
<1>2. Cardinality({}) = 0
  BY FS_EmptySet
<1> QED BY <1>1, <1>2 DEF EnoughNodes

\* Nothing was asked for yet.
LEMMA InitInv == Init => MultipartInv
<1> SUFFICES ASSUME Init PROVE MultipartInv
  OBVIOUS
<1>1. TypeOK
  <2>1. RequestTypeOK
    BY MultipartAssumption DEF Init, RequestTypeOK, NoParts
  <2> QED BY <2>1, ComponentsInit DEF Init, TypeOK
<1>2. SessionInv /\ PartInv /\ CompletedSomewhere /\ WholeOrEmpty
  BY DEF Init, MetadataInit, NoParts, SessionInv, PartInv, CompletedSomewhere, WholeOrEmpty
<1>3. \A o \in Objects : CompleteInv(o)
  BY DEF Init, MetadataInit, CompleteInv, UnderWay
<1> QED BY <1>1, <1>2, <1>3 DEF MultipartInv

\* Files, calls and the ring do not matter to the invariant.
LEMMA EnvironmentInv ==
    ASSUME MultipartInv, Storage \/ Sync \/ UNCHANGED vars
    PROVE  MultipartInv'
<1>1. UNCHANGED <<metadataVars, partVars, completeVars>>
  BY DEF Storage, Sync, vars
<1> QED
  BY <1>1, EnvironmentTyped
     DEF MultipartInv, SessionInv, PartInv, CompleteInv, UnderWay, Copied,
         CompletedSomewhere, WholeOrEmpty, metadataVars, partVars, completeVars

\* A part that is recorded comes on top of what transactions have read.
LEMMA PartKeepsInv ==
    ASSUME MultipartInv, NEW i \in AllParts, UploadPart(i)
    PROVE  MultipartInv'
<1>0. RequestTypeOK /\ SessionInv /\ PartInv
  BY DEF MultipartInv, TypeOK
<1>1. UNCHANGED <<objects, chunks, session, completeVars>> /\ acked \subseteq acked'
  BY DEF UploadPart, SendPart, SettlePart, RecordPart, RecordPartFails, metadataVars
<1>2. /\ partRows \subseteq partRows'
      /\ session # "open" => partRows' = partRows
      /\ acked' = acked \/ (session = "open" /\ acked' \subseteq acked \cup partRows')
  BY DEF UploadPart, SendPart, SettlePart, RecordPart, RecordPartFails, CreateMultipartChunk
<1>3. PartInv'
  <2>1. CASE SendPart(i) \/ SettlePart(i)
    <3>1. UNCHANGED <<partRows, partNodes>>
      BY <2>1 DEF SendPart, SettlePart
    <3>2. ASSUME NEW j \in AllParts, sending'[j] = "stored" PROVE stored'[j] # {}
      BY <1>0, <2>1, <3>2, QuorumHasNode DEF SendPart, SettlePart, RequestTypeOK, PartInv
    <3> QED BY <1>0, <3>1, <3>2 DEF PartInv
  <2>2. CASE RecordPart(i) \/ RecordPartFails(i)
    <3>1. /\ stored[i] # {}
          /\ CreateMultipartChunk(i) \/ UNCHANGED <<partRows, partNodes>>
          /\ \A j \in AllParts : sending'[j] = "stored" =>
               sending[j] = "stored" /\ stored'[j] = stored[j]
      BY <1>0, <2>2 DEF RecordPart, RecordPartFails, PartInv, RequestTypeOK
    <3>2. ASSUME NEW j \in AllParts PROVE partNodes'[j] # {} <=> j \in partRows'
      BY <1>0, <3>1 DEF CreateMultipartChunk, PartInv, RequestTypeOK
    <3> QED BY <1>0, <3>1, <3>2 DEF PartInv
  <2> QED BY <2>1, <2>2 DEF UploadPart
<1>4. SessionInv'
  BY <1>0, <1>1, <1>2 DEF SessionInv, completeVars
<1>5. \A o \in Objects : CompleteInv(o)'
  BY <1>1, <1>2 DEF MultipartInv, CompleteInv, UnderWay, Copied, completeVars
<1>6. CompletedSomewhere' /\ WholeOrEmpty'
  BY <1>1 DEF MultipartInv, CompletedSomewhere, WholeOrEmpty, completeVars
<1> QED BY <1>3, <1>4, <1>5, <1>6, PartTyped DEF MultipartInv

\* The statements read parts that nobody can take back but another Complete.
LEMMA ReadsKeepInv ==
    ASSUME MultipartInv, NEW o \in Objects, CompleteFind(o) \/ CompleteSize(o) \/ CompleteCopy(o)
    PROVE  MultipartInv'
<1>0. /\ RequestTypeOK /\ SessionInv /\ PartInv /\ CompletedSomewhere /\ WholeOrEmpty
      /\ \A x \in Objects : CompleteInv(x)
  BY DEF MultipartInv, TypeOK
<1>1. /\ UNCHANGED <<metadataVars, partVars>> /\ objects[o] = "none"
      /\ session # "none"
      /\ \A x \in Objects \ {o} : /\ complete'[x] = complete[x] /\ size'[x] = size[x]
                                  /\ copied'[x] = copied[x] /\ promised'[x] = promised[x]
  BY <1>0 DEF CompleteFind, CompleteSize, CompleteCopy, CompleteInv, UnderWay,
              RequestTypeOK, SessionInv
<1>2. ASSUME NEW x \in Objects, x # o PROVE CompleteInv(x)'
  BY <1>0, <1>1, <1>2 DEF CompleteInv, UnderWay, Copied, metadataVars, partVars
<1>3. CompleteInv(o)'
  <2>1. CASE CompleteFind(o)
    BY <1>0, <1>1, <2>1 DEF CompleteFind, CompleteInv, UnderWay, RequestTypeOK, metadataVars, partVars
  <2>2. CASE CompleteSize(o)
    BY <1>0, <1>1, <2>2 DEF CompleteSize, CompleteInv, UnderWay, RequestTypeOK, metadataVars, partVars
  <2>3. CASE CompleteCopy(o)
    <3>1. Copied(o)' = partRows
      BY <1>0, <2>3 DEF CompleteCopy, Copied, PartInv, RequestTypeOK
    <3>2. promised[o] \subseteq acked /\ (session = "open" => size[o] \subseteq partRows)
      BY <1>0, <2>3 DEF CompleteCopy, CompleteInv, UnderWay
    <3>3. /\ complete' = [complete EXCEPT ![o] = "copied"]
          /\ UNCHANGED <<size, promised>>
      BY <2>3 DEF CompleteCopy
    <3> QED BY <1>0, <1>1, <3>1, <3>2, <3>3
            DEF CompleteInv, UnderWay, SessionInv, RequestTypeOK, metadataVars, partVars
  <2> QED BY <2>1, <2>2, <2>3
<1>4. SessionInv' /\ PartInv'
  BY <1>0, <1>1 DEF SessionInv, PartInv, metadataVars, partVars
<1>5. CompletedSomewhere' /\ WholeOrEmpty'
  BY <1>0, <1>1 DEF CompletedSomewhere, WholeOrEmpty, metadataVars, partVars
<1>6. TypeOK'
  BY CompleteTyped DEF MultipartInv, CompleteMultipart
<1> QED BY <1>2, <1>3, <1>4, <1>5, <1>6 DEF MultipartInv

\* The first commit finds all it promised; a later one all of it or nothing.
LEMMA PublishKeepsInv ==
    ASSUME MultipartInv, TypeOK', NEW o \in Objects, complete[o] = "copied", Publish(o),
           complete' \in {[complete EXCEPT ![o] = "ok"], [complete EXCEPT ![o] = "failed"]},
           UNCHANGED <<sending, stored, acked, size, copied, promised>>
    PROVE  MultipartInv'
<1>0. /\ RequestTypeOK /\ MetadataTypeOK /\ SessionInv /\ PartInv
      /\ CompletedSomewhere /\ WholeOrEmpty /\ \A x \in Objects : CompleteInv(x)
  BY DEF MultipartInv, TypeOK
<1>1. /\ session' = "gone" /\ partRows' = {} /\ partNodes' = NoParts
      /\ objects[o] = "none" /\ objects'[o] = "stored" /\ chunks'[o] = Copied(o)
      /\ \A x \in Objects \ {o} : /\ objects'[x] = objects[x] /\ chunks'[x] = chunks[x]
                                  /\ complete'[x] = complete[x]
      /\ complete'[o] \in {"ok", "failed"}
  BY <1>0 DEF Publish, Copied, MetadataTypeOK, RequestTypeOK, CompleteInv, UnderWay
<1>2. SessionInv' /\ PartInv'
  BY <1>0, <1>1 DEF SessionInv, PartInv, NoParts
<1>3. ASSUME NEW x \in Objects PROVE CompleteInv(x)'
  <2>1. CASE x = o
    BY <1>1, <2>1 DEF CompleteInv, UnderWay
  <2>2. CASE x # o
    <3>1. complete[x] = "copied" /\ Copied(x) = {} => session' = "gone"
      BY <1>1
    <3> QED BY <1>0, <1>1, <2>2, <3>1 DEF CompleteInv, UnderWay, Copied
  <2> QED BY <2>1, <2>2
<1>4. \/ promised[o] \cup size[o] \subseteq Copied(o)
      \/ Copied(o) = {} /\ session = "gone"
  BY <1>0 DEF CompleteInv
<1>5. WholeOrEmpty'
  BY <1>0, <1>1, <1>4 DEF WholeOrEmpty
<1>6. CompletedSomewhere'
  <2>1. CASE session = "gone"
    <3>1. PICK x \in Objects : objects[x] = "stored" /\ promised[x] \subseteq chunks[x]
      BY <1>0, <2>1 DEF CompletedSomewhere
    <3>2. x # o
      BY <1>1, <3>1
    <3> QED BY <1>1, <3>1, <3>2 DEF CompletedSomewhere
  <2>2. CASE session # "gone"
    <3>1. objects'[o] = "stored" /\ promised'[o] \subseteq chunks'[o]
      BY <1>1, <1>4, <2>2
    <3> QED BY <3>1 DEF CompletedSomewhere
  <2> QED BY <2>1, <2>2
<1> QED BY <1>2, <1>3, <1>5, <1>6 DEF MultipartInv

\* A Complete that is rolled back leaves nothing behind.
LEMMA CompleteKeepsInv ==
    ASSUME MultipartInv, NEW o \in Objects, CompleteMultipart(o)
    PROVE  MultipartInv'
<1>1. TypeOK'
  BY CompleteTyped DEF MultipartInv
<1>2. CASE CompleteFind(o) \/ CompleteSize(o) \/ CompleteCopy(o)
  BY <1>2, ReadsKeepInv
<1>3. CASE CompleteCommit(o)
  BY <1>1, <1>3, PublishKeepsInv DEF CompleteCommit
<1>4. CASE CompleteFails(o)
  <2>1. CASE complete[o] = "copied" /\ Publish(o)
    BY <1>1, <1>4, <2>1, PublishKeepsInv DEF CompleteFails
  <2>2. CASE UNCHANGED <<metadataVars, session, partRows, partNodes>>
    <3>1. UNCHANGED <<metadataVars, session, partRows, partNodes, sending, stored, acked,
                      size, copied, promised>>
      BY <1>4, <2>2 DEF CompleteFails
    <3>2. /\ complete' = [complete EXCEPT ![o] = "failed"] /\ session # "none"
      BY <1>4 DEF CompleteFails, MultipartInv, SessionInv
    <3>3. RequestTypeOK
      BY DEF MultipartInv, TypeOK
    <3>4. SessionInv' /\ PartInv' /\ CompletedSomewhere' /\ WholeOrEmpty'
      BY <3>1, <3>2 DEF MultipartInv, SessionInv, PartInv, CompletedSomewhere, WholeOrEmpty,
                        metadataVars
    <3>5. ASSUME NEW x \in Objects PROVE CompleteInv(x)'
      BY <3>1, <3>2, <3>3 DEF MultipartInv, CompleteInv, UnderWay, Copied, RequestTypeOK,
                              metadataVars
    <3> QED BY <1>1, <3>4, <3>5 DEF MultipartInv
  <2> QED BY <1>4, <2>1, <2>2 DEF CompleteFails
<1> QED BY <1>2, <1>3, <1>4 DEF CompleteMultipart

\* An upload begins with nothing in it; a crash ends requests only.
LEMMA SessionKeepsInv ==
    ASSUME MultipartInv, InitMultipart \/ GatewayCrash
    PROVE  MultipartInv'
<1>0. TypeOK' /\ RequestTypeOK
  BY SessionTyped DEF MultipartInv, TypeOK
<1>1. CASE InitMultipart
  <2>1. /\ session = "none" /\ session' = "open"
        /\ UNCHANGED <<metadataVars, partRows, partNodes, sending, stored, acked, completeVars>>
    BY <1>1 DEF InitMultipart
  <2>2. acked = {} /\ \A o \in Objects : complete[o] = "idle" /\ objects[o] = "none"
    BY <2>1 DEF MultipartInv, SessionInv
  <2>3. SessionInv' /\ PartInv' /\ CompletedSomewhere' /\ WholeOrEmpty'
    BY <2>1, <2>2 DEF MultipartInv, SessionInv, PartInv, CompletedSomewhere, WholeOrEmpty,
                      metadataVars, completeVars
  <2>4. \A o \in Objects : CompleteInv(o)'
    BY <2>1, <2>2 DEF CompleteInv, UnderWay, metadataVars, completeVars
  <2> QED BY <1>0, <2>3, <2>4 DEF MultipartInv
<1>2. CASE GatewayCrash
  <2>1. /\ UNCHANGED <<metadataVars, session, partRows, partNodes, acked, size, copied, promised>>
        /\ \A i \in AllParts : sending'[i] # "stored"
        /\ \A o \in Objects : /\ ~UnderWay(o)'
                              /\ complete[o] = "idle" <=> complete'[o] = "idle"
    BY <1>0, <1>2 DEF GatewayCrash, UnderWay, RequestTypeOK
  <2>2. SessionInv' /\ PartInv' /\ CompletedSomewhere' /\ WholeOrEmpty'
    BY <2>1 DEF MultipartInv, SessionInv, PartInv, CompletedSomewhere, WholeOrEmpty, metadataVars
  <2>3. \A o \in Objects : CompleteInv(o)'
    BY <2>1 DEF MultipartInv, CompleteInv, UnderWay, metadataVars
  <2> QED BY <1>0, <2>2, <2>3 DEF MultipartInv
<1> QED BY <1>1, <1>2

\* The invariant holds in every reachable state.
LEMMA Inductive == Spec => []MultipartInv
<1>1. MultipartInv /\ [Next]_vars => MultipartInv'
  BY EnvironmentInv, PartKeepsInv, CompleteKeepsInv, SessionKeepsInv DEF Next
<1> QED BY <1>1, InitInv, PTL DEF Spec

----------------------------------------------------------------------------
\* Parts are never lost to a Complete that failed, nor to two that overlap.
THEOREM PartsGoSomewhere == Spec => []CompletedSomewhere
<1>1. MultipartInv => CompletedSomewhere
  BY DEF MultipartInv
<1> QED BY <1>1, Inductive, PTL

\* A Complete copies all the parts it promised and counted, or none.
THEOREM AllOrNothing == Spec => []WholeOrEmpty
<1>1. MultipartInv => WholeOrEmpty
  BY DEF MultipartInv
<1> QED BY <1>1, Inductive, PTL

----------------------------------------------------------------------------
(* The copies of a part.                                                   *)

\* Whoever saves part i saves its bytes under its name, and nobody deletes.
PartCalls ==
    \A c \in calls : \E i \in AllParts :
        /\ c.by = PartCaller(i) /\ c.hash = PartHash[i]
        /\ c.op = "save" /\ c.data = "good" /\ c.step # "unlinked"

\* The sets of nodes that a request or a row names for part i.
Replicas(i) ==
    {stored[i], partNodes[i]} \cup {copied[o][i] : o \in Objects}
      \cup {locations[o][i] : o \in Objects}

\* Every such set was a quorum that the nodes had confirmed, and has lost no
\* more copies since than there were failures.
CopiesInv ==
    /\ PartCalls
    /\ \A i \in AllParts :
         /\ \A S \in Replicas(i) : (S = {} \/ EnoughNodes(S)) /\ FewLost(S, PartHash[i])
         /\ FewLost(Succeeded(PartCaller(i)), PartHash[i])
    /\ \A o \in Objects : \A i \in chunks[o] : locations[o][i] # {}

\* All calls are saves, and those of one request are for one file.
LEMMA PartFiles ==
    ASSUME PartCalls
    PROVE  /\ \A h : OnlySaves(h)
           /\ \A i \in AllParts : \A c \in calls : c.by = PartCaller(i) => c.hash = PartHash[i]
<1>1. ASSUME NEW i, NEW j, PartCaller(i) = PartCaller(j) PROVE i = j
  BY <1>1 DEF PartCaller
<1> QED BY <1>1 DEF PartCalls, OnlySaves

\* All those sets are sets of nodes.
LEMMA ReplicasType ==
    ASSUME TypeOK, NEW i \in AllParts
    PROVE  Replicas(i) \subseteq SUBSET Nodes
  BY DEF TypeOK, MetadataTypeOK, RequestTypeOK, Replicas

\* A step keeps the copies when each file loses at most one to it, names are
\* handed on, and a set of nodes is new only if a quorum has confirmed it.
LEMMA CopiesKept ==
    ASSUME TypeOK, TypeOK', CopiesInv, PartCalls',
           \A h \in Hashes : OneLoss(h),
           \A i \in AllParts : \A S \in Replicas(i)' :
              \/ S \in Replicas(i) \/ S = {}
              \/ S = Succeeded(PartCaller(i)) /\ EnoughNodes(S),
           \A i \in AllParts :
              Succeeded(PartCaller(i))' \subseteq Succeeded(PartCaller(i)) \cup IntactFiles(PartHash[i])',
           \A o \in Objects : \A i \in chunks'[o] : locations'[o][i] # {}
    PROVE  CopiesInv'
<1>0. faults \in Nat /\ \A i \in AllParts : PartHash[i] \in Hashes
  BY MultipartAssumption, ClusterAssumption DEF TypeOK, StorageTypeOK
<1>1. ASSUME NEW i \in AllParts
      PROVE  Succeeded(PartCaller(i)) \in SUBSET Nodes /\ Succeeded(PartCaller(i))' \in SUBSET Nodes
  <2>1. Succeeded(PartCaller(i)) \in SUBSET Nodes
    BY SucceededType DEF TypeOK, StorageTypeOK
  <2>2. ASSUME calls' \in SUBSET Calls PROVE Succeeded(PartCaller(i))' \in SUBSET Nodes
    BY <2>2 DEF Succeeded, Awaited, Calls
  <2> QED BY <2>1, <2>2 DEF TypeOK, StorageTypeOK
<1>2. ASSUME NEW i \in AllParts, NEW S \in Replicas(i)'
      PROVE  (S = {} \/ EnoughNodes(S)) /\ Cardinality(S \ IntactFiles(PartHash[i])') <= faults'
  <2>1. OneLoss(PartHash[i])
    BY <1>0
  <2>2. CASE S \in Replicas(i)
    <3>1. S \in SUBSET Nodes /\ FewLost(S, PartHash[i])
      BY <2>2, ReplicasType DEF CopiesInv
    <3> QED BY <1>0, <2>1, <2>2, <3>1, FewLostKept DEF CopiesInv
  <2>3. CASE S = {}
    <3>1. Cardinality(S \ IntactFiles(PartHash[i])') = 0 /\ faults' \in Nat
      BY <2>1, <2>3, FS_EmptySet DEF OneLoss
    <3> QED BY <2>3, <3>1
  <2>4. CASE S = Succeeded(PartCaller(i)) /\ EnoughNodes(S)
    <3>1. S \in SUBSET Nodes /\ FewLost(S, PartHash[i])
      BY <1>1, <2>4 DEF CopiesInv
    <3> QED BY <1>0, <2>1, <2>4, <3>1, FewLostKept
  <2> QED BY <2>2, <2>3, <2>4
<1>3. ASSUME NEW i \in AllParts
      PROVE  Cardinality(Succeeded(PartCaller(i))' \ IntactFiles(PartHash[i])') <= faults'
  <2>1. OneLoss(PartHash[i]) /\ FewLost(Succeeded(PartCaller(i)), PartHash[i])
    BY <1>0 DEF CopiesInv
  <2> QED BY <1>0, <1>1, <2>1, FewLostKept
<1> QED BY <1>2, <1>3 DEF CopiesInv, FewLost, EnoughNodes

\* Nothing is stored and nothing is named.
LEMMA InitCopies == Init => CopiesInv
<1> SUFFICES ASSUME Init PROVE CopiesInv
  OBVIOUS
<1>1. calls = {} /\ faults = 0 /\ \A o \in Objects : chunks[o] = {}
  BY DEF Init, StorageInit, MetadataInit
<1>2. ASSUME NEW h PROVE FewLost({}, h)
  BY <1>1, FS_EmptySet DEF FewLost
<1>3. ASSUME NEW i \in AllParts
      PROVE  Succeeded(PartCaller(i)) = {} /\ Replicas(i) = {{}}
  BY <1>1, ClusterAssumption DEF Succeeded, Awaited, Replicas, Init, MetadataInit, NoParts
<1> QED BY <1>1, <1>2, <1>3 DEF CopiesInv, PartCalls

\* The nodes lose a copy per failure and confirm what they have.
LEMMA StorageCopies ==
    ASSUME TypeOK, TypeOK', CopiesInv, Storage
    PROVE  CopiesInv'
<1>0. StorageNext /\ StorageTypeOK /\ UNCHANGED <<metadataVars, partVars, completeVars>>
  BY DEF Storage, TypeOK
<1>1. /\ \A h : OnlySaves(h)
      /\ \A i \in AllParts : \A c \in calls : c.by = PartCaller(i) => c.hash = PartHash[i]
  BY PartFiles DEF CopiesInv
<1>2. \A h \in Hashes : OneLoss(h)
  BY <1>0, <1>1, StorageLoss
<1>3. PartCalls'
  <2>0. calls \subseteq Calls /\ \A c \in calls : c.hash \in Hashes
    BY <1>0 DEF StorageTypeOK, Calls
  <2>1. ASSUME NEW d \in calls'
        PROVE  \E i \in AllParts : /\ d.by = PartCaller(i) /\ d.hash = PartHash[i]
                                   /\ d.op = "save" /\ d.data = "good" /\ d.step # "unlinked"
    <3>1. PICK b \in calls : /\ d.by = b.by /\ d.op = b.op /\ d.node = b.node /\ d.hash = b.hash
                             /\ d.data = b.data /\ (d.live => b.live)
      BY <1>0, <2>0, StorageOldCalls
    <3>2. OnlySaves(d.hash)'
      BY <1>0, <1>1, <2>0, StorageOnlySaves
    <3> QED BY <3>1, <3>2 DEF CopiesInv, PartCalls, OnlySaves
  <2> QED BY <2>1 DEF PartCalls
<1>4. ASSUME NEW i \in AllParts
      PROVE  Succeeded(PartCaller(i))' \subseteq Succeeded(PartCaller(i)) \cup IntactFiles(PartHash[i])'
  BY <1>0, <1>1, MultipartAssumption, StorageSucceeded
<1>5. ASSUME NEW i \in AllParts PROVE Replicas(i)' = Replicas(i)
  BY <1>0 DEF Replicas, metadataVars, partVars, completeVars
<1>6. \A o \in Objects : \A i \in chunks'[o] : locations'[o][i] # {}
  BY <1>0 DEF CopiesInv, metadataVars
<1> QED BY <1>2, <1>3, <1>4, <1>5, <1>6, CopiesKept

\* A step of the gateway keeps the copies when it calls for nothing but saves
\* and believes no answer that was not given.
LEMMA GatewayCopies ==
    ASSUME TypeOK, TypeOK', CopiesInv, OpenKept, UNCHANGED faults \/ \E kind : Fault(kind), PartCalls',
           \A i \in AllParts : \A S \in Replicas(i)' :
              \/ S \in Replicas(i) \/ S = {}
              \/ S = Succeeded(PartCaller(i)) /\ EnoughNodes(S),
           \A i \in AllParts : Succeeded(PartCaller(i))' \subseteq Succeeded(PartCaller(i)),
           \A o \in Objects : \A i \in chunks'[o] : locations'[o][i] # {}
    PROVE  CopiesInv'
<1>1. faults \in Nat
  BY ClusterAssumption DEF TypeOK, StorageTypeOK
<1>2. \A h \in Hashes : OneLoss(h)
  BY <1>1, GatewayLoss
<1> QED BY <1>2, CopiesKept

\* A part is sent: the calls are saves, and nobody has answered one yet.
LEMMA SendCopies ==
    ASSUME TypeOK, TypeOK', CopiesInv, NEW i \in AllParts, SendPart(i)
    PROVE  CopiesInv'
<1>0. RequestTypeOK /\ UNCHANGED <<disk, faults, metadataVars, partNodes, stored, copied>>
  BY DEF SendPart, TypeOK, completeVars
<1> DEFINE new == SaveCalls(PartCaller(i), GetNodes(ring, PartHash[i]), PartHash[i], "good")
<1>1. calls' = calls \cup new
  BY DEF SendPart
<1>2. ASSUME NEW c \in new
      PROVE  /\ c.by = PartCaller(i) /\ c.hash = PartHash[i] /\ c.op = "save"
             /\ c.data = "good" /\ c.step = "sent"
  BY DEF SaveCalls, Call
<1>3. PartCalls'
  BY <1>1, <1>2 DEF CopiesInv, PartCalls
<1>4. OpenKept
  BY <1>0, <1>1 DEF OpenKept
<1>5. ASSUME NEW j \in AllParts PROVE Succeeded(PartCaller(j))' \subseteq Succeeded(PartCaller(j))
  BY <1>1, <1>2 DEF Succeeded, Awaited
<1>6. ASSUME NEW j \in AllParts PROVE Replicas(j)' = Replicas(j)
  BY <1>0 DEF Replicas, metadataVars
<1>7. \A o \in Objects : \A j \in chunks'[o] : locations'[o][j] # {}
  BY <1>0 DEF CopiesInv, metadataVars
<1> QED BY <1>0, <1>3, <1>4, <1>5, <1>6, <1>7, GatewayCopies

\* A quorum has confirmed the part, or its set of nodes is forgotten.
LEMMA SettleCopies ==
    ASSUME TypeOK, TypeOK', CopiesInv, NEW i \in AllParts, SettlePart(i)
    PROVE  CopiesInv'
<1>0. /\ RequestTypeOK /\ UNCHANGED <<disk, faults, metadataVars, partNodes, copied>>
      /\ AllAnswered(PartCaller(i)) /\ calls' = calls \ Awaited(PartCaller(i))
  BY DEF SettlePart, TypeOK, completeVars
<1>1. OpenKept
  BY <1>0, CollectedOpen DEF OpenKept
<1>2. PartCalls'
  BY <1>0 DEF CopiesInv, PartCalls
<1>3. ASSUME NEW j \in AllParts PROVE Succeeded(PartCaller(j))' \subseteq Succeeded(PartCaller(j))
  BY <1>0 DEF Succeeded, Awaited
<1>4. ASSUME NEW j \in AllParts, NEW S \in Replicas(j)'
      PROVE  \/ S \in Replicas(j) \/ S = {}
             \/ S = Succeeded(PartCaller(j)) /\ EnoughNodes(S)
  <2>1. \/ stored'[j] = stored[j] \/ stored'[j] = {}
        \/ stored'[j] = Succeeded(PartCaller(j)) /\ EnoughNodes(stored'[j])
    BY DEF SettlePart, TypeOK, RequestTypeOK
  <2>2. S = stored'[j] \/ S \in Replicas(j)
    BY <1>0 DEF Replicas, metadataVars
  <2> QED BY <2>1, <2>2 DEF Replicas
<1>5. \A o \in Objects : \A j \in chunks'[o] : locations'[o][j] # {}
  BY <1>0 DEF CopiesInv, metadataVars
<1> QED BY <1>0, <1>1, <1>2, <1>3, <1>4, <1>5, GatewayCopies

\* What is read and written in the tables was read or confirmed before.
LEMMA TablesCopies ==
    ASSUME TypeOK, TypeOK', CopiesInv, UNCHANGED <<disk, calls>>,
           UNCHANGED faults \/ \E kind : Fault(kind),
           \A i \in AllParts : Replicas(i)' \subseteq Replicas(i) \cup {{}},
           \A o \in Objects : \A i \in chunks'[o] : locations'[o][i] # {}
    PROVE  CopiesInv'
<1>1. OpenKept
  BY DEF OpenKept
<1>2. PartCalls'
  BY DEF CopiesInv, PartCalls
<1>3. ASSUME NEW i \in AllParts PROVE Succeeded(PartCaller(i))' = Succeeded(PartCaller(i))
  BY DEF Succeeded, Awaited
<1> QED BY <1>1, <1>2, <1>3, GatewayCopies

\* CreateMultipartChunk records the nodes that have confirmed the part.
LEMMA RecordCopies ==
    ASSUME TypeOK, TypeOK', CopiesInv, NEW i \in AllParts, RecordPart(i) \/ RecordPartFails(i)
    PROVE  CopiesInv'
<1>0. RequestTypeOK
  BY DEF TypeOK
<1>1. /\ UNCHANGED <<disk, calls, metadataVars, copied>>
      /\ UNCHANGED faults \/ \E kind : Fault(kind)
      /\ stored' = [stored EXCEPT ![i] = {}]
      /\ UNCHANGED partNodes \/ partNodes' = [partNodes EXCEPT ![i] = stored[i]]
  BY DEF RecordPart, RecordPartFails, CreateMultipartChunk, storageVars, completeVars
<1>2. ASSUME NEW j \in AllParts PROVE Replicas(j)' \subseteq Replicas(j) \cup {{}}
  BY <1>0, <1>1 DEF RequestTypeOK, Replicas, metadataVars
<1>3. \A o \in Objects : \A j \in chunks'[o] : locations'[o][j] # {}
  BY <1>1 DEF CopiesInv, metadataVars
<1> QED BY <1>1, <1>2, <1>3, TablesCopies

\* CompleteMultipartUpload hands the locations of the parts on to the object.
LEMMA CompleteCopies ==
    ASSUME TypeOK, TypeOK', CopiesInv, NEW o \in Objects, CompleteMultipart(o)
    PROVE  CopiesInv'
<1>0. RequestTypeOK /\ MetadataTypeOK
  BY DEF TypeOK
<1>1. /\ UNCHANGED <<disk, calls, stored>>
      /\ UNCHANGED faults \/ \E kind : Fault(kind)
  BY DEF CompleteMultipart, CompleteFind, CompleteSize, CompleteCopy, CompleteCommit,
         CompleteFails, storageVars, partVars
<1>2. \/ Publish(o) /\ UNCHANGED copied
      \/ UNCHANGED <<chunks, locations, partNodes>>
           /\ (UNCHANGED copied \/ copied' = [copied EXCEPT ![o] = partNodes])
  BY DEF CompleteMultipart, CompleteFind, CompleteSize, CompleteCopy, CompleteCommit,
         CompleteFails, metadataVars, partVars
<1>3. ASSUME NEW i \in AllParts PROVE Replicas(i)' \subseteq Replicas(i) \cup {{}}
  <2>1. CASE Publish(o) /\ UNCHANGED copied
    <3>1. /\ stored'[i] = stored[i] /\ partNodes'[i] = {}
          /\ \A x \in Objects : /\ copied'[x][i] = copied[x][i]
                                /\ locations'[x][i] \in {locations[x][i], copied[x][i]}
      BY <1>0, <1>1, <2>1 DEF Publish, NoParts, MetadataTypeOK
    <3> QED BY <3>1 DEF Replicas
  <2>2. CASE UNCHANGED <<locations, partNodes>>
               /\ (UNCHANGED copied \/ copied' = [copied EXCEPT ![o] = partNodes])
    <3>1. /\ stored'[i] = stored[i] /\ partNodes'[i] = partNodes[i]
          /\ \A x \in Objects : /\ copied'[x][i] \in {copied[x][i], partNodes[i]}
                                /\ locations'[x][i] = locations[x][i]
      BY <1>0, <1>1, <2>2 DEF RequestTypeOK
    <3> QED BY <3>1 DEF Replicas
  <2> QED BY <1>2, <2>1, <2>2
<1>4. ASSUME NEW x \in Objects, NEW i \in chunks'[x] PROVE locations'[x][i] # {}
  <2>1. i \in chunks[x] => locations[x][i] # {}
    BY DEF CopiesInv
  <2>2. CASE Publish(o) /\ x = o
    BY <1>0, <2>2 DEF Publish, MetadataTypeOK
  <2>3. CASE x # o \/ UNCHANGED <<chunks, locations>>
    <3>1. chunks'[x] = chunks[x] /\ locations'[x] = locations[x]
      BY <1>0, <1>2, <2>3 DEF Publish, MetadataTypeOK
    <3> QED BY <2>1, <3>1
  <2> QED BY <1>2, <2>2, <2>3
<1> QED BY <1>1, <1>3, <1>4, TablesCopies

\* A gateway that dies gives its calls up; what they did stays done.
LEMMA CrashCopies ==
    ASSUME TypeOK, TypeOK', CopiesInv, GatewayCrash
    PROVE  CopiesInv'
<1>0. /\ calls \subseteq Calls /\ UNCHANGED <<disk, metadataVars, partNodes, copied>>
      /\ \E kind : Fault(kind) /\ calls' = Abandon(Callers)
      /\ \A i \in AllParts : stored'[i] = {}
  BY DEF GatewayCrash, TypeOK, StorageTypeOK, NoParts
<1>1. OpenKept
  BY <1>0, AbandonedCalls DEF OpenKept
<1>2. PartCalls'
  BY <1>0, AbandonedCalls DEF CopiesInv, PartCalls
<1>3. ASSUME NEW i \in AllParts PROVE Succeeded(PartCaller(i))' \subseteq Succeeded(PartCaller(i))
  <2>1. \A d \in calls' : d.live => d \in calls
    BY <1>0, AbandonedCalls
  <2> QED BY <2>1 DEF Succeeded, Awaited
<1>4. ASSUME NEW i \in AllParts, NEW S \in Replicas(i)' PROVE S \in Replicas(i) \/ S = {}
  BY <1>0 DEF Replicas, metadataVars
<1>5. \A o \in Objects : \A i \in chunks'[o] : locations'[o][i] # {}
  BY <1>0 DEF CopiesInv, metadataVars
<1> QED BY <1>0, <1>1, <1>2, <1>3, <1>4, <1>5, GatewayCopies

\* The copies of every part are counted right in every reachable state.
LEMMA InductiveCopies == Spec => []CopiesInv
<1>1. ASSUME TypeOK, TypeOK', CopiesInv, [Next]_vars PROVE CopiesInv'
  <2>1. CASE Storage
    BY <1>1, <2>1, StorageCopies
  <2>2. CASE Sync \/ InitMultipart \/ UNCHANGED vars
    <3>1. UNCHANGED <<disk, calls, faults, metadataVars, partNodes, stored, copied>>
      BY <2>2 DEF Sync, InitMultipart, vars, storageVars, partVars, completeVars
    <3>2. \A i \in AllParts : Replicas(i)' = Replicas(i)
      BY <3>1 DEF Replicas, metadataVars
    <3>3. \A o \in Objects : \A i \in chunks'[o] : locations'[o][i] # {}
      BY <1>1, <3>1 DEF CopiesInv, metadataVars
    <3> QED BY <1>1, <3>1, <3>2, <3>3, TablesCopies
  <2>3. CASE GatewayCrash
    BY <1>1, <2>3, CrashCopies
  <2>4. ASSUME NEW i \in AllParts, UploadPart(i) PROVE CopiesInv'
    BY <1>1, <2>4, SendCopies, SettleCopies, RecordCopies DEF UploadPart
  <2>5. ASSUME NEW o \in Objects, CompleteMultipart(o) PROVE CopiesInv'
    BY <1>1, <2>5, CompleteCopies
  <2> QED BY <1>1, <2>1, <2>2, <2>3, <2>4, <2>5 DEF Next
<1>2. MultipartInv => TypeOK
  BY DEF MultipartInv
<1> QED BY <1>1, <1>2, InitCopies, Inductive, PTL DEF Spec

\* A failure costs a recorded part at most one of its Quorum copies, although
\* the handler of SaveChunk truncates the file before it writes it again.
THEOREM PartsSurvive == Spec => []PartQuorumSurvives
<1>1. ASSUME TypeOK, PartInv, CopiesInv PROVE PartQuorumSurvives
  <2>0. faults \in Nat
    BY <1>1, ClusterAssumption DEF TypeOK, StorageTypeOK
  <2>1. ASSUME NEW i \in AllParts, NEW S \in Replicas(i), S # {}
        PROVE  Cardinality(IntactOn(S, i)) + faults >= Quorum
    <3>1. S \in SUBSET Nodes /\ FewLost(S, PartHash[i]) /\ Cardinality(S) >= Quorum
      BY <1>1, <2>1, ReplicasType DEF CopiesInv, EnoughNodes
    <3>2. IntactOn(S, i) = S \cap IntactFiles(PartHash[i])
      BY <3>1 DEF IntactOn, IntactFiles
    <3> QED BY <2>0, <3>1, <3>2, QuorumLeft
  <2>2. ASSUME NEW i \in partRows PROVE Cardinality(IntactOn(partNodes[i], i)) + faults >= Quorum
    <3>1. i \in AllParts /\ partNodes[i] \in Replicas(i) /\ partNodes[i] # {}
      BY <1>1 DEF TypeOK, RequestTypeOK, PartInv, Replicas
    <3> QED BY <2>1, <3>1
  <2>3. ASSUME NEW o \in Objects, NEW i \in chunks[o]
        PROVE  Cardinality(IntactOn(locations[o][i], i)) + faults >= Quorum
    <3>1. i \in AllParts /\ locations[o][i] \in Replicas(i) /\ locations[o][i] # {}
      BY <1>1 DEF TypeOK, MetadataTypeOK, CopiesInv, Replicas
    <3> QED BY <2>1, <3>1
  <2> QED BY <2>2, <2>3 DEF PartQuorumSurvives
<1>2. MultipartInv => TypeOK /\ PartInv
  BY DEF MultipartInv
<1> QED BY <1>1, <1>2, Inductive, InductiveCopies, PTL
=============================================================================
