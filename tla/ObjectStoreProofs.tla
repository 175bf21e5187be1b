------------------------- MODULE ObjectStoreProofs -------------------------
(***************************************************************************)
(* Theorems about ObjectStore for every number of nodes, objects, chunks,  *)
(* replicas and failures, and every ring and membership:                   *)
(*   - its types (TypeCorrect);                                            *)
(*   - an object whose upload was answered 201 is complete until it is     *)
(*     deleted, and ObjectStore implements ObjectService;                  *)
(*   - its chunks keep a quorum of copies as long as few enough failures   *)
(*     happen, while no rebalancer moves them;                             *)
(*   - a download that does not fail gives the whole object.               *)
(***************************************************************************)
EXTENDS ObjectStore, ComponentProofs

----------------------------------------------------------------------------
(* What the operators of the handlers return.                              *)

\* The chunks of a request have hashes and numbers.
LEMMA BodyType ==
    ASSUME NEW o \in Objects, NEW i \in Parts(o)
    PROVE  /\ Body[o][i] \in Hashes
           /\ i \in AllParts
           /\ ChunkCaller(o, i) \in Callers
           /\ SweepCaller(o, i) \in Callers
  BY HandlerAssumption DEF Parts, ChunkCaller, SweepCaller, Callers

----------------------------------------------------------------------------
(* Typing.  A chunk row belongs to a chunk of the request's body; without  *)
(* that the hash the rebalancer works on need not be a hash.               *)

RowsInBody ==
    /\ \A o \in Objects : chunks[o] \subseteq Parts(o)
    /\ \A r \in rows : r.part \in Parts(r.object)
    /\ rebalancer \notin {"asleep", "check", "pick"} => row.part \in Parts(row.object)

TypeInv == TypeOK /\ RowsInBody

\* The initial state is typed.
LEMMA InitTyped == Init => TypeInv
<1> SUFFICES ASSUME Init PROVE TypeInv
  OBVIOUS
<1>1. PICK o \in Objects : o = CHOOSE x \in Objects : TRUE
  BY ClusterAssumption
<1>2. PICK i \in AllParts : i = CHOOSE x \in AllParts : TRUE
  BY ClusterAssumption
<1>3. StorageTypeOK /\ MetadataTypeOK /\ RingTypeOK
  BY ComponentsInit DEF Init
<1>6. HandlerTypeOK
  <2>1. NoNodes \in [AllParts -> SUBSET Nodes]
    BY DEF NoNodes
  <2>2. [pc |-> "idle", object |-> CHOOSE x \in Objects : TRUE, acked |-> FALSE,
         cut |-> FALSE, todo |-> {}, replicas |-> NoNodes, sent |-> {}] \in Downloads
    BY <1>1, <2>1 DEF Downloads
  <2>3. download \in [Readers -> Downloads]
    BY <2>2 DEF Init, HandlerInit
  <2> QED BY <2>1, <2>3 DEF Init, HandlerInit, HandlerTypeOK
<1>7. WorkerTypeOK
  <2>1. NoRow \in Rows /\ "good" \in Bytes
    BY <1>1, <1>2 DEF NoRow, Rows, Bytes
  <2> QED BY <2>1 DEF Init, WorkerInit, WorkerTypeOK
<1>8. RowsInBody
  BY DEF Init, MetadataInit, WorkerInit, RowsInBody
<1> QED BY <1>3, <1>6, <1>7, <1>8 DEF TypeInv, TypeOK

\* A step that leaves a group of variables alone leaves its types alone.
LEMMA Untouched ==
    /\ UNCHANGED storageVars /\ StorageTypeOK => StorageTypeOK'
    /\ UNCHANGED metadataVars /\ MetadataTypeOK => MetadataTypeOK'
    /\ UNCHANGED ringVars /\ RingTypeOK => RingTypeOK'
    /\ UNCHANGED handlerVars /\ HandlerTypeOK => HandlerTypeOK'
    /\ UNCHANGED workerVars /\ WorkerTypeOK => WorkerTypeOK'
    /\ UNCHANGED workerVars /\ RowsInBody /\ (\A o \in Objects : chunks'[o] \subseteq Parts(o))
         => RowsInBody'
    /\ UNCHANGED workerVars /\ UNCHANGED chunks /\ RowsInBody => RowsInBody'
<1>1. UNCHANGED storageVars /\ StorageTypeOK => StorageTypeOK'
  BY DEF storageVars, StorageTypeOK
<1>2. UNCHANGED metadataVars /\ MetadataTypeOK => MetadataTypeOK'
  BY DEF metadataVars, MetadataTypeOK
<1>3. UNCHANGED ringVars /\ RingTypeOK => RingTypeOK'
  BY DEF ringVars, RingTypeOK
<1>4. UNCHANGED handlerVars /\ HandlerTypeOK => HandlerTypeOK'
  BY DEF handlerVars, HandlerTypeOK
<1>5. UNCHANGED workerVars /\ WorkerTypeOK => WorkerTypeOK'
  BY DEF workerVars, WorkerTypeOK
<1>6. UNCHANGED workerVars /\ RowsInBody /\ (\A o \in Objects : chunks'[o] \subseteq Parts(o))
        => RowsInBody'
  BY DEF workerVars, RowsInBody
<1>7. UNCHANGED workerVars /\ UNCHANGED chunks /\ RowsInBody => RowsInBody'
  BY DEF workerVars, RowsInBody
<1> QED BY <1>1, <1>2, <1>3, <1>4, <1>5, <1>6, <1>7

\* The nodes' handlers keep the types.
LEMMA StorageTyped == TypeInv /\ Storage => TypeInv'
  BY StorageTypePreserved, Untouched DEF TypeInv, TypeOK, Storage, metadataVars

\* The sync loop keeps the types.
LEMMA SyncTyped == TypeInv /\ Sync => TypeInv'
  BY RingTypePreserved, Untouched DEF TypeInv, TypeOK, Sync, metadataVars

\* A step of a handler that keeps the types of what it changes.
LEMMA HandlerFrame ==
    ASSUME TypeInv, StorageTypeOK', MetadataTypeOK', HandlerTypeOK',
           UNCHANGED <<ringVars, workerVars>>,
           \A o \in Objects : chunks'[o] \subseteq Parts(o)
    PROVE  TypeInv'
  BY Untouched DEF TypeInv, TypeOK

\* Every step of an upload keeps the types.
LEMMA UploadTyped ==
    ASSUME TypeInv, NEW o \in Objects, UNCHANGED workerVars,
           UploadStep(o) \/ UploadStart(o) \/ BodyError(o)
    PROVE  TypeInv'
<1>0. StorageTypeOK /\ MetadataTypeOK /\ HandlerTypeOK /\ \A x \in Objects : chunks[x] \subseteq Parts(x)
  BY DEF TypeInv, TypeOK, RowsInBody
<1>1. CASE UploadStart(o) \/ ChunksFailed(o) \/ UploadDone(o)
  <2>1. HandlerTypeOK'
    BY <1>0, <1>1 DEF HandlerTypeOK, UploadStart, ChunksFailed, UploadDone
  <2>2. UNCHANGED <<storageVars, metadataVars, ringVars>>
    BY <1>1 DEF UploadStart, ChunksFailed, UploadDone
  <2> QED BY <1>0, <2>1, <2>2, Untouched, HandlerFrame DEF metadataVars
<1>2. CASE BodyError(o)
  <2>1. HandlerTypeOK'
    BY <1>0, <1>2 DEF HandlerTypeOK, BodyError
  <2>2. StorageTypeOK'
    BY <1>0, <1>2, AbandonType DEF StorageTypeOK, BodyError
  <2>3. UNCHANGED <<metadataVars, ringVars>>
    BY <1>2 DEF BodyError
  <2> QED BY <1>0, <2>1, <2>2, <2>3, Untouched, HandlerFrame DEF metadataVars
<1>3. CASE CreateObjectRow(o)
  <2>1. HandlerTypeOK'
    BY <1>0, <1>3 DEF HandlerTypeOK, CreateObjectRow
  <2>2. StorageTypeOK'
    BY <1>0, <1>3, FaultType DEF StorageTypeOK, CreateObjectRow
  <2>3. MetadataTypeOK' /\ chunks' = chunks
    BY <1>0, <1>3 DEF CreateObjectRow, CreateObject, MetadataTypeOK, metadataVars
  <2>4. UNCHANGED ringVars
    BY <1>3 DEF CreateObjectRow
  <2> QED BY <1>0, <2>1, <2>2, <2>3, <2>4, HandlerFrame
<1>4. ASSUME NEW i \in Parts(o), PlaceChunk(o, i) PROVE TypeInv'
  <2>1. HandlerTypeOK'
    BY <1>0, <1>4 DEF HandlerTypeOK, PlaceChunk
  <2>2. GetNodes(ring, Body[o][i]) \in SUBSET Nodes /\ "good" \in Bytes
    BY GetNodesType DEF TypeInv, TypeOK, RingTypeOK, Bytes
  <2>3. SaveCalls(ChunkCaller(o, i), GetNodes(ring, Body[o][i]), Body[o][i], "good")
          \subseteq Calls
    BY <2>2, BodyType, NewCallsType
  <2>4. StorageTypeOK'
    BY <1>0, <1>4, <2>3 DEF StorageTypeOK, PlaceChunk
  <2>5. UNCHANGED <<metadataVars, ringVars>>
    BY <1>4 DEF PlaceChunk
  <2> QED BY <1>0, <2>1, <2>4, <2>5, Untouched, HandlerFrame DEF metadataVars
<1>5. ASSUME NEW i \in Parts(o), SettleChunk(o, i) PROVE TypeInv'
  <2>1. Succeeded(ChunkCaller(o, i)) \in SUBSET Nodes /\ i \in AllParts
    BY <1>0, BodyType, SucceededType DEF StorageTypeOK
  <2>2. HandlerTypeOK'
    <3>1. CASE EnoughCopies(Succeeded(ChunkCaller(o, i)))
      <4>1. /\ part' = [part EXCEPT ![o][i] = "stored"]
            /\ kept' = [kept EXCEPT ![o][i] = Succeeded(ChunkCaller(o, i))]
            /\ UNCHANGED <<upload, removal, victims, download>>
        BY <1>5, <3>1 DEF SettleChunk
      <4> QED BY <1>0, <2>1, <4>1 DEF HandlerTypeOK
    <3>2. CASE ~EnoughCopies(Succeeded(ChunkCaller(o, i)))
      <4>1. /\ part' = [part EXCEPT ![o][i] = "failed"]
            /\ UNCHANGED <<upload, kept, removal, victims, download>>
        BY <1>5, <3>2 DEF SettleChunk
      <4> QED BY <1>0, <2>1, <4>1 DEF HandlerTypeOK
    <3> QED BY <3>1, <3>2
  <2>3. StorageTypeOK'
    BY <1>0, <1>5 DEF StorageTypeOK, SettleChunk
  <2>4. UNCHANGED <<metadataVars, ringVars>>
    BY <1>5 DEF SettleChunk
  <2> QED BY <1>0, <2>2, <2>3, <2>4, Untouched, HandlerFrame DEF metadataVars
<1>6. ASSUME NEW i \in Parts(o), CreateChunkRow(o, i) \/ CreateChunkFails(o, i) PROVE TypeInv'
  <2>1. HandlerTypeOK'
    <3>1. i \in AllParts
      BY BodyType
    <3>2. CASE CreateChunkRow(o, i)
      BY <1>0, <3>1, <3>2 DEF HandlerTypeOK, CreateChunkRow
    <3>3. CASE CreateChunkFails(o, i)
      BY <1>0, <3>3 DEF HandlerTypeOK, CreateChunkFails
    <3> QED BY <1>6, <3>2, <3>3
  <2>2. StorageTypeOK'
    BY <1>0, <1>6, FaultType, Untouched DEF StorageTypeOK, CreateChunkRow, CreateChunkFails, storageVars
  <2>3. i \in AllParts /\ kept[o][i] \in SUBSET Nodes
    BY <1>0, BodyType DEF HandlerTypeOK
  <2>4. CreateChunk(o, i, kept[o][i]) \/ UNCHANGED metadataVars
    BY <1>6 DEF CreateChunkRow, CreateChunkFails
  <2>5. MetadataTypeOK' /\ \A x \in Objects : chunks'[x] \subseteq Parts(x)
    <3>1. CASE CreateChunk(o, i, kept[o][i])
      <4>1. MetadataTypeOK' /\ chunks' = [chunks EXCEPT ![o] = @ \cup {i}]
        BY <1>0, <2>3, <3>1, MetadataStatements
      <4> QED BY <1>0, <4>1 DEF MetadataTypeOK
    <3>2. CASE UNCHANGED metadataVars
      BY <1>0, <3>2 DEF MetadataTypeOK, metadataVars
    <3> QED BY <2>4, <3>1, <3>2
  <2>6. UNCHANGED ringVars
    BY <1>6 DEF CreateChunkRow, CreateChunkFails
  <2> QED BY <2>1, <2>2, <2>5, <2>6, HandlerFrame
<1> QED BY <1>1, <1>2, <1>3, <1>4, <1>5, <1>6 DEF UploadStep

\* Every step of a download keeps the types.
LEMMA DownloadTyped ==
    ASSUME TypeInv, NEW r \in Readers, UNCHANGED workerVars,
           DownloadStep(r) \/ \E o \in Objects : DownloadStart(r, o)
    PROVE  TypeInv'
<1>0. StorageTypeOK /\ MetadataTypeOK /\ HandlerTypeOK /\ \A x \in Objects : chunks[x] \subseteq Parts(x)
  BY DEF TypeInv, TypeOK, RowsInBody
<1> DEFINE d == download[r]
<1>1. /\ download \in [Readers -> Downloads] /\ d \in Downloads /\ d.object \in Objects
      /\ NoNodes \in [AllParts -> SUBSET Nodes]
  BY <1>0 DEF HandlerTypeOK, Downloads, NoNodes
<1>2. ASSUME NEW e \in Downloads, download' = [download EXCEPT ![r] = e]
      PROVE  download' \in [Readers -> Downloads]
  BY <1>1, <1>2
<1>3. ASSUME NEW o \in Objects, DownloadStart(r, o)
      PROVE  download' \in [Readers -> Downloads]
  <2>1. (upload[o] = "acked") \in BOOLEAN
    OBVIOUS
  <2>2. [pc |-> "rows", object |-> o, acked |-> upload[o] = "acked",
         cut |-> FALSE, todo |-> {}, replicas |-> NoNodes, sent |-> {}] \in Downloads
    BY <1>1, <2>1 DEF Downloads
  <2> QED BY <1>2, <1>3, <2>2 DEF DownloadStart
<1>4. ASSUME DownloadRows(r) PROVE download' \in [Readers -> Downloads]
  <2>1. Joined(d.object) \subseteq AllParts /\ locations[d.object] \in [AllParts -> SUBSET Nodes]
    BY <1>0, <1>1 DEF Joined, MetadataTypeOK
  <2>2. ASSUME NEW S \in SUBSET AllParts, NEW cut \in BOOLEAN
        PROVE  [d EXCEPT !.pc = "chunks", !.todo = S, !.cut = cut,
                         !.replicas = locations[d.object]] \in Downloads
    BY <1>1, <2>1 DEF Downloads
  <2>3. [d EXCEPT !.pc = "error"] \in Downloads
    BY <1>1 DEF Downloads
  <2> DEFINE Got(S, cut) ==
               download' = [download EXCEPT ![r].pc = "chunks", ![r].todo = S,
                                            ![r].cut = cut, ![r].replicas = locations[d.object]]
  <2>4. ASSUME NEW S \in SUBSET AllParts, NEW cut \in BOOLEAN, Got(S, cut) PROVE download' \in [Readers -> Downloads]
    BY <1>1, <2>2, <2>4
  <2>5. CASE download' = [download EXCEPT ![r].pc = "error"]
    BY <1>1, <2>3, <2>5
  <2>6. \/ Got(Joined(d.object), FALSE)
        \/ \E k \in AllParts : Got({i \in Joined(d.object) : i < k}, TRUE)
        \/ download' = [download EXCEPT ![r].pc = "error"]
    BY <1>4 DEF DownloadRows
  <2>7. \A k \in AllParts : {i \in Joined(d.object) : i < k} \in SUBSET AllParts
    BY <2>1
  <2>8. CASE \E k \in AllParts : Got({i \in Joined(d.object) : i < k}, TRUE)
    BY <2>4, <2>7, <2>8
  <2> HIDE DEF Got
  <2> QED BY <2>1, <2>4, <2>5, <2>6, <2>8
<1>5. ASSUME NEW i \in AllParts, NEW n \in Nodes, DownloadReplica(r, i, n)
      PROVE  download' \in [Readers -> Downloads]
  <2>1. [d EXCEPT !.todo = @ \ {i}, !.sent = @ \cup {i}] \in Downloads
    BY <1>1 DEF Downloads
  <2>2. [d EXCEPT !.replicas[i] = @ \ {n}] \in Downloads
    BY <1>1 DEF Downloads
  <2>3. \/ download' = [download EXCEPT ![r].todo = @ \ {i}, ![r].sent = @ \cup {i}]
        \/ download' = [download EXCEPT ![r].replicas[i] = @ \ {n}]
    BY <1>5 DEF DownloadReplica, NextReplica
  <2> QED BY <1>1, <2>1, <2>2, <2>3
<1>6. ASSUME DownloadEnd(r) PROVE download' \in [Readers -> Downloads]
  <2>1. \A pc \in {"ok", "short", "error"} :
           [d EXCEPT !.pc = pc, !.todo = {}, !.replicas = NoNodes] \in Downloads
    BY <1>1 DEF Downloads
  <2>2. \E pc \in {"ok", "short", "error"} :
           download' = [download EXCEPT ![r].pc = pc, ![r].todo = {}, ![r].replicas = NoNodes]
    BY <1>6 DEF DownloadEnd
  <2> QED BY <1>1, <2>1, <2>2
<1>7. /\ UNCHANGED <<calls, disk, alive, metadataVars, ringVars, upload, part, kept, removal, victims>>
      /\ UNCHANGED faults \/ \E kind : Fault(kind)
  BY DEF DownloadStep, DownloadStart, DownloadRows, DownloadReplica, DownloadEnd, storageVars
<1>8. HandlerTypeOK'
  BY <1>0, <1>3, <1>4, <1>5, <1>6, <1>7 DEF DownloadStep, HandlerTypeOK
<1>9. StorageTypeOK'
  BY <1>0, <1>7, FaultType DEF StorageTypeOK
<1> QED BY <1>0, <1>7, <1>8, <1>9, Untouched, HandlerFrame DEF metadataVars

\* Every step of a DELETE keeps the types.
LEMMA DeleteTyped ==
    ASSUME TypeInv, NEW o \in Objects, UNCHANGED workerVars,
           DeleteStep(o) \/ DeleteStart(o) \/ DeleteCancelled(o)
    PROVE  TypeInv'
<1>0. StorageTypeOK /\ MetadataTypeOK /\ HandlerTypeOK /\ \A x \in Objects : chunks[x] \subseteq Parts(x)
  BY DEF TypeInv, TypeOK, RowsInBody
<1>1. NoNodes \in [AllParts -> SUBSET Nodes]
  BY DEF NoNodes
<1>2. CASE DeleteStart(o)
  <2>1. ASSUME NEW k \in AllParts
        PROVE  [i \in AllParts |-> IF i < k THEN locations[o][i] ELSE {}] \in [AllParts -> SUBSET Nodes]
    BY <1>0 DEF MetadataTypeOK
  <2>2. victims' \in [Objects -> [AllParts -> SUBSET Nodes]]
    BY <1>0, <1>2, <2>1 DEF DeleteStart, HandlerTypeOK, MetadataTypeOK
  <2>3. HandlerTypeOK'
    BY <1>0, <1>2, <2>2 DEF DeleteStart, HandlerTypeOK
  <2>4. StorageTypeOK'
    BY <1>0, <1>2, FaultType DEF DeleteStart, StorageTypeOK
  <2>5. UNCHANGED <<metadataVars, ringVars>>
    BY <1>2 DEF DeleteStart
  <2> QED BY <1>0, <2>3, <2>4, <2>5, Untouched, HandlerFrame DEF metadataVars
<1>3. CASE DeleteRows(o)
  <2>1. ASSUME NEW i \in Parts(o)
        PROVE  DeleteCalls(SweepCaller(o, i), victims[o][i], Body[o][i]) \subseteq Calls
    <3>1. victims[o][i] \in SUBSET Nodes /\ "good" \in Bytes
      BY <1>0, BodyType DEF HandlerTypeOK, Bytes
    <3> QED BY <3>1, BodyType, NewCallsType
  <2>2. StorageTypeOK'
    <3>1. calls' \in SUBSET Calls
      BY <1>0, <1>3, <2>1 DEF DeleteRows, StorageTypeOK
    <3> QED BY <1>0, <1>3, <3>1, FaultType DEF DeleteRows, StorageTypeOK
  <2>3. HandlerTypeOK'
    BY <1>0, <1>1, <1>3 DEF DeleteRows, HandlerTypeOK
  <2>4. DeleteObject(o) \/ UNCHANGED metadataVars
    BY <1>3 DEF DeleteRows
  <2>5. MetadataTypeOK' /\ \A x \in Objects : chunks'[x] \subseteq Parts(x)
    BY <1>0, <2>4 DEF DeleteObject, MetadataTypeOK, metadataVars
  <2>6. UNCHANGED ringVars
    BY <1>3 DEF DeleteRows
  <2> QED BY <2>2, <2>3, <2>5, <2>6, HandlerFrame
<1>4. CASE DeleteDone(o) \/ DeleteCancelled(o)
  <2>1. HandlerTypeOK'
    BY <1>0, <1>4 DEF DeleteDone, DeleteCancelled, HandlerTypeOK
  <2>2. StorageTypeOK'
    BY <1>0, <1>4, AbandonType DEF DeleteDone, DeleteCancelled, StorageTypeOK
  <2>3. UNCHANGED <<metadataVars, ringVars>>
    BY <1>4 DEF DeleteDone, DeleteCancelled
  <2> QED BY <1>0, <2>1, <2>2, <2>3, Untouched, HandlerFrame DEF metadataVars
<1> QED BY <1>2, <1>3, <1>4 DEF DeleteStep

----------------------------------------------------------------------------
(* The worker.                                                             *)

\* A step of the worker that keeps the types of what it changes.
LEMMA WorkerFrame ==
    ASSUME TypeInv, StorageTypeOK', MetadataTypeOK', WorkerTypeOK', RowsInBody',
           UNCHANGED <<ringVars, handlerVars>>
    PROVE  TypeInv'
  BY Untouched DEF TypeInv, TypeOK

\* The row between visits is a row.
LEMMA NoRowType == NoRow \in Rows /\ "good" \in Bytes
<1>1. PICK o \in Objects : o = CHOOSE x \in Objects : TRUE
  BY ClusterAssumption
<1>2. PICK i \in AllParts : i = CHOOSE x \in AllParts : TRUE
  BY ClusterAssumption
<1> QED BY <1>1, <1>2 DEF NoRow, Rows, Bytes

\* A visited row names a chunk of its object's body.
LEMMA RowType ==
    ASSUME TypeInv, rebalancer \notin {"asleep", "check", "pick"}
    PROVE  /\ row.object \in Objects /\ row.part \in AllParts /\ row.part \in Parts(row.object)
           /\ row.nodes \in SUBSET Nodes
           /\ RowHash \in Hashes /\ RowCaller \in Callers
<1>1. row \in Rows /\ row.part \in Parts(row.object)
  BY DEF TypeInv, TypeOK, WorkerTypeOK, RowsInBody
<1>2. row.object \in Objects /\ row.part \in AllParts /\ row.nodes \in SUBSET Nodes
  BY <1>1 DEF Rows
<1>3. RowHash \in Hashes
  BY <1>1, <1>2, BodyType DEF RowHash
<1>4. RowCaller \in Callers
  BY <1>2 DEF RowCaller, Callers
<1> QED BY <1>1, <1>2, <1>3, <1>4

\* The scan returns rows of chunks that exist.
LEMMA ScanType ==
    ASSUME TypeInv
    PROVE  GetAllChunks \subseteq Rows /\ \A r \in GetAllChunks : r.part \in Parts(r.object)
<1>1. MetadataTypeOK /\ \A x \in Objects : chunks[x] \subseteq Parts(x)
  BY DEF TypeInv, TypeOK, RowsInBody
<1>2. ASSUME NEW o \in Objects, NEW i \in Joined(o)
      PROVE  /\ [object |-> o, part |-> i, nodes |-> locations[o][i]] \in Rows
             /\ i \in Parts(o)
  BY <1>1, <1>2 DEF Joined, MetadataTypeOK, Rows
<1>3. ASSUME NEW r \in GetAllChunks PROVE r \in Rows /\ r.part \in Parts(r.object)
  <2>1. PICK q \in Objects \X AllParts : /\ q[2] \in Joined(q[1])
          /\ r = [object |-> q[1], part |-> q[2], nodes |-> locations[q[1]][q[2]]]
    BY DEF GetAllChunks
  <2> QED BY <1>2, <2>1
<1> QED BY <1>3

\* Every step of the worker keeps the types.
LEMMA WorkerTyped == TypeInv /\ WorkerStep => TypeInv'
<1> SUFFICES ASSUME TypeInv, WorkerStep PROVE TypeInv'
  OBVIOUS
<1>0. StorageTypeOK /\ MetadataTypeOK /\ RingTypeOK /\ WorkerTypeOK /\ RowsInBody
  BY DEF TypeInv, TypeOK
<1>1. CASE ScanChunks
  <2>1. rows' \subseteq GetAllChunks
    BY <1>1 DEF ScanChunks
  <2>2. WorkerTypeOK' /\ RowsInBody'
    BY <1>0, <1>1, <2>1, ScanType DEF ScanChunks, WorkerTypeOK, RowsInBody, metadataVars
  <2>3. StorageTypeOK'
    BY <1>0, <1>1, FaultType DEF ScanChunks, StorageTypeOK
  <2> QED BY <1>0, <1>1, <2>2, <2>3, Untouched, WorkerFrame DEF ScanChunks
<1>2. CASE CheckRing \/ AllRecorded \/ PassDone
  <2>1. WorkerTypeOK' /\ RowsInBody'
    BY <1>0, <1>2 DEF CheckRing, AllRecorded, PassDone, WorkerTypeOK, RowsInBody, gatewayVars, metadataVars
  <2> QED BY <1>0, <1>2, <2>1, Untouched, WorkerFrame
          DEF CheckRing, AllRecorded, PassDone, gatewayVars
<1>3. CASE FetchFailed \/ RowDone
  <2>1. WorkerTypeOK' /\ RowsInBody'
    BY <1>0, <1>3, NoRowType
       DEF FetchFailed, RowDone, Forget, WorkerTypeOK, RowsInBody, gatewayVars, metadataVars
  <2> QED BY <1>0, <1>3, <2>1, Untouched, WorkerFrame DEF FetchFailed, RowDone, gatewayVars
<1>4. CASE PickRow
  <2>1. PICK r \in rows : /\ rows' = rows \ {r} /\ UNCHANGED <<gatewayVars, payload, saved, obsolete>>
                          /\ \/ UNCHANGED <<rebalancer, row, expected, sources>>
                             \/ /\ rebalancer' = "fetch" /\ row' = r /\ sources' = r.nodes
                                /\ expected' = GetNodes(ring, Body[r.object][r.part])
    BY <1>4 DEF PickRow
  <2>2. r \in Rows /\ r.nodes \in SUBSET Nodes /\ r.part \in Parts(r.object)
    BY <1>0 DEF WorkerTypeOK, RowsInBody, Rows
  <2>3. GetNodes(ring, Body[r.object][r.part]) \in SUBSET Nodes
    BY <1>0, GetNodesType DEF RingTypeOK
  <2>4. WorkerTypeOK'
    BY <1>0, <2>1, <2>2, <2>3 DEF WorkerTypeOK
  <2>5. RowsInBody'
    BY <1>0, <2>1, <2>2 DEF RowsInBody, gatewayVars, metadataVars
  <2> QED BY <1>0, <2>1, <2>4, <2>5, Untouched, WorkerFrame DEF gatewayVars
<1>5. CASE CopiesSaved
  <2>1. Succeeded(RowCaller) \in SUBSET Nodes
    BY <1>0, SucceededType DEF StorageTypeOK
  <2>2. WorkerTypeOK' /\ RowsInBody'
    BY <1>0, <1>5, <2>1 DEF CopiesSaved, WorkerTypeOK, RowsInBody, metadataVars
  <2>3. StorageTypeOK'
    BY <1>0, <1>5 DEF CopiesSaved, StorageTypeOK
  <2> QED BY <1>0, <1>5, <2>2, <2>3, Untouched, WorkerFrame DEF CopiesSaved
<1>6. ASSUME NEW n \in Nodes, FetchCopy(n) PROVE TypeInv'
  <2>1. RowHash \in Hashes /\ RowCaller \in Callers /\ row.nodes \in SUBSET Nodes
        /\ row.part \in Parts(row.object)
    BY <1>6, RowType DEF FetchCopy
  <2>2. ASSUME NEW bytes \in Bytes
        PROVE  SaveCalls(RowCaller, expected \ row.nodes, RowHash, bytes) \subseteq Calls
    BY <1>0, <2>1, NewCallsType DEF WorkerTypeOK
  <2>3. /\ UNCHANGED <<disk, alive, metadataVars, ringVars, handlerVars, rows>>
        /\ UNCHANGED faults \/ \E kind : Fault(kind)
        /\ \/ /\ sources' = sources \ {n}
              /\ UNCHANGED <<rebalancer, row, expected, payload, saved, obsolete, calls>>
           \/ rebalancer' = "pick" /\ Forget /\ UNCHANGED calls
           \/ \E bytes \in Bytes :
                /\ sources' = {} /\ payload' = bytes /\ obsolete' = ObsoleteNodes
                /\ rebalancer' \in {"clearing", "saving"}
                /\ calls' = calls \cup SaveCalls(RowCaller, expected \ row.nodes, RowHash, bytes)
                /\ UNCHANGED <<row, expected, saved>>
    BY <1>6 DEF FetchCopy, Usable
  <2>4. StorageTypeOK'
    <3>1. calls' \in SUBSET Calls
      BY <1>0, <2>2, <2>3 DEF StorageTypeOK
    <3> QED BY <1>0, <2>3, <3>1, FaultType DEF StorageTypeOK
  <2>5. WorkerTypeOK'
    BY <1>0, <2>1, <2>3, NoRowType DEF WorkerTypeOK, Forget, ObsoleteNodes
  <2>6. RowsInBody'
    BY <1>0, <2>1, <2>3 DEF RowsInBody, metadataVars
  <2> QED BY <1>0, <2>3, <2>4, <2>5, <2>6, Untouched, WorkerFrame
<1>7. ASSUME NEW n \in Nodes, RecordCopy(n) \/ ForgetCopy(n) PROVE TypeInv'
  <2>1. row.object \in Objects /\ row.part \in AllParts /\ row.part \in Parts(row.object)
    BY <1>7, RowType DEF RecordCopy, ForgetCopy
  <2>2. \/ AddChunkLocation(row.object, row.part, n)
        \/ RemoveChunkLocation(row.object, row.part, n)
        \/ UNCHANGED metadataVars
    BY <1>7 DEF RecordCopy, ForgetCopy
  <2>3. MetadataTypeOK' /\ chunks' = chunks
    BY <1>0, <2>1, <2>2, MetadataStatements
  <2>4. StorageTypeOK'
    BY <1>0, <1>7, FaultType DEF RecordCopy, ForgetCopy, StorageTypeOK
  <2>5. WorkerTypeOK' /\ RowsInBody'
    BY <1>0, <1>7, <2>1, <2>3 DEF RecordCopy, ForgetCopy, WorkerTypeOK, RowsInBody
  <2>6. UNCHANGED <<ringVars, handlerVars>>
    BY <1>7 DEF RecordCopy, ForgetCopy
  <2> QED BY <2>3, <2>4, <2>5, <2>6, WorkerFrame
<1>8. ASSUME NEW n \in Nodes, DeleteCopy(n) PROVE TypeInv'
  <2>1. DeleteCalls(RowCaller, {n}, RowHash) \subseteq Calls
    <3>1. RowHash \in Hashes /\ RowCaller \in Callers /\ {n} \in SUBSET Nodes /\ "good" \in Bytes
      BY <1>8, RowType DEF DeleteCopy, Bytes
    <3> QED BY <3>1, NewCallsType
  <2>2. StorageTypeOK'
    BY <1>0, <1>8, <2>1 DEF DeleteCopy, StorageTypeOK
  <2>3. row.part \in Parts(row.object)
    BY <1>8, RowType DEF DeleteCopy
  <2>4. WorkerTypeOK' /\ RowsInBody'
    BY <1>0, <1>8, <2>3 DEF DeleteCopy, WorkerTypeOK, RowsInBody, metadataVars
  <2> QED BY <1>0, <1>8, <2>2, <2>4, Untouched, WorkerFrame DEF DeleteCopy
<1> QED BY <1>1, <1>2, <1>3, <1>4, <1>5, <1>6, <1>7, <1>8 DEF WorkerStep

\* A gateway that starts anew is typed.
LEMMA CrashTyped == TypeInv /\ GatewayCrash => TypeInv'
<1> SUFFICES ASSUME TypeInv, GatewayCrash PROVE TypeInv'
  OBVIOUS
<1>0. StorageTypeOK /\ MetadataTypeOK /\ RingTypeOK /\ HandlerTypeOK /\ WorkerTypeOK /\ RowsInBody
  BY DEF TypeInv, TypeOK
<1>1. StorageTypeOK'
  BY <1>0, AbandonType, FaultType DEF GatewayCrash, StorageTypeOK
<1>2. MetadataTypeOK' /\ RowsInBody'
  BY <1>0, Untouched DEF GatewayCrash, WorkerRestart, RowsInBody, metadataVars
<1>3. RingTypeOK'
  BY <1>0, RingRestartType DEF GatewayCrash
<1>4. HandlerTypeOK'
  <2>1. NoNodes \in [AllParts -> SUBSET Nodes]
    BY DEF NoNodes
  <2>2. ASSUME NEW d \in Downloads
        PROVE  [d EXCEPT !.pc = "lost", !.todo = {}, !.replicas = NoNodes] \in Downloads
    BY <2>1 DEF Downloads
  <2>3. download' \in [Readers -> Downloads]
    BY <1>0, <2>2 DEF GatewayCrash, HandlersLost, HandlerTypeOK
  <2> QED BY <1>0, <2>1, <2>3 DEF GatewayCrash, HandlersLost, HandlerTypeOK
<1>5. WorkerTypeOK'
  BY NoRowType DEF GatewayCrash, WorkerRestart, Forget, WorkerTypeOK
<1> QED BY <1>1, <1>2, <1>3, <1>4, <1>5 DEF TypeInv, TypeOK

----------------------------------------------------------------------------
\* Every action of the program, with any interleaving of handlers, worker and
\* nodes and any failures, keeps every table, file, call and local typed.
THEOREM TypeCorrect == Spec => []TypeInv /\ []TypeOK
<1>1. TypeInv /\ [Next]_vars => TypeInv'
  <2> SUFFICES ASSUME TypeInv, [Next]_vars PROVE TypeInv'
    OBVIOUS
  <2>1. CASE Client
    BY <2>1, UploadTyped, DownloadTyped, DeleteTyped DEF Client
  <2>2. ASSUME NEW o \in Objects, Uploading(o) \/ Deleting(o) PROVE TypeInv'
    BY <2>2, UploadTyped, DeleteTyped DEF Uploading, Deleting
  <2>3. ASSUME NEW r \in Readers, Downloading(r) PROVE TypeInv'
    BY <2>3, DownloadTyped DEF Downloading
  <2>4. CASE UNCHANGED vars
    BY <2>4, Untouched DEF vars, gatewayVars, metadataVars, TypeInv, TypeOK
  <2> QED BY <2>1, <2>2, <2>3, <2>4, StorageTyped, SyncTyped, WorkerTyped, CrashTyped DEF Next
<1>2. TypeInv => TypeOK
  BY DEF TypeInv
<1> QED BY <1>1, <1>2, InitTyped, PTL DEF Spec

----------------------------------------------------------------------------
(* An acknowledged upload.                                                 *)

(* How far the handler of an upload and its rows are apart.  AckedComplete *)
(* is not inductive: that 201 finds every row in the table rests on what   *)
(* has been recorded before.                                               *)

\* The object row is not there before the handler wrote it, nor afterwards
\* taken away but by a DELETE, which leaves "deleted".
RowWritten(o) ==
    /\ upload[o] \in {"idle", "reading"} => objects[o] = "none"
    /\ upload[o] \in {"meta", "acked"} => objects[o] # "none"

\* No chunk row without its object row.
NoStrayRows(o) == chunks[o] # {} => objects[o] = "stored"

\* A goroutine's "recorded" means that the row is in the table.
RecordedRows(o) ==
    objects[o] = "stored" /\ upload[o] \in {"meta", "acked"} =>
        \A i \in Parts(o) : part[o][i] = "recorded" => i \in chunks[o]

AckedRecorded(o) == upload[o] = "acked" => \A i \in Parts(o) : part[o][i] = "recorded"

UploadInv(o) == RowWritten(o) /\ NoStrayRows(o) /\ RecordedRows(o) /\ AckedRecorded(o)

ServiceInv == TypeInv /\ \A o \in Objects : UploadInv(o)

\* The tables and the upload's own variables decide UploadInv.
LEMMA UploadFrame ==
    ASSUME ServiceInv, UNCHANGED <<objects, chunks, upload, part>>
    PROVE  \A o \in Objects : UploadInv(o)'
  BY DEF ServiceInv, UploadInv, RowWritten, NoStrayRows, RecordedRows, AckedRecorded

\* No step breaks it: one case per action that writes a table, an upload or
\* the state of a chunk's goroutine.
LEMMA UploadStepInv ==
    ASSUME ServiceInv, NEW o \in Objects,
           UploadStep(o) \/ UploadStart(o) \/ BodyError(o)
    PROVE  \A x \in Objects : UploadInv(x)'
<1> USE DEF UploadInv, RowWritten, NoStrayRows, RecordedRows, AckedRecorded
<1>0. HandlerTypeOK /\ MetadataTypeOK /\ \A x \in Objects : UploadInv(x)
  BY DEF ServiceInv, TypeInv, TypeOK
<1>1. CASE UploadStart(o) \/ ChunksFailed(o) \/ BodyError(o)
  BY <1>0, <1>1 DEF UploadStart, ChunksFailed, BodyError, metadataVars, HandlerTypeOK
<1>2. CASE UploadDone(o)
  BY <1>0, <1>2 DEF UploadDone, metadataVars, HandlerTypeOK
<1>3. CASE CreateObjectRow(o)
  <2>1. CreateObject(o) \/ UNCHANGED metadataVars
    BY <1>3 DEF CreateObjectRow
  <2>2. /\ upload[o] = "reading" /\ upload' \in {[upload EXCEPT ![o] = "meta"],
                                                 [upload EXCEPT ![o] = "failed"]}
        /\ upload'[o] = "meta" => CreateObject(o)
        /\ UNCHANGED part /\ \A i \in Parts(o) : part[o][i] = "stored"
    BY <1>0, <1>3 DEF CreateObjectRow, HandlerTypeOK
  <2>3. /\ \A x \in Objects \ {o} : /\ upload'[x] = upload[x] /\ objects'[x] = objects[x]
        /\ chunks' = chunks /\ objects'[o] \in {"none", "stored"}
        /\ upload'[o] \in {"meta", "failed"} /\ (upload'[o] = "meta" => objects'[o] = "stored")
        /\ objects[o] = "none"
    BY <1>0, <2>1, <2>2 DEF CreateObject, metadataVars, HandlerTypeOK, MetadataTypeOK
  <2>4. UploadInv(o)'
    BY <1>0, <2>2, <2>3
  <2>5. ASSUME NEW x \in Objects \ {o} PROVE UploadInv(x)'
    BY <1>0, <2>2, <2>3
  <2> QED BY <2>4, <2>5
<1>4. ASSUME NEW i \in Parts(o), PlaceChunk(o, i) \/ SettleChunk(o, i)
      PROVE  \A x \in Objects : UploadInv(x)'
  <2>1. i \in AllParts
    BY BodyType
  <2>2. /\ upload[o] = "reading" /\ UNCHANGED <<objects, chunks, upload>>
        /\ \E v \in {"failed", "saving", "stored"} : part' = [part EXCEPT ![o][i] = v]
    BY <1>4 DEF PlaceChunk, SettleChunk, metadataVars
  <2> QED BY <1>0, <2>1, <2>2 DEF HandlerTypeOK
<1>5. ASSUME NEW i \in Parts(o), CreateChunkRow(o, i) PROVE \A x \in Objects : UploadInv(x)'
  <2>1. i \in AllParts
    BY BodyType
  <2> QED BY <1>0, <1>5, <2>1 DEF CreateChunkRow, CreateChunk, HandlerTypeOK, MetadataTypeOK
<1>6. ASSUME NEW i \in Parts(o), CreateChunkFails(o, i) PROVE \A x \in Objects : UploadInv(x)'
  <2>1. /\ CreateChunk(o, i, kept[o][i]) \/ UNCHANGED metadataVars
        /\ upload' = [upload EXCEPT ![o] = "failed"] /\ UNCHANGED part
    BY <1>6 DEF CreateChunkFails
  <2> QED BY <1>0, <2>1 DEF CreateChunk, metadataVars, HandlerTypeOK, MetadataTypeOK
<1> QED BY <1>1, <1>2, <1>3, <1>4, <1>5, <1>6 DEF UploadStep

\* The steps of DELETE keep what the upload of the same object relies on.
LEMMA DeleteStepInv ==
    ASSUME ServiceInv, NEW o \in Objects,
           DeleteStep(o) \/ DeleteStart(o) \/ DeleteCancelled(o)
    PROVE  \A x \in Objects : UploadInv(x)'
<1>0. HandlerTypeOK /\ MetadataTypeOK /\ \A x \in Objects : UploadInv(x)
  BY DEF ServiceInv, TypeInv, TypeOK
<1>1. CASE DeleteObject(o) /\ UNCHANGED <<upload, part>>
  BY <1>0, <1>1 DEF DeleteObject, MetadataTypeOK, UploadInv, RowWritten, NoStrayRows,
                    RecordedRows, AckedRecorded
<1>2. CASE UNCHANGED metadataVars /\ UNCHANGED <<upload, part>>
  BY <1>2, UploadFrame DEF metadataVars
<1>3. (DeleteObject(o) \/ UNCHANGED metadataVars) /\ UNCHANGED <<upload, part>>
  BY DEF DeleteStep, DeleteRows, DeleteDone, DeleteStart, DeleteCancelled
<1> QED BY <1>1, <1>2, <1>3

\* Storage nodes, ring, downloads and the worker do not touch it.
LEMMA OtherStepsFrame ==
    ASSUME \/ Storage \/ Sync \/ WorkerStep \/ UNCHANGED vars
           \/ \E r \in Readers : Downloading(r) \/ \E o \in Objects : DownloadStart(r, o)
    PROVE  UNCHANGED <<objects, chunks, upload, part>>
<1> USE DEF metadataVars, handlerVars
<1>1. CASE Storage \/ Sync \/ UNCHANGED vars
  BY <1>1 DEF Storage, Sync, vars, gatewayVars
<1>2. ASSUME NEW r \in Readers, Downloading(r) \/ \E o \in Objects : DownloadStart(r, o)
      PROVE  UNCHANGED <<objects, chunks, upload, part>>
  BY <1>2 DEF Downloading, DownloadStep, DownloadStart, DownloadRows, DownloadReplica, DownloadEnd
<1>3. CASE WorkerStep
  <2>1. ASSUME NEW n \in Nodes, RecordCopy(n) \/ ForgetCopy(n)
        PROVE  UNCHANGED <<objects, chunks, upload, part>>
    BY <2>1 DEF RecordCopy, ForgetCopy, AddChunkLocation, RemoveChunkLocation
  <2>2. ASSUME NEW n \in Nodes, FetchCopy(n) \/ DeleteCopy(n)
        PROVE  UNCHANGED <<objects, chunks, upload, part>>
    BY <2>2 DEF FetchCopy, DeleteCopy
  <2>3. CASE ScanChunks \/ CheckRing \/ PickRow \/ FetchFailed \/ CopiesSaved
              \/ AllRecorded \/ RowDone \/ PassDone
    BY <2>3 DEF ScanChunks, CheckRing, PickRow, FetchFailed, CopiesSaved, AllRecorded,
                RowDone, PassDone, gatewayVars
  <2> QED BY <1>3, <2>1, <2>2, <2>3 DEF WorkerStep
<1> QED BY <1>1, <1>2, <1>3

\* So does the death of the gateway, which fails every upload under way.
LEMMA CrashInv == ASSUME ServiceInv, GatewayCrash PROVE \A o \in Objects : UploadInv(o)'
  BY DEF ServiceInv, GatewayCrash, HandlersLost, metadataVars, UploadInv, RowWritten,
         NoStrayRows, RecordedRows, AckedRecorded

\* The invariant of the specification.
THEOREM ServiceInvariant == Spec => []ServiceInv
<1>1. Init => ServiceInv
  BY InitTyped DEF Init, MetadataInit, HandlerInit, ServiceInv, UploadInv, RowWritten,
                   NoStrayRows, RecordedRows, AckedRecorded
<1>2. ServiceInv /\ TypeInv' /\ [Next]_vars => ServiceInv'
  <2> SUFFICES ASSUME ServiceInv, [Next]_vars PROVE \A o \in Objects : UploadInv(o)'
    BY DEF ServiceInv
  <2>1. CASE Client
    BY <2>1, UploadStepInv, DeleteStepInv, OtherStepsFrame, UploadFrame DEF Client
  <2>2. ASSUME NEW o \in Objects, Uploading(o) \/ Deleting(o) PROVE \A x \in Objects : UploadInv(x)'
    BY <2>2, UploadStepInv, DeleteStepInv DEF Uploading, Deleting
  <2> QED BY <2>1, <2>2, OtherStepsFrame, UploadFrame, CrashInv DEF Next
<1> QED BY <1>1, <1>2, TypeCorrect, PTL DEF Spec

\* An upload answered 201 has all its chunk rows until it is deleted, however
\* its inserts interleave with a DELETE, with other requests and with crashes.
THEOREM AckedUploadsComplete == Spec => []AckedComplete
<1>1. ServiceInv => AckedComplete
  <2> SUFFICES ASSUME ServiceInv, NEW o \in Objects, Live(o) PROVE chunks[o] = Parts(o)
    BY DEF AckedComplete
  <2>1. chunks[o] \subseteq Parts(o)
    BY DEF ServiceInv, TypeInv, RowsInBody
  <2>2. Parts(o) \subseteq chunks[o]
    BY DEF ServiceInv, UploadInv, RecordedRows, AckedRecorded, Live
  <2> QED BY <2>1, <2>2
<1> QED BY <1>1, ServiceInvariant, PTL

----------------------------------------------------------------------------
(* ObjectStore implements ObjectService.                                   *)

\* What the refinement mapping makes of one object.
LEMMA Mapped ==
    ASSUME NEW o \in Objects
    PROVE  /\ objects[o] = "none" => Status[o] = "none"
           /\ objects[o] = "deleted" => Status[o] = "gone"
           /\ objects[o] = "stored" /\ chunks[o] = Parts(o) => Status[o] = "whole"
           /\ objects[o] = "stored" /\ chunks[o] # Parts(o) => Status[o] = "partial"
           /\ upload[o] = "acked" => Reply[o] = "created"
           /\ upload[o] = "failed" => Reply[o] = "error"
           /\ upload[o] \notin {"acked", "failed"} => Reply[o] = "none"
  BY DEF Status, Reply

\* A step on the rows and the upload of one object is a step on that object.
LEMMA MappedStep ==
    ASSUME NEW o \in Objects,
           \A x \in Objects \ {o} : /\ objects'[x] = objects[x] /\ chunks'[x] = chunks[x]
                                    /\ upload'[x] = upload[x]
    PROVE  /\ Status' = [Status EXCEPT ![o] = Status'[o]]
           /\ Reply' = [Reply EXCEPT ![o] = Reply'[o]]
<1>1. \A x \in Objects \ {o} : Status'[x] = Status[x] /\ Reply'[x] = Reply[x]
  BY DEF Status, Reply
<1>2. /\ Status = [x \in Objects |-> Status[x]] /\ Status' = [x \in Objects |-> Status'[x]]
      /\ Reply = [x \in Objects |-> Reply[x]] /\ Reply' = [x \in Objects |-> Reply'[x]]
  BY DEF Status, Reply
<1> HIDE DEF Status, Reply
<1> QED BY <1>1, <1>2

\* Every step of an upload is a step of the service or a stutter.
LEMMA UploadMapped ==
    ASSUME ServiceInv, ServiceInv', NEW o \in Objects,
           UploadStep(o) \/ UploadStart(o) \/ BodyError(o)
    PROVE  Service!Next \/ UNCHANGED <<Status, Reply>>
<1>0. /\ HandlerTypeOK /\ MetadataTypeOK /\ UploadInv(o) /\ UploadInv(o)'
      /\ chunks[o] \subseteq Parts(o) /\ chunks'[o] \subseteq Parts(o)
  BY DEF ServiceInv, TypeInv, TypeOK, RowsInBody
<1>1. \A x \in Objects \ {o} : /\ objects'[x] = objects[x] /\ chunks'[x] = chunks[x]
                               /\ upload'[x] = upload[x]
  BY <1>0 DEF UploadStep, UploadStart, BodyError, ChunksFailed, UploadDone, CreateObjectRow,
     PlaceChunk, SettleChunk, CreateChunkRow, CreateChunkFails, CreateObject, CreateChunk,
     metadataVars, HandlerTypeOK, MetadataTypeOK
<1>2. /\ Status' = [Status EXCEPT ![o] = Status'[o]] /\ Reply' = [Reply EXCEPT ![o] = Reply'[o]]
      /\ Status = [Status EXCEPT ![o] = Status[o]] /\ Reply = [Reply EXCEPT ![o] = Reply[o]]
  <2>1. Status = [Status EXCEPT ![o] = Status[o]] /\ Reply = [Reply EXCEPT ![o] = Reply[o]]
    BY DEF Status, Reply
  <2> QED BY <1>1, <2>1, MappedStep
<1>3. ASSUME Reply[o] = "none", Reply'[o] = "none", Status'[o] \in Service!Growth(Status[o])
      PROVE  Service!Next
  BY <1>2, <1>3 DEF Service!Next, Service!Grow
<1>4. ASSUME Reply[o] = "none", Reply'[o] = "error", Status'[o] \in Service!Growth(Status[o])
      PROVE  Service!Next
  BY <1>2, <1>4 DEF Service!Next, Service!Refuse
<1>5. ASSUME \/ objects' = objects /\ chunks' = chunks
             \/ CreateObject(o) /\ objects[o] = "none"
             \/ \E i \in Parts(o) : CreateChunk(o, i, kept[o][i])
      PROVE  Status'[o] \in Service!Growth(Status[o])
  <2>1. CASE (objects' = objects /\ chunks' = chunks)
    BY <2>1 DEF Status, Service!Growth
  <2>2. CASE CreateObject(o) /\ objects[o] = "none"
    BY <1>0, <2>2 DEF CreateObject, MetadataTypeOK, Status, Service!Growth
  <2>3. ASSUME NEW i \in Parts(o), CreateChunk(o, i, kept[o][i])
        PROVE  Status'[o] \in Service!Growth(Status[o])
    <3>1. /\ objects[o] = "stored" /\ objects'[o] = "stored" /\ chunks[o] \subseteq chunks'[o]
      BY <1>0, <2>3 DEF CreateChunk, MetadataTypeOK
    <3>2. chunks[o] = Parts(o) => chunks'[o] = Parts(o)
      BY <1>0, <3>1
    <3> QED BY <3>1, <3>2 DEF Status, Service!Growth
  <2> QED BY <1>5, <2>1, <2>2, <2>3
<1>6. CASE UploadStart(o)
  <2>1. Reply'[o] = Reply[o] /\ (objects' = objects /\ chunks' = chunks)
    BY <1>0, <1>6 DEF UploadStart, Reply, HandlerTypeOK, metadataVars
  <2>2. Status' = Status
    BY <2>1 DEF Status
  <2> QED BY <1>2, <2>1, <2>2
<1>7. CASE ChunksFailed(o) \/ BodyError(o)
  <2>1. Reply[o] = "none" /\ Reply'[o] = "error" /\ (objects' = objects /\ chunks' = chunks)
    BY <1>0, <1>7 DEF ChunksFailed, BodyError, Reply, HandlerTypeOK, metadataVars
  <2>2. Status'[o] \in Service!Growth(Status[o])
    BY <1>5, <2>1
  <2> QED BY <1>4, <2>1, <2>2
<1>8. CASE CreateObjectRow(o)
  <2>1. objects[o] = "none"
    BY <1>0, <1>8 DEF CreateObjectRow, UploadInv, RowWritten
  <2>2. CreateObject(o) \/ (objects' = objects /\ chunks' = chunks)
    BY <1>8 DEF CreateObjectRow, metadataVars
  <2>3. Reply[o] = "none" /\ Reply'[o] \in {"none", "error"}
    BY <1>0, <1>8 DEF CreateObjectRow, Reply, HandlerTypeOK
  <2> QED BY <1>3, <1>4, <1>5, <2>1, <2>2, <2>3
<1>9. CASE UploadDone(o)
  <2>1. Reply[o] = "none" /\ Reply'[o] = "created" /\ (objects' = objects /\ chunks' = chunks)
        /\ upload[o] = "meta"
    BY <1>0, <1>9 DEF UploadDone, Reply, HandlerTypeOK, metadataVars
  <2>2. Status' = Status
    BY <2>1 DEF Status
  <2>3. objects[o] = "stored" => chunks[o] = Parts(o)
    BY <1>0, <1>9 DEF UploadDone, UploadInv, RecordedRows
  <2>4. objects[o] \in {"stored", "deleted"}
    BY <1>0, <2>1 DEF UploadInv, RowWritten, MetadataTypeOK
  <2>5. Status[o] \in {"whole", "gone"}
    BY <2>3, <2>4, Mapped
  <2> QED BY <1>2, <2>1, <2>2, <2>5 DEF Service!Next, Service!Acknowledge
<1>10. ASSUME NEW i \in Parts(o), PlaceChunk(o, i) \/ SettleChunk(o, i)
       PROVE  UNCHANGED <<Status, Reply>>
  <2>1. UNCHANGED <<objects, chunks, upload>>
    BY <1>10 DEF PlaceChunk, SettleChunk, metadataVars
  <2> QED BY <2>1 DEF Status, Reply
<1>11. ASSUME NEW i \in Parts(o), CreateChunkRow(o, i) \/ CreateChunkFails(o, i)
       PROVE  Service!Next
  <2>1. CreateChunk(o, i, kept[o][i]) \/ (objects' = objects /\ chunks' = chunks)
    BY <1>11 DEF CreateChunkRow, CreateChunkFails, metadataVars
  <2>2. Reply[o] = "none" /\ Reply'[o] \in {"none", "error"}
    BY <1>0, <1>11 DEF CreateChunkRow, CreateChunkFails, Reply, HandlerTypeOK
  <2>3. Status'[o] \in Service!Growth(Status[o])
    BY <1>5, <2>1
  <2> QED BY <1>3, <1>4, <2>2, <2>3
<1> QED BY <1>6, <1>7, <1>8, <1>9, <1>10, <1>11 DEF UploadStep

\* So is every step of a DELETE, and the death of the gateway.
LEMMA DeleteMapped ==
    ASSUME ServiceInv, NEW o \in Objects,
           DeleteStep(o) \/ DeleteStart(o) \/ DeleteCancelled(o)
    PROVE  Service!Next \/ UNCHANGED <<Status, Reply>>
<1>0. MetadataTypeOK
  BY DEF ServiceInv, TypeInv, TypeOK
<1>1. (DeleteObject(o) \/ UNCHANGED metadataVars) /\ UNCHANGED upload
  BY DEF DeleteStep, DeleteRows, DeleteDone, DeleteStart, DeleteCancelled
<1>2. CASE DeleteObject(o)
  <2>1. /\ objects[o] = "stored" /\ objects'[o] = "deleted"
        /\ \A x \in Objects \ {o} : objects'[x] = objects[x] /\ chunks'[x] = chunks[x]
    BY <1>0, <1>2 DEF DeleteObject, MetadataTypeOK
  <2>2. Status[o] \in {"partial", "whole"} /\ Status'[o] = "gone" /\ Reply' = Reply
    BY <1>1, <2>1 DEF Status, Reply
  <2>3. Status' = [Status EXCEPT ![o] = "gone"]
    BY <1>1, <2>1, <2>2, MappedStep
  <2> QED BY <2>2, <2>3 DEF Service!Next, Service!Remove
<1>3. CASE UNCHANGED metadataVars
  BY <1>1, <1>3 DEF metadataVars, Status, Reply
<1> QED BY <1>1, <1>2, <1>3

\* The death of the gateway is the RefuseAll of the service.
LEMMA CrashMapped ==
    ASSUME ServiceInv, GatewayCrash
    PROVE  Service!Next
<1> DEFINE R == {o \in Objects : upload[o] \in {"reading", "meta"}}
<1>1. Status' = Status
  BY DEF GatewayCrash, metadataVars, Status
<1>2. \A o \in R : Reply[o] = "none"
  BY DEF Reply
<1>3. Reply' = [o \in Objects |-> IF o \in R THEN "error" ELSE Reply[o]]
  BY DEF GatewayCrash, HandlersLost, Reply
<1>4. Service!RefuseAll(R)
  BY <1>1, <1>2, <1>3 DEF Service!RefuseAll
<1> QED BY <1>4 DEF Service!Next

\* The gateway, its tables and its failures implement the promise of the
\* object API: initial states map to initial states, steps to steps.
THEOREM ImplementsService == Spec => ServiceSpec
<1>1. Init => Service!Init
  BY DEF Init, MetadataInit, HandlerInit, Service!Init, Status, Reply
<1>2. ServiceInv /\ ServiceInv' /\ [Next]_vars => [Service!Next]_(Service!vars)
  <2> SUFFICES ASSUME ServiceInv, ServiceInv', [Next]_vars
               PROVE  Service!Next \/ UNCHANGED <<Status, Reply>>
    BY DEF Service!vars
  <2>1. CASE UNCHANGED <<objects, chunks, upload, part>>
    BY <2>1 DEF Status, Reply
  <2>2. CASE Client
    BY <2>1, <2>2, UploadMapped, DeleteMapped, OtherStepsFrame DEF Client
  <2>3. ASSUME NEW o \in Objects, Uploading(o) \/ Deleting(o)
        PROVE  Service!Next \/ UNCHANGED <<Status, Reply>>
    BY <2>3, UploadMapped, DeleteMapped DEF Uploading, Deleting
  <2> QED BY <2>1, <2>2, <2>3, OtherStepsFrame, CrashMapped DEF Next
<1> QED BY <1>1, <1>2, ServiceInvariant, PTL DEF Spec, ServiceSpec, Service!Spec

----------------------------------------------------------------------------
(* The copies of a chunk, while the rebalancer does not run.  The file of  *)
(* a chunk that two objects have in common goes with the first of them     *)
(* that is deleted, so the theorem is about runs where none of these is.   *)

\* No object that shares a chunk with another one is deleted.
SharedStay ==
    \A o, p \in Objects : \A i \in Parts(o), j \in Parts(p) :
        o # p /\ Body[o][i] = Body[p][j] => objects[p] # "deleted"

\* Every call is of a chunk's goroutine or sweeps a chunk of a deleted object.
BodyCalls ==
    \A c \in calls : \E o \in Objects : \E i \in Parts(o) :
        /\ c.hash = Body[o][i]
        /\ \/ c.by = ChunkCaller(o, i)
           \/ c.by = SweepCaller(o, i) /\ objects[o] = "deleted"

\* The nodes that confirmed the chunk were a quorum, are what its row names,
\* and have lost no more copies since than there were failures.
ChunkCopies(o, i) ==
    /\ OnlySaves(Body[o][i])
    /\ FewLost(Succeeded(ChunkCaller(o, i)), Body[o][i])
    /\ FewLost(kept[o][i], Body[o][i])
    /\ part[o][i] \in {"stored", "recorded"} => EnoughCopies(kept[o][i])
    /\ i \in chunks[o] => locations[o][i] = kept[o][i]

CopiesInv ==
    /\ rebalancer = "asleep" /\ BodyCalls
    /\ \A o \in Objects : objects[o] # "deleted" => \A i \in Parts(o) : ChunkCopies(o, i)

\* A goroutine's calls are for its own chunk.
LEMMA ChunkCalls ==
    ASSUME BodyCalls, NEW o, NEW i, NEW c \in calls, c.by = ChunkCaller(o, i)
    PROVE  c.hash = Body[o][i]
<1>1. ASSUME NEW p, NEW j, ChunkCaller(o, i) = ChunkCaller(p, j) PROVE o = p /\ i = j
  BY <1>1 DEF ChunkCaller
<1>2. ASSUME NEW p, NEW j PROVE ChunkCaller(o, i) # SweepCaller(p, j)
  BY DEF ChunkCaller, SweepCaller
<1> QED BY <1>1, <1>2 DEF BodyCalls

\* The rows and the goroutines name nodes that confirmed the chunk.
RowsConfirmed ==
    \A o \in Objects : objects'[o] # "deleted" => \A i \in Parts(o) :
        /\ kept'[o][i] \in {kept[o][i], Succeeded(ChunkCaller(o, i))}
        /\ part'[o][i] \in {"stored", "recorded"} => EnoughCopies(kept'[o][i])
        /\ i \in chunks'[o] => locations'[o][i] = kept'[o][i]

\* Deleted objects stay deleted.
DeletedStay == \A o \in Objects : objects[o] = "deleted" => objects'[o] = "deleted"

\* A step keeps the copies when each file loses at most one to it and a set of
\* nodes is new only if they have confirmed the chunk.
LEMMA CopiesKept ==
    ASSUME TypeOK, TypeOK', CopiesInv, DeletedStay, BodyCalls', rebalancer' = "asleep",
           RowsConfirmed,
           \A o \in Objects : objects'[o] # "deleted" => \A i \in Parts(o) :
              /\ OneLoss(Body[o][i])
              /\ OnlySaves(Body[o][i])'
              /\ Succeeded(ChunkCaller(o, i))'
                   \subseteq Succeeded(ChunkCaller(o, i)) \cup IntactFiles(Body[o][i])'
    PROVE  CopiesInv'
<1>1. ASSUME NEW o \in Objects, objects'[o] # "deleted", NEW i \in Parts(o)
      PROVE  ChunkCopies(o, i)'
  <2> DEFINE by == ChunkCaller(o, i)
             h == Body[o][i]
  <2>0. i \in AllParts
    BY BodyType
  <2>1. /\ faults \in Nat /\ kept[o][i] \in SUBSET Nodes /\ kept'[o][i] \in SUBSET Nodes
        /\ Succeeded(by) \in SUBSET Nodes
    <3>1. Succeeded(by) \in SUBSET Nodes
      BY SucceededType DEF TypeOK, StorageTypeOK
    <3>2. faults \in Nat
      BY ClusterAssumption DEF TypeOK, StorageTypeOK
    <3> QED BY <2>0, <3>1, <3>2 DEF TypeOK, HandlerTypeOK
  <2>2. Succeeded(by)' \in SUBSET Nodes
    BY DEF Succeeded, Awaited, Calls, TypeOK, StorageTypeOK
  <2>3. /\ OneLoss(h) /\ OnlySaves(h)'
        /\ Succeeded(by)' \subseteq Succeeded(by) \cup IntactFiles(h)'
        /\ FewLost(Succeeded(by), h) /\ FewLost(kept[o][i], h)
    BY <1>1 DEF DeletedStay, CopiesInv, ChunkCopies
  <2>4. Cardinality(Succeeded(by)' \ IntactFiles(h)') <= faults'
    BY <2>1, <2>2, <2>3, FewLostKept
  <2>5. Cardinality(kept'[o][i] \ IntactFiles(h)') <= faults'
    <3>1. CASE kept'[o][i] = kept[o][i]
      BY <2>1, <2>3, <3>1, FewLostKept
    <3>2. CASE kept'[o][i] = Succeeded(by)
      BY <2>1, <2>3, <3>2, FewLostKept
    <3> QED BY <1>1, <3>1, <3>2 DEF RowsConfirmed
  <2> QED BY <1>1, <2>3, <2>4, <2>5 DEF ChunkCopies, FewLost, RowsConfirmed, EnoughCopies
<1> QED BY <1>1 DEF CopiesInv

\* A step that leaves rows, goroutines and their answers alone.
LEMMA RowsUntouched ==
    ASSUME CopiesInv, DeletedStay, UNCHANGED <<kept, part, chunks, locations>>
    PROVE  RowsConfirmed
  BY DEF CopiesInv, ChunkCopies, DeletedStay, RowsConfirmed

\* The nodes lose a copy per failure and confirm what they have.
LEMMA StorageCopies ==
    ASSUME TypeOK, TypeOK', CopiesInv, Storage
    PROVE  CopiesInv'
<1>0. /\ StorageNext /\ StorageTypeOK /\ UNCHANGED <<metadataVars, handlerVars, workerVars>>
      /\ calls \subseteq Calls
  BY DEF Storage, TypeOK, StorageTypeOK
<1>1. DeletedStay /\ RowsConfirmed /\ rebalancer' = "asleep"
  BY <1>0, RowsUntouched DEF DeletedStay, metadataVars, handlerVars, workerVars, CopiesInv
<1>2. BodyCalls'
  <2>1. ASSUME NEW d \in calls'
        PROVE  \E o \in Objects : \E i \in Parts(o) :
                 /\ d.hash = Body[o][i]
                 /\ \/ d.by = ChunkCaller(o, i)
                    \/ d.by = SweepCaller(o, i) /\ objects'[o] = "deleted"
    <3>1. PICK b \in calls : d.by = b.by /\ d.hash = b.hash
      BY <1>0, StorageOldCalls
    <3> QED BY <1>0, <3>1 DEF CopiesInv, BodyCalls, metadataVars
  <2> QED BY <2>1 DEF BodyCalls
<1>3. ASSUME NEW o \in Objects, objects'[o] # "deleted", NEW i \in Parts(o)
      PROVE  /\ OneLoss(Body[o][i])
             /\ OnlySaves(Body[o][i])'
             /\ Succeeded(ChunkCaller(o, i))'
                  \subseteq Succeeded(ChunkCaller(o, i)) \cup IntactFiles(Body[o][i])'
  <2>1. OnlySaves(Body[o][i]) /\ Body[o][i] \in Hashes
    BY <1>1, <1>3, BodyType DEF DeletedStay, CopiesInv, ChunkCopies
  <2>2. \A c \in calls : c.by = ChunkCaller(o, i) => c.hash = Body[o][i]
    BY ChunkCalls DEF CopiesInv
  <2> QED BY <1>0, <2>1, <2>2, StorageLoss, StorageOnlySaves, StorageSucceeded
<1> QED BY <1>1, <1>2, <1>3, CopiesKept

\* Where the calls after a step of the gateway come from: they are at the
\* nodes as before, save a chunk, or sweep one of an object that is deleted.
GatewayCalls ==
    \A d \in calls' :
        \/ \E b \in calls : /\ d.by = b.by /\ d.op = b.op /\ d.hash = b.hash /\ d.data = b.data
                            /\ d.step = b.step /\ (d.live => d = b)
        \/ \E o \in Objects : \E i \in Parts(o) :
             /\ d.by = ChunkCaller(o, i) /\ d.hash = Body[o][i]
             /\ d.op = "save" /\ d.data = "good" /\ d.step = "sent"
        \/ \E o \in Objects : \E i \in Parts(o) :
             /\ d.by = SweepCaller(o, i) /\ d.hash = Body[o][i]
             /\ d.step = "sent" /\ objects'[o] = "deleted"

\* A step of the gateway keeps the copies when it writes down only what the
\* nodes confirmed, because a sweep is for no file of an object that stays.
LEMMA GatewayCopies ==
    ASSUME TypeOK, TypeOK', CopiesInv, SharedStay', DeletedStay, rebalancer' = "asleep",
           OpenKept, UNCHANGED faults \/ \E kind : Fault(kind), GatewayCalls, RowsConfirmed
    PROVE  CopiesInv'
<1>1. BodyCalls'
  <2>1. ASSUME NEW d \in calls'
        PROVE  \E o \in Objects : \E i \in Parts(o) :
                 /\ d.hash = Body[o][i]
                 /\ \/ d.by = ChunkCaller(o, i)
                    \/ d.by = SweepCaller(o, i) /\ objects'[o] = "deleted"
    <3>1. ASSUME NEW b \in calls, d.by = b.by, d.hash = b.hash
          PROVE  \E o \in Objects : \E i \in Parts(o) :
                   /\ d.hash = Body[o][i]
                   /\ \/ d.by = ChunkCaller(o, i)
                      \/ d.by = SweepCaller(o, i) /\ objects'[o] = "deleted"
      BY <3>1 DEF CopiesInv, BodyCalls, DeletedStay
    <3> QED BY <3>1 DEF GatewayCalls
  <2> QED BY <2>1 DEF BodyCalls
<1>2. ASSUME NEW o \in Objects, objects'[o] # "deleted", NEW i \in Parts(o)
      PROVE  /\ OneLoss(Body[o][i])
             /\ OnlySaves(Body[o][i])'
             /\ Succeeded(ChunkCaller(o, i))'
                  \subseteq Succeeded(ChunkCaller(o, i)) \cup IntactFiles(Body[o][i])'
  <2>1. OneLoss(Body[o][i])
    <3>1. faults \in Nat
      BY ClusterAssumption DEF TypeOK, StorageTypeOK
    <3> QED BY <3>1, GatewayLoss
  <2>2. OnlySaves(Body[o][i])
    BY <1>2 DEF DeletedStay, CopiesInv, ChunkCopies
  <2>3. ASSUME NEW d \in calls', d.hash = Body[o][i]
        PROVE  d.op = "save" /\ d.data = "good" /\ d.step # "unlinked"
    <3>1. ASSUME NEW b \in calls, d.op = b.op, d.hash = b.hash, d.data = b.data, d.step = b.step
          PROVE  d.op = "save" /\ d.data = "good" /\ d.step # "unlinked"
      BY <2>2, <2>3, <3>1 DEF OnlySaves
    <3>2. ASSUME NEW p \in Objects, NEW j \in Parts(p), d.hash = Body[p][j], objects'[p] = "deleted"
          PROVE  FALSE
      BY <1>2, <2>3, <3>2 DEF SharedStay
    <3> QED BY <3>1, <3>2 DEF GatewayCalls
  <2>4. ASSUME NEW d \in calls', d.live, d.step = "ok" PROVE d \in calls
    BY <2>4 DEF GatewayCalls
  <2>5. Succeeded(ChunkCaller(o, i))' \subseteq Succeeded(ChunkCaller(o, i))
    BY <2>4 DEF Succeeded, Awaited
  <2> QED BY <2>1, <2>3, <2>5 DEF OnlySaves
<1> QED BY <1>1, <1>2, CopiesKept

\* Some calls are collected and no others made.
LEMMA FewerCalls ==
    ASSUME calls' \subseteq calls
    PROVE  GatewayCalls
  BY DEF GatewayCalls

\* Goroutines stop waiting.
LEMMA AbandonCalls ==
    ASSUME TypeOK, NEW B, calls' = Abandon(B), UNCHANGED disk
    PROVE  OpenKept /\ GatewayCalls
<1>1. calls \subseteq Calls
  BY DEF TypeOK, StorageTypeOK
<1> QED BY <1>1, AbandonedCalls DEF OpenKept, GatewayCalls

\* A step on requests and rows only, that leaves goroutines and locations.
LEMMA RequestCopies ==
    ASSUME TypeOK, TypeOK', CopiesInv, SharedStay', DeletedStay, rebalancer' = "asleep",
           UNCHANGED <<disk, calls, kept, part, chunks, locations>>,
           UNCHANGED faults \/ \E kind : Fault(kind)
    PROVE  CopiesInv'
<1>1. OpenKept /\ GatewayCalls
  BY FewerCalls DEF OpenKept
<1> QED BY <1>1, RowsUntouched, GatewayCopies

\* The steps of an upload.
LEMMA UploadCopies ==
    ASSUME ServiceInv, TypeOK', CopiesInv, SharedStay', DeletedStay, rebalancer' = "asleep",
           NEW o \in Objects, UploadStep(o) \/ UploadStart(o) \/ BodyError(o)
    PROVE  CopiesInv'
<1>0. TypeOK /\ HandlerTypeOK /\ MetadataTypeOK /\ UploadInv(o)
  BY DEF ServiceInv, TypeInv, TypeOK
<1>1. CASE UploadStart(o) \/ ChunksFailed(o) \/ UploadDone(o) \/ CreateObjectRow(o)
  <2>1. UNCHANGED <<disk, calls, kept, part, chunks, locations>>
    BY <1>1 DEF UploadStart, ChunksFailed, UploadDone, CreateObjectRow, CreateObject,
                storageVars, metadataVars
  <2>2. UNCHANGED faults \/ \E kind : Fault(kind)
    BY <1>1 DEF UploadStart, ChunksFailed, UploadDone, CreateObjectRow, storageVars
  <2> QED BY <1>0, <2>1, <2>2, RequestCopies
<1>2. CASE BodyError(o)
  <2>1. UNCHANGED <<disk, faults, kept, part, chunks, locations>> /\ \E B : calls' = Abandon(B)
    BY <1>2 DEF BodyError, metadataVars
  <2> QED BY <1>0, <2>1, AbandonCalls, RowsUntouched, GatewayCopies
<1>3. ASSUME NEW i \in Parts(o), PlaceChunk(o, i) PROVE CopiesInv'
  <2> DEFINE new == SaveCalls(ChunkCaller(o, i), GetNodes(ring, Body[o][i]), Body[o][i], "good")
  <2>1. /\ UNCHANGED <<disk, faults, kept, metadataVars>> /\ calls' = calls \cup new
        /\ \E v \in {"failed", "saving"} : part' = [part EXCEPT ![o][i] = v]
    BY <1>3 DEF PlaceChunk
  <2>2. ASSUME NEW c \in new
        PROVE  /\ c.by = ChunkCaller(o, i) /\ c.hash = Body[o][i] /\ c.op = "save"
               /\ c.data = "good" /\ c.step = "sent"
    BY DEF SaveCalls, Call
  <2>3. OpenKept /\ GatewayCalls
    BY <2>1, <2>2 DEF OpenKept, GatewayCalls
  <2>4. \A p \in Objects : \A j \in Parts(p) :
          part'[p][j] \in {"stored", "recorded"} => part[p][j] \in {"stored", "recorded"}
    <3>1. \A p \in Objects : \A j \in Parts(p) : j \in AllParts
      BY BodyType
    <3> QED BY <1>0, <2>1, <3>1 DEF HandlerTypeOK
  <2>5. RowsConfirmed
    BY <2>1, <2>4 DEF RowsConfirmed, DeletedStay, CopiesInv, ChunkCopies, metadataVars
  <2> QED BY <1>0, <2>1, <2>3, <2>5, GatewayCopies
<1>4. ASSUME NEW i \in Parts(o), SettleChunk(o, i) PROVE CopiesInv'
  <2>0. i \in AllParts /\ \A p \in Objects : \A j \in Parts(p) : j \in AllParts
    BY BodyType
  <2>1. /\ UNCHANGED <<disk, faults, metadataVars>>
        /\ calls' = calls \ Awaited(ChunkCaller(o, i)) /\ AllAnswered(ChunkCaller(o, i))
        /\ upload[o] = "reading"
    BY <1>4 DEF SettleChunk
  <2>2. OpenKept /\ GatewayCalls
    BY <2>1, CollectedOpen, FewerCalls DEF OpenKept
  <2>3. chunks[o] = {}
    BY <1>0, <2>1 DEF UploadInv, RowWritten, NoStrayRows
  <2>4. \/ /\ kept' = [kept EXCEPT ![o][i] = Succeeded(ChunkCaller(o, i))]
           /\ EnoughCopies(Succeeded(ChunkCaller(o, i)))
           /\ part' = [part EXCEPT ![o][i] = "stored"]
        \/ kept' = kept /\ part' = [part EXCEPT ![o][i] = "failed"]
    BY <1>4 DEF SettleChunk
  <2>5. ASSUME NEW p \in Objects, objects'[p] # "deleted", NEW j \in Parts(p)
        PROVE  /\ kept'[p][j] \in {kept[p][j], Succeeded(ChunkCaller(p, j))}
               /\ part'[p][j] \in {"stored", "recorded"} => EnoughCopies(kept'[p][j])
               /\ j \in chunks'[p] => locations'[p][j] = kept'[p][j]
    <3>1. ChunkCopies(p, j)
      BY <2>5 DEF DeletedStay, CopiesInv
    <3>2. CASE p = o /\ j = i
      BY <1>0, <2>0, <2>1, <2>3, <2>4, <3>1, <3>2 DEF HandlerTypeOK, metadataVars, ChunkCopies
    <3>3. CASE ~(p = o /\ j = i)
      <4>1. kept'[p][j] = kept[p][j] /\ part'[p][j] = part[p][j]
        BY <1>0, <2>0, <2>4, <3>3 DEF HandlerTypeOK
      <4> QED BY <2>1, <3>1, <4>1 DEF metadataVars, ChunkCopies
    <3> QED BY <3>2, <3>3
  <2>6. RowsConfirmed
    BY <2>5 DEF RowsConfirmed
  <2> QED BY <1>0, <2>1, <2>2, <2>6, GatewayCopies
<1>5. ASSUME NEW i \in Parts(o), CreateChunkRow(o, i) \/ CreateChunkFails(o, i) PROVE CopiesInv'
  <2>0. i \in AllParts /\ \A p \in Objects : \A j \in Parts(p) : j \in AllParts
    BY BodyType
  <2>1. /\ UNCHANGED <<disk, calls, kept>> /\ part[o][i] = "stored"
        /\ part' = part \/ part' = [part EXCEPT ![o][i] = "recorded"]
        /\ CreateChunk(o, i, kept[o][i]) \/ UNCHANGED metadataVars
    BY <1>5 DEF CreateChunkRow, CreateChunkFails, storageVars
  <2>2. UNCHANGED faults \/ \E kind : Fault(kind)
    BY <1>5 DEF CreateChunkRow, CreateChunkFails, storageVars
  <2>3. OpenKept /\ GatewayCalls
    BY <2>1, FewerCalls DEF OpenKept
  <2>4. ASSUME NEW p \in Objects, NEW j \in Parts(p)
        PROVE  /\ part'[p][j] \in {"stored", "recorded"} => part[p][j] \in {"stored", "recorded"}
               /\ \/ j \in chunks'[p] => j \in chunks[p] /\ locations'[p][j] = locations[p][j]
                  \/ locations'[p][j] = kept[p][j]
    <3>1. part'[p][j] \in {"stored", "recorded"} => part[p][j] \in {"stored", "recorded"}
      <4>1. CASE part' = part
        BY <4>1
      <4>2. CASE part' = [part EXCEPT ![o][i] = "recorded"]
        <5>1. part'[p][j] = part[p][j] \/ (p = o /\ j = i)
          BY <1>0, <2>0, <4>2 DEF HandlerTypeOK
        <5> QED BY <2>1, <5>1
      <4> QED BY <2>1, <4>1, <4>2
    <3>2. CASE UNCHANGED metadataVars
      BY <3>1, <3>2 DEF metadataVars
    <3>3. CASE CreateChunk(o, i, kept[o][i])
      BY <1>0, <2>0, <3>1, <3>3 DEF CreateChunk, MetadataTypeOK
    <3> QED BY <2>1, <3>2, <3>3
  <2>5. RowsConfirmed
    BY <2>1, <2>4 DEF RowsConfirmed, DeletedStay, CopiesInv, ChunkCopies
  <2> QED BY <1>0, <2>2, <2>3, <2>5, GatewayCopies
<1> QED BY <1>1, <1>2, <1>3, <1>4, <1>5 DEF UploadStep

\* The steps of a DELETE: the object goes before the first of its files.
LEMMA DeleteCopies ==
    ASSUME ServiceInv, TypeOK', CopiesInv, SharedStay', DeletedStay, rebalancer' = "asleep",
           NEW o \in Objects, DeleteStep(o) \/ DeleteStart(o) \/ DeleteCancelled(o)
    PROVE  CopiesInv'
<1>0. TypeOK /\ HandlerTypeOK /\ MetadataTypeOK
  BY DEF ServiceInv, TypeInv, TypeOK
<1>1. CASE DeleteStart(o)
  <2>1. UNCHANGED <<disk, calls, kept, part, chunks, locations>>
    BY <1>1 DEF DeleteStart, metadataVars
  <2>2. UNCHANGED faults \/ \E kind : Fault(kind)
    BY <1>1 DEF DeleteStart
  <2> QED BY <1>0, <2>1, <2>2, RequestCopies
<1>2. CASE DeleteCancelled(o)
  <2>1. UNCHANGED <<disk, faults, kept, part, chunks, locations>> /\ \E B : calls' = Abandon(B)
    BY <1>2 DEF DeleteCancelled, metadataVars
  <2> QED BY <1>0, <2>1, AbandonCalls, RowsUntouched, GatewayCopies
<1>3. CASE DeleteDone(o)
  <2>1. /\ UNCHANGED <<disk, faults, kept, part, chunks, locations>>
        /\ calls' = calls \ UNION {Awaited(SweepCaller(o, i)) : i \in Parts(o)}
        /\ \A i \in Parts(o) : AllAnswered(SweepCaller(o, i))
    BY <1>3 DEF DeleteDone, metadataVars
  <2>2. OpenKept
    BY <2>1, CollectedOpen DEF OpenKept
  <2>3. GatewayCalls
    BY <2>1, FewerCalls
  <2> QED BY <1>0, <2>1, <2>2, <2>3, RowsUntouched, GatewayCopies
<1>4. CASE DeleteRows(o)
  <2>1. /\ UNCHANGED <<disk, kept, part>>
        /\ UNCHANGED faults \/ \E kind : Fault(kind)
        /\ DeleteObject(o) \/ UNCHANGED metadataVars
    BY <1>4 DEF DeleteRows
  <2>2. \/ calls' = calls
        \/ /\ objects'[o] = "deleted"
           /\ calls' = calls \cup UNION {DeleteCalls(SweepCaller(o, i), victims[o][i], Body[o][i]) :
                                           i \in Parts(o)}
    BY <1>0, <1>4 DEF DeleteRows, DeleteObject, MetadataTypeOK
  <2>3. ASSUME NEW i \in Parts(o), NEW d \in DeleteCalls(SweepCaller(o, i), victims[o][i], Body[o][i])
        PROVE  d.by = SweepCaller(o, i) /\ d.hash = Body[o][i] /\ d.step = "sent"
    BY <2>3 DEF DeleteCalls, Call
  <2>4. OpenKept
    BY <2>1, <2>2 DEF OpenKept
  <2>5. GatewayCalls
    BY <2>2, <2>3 DEF GatewayCalls
  <2>6. ASSUME NEW p \in Objects, objects'[p] # "deleted"
        PROVE  chunks'[p] = chunks[p] /\ locations'[p] = locations[p]
    BY <1>0, <2>1, <2>6 DEF DeleteObject, MetadataTypeOK, metadataVars
  <2>7. RowsConfirmed
    BY <2>1, <2>6 DEF RowsConfirmed, DeletedStay, CopiesInv, ChunkCopies
  <2> QED BY <1>0, <2>1, <2>4, <2>5, <2>7, GatewayCopies
<1> QED BY <1>1, <1>2, <1>3, <1>4 DEF DeleteStep

\* No step brings a deleted object back.
LEMMA DeletedForGood ==
    ASSUME ServiceInv, [Next]_vars
    PROVE  DeletedStay
<1>0. MetadataTypeOK /\ \A o \in Objects : UploadInv(o)
  BY DEF ServiceInv, TypeInv, TypeOK
<1>1. CASE objects' = objects
  BY <1>1 DEF DeletedStay
<1>2. ASSUME NEW o \in Objects, UploadStep(o) \/ UploadStart(o) \/ BodyError(o) PROVE DeletedStay
  <2>1. objects' = objects \/ (CreateObject(o) /\ upload[o] = "reading")
    BY <1>2 DEF UploadStep, UploadStart, BodyError, ChunksFailed, UploadDone, CreateObjectRow,
                PlaceChunk, SettleChunk, CreateChunkRow, CreateChunkFails, CreateChunk, metadataVars
  <2>2. CASE CreateObject(o) /\ upload[o] = "reading"
    BY <1>0, <2>2 DEF CreateObject, MetadataTypeOK, UploadInv, RowWritten, DeletedStay
  <2> QED BY <1>1, <2>1, <2>2
<1>3. ASSUME NEW o \in Objects, DeleteStep(o) \/ DeleteStart(o) \/ DeleteCancelled(o)
      PROVE  DeletedStay
  <2>1. DeleteObject(o) \/ objects' = objects
    BY <1>3 DEF DeleteStep, DeleteRows, DeleteDone, DeleteStart, DeleteCancelled, metadataVars
  <2> QED BY <1>0, <1>1, <2>1 DEF DeleteObject, MetadataTypeOK, DeletedStay
<1>4. CASE Client
  BY <1>1, <1>2, <1>3, <1>4, OtherStepsFrame DEF Client
<1>5. CASE GatewayCrash
  BY <1>1, <1>5 DEF GatewayCrash, metadataVars
<1> QED BY <1>1, <1>2, <1>3, <1>4, <1>5, OtherStepsFrame DEF Next, Uploading, Deleting

\* A worker that is never scheduled sleeps on.
LEMMA WorkerSleeps ==
    ASSUME rebalancer = "asleep", ~Rebalancing, [Next]_vars
    PROVE  rebalancer' = "asleep" /\ ~WorkerStep
<1>1. ~WorkerStep
  BY DEF WorkerStep, ScanChunks, CheckRing, PickRow, FetchFailed, CopiesSaved, AllRecorded,
         RowDone, PassDone, FetchCopy, RecordCopy, DeleteCopy, ForgetCopy
<1>2. UNCHANGED workerVars \/ GatewayCrash
  BY <1>1 DEF Next, Storage, Sync, Client, Uploading, Deleting, Downloading, vars
<1> QED BY <1>1, <1>2 DEF workerVars, GatewayCrash, WorkerRestart

\* Every step keeps the copies.
LEMMA CopiesStep ==
    ASSUME ~Rebalancing, ServiceInv, ServiceInv', CopiesInv, SharedStay', [Next]_vars
    PROVE  CopiesInv'
<1>0. TypeOK /\ TypeOK' /\ DeletedStay /\ rebalancer' = "asleep" /\ ~WorkerStep
  BY DeletedForGood, WorkerSleeps DEF ServiceInv, TypeInv, CopiesInv
<1>1. CASE Storage
  BY <1>0, <1>1, StorageCopies
<1>2. CASE Sync \/ UNCHANGED vars
  <2>1. UNCHANGED <<disk, calls, faults, kept, part, chunks, locations>>
    BY <1>2 DEF Sync, vars, gatewayVars, storageVars, metadataVars, handlerVars
  <2> QED BY <1>0, <2>1, RequestCopies
<1>3. ASSUME NEW r \in Readers, DownloadStep(r) \/ \E o \in Objects : DownloadStart(r, o)
      PROVE  CopiesInv'
  <2>1. UNCHANGED <<disk, calls, kept, part, chunks, locations>>
    BY <1>3 DEF DownloadStep, DownloadStart, DownloadRows, DownloadReplica, DownloadEnd,
                storageVars, metadataVars
  <2>2. UNCHANGED faults \/ \E kind : Fault(kind)
    BY <1>3 DEF DownloadStep, DownloadStart, DownloadRows, DownloadReplica, DownloadEnd, storageVars
  <2> QED BY <1>0, <2>1, <2>2, RequestCopies
<1>4. CASE Client
  BY <1>0, <1>3, <1>4, UploadCopies, DeleteCopies DEF Client
<1>5. ASSUME NEW o \in Objects, Uploading(o) \/ Deleting(o) PROVE CopiesInv'
  BY <1>0, <1>5, UploadCopies, DeleteCopies DEF Uploading, Deleting
<1>6. CASE GatewayCrash
  <2>1. UNCHANGED <<disk, kept, part, chunks, locations>> /\ \E B : calls' = Abandon(B)
    BY <1>6 DEF GatewayCrash, HandlersLost, metadataVars
  <2>2. \E kind : Fault(kind)
    BY <1>6 DEF GatewayCrash
  <2> QED BY <1>0, <2>1, <2>2, AbandonCalls, RowsUntouched, GatewayCopies
<1> QED BY <1>0, <1>1, <1>2, <1>3, <1>4, <1>5, <1>6 DEF Next, Downloading

\* Nothing is stored and nothing is named.
LEMMA InitCopies == Init => CopiesInv
<1> SUFFICES ASSUME Init PROVE CopiesInv
  OBVIOUS
<1>1. /\ calls = {} /\ faults = 0 /\ rebalancer = "asleep"
      /\ \A o \in Objects : /\ chunks[o] = {}
                            /\ \A i \in Parts(o) : kept[o][i] = {} /\ part[o][i] = "unread"
  BY BodyType DEF Init, StorageInit, MetadataInit, HandlerInit, WorkerInit, NoNodes
<1>2. ASSUME NEW h PROVE FewLost({}, h)
  BY <1>1, FS_EmptySet DEF FewLost
<1>3. ASSUME NEW by PROVE Succeeded(by) = {}
  BY <1>1 DEF Succeeded, Awaited
<1> QED BY <1>1, <1>2, <1>3 DEF CopiesInv, BodyCalls, ChunkCopies, OnlySaves

\* Without the rebalancer, and unless an object that shares one of its chunks
\* is deleted, an acknowledged object has of every chunk the Quorum copies
\* that SaveChunk counted, less one for each failure since.
THEOREM QuorumsSurvive ==
    ASSUME ~Rebalancing
    PROVE  Spec /\ []SharedStay => []QuorumSurvives
<1>1. ASSUME ServiceInv, CopiesInv PROVE QuorumSurvives
  <2> SUFFICES ASSUME NEW o \in Objects, Live(o), NEW i \in Parts(o)
               PROVE  Cardinality(IntactAt(o, i)) + faults >= Quorum
    BY DEF QuorumSurvives
  <2>0. i \in AllParts
    BY BodyType
  <2>1. faults \in Nat /\ kept[o][i] \in SUBSET Nodes
    BY <1>1, <2>0, ClusterAssumption
       DEF ServiceInv, TypeInv, TypeOK, StorageTypeOK, HandlerTypeOK
  <2>2. i \in chunks[o] /\ part[o][i] = "recorded"
    BY <1>1 DEF ServiceInv, UploadInv, RecordedRows, AckedRecorded, Live
  <2>3. ChunkCopies(o, i)
    BY <1>1 DEF CopiesInv, Live
  <2>4. /\ FewLost(kept[o][i], Body[o][i]) /\ Cardinality(kept[o][i]) >= Quorum
        /\ locations[o][i] = kept[o][i]
    BY <2>2, <2>3 DEF ChunkCopies, EnoughCopies
  <2>5. IntactAt(o, i) = kept[o][i] \cap IntactFiles(Body[o][i])
    BY <2>1, <2>4 DEF IntactAt, GoodAt, HashOf, IntactFiles
  <2> QED BY <2>1, <2>4, <2>5, QuorumLeft
<1>2. ServiceInv /\ ServiceInv' /\ CopiesInv /\ SharedStay' /\ [Next]_vars => CopiesInv'
  BY CopiesStep
<1> QED BY <1>1, <1>2, InitCopies, ServiceInvariant, PTL DEF Spec

\* No two uploads have a chunk in common.
NothingShared ==
    \A o, p \in Objects : \A i \in Parts(o), j \in Parts(p) :
        o # p => Body[o][i] # Body[p][j]

\* In particular whatever is deleted, when no two objects share a chunk.
COROLLARY QuorumsSurviveApart ==
    ASSUME ~Rebalancing, NothingShared
    PROVE  Spec => []QuorumSurvives
<1>1. SharedStay
  BY DEF NothingShared, SharedStay
<1> QED BY <1>1, QuorumsSurvive, PTL

----------------------------------------------------------------------------
(* Downloads.                                                              *)

\* Every chunk of an acknowledged object is in the result of the join.
AllLocated == \A o \in Objects : Live(o) => Joined(o) = Parts(o)

\* What a GET has sent and what it still has to send is the whole object, the
\* one before the other.
ReadsWhole(r) ==
    LET d == download[r]
    IN  /\ d.acked => upload[d.object] = "acked"
        /\ d.pc = "rows" => d.sent = {}
        /\ d.acked /\ ~d.cut /\ objects[d.object] = "stored" =>
              /\ d.pc = "chunks" => /\ d.sent \cup d.todo = Parts(d.object)
                                   /\ \A i \in d.sent, j \in d.todo : i < j
              /\ AnswerTrue(d)

\* What was acknowledged stays so, and does not come back once it is deleted.
LEMMA AckedForGood ==
    ASSUME ServiceInv, [Next]_vars, NEW o \in Objects, upload[o] = "acked"
    PROVE  upload'[o] = "acked" /\ (objects'[o] = "stored" => objects[o] = "stored")
<1>0. HandlerTypeOK /\ MetadataTypeOK /\ objects[o] # "none"
  BY DEF ServiceInv, TypeInv, TypeOK, UploadInv, RowWritten
<1>1. objects'[o] = "stored" => objects[o] = "stored"
  BY <1>0, DeletedForGood DEF DeletedStay, MetadataTypeOK
<1>2. ASSUME NEW p \in Objects, UploadStep(p) \/ UploadStart(p) \/ BodyError(p)
      PROVE  upload'[o] = "acked"
  BY <1>0, <1>2 DEF UploadStep, UploadStart, BodyError, ChunksFailed, UploadDone, CreateObjectRow,
                    PlaceChunk, SettleChunk, CreateChunkRow, CreateChunkFails, HandlerTypeOK
<1>3. ASSUME NEW p \in Objects, DeleteStep(p) \/ DeleteStart(p) \/ DeleteCancelled(p)
      PROVE  upload'[o] = "acked"
  BY <1>3 DEF DeleteStep, DeleteRows, DeleteDone, DeleteStart, DeleteCancelled
<1>4. ASSUME Client PROVE upload'[o] = "acked"
  BY <1>2, <1>3, <1>4, OtherStepsFrame DEF Client
<1>5. ASSUME GatewayCrash PROVE upload'[o] = "acked"
  BY <1>5 DEF GatewayCrash, HandlersLost
<1>6. upload'[o] = "acked"
  BY <1>2, <1>3, <1>4, <1>5, OtherStepsFrame DEF Next, Uploading, Deleting
<1> QED BY <1>1, <1>6

\* The steps of one GET.
LEMMA DownloadReads ==
    ASSUME ServiceInv, AllLocated, NEW r \in Readers, ReadsWhole(r), [Next]_vars,
           DownloadStep(r) \/ \E o \in Objects : DownloadStart(r, o)
    PROVE  ReadsWhole(r)'
<1> DEFINE d == download[r]
<1>0. HandlerTypeOK /\ d \in Downloads /\ UNCHANGED <<upload, objects>>
  BY DEF ServiceInv, TypeInv, TypeOK, HandlerTypeOK, DownloadStep, DownloadStart, DownloadRows,
         DownloadReplica, DownloadEnd, metadataVars
<1>1. ASSUME NEW o \in Objects, DownloadStart(r, o) PROVE ReadsWhole(r)'
  <2> DEFINE D == [pc |-> "rows", object |-> o, acked |-> upload[o] = "acked",
                   cut |-> FALSE, todo |-> {}, replicas |-> NoNodes, sent |-> {}]
  <2>1. D.pc = "rows" /\ D.object = o /\ D.sent = {}
    OBVIOUS
  <2>2. D.acked = (upload[o] = "acked")
    BY Zenon
  <2>3. download' = [download EXCEPT ![r] = D]
    BY <1>1, Zenon DEF DownloadStart
  <2> HIDE DEF D
  <2>4. download'[r] = D
    BY <1>0, <2>3 DEF HandlerTypeOK
  <2>5. D.acked => upload[o] = "acked"
    BY <2>2
  <2> QED BY <1>0, <2>1, <2>4, <2>5 DEF ReadsWhole, AnswerTrue
<1>2. CASE DownloadRows(r)
  <2> DEFINE Whole == [d EXCEPT !.pc = "chunks", !.todo = Joined(d.object), !.cut = FALSE,
                                !.replicas = locations[d.object]]
             Cut(S) == [d EXCEPT !.pc = "chunks", !.todo = S, !.cut = TRUE,
                                 !.replicas = locations[d.object]]
             Lost == [d EXCEPT !.pc = "error"]
  <2>a. /\ d.pc = "rows"
        /\ \/ download'[r] = Whole \/ download'[r] = Lost
           \/ \E k \in AllParts : download'[r] = Cut({i \in Joined(d.object) : i < k})
    BY <1>0, <1>2 DEF DownloadRows, HandlerTypeOK
  <2>b. /\ Whole.object = d.object /\ Whole.acked = d.acked
        /\ Whole.sent = d.sent /\ Whole.pc = "chunks" /\ Whole.todo = Joined(d.object)
    BY <1>0 DEF Downloads
  <2>c. ASSUME NEW S
        PROVE  /\ Cut(S).object = d.object /\ Cut(S).acked = d.acked
               /\ Cut(S).sent = d.sent /\ Cut(S).pc = "chunks" /\ Cut(S).cut
    BY <1>0 DEF Downloads
  <2>d. Lost.object = d.object /\ Lost.acked = d.acked /\ Lost.sent = d.sent /\ Lost.pc = "error"
    BY <1>0 DEF Downloads
  <2> HIDE DEF Whole, Cut, Lost
  <2>1. /\ d.pc = "rows" /\ download'[r].object = d.object /\ download'[r].acked = d.acked
        /\ download'[r].sent = d.sent
        /\ \/ download'[r].pc = "chunks" /\ (download'[r].todo = Joined(d.object) \/ download'[r].cut)
           \/ download'[r].pc = "error"
    BY <2>a, <2>b, <2>c, <2>d
  <2>2. d.acked /\ objects[d.object] = "stored" => Joined(d.object) = Parts(d.object)
    BY <1>0 DEF ReadsWhole, AllLocated, Live, Downloads
  <2> QED BY <1>0, <2>1, <2>2 DEF ReadsWhole, AnswerTrue
<1>3. ASSUME NEW i \in AllParts, NEW n \in Nodes, DownloadReplica(r, i, n) PROVE ReadsWhole(r)'
  <2>1. /\ d.pc = "chunks" /\ i \in d.todo /\ \A j \in d.todo : i <= j
        /\ download'[r].object = d.object /\ download'[r].acked = d.acked
        /\ download'[r].cut = d.cut /\ download'[r].pc = d.pc
        /\ \/ download'[r].todo = d.todo \ {i} /\ download'[r].sent = d.sent \cup {i}
           \/ download'[r].todo = d.todo /\ download'[r].sent = d.sent
    BY <1>0, <1>3 DEF DownloadReplica, NextReplica, Current, HandlerTypeOK, Downloads
  <2>2. download'[r].sent \cup download'[r].todo = d.sent \cup d.todo
    BY <2>1
  <2>3. d.todo \subseteq Nat /\ d.sent \subseteq Nat
    BY <1>0, ClusterAssumption DEF Downloads, ClusterAssumption
  <2>4. (\A p \in d.sent, q \in d.todo : p < q)
          => \A p \in download'[r].sent, q \in download'[r].todo : p < q
    BY <2>1, <2>3
  <2> QED BY <1>0, <2>1, <2>2, <2>4 DEF ReadsWhole, AnswerTrue
<1>4. CASE DownloadEnd(r)
  <2> DEFINE End(pc) == [d EXCEPT !.pc = pc, !.todo = {}, !.replicas = NoNodes]
  <2>a. /\ d.pc = "chunks"
        /\ \/ d.todo = {} /\ download'[r] = End("ok")
           \/ /\ d.todo # {}
              /\ download'[r] = End(IF d.sent = {} THEN "error" ELSE "short")
    BY <1>0, <1>4 DEF DownloadEnd, Current, HandlerTypeOK
  <2>b. ASSUME NEW pc
        PROVE  /\ End(pc).object = d.object /\ End(pc).acked = d.acked
               /\ End(pc).cut = d.cut /\ End(pc).sent = d.sent /\ End(pc).pc = pc
    BY <1>0 DEF Downloads
  <2> HIDE DEF End
  <2>1. /\ d.pc = "chunks"
        /\ download'[r].object = d.object /\ download'[r].acked = d.acked
        /\ download'[r].cut = d.cut
        /\ download'[r].sent = d.sent
        /\ \/ download'[r].pc = "ok" /\ d.todo = {}
           \/ download'[r].pc = "error" /\ d.sent = {}
           \/ download'[r].pc = "short" /\ d.sent # {} /\ d.todo # {}
    BY <2>a, <2>b
  <2>2. d.sent \subseteq Nat
    BY <1>0, ClusterAssumption DEF Downloads, ClusterAssumption
  <2>3. ASSUME NEW P, d.sent \cup d.todo = P, \A i \in d.sent, j \in d.todo : i < j, d.todo # {}
        PROVE  d.sent # P /\ d.sent \subseteq P /\ \A i \in d.sent, j \in P \ d.sent : i < j
    BY <2>2, <2>3
  <2> QED BY <1>0, <2>1, <2>3 DEF ReadsWhole, AnswerTrue, Beginning
<1> QED BY <1>1, <1>2, <1>3, <1>4 DEF DownloadStep

\* The worker has no part in the requests.
LEMMA WorkerLeavesRequests ==
    ASSUME WorkerStep
    PROVE  UNCHANGED handlerVars
<1>1. ASSUME NEW n \in Nodes, FetchCopy(n) \/ RecordCopy(n) \/ DeleteCopy(n) \/ ForgetCopy(n)
      PROVE  UNCHANGED handlerVars
  BY <1>1 DEF FetchCopy, RecordCopy, DeleteCopy, ForgetCopy
<1>2. CASE ScanChunks \/ CheckRing \/ PickRow \/ FetchFailed \/ CopiesSaved
            \/ AllRecorded \/ RowDone \/ PassDone
  BY <1>2 DEF ScanChunks, CheckRing, PickRow, FetchFailed, CopiesSaved, AllRecorded,
              RowDone, PassDone, gatewayVars
<1> QED BY <1>1, <1>2 DEF WorkerStep

\* Only its own steps and the death of the gateway move a GET.
LEMMA DownloadFrame ==
    ASSUME ServiceInv, [Next]_vars, NEW r \in Readers,
           ~DownloadStep(r), \A o \in Objects : ~DownloadStart(r, o)
    PROVE  \/ download'[r] = download[r]
           \/ download'[r] = [download[r] EXCEPT !.pc = "lost", !.todo = {}, !.replicas = NoNodes]
<1>0. HandlerTypeOK
  BY DEF ServiceInv, TypeInv, TypeOK
<1>1. CASE Storage \/ Sync \/ WorkerStep \/ UNCHANGED vars
  <2>1. CASE Storage \/ Sync \/ UNCHANGED vars
    BY <2>1 DEF Storage, Sync, vars, gatewayVars, handlerVars
  <2>2. CASE WorkerStep
    BY <2>2, WorkerLeavesRequests DEF handlerVars
  <2> QED BY <1>1, <2>1, <2>2
<1>2. ASSUME NEW o \in Objects,
             \/ UploadStep(o) \/ UploadStart(o) \/ BodyError(o)
             \/ DeleteStep(o) \/ DeleteStart(o) \/ DeleteCancelled(o)
      PROVE  download' = download
  BY <1>2 DEF UploadStep, UploadStart, BodyError, ChunksFailed, UploadDone, CreateObjectRow,
              PlaceChunk, SettleChunk, CreateChunkRow, CreateChunkFails,
              DeleteStep, DeleteRows, DeleteDone, DeleteStart, DeleteCancelled
<1>3. ASSUME NEW q \in Readers, q # r, DownloadStep(q) \/ \E o \in Objects : DownloadStart(q, o)
      PROVE  download'[r] = download[r]
  BY <1>0, <1>3 DEF DownloadStep, DownloadStart, DownloadRows, DownloadReplica, NextReplica,
                    DownloadEnd, HandlerTypeOK
<1>4. CASE GatewayCrash
  BY <1>4 DEF GatewayCrash, HandlersLost
<1> QED BY <1>1, <1>2, <1>3, <1>4 DEF Next, Client, Uploading, Deleting, Downloading

\* The answer to a GET that began after the 201 is a true one, a whole object,
\* a marked beginning of it or a 500, if no chunk of an acknowledged object
\* ever lost its last location.
THEOREM DownloadsWhole == Spec /\ []AllLocated => []DownloadWhole
<1> DEFINE Inv == \A r \in Readers : ReadsWhole(r)
<1>1. Init => Inv
  BY DEF Init, HandlerInit, ReadsWhole, AnswerTrue
<1>2. ASSUME ServiceInv, AllLocated, Inv, [Next]_vars PROVE Inv'
  <2> SUFFICES ASSUME NEW r \in Readers PROVE ReadsWhole(r)'
    OBVIOUS
  <2>0. download[r] \in Downloads
    BY <1>2 DEF ServiceInv, TypeInv, TypeOK, HandlerTypeOK
  <2>1. CASE DownloadStep(r) \/ \E o \in Objects : DownloadStart(r, o)
    BY <1>2, <2>1, DownloadReads
  <2>2. CASE ~DownloadStep(r) /\ \A o \in Objects : ~DownloadStart(r, o)
    <3>1. /\ download'[r].object = download[r].object /\ download'[r].acked = download[r].acked
          /\ \/ download'[r] = download[r]
             \/ download'[r].pc = "lost"
      BY <1>2, <2>0, <2>2, DownloadFrame DEF Downloads
    <3>2. download[r].object \in Objects
      BY <2>0 DEF Downloads
    <3>3. download[r].acked => /\ upload[download[r].object] = "acked"
                               /\ upload'[download[r].object] = "acked"
                               /\ objects'[download[r].object] = "stored"
                                    => objects[download[r].object] = "stored"
      BY <1>2, <3>2, AckedForGood DEF ReadsWhole
    <3> QED BY <1>2, <3>1, <3>3 DEF ReadsWhole, AnswerTrue
  <2> QED BY <2>1, <2>2
<1>3. ServiceInv /\ Inv => DownloadWhole
  BY DEF ReadsWhole, DownloadWhole
<1> HIDE DEF Inv
<1> QED BY <1>1, <1>2, <1>3, ServiceInvariant, PTL DEF Spec

\* A chunk row names at least one node, and so will those still to be written.
RowsNameNodes ==
    \A o \in Objects : \A i \in Parts(o) :
        /\ part[o][i] \in {"stored", "recorded"} => kept[o][i] # {}
        /\ i \in chunks[o] => locations[o][i] # {}

\* The quorum test is what keeps chunk rows from having no location.
LEMMA RowsNameNodesStep ==
    ASSUME ~Rebalancing, rebalancer = "asleep", TypeInv, RowsNameNodes, [Next]_vars
    PROVE  RowsNameNodes' /\ rebalancer' = "asleep"
<1>0. /\ HandlerTypeOK /\ MetadataTypeOK /\ rebalancer' = "asleep" /\ ~WorkerStep
      /\ \A p \in Objects : \A j \in Parts(p) : j \in AllParts
  BY WorkerSleeps, BodyType DEF TypeInv, TypeOK
<1>1. ASSUME UNCHANGED <<part, kept, chunks, locations>> PROVE RowsNameNodes'
  BY <1>1 DEF RowsNameNodes
<1>2. ASSUME Storage \/ Sync \/ GatewayCrash \/ UNCHANGED vars PROVE RowsNameNodes'
  BY <1>1, <1>2 DEF Storage, Sync, GatewayCrash, HandlersLost, vars, gatewayVars, metadataVars,
                    handlerVars
<1>3. ASSUME NEW r \in Readers, DownloadStep(r) \/ \E o \in Objects : DownloadStart(r, o)
      PROVE  RowsNameNodes'
  BY <1>1, <1>3 DEF DownloadStep, DownloadStart, DownloadRows, DownloadReplica, DownloadEnd,
                    metadataVars
<1>4. ASSUME NEW o \in Objects, DeleteStep(o) \/ DeleteStart(o) \/ DeleteCancelled(o)
      PROVE  RowsNameNodes'
  <2>1. UNCHANGED <<part, kept>> /\ (DeleteObject(o) \/ UNCHANGED metadataVars)
    BY <1>4 DEF DeleteStep, DeleteRows, DeleteDone, DeleteStart, DeleteCancelled
  <2>2. CASE DeleteObject(o)
    BY <1>0, <2>1, <2>2 DEF DeleteObject, MetadataTypeOK, RowsNameNodes
  <2> QED BY <1>1, <2>1, <2>2 DEF metadataVars
<1>5. ASSUME NEW o \in Objects,
             \/ UploadStart(o) \/ BodyError(o) \/ ChunksFailed(o) \/ UploadDone(o)
             \/ CreateObjectRow(o)
      PROVE  RowsNameNodes'
  BY <1>1, <1>5 DEF UploadStart, BodyError, ChunksFailed, UploadDone, CreateObjectRow,
                    CreateObject, metadataVars
<1>6. ASSUME NEW o \in Objects, NEW i \in Parts(o), PlaceChunk(o, i) \/ SettleChunk(o, i)
      PROVE  RowsNameNodes'
  <2>1. \/ kept' = kept /\ \E v \in {"failed", "saving"} : part' = [part EXCEPT ![o][i] = v]
        \/ /\ part' = [part EXCEPT ![o][i] = "stored"]
           /\ \E S : EnoughCopies(S) /\ kept' = [kept EXCEPT ![o][i] = S]
    BY <1>6 DEF PlaceChunk, SettleChunk
  <2>2. \A S : EnoughCopies(S) => S # {}
    BY ClusterAssumption, FS_EmptySet DEF EnoughCopies, Quorum
  <2>3. UNCHANGED <<chunks, locations>>
    BY <1>6 DEF PlaceChunk, SettleChunk, metadataVars
  <2>4. ASSUME NEW p \in Objects, NEW j \in Parts(p), part'[p][j] \in {"stored", "recorded"}
        PROVE  kept'[p][j] # {}
    <3>1. CASE p = o /\ j = i
      BY <1>0, <2>1, <2>2, <2>4, <3>1 DEF HandlerTypeOK
    <3>2. CASE ~(p = o /\ j = i)
      <4>1. part'[p][j] = part[p][j] /\ kept'[p][j] = kept[p][j]
        BY <1>0, <2>1, <3>2 DEF HandlerTypeOK
      <4> QED BY <2>4, <4>1 DEF RowsNameNodes
    <3> QED BY <3>1, <3>2
  <2> QED BY <2>3, <2>4 DEF RowsNameNodes
<1>7. ASSUME NEW o \in Objects, NEW i \in Parts(o), CreateChunkRow(o, i) \/ CreateChunkFails(o, i)
      PROVE  RowsNameNodes'
  <2>1. /\ UNCHANGED kept /\ part[o][i] = "stored"
        /\ part' = part \/ part' = [part EXCEPT ![o][i] = "recorded"]
        /\ CreateChunk(o, i, kept[o][i]) \/ UNCHANGED metadataVars
    BY <1>7 DEF CreateChunkRow, CreateChunkFails
  <2>2. ASSUME NEW p \in Objects, NEW j \in Parts(p)
        PROVE  /\ \/ part'[p][j] = part[p][j]
                  \/ p = o /\ j = i
               /\ j \in chunks'[p] => \/ locations'[p][j] = kept[o][i] /\ p = o /\ j = i
                                      \/ j \in chunks[p] /\ locations'[p][j] = locations[p][j]
    <3>1. part'[p][j] = part[p][j] \/ (p = o /\ j = i)
      BY <1>0, <2>1 DEF HandlerTypeOK
    <3>2. CASE UNCHANGED metadataVars
      BY <3>1, <3>2 DEF metadataVars
    <3>3. CASE CreateChunk(o, i, kept[o][i])
      BY <1>0, <3>1, <3>3 DEF CreateChunk, MetadataTypeOK
    <3> QED BY <2>1, <3>2, <3>3
  <2> QED BY <2>1, <2>2 DEF RowsNameNodes
<1>8. ASSUME Client PROVE RowsNameNodes'
  BY <1>3, <1>4, <1>5, <1>8 DEF Client
<1> QED BY <1>0, <1>2, <1>3, <1>4, <1>5, <1>6, <1>7, <1>8
        DEF Next, Uploading, Deleting, Downloading, UploadStep

\* While the rebalancer does not run that is every such GET.
COROLLARY DownloadsWholeAlone ==
    ASSUME ~Rebalancing
    PROVE  Spec => []DownloadWhole
<1> DEFINE Inv == rebalancer = "asleep" /\ RowsNameNodes
<1>1. Init => Inv
  <2>1. ASSUME Init, NEW o \in Objects, NEW i \in Parts(o)
        PROVE  part[o][i] = "unread" /\ chunks[o] = {}
    BY <2>1, BodyType DEF Init, HandlerInit, MetadataInit
  <2> QED BY <2>1 DEF Init, WorkerInit, RowsNameNodes
<1>2. TypeInv /\ Inv /\ [Next]_vars => Inv'
  BY RowsNameNodesStep
<1>3. ServiceInv /\ AckedComplete /\ Inv => AllLocated
  BY DEF RowsNameNodes, AllLocated, Joined, AckedComplete
<1>4. ServiceInv => TypeInv
  BY DEF ServiceInv
<1> HIDE DEF Inv
<1> QED BY <1>1, <1>2, <1>3, <1>4, ServiceInvariant, AckedUploadsComplete, DownloadsWhole, PTL DEF Spec
=============================================================================
