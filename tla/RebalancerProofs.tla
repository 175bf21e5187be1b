-------------------------- MODULE RebalancerProofs --------------------------
(***************************************************************************)
(* The rebalancer: the rows it read at the start of a pass are true when   *)
(* it gets to them, and it clears a node that is then a location of the    *)
(* chunk (RowsCurrent), whatever fails and whatever other requests do; and *)
(* while nothing has failed, a location in the table names a good file, so *)
(* a chunk loses its last copy only to a visit (LocatedIsGood, LossBlamed).*)
(***************************************************************************)
EXTENDS ObjectStoreProofs

\* The calls the worker waits for.
Mine == {c \in calls : c.live /\ c.by.who = "rebalancer"}

\* It waits only while it saves or deletes, for the calls of this visit.
WaitsForRow == \A c \in Mine :
    /\ rebalancer \in {"saving", "deleting"} /\ c.by = RowCaller
    /\ rebalancer = "saving" => c.op = "save"
    /\ rebalancer = "deleting" => c.op = "delete" /\ c.node \in obsolete

\* What it clears was on the row and is not expected; between visits that
\* is nothing, although expected and the row may be of the next visit.
ObsoleteOfRow ==
    /\ obsolete \subseteq row.nodes \ expected
    /\ rebalancer \in {"asleep", "check", "pick", "fetch"} => obsolete = {}

WorkerInv == WaitsForRow /\ ObsoleteOfRow

\* Every call waited for was waited for before, by and for the same.
NoNewWaits ==
    \A c \in Mine' : \E a \in Mine : a.by = c.by /\ a.op = c.op /\ a.node = c.node

\* Steps that leave the worker alone and give it no calls keep WorkerInv.
LEMMA WorkerInvFrame ==
    ASSUME WorkerInv, UNCHANGED workerVars, NoNewWaits
    PROVE  WorkerInv'
  BY DEF WorkerInv, WaitsForRow, ObsoleteOfRow, NoNewWaits, workerVars, RowCaller

\* Calls that someone gave up, or of others, are no new waits.
LEMMA AbandonWaits ==
    ASSUME StorageTypeOK, NEW B, calls' = Abandon(B)
    PROVE  NoNewWaits
<1>1. \A c \in Calls : [c EXCEPT !.live = FALSE].live = FALSE
  BY DEF Calls
<1> QED BY <1>1 DEF Abandon, NoNewWaits, Mine, StorageTypeOK

\* Nodes and network answer calls or lose them.
LEMMA StorageWaits ==
    ASSUME StorageTypeOK, StorageNext
    PROVE  NoNewWaits
<1>0. calls \subseteq Calls
  BY DEF StorageTypeOK
<1>1. ASSUME NEW c \in Calls, NEW s
      PROVE  LET e == [c EXCEPT !.step = s]
             IN  e.by = c.by /\ e.op = c.op /\ e.node = c.node /\ e.live = c.live
  BY DEF Calls
<1>2. \A c \in Calls : [c EXCEPT !.live = FALSE].live = FALSE
  BY DEF Calls
<1>3. ASSUME NEW c \in calls, Handle(c) \/ CallFails(c)
      PROVE  \A e \in calls' : \/ ~e.live
                               \/ \E a \in calls : /\ a.by = e.by /\ a.op = e.op
                                                   /\ a.node = e.node /\ a.live = e.live
  <2> DEFINE Old(e) == \E a \in calls : /\ a.by = e.by /\ a.op = e.op
                                        /\ a.node = e.node /\ a.live = e.live
  <2>1. \A e \in calls : Old(e)
    OBVIOUS
  <2>2. ASSUME NEW a \in calls, NEW s PROVE Old([a EXCEPT !.step = s])
    <3>1. a \in Calls
      BY <1>0
    <3> QED BY <1>1, <3>1
  <2>3. ASSUME NEW s, NEW e \in Answered(c, s) PROVE Old(e)
    <3>1. e = [c EXCEPT !.step = s]
      BY DEF Answered
    <3> QED BY <2>2, <3>1
  <2> HIDE DEF Old
  <2>4. ASSUME NEW e \in calls',
               SaveCreate(c) \/ SaveWrite(c) \/ SaveWriteFails(c) \/ RemoveMissing(c)
               \/ Refused(c) \/ Rejected(c) \/ LateLost(c)
        PROVE  Old(e)
    <3>1. \/ e \in calls \/ e = [c EXCEPT !.step = "created"]
          \/ \E s \in {"ok", "failed"} : e \in Answered(c, s)
      BY <2>4 DEF SaveCreate, SaveWrite, SaveWriteFails, RemoveMissing,
         Refused, Rejected, LateLost
    <3> QED BY <2>1, <2>2, <2>3, <3>1
  <2>5. ASSUME NEW e \in calls', RemoveFile(c) PROVE Old(e)
    <3>1. \/ e \in calls \/ e \in Answered(c, "ok")
          \/ \E a \in calls : e = [a EXCEPT !.step = "unlinked"]
      BY <2>5 DEF RemoveFile
    <3> QED BY <2>1, <2>2, <2>3, <3>1
  <2>6. ASSUME NEW e \in calls', TimedOut(c) PROVE ~e.live \/ Old(e)
    <3>1. \/ e \in calls \/ e = [c EXCEPT !.step = "failed"] \/ e = [c EXCEPT !.live = FALSE]
      BY <2>6 DEF TimedOut
    <3> QED BY <1>0, <1>2, <2>1, <2>2, <3>1
  <2>7. \A e \in calls' : ~e.live \/ Old(e)
    BY <1>3, <2>4, <2>5, <2>6 DEF Handle, CallFails
  <2> QED BY <2>7 DEF Old
<1>4. ASSUME NEW n \in Nodes, NodeCrash(n) \/ NodeRestart(n)
      PROVE  \A e \in calls' : \E a \in calls : /\ a.by = e.by /\ a.op = e.op
                                                /\ a.node = e.node /\ a.live = e.live
  <2>1. ASSUME NEW e \in calls'
        PROVE  e \in calls \/ \E c \in calls : e \in Answered(c, "failed")
    BY <1>4 DEF NodeCrash, NodeRestart
  <2>2. ASSUME NEW e \in calls', NEW c \in calls, e \in Answered(c, "failed")
        PROVE  \E a \in calls : /\ a.by = e.by /\ a.op = e.op
                                /\ a.node = e.node /\ a.live = e.live
    <3>1. e = [c EXCEPT !.step = "failed"] /\ c \in Calls
      BY <1>0, <2>2 DEF Answered
    <3> QED BY <1>1, <3>1
  <2> QED BY <2>1, <2>2
<1> QED BY <1>3, <1>4 DEF StorageNext, NodeStep, NoNewWaits, Mine

\* The handlers call in their own names.
LEMMA HandlerWaits ==
    ASSUME StorageTypeOK,
           \/ \E o \in Objects : \/ UploadStep(o) \/ UploadStart(o) \/ BodyError(o)
                                 \/ DeleteStep(o) \/ DeleteStart(o) \/ DeleteCancelled(o)
           \/ \E r \in Readers : DownloadStep(r) \/ \E o \in Objects : DownloadStart(r, o)
    PROVE  NoNewWaits
<1>1. ASSUME calls' \subseteq calls PROVE NoNewWaits
  BY <1>1 DEF NoNewWaits, Mine
<1>2. ASSUME NEW o \in Objects, NEW i, NEW S, NEW h, NEW d
      PROVE  /\ \A c \in SaveCalls(ChunkCaller(o, i), S, h, d) : c.by.who # "rebalancer"
             /\ \A c \in DeleteCalls(SweepCaller(o, i), S, h) : c.by.who # "rebalancer"
  BY DEF SaveCalls, DeleteCalls, Call, ChunkCaller, SweepCaller
<1>3. ASSUME NEW o \in Objects, NEW i \in Parts(o), PlaceChunk(o, i) PROVE NoNewWaits
  BY <1>2, <1>3 DEF PlaceChunk, NoNewWaits, Mine
<1>4. ASSUME NEW o \in Objects, DeleteRows(o) PROVE NoNewWaits
  BY <1>2, <1>4 DEF DeleteRows, NoNewWaits, Mine
<1>5. ASSUME NEW o \in Objects, BodyError(o) \/ DeleteCancelled(o) PROVE NoNewWaits
  BY <1>5, AbandonWaits DEF BodyError, DeleteCancelled
<1>6. ASSUME NEW o \in Objects,
             \/ UploadStart(o) \/ ChunksFailed(o) \/ CreateObjectRow(o) \/ UploadDone(o)
             \/ DeleteStart(o) \/ DeleteDone(o)
             \/ \E i \in Parts(o) : SettleChunk(o, i) \/ CreateChunkRow(o, i) \/ CreateChunkFails(o, i)
      PROVE  calls' \subseteq calls
  BY <1>6 DEF UploadStart, ChunksFailed, CreateObjectRow, UploadDone, DeleteStart, DeleteDone,
              SettleChunk, CreateChunkRow, CreateChunkFails, storageVars
<1>7. ASSUME NEW r \in Readers, DownloadStep(r) \/ \E o \in Objects : DownloadStart(r, o)
      PROVE  calls' \subseteq calls
  BY <1>7 DEF DownloadStep, DownloadStart, DownloadRows, DownloadReplica, DownloadEnd, storageVars
<1> QED BY <1>1, <1>3, <1>4, <1>5, <1>6, <1>7 DEF UploadStep, DeleteStep

\* Every step of the worker keeps the invariant.
LEMMA WorkerStepInv ==
    ASSUME TypeInv, WorkerInv, WorkerStep
    PROVE  WorkerInv'
<1> USE DEF WorkerInv, WaitsForRow, ObsoleteOfRow
<1>0. calls \subseteq Calls
  BY DEF TypeInv, TypeOK, StorageTypeOK
<1>1. ASSUME calls' \subseteq calls, rebalancer \notin {"saving", "deleting"}
      PROVE  Mine' = {}
  BY <1>1 DEF Mine
<1>2. ASSUME calls' = calls \ Awaited(RowCaller) PROVE Mine' = {}
  BY <1>2 DEF Mine, Awaited
<1>3. CASE ScanChunks
  BY <1>1, <1>3 DEF ScanChunks, RowCaller
<1>4. CASE CheckRing \/ AllRecorded \/ PassDone
  BY <1>1, <1>4 DEF CheckRing, AllRecorded, PassDone, gatewayVars, storageVars, RowCaller
<1>5. CASE FetchFailed \/ RowDone
  <2>1. Mine' = {}
    BY <1>1, <1>5 DEF FetchFailed, RowDone, gatewayVars, storageVars
  <2> QED BY <1>5, <2>1 DEF FetchFailed, RowDone, Forget
<1>6. CASE PickRow
  <2>1. /\ rebalancer = "pick" /\ UNCHANGED <<calls, obsolete>>
        /\ rebalancer' \in {"pick", "fetch"}
    BY <1>6 DEF PickRow, gatewayVars, storageVars
  <2>2. Mine' = {} /\ obsolete' = {}
    BY <1>1, <2>1
  <2> QED BY <2>1, <2>2
<1>7. ASSUME NEW n \in Nodes, FetchCopy(n) PROVE WorkerInv'
  <2>1. CASE /\ calls' = calls /\ rebalancer = "fetch"
             /\ \/ UNCHANGED <<rebalancer, row, expected, obsolete>>
                \/ rebalancer' = "pick" /\ Forget
    <3>1. Mine' = {}
      BY <1>1, <2>1
    <3> QED BY <2>1, <3>1 DEF Forget
  <2>2. ASSUME NEW bytes \in Bytes,
               /\ obsolete' = ObsoleteNodes /\ rebalancer = "fetch"
               /\ rebalancer' = IF expected \ row.nodes = {} THEN "clearing" ELSE "saving"
               /\ calls' = calls \cup SaveCalls(RowCaller, expected \ row.nodes, RowHash, bytes)
               /\ UNCHANGED <<row, expected>>
        PROVE  WorkerInv'
    <3>1. \A c \in SaveCalls(RowCaller, expected \ row.nodes, RowHash, bytes) :
             c.by = RowCaller /\ c.op = "save" /\ expected \ row.nodes # {}
      BY DEF SaveCalls, Call
    <3>2. Mine' \subseteq SaveCalls(RowCaller, expected \ row.nodes, RowHash, bytes)
      BY <2>2 DEF Mine
    <3>3. WaitsForRow'
      BY <2>2, <3>1, <3>2 DEF RowCaller
    <3>4. ObsoleteOfRow'
      BY <2>2 DEF ObsoleteNodes
    <3> QED BY <3>3, <3>4
  <2> QED BY <1>7, <2>1, <2>2 DEF FetchCopy, Usable
<1>8. CASE CopiesSaved
  <2>1. Mine' = {}
    BY <1>2, <1>8 DEF CopiesSaved
  <2> QED BY <1>8, <2>1 DEF CopiesSaved
<1>9. ASSUME NEW n \in Nodes, RecordCopy(n) PROVE WorkerInv'
  <2>1. Mine' = {}
    BY <1>1, <1>9 DEF RecordCopy
  <2> QED BY <1>9, <2>1 DEF RecordCopy
<1>10. ASSUME NEW n \in Nodes, ForgetCopy(n) PROVE WorkerInv'
  <2>1. Mine' = {}
    BY <1>2, <1>10 DEF ForgetCopy
  <2> QED BY <1>10, <2>1 DEF ForgetCopy
<1>11. ASSUME NEW n \in Nodes, DeleteCopy(n) PROVE WorkerInv'
  <2>1. \A c \in DeleteCalls(RowCaller, {n}, RowHash) :
           c.by = RowCaller /\ c.op = "delete" /\ c.node = n
    BY DEF DeleteCalls, Call
  <2>2. Mine' \subseteq DeleteCalls(RowCaller, {n}, RowHash)
    BY <1>11 DEF DeleteCopy, Mine
  <2> QED BY <1>11, <2>1, <2>2 DEF DeleteCopy, RowCaller
<1> QED BY <1>3, <1>4, <1>5, <1>6, <1>7, <1>8, <1>9, <1>10, <1>11 DEF WorkerStep

\* A gateway that starts anew waits for nothing.
LEMMA CrashWorkerInv ==
    ASSUME TypeInv, WorkerInv, GatewayCrash
    PROVE  WorkerInv'
<1>1. \A c \in calls : c.by \in Callers /\ [c EXCEPT !.live = FALSE].live = FALSE
  BY DEF TypeInv, TypeOK, StorageTypeOK, Calls
<1>2. \A c \in Abandon(Callers) : ~c.live
  BY <1>1 DEF Abandon
<1>3. Mine' = {}
  BY <1>2 DEF GatewayCrash, Mine
<1> QED BY <1>3 DEF GatewayCrash, WorkerRestart, Forget, WorkerInv, WaitsForRow, ObsoleteOfRow

\* What the worker waits for and still has to clear, in every reachable state.
THEOREM WorkerInvariant == Spec => []WorkerInv
<1>1. Init => WorkerInv
  BY DEF Init, StorageInit, WorkerInit, WorkerInv, WaitsForRow, ObsoleteOfRow, Mine
<1>2. TypeInv /\ WorkerInv /\ [Next]_vars => WorkerInv'
  <2> SUFFICES ASSUME TypeInv, WorkerInv, [Next]_vars PROVE WorkerInv'
    OBVIOUS
  <2>0. StorageTypeOK
    BY DEF TypeInv, TypeOK
  <2>1. CASE Storage
    BY <2>0, <2>1, StorageWaits, WorkerInvFrame DEF Storage
  <2>2. CASE Sync \/ UNCHANGED vars
    <3>1. UNCHANGED <<calls, workerVars>>
      BY <2>2 DEF Sync, vars, gatewayVars, storageVars
    <3> QED BY <3>1, WorkerInvFrame DEF NoNewWaits, Mine
  <2>3. CASE Client
    BY <2>0, <2>3, HandlerWaits, WorkerInvFrame DEF Client
  <2>4. ASSUME NEW o \in Objects, Uploading(o) \/ Deleting(o) PROVE WorkerInv'
    BY <2>0, <2>4, HandlerWaits, WorkerInvFrame DEF Uploading, Deleting
  <2>5. ASSUME NEW r \in Readers, Downloading(r) PROVE WorkerInv'
    BY <2>0, <2>5, HandlerWaits, WorkerInvFrame DEF Downloading
  <2> QED BY <2>1, <2>2, <2>3, <2>4, <2>5, WorkerStepInv, CrashWorkerInv DEF Next
<1> QED BY <1>1, <1>2, TypeCorrect, PTL DEF Spec

----------------------------------------------------------------------------
(* What the worker has read of the table, in every behaviour.              *)

\* What the worker has read of the table is still there: nobody but itself
\* changes the locations of a chunk row that exists.
RowsFresh == \A r \in rows : objects[r.object] # "deleted" =>
    r.part \in chunks[r.object] /\ r.nodes = locations[r.object][r.part]

Visiting == rebalancer \notin {"asleep", "check", "pick"}

\* A row is visited once in a pass, and what is left to clear is recorded.
VisitFresh == Visiting /\ objects[row.object] # "deleted" =>
    /\ row.part \in chunks[row.object]
    /\ \A r \in rows : ~(r.object = row.object /\ r.part = row.part)
    /\ rebalancer = "fetch" => row.nodes = locations[row.object][row.part]
    /\ obsolete \subseteq locations[row.object][row.part]

\* A chunk row is written once: its goroutine is through, or its request is.
WrittenOnce == \A o \in Objects : \A i \in chunks[o] :
    upload[o] = "failed" \/ part[o][i] = "recorded"

PassInv == RowsFresh /\ VisitFresh /\ WrittenOnce

\* Nobody changed a chunk row that existed.
RowsStay == \A o \in Objects : objects'[o] # "deleted" =>
    /\ objects[o] # "deleted"
    /\ \A i \in chunks[o] : i \in chunks'[o] /\ locations'[o][i] = locations[o][i]

\* An upload writes only chunk rows that are not there.
LEMMA UploadRows ==
    ASSUME ServiceInv, WrittenOnce, NEW o \in Objects,
           UploadStep(o) \/ UploadStart(o) \/ BodyError(o)
    PROVE  /\ WrittenOnce'
           /\ \A p \in Objects : \A i \in chunks[p] :
                 i \in chunks'[p] /\ locations'[p][i] = locations[p][i]
<1>0. HandlerTypeOK /\ MetadataTypeOK /\ \A x \in Objects : chunks[x] \subseteq Parts(x)
  BY DEF ServiceInv, TypeInv, TypeOK, RowsInBody
<1>1. \A i \in Parts(o) : i \in AllParts
  BY BodyType
<1>2. ASSUME UNCHANGED <<chunks, locations>>,
             \A p \in Objects : upload[p] = "failed" => upload'[p] = "failed",
             \A p \in Objects : \A i \in chunks[p] : part[p][i] = "recorded" => part'[p][i] = "recorded"
      PROVE  /\ WrittenOnce'
             /\ \A p \in Objects : \A i \in chunks[p] :
                   i \in chunks'[p] /\ locations'[p][i] = locations[p][i]
  BY <1>2 DEF WrittenOnce
<1>3. ASSUME NEW i \in Parts(o), upload[o] = "meta", part[o][i] = "stored",
             CreateChunk(o, i, kept[o][i]),
             \/ upload' = [upload EXCEPT ![o] = "failed"] /\ part' = part
             \/ part' = [part EXCEPT ![o][i] = "recorded"] /\ upload' = upload
      PROVE  /\ WrittenOnce'
             /\ \A p \in Objects : \A j \in chunks[p] :
                   j \in chunks'[p] /\ locations'[p][j] = locations[p][j]
  <2>1. i \notin chunks[o]
    BY <1>3 DEF WrittenOnce
  <2>2. ASSUME NEW p \in Objects, NEW j \in chunks[p]
        PROVE  j \in chunks'[p] /\ locations'[p][j] = locations[p][j]
    BY <1>0, <1>1, <1>3, <2>1, <2>2 DEF CreateChunk, MetadataTypeOK
  <2>3. ASSUME NEW p \in Objects, NEW j \in chunks'[p]
        PROVE  upload'[p] = "failed" \/ part'[p][j] = "recorded"
    <3>1. j \in chunks[p] \/ (p = o /\ j = i)
      BY <1>0, <1>3, <2>3 DEF CreateChunk, MetadataTypeOK
    <3> QED BY <1>0, <1>1, <1>3, <3>1 DEF WrittenOnce, HandlerTypeOK
  <2> QED BY <2>2, <2>3 DEF WrittenOnce
<1>4. CASE UploadStart(o) \/ BodyError(o) \/ ChunksFailed(o) \/ UploadDone(o) \/ CreateObjectRow(o)
  <2>1. /\ UNCHANGED <<chunks, locations, part>> /\ upload[o] # "failed"
        /\ \E v : upload' = [upload EXCEPT ![o] = v]
    BY <1>4 DEF UploadStart, BodyError, ChunksFailed, UploadDone, CreateObjectRow, CreateObject,
                metadataVars
  <2> QED BY <1>0, <1>2, <2>1 DEF HandlerTypeOK
<1>5. ASSUME NEW i \in Parts(o), PlaceChunk(o, i) \/ SettleChunk(o, i)
      PROVE  /\ WrittenOnce'
             /\ \A p \in Objects : \A j \in chunks[p] :
                   j \in chunks'[p] /\ locations'[p][j] = locations[p][j]
  <2>1. /\ UNCHANGED <<chunks, locations, upload>> /\ part[o][i] # "recorded"
        /\ \E v : part' = [part EXCEPT ![o][i] = v]
    BY <1>5 DEF PlaceChunk, SettleChunk, metadataVars
  <2> QED BY <1>0, <1>1, <1>2, <2>1 DEF HandlerTypeOK
<1>6. ASSUME NEW i \in Parts(o), CreateChunkRow(o, i)
      PROVE  /\ WrittenOnce'
             /\ \A p \in Objects : \A j \in chunks[p] :
                   j \in chunks'[p] /\ locations'[p][j] = locations[p][j]
  BY <1>3, <1>6 DEF CreateChunkRow
<1>7. ASSUME NEW i \in Parts(o), CreateChunkFails(o, i)
      PROVE  /\ WrittenOnce'
             /\ \A p \in Objects : \A j \in chunks[p] :
                   j \in chunks'[p] /\ locations'[p][j] = locations[p][j]
  <2>1. CASE UNCHANGED metadataVars
    <3>1. /\ UNCHANGED <<chunks, locations, part>> /\ upload[o] # "failed"
          /\ upload' = [upload EXCEPT ![o] = "failed"]
      BY <1>7, <2>1 DEF CreateChunkFails, metadataVars
    <3> QED BY <1>0, <1>2, <3>1 DEF HandlerTypeOK
  <2>2. CASE CreateChunk(o, i, kept[o][i])
    BY <1>3, <1>7, <2>2 DEF CreateChunkFails
  <2> QED BY <1>7, <2>1, <2>2 DEF CreateChunkFails
<1> QED BY <1>4, <1>5, <1>6, <1>7 DEF UploadStep

\* So does everybody but the worker.
LEMMA OthersLeaveRows ==
    ASSUME ServiceInv, WrittenOnce, [Next]_vars, ~WorkerStep
    PROVE  WrittenOnce' /\ RowsStay /\ (UNCHANGED workerVars \/ GatewayCrash)
<1>0. MetadataTypeOK /\ DeletedStay
  BY DeletedForGood DEF ServiceInv, TypeInv, TypeOK
<1>1. ASSUME \A p \in Objects : \A i \in chunks[p] :
                i \in chunks'[p] /\ locations'[p][i] = locations[p][i]
      PROVE  RowsStay
  BY <1>0, <1>1 DEF DeletedStay, RowsStay
<1>2. ASSUME UNCHANGED <<metadataVars, part>>,
             \A p \in Objects : upload[p] = "failed" => upload'[p] = "failed"
      PROVE  WrittenOnce' /\ RowsStay
  BY <1>1, <1>2 DEF WrittenOnce, metadataVars
<1>3. ASSUME NEW o \in Objects, UploadStep(o) \/ UploadStart(o) \/ BodyError(o)
      PROVE  WrittenOnce' /\ RowsStay
  BY <1>1, <1>3, UploadRows
<1>4. ASSUME NEW o \in Objects, DeleteStep(o) \/ DeleteStart(o) \/ DeleteCancelled(o)
      PROVE  WrittenOnce' /\ RowsStay
  <2>1. /\ DeleteObject(o) \/ UNCHANGED metadataVars
        /\ UNCHANGED <<upload, part>>
    BY <1>4 DEF DeleteStep, DeleteRows, DeleteDone, DeleteStart, DeleteCancelled
  <2>2. CASE UNCHANGED metadataVars
    BY <1>2, <2>1, <2>2
  <2>3. CASE DeleteObject(o)
    <3>1. /\ objects'[o] = "deleted" /\ chunks'[o] = {}
          /\ \A p \in Objects \ {o} : /\ chunks'[p] = chunks[p] /\ locations'[p] = locations[p]
                                      /\ objects'[p] = objects[p]
      BY <1>0, <2>3 DEF DeleteObject, MetadataTypeOK
    <3> QED BY <2>1, <3>1 DEF WrittenOnce, RowsStay
  <2> QED BY <2>1, <2>2, <2>3
<1>5. ASSUME NEW r \in Readers, Downloading(r) \/ \E o \in Objects : DownloadStart(r, o)
      PROVE  WrittenOnce' /\ RowsStay
  <2>1. UNCHANGED <<metadataVars, part, upload>>
    BY <1>5 DEF Downloading, DownloadStep, DownloadStart, DownloadRows, DownloadReplica,
                DownloadEnd
  <2> QED BY <1>2, <2>1
<1>6. ASSUME Storage \/ Sync \/ UNCHANGED vars
      PROVE  WrittenOnce' /\ RowsStay
  <2>1. UNCHANGED <<metadataVars, part, upload>>
    BY <1>6 DEF Storage, Sync, vars, gatewayVars, handlerVars
  <2> QED BY <1>2, <2>1
<1>7. ASSUME GatewayCrash
      PROVE  WrittenOnce' /\ RowsStay
  <2>1. /\ UNCHANGED <<metadataVars, part>>
        /\ \A p \in Objects : upload[p] = "failed" => upload'[p] = "failed"
    BY <1>7 DEF GatewayCrash, HandlersLost
  <2> QED BY <1>2, <2>1
<1>8. CASE Client
  BY <1>3, <1>4, <1>5, <1>8 DEF Client
<1>9. UNCHANGED workerVars \/ GatewayCrash
  BY DEF Next, Storage, Sync, Client, Uploading, Deleting, Downloading, vars
<1> QED BY <1>3, <1>4, <1>5, <1>6, <1>7, <1>8, <1>9 DEF Next, Uploading, Deleting

\* A row picked from the pass is as the table has it, and no longer in the pass.
LEMMA PickFresh ==
    ASSUME ServiceInv, WorkerInv, PassInv, PickRow
    PROVE  RowsFresh' /\ VisitFresh'
<1>0. rows \subseteq Rows /\ UNCHANGED <<objects, chunks, locations, obsolete>>
  BY DEF ServiceInv, TypeInv, TypeOK, WorkerTypeOK, PickRow, gatewayVars, metadataVars
<1>1. PICK r \in rows :
         /\ rebalancer = "pick" /\ rows' = rows \ {r}
         /\ \/ UNCHANGED <<rebalancer, row>>
            \/ rebalancer' = "fetch" /\ row' = r
  BY DEF PickRow
<1>2. RowsFresh'
  BY <1>0, <1>1 DEF PassInv, RowsFresh
<1>3. CASE UNCHANGED <<rebalancer, row>>
  BY <1>1, <1>2, <1>3 DEF VisitFresh, Visiting
<1>4. CASE rebalancer' = "fetch" /\ row' = r
  <2>1. obsolete' = {}
    BY <1>0, <1>1 DEF WorkerInv, ObsoleteOfRow
  <2>2. ASSUME NEW q \in rows', objects[r.object] # "deleted", q.object = r.object, q.part = r.part
        PROVE  FALSE
    <3>1. q.nodes = r.nodes
      BY <1>1, <2>2 DEF PassInv, RowsFresh
    <3>2. q = r
      BY <1>0, <1>1, <2>2, <3>1 DEF Rows
    <3> QED BY <1>1, <3>2
  <2>3. objects[r.object] # "deleted" =>
           r.part \in chunks[r.object] /\ r.nodes = locations[r.object][r.part]
    BY <1>1 DEF PassInv, RowsFresh
  <2> QED BY <1>0, <1>2, <1>4, <2>1, <2>2, <2>3 DEF VisitFresh
<1> QED BY <1>1, <1>3, <1>4, <1>2

\* The worker's other steps change no location but those of its row, and
\* take none it still has to clear.
LEMMA WorkerFresh ==
    ASSUME ServiceInv, WorkerInv, PassInv, WorkerStep
    PROVE  PassInv'
<1>0. /\ rows \subseteq Rows /\ row \in Rows
      /\ locations \in [Objects -> [AllParts -> SUBSET Nodes]]
      /\ UNCHANGED <<objects, chunks, upload, part>>
  BY OtherStepsFrame DEF ServiceInv, TypeInv, TypeOK, WorkerTypeOK, MetadataTypeOK
<1>1. WrittenOnce'
  BY <1>0 DEF PassInv, WrittenOnce
<1>2. RowsFresh /\ VisitFresh
  BY DEF PassInv
<1>3. ASSUME rows' \subseteq rows, locations' = locations,
             \/ rebalancer' \in {"asleep", "check", "pick"}
             \/ /\ Visiting /\ rebalancer' # "fetch" /\ UNCHANGED row
                /\ obsolete' \subseteq locations[row.object][row.part]
                     \/ obsolete' \subseteq obsolete
      PROVE  RowsFresh' /\ VisitFresh'
  BY <1>0, <1>2, <1>3 DEF RowsFresh, VisitFresh, Visiting
<1>4. CASE ScanChunks
  <2>1. rows' \subseteq GetAllChunks /\ rebalancer' = "check" /\ UNCHANGED locations
    BY <1>4 DEF ScanChunks, metadataVars
  <2>2. \A r \in GetAllChunks : r.part \in chunks[r.object] /\ r.nodes = locations[r.object][r.part]
    BY DEF GetAllChunks, Joined
  <2> QED BY <1>0, <1>1, <2>1, <2>2 DEF PassInv, RowsFresh, VisitFresh, Visiting
<1>5. CASE CheckRing \/ FetchFailed \/ RowDone \/ PassDone
  <2>1. rows' \subseteq rows /\ locations' = locations /\ rebalancer' \in {"asleep", "pick"}
    BY <1>5 DEF CheckRing, FetchFailed, RowDone, PassDone, gatewayVars, metadataVars
  <2> QED BY <1>1, <1>3, <2>1 DEF PassInv
<1>6. CASE CopiesSaved \/ AllRecorded
  <2>1. /\ rows' = rows /\ locations' = locations /\ Visiting
        /\ rebalancer' # "fetch" /\ UNCHANGED <<row, obsolete>>
    BY <1>6 DEF CopiesSaved, AllRecorded, gatewayVars, metadataVars, Visiting
  <2> QED BY <1>1, <1>3, <2>1 DEF PassInv
<1>7. ASSUME NEW n \in Nodes, FetchCopy(n) PROVE PassInv'
  <2>1. /\ rows' = rows /\ locations' = locations /\ rebalancer = "fetch" /\ Visiting
    BY <1>7 DEF FetchCopy, metadataVars, Visiting
  <2>2. CASE UNCHANGED <<rebalancer, row, obsolete>>
    BY <1>0, <1>1, <1>2, <2>1, <2>2 DEF PassInv, RowsFresh, VisitFresh, Visiting
  <2>3. CASE rebalancer' = "pick"
    BY <1>1, <1>3, <2>1, <2>3 DEF PassInv
  <2>4. CASE /\ rebalancer' \in {"clearing", "saving"} /\ UNCHANGED row
             /\ obsolete' \subseteq row.nodes
    BY <1>0, <1>1, <1>2, <2>1, <2>4 DEF PassInv, RowsFresh, VisitFresh, Visiting
  <2> QED BY <1>7, <2>2, <2>3, <2>4 DEF FetchCopy, ObsoleteNodes
<1>8. ASSUME NEW n \in Nodes, DeleteCopy(n) PROVE PassInv'
  <2>1. /\ rows' = rows /\ locations' = locations /\ Visiting
        /\ rebalancer' # "fetch" /\ UNCHANGED <<row, obsolete>>
    BY <1>8 DEF DeleteCopy, metadataVars, Visiting
  <2> QED BY <1>1, <1>3, <2>1 DEF PassInv
<1>9. ASSUME rows' = rows, row' = row, Visiting, rebalancer' # "fetch", obsolete' \subseteq obsolete,
             \A o \in Objects : \A i \in AllParts :
                o # row.object \/ i # row.part => locations'[o][i] = locations[o][i],
             \A m \in obsolete' : m \in locations[row.object][row.part]
                                    => m \in locations'[row.object][row.part]
      PROVE  PassInv'
  <2>1. ASSUME NEW r \in rows, objects[r.object] # "deleted"
        PROVE  r.part \in chunks[r.object] /\ r.nodes = locations'[r.object][r.part]
    <3>1. r.object \in Objects /\ r.part \in AllParts
      BY <1>0, <2>1 DEF Rows
    <3>2. ~(r.object = row.object /\ r.part = row.part)
      BY <1>2, <1>9, <2>1 DEF VisitFresh
    <3> QED BY <1>2, <1>9, <2>1, <3>1, <3>2 DEF RowsFresh
  <2> QED BY <1>0, <1>1, <1>2, <1>9, <2>1 DEF PassInv, RowsFresh, VisitFresh
<1>10. row.object \in Objects /\ row.part \in AllParts
  BY <1>0 DEF Rows
<1>11. ASSUME NEW n \in Nodes, RecordCopy(n) PROVE PassInv'
  <2>1. /\ rows' = rows /\ row' = row /\ Visiting /\ rebalancer' # "fetch" /\ obsolete' = obsolete
        /\ locations' = locations
             \/ locations' = [locations EXCEPT ![row.object][row.part] = @ \cup {n}]
    BY <1>11 DEF RecordCopy, AddChunkLocation, metadataVars, Visiting
  <2> QED BY <1>0, <1>9, <1>10, <2>1
<1>12. ASSUME NEW n \in Nodes, ForgetCopy(n) PROVE PassInv'
  <2>1. /\ rows' = rows /\ row' = row /\ Visiting /\ rebalancer' # "fetch" /\ obsolete' = obsolete \ {n}
        /\ locations' = locations
             \/ locations' = [locations EXCEPT ![row.object][row.part] = @ \ {n}]
    BY <1>12 DEF ForgetCopy, RemoveChunkLocation, metadataVars, Visiting
  <2> QED BY <1>0, <1>9, <1>10, <2>1
<1>13. CASE PickRow
  BY <1>1, <1>13, PickFresh DEF PassInv
<1> QED BY <1>4, <1>5, <1>6, <1>7, <1>8, <1>11, <1>12, <1>13 DEF WorkerStep

\* What a pass read at its start still holds when it gets there, and what the
\* worker clears is a location of the chunk at that moment, whatever uploads,
\* DELETEs, ring rebuilds and failures do meanwhile.
THEOREM PassesReadTrue == Spec => []RowsCurrent
<1>1. Init => PassInv
  BY DEF Init, MetadataInit, WorkerInit, PassInv, RowsFresh, VisitFresh, Visiting, WrittenOnce
<1>2. ServiceInv /\ WorkerInv /\ PassInv /\ [Next]_vars => PassInv'
  <2> SUFFICES ASSUME ServiceInv, WorkerInv, PassInv, [Next]_vars PROVE PassInv'
    OBVIOUS
  <2>1. CASE WorkerStep
    BY <2>1, WorkerFresh
  <2>2. CASE ~WorkerStep
    <3>1. WrittenOnce' /\ RowsStay /\ (UNCHANGED workerVars \/ GatewayCrash)
      BY <2>2, OthersLeaveRows DEF PassInv
    <3>2. CASE GatewayCrash
      BY <3>1, <3>2 DEF GatewayCrash, WorkerRestart, PassInv, RowsFresh, VisitFresh, Visiting
    <3>3. CASE UNCHANGED workerVars
      <4>1. row.object \in Objects /\ \A r \in rows : r.object \in Objects
        BY DEF ServiceInv, TypeInv, TypeOK, WorkerTypeOK, Rows
      <4>2. RowsFresh'
        BY <3>1, <3>3, <4>1 DEF PassInv, RowsFresh, RowsStay, workerVars
      <4>3. VisitFresh'
        BY <3>1, <3>3, <4>1 DEF PassInv, VisitFresh, Visiting, RowsStay, workerVars
      <4> QED BY <3>1, <4>2, <4>3 DEF PassInv
    <3> QED BY <3>1, <3>2, <3>3
  <2> QED BY <2>1, <2>2
<1>3. WorkerInv /\ PassInv => RowsCurrent
  <2> SUFFICES ASSUME WorkerInv, PassInv PROVE RowsCurrent
    OBVIOUS
  <2>1. ASSUME NEW c \in calls, c.live, c.by.who = "rebalancer", c.op = "delete",
               objects[c.by.object] = "stored"
        PROVE  c.node \in locations[c.by.object][c.by.part]
    <3>1. c \in Mine
      BY <2>1 DEF Mine
    <3>2. c.by = RowCaller /\ rebalancer = "deleting" /\ c.node \in obsolete
      BY <2>1, <3>1 DEF WorkerInv, WaitsForRow
    <3>3. c.by.object = row.object /\ c.by.part = row.part
      BY <3>2 DEF RowCaller
    <3> QED BY <2>1, <3>2, <3>3 DEF PassInv, VisitFresh, Visiting
  <2> QED BY <2>1 DEF PassInv, RowsFresh, RowsCurrent
<1> QED BY <1>1, <1>2, <1>3, ServiceInvariant, WorkerInvariant, PTL DEF Spec

----------------------------------------------------------------------------
(* The locations in the table while nothing fails.  Chunks that share a    *)
(* hash share a file, and a DELETE or the visit of another row takes it    *)
(* from all of them: the theorems are about requests whose chunks differ.  *)

\* No two chunks of the requests, of one or of two, have the same bytes.
ChunksDiffer ==
    \A o, p \in Objects : \A i \in Parts(o), j \in Parts(p) :
        Body[o][i] = Body[p][j] => o = p /\ i = j

\* The object's chunks are still somebody's concern.
Held(o) == objects[o] # "deleted" /\ upload[o] # "failed"

\* The call is of a chunk's goroutine, sweeps a chunk of a deleted object or
\* is awaited by the rebalancer.
OfChunk(c) ==
    /\ c.by.part \in Parts(c.by.object) /\ c.hash = Body[c.by.object][c.by.part]
    /\ \/ c.by.who = "upload" /\ c.op = "save"
       \/ c.by.who = "delete" /\ objects[c.by.object] = "deleted"
       \/ c.by.who = "rebalancer" /\ c.live

CallsOfChunks == \A c \in calls : OfChunk(c)

On(o, i) == CallsFor(Body[o][i])
GoodFile(n, o, i) == disk[n][Body[o][i]] = "good"

\* A save is never aimed at a location and leaves a good file when it ends.
SavesElsewhere(o, i) ==
    \A c \in On(o, i) : c.op = "save" =>
        /\ c.node \notin locations[o][i]
        /\ c.step = "ok" => GoodFile(c.node, o, i)

\* No calls before the chunk is placed or after it is stored, and only the
\* rebalancer's once it is in the table.
CallsOfStage(o, i) ==
    /\ part[o][i] \in {"unread", "stored"} => On(o, i) = {}
    /\ part[o][i] = "recorded" => \A c \in On(o, i) : c.by.who = "rebalancer"
    /\ part[o][i] = "stored" => \A n \in kept[o][i] : GoodFile(n, o, i)

\* A location is good or just being deleted.
LocationsGood(o, i) ==
    \A n \in locations[o][i] :
        GoodFile(n, o, i) \/ \E c \in On(o, i) : c.op = "delete" /\ c.node = n

RowOfStage(o, i) ==
    /\ i \in chunks[o] => part[o][i] = "recorded" /\ objects[o] = "stored"
    /\ i \notin chunks[o] => locations[o][i] = {}

FileInv(o, i) ==
    /\ Orderly(Body[o][i]) /\ SavesElsewhere(o, i) /\ CallsOfStage(o, i)
    /\ LocationsGood(o, i) /\ RowOfStage(o, i)

\* What a visit has read and done while nothing failed.
RowFresh == Visiting /\ objects[row.object] # "deleted" =>
    /\ row.part \in chunks[row.object]
    /\ \A r \in rows : ~(r.object = row.object /\ r.part = row.part)
    /\ rebalancer \in {"fetch", "saving"} => row.nodes = locations[row.object][row.part]
    /\ \A n \in saved : GoodFile(n, row.object, row.part)

OneAtATime ==
    /\ rebalancer = "fetch" => sources \subseteq row.nodes
    /\ rebalancer # "recording" => saved = {}
    /\ rebalancer = "deleting" => \A c, d \in Mine : c.node = d.node

VisitInv == RowsFresh /\ RowFresh /\ OneAtATime

StoredHeld == \A o \in Objects : objects[o] = "stored" => upload[o] \in {"meta", "acked"}

FilesInv == \A o \in Objects : Held(o) => \A i \in Parts(o) : FileInv(o, i)

FaultlessInv == CallsOfChunks /\ StoredHeld /\ VisitInv /\ FilesInv

\* What the steps below start from.
Faultless ==
    /\ ChunksDiffer /\ ServiceInv /\ ServiceInv' /\ WorkerInv /\ FaultlessInv
    /\ UNCHANGED faults

\* What Faultless and typing say of a state, for use below.
LEMMA FaultlessTypes ==
    ASSUME ServiceInv
    PROVE  /\ calls \subseteq Calls /\ disk \in [Nodes -> [Hashes -> Files]] /\ faults \in Nat
           /\ objects \in [Objects -> {"none", "stored", "deleted"}]
           /\ chunks \in [Objects -> SUBSET AllParts]
           /\ locations \in [Objects -> [AllParts -> SUBSET Nodes]]
           /\ upload \in [Objects -> {"idle", "reading", "meta", "acked", "failed"}]
           /\ part \in [Objects -> [AllParts -> {"unread", "saving", "stored", "recorded", "failed"}]]
           /\ kept \in [Objects -> [AllParts -> SUBSET Nodes]]
           /\ rows \subseteq Rows /\ row \in Rows /\ sources \subseteq Nodes /\ saved \subseteq Nodes
           /\ expected \subseteq Nodes
           /\ \A o \in Objects : UploadInv(o) /\ chunks[o] \subseteq Parts(o)
           /\ Visiting => row.part \in Parts(row.object)
<1>1. /\ calls \subseteq Calls /\ disk \in [Nodes -> [Hashes -> Files]] /\ faults \in Nat
  BY DEF ServiceInv, TypeInv, TypeOK, StorageTypeOK
<1>2. /\ objects \in [Objects -> {"none", "stored", "deleted"}]
      /\ chunks \in [Objects -> SUBSET AllParts]
      /\ locations \in [Objects -> [AllParts -> SUBSET Nodes]]
  BY DEF ServiceInv, TypeInv, TypeOK, MetadataTypeOK
<1>3. /\ upload \in [Objects -> {"idle", "reading", "meta", "acked", "failed"}]
      /\ part \in [Objects -> [AllParts -> {"unread", "saving", "stored", "recorded", "failed"}]]
      /\ kept \in [Objects -> [AllParts -> SUBSET Nodes]]
  BY DEF ServiceInv, TypeInv, TypeOK, HandlerTypeOK
<1>4. /\ rows \subseteq Rows /\ row \in Rows /\ sources \subseteq Nodes /\ saved \subseteq Nodes
      /\ expected \subseteq Nodes
  BY DEF ServiceInv, TypeInv, TypeOK, WorkerTypeOK
<1>5. /\ \A o \in Objects : UploadInv(o) /\ chunks[o] \subseteq Parts(o)
      /\ Visiting => row.part \in Parts(row.object)
  BY DEF ServiceInv, TypeInv, RowsInBody, Visiting
<1> QED BY <1>1, <1>2, <1>3, <1>4, <1>5

\* The object and the chunk in the name of the caller are those of the file.
LEMMA CallOfChunk ==
    ASSUME ServiceInv, ChunksDiffer, CallsOfChunks,
           NEW o \in Objects, NEW i \in Parts(o), NEW c \in calls
    PROVE  /\ c \in On(o, i) <=> c.by.object = o /\ c.by.part = i
           /\ c.by.who = "upload" => c.by = ChunkCaller(c.by.object, c.by.part)
           /\ c.by.who = "delete" => c.by = SweepCaller(c.by.object, c.by.part)
           /\ c.by.object \in Objects
<1>1. c.by \in Callers /\ c.by.who # "multipart"
  BY FaultlessTypes DEF CallsOfChunks, OfChunk, Calls
<1>2. c.by \in [who : {"upload", "delete", "rebalancer"}, object : Objects, part : AllParts]
  BY <1>1 DEF Callers
<1>3. c.by.object \in Objects /\ c.by.part \in Parts(c.by.object)
      /\ c.hash = Body[c.by.object][c.by.part]
  BY <1>2 DEF CallsOfChunks, OfChunk
<1>4. c \in On(o, i) <=> c.by.object = o /\ c.by.part = i
  BY <1>3 DEF ChunksDiffer, On, CallsFor
<1>5. /\ c.by.who = "upload" => c.by = ChunkCaller(c.by.object, c.by.part)
      /\ c.by.who = "delete" => c.by = SweepCaller(c.by.object, c.by.part)
  BY <1>2 DEF ChunkCaller, SweepCaller
<1> QED BY <1>3, <1>4, <1>5

\* The calls for a chunk somebody is concerned with are of its goroutine, or
\* of the visit of its row while the worker saves or deletes.
LEMMA WhoIsOn ==
    ASSUME Faultless, NEW o \in Objects, Held(o), NEW i \in Parts(o), NEW c \in On(o, i)
    PROVE  \/ c.by = ChunkCaller(o, i) /\ c.op = "save"
           \/ /\ c \in Mine /\ c.by = RowCaller /\ rebalancer \in {"saving", "deleting"}
              /\ row.object = o /\ row.part = i
<1>1. c \in calls /\ c.by.object = o /\ c.by.part = i
  BY CallOfChunk DEF On, CallsFor, Faultless, FaultlessInv
<1>2. CASE c.by.who = "upload" /\ c.op = "save"
  BY <1>1, <1>2, CallOfChunk DEF Faultless, FaultlessInv
<1>3. CASE c.by.who = "rebalancer" /\ c.live
  <2>1. c \in Mine /\ c.by = RowCaller /\ rebalancer \in {"saving", "deleting"}
    BY <1>1, <1>3 DEF Mine, Faultless, WorkerInv, WaitsForRow
  <2> QED BY <1>1, <2>1 DEF RowCaller
<1> QED BY <1>1, <1>2, <1>3 DEF Faultless, FaultlessInv, CallsOfChunks, OfChunk, Held

\* So a chunk in the table has no calls between them.
LEMMA RowQuiet ==
    ASSUME Faultless, NEW o \in Objects, Held(o), NEW i \in chunks[o],
           \/ rebalancer \notin {"saving", "deleting"}
           \/ row.object # o \/ row.part # i
    PROVE  i \in Parts(o) /\ On(o, i) = {}
<1>1. i \in Parts(o)
  BY FaultlessTypes DEF Faultless
<1>2. \A c \in On(o, i) : c.by.who = "rebalancer"
  BY <1>1 DEF Faultless, FaultlessInv, FilesInv, FileInv, RowOfStage, CallsOfStage
<1>3. ChunkCaller(o, i).who = "upload"
  BY DEF ChunkCaller
<1> QED BY <1>1, <1>2, <1>3, WhoIsOn

\* A chunk in the table belongs to an object that is held.
LEMMA RowHeld ==
    ASSUME Faultless, NEW o \in Objects, chunks[o] # {}
    PROVE  objects[o] = "stored" /\ Held(o)
  BY FaultlessTypes DEF Faultless, FaultlessInv, StoredHeld, UploadInv, NoStrayRows, Held

\* A step that changes neither file, calls nor rows of a chunk.
LEMMA FileFrame ==
    ASSUME NEW o, NEW i, FileInv(o, i), UNCHANGED <<disk, On(o, i), locations[o][i]>>,
           UNCHANGED <<part[o][i], kept[o][i]>>,
           i \in chunks'[o] <=> i \in chunks[o], objects[o] = "stored" => objects'[o] = "stored"
    PROVE  FileInv(o, i)'
<1>1. Orderly(Body[o][i])'
  BY DEF FileInv, Orderly, On
<1>2. SavesElsewhere(o, i)' /\ CallsOfStage(o, i)' /\ LocationsGood(o, i)' /\ RowOfStage(o, i)'
  BY DEF FileInv, SavesElsewhere, CallsOfStage, LocationsGood, RowOfStage, GoodFile
<1> QED BY <1>1, <1>2 DEF FileInv

\* The nodes keep every file in the state its chunk needs.
LEMMA StorageFile ==
    ASSUME Faultless, Storage, NEW o \in Objects, Held(o), NEW i \in Parts(o)
    PROVE  FileInv(o, i)'
<1>1. /\ Body[o][i] \in Hashes /\ StorageTypeOK /\ FileInv(o, i)
      /\ UNCHANGED <<part[o][i], kept[o][i], locations[o][i], chunks[o], objects[o]>>
  BY BodyType DEF Faultless, FaultlessInv, FilesInv, ServiceInv, TypeInv, TypeOK,
                  Storage, metadataVars, handlerVars
<1>2. /\ locations[o][i] \subseteq Nodes /\ kept[o][i] \subseteq Nodes
      /\ \A c \in On(o, i) : c.node \in Nodes /\ c.op \in {"save", "delete"}
  <2>1. i \in AllParts /\ calls \subseteq Calls
    BY BodyType, FaultlessTypes DEF Faultless
  <2> QED BY <2>1, FaultlessTypes DEF Faultless, On, CallsFor, Calls
<1>3. RowOfStage(o, i)'
  BY <1>1 DEF FileInv, RowOfStage
<1>4. CASE On(o, i)' = On(o, i) /\ \A n \in Nodes : disk'[n][Body[o][i]] = disk[n][Body[o][i]]
  <2>1. Orderly(Body[o][i])'
    BY <1>1, <1>4 DEF FileInv, Orderly, On
  <2>2. SavesElsewhere(o, i)' /\ CallsOfStage(o, i)' /\ LocationsGood(o, i)'
    BY <1>1, <1>2, <1>4 DEF FileInv, SavesElsewhere, CallsOfStage, LocationsGood, GoodFile
  <2> QED BY <1>3, <2>1, <2>2 DEF FileInv
<1>5. ASSUME NEW c \in calls, NEW d \in calls', CallMoves(Body[o][i], c, d) PROVE FileInv(o, i)'
  <2>1. /\ c \in On(o, i) /\ On(o, i)' = (On(o, i) \ {c}) \cup {d}
        /\ d.by = c.by /\ d.op = c.op /\ d.node = c.node /\ d.data = c.data /\ d.live = c.live
        /\ d.step \in {"created", "ok", "failed"}
        /\ c.op = "delete" => d.step # "created"
        /\ c.op = "save" /\ d.step = "ok" => GoodFile(c.node, o, i)'
        /\ \A n \in Nodes \ {c.node} : GoodFile(n, o, i)' = GoodFile(n, o, i)
    BY <1>5 DEF CallMoves, On, GoodFile
  <2>2. \A e \in On(o, i) : e # c => e.node # c.node
    BY <1>1, <2>1 DEF FileInv, Orderly, On
  <2>3. Orderly(Body[o][i])'
    <3>1. \A e \in On(o, i)' : e.live
      BY <1>1, <2>1 DEF FileInv, Orderly, On
    <3>2. \A e, f \in On(o, i)' : e.node = f.node => e = f
      BY <1>1, <2>1, <2>2 DEF FileInv, Orderly, On
    <3>3. \A e \in On(o, i)' : /\ e.op = "save" => e.data = "good" /\ e.step # "unlinked"
                               /\ e.op = "delete" => e.step \notin {"created", "unlinked"}
      BY <1>1, <2>1 DEF FileInv, Orderly, On
    <3> QED BY <3>1, <3>2, <3>3 DEF Orderly, On
  <2>4. SavesElsewhere(o, i)'
    <3>1. ASSUME NEW e \in On(o, i)', e.op = "save"
          PROVE  e.node \notin locations'[o][i] /\ (e.step = "ok" => GoodFile(e.node, o, i)')
      BY <1>1, <1>2, <2>1, <2>2, <3>1 DEF FileInv, SavesElsewhere
    <3> QED BY <3>1 DEF SavesElsewhere
  <2>5. CallsOfStage(o, i)'
    BY <1>1, <2>1 DEF FileInv, CallsOfStage
  <2>6. LocationsGood(o, i)'
    <3>1. ASSUME NEW n \in locations[o][i]
          PROVE  GoodFile(n, o, i)' \/ \E e \in On(o, i)' : e.op = "delete" /\ e.node = n
      <4>1. CASE n = c.node
        BY <1>1, <1>2, <2>1, <4>1 DEF FileInv, SavesElsewhere
      <4>2. CASE n # c.node
        BY <1>1, <1>2, <2>1, <4>2 DEF FileInv, LocationsGood
      <4> QED BY <4>1, <4>2
    <3> QED BY <1>1, <3>1 DEF LocationsGood
  <2> QED BY <1>3, <2>3, <2>4, <2>5, <2>6 DEF FileInv
<1>6. \/ On(o, i)' = On(o, i) /\ \A n \in Nodes : disk'[n][Body[o][i]] = disk[n][Body[o][i]]
      \/ \E c \in calls, d \in calls' : CallMoves(Body[o][i], c, d)
  BY <1>1, StorageMoves DEF Storage, Faultless, FileInv, On
<1> QED BY <1>4, <1>5, <1>6

\* A visit goes on with what it has read when nobody else changes the files
\* or the rows that exist.
LEMMA VisitFrame ==
    ASSUME Faultless, UNCHANGED <<disk, workerVars>>, NoNewWaits,
           \A o \in Objects : objects'[o] # "deleted" =>
              /\ objects[o] # "deleted"
              /\ \A i \in chunks[o] : i \in chunks'[o] /\ locations'[o][i] = locations[o][i]
    PROVE  VisitInv'
<1>1. row.object \in Objects /\ \A r \in rows : r.object \in Objects
  BY FaultlessTypes DEF Faultless, Rows
<1>2. RowsFresh'
  BY <1>1 DEF Faultless, FaultlessInv, VisitInv, RowsFresh, workerVars
<1>3. RowFresh'
  BY <1>1 DEF Faultless, FaultlessInv, VisitInv, RowFresh, Visiting, GoodFile, workerVars
<1>4. OneAtATime'
  BY DEF Faultless, FaultlessInv, VisitInv, OneAtATime, NoNewWaits, workerVars
<1> QED BY <1>2, <1>3, <1>4 DEF VisitInv

\* The handlers of the nodes keep the invariant.
LEMMA StorageFaultless == ASSUME Faultless, Storage PROVE FaultlessInv'
<1>0. StorageTypeOK /\ StorageNext /\ UNCHANGED <<metadataVars, handlerVars, workerVars>>
  BY DEF Faultless, ServiceInv, TypeInv, TypeOK, Storage
<1>1. CallsOfChunks'
  <2>1. \A d \in calls' : \E b \in calls :
           d.by = b.by /\ d.op = b.op /\ d.hash = b.hash /\ d.live = b.live
    BY <1>0, FaultlessCalls DEF Faultless
  <2> QED BY <1>0, <2>1 DEF Faultless, FaultlessInv, CallsOfChunks, OfChunk, metadataVars
<1>2. StoredHeld'
  BY <1>0 DEF Faultless, FaultlessInv, StoredHeld, metadataVars, handlerVars
<1>3. FilesInv'
  BY <1>0, StorageFile DEF FilesInv, Held, metadataVars, handlerVars
<1>4. VisitInv'
  <2>1. NoNewWaits
    BY <1>0, StorageWaits
  <2>2. ASSUME NEW n \in saved, Visiting, objects[row.object] # "deleted"
        PROVE  GoodFile(n, row.object, row.part)'
    <3> DEFINE h == Body[row.object][row.part]
    <3>1. /\ row.object \in Objects /\ row.part \in chunks[row.object] /\ rebalancer = "recording"
          /\ GoodFile(n, row.object, row.part) /\ n \in Nodes
      BY <2>2, FaultlessTypes DEF Faultless, Rows, FaultlessInv, VisitInv, RowFresh, OneAtATime
    <3>2. /\ Held(row.object) /\ row.part \in Parts(row.object) /\ CallsFor(h) = {}
      BY <3>1, RowHeld, RowQuiet DEF On
    <3>3. h \in Hashes /\ Orderly(h)
      BY <3>1, <3>2, BodyType DEF Orderly
    <3>4. disk'[n][h] = disk[n][h]
      <4>1. \A c, d : ~CallMoves(h, c, d)
        BY <3>2 DEF CallMoves
      <4>2. UNCHANGED faults
        BY DEF Faultless
      <4> HIDE DEF h
      <4> QED BY <1>0, <3>1, <3>3, <4>1, <4>2, StorageMoves
    <3> QED BY <1>0, <3>1, <3>4 DEF GoodFile, workerVars
  <2>3. RowFresh'
    BY <1>0, <2>2 DEF Faultless, FaultlessInv, VisitInv, RowFresh, Visiting, metadataVars, workerVars
  <2>4. RowsFresh' /\ OneAtATime'
    BY <1>0, <2>1 DEF Faultless, FaultlessInv, VisitInv, RowsFresh, OneAtATime, NoNewWaits,
                      metadataVars, workerVars
  <2> QED BY <2>3, <2>4 DEF VisitInv
<1> QED BY <1>1, <1>2, <1>3, <1>4 DEF FaultlessInv

\* Nothing changes for any chunk that somebody is concerned with, but for the
\* chunks K of object o.
ElseSame(o, K) ==
    /\ UNCHANGED disk
    /\ \A c \in calls : c \notin calls' => \E k \in K : c.hash = Body[o][k]
    /\ \A c \in calls' : c \notin calls => \E k \in K : c.hash = Body[o][k]
    /\ \A p \in Objects : Held(p)' => Held(p) /\ \A j \in Parts(p) : p # o \/ j \notin K =>
          /\ UNCHANGED <<locations[p][j], part[p][j], kept[p][j]>>
          /\ j \in chunks'[p] <=> j \in chunks[p]
          /\ objects[p] = "stored" => objects'[p] = "stored"

\* Then only those chunks have to be looked at.
LEMMA FilesKept ==
    ASSUME Faultless, NEW o \in Objects, NEW K \in SUBSET Parts(o), ElseSame(o, K),
           Held(o)' => \A k \in K : FileInv(o, k)'
    PROVE  FilesInv'
<1>1. ASSUME NEW p \in Objects, Held(p)', NEW j \in Parts(p) PROVE FileInv(p, j)'
  <2>1. CASE p # o \/ j \notin K
    <3>1. \A k \in K : Body[o][k] # Body[p][j]
      BY <2>1 DEF Faultless, ChunksDiffer
    <3>2. On(p, j)' = On(p, j)
      BY <3>1 DEF ElseSame, On, CallsFor
    <3>3. FileInv(p, j)
      BY <1>1 DEF Faultless, FaultlessInv, FilesInv, ElseSame
    <3> QED BY <1>1, <2>1, <3>2, <3>3, FileFrame DEF ElseSame
  <2>2. CASE p = o /\ j \in K
    BY <1>1, <2>2
  <2> QED BY <2>1, <2>2
<1> QED BY <1>1 DEF FilesInv

\* Calls already there stay what they are: deleted objects stay deleted.
LEMMA CallsKept ==
    ASSUME Faultless, DeletedStay, \A d \in calls' : d \in calls \/ OfChunk(d)'
    PROVE  CallsOfChunks'
<1>1. ASSUME NEW d \in calls PROVE OfChunk(d)'
  <2>1. d \in calls /\ OfChunk(d)
    BY <1>1 DEF Faultless, FaultlessInv, CallsOfChunks, OfChunk
  <2>2. d.by.who = "delete" => d.by.object \in Objects
    BY <2>1, FaultlessTypes DEF Faultless, Calls, Callers
  <2> QED BY <2>1, <2>2 DEF OfChunk, DeletedStay
<1> QED BY <1>1 DEF CallsOfChunks, OfChunk

\* The goroutines in B give their calls up or collect the answers.
GivenUp(B) == calls' = Abandon(B) \/ calls' = calls \ UNION {Awaited(b) : b \in B}

\* Calls given up or collected are of no other chunks and leave none changed
\* that anybody awaits.
LEMMA CallsGivenUp ==
    ASSUME Faultless, DeletedStay, NEW o \in Objects, NEW K \in SUBSET Parts(o), NEW B,
           \A b \in B : \E k \in K : b = ChunkCaller(o, k) \/ b = SweepCaller(o, k),
           GivenUp(B)
    PROVE  /\ CallsOfChunks'
           /\ \A c \in calls : c \notin calls' => \E k \in K : c.hash = Body[o][k]
           /\ \A c \in calls' : c \notin calls => \E k \in K : c.hash = Body[o][k]
<1>1. ASSUME NEW c \in calls, c.by \in B
      PROVE  /\ \E k \in K : c.hash = Body[o][k]
             /\ c.by.who # "rebalancer" /\ OfChunk(c)
  BY <1>1 DEF Faultless, FaultlessInv, CallsOfChunks, OfChunk, ChunkCaller, SweepCaller
<1>2. ASSUME NEW c \in calls
      PROVE  LET d == [c EXCEPT !.live = FALSE]
             IN  d.by = c.by /\ d.op = c.op /\ d.hash = c.hash
  BY FaultlessTypes DEF Faultless, Calls
<1>3. ASSUME NEW d \in calls', d \notin calls
      PROVE  \E c \in calls : /\ c.by \in B
                              /\ d.by = c.by /\ d.op = c.op /\ d.hash = c.hash
  <2>1. \E c \in calls : c.by \in B /\ d = [c EXCEPT !.live = FALSE]
    BY <1>3 DEF GivenUp, Abandon
  <2> QED BY <1>2, <2>1
<1>4. ASSUME NEW d \in calls', d \notin calls PROVE OfChunk(d)'
  <2>1. PICK c \in calls : c.by \in B /\ d.by = c.by /\ d.op = c.op /\ d.hash = c.hash
    BY <1>3, <1>4
  <2>2. OfChunk(c) /\ c.by.who # "rebalancer"
    BY <1>1, <2>1
  <2>3. d.by.who = "delete" => d.by.object \in Objects
    BY <2>1 DEF ChunkCaller, SweepCaller
  <2> QED BY <2>1, <2>2, <2>3 DEF OfChunk, DeletedStay
<1>5. CallsOfChunks'
  BY <1>4, CallsKept
<1>6. ASSUME NEW c \in calls, c \notin calls' PROVE c.by \in B
  BY <1>6 DEF GivenUp, Abandon, Awaited
<1> QED BY <1>1, <1>3, <1>5, <1>6

\* Calls just made: one to each node, awaited, none of them yet executed.
LEMMA NewCalls ==
    ASSUME NEW by, NEW S, NEW h, NEW data
    PROVE  /\ \A c \in SaveCalls(by, S, h, data) :
                /\ c.by = by /\ c.op = "save" /\ c.hash = h /\ c.data = data
                /\ c.node \in S /\ c.step = "sent" /\ c.live
           /\ \A c, d \in SaveCalls(by, S, h, data) : c.node = d.node => c = d
           /\ \A c \in DeleteCalls(by, S, h) :
                /\ c.by = by /\ c.op = "delete" /\ c.hash = h
                /\ c.node \in S /\ c.step = "sent" /\ c.live
           /\ \A c, d \in DeleteCalls(by, S, h) : c.node = d.node => c = d
<1>1. \A op, n, e : LET c == Call(by, op, n, h, e)
                   IN  /\ c.by = by /\ c.hash = h /\ c.data = e /\ c.node = n
                       /\ c.step = "sent" /\ c.op = op
  BY DEF Call
<1>2. \A op, n, e : Call(by, op, n, h, e).live
  BY Zenon DEF Call
<1> QED BY <1>1, <1>2 DEF SaveCalls, DeleteCalls

\* Every step of an upload keeps the invariant.
LEMMA UploadFaultless ==
    ASSUME Faultless, NEW o \in Objects, UNCHANGED workerVars,
           UploadStep(o) \/ UploadStart(o) \/ BodyError(o)
    PROVE  FaultlessInv'
<1>0. /\ upload \in [Objects -> {"idle", "reading", "meta", "acked", "failed"}]
      /\ part \in [Objects -> [AllParts -> {"unread", "saving", "stored", "recorded", "failed"}]]
      /\ kept \in [Objects -> [AllParts -> SUBSET Nodes]]
      /\ objects \in [Objects -> {"none", "stored", "deleted"}]
      /\ chunks \in [Objects -> SUBSET AllParts]
      /\ locations \in [Objects -> [AllParts -> SUBSET Nodes]]
      /\ UploadInv(o) /\ StorageTypeOK
  BY FaultlessTypes DEF Faultless, ServiceInv, TypeInv, TypeOK
<1>1. StoredHeld /\ StorageTypeOK /\ CallsOfChunks /\ FilesInv
  BY <1>0 DEF Faultless, FaultlessInv
<1>a. NoNewWaits
  BY <1>0, HandlerWaits
<1>2. CASE UploadStart(o) \/ ChunksFailed(o) \/ UploadDone(o)
  <2>1. /\ UNCHANGED <<disk, calls, objects, chunks, locations, part, kept>>
        /\ \A p \in Objects \ {o} : upload'[p] = upload[p]
        /\ upload[o] # "failed"
        /\ upload'[o] \in {"reading", "failed", "acked"}
        /\ upload[o] \in {"idle", "reading"} \/ upload'[o] = "acked"
    BY <1>0, <1>2 DEF UploadStart, ChunksFailed, UploadDone, storageVars, metadataVars
  <2>2. ElseSame(o, {})
    BY <2>1 DEF ElseSame, Held
  <2>3. FilesInv'
    BY <2>2, FilesKept
  <2>4. CallsOfChunks'
    BY <2>1, CallsKept DEF DeletedStay
  <2>5. StoredHeld'
    BY <1>0, <1>1, <2>1 DEF StoredHeld, UploadInv, RowWritten
  <2>6. VisitInv'
    BY <1>a, <2>1, VisitFrame
  <2> QED BY <2>3, <2>4, <2>5, <2>6 DEF FaultlessInv
<1>3. CASE BodyError(o)
  <2> DEFINE B == {ChunkCaller(o, i) : i \in Parts(o)}
  <2>1. /\ UNCHANGED <<disk, objects, chunks, locations, part, kept>>
        /\ \A p \in Objects \ {o} : upload'[p] = upload[p]
        /\ upload[o] = "reading" /\ upload'[o] = "failed" /\ calls' = Abandon(B)
    BY <1>0, <1>3 DEF BodyError, metadataVars
  <2>2. /\ CallsOfChunks'
        /\ \A c \in calls : c \notin calls' => \E k \in Parts(o) : c.hash = Body[o][k]
        /\ \A c \in calls' : c \notin calls => \E k \in Parts(o) : c.hash = Body[o][k]
    <3>1. GivenUp(B) /\ DeletedStay /\ \A b \in B : \E k \in Parts(o) : b = ChunkCaller(o, k)
      BY <2>1 DEF GivenUp, DeletedStay
    <3> HIDE DEF B
    <3> QED BY <3>1, CallsGivenUp
  <2>3. ElseSame(o, Parts(o))
    BY <2>1, <2>2 DEF ElseSame, Held
  <2>4. FilesInv'
    BY <2>1, <2>3, FilesKept DEF Held
  <2>5. StoredHeld'
    BY <1>0, <1>1, <2>1 DEF StoredHeld, UploadInv, RowWritten
  <2>6. VisitInv'
    BY <1>a, <2>1, VisitFrame
  <2> QED BY <2>2, <2>4, <2>5, <2>6 DEF FaultlessInv
<1>4. CASE CreateObjectRow(o)
  <2>1. ~Fault("database")
    BY FaultlessTypes DEF Faultless, Fault
  <2>2. /\ UNCHANGED <<disk, calls, chunks, locations, part, kept>>
        /\ \A p \in Objects \ {o} : upload'[p] = upload[p] /\ objects'[p] = objects[p]
        /\ upload[o] = "reading" /\ upload'[o] = "meta" /\ objects'[o] = "stored"
    BY <1>0, <1>4, <2>1 DEF CreateObjectRow, CreateObject
  <2>3. objects[o] = "none"
    BY <1>0, <2>2 DEF UploadInv, RowWritten
  <2>4. ElseSame(o, {})
    BY <2>2, <2>3 DEF ElseSame, Held
  <2>5. FilesInv'
    BY <2>4, FilesKept
  <2>6. CallsOfChunks'
    BY <2>2, <2>3, CallsKept DEF DeletedStay
  <2>7. StoredHeld'
    BY <1>1, <2>2 DEF StoredHeld
  <2>8. VisitInv'
    BY <1>a, <2>2, <2>3, VisitFrame
  <2> QED BY <2>5, <2>6, <2>7, <2>8 DEF FaultlessInv
<1>5. ASSUME NEW i \in Parts(o), PlaceChunk(o, i) PROVE FaultlessInv'
  <2> DEFINE by == ChunkCaller(o, i)
             N == SaveCalls(by, GetNodes(ring, Body[o][i]), Body[o][i], "good")
  <2>0. i \in AllParts
    BY BodyType
  <2>1. /\ UNCHANGED <<disk, objects, chunks, locations, upload, kept>> /\ calls' = calls \cup N
        /\ part[o][i] = "unread" /\ part'[o][i] \in {"failed", "saving"}
        /\ \A p \in Objects : \A j \in AllParts : p # o \/ j # i => part'[p][j] = part[p][j]
    BY <1>0, <1>5, <2>0 DEF PlaceChunk, metadataVars
  <2>2. /\ \A c \in N : /\ c.by = by /\ c.op = "save" /\ c.hash = Body[o][i]
                        /\ c.data = "good" /\ c.step = "sent" /\ c.live
        /\ \A c, d \in N : c.node = d.node => c = d
    BY NewCalls
  <2>3. by.who = "upload" /\ by.object = o /\ by.part = i
    BY DEF ChunkCaller
  <2> HIDE DEF N, by
  <2>4. CallsOfChunks'
    <3>1. \A d \in N : OfChunk(d)'
      BY <2>2, <2>3 DEF OfChunk
    <3> QED BY <2>1, <3>1, CallsKept DEF DeletedStay
  <2>5. ElseSame(o, {i})
    <3>1. \A p \in Objects : \A j \in Parts(p) : j \in AllParts
      BY BodyType
    <3> QED BY <2>1, <2>2, <3>1 DEF ElseSame, Held
  <2>6. ASSUME Held(o)' PROVE FileInv(o, i)'
    <3>1. FileInv(o, i) /\ On(o, i) = {} /\ locations[o][i] = {} /\ i \notin chunks[o]
      BY <1>1, <2>1, <2>6 DEF FilesInv, FileInv, CallsOfStage, RowOfStage, Held
    <3>2. On(o, i)' = N
      BY <2>1, <2>2, <3>1 DEF On, CallsFor
    <3>3. Orderly(Body[o][i])'
      BY <2>2, <3>2 DEF Orderly, On
    <3> QED BY <2>1, <2>2, <3>1, <3>2, <3>3
            DEF FileInv, SavesElsewhere, CallsOfStage, LocationsGood, RowOfStage
  <2>7. FilesInv'
    BY <2>5, <2>6, FilesKept
  <2>8. StoredHeld' /\ VisitInv'
    BY <1>a, <1>1, <2>1, VisitFrame DEF StoredHeld
  <2> QED BY <2>4, <2>7, <2>8 DEF FaultlessInv
<1>6. ASSUME NEW i \in Parts(o), SettleChunk(o, i) PROVE FaultlessInv'
  <2> DEFINE by == ChunkCaller(o, i)
  <2>0. i \in AllParts
    BY BodyType
  <2>1. /\ UNCHANGED <<disk, objects, chunks, locations, upload>> /\ calls' = calls \ Awaited(by)
        /\ part[o][i] = "saving" /\ part'[o][i] \in {"failed", "stored"}
        /\ \A p \in Objects : \A j \in AllParts :
              p # o \/ j # i => part'[p][j] = part[p][j] /\ kept'[p][j] = kept[p][j]
        /\ part'[o][i] = "stored" => kept'[o][i] = Succeeded(by)
    <3>1. /\ UNCHANGED <<disk, objects, chunks, locations, upload>> /\ calls' = calls \ Awaited(by)
          /\ part[o][i] = "saving"
          /\ \/ /\ part' = [part EXCEPT ![o][i] = "stored"]
                /\ kept' = [kept EXCEPT ![o][i] = Succeeded(by)]
             \/ part' = [part EXCEPT ![o][i] = "failed"] /\ kept' = kept
      BY <1>6 DEF SettleChunk, metadataVars
    <3> HIDE DEF by
    <3> QED BY <1>0, <2>0, <3>1
  <2>2. /\ CallsOfChunks'
        /\ \A c \in calls : c \notin calls' => \E k \in {i} : c.hash = Body[o][k]
        /\ \A c \in calls' : c \notin calls => \E k \in {i} : c.hash = Body[o][k]
    <3>1. calls' = calls \ UNION {Awaited(b) : b \in {by}}
      BY <2>1
    <3>3. DeletedStay /\ {i} \in SUBSET Parts(o)
      BY <2>1 DEF DeletedStay
    <3> DEFINE B == {by}
               K == {i}
    <3> HIDE DEF B, K
    <3>4. /\ CallsOfChunks'
          /\ \A c \in calls : c \notin calls' => \E k \in K : c.hash = Body[o][k]
          /\ \A c \in calls' : c \notin calls => \E k \in K : c.hash = Body[o][k]
      <4>1. calls' = calls \ UNION {Awaited(b) : b \in B}
        BY <3>1 DEF B
      <4>4. GivenUp(B)
        BY <4>1 DEF GivenUp
      <4>2. \A b \in B : \E k \in K : b = ChunkCaller(o, k) \/ b = SweepCaller(o, k)
        BY DEF B, K
      <4>3. DeletedStay /\ K \in SUBSET Parts(o)
        BY <3>3 DEF K
      <4> QED BY <4>2, <4>3, <4>4, CallsGivenUp
    <3> QED BY <3>4 DEF K
  <2>3. ElseSame(o, {i})
    <3>1. \A p \in Objects : \A j \in Parts(p) : j \in AllParts
      BY BodyType
    <3> QED BY <2>1, <2>2, <3>1 DEF ElseSame, Held
  <2>4. ASSUME Held(o)' PROVE FileInv(o, i)'
    <3>1. Held(o) /\ FileInv(o, i) /\ locations[o][i] = {} /\ i \notin chunks[o]
      BY <1>1, <2>1, <2>4 DEF FilesInv, FileInv, RowOfStage, Held
    <3>2. ASSUME NEW c \in On(o, i) PROVE c.by = by /\ c.op = "save" /\ c.live
      <4>1. ~(rebalancer \in {"saving", "deleting"} /\ row.object = o /\ row.part = i)
        BY <3>1 DEF Faultless, FaultlessInv, VisitInv, RowFresh, Visiting, Held
      <4>2. c.live
        BY <3>1 DEF FileInv, Orderly, On
      <4> QED BY <3>1, <4>1, <4>2, WhoIsOn
    <3>3. On(o, i)' = {}
      BY <2>1, <3>2 DEF On, CallsFor, Awaited
    <3>4. ASSUME NEW n \in Succeeded(by) PROVE GoodFile(n, o, i)
      <4>1. PICK c \in calls : c.by = by /\ c.step = "ok" /\ c.node = n
        BY DEF Succeeded, Awaited
      <4>2. c \in On(o, i)
        BY <1>1, <4>1, CallOfChunk DEF Faultless, ChunkCaller
      <4> QED BY <3>1, <3>2, <4>1, <4>2 DEF FileInv, SavesElsewhere
    <3>5. Orderly(Body[o][i])'
      BY <3>3 DEF Orderly, On
    <3>6. part'[o][i] = "stored" => \A n \in kept'[o][i] : GoodFile(n, o, i)'
      BY <2>1, <3>4 DEF GoodFile
    <3> QED BY <2>1, <3>1, <3>3, <3>5, <3>6
            DEF FileInv, SavesElsewhere, CallsOfStage, LocationsGood, RowOfStage
  <2>5. FilesInv'
    BY <2>3, <2>4, FilesKept
  <2>6. StoredHeld' /\ VisitInv'
    BY <1>a, <1>1, <2>1, VisitFrame DEF StoredHeld
  <2> QED BY <2>2, <2>5, <2>6 DEF FaultlessInv
<1>7. ASSUME NEW i \in Parts(o), CreateChunkRow(o, i) PROVE FaultlessInv'
  <2>0. i \in AllParts
    BY BodyType
  <2>1. /\ UNCHANGED <<disk, calls, objects, upload, kept>> /\ objects[o] = "stored"
        /\ upload[o] = "meta" /\ part[o][i] = "stored" /\ part'[o][i] = "recorded"
        /\ locations'[o][i] = kept[o][i] /\ i \in chunks'[o]
    BY <1>0, <1>7, <2>0 DEF CreateChunkRow, CreateChunk, storageVars
  <2>2. \A p \in Objects : \A j \in AllParts : p # o \/ j # i =>
           /\ part'[p][j] = part[p][j] /\ locations'[p][j] = locations[p][j]
           /\ j \in chunks'[p] <=> j \in chunks[p]
    BY <1>0, <1>7, <2>0 DEF CreateChunkRow, CreateChunk
  <2>3. ElseSame(o, {i})
    <3>1. \A p \in Objects : \A j \in Parts(p) : j \in AllParts
      BY BodyType
    <3> QED BY <2>1, <2>2, <3>1 DEF ElseSame, Held
  <2>4. /\ FileInv(o, i) /\ On(o, i) = {} /\ i \notin chunks[o]
        /\ \A n \in kept[o][i] : GoodFile(n, o, i)
    BY <1>1, <2>1 DEF FilesInv, FileInv, CallsOfStage, RowOfStage, Held
  <2>5. FileInv(o, i)'
    <3>1. On(o, i)' = {}
      BY <2>1, <2>4 DEF On, CallsFor
    <3>2. Orderly(Body[o][i])' /\ \A n \in locations'[o][i] : GoodFile(n, o, i)'
      BY <2>1, <2>4, <3>1 DEF Orderly, On, GoodFile
    <3> QED BY <2>1, <3>1, <3>2 DEF FileInv, SavesElsewhere, CallsOfStage, LocationsGood, RowOfStage
  <2>6. FilesInv'
    BY <2>3, <2>5, FilesKept
  <2>7. CallsOfChunks'
    BY <2>1, CallsKept DEF DeletedStay
  <2>8. StoredHeld'
    BY <1>1, <2>1 DEF StoredHeld
  <2>9. VisitInv'
    BY <1>0, <1>a, <2>1, <2>2, <2>4, VisitFrame, FaultlessTypes DEF Faultless
  <2> QED BY <2>6, <2>7, <2>8, <2>9 DEF FaultlessInv
<1>8. ASSUME NEW i \in Parts(o), CreateChunkFails(o, i) PROVE FaultlessInv'
  <2>1. ~Fault("database")
    BY FaultlessTypes DEF Faultless, Fault
  <2>2. /\ UNCHANGED <<disk, calls, objects, chunks, locations, part, kept>> /\ objects[o] # "stored"
        /\ \A p \in Objects \ {o} : upload'[p] = upload[p]
        /\ upload'[o] = "failed"
    BY <1>0, <1>8, <2>1 DEF CreateChunkFails, metadataVars
  <2>3. ElseSame(o, {})
    BY <2>2 DEF ElseSame, Held
  <2>4. FilesInv'
    BY <2>3, FilesKept
  <2>5. CallsOfChunks'
    BY <2>2, CallsKept DEF DeletedStay
  <2>6. StoredHeld'
    BY <1>1, <2>2 DEF StoredHeld
  <2>7. VisitInv'
    BY <1>a, <2>2, VisitFrame
  <2> QED BY <2>4, <2>5, <2>6, <2>7 DEF FaultlessInv
<1> QED BY <1>2, <1>3, <1>4, <1>5, <1>6, <1>7, <1>8 DEF UploadStep

\* Every step of a DELETE keeps the invariant.
LEMMA DeleteFaultless ==
    ASSUME Faultless, NEW o \in Objects, UNCHANGED workerVars,
           DeleteStep(o) \/ DeleteStart(o) \/ DeleteCancelled(o)
    PROVE  FaultlessInv'
<1>0. /\ objects \in [Objects -> {"none", "stored", "deleted"}]
      /\ chunks \in [Objects -> SUBSET AllParts]
      /\ locations \in [Objects -> [AllParts -> SUBSET Nodes]]
      /\ StoredHeld /\ StorageTypeOK /\ UNCHANGED <<disk, upload, part, kept>>
  BY FaultlessTypes DEF Faultless, FaultlessInv, ServiceInv, TypeInv, TypeOK,
     DeleteStep, DeleteStart, DeleteCancelled, DeleteRows, DeleteDone
<1>1. NoNewWaits
  BY <1>0, HandlerWaits
<1> DEFINE B == {SweepCaller(o, i) : i \in Parts(o)}
<1>2. CASE DeleteStart(o) \/ DeleteCancelled(o) \/ DeleteDone(o)
  <2>1. /\ UNCHANGED <<objects, chunks, locations>>
        /\ calls' = calls \/ calls' = Abandon(B) \/ calls' = calls \ UNION {Awaited(b) : b \in B}
    BY <1>2 DEF DeleteStart, DeleteCancelled, DeleteDone, metadataVars
  <2>2. /\ CallsOfChunks'
        /\ \A c \in calls : c \notin calls' => \E k \in Parts(o) : c.hash = Body[o][k]
        /\ \A c \in calls' : c \notin calls => \E k \in Parts(o) : c.hash = Body[o][k]
    <3>1. DeletedStay /\ \A b \in B : \E k \in Parts(o) : b = SweepCaller(o, k)
      BY <2>1 DEF DeletedStay
    <3>2. CASE calls' = calls
      BY <3>1, <3>2, CallsKept
    <3>3. CASE GivenUp(B)
      <4> DEFINE K == Parts(o)
      <4>1. /\ K \in SUBSET Parts(o)
            /\ \A b \in B : \E k \in K : b = ChunkCaller(o, k) \/ b = SweepCaller(o, k)
        BY <3>1
      <4> HIDE DEF B, K
      <4>2. /\ CallsOfChunks'
            /\ \A c \in calls : c \notin calls' => \E k \in K : c.hash = Body[o][k]
            /\ \A c \in calls' : c \notin calls => \E k \in K : c.hash = Body[o][k]
        BY <3>1, <3>3, <4>1, CallsGivenUp
      <4> QED BY <4>2 DEF K
    <3> QED BY <2>1, <3>2, <3>3 DEF GivenUp
  <2>3. FilesInv'
    <3>1. CASE objects[o] = "deleted"
      <4>1. ElseSame(o, Parts(o)) /\ ~Held(o)'
        BY <1>0, <2>1, <2>2, <3>1 DEF ElseSame, Held
      <4> QED BY <4>1, FilesKept
    <3>2. ASSUME objects[o] # "deleted" PROVE calls' = calls
      <4>1. ASSUME NEW c \in calls, c.by \in B PROVE FALSE
        BY <3>2, <4>1 DEF SweepCaller, Faultless, FaultlessInv, CallsOfChunks, OfChunk
      <4>2. \A c \in calls : c.by \notin B
        BY <4>1
      <4>3. Abandon(B) = calls /\ calls \ UNION {Awaited(b) : b \in B} = calls
        BY <4>2 DEF Abandon, Awaited
      <4> QED BY <2>1, <4>3
    <3>3. CASE objects[o] # "deleted"
      <4>1. ElseSame(o, {})
        BY <1>0, <2>1, <3>2, <3>3 DEF ElseSame, Held
      <4> QED BY <4>1, FilesKept
    <3> QED BY <3>1, <3>3
  <2>4. StoredHeld' /\ VisitInv'
    BY <1>0, <1>1, <2>1, VisitFrame DEF StoredHeld
  <2> QED BY <2>2, <2>3, <2>4 DEF FaultlessInv
<1>3. CASE DeleteRows(o)
  <2> DEFINE N(i) == DeleteCalls(SweepCaller(o, i), victims[o][i], Body[o][i])
  <2>1. /\ DeleteObject(o) /\ calls' = calls \cup UNION {N(i) : i \in Parts(o)}
    BY <1>3, FaultlessTypes DEF DeleteRows, Faultless, Fault
  <2>2. /\ objects'[o] = "deleted" /\ DeletedStay
        /\ \A p \in Objects \ {o} : /\ objects'[p] = objects[p] /\ chunks'[p] = chunks[p]
                                    /\ locations'[p] = locations[p]
    BY <1>0, <2>1 DEF DeleteObject, DeletedStay
  <2>3. ASSUME NEW i \in Parts(o), NEW c \in N(i)
        PROVE  c.by = SweepCaller(o, i) /\ c.hash = Body[o][i]
    BY <2>3 DEF DeleteCalls, Call
  <2>4. \A c \in calls' : c \in calls \/ \E i \in Parts(o) : c.by = SweepCaller(o, i) /\ c.hash = Body[o][i]
    BY <2>1, <2>3
  <2>5. CallsOfChunks'
    <3>1. ASSUME NEW c \in calls', NEW i \in Parts(o), c.by = SweepCaller(o, i), c.hash = Body[o][i]
          PROVE  OfChunk(c)'
      <4>1. c.by.who = "delete" /\ c.by.object = o /\ c.by.part = i
        BY <3>1 DEF SweepCaller
      <4> QED BY <2>2, <3>1, <4>1 DEF OfChunk
    <3> QED BY <2>2, <2>4, <3>1, CallsKept
  <2>6. ElseSame(o, Parts(o)) /\ ~Held(o)'
    <3>1. ~Held(o)'
      BY <2>2 DEF Held
    <3>2. \A p \in Objects \ {o} : Held(p)' = Held(p)
      BY <1>0, <2>2 DEF Held
    <3>3. calls \subseteq calls'
      BY <2>1
    <3> HIDE DEF N
    <3> QED BY <1>0, <2>2, <2>4, <3>1, <3>2, <3>3 DEF ElseSame
  <2>7. FilesInv'
    BY <2>6, FilesKept
  <2>8. StoredHeld'
    BY <1>0, <2>2 DEF StoredHeld
  <2>9. VisitInv'
    BY <1>0, <1>1, <2>2, VisitFrame
  <2> QED BY <2>5, <2>7, <2>8, <2>9 DEF FaultlessInv
<1> QED BY <1>2, <1>3 DEF DeleteStep

\* A step that touches neither calls, files, rows nor uploads.
LEMMA QuietFiles ==
    ASSUME Faultless, UNCHANGED <<disk, calls, objects, chunks, locations, upload, part, kept>>
    PROVE  CallsOfChunks' /\ StoredHeld' /\ FilesInv'
<1>1. PICK o \in Objects : TRUE
  BY ClusterAssumption
<1>2. ElseSame(o, {})
  BY DEF ElseSame, Held
<1>3. FilesInv'
  BY <1>2, FilesKept
<1>4. CallsOfChunks'
  BY CallsKept DEF DeletedStay
<1>5. StoredHeld'
  BY DEF Faultless, FaultlessInv, StoredHeld
<1> QED BY <1>3, <1>4, <1>5

\* If it leaves the worker alone, too, it keeps the invariant.
LEMMA QuietFaultless ==
    ASSUME Faultless,
           UNCHANGED <<disk, calls, objects, chunks, locations, upload, part, kept, workerVars>>
    PROVE  FaultlessInv'
<1>1. VisitInv'
  BY VisitFrame DEF NoNewWaits, Mine
<1> QED BY <1>1, QuietFiles DEF FaultlessInv

\* So are the steps of the sync loop and of the downloads.
LEMMA OtherFaultless ==
    ASSUME Faultless,
           \/ Sync \/ UNCHANGED vars
           \/ \E r \in Readers : \/ Downloading(r)
                                 \/ \E o \in Objects : DownloadStart(r, o) /\ UNCHANGED workerVars
    PROVE  FaultlessInv'
<1>1. CASE Sync \/ UNCHANGED vars
  BY <1>1, QuietFaultless DEF Sync, vars, gatewayVars, storageVars, metadataVars, handlerVars
<1>2. ASSUME NEW r \in Readers, Downloading(r) PROVE FaultlessInv'
  BY <1>2, QuietFaultless DEF Downloading, DownloadStep, DownloadRows, DownloadReplica,
                              DownloadEnd, storageVars, metadataVars
<1>3. ASSUME NEW r \in Readers, NEW o \in Objects, DownloadStart(r, o), UNCHANGED workerVars
      PROVE  FaultlessInv'
  BY <1>3, QuietFaultless DEF DownloadStart, storageVars, metadataVars
<1> QED BY <1>1, <1>2, <1>3

\* What holds of the row that is visited, unless its object is deleted.
LEMMA VisitedRow ==
    ASSUME Faultless, Visiting, objects[row.object] # "deleted"
    PROVE  /\ Held(row.object) /\ row.part \in chunks[row.object]
           /\ FileInv(row.object, row.part) /\ part[row.object][row.part] = "recorded"
           /\ \A c \in On(row.object, row.part) : c \in Mine /\ c.by = RowCaller
           /\ rebalancer \notin {"saving", "deleting"} => On(row.object, row.part) = {}
<1>1. /\ row.object \in Objects /\ row.part \in Parts(row.object)
      /\ row.part \in chunks[row.object]
  BY FaultlessTypes DEF Faultless, Rows, FaultlessInv, VisitInv, RowFresh
<1>2. Held(row.object)
  BY <1>1, RowHeld
<1>3. FileInv(row.object, row.part)
  BY <1>1, <1>2 DEF Faultless, FaultlessInv, FilesInv
<1>4. /\ part[row.object][row.part] = "recorded"
      /\ \A c \in On(row.object, row.part) : c.by.who = "rebalancer"
  BY <1>1, <1>3 DEF FileInv, RowOfStage, CallsOfStage
<1>5. \A c \in On(row.object, row.part) : c.by # ChunkCaller(row.object, row.part)
  BY <1>4 DEF ChunkCaller
<1>6. \A c \in On(row.object, row.part) : c \in Mine /\ c.by = RowCaller
  BY <1>1, <1>2, <1>5, WhoIsOn
<1> QED BY <1>1, <1>2, <1>3, <1>4, <1>6, RowQuiet

\* A step of a visit changes calls and locations of its row only.
LEMMA VisitFiles ==
    ASSUME Faultless, Visiting, NEW o \in Objects, NEW i \in Parts(o),
           row.object = o, row.part = i,
           UNCHANGED <<disk, objects, chunks, upload, part, kept>>,
           \A p \in Objects : \A j \in AllParts :
              p # o \/ j # i => locations'[p][j] = locations[p][j],
           \A c \in calls : c \notin calls' => c.hash = Body[o][i],
           \A c \in calls' : c \notin calls =>
              c.hash = Body[o][i] /\ c.by = RowCaller /\ c.live,
           objects[o] # "deleted" => FileInv(o, i)'
    PROVE  CallsOfChunks' /\ StoredHeld' /\ FilesInv'
<1>1. CallsOfChunks'
  <2>1. RowCaller.who = "rebalancer" /\ RowCaller.object = o /\ RowCaller.part = i
    BY DEF RowCaller
  <2>2. \A d \in calls' : d \in calls \/ OfChunk(d)'
    BY <2>1 DEF OfChunk
  <2> QED BY <2>2, CallsKept DEF DeletedStay
<1>2. StoredHeld'
  BY DEF Faultless, FaultlessInv, StoredHeld
<1>3. ElseSame(o, {i})
  <2>1. \A p \in Objects : \A j \in Parts(p) : j \in AllParts
    BY BodyType
  <2> QED BY <2>1 DEF ElseSame, Held
<1>4. Held(o)' => \A k \in {i} : FileInv(o, k)'
  BY DEF Held
<1>5. FilesInv'
  BY <1>3, <1>4, FilesKept
<1> QED BY <1>1, <1>2, <1>5

\* The steps in which the worker only reads or forgets what it has read.
LEMMA PassFaultless ==
    ASSUME Faultless,
           \/ ScanChunks \/ CheckRing \/ PickRow \/ FetchFailed \/ AllRecorded
           \/ RowDone \/ PassDone
    PROVE  FaultlessInv'
<1>1. UNCHANGED <<disk, calls, objects, chunks, locations, upload, part, kept>>
  BY DEF ScanChunks, CheckRing, PickRow, FetchFailed, AllRecorded, RowDone, PassDone,
         gatewayVars, storageVars, metadataVars, handlerVars
<1>2. CallsOfChunks' /\ StoredHeld' /\ FilesInv'
  BY <1>1, QuietFiles
<1>3. /\ rows \subseteq Rows /\ row \in Rows /\ RowsFresh /\ RowFresh /\ OneAtATime
      /\ Mine' = Mine
  BY <1>1, FaultlessTypes DEF Faultless, FaultlessInv, VisitInv, Mine
<1>4. CASE ScanChunks
  <2>1. /\ rows' \subseteq GetAllChunks /\ rebalancer = "asleep" /\ rebalancer' = "check"
        /\ UNCHANGED <<row, saved>>
    BY <1>4 DEF ScanChunks
  <2>2. \A r \in GetAllChunks : r.part \in chunks[r.object] /\ r.nodes = locations[r.object][r.part]
    BY DEF GetAllChunks, Joined
  <2>3. RowsFresh'
    BY <1>1, <2>1, <2>2 DEF RowsFresh
  <2> QED BY <1>2, <1>3, <2>1, <2>3 DEF FaultlessInv, VisitInv, RowFresh, Visiting, OneAtATime
<1>5. CASE CheckRing \/ PassDone
  <2>1. /\ rows' \subseteq rows /\ rebalancer' \in {"asleep", "pick"} /\ UNCHANGED <<row, saved>>
        /\ rebalancer \in {"check", "pick"}
    BY <1>5 DEF CheckRing, PassDone
  <2>2. RowsFresh'
    BY <1>1, <1>3, <2>1 DEF RowsFresh
  <2> QED BY <1>2, <1>3, <2>1, <2>2 DEF FaultlessInv, VisitInv, RowFresh, Visiting, OneAtATime
<1>6. CASE FetchFailed \/ RowDone
  <2>1. /\ rows' = rows /\ rebalancer' = "pick" /\ saved' = {}
    BY <1>6 DEF FetchFailed, RowDone, Forget
  <2>2. RowsFresh'
    BY <1>1, <1>3, <2>1 DEF RowsFresh
  <2> QED BY <1>2, <2>1, <2>2 DEF FaultlessInv, VisitInv, RowFresh, Visiting, OneAtATime
<1>7. CASE AllRecorded
  <2>1. /\ rebalancer = "recording" /\ rebalancer' = "clearing" /\ saved = {}
        /\ UNCHANGED <<rows, row, saved>>
    BY <1>7 DEF AllRecorded
  <2>2. RowsFresh'
    BY <1>1, <1>3, <2>1 DEF RowsFresh
  <2>3. RowFresh'
    BY <1>1, <1>3, <2>1 DEF RowFresh, Visiting
  <2> QED BY <1>2, <2>1, <2>2, <2>3 DEF FaultlessInv, VisitInv, OneAtATime
<1>8. CASE PickRow
  <2>1. PICK r \in rows :
           /\ rebalancer = "pick" /\ rows' = rows \ {r} /\ saved' = saved
           /\ \/ UNCHANGED <<rebalancer, row>>
              \/ rebalancer' = "fetch" /\ row' = r /\ sources' = r.nodes
    BY <1>8 DEF PickRow
  <2>2. RowsFresh'
    BY <1>1, <1>3, <2>1 DEF RowsFresh
  <2>3. CASE UNCHANGED <<rebalancer, row>>
    BY <1>2, <1>3, <2>1, <2>2, <2>3 DEF FaultlessInv, VisitInv, RowFresh, Visiting, OneAtATime
  <2>4. CASE rebalancer' = "fetch" /\ row' = r /\ sources' = r.nodes
    <3>1. ASSUME NEW q \in rows', objects[r.object] # "deleted",
                 q.object = r.object, q.part = r.part
          PROVE  FALSE
      <4>1. q.nodes = r.nodes
        BY <1>3, <2>1, <3>1 DEF RowsFresh
      <4>2. q = r
        BY <1>3, <2>1, <3>1, <4>1 DEF Rows
      <4> QED BY <2>1, <4>2
    <3>2. saved = {}
      BY <1>3, <2>1 DEF OneAtATime
    <3>3. RowFresh'
      BY <1>1, <1>3, <2>1, <2>4, <3>1, <3>2 DEF RowsFresh, RowFresh
    <3> QED BY <1>2, <2>1, <2>2, <2>4, <3>2, <3>3 DEF FaultlessInv, VisitInv, OneAtATime
  <2> QED BY <2>1, <2>3, <2>4
<1> QED BY <1>4, <1>5, <1>6, <1>7, <1>8

\* The first copy that can be fetched is good, and a SaveChunk goes to nodes
\* that have none.
LEMMA FetchFaultless ==
    ASSUME Faultless, NEW n \in Nodes, FetchCopy(n)
    PROVE  FaultlessInv'
<1>0. /\ RowsFresh /\ RowFresh /\ OneAtATime /\ Visiting /\ rebalancer = "fetch" /\ n \in sources
      /\ UNCHANGED <<disk, objects, chunks, locations, upload, part, kept, rows>>
  BY DEF Faultless, FaultlessInv, VisitInv, Visiting, FetchCopy, metadataVars, handlerVars
<1>1. PICK o \in Objects, i \in AllParts : i \in Parts(o) /\ row.object = o /\ row.part = i
  BY <1>0, FaultlessTypes DEF Faultless, Rows
<1>2. CASE calls' = calls /\ \/ sources' \subseteq sources /\ UNCHANGED <<rebalancer, row, saved>>
                             \/ rebalancer' = "pick" /\ Forget
  <2>1. CallsOfChunks' /\ StoredHeld' /\ FilesInv'
    BY <1>0, <1>2, QuietFiles
  <2>2. RowsFresh'
    BY <1>0 DEF RowsFresh
  <2>3. RowFresh' /\ OneAtATime'
    BY <1>0, <1>2 DEF RowFresh, OneAtATime, Visiting, Forget, GoodFile
  <2> QED BY <2>1, <2>2, <2>3 DEF FaultlessInv, VisitInv
<1>3. ASSUME NEW bytes \in ReadOutcomes(n, RowHash),
             /\ rebalancer' \in {"clearing", "saving"}
             /\ calls' = calls \cup SaveCalls(RowCaller, expected \ row.nodes, RowHash, bytes)
             /\ UNCHANGED <<row, expected, saved>>
      PROVE  FaultlessInv'
  <2> DEFINE missing == expected \ row.nodes
             N == SaveCalls(RowCaller, missing, RowHash, bytes)
  <2>0. calls' = calls \cup N
    BY <1>3
  <2>1. /\ \A c \in N : /\ c.by = RowCaller /\ c.op = "save" /\ c.hash = RowHash /\ c.data = bytes
                        /\ c.node \in missing /\ c.step = "sent" /\ c.live
        /\ \A c, d \in N : c.node = d.node => c = d
    <3> HIDE DEF missing
    <3> QED BY NewCalls
  <2>2. RowHash = Body[o][i]
    BY <1>1 DEF RowHash
  <2> HIDE DEF N
  <2>3. ASSUME objects[o] # "deleted" PROVE FileInv(o, i)'
    <3>1. /\ FileInv(o, i) /\ part[o][i] = "recorded" /\ On(o, i) = {}
          /\ row.nodes = locations[o][i]
      BY <1>0, <1>1, <2>3, VisitedRow DEF RowFresh
    <3>2. bytes = "good"
      <4>1. GoodFile(n, o, i)
        BY <1>0, <3>1 DEF OneAtATime, FileInv, LocationsGood
      <4>2. \A c \in calls : c.hash # Body[o][i]
        BY <3>1 DEF On, CallsFor
      <4> QED BY <1>3, <2>2, <4>1, <4>2 DEF ReadOutcomes, GoodFile
    <3>3. On(o, i)' = N
      BY <2>0, <2>1, <2>2, <3>1 DEF On, CallsFor
    <3>4. Orderly(Body[o][i])'
      BY <2>1, <3>2, <3>3 DEF Orderly, On
    <3>5. SavesElsewhere(o, i)'
      BY <1>0, <2>1, <3>1, <3>3 DEF SavesElsewhere
    <3>6. CallsOfStage(o, i)'
      BY <1>0, <2>1, <3>1, <3>3 DEF CallsOfStage, RowCaller
    <3>7. LocationsGood(o, i)' /\ RowOfStage(o, i)'
      BY <1>0, <3>1 DEF FileInv, LocationsGood, RowOfStage, GoodFile
    <3> QED BY <3>4, <3>5, <3>6, <3>7 DEF FileInv
  <2>4. CallsOfChunks' /\ StoredHeld' /\ FilesInv'
    BY <1>0, <1>1, <2>0, <2>1, <2>2, <2>3, VisitFiles
  <2>5. RowsFresh'
    BY <1>0 DEF RowsFresh
  <2>6. RowFresh' /\ OneAtATime'
    BY <1>0, <1>3 DEF RowFresh, OneAtATime, Visiting, GoodFile
  <2> QED BY <2>4, <2>5, <2>6 DEF FaultlessInv, VisitInv
<1> QED BY <1>2, <1>3 DEF FetchCopy

\* The steps in which the worker collects answers and changes the table.
LEMMA VisitFaultless ==
    ASSUME Faultless, NEW n,
           CopiesSaved \/ RecordCopy(n) \/ DeleteCopy(n) \/ ForgetCopy(n)
    PROVE  FaultlessInv'
<1>0. /\ RowsFresh /\ RowFresh /\ OneAtATime /\ Visiting /\ Visiting'
      /\ UNCHANGED <<disk, objects, chunks, upload, part, kept, rows, row>>
      /\ rebalancer' \notin {"fetch", "saving"}
  BY DEF Faultless, FaultlessInv, VisitInv, Visiting, CopiesSaved, RecordCopy, DeleteCopy,
         ForgetCopy, metadataVars, handlerVars, AddChunkLocation, RemoveChunkLocation
<1>1. PICK o \in Objects, i \in AllParts : i \in Parts(o) /\ row.object = o /\ row.part = i
  BY <1>0, FaultlessTypes DEF Faultless, Rows
<1>2. RowHash = Body[o][i] /\ rows \subseteq Rows
      /\ locations \in [Objects -> [AllParts -> SUBSET Nodes]] /\ ~Fault("database")
  BY <1>1, FaultlessTypes DEF RowHash, Faultless, Fault
<1>3. ASSUME objects[o] # "deleted"
      PROVE  /\ FileInv(o, i) /\ part[o][i] = "recorded" /\ i \in chunks[o]
             /\ \A c \in On(o, i) : c \in Mine /\ c.by = RowCaller
             /\ rebalancer \notin {"saving", "deleting"} => On(o, i) = {}
  BY <1>0, <1>1, <1>3, VisitedRow
<1>4. ASSUME objects[o] = "deleted" PROVE chunks[o] = {}
  BY <1>4, FaultlessTypes DEF Faultless, UploadInv, NoStrayRows
<1>5. ASSUME \A p \in Objects : \A j \in AllParts :
                p # o \/ j # i => locations'[p][j] = locations[p][j],
             objects[o] # "deleted" => \A m \in saved' : GoodFile(m, o, i),
             rebalancer' # "recording" => saved' = {},
             rebalancer' = "deleting" => \A c, d \in Mine' : c.node = d.node
      PROVE  VisitInv'
  <2>1. RowsFresh'
    BY <1>0, <1>1, <1>2, <1>5 DEF RowsFresh, RowFresh, Rows
  <2>2. RowFresh'
    BY <1>0, <1>1, <1>5 DEF RowFresh, GoodFile
  <2> QED BY <1>0, <1>5, <2>1, <2>2 DEF VisitInv, OneAtATime
<1>6. ASSUME calls' = calls \ Awaited(RowCaller)
      PROVE  /\ \A c \in calls : c \notin calls' => c.hash = Body[o][i]
             /\ objects[o] # "deleted" => On(o, i)' = {}
  <2>1. RowCaller.object = o /\ RowCaller.part = i
    BY <1>1 DEF RowCaller
  <2>2. \A c \in calls : c \notin calls' => c.hash = Body[o][i]
    BY <1>6, <2>1 DEF Awaited, Faultless, FaultlessInv, CallsOfChunks, OfChunk
  <2>3. objects[o] # "deleted" => On(o, i)' = {}
    BY <1>3, <1>6 DEF On, CallsFor, Awaited, Mine
  <2> QED BY <2>2, <2>3
<1>7. ASSUME On(o, i)' = {}, objects[o] # "deleted",
             \A m \in locations'[o][i] : GoodFile(m, o, i)
      PROVE  FileInv(o, i)'
  <2>1. Orderly(Body[o][i])'
    BY <1>7 DEF Orderly, On
  <2>2. LocationsGood(o, i)'
    BY <1>0, <1>7 DEF LocationsGood, GoodFile
  <2>3. CallsOfStage(o, i)' /\ RowOfStage(o, i)'
    BY <1>0, <1>3, <1>7 DEF CallsOfStage, RowOfStage, FileInv
  <2> QED BY <1>7, <2>1, <2>2, <2>3 DEF FileInv, SavesElsewhere
<1>8. CASE CopiesSaved
  <2>1. /\ calls' = calls \ Awaited(RowCaller) /\ saved' = Succeeded(RowCaller)
        /\ rebalancer = "saving" /\ rebalancer' = "recording" /\ locations' = locations
    BY <1>8 DEF CopiesSaved, metadataVars
  <2>2. \A c \in Mine : c.op = "save"
    BY <2>1 DEF Faultless, WorkerInv, WaitsForRow
  <2>3. ASSUME objects[o] # "deleted" PROVE FileInv(o, i)'
    <3>1. \A c \in On(o, i) : c.op # "delete"
      BY <1>3, <2>2, <2>3
    <3>2. \A m \in locations[o][i] : GoodFile(m, o, i)
      BY <1>3, <2>3, <3>1 DEF FileInv, LocationsGood
    <3> QED BY <1>6, <1>7, <2>1, <2>3, <3>2
  <2>4. ASSUME objects[o] # "deleted", NEW m \in saved' PROVE GoodFile(m, o, i)
    <3>1. PICK c \in calls : c.by = RowCaller /\ c.live /\ c.step = "ok" /\ c.node = m
      BY <2>1, <2>4 DEF Succeeded, Awaited
    <3>2. RowCaller.object = o /\ RowCaller.part = i /\ RowCaller.who = "rebalancer"
      BY <1>1 DEF RowCaller
    <3>3. c \in On(o, i) /\ c.op = "save"
      BY <1>1, <2>2, <3>1, <3>2, CallOfChunk DEF Faultless, FaultlessInv, Mine
    <3> QED BY <1>3, <2>4, <3>1, <3>3 DEF FileInv, SavesElsewhere
  <2>5. CallsOfChunks' /\ StoredHeld' /\ FilesInv'
    BY <1>0, <1>1, <1>6, <2>1, <2>3, VisitFiles
  <2> QED BY <1>5, <2>1, <2>4, <2>5 DEF FaultlessInv
<1>9. CASE RecordCopy(n)
  <2>1. /\ calls' = calls /\ saved' = saved \ {n} /\ n \in saved
        /\ rebalancer = "recording" /\ rebalancer' = "recording"
        /\ locations' = IF i \in chunks[o] THEN [locations EXCEPT ![o][i] = @ \cup {n}]
                                           ELSE locations
    BY <1>1, <1>2, <1>9 DEF RecordCopy, AddChunkLocation
  <2>2. \A p \in Objects : \A j \in AllParts : p # o \/ j # i => locations'[p][j] = locations[p][j]
    BY <1>2, <2>1
  <2>3. objects[o] # "deleted" => \A m \in saved : GoodFile(m, o, i)
    BY <1>0, <1>1 DEF RowFresh
  <2>4. ASSUME objects[o] # "deleted" PROVE FileInv(o, i)'
    <3>1. On(o, i) = {} /\ On(o, i)' = {}
      BY <1>3, <2>1, <2>4 DEF On, CallsFor
    <3>2. \A m \in locations[o][i] : GoodFile(m, o, i)
      BY <1>3, <2>4, <3>1 DEF FileInv, LocationsGood
    <3>3. locations'[o][i] = locations[o][i] \cup {n}
      BY <1>2, <1>3, <2>1, <2>4
    <3> QED BY <1>7, <2>1, <2>3, <2>4, <3>1, <3>2, <3>3
  <2>5. CallsOfChunks' /\ StoredHeld' /\ FilesInv'
    BY <1>0, <1>1, <2>1, <2>2, <2>4, VisitFiles
  <2> QED BY <1>5, <2>1, <2>2, <2>3, <2>5 DEF FaultlessInv
<1>10. CASE DeleteCopy(n)
  <2> DEFINE N == DeleteCalls(RowCaller, {n}, RowHash)
  <2>1. /\ calls' = calls \cup N /\ saved' = saved /\ locations' = locations
        /\ rebalancer = "clearing" /\ rebalancer' = "deleting"
    BY <1>10 DEF DeleteCopy, metadataVars
  <2>2. /\ \A c \in N : /\ c.by = RowCaller /\ c.op = "delete" /\ c.hash = RowHash
                        /\ c.node \in {n} /\ c.step = "sent" /\ c.live
        /\ \A c, d \in N : c.node = d.node => c = d
    <3> DEFINE S == {n}
    <3> HIDE DEF S
    <3>1. /\ \A c \in DeleteCalls(RowCaller, S, RowHash) :
                /\ c.by = RowCaller /\ c.op = "delete" /\ c.hash = RowHash
                /\ c.node \in S /\ c.step = "sent" /\ c.live
          /\ \A c, d \in DeleteCalls(RowCaller, S, RowHash) : c.node = d.node => c = d
      BY NewCalls
    <3> QED BY <3>1 DEF S
  <2>3. Mine = {}
    BY <2>1 DEF Faultless, WorkerInv, WaitsForRow
  <2> HIDE DEF N
  <2>4. \A c, d \in Mine' : c.node = d.node
    BY <2>1, <2>2, <2>3 DEF Mine
  <2>5. ASSUME objects[o] # "deleted" PROVE FileInv(o, i)'
    <3>1. FileInv(o, i) /\ On(o, i) = {}
      BY <1>3, <2>1, <2>5
    <3>2. On(o, i)' = N
      BY <1>2, <2>1, <2>2, <3>1 DEF On, CallsFor
    <3>3. Orderly(Body[o][i])'
      BY <2>2, <3>2 DEF Orderly, On
    <3>4. SavesElsewhere(o, i)'
      BY <2>2, <3>2 DEF SavesElsewhere
    <3>5. CallsOfStage(o, i)'
      BY <1>0, <1>3, <2>2, <2>5, <3>2 DEF CallsOfStage, RowCaller
    <3>6. LocationsGood(o, i)' /\ RowOfStage(o, i)'
      BY <1>0, <2>1, <3>1 DEF FileInv, LocationsGood, RowOfStage, GoodFile
    <3> QED BY <3>3, <3>4, <3>5, <3>6 DEF FileInv
  <2>6. CallsOfChunks' /\ StoredHeld' /\ FilesInv'
    BY <1>0, <1>1, <1>2, <2>1, <2>2, <2>5, VisitFiles
  <2>7. saved = {}
    BY <1>0, <2>1 DEF OneAtATime
  <2> QED BY <1>5, <2>1, <2>4, <2>6, <2>7 DEF FaultlessInv
<1>11. CASE ForgetCopy(n)
  <2>1. /\ calls' = calls \ Awaited(RowCaller) /\ saved' = saved
        /\ rebalancer = "deleting" /\ rebalancer' = "clearing"
        /\ locations' = [locations EXCEPT ![o][i] = @ \ {n}]
        /\ \E c \in Awaited(RowCaller) : c.node = n
    BY <1>1, <1>2, <1>11 DEF ForgetCopy, RemoveChunkLocation
  <2>2. \A p \in Objects : \A j \in AllParts : p # o \/ j # i => locations'[p][j] = locations[p][j]
    BY <1>2, <2>1
  <2>3. \A c \in Mine : c.node = n
    <3>1. PICK c \in Mine : c.node = n
      BY <2>1 DEF Awaited, Mine, RowCaller
    <3> QED BY <1>0, <2>1, <3>1 DEF OneAtATime
  <2>4. ASSUME objects[o] # "deleted" PROVE FileInv(o, i)'
    <3>1. ASSUME NEW m \in locations'[o][i] PROVE GoodFile(m, o, i)
      <4>1. m \in locations[o][i] /\ m # n
        BY <1>2, <2>1, <3>1
      <4> QED BY <1>3, <2>3, <2>4, <4>1 DEF FileInv, LocationsGood
    <3> QED BY <1>6, <1>7, <2>1, <2>4, <3>1
  <2>5. CallsOfChunks' /\ StoredHeld' /\ FilesInv'
    BY <1>0, <1>1, <1>6, <2>1, <2>2, <2>4, VisitFiles
  <2>6. saved = {}
    BY <1>0, <2>1 DEF OneAtATime
  <2> QED BY <1>5, <2>1, <2>2, <2>5, <2>6 DEF FaultlessInv
<1> QED BY <1>8, <1>9, <1>10, <1>11

\* A step counts one failure at most.
LEMMA FaultCounted ==
    ASSUME [Next]_vars, \A kind : ~Fault(kind)
    PROVE  UNCHANGED faults /\ ~GatewayCrash
<1>1. ~GatewayCrash
  BY DEF GatewayCrash
<1> SUFFICES UNCHANGED faults
  BY <1>1
<1>2. CASE Storage
  <2>1. ASSUME NEW c, Handle(c) \/ CallFails(c) PROVE UNCHANGED faults
    BY <2>1 DEF Handle, CallFails, SaveCreate, SaveWrite, RemoveFile, RemoveMissing, Refused,
                SaveWriteFails, Rejected, TimedOut, LateLost
  <2> QED BY <1>2, <2>1 DEF Storage, StorageNext, NodeStep, NodeCrash, NodeRestart
<1>3. CASE Sync \/ UNCHANGED vars
  BY <1>3 DEF Sync, vars, gatewayVars, storageVars
<1>4. ASSUME NEW o \in Objects,
             UploadStep(o) \/ UploadStart(o) \/ BodyError(o)
      PROVE  UNCHANGED faults
  BY <1>4 DEF UploadStep, UploadStart, BodyError, ChunksFailed, CreateObjectRow, UploadDone,
              PlaceChunk, SettleChunk, CreateChunkRow, CreateChunkFails, storageVars
<1>5. ASSUME NEW o \in Objects,
             DeleteStep(o) \/ DeleteStart(o) \/ DeleteCancelled(o)
      PROVE  UNCHANGED faults
  BY <1>5 DEF DeleteStep, DeleteStart, DeleteCancelled, DeleteRows, DeleteDone
<1>6. ASSUME NEW r \in Readers,
             DownloadStep(r) \/ \E o \in Objects : DownloadStart(r, o)
      PROVE  UNCHANGED faults
  BY <1>6 DEF DownloadStep, DownloadStart, DownloadRows, DownloadReplica, DownloadEnd, storageVars
<1>7. CASE WorkerStep
  <2>1. CASE ScanChunks \/ CheckRing \/ PickRow \/ FetchFailed \/ CopiesSaved
             \/ AllRecorded \/ RowDone \/ PassDone
    BY <2>1 DEF ScanChunks, CheckRing, PickRow, FetchFailed, CopiesSaved, AllRecorded, RowDone,
                PassDone, gatewayVars, storageVars
  <2>2. ASSUME NEW n \in Nodes, RecordCopy(n) \/ DeleteCopy(n) \/ ForgetCopy(n)
        PROVE  UNCHANGED faults
    BY <2>2 DEF RecordCopy, DeleteCopy, ForgetCopy
  <2>3. ASSUME NEW n \in Nodes, FetchCopy(n) PROVE UNCHANGED faults
    BY <2>3 DEF FetchCopy
  <2> QED BY <1>7, <2>1, <2>2, <2>3 DEF WorkerStep
<1> QED BY <1>1, <1>2, <1>3, <1>4, <1>5, <1>6, <1>7
        DEF Next, Client, Uploading, Deleting, Downloading

\* Nothing has failed yet when nothing has failed after a step.
LEMMA StillFaultless ==
    ASSUME StorageTypeOK, [Next]_vars, faults' = 0
    PROVE  faults = 0 /\ UNCHANGED faults /\ ~GatewayCrash
<1>1. faults \in Nat
  BY DEF StorageTypeOK
<1>2. \A kind : ~Fault(kind)
  BY <1>1 DEF Fault
<1> QED BY <1>2, FaultCounted

\* As long as nothing fails, files, calls and table agree.
THEOREM FaultlessInvariant ==
    ASSUME ChunksDiffer
    PROVE  Spec => [](faults = 0 => FaultlessInv)
<1>1. Init => FaultlessInv
  <2> SUFFICES ASSUME Init PROVE FaultlessInv
    OBVIOUS
  <2>1. calls = {} /\ saved = {} /\ rows = {} /\ rebalancer = "asleep"
    BY DEF Init, StorageInit, WorkerInit
  <2>2. CallsOfChunks /\ StoredHeld /\ VisitInv
    BY <2>1 DEF Init, MetadataInit, CallsOfChunks, StoredHeld, VisitInv, RowsFresh, RowFresh,
                OneAtATime, Visiting
  <2>3. ASSUME NEW o \in Objects, NEW i \in Parts(o) PROVE FileInv(o, i)
    <3>1. On(o, i) = {}
      BY <2>1 DEF On, CallsFor
    <3>2. i \in AllParts
      BY <2>3, BodyType
    <3>3. chunks[o] = {} /\ locations[o][i] = {} /\ part[o][i] = "unread"
      BY <3>2 DEF Init, MetadataInit, HandlerInit
    <3> QED BY <3>1, <3>3 DEF FileInv, Orderly, On, SavesElsewhere, CallsOfStage, LocationsGood,
                               RowOfStage
  <2> QED BY <2>2, <2>3 DEF FaultlessInv, FilesInv
<1>2. ServiceInv /\ ServiceInv' /\ WorkerInv /\ (faults = 0 => FaultlessInv) /\ [Next]_vars
        => (faults = 0 => FaultlessInv)'
  <2> SUFFICES ASSUME ServiceInv, ServiceInv', WorkerInv, faults = 0 => FaultlessInv,
                      [Next]_vars, faults' = 0
               PROVE  FaultlessInv'
    OBVIOUS
  <2>1. faults = 0 /\ UNCHANGED faults /\ ~GatewayCrash
    BY StillFaultless DEF ServiceInv, TypeInv, TypeOK
  <2>2. Faultless
    BY <2>1 DEF Faultless
  <2>3. ASSUME NEW o \in Objects, UNCHANGED workerVars,
               \/ UploadStep(o) \/ UploadStart(o) \/ BodyError(o)
               \/ DeleteStep(o) \/ DeleteStart(o) \/ DeleteCancelled(o)
        PROVE  FaultlessInv'
    BY <2>2, <2>3, UploadFaultless, DeleteFaultless
  <2>4. CASE Client
    <3>1. PICK o \in Objects :
             \/ UploadStart(o) \/ BodyError(o) \/ DeleteStart(o) \/ DeleteCancelled(o)
             \/ \E r \in Readers : DownloadStart(r, o)
      BY <2>4 DEF Client
    <3>2. UNCHANGED workerVars
      BY <2>4 DEF Client
    <3> QED BY <2>2, <2>3, <3>1, <3>2, OtherFaultless
  <2>5. ASSUME NEW o \in Objects, Uploading(o) \/ Deleting(o) PROVE FaultlessInv'
    BY <2>3, <2>5 DEF Uploading, Deleting
  <2>6. CASE WorkerStep
    <3>1. CASE ScanChunks \/ CheckRing \/ PickRow \/ FetchFailed \/ AllRecorded
               \/ RowDone \/ PassDone
      BY <2>2, <3>1, PassFaultless
    <3>2. ASSUME NEW n \in Nodes, FetchCopy(n) PROVE FaultlessInv'
      BY <2>2, <3>2, FetchFaultless
    <3>3. ASSUME NEW n, CopiesSaved \/ RecordCopy(n) \/ DeleteCopy(n) \/ ForgetCopy(n)
          PROVE  FaultlessInv'
      BY <2>2, <3>3, VisitFaultless
    <3> QED BY <2>6, <3>1, <3>2, <3>3 DEF WorkerStep
  <2>7. CASE Storage
    BY <2>2, <2>7, StorageFaultless
  <2>8. CASE Sync \/ UNCHANGED vars \/ \E r \in Readers : Downloading(r)
    BY <2>2, <2>8, OtherFaultless
  <2> QED BY <2>1, <2>4, <2>5, <2>6, <2>7, <2>8 DEF Next
<1> QED BY <1>1, <1>2, ServiceInvariant, WorkerInvariant, PTL DEF Spec

\* While nothing has failed, every location of a chunk in the table names a
\* node with a good file, but for the one DeleteChunk between a delete at a
\* node that the visit does not want and the removal of that location.
THEOREM LocationsNameGoodFiles ==
    ASSUME ChunksDiffer
    PROVE  Spec => [](faults = 0 => LocatedIsGood)
<1>1. ServiceInv /\ WorkerInv /\ FaultlessInv => LocatedIsGood
  <2> SUFFICES ASSUME ServiceInv, WorkerInv, FaultlessInv,
                      NEW o \in Objects, objects[o] = "stored", NEW i \in Parts(o),
                      NEW n \in locations[o][i], n \notin GoodAt(o, i)
               PROVE  /\ rebalancer = "deleting" /\ n \in obsolete
                      /\ row.object = o /\ row.part = i
    BY DEF LocatedIsGood
  <2>1. FileInv(o, i) /\ ~GoodFile(n, o, i)
    BY DEF FaultlessInv, FilesInv, StoredHeld, Held, GoodAt, HashOf, GoodFile
  <2>2. part[o][i] = "recorded"
    BY <2>1 DEF FileInv, RowOfStage
  <2>3. PICK c \in On(o, i) : c.op = "delete" /\ c.node = n
    BY <2>1 DEF FileInv, LocationsGood
  <2>4. c.by.who = "rebalancer" /\ c.live
    BY <2>1, <2>2, <2>3 DEF FileInv, CallsOfStage, Orderly, On
  <2>5. c \in Mine
    BY <2>4 DEF Mine, On, CallsFor
  <2>6. c.by = RowCaller /\ rebalancer = "deleting" /\ n \in obsolete
    BY <2>3, <2>5 DEF WorkerInv, WaitsForRow
  <2>7. c.by.object = o /\ c.by.part = i
    BY <2>3, CallOfChunk DEF FaultlessInv, On, CallsFor
  <2> QED BY <2>6, <2>7 DEF RowCaller
<1> QED BY <1>1, FaultlessInvariant, ServiceInvariant, WorkerInvariant, PTL

\* The locations of a live object change by the worker's hand only.
LEMMA LiveLocations ==
    ASSUME ServiceInv, [Next]_vars, NEW o \in Objects, Live(o), Live(o)', NEW i \in Parts(o)
    PROVE  \/ UNCHANGED workerVars /\ locations'[o][i] = locations[o][i]
           \/ WorkerStep \/ GatewayCrash
<1>0. /\ locations \in [Objects -> [AllParts -> SUBSET Nodes]]
      /\ objects \in [Objects -> {"none", "stored", "deleted"}]
      /\ i \in AllParts
  BY FaultlessTypes, BodyType
<1>1. CASE Storage \/ Sync \/ UNCHANGED vars
  BY <1>1 DEF Storage, Sync, vars, gatewayVars, metadataVars
<1>2. ASSUME NEW p \in Objects, UploadStep(p) \/ UploadStart(p) \/ BodyError(p)
      PROVE  locations'[o][i] = locations[o][i]
  <2>1. CASE UNCHANGED locations
    BY <2>1
  <2>2. ASSUME NEW j, upload[p] = "meta", CreateChunk(p, j, kept[p][j])
        PROVE  locations'[o][i] = locations[o][i]
    BY <1>0, <2>2 DEF CreateChunk, Live
  <2> QED BY <1>2, <2>1, <2>2 DEF UploadStep, UploadStart, BodyError, ChunksFailed,
                                  CreateObjectRow, CreateObject, UploadDone, PlaceChunk,
                                  SettleChunk, CreateChunkRow, CreateChunkFails, metadataVars
<1>3. ASSUME NEW p \in Objects, DeleteStep(p) \/ DeleteStart(p) \/ DeleteCancelled(p)
      PROVE  locations'[o][i] = locations[o][i]
  <2>1. CASE UNCHANGED locations
    BY <2>1
  <2>2. CASE DeleteObject(p)
    BY <1>0, <2>2 DEF DeleteObject, Live
  <2> QED BY <1>3, <2>1, <2>2 DEF DeleteStep, DeleteStart, DeleteCancelled, DeleteRows,
                                  DeleteDone, metadataVars
<1>4. ASSUME NEW r \in Readers, DownloadStep(r) \/ \E p \in Objects : DownloadStart(r, p)
      PROVE  locations'[o][i] = locations[o][i]
  BY <1>4 DEF DownloadStep, DownloadStart, DownloadRows, DownloadReplica, DownloadEnd,
              metadataVars
<1>5. CASE Client
  BY <1>2, <1>3, <1>4, <1>5 DEF Client
<1>6. ASSUME NEW p \in Objects, Uploading(p) \/ Deleting(p)
      PROVE  UNCHANGED workerVars /\ locations'[o][i] = locations[o][i]
  BY <1>2, <1>3, <1>6 DEF Uploading, Deleting
<1>7. ASSUME NEW r \in Readers, Downloading(r)
      PROVE  UNCHANGED workerVars /\ locations'[o][i] = locations[o][i]
  BY <1>4, <1>7 DEF Downloading
<1>8. UNCHANGED workerVars \/ WorkerStep \/ GatewayCrash
  BY <1>1, <1>5, <1>6, <1>7 DEF Next, Storage, Sync, Client, vars
<1> QED BY <1>1, <1>5, <1>6, <1>7, <1>8 DEF Next, Storage, Sync, Client, vars

\* What the worker does to the locations of a chunk: a step that ends in a
\* DeleteChunk or leaves the chunk without a location is one of these two.
LEMMA LastLocation ==
    ASSUME ServiceInv, WorkerStep, NEW o \in Objects, NEW i \in Parts(o)
    PROVE  /\ rebalancer' = "deleting" =>
                rebalancer = "clearing" /\ UNCHANGED <<disk, locations>>
           /\ locations[o][i] # {} /\ locations'[o][i] = {} =>
                \E n \in obsolete : /\ rebalancer = "deleting" /\ locations[o][i] = {n}
                                    /\ row.object = o /\ row.part = i
<1>0. /\ locations \in [Objects -> [AllParts -> SUBSET Nodes]]
      /\ i \in AllParts /\ row.object \in Objects /\ row.part \in AllParts
  BY FaultlessTypes, BodyType DEF Rows
<1>1. CASE ScanChunks \/ CheckRing \/ PickRow \/ FetchFailed \/ CopiesSaved
           \/ AllRecorded \/ RowDone \/ PassDone
  <2>1. locations' = locations
    BY <1>1 DEF ScanChunks, CheckRing, PickRow, FetchFailed, CopiesSaved, AllRecorded, RowDone,
                PassDone, gatewayVars, metadataVars
  <2>2. rebalancer' # "deleting"
    BY <1>1 DEF ScanChunks, CheckRing, PickRow, FetchFailed, CopiesSaved, AllRecorded, RowDone,
                PassDone
  <2> QED BY <2>1, <2>2
<1>2. ASSUME NEW n \in Nodes, FetchCopy(n)
      PROVE  locations' = locations /\ rebalancer' # "deleting"
  BY <1>2 DEF FetchCopy, metadataVars
<1>3. ASSUME NEW n \in Nodes, RecordCopy(n)
      PROVE  rebalancer' # "deleting" /\ locations[o][i] \subseteq locations'[o][i]
  <2>1. locations[o][i] \subseteq locations'[o][i]
    BY <1>0, <1>3 DEF RecordCopy, AddChunkLocation, metadataVars
  <2> QED BY <1>3, <2>1 DEF RecordCopy
<1>4. ASSUME NEW n \in Nodes, DeleteCopy(n)
      PROVE  rebalancer = "clearing" /\ UNCHANGED <<disk, locations>>
  BY <1>4 DEF DeleteCopy, metadataVars
<1>5. ASSUME NEW n \in Nodes, ForgetCopy(n)
      PROVE  /\ rebalancer = "deleting" /\ rebalancer' = "clearing" /\ n \in obsolete
             /\ \/ locations'[o][i] = locations[o][i]
                \/ /\ row.object = o /\ row.part = i
                   /\ locations'[o][i] = locations[o][i] \ {n}
  <2>1. \/ locations'[o][i] = locations[o][i]
        \/ /\ row.object = o /\ row.part = i
           /\ locations'[o][i] = locations[o][i] \ {n}
    BY <1>0, <1>5 DEF ForgetCopy, RemoveChunkLocation, metadataVars
  <2> QED BY <1>5, <2>1 DEF ForgetCopy
<1>6. ASSUME NEW n \in Nodes, ForgetCopy(n), locations[o][i] # {}, locations'[o][i] = {}
      PROVE  \E m \in obsolete : /\ rebalancer = "deleting" /\ locations[o][i] = {m}
                                 /\ row.object = o /\ row.part = i
  <2>1. locations[o][i] = {n}
    BY <1>5, <1>6
  <2> QED BY <1>5, <1>6, <2>1
<1> QED BY <1>1, <1>2, <1>3, <1>4, <1>5, <1>6 DEF WorkerStep

\* As long as nothing has failed, the last intact copy of a chunk of an object
\* that was answered 201 goes only when the rebalancer removes an obsolete copy
\* of the row while no node it expects the chunk on is in the table.
THEOREM LossesBlamed ==
    ASSUME ChunksDiffer
    PROVE  Spec => LossBlamed
<1>1. ServiceInv /\ WorkerInv /\ WorkerInv' /\ LocatedIsGood /\ LocatedIsGood' /\ [Next]_vars
        => [LossStep]_vars
  <2> SUFFICES ASSUME ServiceInv, WorkerInv, WorkerInv', LocatedIsGood, LocatedIsGood',
                      [Next]_vars, NEW o \in Objects, Live(o), Live(o)', NEW i \in Parts(o),
                      IntactAt(o, i) # {}, IntactAt(o, i)' = {}
               PROVE  /\ rebalancer = "deleting" /\ row.object = o /\ row.part = i
                      /\ expected \cap locations[o][i] = {}
    BY DEF LossStep
  <2>1. locations[o][i] # {}
    BY DEF IntactAt, GoodAt
  <2>2. ASSUME NEW m \in locations'[o][i]
        PROVE  /\ rebalancer' = "deleting" /\ m \in obsolete'
               /\ row'.object = o /\ row'.part = i
    BY <2>2 DEF LocatedIsGood, IntactAt, Live
  <2>3. CASE UNCHANGED workerVars /\ locations'[o][i] = locations[o][i]
    <3>1. PICK m \in locations[o][i] : TRUE
      BY <2>1
    <3>2. /\ rebalancer = "deleting" /\ row.object = o /\ row.part = i
          /\ locations[o][i] \subseteq obsolete
      BY <2>2, <2>3, <3>1 DEF workerVars
    <3> QED BY <3>2 DEF WorkerInv, ObsoleteOfRow
  <2>4. CASE WorkerStep
    <3>1. CASE locations'[o][i] = {}
      BY <2>1, <2>4, <3>1, LastLocation DEF WorkerInv, ObsoleteOfRow
    <3>2. ASSUME NEW m \in locations'[o][i] PROVE FALSE
      <4>1. rebalancer = "clearing" /\ UNCHANGED <<disk, locations>>
        BY <2>2, <2>4, <3>2, LastLocation
      <4>2. m \in GoodAt(o, i)
        BY <3>2, <4>1 DEF LocatedIsGood, Live
      <4> QED BY <4>1, <4>2 DEF GoodAt, IntactAt
    <3> QED BY <3>1, <3>2
  <2>5. CASE GatewayCrash
    <3>1. locations' = locations /\ rebalancer' = "asleep"
      BY <2>5 DEF GatewayCrash, WorkerRestart, metadataVars
    <3> QED BY <2>1, <2>2, <3>1
  <2> QED BY <2>3, <2>4, <2>5, LiveLocations
<1>2. TypeOK /\ [Next]_vars /\ faults' = 0 => faults = 0
  BY StillFaultless DEF TypeOK
<1>3. DEFINE Good == faults = 0 => LocatedIsGood
<1>4. /\ TypeOK /\ ServiceInv /\ WorkerInv /\ WorkerInv' /\ Good /\ Good' /\ [Next]_vars
        => [faults' = 0 => LossStep]_vars
  BY <1>1, <1>2
<1>5. Spec => []Good
  BY LocationsNameGoodFiles
<1> HIDE DEF Good
<1> QED BY <1>4, <1>5, TypeCorrect, ServiceInvariant, WorkerInvariant, PTL DEF Spec, LossBlamed

\* Where nothing may fail the locations are good throughout.
COROLLARY NothingFailing ==
    ASSUME ChunksDiffer, MaxFaults = 0
    PROVE  Spec => []LocatedIsGood
<1>1. TypeOK => faults = 0
  BY DEF TypeOK, StorageTypeOK
<1>2. Spec => [](faults = 0)
  BY <1>1, TypeCorrect, PTL
<1> QED BY <1>2, LocationsNameGoodFiles, PTL
=============================================================================
