---------------------------- MODULE ObjectStore ----------------------------
(***************************************************************************)
(* One gateway, its storage nodes and its database: the handlers of        *)
(* ObjectHandler, the worker of Rebalancer, the sync loop of RingManager   *)
(* and the nodes of StorageNode, each taking its own steps.                *)
(***************************************************************************)
EXTENDS Rebalancer

vars == <<gatewayVars, workerVars>>

Init == StorageInit /\ MetadataInit /\ RingInit /\ HandlerInit /\ WorkerInit

\* The gateway process dies and is started again with an empty ring.  The
\* handlers running at the nodes are not told.
GatewayCrash ==
    /\ Fault("gateway")
    /\ calls' = Abandon(Callers)
    /\ HandlersLost /\ RingRestart /\ WorkerRestart
    /\ UNCHANGED <<disk, alive, metadataVars>>

Storage == StorageNext /\ UNCHANGED <<metadataVars, ringVars, handlerVars, workerVars>>
Sync == SyncStep /\ UNCHANGED <<storageVars, metadataVars, handlerVars, workerVars>>
Uploading(o) == UploadStep(o) /\ UNCHANGED workerVars
Deleting(o) == DeleteStep(o) /\ UNCHANGED workerVars
Downloading(r) == DownloadStep(r) /\ UNCHANGED workerVars

\* What clients decide: begin a request, or go away in the middle of one.
Client ==
    /\ \E o \in Objects :
         \/ UploadStart(o) \/ BodyError(o) \/ DeleteStart(o) \/ DeleteCancelled(o)
         \/ \E r \in Readers : DownloadStart(r, o)
    /\ UNCHANGED workerVars

Next ==
    \/ Storage \/ Sync \/ Client \/ WorkerStep \/ GatewayCrash
    \/ \E o \in Objects : Uploading(o) \/ Deleting(o)
    \/ \E r \in Readers : Downloading(r)

Spec == Init /\ [][Next]_vars

TypeOK ==
    /\ StorageTypeOK /\ MetadataTypeOK /\ RingTypeOK
    /\ HandlerTypeOK /\ WorkerTypeOK

\* The goroutines of the gateway and the handlers of the nodes are scheduled
\* as long as they can move, and a client that began a request keeps
\* sending.  Nothing is assumed of nodes that are down.
Fairness ==
    /\ WF_vars(Sync) /\ WF_vars(WorkerStep)
    /\ \A n \in Nodes : WF_vars(NodeStep(n) /\ UNCHANGED
                         <<metadataVars, ringVars, handlerVars, workerVars>>)
    /\ \A o \in Objects : WF_vars(Uploading(o)) /\ WF_vars(Deleting(o))
    /\ \A r \in Readers : WF_vars(Downloading(r))

FairSpec == Spec /\ Fairness

----------------------------------------------------------------------------
(* What clients may rely on.                                               *)

\* The client was told 201 and has not deleted the object.
Live(o) == upload[o] = "acked" /\ objects[o] = "stored"

HashOf(o, i) == Body[o][i]

\* Locations of a chunk whose file is good.
GoodAt(o, i) == {n \in locations[o][i] : disk[n][HashOf(o, i)] = "good"}

\* Locations whose file is good or about to be written again by a handler
\* that has just truncated it.
IntactAt(o, i) ==
    GoodAt(o, i) \cup
    {n \in locations[o][i] : \E c \in calls : /\ c.node = n /\ c.step = "created"
                                             /\ c.hash = HashOf(o, i)}

\* An upload answered 201 has all its chunk rows as long as the object
\* exists: no interleaving of the row-by-row inserts of Upload with a DELETE
\* of the half-written object ends in a 201 for a partial object.
AckedComplete == \A o \in Objects : Live(o) => chunks[o] = Parts(o)

\* The object tables and the handlers' answers, seen as ObjectService: the
\* upload, the rebalancer, DELETE and failures together never take a chunk
\* row from a whole object, nor answer 201 for a partial one.
Status == [o \in Objects |->
             CASE objects[o] = "none" -> "none"
               [] objects[o] = "deleted" -> "gone"
               [] objects[o] = "stored" /\ chunks[o] = Parts(o) -> "whole"
               [] OTHER -> "partial"]
Reply == [o \in Objects |-> CASE upload[o] = "acked" -> "created"
                             [] upload[o] = "failed" -> "error"
                             [] OTHER -> "none"]

Service == INSTANCE ObjectService WITH status <- Status, reply <- Reply
ServiceSpec == Service!Spec

\* Without the rebalancer, one failure of a node, a write or the gateway costs
\* a chunk of an acknowledged object at most one of its Quorum copies, also
\* when late handlers of the same upload truncate files that were good.
QuorumSurvives ==
    \A o \in Objects : Live(o) =>
        \A i \in Parts(o) : Cardinality(IntactAt(o, i)) + faults >= Quorum

\* While no call fails, a location in the database names a good file, except
\* between the DeleteChunk and the RemoveChunkLocation of the rebalancer.
LocatedIsGood ==
    \A o \in Objects : objects[o] = "stored" =>
        \A i \in Parts(o) : \A n \in locations[o][i] :
            \/ n \in GoodAt(o, i)
            \/ /\ rebalancer = "deleting" /\ n \in obsolete
               /\ row.object = o /\ row.part = i

\* A step that takes the last intact copy of a chunk is the rebalancer's, for
\* an obsolete copy of the row.
LossStep ==
    \A o \in Objects : Live(o) /\ Live(o)' =>
        \A i \in Parts(o) :
            IntactAt(o, i) # {} /\ IntactAt(o, i)' = {} =>
                /\ rebalancer = "deleting" /\ row.object = o /\ row.part = i
                /\ expected \cap locations[o][i] = {}

\* As long as nothing has failed, the last intact copy of an acknowledged
\* chunk goes only in one way: the rebalancer removes an obsolete copy of the
\* row while no node it expects the chunk on is a recorded location.
LossBlamed == [][faults' = 0 => LossStep]_vars

\* A pass works on what it read at its start, and that is never out of date
\* when it is used: uploads, DELETEs, failures and the pass itself change no
\* row still to be visited unless its object goes, and the node the worker
\* clears is at that moment a location of the chunk.
RowsCurrent ==
    /\ \A r \in rows : objects[r.object] = "stored" =>
          r.part \in chunks[r.object] /\ r.nodes = locations[r.object][r.part]
    /\ \A c \in calls :
          /\ c.live /\ c.by.who = "rebalancer" /\ c.op = "delete"
          /\ objects[c.by.object] = "stored"
          => c.node \in locations[c.by.object][c.by.part]

\* The bytes a GET has sent are the beginning of the object: chunks of it
\* without a gap.
Beginning(o, S) == S \subseteq Parts(o) /\ \A i \in S, j \in Parts(o) \ S : i < j

AnswerTrue(d) ==
    /\ d.pc = "ok" => d.sent = Parts(d.object)
    /\ d.pc = "short" => d.sent \notin {{}, Parts(d.object)} /\ Beginning(d.object, d.sent)
    /\ d.pc = "error" => d.sent = {}

\* What a client can make of the answer to a GET that began after the 201,
\* unless the object was deleted or the database cut the list of its chunks:
\* a 200 that ends without the text of an error is the whole object, one that
\* ends with it a true beginning of the object, never one with a chunk left
\* out, and a 500 comes with no byte of it.
DownloadWhole ==
    \A r \in Readers :
        LET d == download[r]
        IN  d.acked /\ ~d.cut /\ objects[d.object] = "stored" => AnswerTrue(d)

\* Every POST whose body keeps coming is answered: the goroutines end and
\* g.Wait returns, with nodes down or calls failing.
UploadEnds == \A o \in Objects : upload[o] = "reading" ~> upload[o] \in {"acked", "failed"}

\* DELETE is answered whatever the storage nodes do.
DeleteEnds == \A o \in Objects : removal[o] = "rows" ~> removal[o] \in {"done", "failed"}

\* A GET is answered whatever happens to the replicas.
DownloadEnds == \A r \in Readers :
    download[r].pc = "rows" ~> download[r].pc \notin {"rows", "chunks"}

\* A pass of the rebalancer comes to its end.
PassEnds == rebalancer # "asleep" ~> rebalancer = "asleep"

\* The conditions under which the rebalancer can do its work on a chunk.
Repairable(o, i) ==
    Live(o) /\ ring # {} /\ GoodAt(o, i) # {} /\ \A n \in Nodes : alive[n]

\* A chunk an upload left with fewer than RF copies, or on nodes that are no
\* longer its nodes, comes to exactly the nodes the ring names and stays
\* there, once the nodes are up, the gateway has a ring and a good copy is
\* left.  The copies are good ones unless something failed before.
Repaired ==
    \A o \in Objects : \A i \in Parts(o) :
        <>[]Repairable(o, i) =>
            <>[](/\ locations[o][i] = GetNodes(ring, HashOf(o, i))
                 /\ faults = 0 => GoodAt(o, i) = locations[o][i])

----------------------------------------------------------------------------
(* What the documents say and the code does not keep.                      *)

\* learning.md:433: once the row is deleted the chunk on disk is orphaned,
\* so the sweep of a DELETE should meet no file another object points to.
SweepOnlyOrphans ==
    \A c \in calls :
        c.by.who = "delete" /\ c.step = "sent" =>
            ~ \E o \in Objects : \E i \in Parts(o) :
                Live(o) /\ HashOf(o, i) = c.hash /\ c.node \in locations[o][i]

\* README.md: chunks are migrated; an acknowledged chunk keeps a good copy.
NeverLost ==
    \A o \in Objects : Live(o) => \A i \in Parts(o) : GoodAt(o, i) # {}
=============================================================================
