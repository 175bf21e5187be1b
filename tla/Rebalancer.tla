----------------------------- MODULE Rebalancer -----------------------------
(***************************************************************************)
(* The background worker of internal/api/rebalancer.go.  A pass reads all  *)
(* chunk rows once, tests once that the ring is not empty, and then brings *)
(* row after row to the nodes the ring names at the moment it gets there.  *)
(***************************************************************************)
EXTENDS ObjectHandler

CONSTANT Rebalancing    \* FALSE: the run ends within the first 60 seconds

ASSUME RebalancerAssumption == Rebalancing \in BOOLEAN

VARIABLES
    rebalancer, \* what the worker does next
    rows,       \* rows of the pass still to visit
    row,        \* the row being visited
    expected,   \* expectedMap of that row
    sources,    \* current nodes not yet asked for the bytes
    payload,    \* the bytes to copy
    saved,      \* nodes that took a copy and are still to be recorded
    obsolete    \* obsolete nodes still to be cleared

workerVars == <<rebalancer, rows, row, expected, sources, payload, saved, obsolete>>

Rows == [object : Objects, part : AllParts, nodes : SUBSET Nodes]

\* The worker between two visits.
NoRow == [object |-> CHOOSE o \in Objects : TRUE,
          part |-> CHOOSE i \in AllParts : TRUE, nodes |-> {}]

WorkerTypeOK ==
    /\ rebalancer \in {"asleep", "check", "pick", "fetch", "saving",
                       "recording", "clearing", "deleting"}
    /\ rows \in SUBSET Rows
    /\ row \in Rows
    /\ expected \in SUBSET Nodes
    /\ sources \in SUBSET Nodes
    /\ payload \in Bytes
    /\ saved \in SUBSET Nodes
    /\ obsolete \in SUBSET Nodes

WorkerInit ==
    /\ rebalancer = "asleep"
    /\ rows = {}
    /\ row = NoRow
    /\ expected = {}
    /\ sources = {}
    /\ payload = "good"
    /\ saved = {}
    /\ obsolete = {}

RowHash == Body[row.object][row.part]
RowCaller == [who |-> "rebalancer", object |-> row.object, part |-> row.part]

\* The locals of a visit go out of scope.
Forget ==
    /\ row' = NoRow /\ expected' = {} /\ sources' = {} /\ payload' = "good"
    /\ saved' = {} /\ obsolete' = {}

\* 60 seconds are over: GetAllChunks, which may lose rows as the other reads.
ScanChunks ==
    /\ Rebalancing /\ rebalancer = "asleep"
    /\ \/ rows' = GetAllChunks /\ UNCHANGED faults
       \/ Fault("database") /\ rows' \in SUBSET GetAllChunks
    /\ rows' # {}
    /\ rebalancer' = "check"
    /\ UNCHANGED <<disk, alive, calls, metadataVars, ringVars, handlerVars,
                   row, expected, sources, payload, saved, obsolete>>

\* The only read of the ring under rm.mu.
CheckRing ==
    /\ rebalancer = "check" /\ ~syncing
    /\ IF ring = {} THEN rebalancer' = "asleep" /\ rows' = {}
                    ELSE rebalancer' = "pick" /\ UNCHANGED rows
    /\ UNCHANGED <<gatewayVars, row, expected, sources, payload, saved, obsolete>>

\* Neither missing nor obsolete nodes.
Balanced(r, nodes) == nodes = r.nodes

\* Seeded fault: a row that is not balanced stays in the pass.
PickRowAgain ==
    \E r \in rows :
        LET nodes == GetNodes(ring, Body[r.object][r.part])
        IN  /\ rebalancer = "pick" /\ ~Balanced(r, nodes)
            /\ rebalancer' = "fetch"
            /\ row' = r /\ expected' = nodes /\ sources' = r.nodes
            /\ UNCHANGED <<gatewayVars, rows, payload, saved, obsolete>>

PickRow ==
    \E r \in rows :
        LET nodes == GetNodes(ring, Body[r.object][r.part])
        IN  /\ rebalancer = "pick"
            /\ rows' = rows \ {r}
            /\ IF Balanced(r, nodes)
               THEN UNCHANGED <<rebalancer, row, expected, sources>>
               ELSE /\ rebalancer' = "fetch"
                    /\ row' = r /\ expected' = nodes /\ sources' = r.nodes
            /\ UNCHANGED <<gatewayVars, payload, saved, obsolete>>

\* What can be copied of what a node returned.
Usable(bytes) == bytes \in Bytes

\* Seeded fault: every node of the row is cleared.
AllOfRow == row.nodes

ObsoleteNodes == row.nodes \ expected

\* The first node that answers decides: an empty file ends the visit, any
\* other bytes are copied as they are.
FetchCopy(n) ==
    LET missing == expected \ row.nodes
        Failed == /\ sources' = sources \ {n}
                  /\ UNCHANGED <<rebalancer, row, expected, payload, saved, obsolete, calls>>
        Empty == rebalancer' = "pick" /\ Forget /\ UNCHANGED calls
        Copy(bytes) ==
            /\ sources' = {} /\ payload' = bytes
            /\ obsolete' = ObsoleteNodes
            /\ rebalancer' = IF missing = {} THEN "clearing" ELSE "saving"
            /\ calls' = calls \cup SaveCalls(RowCaller, missing, RowHash, bytes)
            /\ UNCHANGED <<row, expected, saved>>
    IN  /\ rebalancer = "fetch" /\ n \in sources
        /\ \/ /\ alive[n] /\ UNCHANGED faults
              /\ \E bytes \in ReadOutcomes(n, RowHash) :
                    \/ bytes = "absent" /\ Failed
                    \/ bytes = "empty" /\ ~Usable(bytes) /\ Empty
                    \/ Usable(bytes) /\ Copy(bytes)
           \/ ~alive[n] /\ Failed /\ UNCHANGED faults
           \/ alive[n] /\ Fault("read") /\ Failed
        /\ UNCHANGED <<disk, alive, metadataVars, ringVars, handlerVars, rows>>

\* Seeded fault: the nodes are asked again and again.
FetchAgain ==
    /\ rebalancer = "fetch" /\ sources = {}
    /\ sources' = row.nodes
    /\ UNCHANGED <<gatewayVars, rebalancer, rows, row, expected, payload, saved, obsolete>>

\* No current node delivered the bytes.
FetchFailed ==
    /\ rebalancer = "fetch" /\ sources = {}
    /\ rebalancer' = "pick" /\ Forget
    /\ UNCHANGED <<gatewayVars, rows>>

\* Seeded fault: the new copies are not recorded.
CopiesUnrecorded ==
    /\ rebalancer = "saving" /\ AllAnswered(RowCaller)
    /\ calls' = calls \ Awaited(RowCaller)
    /\ rebalancer' = "recording"
    /\ UNCHANGED <<disk, alive, faults, metadataVars, ringVars, handlerVars,
                   rows, row, expected, sources, payload, saved, obsolete>>

\* SaveChunk returned; its errors are only logged.
CopiesSaved ==
    /\ rebalancer = "saving" /\ AllAnswered(RowCaller)
    /\ saved' = Succeeded(RowCaller)
    /\ calls' = calls \ Awaited(RowCaller)
    /\ rebalancer' = "recording"
    /\ UNCHANGED <<disk, alive, faults, metadataVars, ringVars, handlerVars,
                   rows, row, expected, sources, payload, obsolete>>

\* AddChunkLocation for one new copy; its error is ignored.
RecordCopy(n) ==
    /\ rebalancer = "recording" /\ n \in saved
    /\ saved' = saved \ {n}
    /\ \/ AddChunkLocation(row.object, row.part, n) /\ UNCHANGED faults
       \/ Fault("database") /\ UNCHANGED metadataVars
    /\ UNCHANGED <<disk, alive, calls, ringVars, handlerVars, rebalancer,
                   rows, row, expected, sources, payload, obsolete>>

AllRecorded ==
    /\ rebalancer = "recording" /\ saved = {}
    /\ rebalancer' = "clearing"
    /\ UNCHANGED <<gatewayVars, rows, row, expected, sources, payload, saved, obsolete>>

\* One obsolete node after the other: DeleteChunk, then, whatever it
\* returned, RemoveChunkLocation.
DeleteCopy(n) ==
    /\ rebalancer = "clearing" /\ n \in obsolete
    /\ rebalancer' = "deleting"
    /\ calls' = calls \cup DeleteCalls(RowCaller, {n}, RowHash)
    /\ UNCHANGED <<disk, alive, faults, metadataVars, ringVars, handlerVars,
                   rows, row, expected, sources, payload, saved, obsolete>>

\* Seeded fault: nobody waits for the DeleteChunk.
ForgetCopyAtOnce(n) ==
    /\ rebalancer = "deleting" /\ n \in obsolete
    /\ \E c \in Awaited(RowCaller) : c.node = n
    /\ obsolete' = obsolete \ {n}
    /\ rebalancer' = "clearing"
    /\ RemoveChunkLocation(row.object, row.part, n)
    /\ UNCHANGED <<storageVars, ringVars, handlerVars,
                   rows, row, expected, sources, payload, saved>>

ForgetCopy(n) ==
    /\ rebalancer = "deleting" /\ n \in obsolete
    /\ AllAnswered(RowCaller) /\ \E c \in Awaited(RowCaller) : c.node = n
    /\ calls' = calls \ Awaited(RowCaller)
    /\ obsolete' = obsolete \ {n}
    /\ rebalancer' = "clearing"
    /\ \/ RemoveChunkLocation(row.object, row.part, n) /\ UNCHANGED faults
       \/ Fault("database") /\ UNCHANGED metadataVars
    /\ UNCHANGED <<disk, alive, ringVars, handlerVars,
                   rows, row, expected, sources, payload, saved>>

RowDone ==
    /\ rebalancer = "clearing" /\ obsolete = {}
    /\ rebalancer' = "pick" /\ Forget
    /\ UNCHANGED <<gatewayVars, rows>>

PassDone ==
    /\ rebalancer = "pick" /\ rows = {}
    /\ rebalancer' = "asleep"
    /\ UNCHANGED <<gatewayVars, rows, row, expected, sources, payload, saved, obsolete>>

WorkerStep ==
    \/ ScanChunks \/ CheckRing \/ PickRow \/ FetchFailed \/ CopiesSaved
    \/ AllRecorded \/ RowDone \/ PassDone
    \/ \E n \in Nodes : FetchCopy(n) \/ RecordCopy(n) \/ DeleteCopy(n) \/ ForgetCopy(n)

\* A new gateway process starts its worker with a sleep.
WorkerRestart ==
    /\ rebalancer' = "asleep" /\ rows' = {} /\ Forget
=============================================================================
