---------------------------- MODULE StorageNode ----------------------------
(***************************************************************************)
(* The storage nodes and the calls the gateway has in flight to them.      *)
(*                                                                         *)
(* internal/storage/disk.go keeps one file per chunk hash.  SaveChunk      *)
(* creates (truncates) the file and then writes it, so a file passes       *)
(* through "empty" and may stay there, or be left "torn", when the write   *)
(* does not finish.  internal/api/storage_client.go gives every call 10    *)
(* seconds; a call the gateway gave up still runs at the node.             *)
(*                                                                         *)
(* A call is a record.  "live" says that the goroutine that made it still  *)
(* waits for the answer; "step" is how far the node's handler went:        *)
(*   sent      not yet executed by the node                                *)
(*   created   os.Create done, the write still to come                     *)
(*   unlinked  as created, but the file has been removed meanwhile: the    *)
(*             write will go to an inode no name refers to                 *)
(*   ok/failed what the caller will be told                                *)
(***************************************************************************)
EXTENDS Cluster

VARIABLES
    disk,       \* disk[n][h]: the file named h in DataDir of node n
    alive,      \* alive[n]: the storage node process runs
    calls,      \* calls in flight or answered and not yet collected
    faults      \* failures injected so far

storageVars == <<disk, alive, calls, faults>>

Bytes == {"good", "torn"}             \* contents a call may carry
Files == {"absent", "empty"} \cup Bytes

Callers == [who : {"upload", "delete", "rebalancer"},
            object : Objects, part : AllParts]
           \cup [who : {"multipart"}, part : AllParts]

Pending == {"sent", "created", "unlinked"}

Calls == [by : Callers, op : {"save", "delete"}, node : Nodes, hash : Hashes,
          data : Bytes, step : Pending \cup {"ok", "failed"}, live : BOOLEAN]

StorageTypeOK ==
    /\ disk \in [Nodes -> [Hashes -> Files]]
    /\ alive \in [Nodes -> BOOLEAN]
    /\ calls \in SUBSET Calls
    /\ faults \in 0..MaxFaults

StorageInit ==
    /\ disk = [n \in Nodes |-> [h \in Hashes |-> "absent"]]
    /\ alive = [n \in Nodes |-> TRUE]
    /\ calls = {}
    /\ faults = 0

----------------------------------------------------------------------------
(* The client side: what the goroutines of the gateway do with calls.      *)

Call(by, op, n, h, d) ==
    [by |-> by, op |-> op, node |-> n, hash |-> h, data |-> d,
     step |-> "sent", live |-> TRUE]

\* SaveChunk and Delete start one goroutine per node.
SaveCalls(by, S, h, d) == {Call(by, "save", n, h, d) : n \in S}
DeleteCalls(by, S, h) == {Call(by, "delete", n, h, "good") : n \in S}

Awaited(by) == {c \in calls : c.by = by /\ c.live}

\* Seeded fault: waiting for successes instead of answers.
AllSucceeded(by) == \A c \in Awaited(by) : c.step = "ok"

AllAnswered(by) == \A c \in Awaited(by) : c.step \notin Pending
Succeeded(by) == {c.node : c \in {a \in Awaited(by) : a.step = "ok"}}

\* The callers in B stop waiting: answers are dropped, handlers run on.
Abandon(B) ==
    {c \in calls : c.by \notin B \/ ~c.live}
      \cup {[c EXCEPT !.live = FALSE] :
              c \in {a \in calls : a.by \in B /\ a.live /\ a.step \in Pending}}

\* What a read of file h returns: os.ReadFile may overlap the write.
ReadOutcomes(n, h) ==
    {disk[n][h]} \cup
      IF \E c \in calls : c.node = n /\ c.hash = h /\ c.step = "created"
      THEN {"torn"} ELSE {}

\* A failure of this kind happens.
Fault(kind) ==
    /\ kind \in FaultKinds /\ faults < MaxFaults
    /\ faults' = faults + 1

----------------------------------------------------------------------------
(* The server side: the handlers of disk.go.                               *)

\* The handler of c ends with the given answer, if anyone still waits.
Answered(c, answer) == IF c.live THEN {[c EXCEPT !.step = answer]} ELSE {}

SaveCreate(c) ==
    /\ c.op = "save" /\ c.step = "sent" /\ alive[c.node]
    /\ disk' = [disk EXCEPT ![c.node][c.hash] = "empty"]
    /\ calls' = (calls \ {c}) \cup {[c EXCEPT !.step = "created"]}
    /\ UNCHANGED <<alive, faults>>

SaveWrite(c) ==
    /\ c.step \in {"created", "unlinked"}
    /\ disk' = IF c.step = "created"
               THEN [disk EXCEPT ![c.node][c.hash] = c.data] ELSE disk
    /\ calls' = (calls \ {c}) \cup Answered(c, "ok")
    /\ UNCHANGED <<alive, faults>>

\* file.Write fails (disk full): nothing or only a part reached the file.
SaveWriteFails(c) ==
    /\ c.step \in {"created", "unlinked"} /\ Fault("disk")
    /\ \/ disk' = disk
       \/ /\ c.step = "created"
          /\ disk' = [disk EXCEPT ![c.node][c.hash] = "torn"]
    /\ calls' = (calls \ {c}) \cup Answered(c, "failed")
    /\ UNCHANGED alive

\* os.Remove; a handler that has the file open keeps its unlinked inode.
RemoveFile(c) ==
    /\ c.op = "delete" /\ c.step = "sent" /\ alive[c.node]
    /\ disk[c.node][c.hash] # "absent"
    /\ disk' = [disk EXCEPT ![c.node][c.hash] = "absent"]
    /\ LET open == {a \in calls : /\ a.node = c.node /\ a.hash = c.hash
                                  /\ a.step = "created"}
       IN  calls' = (calls \ (open \cup {c}))
                      \cup {[a EXCEPT !.step = "unlinked"] : a \in open}
                      \cup Answered(c, "ok")
    /\ UNCHANGED <<alive, faults>>

\* "chunk not found" is an error to the caller.
RemoveMissing(c) ==
    /\ c.op = "delete" /\ c.step = "sent" /\ alive[c.node]
    /\ disk[c.node][c.hash] = "absent"
    /\ calls' = (calls \ {c}) \cup Answered(c, "failed")
    /\ UNCHANGED <<disk, alive, faults>>

----------------------------------------------------------------------------
(* Failures.                                                               *)

\* A node that is down refuses the connection.
Refused(c) ==
    /\ c.step = "sent" /\ ~alive[c.node]
    /\ calls' = (calls \ {c}) \cup Answered(c, "failed")
    /\ UNCHANGED <<disk, alive, faults>>

\* The call never reaches a handler of a running node: the breaker is open,
\* the network drops it, or MkdirAll or os.Create fails.
Rejected(c) ==
    /\ c.step = "sent" /\ alive[c.node] /\ Fault("call")
    /\ calls' = (calls \ {c}) \cup Answered(c, "failed")
    /\ UNCHANGED <<disk, alive>>

\* 10 seconds pass, or the answer is lost: the caller sees an error and the
\* handler is not told.
TimedOut(c) ==
    /\ c.live /\ c.step \in Pending /\ Fault("call")
    /\ calls' = (calls \ {c}) \cup {[c EXCEPT !.step = "failed"],
                                    [c EXCEPT !.live = FALSE]}
    /\ UNCHANGED <<disk, alive>>

\* A call nobody waits for need not reach the node at all.
LateLost(c) ==
    /\ ~c.live /\ c.step = "sent"
    /\ calls' = calls \ {c}
    /\ UNCHANGED <<disk, alive, faults>>

\* The process of node n dies.  Its handlers die with it, any of them in the
\* middle of its write; files survive, calls still under way fail.
NodeCrash(n) ==
    /\ alive[n] /\ Fault("node")
    /\ alive' = [alive EXCEPT ![n] = FALSE]
    /\ LET here == {c \in calls : c.node = n /\ c.step \in Pending}
           open == {c.hash : c \in {a \in here : a.step = "created"}}
       IN  /\ \E partial \in SUBSET open :
                disk' = [disk EXCEPT ![n] = [h \in Hashes |->
                           IF h \in partial THEN "torn" ELSE disk[n][h]]]
           /\ calls' = (calls \ here)
                         \cup UNION {Answered(c, "failed") : c \in here}

NodeRestart(n) ==
    /\ ~alive[n]
    /\ alive' = [alive EXCEPT ![n] = TRUE]
    /\ UNCHANGED <<disk, calls, faults>>

----------------------------------------------------------------------------
Handle(c) == \/ SaveCreate(c) \/ SaveWrite(c)
             \/ RemoveFile(c) \/ RemoveMissing(c) \/ Refused(c)

CallFails(c) == SaveWriteFails(c) \/ Rejected(c) \/ TimedOut(c) \/ LateLost(c)

NodeStep(n) == \E c \in calls : c.node = n /\ Handle(c)

StorageNext ==
    \/ \E n \in Nodes : NodeStep(n) \/ NodeCrash(n) \/ NodeRestart(n)
    \/ \E c \in calls : CallFails(c)
=============================================================================
