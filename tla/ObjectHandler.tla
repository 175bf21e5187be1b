--------------------------- MODULE ObjectHandler ---------------------------
(***************************************************************************)
(* The gateway's handlers of internal/api/object_handler.go for whole      *)
(* objects: POST /objects (one goroutine per chunk), GET /objects/{id} and *)
(* DELETE /objects/{id}.                                                   *)
(*                                                                         *)
(* Every object id o stands for the upload request that may create it;     *)
(* Body[o] is the sequence of chunk hashes the request body splits into.   *)
(* Two objects with a hash in common have a chunk in common.               *)
(***************************************************************************)
EXTENDS StorageNode, Metadata, RingManager, Sequences

CONSTANTS
    Body,       \* Body[o]: hashes of the chunks of upload request o
    Readers     \* download requests that may be under way together

Parts(o) == DOMAIN Body[o]

ASSUME HandlerAssumption ==
    /\ Body \in [Objects -> Seq(Hashes)]
    /\ \A o \in Objects : Parts(o) \subseteq AllParts

VARIABLES
    upload,     \* upload[o]: where the handler of request o is
    part,       \* part[o][i]: where the goroutine of chunk i of request o is
    kept,       \* kept[o][i]: nodes that stored chunk i (chunkMeta.nodes)
    removal,    \* removal[o]: where DELETE of object o is
    victims,    \* victims[o][i]: locations DELETE read before the cascade
    download    \* download[r]: the state of GET request r

handlerVars == <<upload, part, kept, removal, victims, download>>
gatewayVars == <<storageVars, metadataVars, ringVars, handlerVars>>

\* A GET: the object, whether its upload had been answered 201 when the GET
\* began, whether the database cut its list of chunks short, the chunks still
\* to send with the replicas still to try, and the chunks sent.  It ends
\*   ok      as a 200 with the chunks sent
\*   short   as a 200 too, with the text of an error after the chunks sent
\*   error   as a 500
\*   lost    with the connection, the gateway being gone
Downloads ==
    [pc : {"idle", "rows", "chunks", "ok", "short", "error", "lost"},
     object : Objects, acked : BOOLEAN, cut : BOOLEAN,
     todo : SUBSET AllParts, replicas : [AllParts -> SUBSET Nodes],
     sent : SUBSET AllParts]

HandlerTypeOK ==
    /\ upload \in [Objects -> {"idle", "reading", "meta", "acked", "failed"}]
    /\ part \in [Objects -> [AllParts ->
                   {"unread", "saving", "stored", "recorded", "failed"}]]
    /\ kept \in [Objects -> [AllParts -> SUBSET Nodes]]
    /\ removal \in [Objects -> {"idle", "rows", "sweep", "done", "failed"}]
    /\ victims \in [Objects -> [AllParts -> SUBSET Nodes]]
    /\ download \in [Readers -> Downloads]

NoNodes == [i \in AllParts |-> {}]

HandlerInit ==
    /\ upload = [o \in Objects |-> "idle"]
    /\ part = [o \in Objects |-> [i \in AllParts |-> "unread"]]
    /\ kept = [o \in Objects |-> NoNodes]
    /\ removal = [o \in Objects |-> "idle"]
    /\ victims = [o \in Objects |-> NoNodes]
    /\ download = [r \in Readers |->
         [pc |-> "idle", object |-> CHOOSE o \in Objects : TRUE, acked |-> FALSE,
          cut |-> FALSE, todo |-> {}, replicas |-> NoNodes, sent |-> {}]]

----------------------------------------------------------------------------
(* POST /objects.                                                          *)

ChunkCaller(o, i) == [who |-> "upload", object |-> o, part |-> i]

UploadStart(o) ==
    /\ upload[o] = "idle"
    /\ upload' = [upload EXCEPT ![o] = "reading"]
    /\ UNCHANGED <<storageVars, metadataVars, ringVars,
                   part, kept, removal, victims, download>>

\* The goroutine of chunk i places the chunk on the ring of this instant.
PlaceChunk(o, i) ==
    LET nodes == GetNodes(ring, Body[o][i])
    IN  /\ upload[o] = "reading" /\ part[o][i] = "unread"
        /\ part' = [part EXCEPT ![o][i] = IF nodes = {} THEN "failed" ELSE "saving"]
        /\ calls' = calls \cup SaveCalls(ChunkCaller(o, i), nodes, Body[o][i], "good")
        /\ UNCHANGED <<disk, alive, faults, metadataVars, ringVars,
                       upload, kept, removal, victims, download>>

\* The quorum test on the successes of one chunk.
\* Seeded fault: half of the replicas are taken for a majority.
HalfTheCopies(S) == Cardinality(S) >= RF \div 2

EnoughCopies(S) == Cardinality(S) >= Quorum

\* wg.Wait in SaveChunk is over: the goroutine counts its successes.
SettleChunk(o, i) ==
    LET by == ChunkCaller(o, i)
        stored == Succeeded(by)
    IN  /\ upload[o] = "reading" /\ part[o][i] = "saving" /\ AllAnswered(by)
        /\ calls' = calls \ Awaited(by)
        /\ IF EnoughCopies(stored)
           THEN /\ part' = [part EXCEPT ![o][i] = "stored"]
                /\ kept' = [kept EXCEPT ![o][i] = stored]
           ELSE /\ part' = [part EXCEPT ![o][i] = "failed"]
                /\ UNCHANGED kept
        /\ UNCHANGED <<disk, alive, faults, metadataVars, ringVars,
                       upload, removal, victims, download>>

\* The body cannot be read to its end: the handler returns without g.Wait,
\* and with it goes the context the goroutines' calls depend on.
BodyError(o) ==
    /\ upload[o] = "reading"
    /\ upload' = [upload EXCEPT ![o] = "failed"]
    /\ calls' = Abandon({ChunkCaller(o, i) : i \in Parts(o)})
    /\ UNCHANGED <<disk, alive, faults, metadataVars, ringVars,
                   part, kept, removal, victims, download>>

\* g.Wait returned and one goroutine failed.
ChunksFailed(o) ==
    /\ upload[o] = "reading"
    /\ \A i \in Parts(o) : part[o][i] \in {"stored", "failed"}
    /\ \E i \in Parts(o) : part[o][i] = "failed"
    /\ upload' = [upload EXCEPT ![o] = "failed"]
    /\ UNCHANGED <<storageVars, metadataVars, ringVars,
                   part, kept, removal, victims, download>>

\* g.Wait returned without error: the object row.  When the database call
\* fails the statement may have been committed all the same.
CreateObjectRow(o) ==
    /\ upload[o] = "reading"
    /\ \A i \in Parts(o) : part[o][i] = "stored"
    /\ \/ /\ upload' = [upload EXCEPT ![o] = "meta"]
          /\ CreateObject(o) /\ UNCHANGED faults
       \/ /\ Fault("database") /\ (CreateObject(o) \/ UNCHANGED metadataVars)
          /\ upload' = [upload EXCEPT ![o] = "failed"]
    /\ UNCHANGED <<disk, alive, calls, ringVars,
                   part, kept, removal, victims, download>>

\* Chunk rows follow one transaction at a time, in the order the goroutines
\* finished, which is any order.
CreateChunkRow(o, i) ==
    /\ upload[o] = "meta" /\ part[o][i] = "stored"
    /\ CreateChunk(o, i, kept[o][i])
    /\ part' = [part EXCEPT ![o][i] = "recorded"]
    /\ UNCHANGED <<storageVars, ringVars, upload, kept, removal, victims, download>>

\* Seeded fault: the error of CreateChunk is dropped.
CreateChunkIgnored(o, i) ==
    /\ upload[o] = "meta" /\ part[o][i] = "stored"
    /\ Fault("database") /\ UNCHANGED metadataVars
    /\ part' = [part EXCEPT ![o][i] = "recorded"]
    /\ UNCHANGED <<disk, alive, calls, ringVars, upload, kept, removal, victims, download>>

\* The foreign key is gone with the object, or the database call fails.  The
\* rows written so far stay, and so may this one.
CreateChunkFails(o, i) ==
    /\ upload[o] = "meta" /\ part[o][i] = "stored"
    /\ \/ objects[o] # "stored" /\ UNCHANGED <<metadataVars, faults>>
       \/ Fault("database") /\ (CreateChunk(o, i, kept[o][i]) \/ UNCHANGED metadataVars)
    /\ upload' = [upload EXCEPT ![o] = "failed"]
    /\ UNCHANGED <<disk, alive, calls, ringVars,
                   part, kept, removal, victims, download>>

\* Seeded fault: 201 before the chunk rows.
UploadDoneEarly(o) ==
    /\ upload[o] = "meta"
    /\ upload' = [upload EXCEPT ![o] = "acked"]
    /\ UNCHANGED <<storageVars, metadataVars, ringVars,
                   part, kept, removal, victims, download>>

UploadDone(o) ==
    /\ upload[o] = "meta"
    /\ \A i \in Parts(o) : part[o][i] = "recorded"
    /\ upload' = [upload EXCEPT ![o] = "acked"]
    /\ UNCHANGED <<storageVars, metadataVars, ringVars,
                   part, kept, removal, victims, download>>

UploadStep(o) ==
    \/ ChunksFailed(o) \/ CreateObjectRow(o) \/ UploadDone(o)
    \/ \E i \in Parts(o) : \/ PlaceChunk(o, i) \/ SettleChunk(o, i)
                           \/ CreateChunkRow(o, i) \/ CreateChunkFails(o, i)

----------------------------------------------------------------------------
(* GET /objects/{id}.                                                      *)

DownloadStart(r, o) ==
    /\ download[r].pc \notin {"rows", "chunks"}
    /\ objects[o] = "stored"
    /\ download' = [download EXCEPT ![r] =
         [pc |-> "rows", object |-> o, acked |-> upload[o] = "acked",
          cut |-> FALSE, todo |-> {}, replicas |-> NoNodes, sent |-> {}]]
    /\ UNCHANGED <<storageVars, metadataVars, ringVars,
                   upload, part, kept, removal, victims>>

\* The second query.  rows.Err() is not looked at: a connection lost on the
\* way shortens the result.
DownloadRows(r) ==
    LET o == download[r].object
        Got(S, cut) ==
          download' = [download EXCEPT ![r].pc = "chunks", ![r].todo = S,
                                       ![r].cut = cut, ![r].replicas = locations[o]]
    IN  /\ download[r].pc = "rows"
        /\ \/ Got(Joined(o), FALSE) /\ UNCHANGED faults
           \/ Fault("database") /\ \E k \in AllParts : Got({i \in Joined(o) : i < k}, TRUE)
           \/ /\ Fault("database")
              /\ download' = [download EXCEPT ![r].pc = "error"]
        /\ UNCHANGED <<disk, alive, calls, metadataVars, ringVars,
                       upload, part, kept, removal, victims>>

\* The chunk row being sent: they come ORDER BY chunk_index.
Current(d) == {i \in d.todo : \A j \in d.todo : i <= j}

\* Seeded fault: the same replica is tried again.
SameReplica(r, i, n) == UNCHANGED download

\* continue: on to the next replica.
NextReplica(r, i, n) == download' = [download EXCEPT ![r].replicas[i] = @ \ {n}]

\* One replica of the current chunk.  Only bytes that decrypt, decompress
\* and hash to the chunk's name are sent on.
DownloadReplica(r, i, n) ==
    LET d == download[r]
        Send == download' = [download EXCEPT ![r].todo = @ \ {i}, ![r].sent = @ \cup {i}]
        Pass == NextReplica(r, i, n)
    IN  /\ d.pc = "chunks" /\ i \in Current(d) /\ n \in d.replicas[i]
        /\ \/ /\ alive[n]
              /\ \E bytes \in ReadOutcomes(n, Body[d.object][i]) :
                    IF bytes = "good" THEN Send ELSE Pass
              /\ UNCHANGED faults
           \/ ~alive[n] /\ Pass /\ UNCHANGED faults
           \/ alive[n] /\ Fault("read") /\ Pass
        /\ UNCHANGED <<disk, alive, calls, metadataVars, ringVars,
                       upload, part, kept, removal, victims>>

\* Seeded fault: a chunk without a readable replica is left out.
DownloadEndSkips(r) ==
    LET d == download[r]
    IN  /\ d.pc = "chunks"
        /\ \/ /\ d.todo = {}
              /\ download' = [download EXCEPT ![r].pc = "ok"]
           \/ \E i \in Current(d) :
                 /\ d.replicas[i] = {}
                 /\ download' = [download EXCEPT ![r].todo = @ \ {i}]
        /\ UNCHANGED <<storageVars, metadataVars, ringVars,
                       upload, part, kept, removal, victims>>

\* The handler returns: every chunk is sent, or no replica of the current
\* one is left.  http.Error then answers 500, unless the first Write has made
\* the answer a 200: its text follows the chunks and the response ends well.
DownloadEnd(r) ==
    LET d == download[r]
        End(pc) == download' = [download EXCEPT ![r].pc = pc, ![r].todo = {},
                                                ![r].replicas = NoNodes]
    IN  /\ d.pc = "chunks"
        /\ \/ d.todo = {} /\ End("ok")
           \/ /\ \E i \in Current(d) : d.replicas[i] = {}
              /\ End(IF d.sent = {} THEN "error" ELSE "short")
        /\ UNCHANGED <<storageVars, metadataVars, ringVars,
                       upload, part, kept, removal, victims>>

DownloadStep(r) ==
    \/ DownloadRows(r) \/ DownloadEnd(r)
    \/ \E i \in AllParts, n \in Nodes : DownloadReplica(r, i, n)

----------------------------------------------------------------------------
(* DELETE /objects/{id}.                                                   *)

SweepCaller(o, i) == [who |-> "delete", object |-> o, part |-> i]

\* Seeded fault: the files go before the rows do.
DeleteStartSweeps(o) ==
    /\ removal[o] = "idle" /\ objects[o] = "stored"
    /\ removal' = [removal EXCEPT ![o] = "rows"]
    /\ calls' = calls \cup UNION {DeleteCalls(SweepCaller(o, i), locations[o][i], Body[o][i])
                                    : i \in Parts(o)}
    /\ UNCHANGED <<disk, alive, faults, metadataVars, ringVars,
                   upload, part, kept, victims, download>>

\* As in a GET, a connection lost on the way shortens the result.  A DELETE
\* that failed may be sent again.
DeleteStart(o) ==
    /\ removal[o] \in {"idle", "failed"} /\ objects[o] = "stored"
    /\ removal' = [removal EXCEPT ![o] = "rows"]
    /\ \/ victims' = [victims EXCEPT ![o] = locations[o]] /\ UNCHANGED faults
       \/ /\ Fault("database")
          /\ \E k \in AllParts : victims' = [victims EXCEPT ![o] =
                [i \in AllParts |-> IF i < k THEN locations[o][i] ELSE {}]]
    /\ UNCHANGED <<disk, alive, calls, metadataVars, ringVars,
                   upload, part, kept, download>>

\* The cascade commits, then one goroutine per replica read before.
DeleteRows(o) ==
    /\ removal[o] = "rows"
    /\ \/ /\ DeleteObject(o) /\ UNCHANGED faults
          /\ removal' = [removal EXCEPT ![o] = "sweep"]
          /\ calls' = calls \cup
               UNION {DeleteCalls(SweepCaller(o, i), victims[o][i], Body[o][i]) :
                        i \in Parts(o)}
       \/ /\ Fault("database") /\ UNCHANGED calls
          /\ DeleteObject(o) \/ UNCHANGED metadataVars
          /\ removal' = [removal EXCEPT ![o] = "failed"]
    /\ victims' = [victims EXCEPT ![o] = NoNodes]
    /\ UNCHANGED <<disk, alive, ringVars, upload, part, kept, download>>

\* wg.Wait; the answer is 204 whatever the calls returned.
DeleteDone(o) ==
    /\ removal[o] = "sweep"
    /\ \A i \in Parts(o) : AllAnswered(SweepCaller(o, i))
    /\ removal' = [removal EXCEPT ![o] = "done"]
    /\ calls' = calls \ UNION {Awaited(SweepCaller(o, i)) : i \in Parts(o)}
    /\ UNCHANGED <<disk, alive, faults, metadataVars, ringVars,
                   upload, part, kept, victims, download>>

\* The client goes away: r.Context() is cancelled and the calls with it.
DeleteCancelled(o) ==
    /\ removal[o] = "sweep"
    /\ removal' = [removal EXCEPT ![o] = "failed"]
    /\ calls' = Abandon({SweepCaller(o, i) : i \in Parts(o)})
    /\ UNCHANGED <<disk, alive, faults, metadataVars, ringVars,
                   upload, part, kept, victims, download>>

DeleteStep(o) == DeleteRows(o) \/ DeleteDone(o)

----------------------------------------------------------------------------
\* The gateway process dies: every request under way ends without an answer.
HandlersLost ==
    /\ upload' = [o \in Objects |->
                    IF upload[o] \in {"reading", "meta"} THEN "failed" ELSE upload[o]]
    /\ removal' = [o \in Objects |->
                    IF removal[o] \in {"rows", "sweep"} THEN "failed" ELSE removal[o]]
    /\ download' = [r \in Readers |->
                      IF download[r].pc \notin {"rows", "chunks"} THEN download[r]
                      ELSE [download[r] EXCEPT !.pc = "lost", !.todo = {},
                                               !.replicas = NoNodes]]
    /\ victims' = [o \in Objects |-> NoNodes]
    /\ UNCHANGED <<part, kept>>
=============================================================================
