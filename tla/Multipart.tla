----------------------------- MODULE Multipart -----------------------------
(***************************************************************************)
(* One multipart upload: POST /multipart, POST /multipart/{id}/{part} for  *)
(* its parts, as often as a client sends them, and POST .../complete, also *)
(* sent more than once (internal/api/object_handler.go, object_repo.go).   *)
(*                                                                         *)
(* Every o in Objects is a Complete request, which creates the object o if *)
(* it commits.  CompleteMultipartUpload is one READ COMMITTED transaction: *)
(* each statement sees what is committed when it starts, and what it wrote *)
(* is seen by others after the commit.  Its DELETE holds the upload row    *)
(* until the commit, and nothing of consequence happens in between, so     *)
(* DELETE and commit are one step; so are the statements of                *)
(* CreateMultipartChunk, which fails as soon as that row is gone.          *)
(***************************************************************************)
EXTENDS StorageNode, Metadata, RingManager

CONSTANTS
    PartHash,   \* PartHash[i]: hash of the bytes the client has for part i
    MaxSends    \* bound on how often parts are sent

ASSUME MultipartAssumption ==
    /\ PartHash \in [AllParts -> Hashes]
    /\ MaxSends \in Nat

VARIABLES
    session,    \* the multipart_uploads row: "none", "open" or "gone"
    partRows,   \* chunk_index values of multipart_chunks
    partNodes,  \* partNodes[i]: multipart_chunk_locations of part i
    sending,    \* sending[i]: where the request that sends part i is
    stored,     \* stored[i]: its successNodes
    sends,      \* requests that sent a part so far
    acked,      \* parts answered 200
    complete,   \* complete[o]: where the Complete request o is
    size,       \* size[o]: the parts whose sizes it added up
    copied,     \* copied[o][i]: locations of part i in its INSERT ... SELECT
    promised    \* promised[o]: parts answered 200 before o arrived

partVars == <<session, partRows, partNodes, sending, stored, sends, acked>>
completeVars == <<complete, size, copied, promised>>
vars == <<storageVars, metadataVars, ringVars, partVars, completeVars>>

NoParts == [i \in AllParts |-> {}]

Init ==
    /\ StorageInit /\ MetadataInit /\ RingInit
    /\ session = "none" /\ partRows = {} /\ partNodes = NoParts
    /\ sending = [i \in AllParts |-> "idle"]
    /\ stored = NoParts /\ sends = 0 /\ acked = {}
    /\ complete = [o \in Objects |-> "idle"]
    /\ size = [o \in Objects |-> {}]
    /\ copied = [o \in Objects |-> NoParts]
    /\ promised = [o \in Objects |-> {}]

----------------------------------------------------------------------------
(* POST /multipart and its parts.                                          *)

\* The answer brings the id.  A client that gets none starts anew.
InitMultipart ==
    /\ session = "none"
    /\ session' = "open"
    /\ UNCHANGED <<storageVars, metadataVars, ringVars, partRows, partNodes,
                   sending, stored, sends, acked, completeVars>>

PartCaller(i) == [who |-> "multipart", part |-> i]

\* The body is there: place the part and send it to its nodes.  A client
\* may send a part again, whatever became of the request before.
SendPart(i) ==
    LET nodes == GetNodes(ring, PartHash[i])
    IN  /\ session # "none" /\ sends < MaxSends
        /\ sending[i] \in {"idle", "ok", "failed"}
        /\ sends' = sends + 1
        /\ sending' = [sending EXCEPT ![i] = IF nodes = {} THEN "failed" ELSE "saving"]
        /\ calls' = calls \cup SaveCalls(PartCaller(i), nodes, PartHash[i], "good")
        /\ UNCHANGED <<disk, alive, faults, metadataVars, ringVars, session, partRows,
                       partNodes, stored, acked, completeVars>>

\* Seeded fault: half of the replicas are taken for a majority.
HalfTheNodes(S) == Cardinality(S) >= RF \div 2

\* The quorum test.
EnoughNodes(S) == Cardinality(S) >= Quorum

\* SaveChunk returned.
SettlePart(i) ==
    LET by == PartCaller(i)
        nodes == Succeeded(by)
        enough == EnoughNodes(nodes)
    IN  /\ sending[i] = "saving" /\ AllAnswered(by)
        /\ calls' = calls \ Awaited(by)
        /\ sending' = [sending EXCEPT ![i] = IF enough THEN "stored" ELSE "failed"]
        /\ stored' = [stored EXCEPT ![i] = IF enough THEN nodes ELSE {}]
        /\ UNCHANGED <<disk, alive, faults, metadataVars, ringVars, session, partRows,
                       partNodes, sends, acked, completeVars>>

\* The transaction of CreateMultipartChunk.
CreateMultipartChunk(i) ==
    /\ partRows' = partRows \cup {i}
    /\ partNodes' = [partNodes EXCEPT ![i] = stored[i]]

\* Foreign key and primary key let the row in: 200.
RecordPart(i) ==
    /\ sending[i] = "stored" /\ session = "open" /\ i \notin partRows
    /\ CreateMultipartChunk(i)
    /\ sending' = [sending EXCEPT ![i] = "ok"]
    /\ acked' = acked \cup {i}
    /\ stored' = [stored EXCEPT ![i] = {}]
    /\ UNCHANGED <<storageVars, metadataVars, ringVars, session, sends, completeVars>>

\* 500: the part was recorded before, the upload is gone, or the database
\* failed, before or after the commit.
RecordPartFails(i) ==
    /\ sending[i] = "stored"
    /\ \/ (session # "open" \/ i \in partRows) /\ UNCHANGED <<partRows, partNodes, faults>>
       \/ /\ Fault("database")
          /\ \/ UNCHANGED <<partRows, partNodes>>
             \/ session = "open" /\ i \notin partRows /\ CreateMultipartChunk(i)
    /\ sending' = [sending EXCEPT ![i] = "failed"]
    /\ stored' = [stored EXCEPT ![i] = {}]
    /\ UNCHANGED <<disk, alive, calls, metadataVars, ringVars, session, sends, acked,
                   completeVars>>

----------------------------------------------------------------------------
(* POST /multipart/{id}/complete, statement by statement.                  *)

\* 1. The upload row, or sql.ErrNoRows.
CompleteFind(o) ==
    /\ complete[o] = "idle" /\ session # "none"
    /\ complete' = [complete EXCEPT ![o] = IF session = "open" THEN "found" ELSE "failed"]
    /\ promised' = [promised EXCEPT ![o] = acked]
    /\ UNCHANGED <<storageVars, metadataVars, ringVars, partVars, size, copied>>

\* 2. and 3. SUM(size_bytes) and the object row that carries it.
CompleteSize(o) ==
    /\ complete[o] = "found"
    /\ complete' = [complete EXCEPT ![o] = "sized"]
    /\ size' = [size EXCEPT ![o] = partRows]
    /\ UNCHANGED <<storageVars, metadataVars, ringVars, partVars, copied, promised>>

\* 4. The chunk rows, joined with their locations.
CompleteCopy(o) ==
    /\ complete[o] = "sized"
    /\ complete' = [complete EXCEPT ![o] = "copied"]
    /\ copied' = [copied EXCEPT ![o] = partNodes]
    /\ UNCHANGED <<storageVars, metadataVars, ringVars, partVars, size, promised>>

\* 5. DELETE of the upload, which cascades to the part rows of this moment
\* and is no error when the row is gone already, and the commit.
Publish(o) ==
    /\ session' = "gone" /\ partRows' = {} /\ partNodes' = NoParts
    /\ objects' = [objects EXCEPT ![o] = "stored"]
    /\ chunks' = [chunks EXCEPT ![o] = {i \in AllParts : copied[o][i] # {}}]
    /\ locations' = [locations EXCEPT ![o] = copied[o]]

CompleteCommit(o) ==
    /\ complete[o] = "copied" /\ Publish(o)
    /\ complete' = [complete EXCEPT ![o] = "ok"]
    /\ UNCHANGED <<storageVars, ringVars, sending, stored, sends, acked,
                   size, copied, promised>>

\* Seeded fault: without a transaction a failure in the middle of the copy
\* leaves the object with a part of its rows.
CompleteUnguarded(o) ==
    /\ complete[o] = "copied" /\ Fault("database")
    /\ \E S \in SUBSET AllParts :
         /\ chunks' = [chunks EXCEPT ![o] = {i \in S : copied[o][i] # {}}]
         /\ locations' = [locations EXCEPT ![o] =
                            [i \in AllParts |-> IF i \in S THEN copied[o][i] ELSE {}]]
    /\ objects' = [objects EXCEPT ![o] = "stored"]
    /\ complete' = [complete EXCEPT ![o] = "failed"]
    /\ UNCHANGED <<disk, alive, calls, ringVars, partVars, size, copied, promised>>

\* Seeded fault: the DELETE is not part of the transaction.
DeleteOutsideOf(o) ==
    /\ complete[o] = "copied" /\ Fault("database")
    /\ session' = "gone" /\ partRows' = {} /\ partNodes' = NoParts
    /\ complete' = [complete EXCEPT ![o] = "failed"]
    /\ UNCHANGED <<disk, alive, calls, metadataVars, ringVars, sending, stored, sends, acked,
                   size, copied, promised>>

\* A statement fails and the transaction is rolled back; a commit may take
\* effect although it is reported as failed.
CompleteFails(o) ==
    /\ complete[o] \in {"found", "sized", "copied"} /\ Fault("database")
    /\ \/ UNCHANGED <<metadataVars, session, partRows, partNodes>>
       \/ complete[o] = "copied" /\ Publish(o)
    /\ complete' = [complete EXCEPT ![o] = "failed"]
    /\ UNCHANGED <<disk, alive, calls, ringVars, sending, stored, sends, acked,
                   size, copied, promised>>

----------------------------------------------------------------------------
\* The gateway dies: requests end, transactions are rolled back.
GatewayCrash ==
    /\ Fault("gateway")
    /\ calls' = Abandon(Callers)
    /\ sending' = [i \in AllParts |->
                     IF sending[i] \in {"saving", "stored"} THEN "failed" ELSE sending[i]]
    /\ stored' = NoParts
    /\ complete' = [o \in Objects |->
                      IF complete[o] \in {"found", "sized", "copied"} THEN "failed"
                      ELSE complete[o]]
    /\ RingRestart
    /\ UNCHANGED <<disk, alive, metadataVars, session, partRows, partNodes, sends, acked,
                   size, copied, promised>>

Storage == StorageNext /\ UNCHANGED <<metadataVars, ringVars, partVars, completeVars>>
Sync == SyncStep /\ UNCHANGED <<storageVars, metadataVars, partVars, completeVars>>
UploadPart(i) == SendPart(i) \/ SettlePart(i) \/ RecordPart(i) \/ RecordPartFails(i)
CompleteMultipart(o) ==
    \/ CompleteFind(o) \/ CompleteSize(o) \/ CompleteCopy(o)
    \/ CompleteCommit(o) \/ CompleteFails(o)

Next ==
    \/ Storage \/ Sync \/ GatewayCrash \/ InitMultipart
    \/ \E i \in AllParts : UploadPart(i)
    \/ \E o \in Objects : CompleteMultipart(o)

Spec == Init /\ [][Next]_vars

RequestTypeOK ==
    /\ session \in {"none", "open", "gone"}
    /\ partRows \in SUBSET AllParts
    /\ partNodes \in [AllParts -> SUBSET Nodes]
    /\ sending \in [AllParts -> {"idle", "saving", "stored", "ok", "failed"}]
    /\ stored \in [AllParts -> SUBSET Nodes]
    /\ sends \in 0..MaxSends
    /\ acked \in SUBSET AllParts
    /\ complete \in [Objects -> {"idle", "found", "sized", "copied", "ok", "failed"}]
    /\ size \in [Objects -> SUBSET AllParts]
    /\ copied \in [Objects -> [AllParts -> SUBSET Nodes]]
    /\ promised \in [Objects -> SUBSET AllParts]

TypeOK == StorageTypeOK /\ MetadataTypeOK /\ RingTypeOK /\ RequestTypeOK

----------------------------------------------------------------------------
(* What a client may rely on.                                              *)

\* Nodes of S on which part i is in good order or about to be again.
IntactOn(S, i) ==
    {n \in S : \/ disk[n][PartHash[i]] = "good"
               \/ \E c \in calls : /\ c.node = n /\ c.hash = PartHash[i]
                                   /\ c.step = "created"}

\* The upload goes away only for an object that has every part which had been
\* answered 200 when its completion was asked for: neither a failed commit
\* nor completions that overlap lose the parts altogether.
CompletedSomewhere ==
    session = "gone" =>
        \E o \in Objects : objects[o] = "stored" /\ promised[o] \subseteq chunks[o]

\* Complete is all or nothing: unless it is empty an object has all the parts
\* it was promised, and all those its size counts.
WholeOrEmpty ==
    \A o \in Objects : objects[o] = "stored" =>
        promised[o] \cup size[o] \subseteq chunks[o] \/ chunks[o] = {}

\* A failure costs a recorded part at most one of its Quorum copies, before and
\* after completion, although sending the part again truncates its files.
PartQuorumSurvives ==
    /\ \A i \in partRows : Cardinality(IntactOn(partNodes[i], i)) + faults >= Quorum
    /\ \A o \in Objects : \A i \in chunks[o] :
         Cardinality(IntactOn(locations[o][i], i)) + faults >= Quorum
=============================================================================
