------------------------------ MODULE Metadata ------------------------------
(***************************************************************************)
(* The PostgreSQL tables of internal/db/object_repo.go and migrations/:    *)
(* objects, chunks (UNIQUE (object_id, chunk_index), ON DELETE CASCADE)    *)
(* and chunk_locations (PRIMARY KEY (chunk_id, node_address), ON DELETE    *)
(* CASCADE).  Every operator below is one SQL statement or one             *)
(* transaction, hence one atomic step of whoever runs it.  The hash of a   *)
(* chunk row never changes, so it is left to the modules that need it.     *)
(***************************************************************************)
EXTENDS Cluster

VARIABLES
    objects,    \* objects[o]: "none", "stored" or "deleted"
    chunks,     \* chunks[o]: indexes of the chunk rows of object o
    locations   \* locations[o][i]: node_address values of chunk row (o, i)

metadataVars == <<objects, chunks, locations>>

MetadataTypeOK ==
    /\ objects \in [Objects -> {"none", "stored", "deleted"}]
    /\ chunks \in [Objects -> SUBSET AllParts]
    /\ locations \in [Objects -> [AllParts -> SUBSET Nodes]]

MetadataInit ==
    /\ objects = [o \in Objects |-> "none"]
    /\ chunks = [o \in Objects |-> {}]
    /\ locations = [o \in Objects |-> [i \in AllParts |-> {}]]

CreateObject(o) ==
    /\ objects' = [objects EXCEPT ![o] = "stored"]
    /\ UNCHANGED <<chunks, locations>>

\* One transaction: the chunk row and one location per node.
CreateChunk(o, i, S) ==
    /\ objects[o] = "stored"
    /\ chunks' = [chunks EXCEPT ![o] = @ \cup {i}]
    /\ locations' = [locations EXCEPT ![o][i] = S]
    /\ UNCHANGED objects

\* The inner join of chunks with chunk_locations behind GetChunksByObjectID
\* and GetAllChunks: a chunk row without a location is not in the result.
Joined(o) == {i \in chunks[o] : locations[o][i] # {}}

\* Seeded fault: a LEFT JOIN, and array_agg makes a NULL node of no location.
GetAllChunksLeft ==
    {[object |-> r[1], part |-> r[2],
      nodes |-> IF locations[r[1]][r[2]] = {} THEN {"NULL"} ELSE locations[r[1]][r[2]]] :
        r \in {q \in Objects \X AllParts : q[2] \in chunks[q[1]]}}

GetAllChunks ==
    {[object |-> r[1], part |-> r[2], nodes |-> locations[r[1]][r[2]]] :
        r \in {q \in Objects \X AllParts : q[2] \in Joined(q[1])}}

\* The cascade takes chunk rows and locations along.
DeleteObject(o) ==
    /\ objects[o] = "stored"
    /\ objects' = [objects EXCEPT ![o] = "deleted"]
    /\ chunks' = [chunks EXCEPT ![o] = {}]
    /\ locations' = [locations EXCEPT ![o] = [i \in AllParts |-> {}]]

\* Fails on its foreign key, without effect, once the chunk row is gone.
AddChunkLocation(o, i, n) ==
    /\ locations' = IF i \in chunks[o]
                    THEN [locations EXCEPT ![o][i] = @ \cup {n}]
                    ELSE locations
    /\ UNCHANGED <<objects, chunks>>

\* Seeded fault: the location survives the file.
KeepChunkLocation(o, i, n) == UNCHANGED metadataVars

RemoveChunkLocation(o, i, n) ==
    /\ locations' = [locations EXCEPT ![o][i] = @ \ {n}]
    /\ UNCHANGED <<objects, chunks>>
=============================================================================
