# AtlasStore in TLA+

AtlasStore is an object store. A gateway cuts each uploaded object into chunks,
writes every chunk to RF storage nodes chosen by consistent hashing, and keeps
the names of objects, chunks and chunk locations in PostgreSQL. This directory
models the part of it that can lose or misreport data: the object handlers, the
storage nodes and the calls between them, the tables, multipart uploads, the hash
ring, the cluster membership behind it (Raft state, registration, health checks, the
sync loop), the rebalancer, and the circuit breaker. TLC checks small deployments,
TLAPS proves what holds in every state and of every step for all of them, with the provisos
given under [proofs](#proofs).

Contents: [inventory](#inventory) - [modules](#modules) -
[modelling decisions](#modelling-decisions) - [runs](#runs) -
[what the code does not keep](#what-the-code-does-not-keep) -
[fairness](#fairness) - [proofs](#proofs) - [not modelled](#not-modelled) -
[plan](#plan)

## Inventory

| component | source | state | operations |
|---|---|---|---|
| storage node | `internal/storage/disk.go` | one file per chunk hash | `SaveChunk` (create, write), `GetChunk`, `DeleteChunk`, `Health` |
| storage client | `internal/api/storage_client.go` | connections, one goroutine per call, 10 s timeout | `SaveChunk` (fan-out and wait), `GetChunk`, `DeleteChunk`, `Health` |
| circuit breaker | same file | per node: state, failures, lastFailure under `cb.mu` | `executewithBreaker`: let through, book the result |
| object tables | `internal/db/object_repo.go`, `migrations/` | objects, chunks, chunk_locations, multipart_* | one transaction per operation, cascades |
| object handlers | `internal/api/object_handler.go` | locals of each request and of its goroutines | POST, GET, DELETE, list; multipart init, part, complete |
| hash ring | `pkg/ring/ring.go` | virtual nodes under `h.mu` | `AddNode`, `RemoveNode`, `GetNodes`, `IsEmpty` |
| ring manager | `internal/api/ring_manager.go` | `rm.Ring`, degraded under `rm.mu` | `SyncLoop` every 10 s |
| rebalancer | `internal/api/rebalancer.go` | locals of a pass and of a visit | a pass every 60 s |
| replicated node set | `pkg/raft`, `cmd/storagenode/main.go` | Raft log, one `ClusterFSM` per node, snapshots | `Apply`, `Snapshot`, `Persist`, `Restore`; join loop, `/join`, `/state`, announce goroutine |
| registration and health checker | `health_checker.go`, `node_handler.go`, `node_repo.go`, `cmd/storagenode/main.go` | nodes table | register on start, a round every 10 s with one goroutine per row |
| accounts, encryption, configuration, metrics, tracing, gRPC stubs, web page | `internal/auth`, `internal/crypto`, ... | | |

How they meet:

- The handlers and the rebalancer read `rm.Ring` without `rm.mu`, while
  `SyncLoop` holds it to replace the ring by an empty one and to add the
  members one by one.
- Handlers and rebalancer call the nodes through the storage client. A call
  that timed out or was cancelled may still be executed by the node.
- Files are named by content hash. Two chunks of one object, or of two
  objects, share a file; no reference is counted.
- Handlers and rebalancer change the same tables, one statement or
  transaction at a time; an upload needs one for the object and one for every
  chunk, the rebalancer one for every location.
- Every call passes the breaker of its node, shared by all goroutines, the health
  checks too.
- `SyncLoop` asks the Raft API of one fixed node (`localhost:29001`) for the members
  and reads the nodes table only when that does not answer. The two lists are
  never compared: Raft members come from `/join`, rows from `/nodes/register`,
  and only rows are touched by the health checker.

The hard behaviours, each at its line, are the `hazards` of `PROJECT.json`.
What should be true in spite of them, component by component:

- *upload*: 201 only for an object with all rows (`AckedComplete`) and a
  quorum of good files (`QuorumSurvives`), whatever a DELETE does in between;
- *download*: a 200 that ends without an error text is the whole object, any other answer a
  beginning of it or nothing (`DownloadWhole`);
- *multipart*: the parts never get lost to a Complete (`CompletedSomewhere`), a
  Complete copies all or nothing (`WholeOrEmpty`), recorded parts keep a quorum
  of good files (`PartQuorumSurvives`);
- *tables and files*: a location names a good file (`LocatedIsGood`);
- *rebalancer*: never removes the last copy (`LossBlamed` says in which one
  case it does while nothing fails), works on rows that are still true (`RowsCurrent`),
  gets every chunk that has a good copy to its nodes (`Repaired`), comes to an end (`PassEnds`);
- *requests* are answered (`UploadEnds`, `DeleteEnds`, `DownloadEnds`);
- *breaker*: counter and state agree (`ClosedIffFew`), nobody reaches a node
  within 30 s of the last of three failures (`ShutAfterFailure`), a healthy node gets its calls again (`Recovers`);
- *hash ring*: a chunk is on the nearest members clockwise (`NearestFirst`), never
  on a stranger or twice on one (`OnlyMembers`), and a change of the members
  moves nothing between the others, unless a node shares a key with one of them (`MinimalMove`);
- *replicated node set*: what a replica holds is what the log says
  (`FsmIsLog`), a node that stopped asking to join is in the log (`JoinedInLog`)
  and gets there (`JoinEnds`); what `/state` answers only grows while its node runs
  (`StateSpec`) and comes to what the log says (`StateConverges`);
- *membership*: the ring comes to the list it is taken from (`RingConverges`), the
  nodes table to what the nodes are (`HealthConverges`), as long as other calls do not trip the
  breakers of nodes in good health.

## Modules

    Cluster             nodes, hashes, objects, RF, failures that may occur
      StorageNode       files and calls in flight         disk.go, storage_client.go
      Metadata          the tables                        object_repo.go, migrations/
      RingManager       the ring and its rebuild          ring_manager.go
        Membership      where its members come from       ring_manager.go, health_checker.go, node_*.go
          MCMembership            two nodes
          MembershipProofs        types
        ObjectHandler   POST, GET, DELETE                 object_handler.go
          Rebalancer    the worker                        rebalancer.go
            ObjectStore everything together, the properties
              MCObjectStore       small deployments
              ObjectStoreProofs   types, AckedComplete, refinement of ObjectService,
                                  QuorumSurvives, DownloadWhole
                RebalancerProofs  RowsCurrent, LocatedIsGood, LossBlamed
        Multipart       init, part, complete              object_handler.go, object_repo.go
          MCMultipart             two parts, two Completes
          MultipartProofs         CompletedSomewhere, WholeOrEmpty, PartQuorumSurvives
        ComponentProofs lemmas about StorageNode, Metadata, RingManager; extended by
                        ObjectStoreProofs and MultipartProofs
    Placement           FirstClockwise; used by RingManager and
      HashRing          virtual nodes                     ring.go
        MCHashRing                three nodes
        HashRingProofs            NearestFirst, OnlyMembers, MinimalMove
    ClusterFSM          the replicated node set           fsm.go, commands.go
      RaftCluster       joining it                        cmd/storagenode/main.go
        MCRaftCluster             two nodes
        RaftClusterProofs         FsmIsLog for any commands, JoinedInLog, refinement of ClusterState
    ClusterState        what /state promises; RaftCluster implements it, Membership uses it
    ObjectService       what the API promises, without chunks or nodes
    CircuitBreaker      executewithBreaker; MCCircuitBreaker, CircuitBreakerProofs

**StorageNode.** `disk[n][h]` is the file of hash `h` on node `n`: `absent`,
`empty` (created or truncated), `torn` (partly written) or `good`. A call is a
record with its caller, node, hash, bytes, how far the node's handler is, and
whether a goroutine still waits (`live`). `SaveChunk` of disk.go is two actions,
`SaveCreate` (os.Create truncates) and `SaveWrite`; the file can be read,
truncated again or removed in between (`unlinked`: the handler then writes to
an inode without a name). `SaveCalls`, `AllAnswered`, `Succeeded` are the fan-out,
`wg.Wait` and the success list of the client. `TimedOut` is the 10 s timeout, a lost
answer, or the cancellation of the request context during the saves: the caller
sees an error and the handler runs on.

**Metadata.** One operator per statement or transaction. Foreign keys decide
whether `CreateChunk` and `AddChunkLocation` take effect; `DeleteObject` cascades.

**RingManager.** `ring` is the member set of `rm.Ring` at this instant, empty
and growing while `syncing`. `GetNodes` returns the first RF members in the order
in which the ring meets them from a hash, a parameter (`Rank`) that stands for
the virtual nodes; HashRing shows that they do give such an order. Which membership a
sync finds is any element of `Views` in ObjectStore; in Membership it is what the code would find.

**HashRing** has `h.keys`, `h.ring` and `h.nodesMap` of ring.go. The hash function is any
assignment of keys to virtual nodes (`place`), so TLC tries all of them, collisions
included. `Sorted` puts every key where the number of keys before it says (`sort.Slice`).
`RemoveNode` deletes a map entry at the first of several equal keys
and keeps the others, as the loop in the code does. `Select` is the loop of
`GetNodes`: `met` are the owners in the order of the search, `fresh` where one is met
first; `FirstClockwise` of Placement is what it should select.

**ClusterFSM** is fsm.go under the calls hashicorp/raft makes: `Apply` in log order, `Snapshot` between
two of them, `Persist` or `sink.Cancel` at any time after that, `Install` (Restore with the
snapshot of another replica), `Reopen` (a new process that restores its own). `log` is the sequence of
committed commands; `Members(l, k)` is what its first `k` commands mean.

**RaftCluster** adds the processes: `Ask`, `AddVoter`, `ApplyJoin` are the join loop and the `/join`
handler, step by step, `asks` the handlers at work (a handler outlives the node that asked);
`Announce` is the goroutine of main.go:226-240. A leader is elected when a majority of `voters` runs
and may lose its place at any time, also between two calls of one handler. A call that
fails may have taken effect (a leadership lost while committing).

**ClusterState** is what the gateway can rely on when it asks a node for `/state`.

**Membership** puts together registration, health checker and `SyncLoop`. `proc[n]` is `starting`
while a node listens and registers but does not serve yet (main.go:244-261), `table[n]` its row, `check[n]`
what health goroutines are about to write, `tripped[n]` the breaker of its calls. The health check shares that breaker with
every other call of the gateway, so `BreakerTrips` may trip it at any time, of a node in good health too, and is no failure that
counts: three "chunk not found" or three clients that went away are enough (storage_client.go:76-86). `view` is `/state` of
`Seed` and moves as ClusterState says, within the nodes that were told to join (`Joiners`). It does not
contain RaftCluster: that this one implements ClusterState is a theorem.

**ObjectHandler.** `upload[o]` is the handler of the POST that may create object
`o`, `part[o][i]` the goroutine of its chunk `i`, `kept[o][i]` its `chunkMeta`;
`removal[o]` and `victims[o]` the DELETE and the locations it read; `download[r]` a GET
with the rows it still has to send. `upload` goes `reading` (body and
goroutines), `meta` (row after row), `acked` (201) or `failed`. The 200 of a GET is
on its way with the first byte. When no replica of a later chunk is readable, `http.Error` cannot take it back: it
appends its text, the handler returns, and the client has a properly ended 200 with a short body (`short`).
Only if nothing was sent the GET is a 500 (`error`); a gateway that dies takes the connection with it (`lost`).

**Rebalancer.** The program counter names the phases of a pass (`asleep`, `check`, `pick`)
and of a visit (`fetch`, `saving`, `recording`, `clearing`, `deleting`); `row`, `expected`,
`obsolete`, ... are the locals of a visit. Rows are visited in any order.

**ObjectStore** interleaves all of them with `SyncLoop`, the clients and a crash of
the gateway (`GatewayCrash`), which forgets every request, the ring and the
pass and leaves the handlers at the nodes running.

**ObjectService** is the abstract specification: an object is `none`, `partial`,
`whole` or `gone`, a request unanswered, `created` or `error`. 201 needs a whole object (or
one already deleted), and only a DELETE ever changes a whole object. The
mapping is `Status` and `Reply` of ObjectStore.

**Multipart** is one upload session beside the same nodes, tables and ring.
`sending[i]` is the request that sends part `i`, `stored[i]` its success list, `partRows`
and `partNodes` the two multipart tables, `session` the upload row. Every `o` in
`Objects` is a Complete request, and the object it makes if it commits. The
statements of `CompleteMultipartUpload` are the actions `CompleteFind`,
`CompleteSize` (sum and object row), `CompleteCopy` and `CompleteCommit` (DELETE and
commit): the transaction is READ COMMITTED, the default that `db.Begin()` gets, so
each statement sees what is committed when it starts. DELETE and commit are
one step because the DELETE holds the row lock until the commit: another
DELETE waits and then removes nothing, an insert of a part waits and then
fails on its foreign key. `promised[o]` remembers which parts had been
answered 200 when `o` arrived.

**CircuitBreaker** has the two critical sections of `executewithBreaker` as `Admit`
or `Refuse`, and `Fail` or `Succeed`; between them any number of other calls can pass.
`age` counts ticks since `lastFailure`, up to the first one after the 30 s.
`node` says what calls meet: a node that works, one that fails every call, or
one that works while some calls fail for reasons of their own (the chunk is
not there, the context is cancelled), which the code counts alike.

`map` in `PROJECT.json` gives the lines behind every definition. Operators whose
comment begins with "Seeded fault" belong to no behaviour: they are plausible
mistakes, used to see that each property can fail.

## Modelling decisions

- *Data.* A chunk is its hash; bytes are `good` or `torn`. Compression and
  encryption are kept only as "bytes that do not decrypt, decompress and hash
  to the name are not sent". The rebalancer copies bytes as they are, as in
  the code, so a torn file can be copied.
- *Failures* happen at most `MaxFaults` times, of the kinds in `FaultKinds`: `node`
  (a node process dies, its handlers in the middle of a write), `call` (a
  save or delete is rejected, times out or its answer is lost), `disk` (a write
  fails), `read` (a GetChunk fails), `gateway` (crash and restart), `database` (a
  statement fails, after or before it took effect, or the connection is lost
  in the middle of a result: `rows.Err()` is never looked at, so the result is
  shortened silently). Processes die; machines do not lose power, so a
  completed write survives.
- *Environment without bound*: clients start requests, repeat failed DELETEs, go away
  (`BodyError`, `DeleteCancelled`); nodes restart; none of it counts as a failure.
- *One request of a kind per object.* A POST creates a new object, so there is
  one per object id. A second DELETE running beside the first finds the object row
  gone when the cascade has committed; it is represented by the repetition of a
  failed one. GETs are as many as `Readers`.
- *One gateway*, as in the repository's wiring and scripts.
- *The breaker and the store* are separate modules: inside ObjectStore a refused call
  is the failure `Rejected`.
- *hashicorp/raft* is one log with one leader at a time. Elections are instantaneous; terms,
  heartbeats and uncommitted entries are left out, and what callers see of them (an error after
  which the command may or may not be in the log) is a failed call that may have taken effect.
- *The health checker*: a round and the Health call of a row are one step, because nothing can tell
  when a goroutine was started; the write of its result is a step of its own, and any number may be
  outstanding. The loop's `continue` after an error is a round that does not happen.
- *`/state`* is answered from the moment a node has started (`startRaftAPI` comes first), before
  the log is replayed and before the node serves or registers.
- *`rm.degraded`* is modelled, and nothing in the code reads it: uploads go on in
  a degraded cluster and fail on their quorum.

## Runs

`tlc -config X.cfg M`, where M is MCObjectStore for `upload`, `download`, `rebalance`, `migrate`,
`v_ring_race` and `v_shared_delete`, and otherwise the MC module of the run's name (`v_registered`:
MCMembership). "States" are distinct states.

| run | deployment | checks | states |
|---|---|---|---|
| `upload` | 3 nodes, RF 3, one object of two chunks with the *same* hash, one failure of any kind | `AckedComplete`, `QuorumSurvives`, `ServiceSpec` | 467k |
| `download` | 2 nodes, RF 2, two chunks, one reader, two failures (no `call`, `disk`), fair | `DownloadWhole`, `DownloadEnds` | 477k |
| `rebalance` | 3 nodes, RF 3, ring rebuilt twice ({n1, n2} or all), no failure, fair | `TypeOK`, `LocatedIsGood`, `RowsCurrent`, `Repaired`, `LossBlamed` | 561k |
| `migrate` | 2 nodes, RF 1, ring rebuilt twice ({n1} or both), one failure of any kind, fair | `RowsCurrent`, `Repaired`, `PassEnds`, `UploadEnds`, `DeleteEnds` | 194k |
| `multipart` | 2 nodes, RF 2, two parts with the same bytes, two requests for parts (two parts, or one twice), two Completes, one failure of any kind | `CompletedSomewhere`, `WholeOrEmpty`, `PartQuorumSurvives` | 791k |
| `breaker` | 3 callers, threshold 3, 2 ticks, 6 failures, fair | `TypeOK`, `ClosedIffFew`, `ShutAfterFailure`, `Recovers` | 2k |
| `hashring` | 3 nodes with 2 virtual nodes each, 6 positions, every assignment, nodes up to symmetry | `TypeOK`, `NearestFirst`, `OnlyMembers`, `MinimalMove` | 143k |
| `raft` | 2 nodes, the second joins by way of the first, two crashes, lost leaders or failed calls, fair | `TypeOK`, `FsmIsLog`, `JoinedInLog`, `StateSpec`, `StateConverges`, `JoinEnds` | 274k |
| `membership` | 2 nodes, one asked for `/state`, the other a joiner, two failures of any kind, breakers tripped at will, fair | `TypeOK`, `RingConverges`, `HealthConverges` | 409k |

What they show:

- `upload`: the row-by-row inserts are safe against a DELETE of the half-written
  object because the foreign key stops the upload, and the chunk rows of a 201
  are all there; a failed node, write or gateway costs a chunk at most one of
  its quorum copies, also when two goroutines of one upload truncate and
  write the same files and one of their calls runs late.
- `download`: a GET that began after the 201 sends all chunks, or the first ones followed by an error
  text, or answers 500; it never leaves one out and goes on, unless the database cut its list of rows short (`cut`).
- `rebalance`, `migrate`: a pass reads all rows at its start and uses them until its end. They are still true when it
  uses them, whatever uploads, DELETEs and failed calls do: only the worker changes the locations of a row
  that is there, and it visits a row once. A node it clears is a location of the chunk at that moment.
- `rebalance`: a location in the tables names a good file, except between DeleteChunk and RemoveChunkLocation; while
  nothing fails the last good copy of an acknowledged chunk disappears in one way only, see below.
- `rebalance`, `migrate`: where a good copy is left, all nodes stay up and the gateway has a ring, the recorded
  locations of a chunk come to be exactly its nodes on the ring and stay it, over two rebuilds and after a failure, and, if nothing
  has failed, with good files; also of a chunk stored with a quorum of its copies only, or placed on a ring half rebuilt. A chunk whose last copy went in the ring race is out of reach
  of this: nothing brings it back, with all nodes up and a ring.
- `multipart`: however Completes overlap, fail, or are cut off by a crash, the
  parts end up in an object that has all those answered 200 before; an object
  made by a Complete that came too late is empty and never has a part of
  the parts; truncating the files of a recorded part by sending it again
  costs no more copies than there are failures.
- `hashring`: without colliding keys `GetNodes` is `FirstClockwise` of the members, nearest first,
  whatever was added and removed before; with them a chunk still never goes to a stranger, and
  what joins or leaves without sharing a key moves only its own chunks.
- `raft`: a snapshot persisted while commands are applied, one from another replica, and a
  restart leave every FSM at what the log says; a join that failed half-way is repeated and the repetition
  undoes nothing; while the node that answers `/state` runs its list never shrinks.
- `membership`: goroutines of slow health checks overwrite registrations and each other, and later rounds put the
  table right; the ring follows `/state` while that is answered, dead members included, and the table when it is not. Of a
  serving node whose breaker other calls keep tripping nothing is promised: its row may go inactive again and again.
- `breaker`: late results cannot make counter and state disagree, let a call through within 30 s of a failure that
  reached the threshold, also a failed test call, nor keep a healthy node locked out.

Why the bounds are enough to be interesting: two or three nodes suffice for a
quorum with a copy to spare, a chunk with a missing and an obsolete node at
once, and a membership change; one rebuild of the ring already gives every
intermediate ring; two chunks give every order of goroutines, rows and
sends; two Completes are the smallest overlap, and parts with the same hash make a
resend and another part write the same files; one failure hits every step of every
handler, and two are needed in
`download` to make both replicas of a chunk unreadable. Two rebuilds take a chunk away from a node and bring it back, the
least a stale row or a late delete needs (`rebalance`, `migrate`). With RF 3 an upload that knows two nodes stores a quorum
and leaves a copy missing, and rows have missing and obsolete nodes at once while the ring is half rebuilt; with RF 1 every move
has the old copy go. Three callers can trip a
breaker of threshold 3 while others are under way. `MaxSyncs`, `MaxSends`, `MaxFaults` and
`MaxFailures` bound counters; the age of a failure saturates.
Two replicas are enough for a majority that can be lost and for a snapshot that is not one's own; two
faults give every pair of a crash, a lost leader and a half-done join. Six positions leave room for three nodes
without collision and between them; `MaxKeys` stops entries that `RemoveNode` left behind from piling up.

`CHECK_DEADLOCK FALSE` is set for the object store: rebuilds and requests are bounded, so
a run may come to rest with everything done; for `raft` and `membership`, where everything may be up and
quiet; and for `hashring`, where `MaxKeys` may forbid every `AddNode`. The breaker run checks deadlock.

## What the code does not keep

Each of these runs checks one sentence of the documentation and TLC shows how
the code departs from it.

| run | property | sentence | what happens |
|---|---|---|---|
| `v_ring_race` | `NeverLost` | README.md:71, migrates "without downtime" | no failure at all: the worker tests `IsEmpty`, `SyncLoop` empties the ring, the worker finds no expected node for a row, all its copies obsolete, and deletes them |
| `v_registered` | `RegisteredInRing` | README.md:166, a started node registers and "the Gateway's Hash Ring will update within 10 seconds" | the quick start (README.md:156-163) sets no `RAFT_PEERS`, so the second node bootstraps a cluster of its own; `/state` of the first answers, the table is not looked at, the ring stays at one node and, with RF 2, every upload misses its quorum |
| `v_shared_delete` | `SweepOnlyOrphans` | learning.md:433, the chunk on disk is orphaned | DELETE removes files that another object's rows still name |

`LossBlamed` puts the first of them in its place: as long as nothing has failed, the rebalancer
deleting an obsolete copy while no expected node is recorded for the row is the
only way in which the last good copy of an acknowledged chunk whose bytes no other chunk has disappears. After a failure there
are others: a late delete, see below.

Further departures that were met while modelling and have no run of their own:

- A GET between two row inserts of an upload answers 200 with a part of the
  object (object_handler.go:196); PLAN.md:51 says it "streams reassembled file to
  client". `DownloadWhole` is about GETs that began after the 201.
- When no replica of a later chunk of a GET can be read, the first ones have been sent and the 200 with them. `http.Error`
  appends "all replicas failed or corrupted" and the handler returns (object_handler.go:250-255): the response ends in good order and
  looks like the object. This is the outcome `short`, which `DownloadWhole` tells from `ok` by that text only.
- A database connection lost while the chunk rows are read shortens their list, `rows.Err()` is not asked
  (object_repo.go:102), and the GET answers 200 with the first chunks or none (`cut`); a DELETE leaves files behind.
- The errors of the rebalancer's SaveChunk are logged (rebalancer.go:91) and the obsolete copies deleted
  all the same; PLAN.md:113 has "uploads to the expected node ..., and deletes from the old node". It is
  the other way, beside the ring race, into the situation that `LossBlamed` names.
- Two Completes overlap: one that reads the parts after the other's commit answers 200 with the id of an
  object without chunks (object_repo.go:205); learning.md:548 has the complete signal "stitch them together".
  `WholeOrEmpty` and `CompletedSomewhere` say what is still true then.
- Half open, the breaker lets every call pass until the first result (storage_client.go:63);
  learning.md:686 speaks of "a *single test request*". `ShutAfterFailure` says what holds of all of them.
- A dead node is marked inactive "so it stops sending data to a dead node" (learning.md:556); but the ring
  is the Raft list while that is answered, and nothing ever sends `CmdNodeLeave`: the node stays in the ring.
- `/state` of a node that has just started answers 200 with a short or empty list, and the ring
  is emptied; ring_manager.go:46 has PostgreSQL take over "if Raft is down or starting up".
- main.go:233 has it that a follower was already added by the leader. The first node, which has no
  peers to ask, is added only by its own announcement: if a joiner has become the leader by then, or its `Apply` fails
  (main.go:237 drops the error), it never is.
- `/join` goes to fixed `RAFT_PEERS` (in scripts/start_nodes.sh always the first node), not to "the
  Leader" (learning.md:641): while another node leads, joins wait.
- A node whose registration failed (main.go:257, tried once) is never in the nodes table.
- `RemoveNode` (unused by the gateway) with two equal keys leaves an entry without a node, and `GetNodes`
  then returns an empty address (ring.go:66-74). With colliding keys the placement also depends on
  the order of `AddNode`, and `GetNodes` of fsm.go goes over a map in random order.
- A node that joins with keys equal to the nearest keys of two other nodes takes both over, and chunks of
  theirs then also go to the next node, which is neither (four nodes; "only moves ~1/N of all chunks",
  learning.md:561). `MinimalMove` therefore speaks of nodes that share no key; the run has too few nodes to tell.
- Two Completes that both read the parts before either commits make two
  objects over the same files; a DELETE of one then takes the files of the other.
- A part that is recorded while a Complete is between its copy and its DELETE is
  answered 200 and then cascaded away; the client's own Complete has already been
  sent in that case, so no property speaks of it.
- With two objects that share a chunk (RF 1, rebalancer on), `NeverLost` also
  fails without the ring race: the visit of the first row moves the file, the
  second row's visit finds nothing at its old location.
- A GET uses the locations it read at its start. If the rebalancer moves the
  chunk meanwhile it ends in an error although good copies exist elsewhere.
- A DeleteChunk of the rebalancer that timed out at the gateway may run at the node after a later pass saved the
  chunk there again and recorded it (rebalancer.go:102; with two rebuilds and one failed call it takes the last copy).
- A success of a call that was let through before the breaker tripped closes
  it at once (storage_client.go:90), not after 30 s (learning.md:685).
- A healthy node trips its breaker by answering "chunk not found" three times
  (storage_client.go:79, disk.go:98). Its health check is then refused and its row marked inactive.

## Fairness

`FairSpec` of ObjectStore: the goroutines of the gateway (upload, DELETE, GET, worker,
sync loop) and the handlers of running nodes take their next step eventually.
This is what the Go scheduler and the timeouts give: every call ends within
10 s (that a call without its timeout would hang is therefore an assumption here, not a result), the loops sleep for fixed times. A client that began a POST keeps sending
(`Uploading` is fair, `BodyError` is not). Nothing is assumed of failures, nor of
`NodeRestart`: nothing in the repository restarts a node (docker-compose.yml runs
PostgreSQL only), and so `Repaired` speaks of states in which all nodes are up.
`PassEnds` and the three `...Ends` properties of requests hold with nodes down for good.

`FairSpec` of CircuitBreaker: time passes, callers keep calling, a call to a good node ends.
`Recovers` assumes that the node stays good from some point on.

`FairSpec` of RaftCluster: announce goroutines, join loops and handlers of running nodes go on, the library elects
a leader when a majority runs and brings replicas up to date. Nobody has to start a node, take a snapshot or lose a
leader. `JoinEnds` asks for a peer that stays leader, since a loop that finds none goes on for ever.
`FairSpec` of Membership: registrations, health checks of every row, their writes and `SyncLoop` go on; a tripped
breaker lets calls through again after 30 s. That `/state` grows is not assumed, nor that breakers stay closed: where a
property needs that, it says so.

## Proofs

| theorem | statement |
|---|---|
| `TypeCorrect` (ObjectStoreProofs) | `Spec => []TypeInv /\ []TypeOK` |
| `AckedUploadsComplete` (ObjectStoreProofs) | `Spec => []AckedComplete` |
| `ImplementsService` (ObjectStoreProofs) | `Spec => ServiceSpec` |
| `QuorumsSurvive` (ObjectStoreProofs) | if `~Rebalancing`: `Spec /\ []SharedStay => []QuorumSurvives` |
| `QuorumsSurviveApart` (ObjectStoreProofs) | if `~Rebalancing` and `NothingShared`: `Spec => []QuorumSurvives` |
| `DownloadsWhole` (ObjectStoreProofs) | `Spec /\ []AllLocated => []DownloadWhole` |
| `DownloadsWholeAlone` (ObjectStoreProofs) | if `~Rebalancing`: `Spec => []DownloadWhole` |
| `PassesReadTrue` (RebalancerProofs) | `Spec => []RowsCurrent` |
| `LocationsNameGoodFiles` (RebalancerProofs) | if `ChunksDiffer`: `Spec => [](faults = 0 => LocatedIsGood)` |
| `LossesBlamed` (RebalancerProofs) | if `ChunksDiffer`: `Spec => LossBlamed` |
| `NothingFailing` (RebalancerProofs) | if `ChunksDiffer` and `MaxFaults = 0`: `Spec => []LocatedIsGood` |
| `PartsGoSomewhere`, `AllOrNothing`, `PartsSurvive` (MultipartProofs) | `Spec => []CompletedSomewhere`, `[]WholeOrEmpty`, `[]PartQuorumSurvives` |
| `TypeCorrect`, `Nearest`, `MembersOnly`, `ChangesAreMinimal` (HashRingProofs) | `Spec => []TypeOK`, `[]NearestFirst`, `[]OnlyMembers`, `MinimalMove` |
| `ReplicasFollowLog` (RaftClusterProofs) | `FsmSpec => []FsmIsLog` |
| `RaftTyped`, `RaftFsmIsLog`, `JoinedNodesKnown` (RaftClusterProofs) | `Spec => []TypeOK`, `[]FsmIsLog`, `[]JoinedInLog` |
| `ImplementsState` (RaftClusterProofs) | `Spec => StateSpec` |
| `MembersTyped` (MembershipProofs) | `Spec => []TypeOK` |
| `BreakerTyped`, `CounterDecides`, `ShutForCooldown` (CircuitBreakerProofs) | `Spec => []TypeOK`, `[]ClosedIffFew`, `ShutAfterFailure` |

They hold for any finite set of nodes, any objects, parts, chunk sequences, RF, ring order,
memberships, readers, failures and bounds, any number of virtual nodes and any hashes of theirs. The assumptions are those
of the modules (`ClusterAssumption`, `RingAssumption`, `HandlerAssumption`,
`RebalancerAssumption`, `MultipartAssumption`, `HashRingAssumption`,
`RaftAssumption`, `MembershipAssumption`, `BreakerAssumption`): constants of the right kind, RF and the threshold
positive, Rank without ties.

The provisos of some of them are about the code:

- `~Rebalancing` leaves the worker out, which the gateway always starts. Beside it `QuorumSurvives` is false, since
  the ring race removes last copies; what is true beside it is `RowsCurrent`, `LossBlamed`, `LocatedIsGood` and `DownloadsWhole`.
- `SharedStay`, `NothingShared`, `ChunksDiffer`: files are named by content and not counted. A DELETE
  takes the file from every other object that has the chunk (`v_shared_delete`), and the visit of one row
  takes it from another row with the same hash, also of the same object. `SharedStay` excludes that such an object is deleted,
  `NothingShared` that two objects, and `ChunksDiffer` that two chunks have the same bytes. With
  the first two, an object may still repeat a chunk.
- `faults = 0`, in `LossBlamed` itself `faults' = 0`, and `MaxFaults = 0`: a call that timed out may run at any later time, and
  one late delete is enough to take a last copy otherwise. `LocatedIsGood` holds up to the first failure, of any kind, in every behaviour.
- `AllLocated`: every chunk of an acknowledged object has a location. Without the worker it is an invariant; the worker
  may remove the last location in the ring race.

*Types.* `TypeOK` is not inductive: the hash of a row is looked up in the body of
its object, so a row of a chunk the body does not have would be a call for
no hash. `TypeInv` adds `RowsInBody`: rows in the table and rows in the worker's hands
belong to the body.

*AckedComplete.* A 201 follows when every goroutine's chunk is `recorded`, which says
nothing of the table. `UploadInv` adds, per object: the object row is absent before
the handler wrote it and after that only `stored` or `deleted` (`RowWritten`); no chunk row
without object row (`NoStrayRows`); a recorded chunk has its row while the object
is stored (`RecordedRows`, this is where DELETE's cascade and the foreign key come in);
201 means all are recorded (`AckedRecorded`).

*ServiceSpec.* With the same invariant every step of ObjectStore maps to a step of
ObjectService or leaves it alone: rows are `Grow`, the failing statement that may have
committed is `Refuse`, the cascade is `Remove`, a crash `RefuseAll`.

*RowsCurrent.* `WorkerInv` says for which visit, phase and nodes the worker can be waiting, and that `obsolete` stays
within what the row named; the other actions only need: no new live call of the worker appears (`NoNewWaits`). `PassInv` adds that the rows of the pass, and
the row of the visit up to its first write, are as in the table (`RowsFresh`, `VisitFresh`), that no row of the pass is the
one being visited, and that what is left to clear is recorded. Nobody else disturbs it: an upload writes a chunk row once (`WrittenOnce`) and a
DELETE takes the object with it (`OthersLeaveRows`). No condition on failures or shared chunks is needed.

*QuorumSurvives.* The copies of a row are not all good: another goroutine of the upload, or a call that the gateway
gave up, may have truncated one. But a truncated or torn file is either being written by a call that is under way, and then
counts as intact, or a failure broke it. `CopiesInv` says so of the three sets of nodes through which
a quorum passes: those that answered a goroutine, those it kept, and those of the row (`ChunkCopies`). `FewLost` bounds
the copies such a set has lost by `faults`; that all calls for the hash are saves (`OnlySaves`) is where
`SharedStay` comes in. `PartsSurvive` is the same argument for success lists, part rows and what Completes copied.

*DownloadWhole.* `ReadsWhole` says of a GET that what it sent and what it has still to send is the whole
object, the former before the latter, unless it was cut or the object is deleted; that an acknowledged object is not acknowledged anew is `AckedForGood`.

*LocatedIsGood, LossBlamed.* While nothing fails no call outlives its caller. `FaultlessInv` says which calls there may be for a file at
each stage of its chunk (`CallsOfStage`), that a save is never aimed at a location and
a finished one has left a good file (`SavesElsewhere`), that a location is good or just being deleted
(`LocationsGood`), and that what the worker has read of the table is still true of every object that is not deleted
(`RowsFresh`, `RowFresh`). `Orderly` has at most one save of a file
under way on each node. From this and `WorkerInv`, an intact copy goes only by a delete of the worker. A step after which nothing has failed is a step before
which nothing had (`StillFaultless`).

*HashRing.* `KeysInv` says that keys are in order, that the map names members or nobody, and, without collisions, that
keys are exactly the members' keys and each belongs to its member. `Numbering` and `SortedKeys` say what `Sorted` and
`Nth` pick out. `SelectNearest` is the loop of `GetNodes`: over keys in order, it returns the owners sorted by how far
their first key is from the hash. From it follow `NearestFirst` (the first key of a member is its `Distance`),
and `MinimalMove`: a join or a leave changes no distance but one, and one more or
one less in an order moves one place.

*Membership.* The types are inductive; they say that neither late writes of health checks nor the two sources of `SyncLoop`
put an address into the ring that is not a node.

*Multipart.* Neither property is inductive: a commit relies on what its earlier
statements read. `MultipartInv` adds the life of the upload row (`SessionInv`: while it is
there every acknowledged part has its row, and no object exists), that part rows have
locations (`PartInv`, from the quorum test: a quorum is not empty), and what each
transaction has read so far (`CompleteInv`: all that was promised and counted, or
nothing because the upload is gone). The first commit finds the session open and
hence everything; a later one finds everything or nothing.

*Replicated node set.* `FsmIsLog` is inductive with the types. The lemmas behind it are about the log: appending changes
no prefix (`MembersPrefix`), one more command is one `ApplyCommand` (`MembersStep`). It holds for joins and leaves, though the
code sends no leaves. `RaftInv` adds `OnlyJoins` (what the code sends) and `Behind` (no snapshot
is ahead of its replica); from them a longer log has more members (`LogMembersGrow`), hence `JoinedInLog` is kept,
and a step of `/state`'s node is `Grow`, `Stop` or `Restart` of ClusterState.

*Breaker.* Both critical sections are atomic, so `ClosedIffFew` is inductive with the types. For `ShutAfterFailure` a half-open breaker with
the threshold counted has an old last failure (`QuietHalf`): a failure in that state, of the test call or of a late one, opens it again.

Model-checked only: `DownloadEnds`, `UploadEnds`, `DeleteEnds`, `Repaired`, `PassEnds`, `Recovers`, `StateConverges`, `JoinEnds`,
`RingConverges` and `HealthConverges`, which depend on fairness and so are out of the prover's reach. Every other
property of a passing run is a theorem above.

## Not modelled

- The composition of Membership and ObjectStore: ObjectStore takes any sequence of memberships (`Views`), which is more
  than Membership produces.
- Two requests that send the *same* part at the same time, several upload sessions, DELETE and GET
  of the objects that Completes make (an object is an object, see ObjectHandler), and the size of an object
  beyond which parts it counts.
- hashicorp/raft, gRPC, PostgreSQL: libraries and services; only what their callers see.
- The client's connection cache (`getClient`): created once per address, no
  state that a property could tell apart.
- `List`: one query.
- Accounts: one statement each; the race of two registrations with the same email is decided by
  a UNIQUE constraint.
- Encryption, metrics, tracing, configuration, generated stubs, the web page, the load test.

## Plan

The order in which the modules were and will be written, the most important
behaviour first:

1. *Done.* Cluster, StorageNode, Metadata, RingManager, ObjectHandler, Rebalancer,
   ObjectStore with ObjectService; CircuitBreaker; the proofs above.
2. *Done.* Multipart on the same components, with its proofs. Left: an abstract specification
   (a session that becomes objects) for it to implement.
3. *Done.* HashRing; ClusterFSM, RaftCluster with ClusterState, and their proofs; Membership.
4. *Done.* Theorems for `LocatedIsGood`, `LossBlamed`, `QuorumSurvives`, `PartQuorumSurvives`, `DownloadWhole`, HashRing and
   Membership's types. `RowsCurrent` and `ShutAfterFailure` after them. Left: what bounds the losses of late deletes; that RingManager's `Rank` is HashRing's `Distance`, as a
   refinement; an invariant for `LocatedIsGood` when chunks repeat and no visit meets the other row.
5. Accounts (the race of two registrations) and `getClient`, should they get state that a property can tell apart.
