----------------------------- MODULE Membership ----------------------------
(***************************************************************************)
(* Where SyncLoop gets the members of the ring from: the /state of one     *)
(* storage node, or, when that does not answer, the nodes table, in which  *)
(* nodes register themselves and which the health checker keeps up to      *)
(* date.  What /state may answer is ClusterState.                          *)
(***************************************************************************)
EXTENDS RingManager

CONSTANTS
    Seed,       \* the node whose /state is asked (localhost:29001)
    Joiners     \* nodes that were started with RAFT_PEERS

ASSUME MembershipAssumption == Seed \in Nodes /\ Joiners \subseteq Nodes

VARIABLES
    proc,       \* proc[n]: "down", "starting" (Raft API up) or "serving" (gRPC too)
    view,       \* the node list in the FSM of Seed
    table,      \* table[n]: "absent", "active" or "inactive" in nodes
    check,      \* check[n]: what the health goroutines of n are going to write
    tripped,    \* tripped[n]: the gateway's breaker of n refuses calls
    faults

memberVars == <<proc, view, table, check, tripped, faults>>
vars == <<ringVars, memberVars>>

State == INSTANCE ClusterState WITH answers <- proc[Seed] # "down"

\* What nodes.is_active may say.
Statuses == {"active", "inactive"}

TypeOK ==
    /\ RingTypeOK
    /\ proc \in [Nodes -> {"down", "starting", "serving"}]
    /\ view \in SUBSET Nodes
    /\ table \in [Nodes -> Statuses \cup {"absent"}]
    /\ check \in [Nodes -> SUBSET Statuses]
    /\ tripped \in [Nodes -> BOOLEAN]
    /\ faults \in 0..MaxFaults

Init ==
    /\ RingInit
    /\ proc = [n \in Nodes |-> "down"]
    /\ view = {}
    /\ table = [n \in Nodes |-> "absent"]
    /\ check = [n \in Nodes |-> {}]
    /\ tripped = [n \in Nodes |-> FALSE]
    /\ faults = 0

Fault(kind) ==
    /\ kind \in FaultKinds /\ faults < MaxFaults
    /\ faults' = faults + 1
-----------------------------------------------------------------------------
(* Storage nodes.                                                          *)

Start(n) ==
    /\ proc[n] = "down"
    /\ proc' = [proc EXCEPT ![n] = "starting"]
    /\ IF n = Seed THEN State!Restart ELSE UNCHANGED view
    /\ UNCHANGED <<ringVars, table, check, tripped, faults>>

\* INSERT INTO nodes ... ON CONFLICT DO UPDATE SET is_active = TRUE
RegisterNode(n) ==
    \/ table' = [table EXCEPT ![n] = "active"] /\ UNCHANGED faults
    \/ Fault("database") /\ UNCHANGED table

\* registerWithGateway is called once and its failure only logged; then Serve.
Register(n) ==
    /\ proc[n] = "starting"
    /\ proc' = [proc EXCEPT ![n] = "serving"]
    /\ \/ RegisterNode(n)
       \/ (Fault("call") \/ Fault("gateway")) /\ UNCHANGED table
    /\ UNCHANGED <<ringVars, view, check, tripped>>

Crash(n) ==
    /\ proc[n] # "down" /\ Fault("node")
    /\ proc' = [proc EXCEPT ![n] = "down"]
    /\ UNCHANGED <<ringVars, view, table, check, tripped>>

\* Seed announces itself, others join its cluster, and Seed hears of it.
ViewGrows ==
    /\ UNCHANGED <<ringVars, proc, table, check, tripped, faults>>
    /\ State!Grow /\ view' # view /\ view' \subseteq Joiners \cup {Seed}
-----------------------------------------------------------------------------
(* The health checker.                                                     *)

Active == {n \in Nodes : table[n] = "active"}

\* Seeded fault: only active nodes are listed.
ActiveRows == Active

Rows == {n \in Nodes : table[n] # "absent"}

\* GetAllNodes does not look at rows.Err(): its list may be cut short.
GetAllNodes(S) ==
    \/ S = Rows /\ UNCHANGED faults
    \/ S \in SUBSET Rows \ {Rows} /\ Fault("database")

\* A round of the checker starts a goroutine for every row, whether or not the
\* goroutines of earlier rounds are done.  Nothing can tell when that happened,
\* so a goroutine appears with what its Health call saw; two of one node that
\* saw the same count as one.
Health(n, status) ==
    /\ n \in Rows
    /\ check' = [check EXCEPT ![n] = @ \cup {status}]
    /\ UNCHANGED <<ringVars, proc, view, table>>

HealthOK(n) ==
    /\ proc[n] = "serving" /\ ~tripped[n]
    /\ Health(n, "active")
    /\ UNCHANGED <<tripped, faults>>

\* The breaker of the node may refuse the call, or be tripped by its failure.  A
\* node that is still starting keeps it until the timeout.
HealthFails(n) ==
    /\ IF proc[n] = "serving" /\ ~tripped[n] THEN Fault("call") ELSE UNCHANGED faults
    /\ tripped' \in {tripped, [tripped EXCEPT ![n] = TRUE]}
    /\ Health(n, "inactive")

\* Seeded fault: false arrives as NULL.
UpdateNull(n, status) ==
    /\ status \in check[n]
    /\ check' = [check EXCEPT ![n] = @ \ {status}]
    /\ table' = [table EXCEPT ![n] = IF status = "active" THEN status ELSE "null"]
    /\ UNCHANGED <<ringVars, proc, view, tripped, faults>>

\* UpdateNodeStatus writes what the ping saw; its error is not looked at.
UpdateNodeStatus(n, status) ==
    /\ status \in check[n]
    /\ check' = [check EXCEPT ![n] = @ \ {status}]
    /\ \/ table' = [table EXCEPT ![n] = status] /\ UNCHANGED faults
       \/ Fault("database") /\ UNCHANGED table
    /\ UNCHANGED <<ringVars, proc, view, tripped>>

\* The breaker of a node counts all calls of the gateway.  Three that ended
\* badly trip it, and a node in the best of health answers some with an error:
\* a chunk it does not have, a request whose client is gone.
BreakerTrips(n) ==
    /\ ~tripped[n]
    /\ tripped' = [tripped EXCEPT ![n] = TRUE]
    /\ UNCHANGED <<ringVars, proc, view, table, check, faults>>

\* The 30 seconds of an open breaker are over, or a call that began before it
\* tripped ends well.
BreakerCloses(n) ==
    /\ tripped[n]
    /\ tripped' = [tripped EXCEPT ![n] = FALSE]
    /\ UNCHANGED <<ringVars, proc, view, table, check, faults>>
-----------------------------------------------------------------------------
(* SyncLoop.                                                               *)

\* Whatever /state answers is taken, an empty list too.
SyncFromRaft ==
    /\ proc[Seed] # "down"
    /\ Rebuild(view)
    /\ UNCHANGED <<syncs, memberVars>>

\* Seeded fault: is_active is not looked at.
SyncFromRows ==
    /\ proc[Seed] = "down" /\ Rebuild(Rows)
    /\ UNCHANGED <<syncs, memberVars>>

\* No answer within 5 seconds: the active rows.  If these cannot be read either
\* the round is over.
SyncFromTable ==
    /\ \/ /\ proc[Seed] = "down"
          /\ \E S \in SUBSET Nodes : GetAllNodes(S) /\ Rebuild(Active \cap S)
       \/ proc[Seed] # "down" /\ Fault("call") /\ Rebuild(Active)
    /\ UNCHANGED <<syncs, proc, view, table, check, tripped>>

Sync ==
    \/ SyncFromRaft \/ SyncFromTable
    \/ (SyncDone \/ \E n \in joining : SyncAdd(n)) /\ UNCHANGED memberVars

\* The gateway process dies and starts again.
GatewayCrash ==
    /\ Fault("gateway")
    /\ RingRestart
    /\ check' = [n \in Nodes |-> {}]
    /\ tripped' = [n \in Nodes |-> FALSE]
    /\ UNCHANGED <<proc, view, table>>
-----------------------------------------------------------------------------
HealthChecked(n) == HealthOK(n) \/ HealthFails(n)

Next ==
    \/ \E n \in Nodes : \/ Start(n) \/ Register(n) \/ Crash(n)
                        \/ HealthChecked(n)
                        \/ BreakerTrips(n) \/ BreakerCloses(n)
                        \/ \E status \in Statuses : UpdateNodeStatus(n, status)
    \/ ViewGrows \/ Sync \/ GatewayCrash

Spec == Init /\ [][Next]_vars

\* The goroutines of running processes go on; nobody has to start a node.
FairSpec ==
    /\ Spec
    /\ \A n \in Nodes :
          /\ WF_vars(Register(n)) /\ WF_vars(HealthChecked(n)) /\ WF_vars(BreakerCloses(n))
          /\ \A status \in Statuses : WF_vars(UpdateNodeStatus(n, status))
    /\ WF_vars(Sync)
-----------------------------------------------------------------------------
\* The node serves and the other calls of the gateway leave its breaker alone.
Sound(n) == proc[n] = "serving" /\ ~tripped[n]

\* ring_manager.go:36-84: while Seed stays up the ring comes to the list /state
\* gives, nodes of it that are long dead included; while Seed stays down, to the
\* registered nodes that serve, if the breakers of these stay closed.
RingConverges ==
    /\ <>[](proc[Seed] # "down") => <>[](~syncing => ring = view)
    /\ <>[](proc[Seed] = "down" /\ \A n \in Nodes : proc[n] = "serving" => Sound(n)) =>
          <>[](~syncing => ring = {n \in Rows : proc[n] = "serving"})

\* health_checker.go:24-25: goroutines write what they saw some time ago, over
\* what registrations wrote since; later rounds put it right, for a node that
\* serves only while its breaker stays closed.
HealthConverges ==
    \A n \in Nodes : /\ <>[]Sound(n) => <>[](table[n] # "inactive")
                     /\ <>[](proc[n] = "down") => <>[](table[n] # "active")

\* README.md:166, "Each storage node automatically registers itself with the
\* Gateway on startup.  The Gateway's Hash Ring will update within 10 seconds."
RegisteredInRing ==
    \A n \in Nodes \ {Seed} : table[n] = "active" ~> (n \in ring \/ proc[n] = "down")
=============================================================================
