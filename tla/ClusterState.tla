---------------------------- MODULE ClusterState ---------------------------
(***************************************************************************)
(* What the gateway can rely on when it asks one node for the members of   *)
(* the cluster (GET /state): while that node runs, its list only grows;    *)
(* when it starts again the list may be any part of what it was.           *)
(***************************************************************************)
CONSTANTS Nodes

VARIABLES
    answers,    \* the node that is asked is running
    view        \* the list it answers with

vars == <<answers, view>>

Init == answers = FALSE /\ view = {}

Grow ==
    /\ answers /\ answers' = answers
    /\ view' \in {V \in SUBSET Nodes : view \subseteq V}

Stop ==
    /\ answers /\ answers' = FALSE
    /\ UNCHANGED view

Restart ==
    /\ ~answers /\ answers' = TRUE
    /\ view' \in SUBSET view

Next == Grow \/ Stop \/ Restart

Spec == Init /\ [][Next]_vars
=============================================================================
