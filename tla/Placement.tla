----------------------------- MODULE Placement -----------------------------
(***************************************************************************)
(* What consistent hashing promises (pkg/ring): a chunk belongs to the     *)
(* first nodes met clockwise from its hash.                                *)
(***************************************************************************)
EXTENDS Naturals, FiniteSets

\* The first k of the nodes in S, when rank orders the nodes as they are met.
Nearer(S, rank, n) == {m \in S : rank[m] < rank[n]}
FirstClockwise(S, rank, k) == {n \in S : Cardinality(Nearer(S, rank, n)) < k}
=============================================================================
