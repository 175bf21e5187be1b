--------------------------- MODULE MCMembership ----------------------------
(***************************************************************************)
(* Small clusters on which TLC checks Membership.                          *)
(***************************************************************************)
EXTENDS Membership

CONSTANTS s, a, h1, o1

AnyFault == {"node", "call", "gateway", "database"}

\* Where hashes lie on the ring plays no role here.
AnyRank == [h \in Hashes |-> [n \in Nodes |-> IF n = s THEN 0 ELSE 1]]
=============================================================================
