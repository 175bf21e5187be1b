---------------------------- MODULE MCMultipart ----------------------------
(***************************************************************************)
(* Multipart uploads of two parts.                                         *)
(***************************************************************************)
EXTENDS Multipart

CONSTANTS n1, n2, h1, o1, o2

\* From h1 the ring meets n2 first.
MCRank == [h \in Hashes |-> [n \in Nodes |-> IF n = n2 THEN 1 ELSE 2]]

\* Both parts have the same bytes, and so the same files.
EqualParts == [i \in AllParts |-> h1]

AnyFault == {"node", "call", "disk", "gateway", "database"}
AllNodes == {Nodes}
=============================================================================
