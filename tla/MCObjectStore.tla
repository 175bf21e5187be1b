--------------------------- MODULE MCObjectStore ---------------------------
(***************************************************************************)
(* Small deployments on which TLC checks ObjectStore.                      *)
(***************************************************************************)
EXTENDS ObjectStore

CONSTANTS n1, n2, n3, h1, h2, o1, o2, r1

\* Clockwise from h1 the ring meets n3, n2, n1; from h2 the other way
\* round.  When n3 joins it takes the first place for h1.
Clockwise(seq) == [n \in Nodes |-> CHOOSE k \in DOMAIN seq : seq[k] = n]
MCRank == [h \in Hashes |-> IF h = h1 THEN Clockwise(<<n3, n2, n1>>)
                                      ELSE Clockwise(<<n1, n2, n3>>)]

OneChunk == [o \in Objects |-> IF o = o1 THEN <<h1>> ELSE <<h2>>]
TwoChunks == [o \in Objects |-> <<h1, h2>>]
RepeatedChunk == [o \in Objects |-> <<h1, h1>>]
SameChunk == [o \in Objects |-> <<h1>>]

AnyFault == {"node", "call", "disk", "read", "gateway", "database"}
ReaderFaults == AnyFault \ {"call", "disk"}

AllNodes == {Nodes}
Pairs == {{n1}, {n1, n2}}
Growing == {{n1, n2}, Nodes}
=============================================================================
