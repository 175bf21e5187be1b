----------------------------- MODULE HashRing ------------------------------
(***************************************************************************)
(* The consistent hashing ring of virtual nodes: pkg/ring/ring.go.         *)
(*                                                                         *)
(* The hash function is any function: place[n][i] is the key of virtual    *)
(* node i of n, fixed in the initial state, and two virtual nodes may      *)
(* share a key.  keys holds one entry per virtual node, the map ring one   *)
(* per key, so on a collision they disagree.                               *)
(***************************************************************************)
EXTENDS Placement, SequencesExt

CONSTANTS
    Nodes,      \* addresses of storage nodes
    VNodes,     \* h.vNodes: virtual nodes of a node
    Keys,       \* number of different hashes (2^32 in the code)
    Places,     \* assignments of keys to virtual nodes
    MaxKeys,    \* bound on the length of h.keys
    NoNode      \* what the map holds for an absent key: ""

ASSUME HashRingAssumption ==
    /\ IsFiniteSet(Nodes) /\ NoNode \notin Nodes
    /\ VNodes \in Nat \ {0} /\ Keys \in Nat \ {0} /\ MaxKeys \in Nat
    /\ Places \subseteq [Nodes -> [1..VNodes -> 0..(Keys - 1)]]

Positions == 0..(Keys - 1)

VARIABLES
    place,      \* place[n][i] = hashKey("n-i")
    keys,       \* h.keys
    ring,       \* h.ring
    nodesMap    \* h.nodesMap

vars == <<place, keys, ring, nodesMap>>

TypeOK ==
    /\ place \in Places
    /\ ToSet(keys) \subseteq Positions /\ \A i \in 2..Len(keys) : keys[i - 1] <= keys[i]
    /\ ring \in [Positions -> Nodes \cup {NoNode}]
    /\ nodesMap \in SUBSET Nodes

\* New(vNodes)
Init ==
    /\ place \in Places
    /\ keys = <<>>
    /\ ring = [p \in Positions |-> NoNode]
    /\ nodesMap = {}

\* Seeded fault: keys appended without sorting.
Unsorted(s) == s

\* The k-th smallest number of S.
Below(S, i) == {j \in S : j < i}
Nth(S, k) == CHOOSE i \in S : Cardinality(Below(S, i)) = k - 1

\* The entries of s that end up before the one at i: the smaller ones and, of
\* equal ones, those that were before it.
Earlier(s, i) == {j \in DOMAIN s : s[j] < s[i] \/ (s[j] = s[i] /\ j < i)}

\* sort.Slice(h.keys, ...)
Sorted(s) ==
    [k \in DOMAIN s |-> s[CHOOSE i \in DOMAIN s : Cardinality(Earlier(s, i)) = k - 1]]

\* A key that was taken already is overwritten in the map.
AddNode(n) ==
    /\ n \notin nodesMap /\ Len(keys) + VNodes <= MaxKeys
    /\ nodesMap' = nodesMap \cup {n}
    /\ keys' = Sorted(keys \o place[n])
    /\ ring' = [p \in Positions |-> IF p \in ToSet(place[n]) THEN n ELSE ring[p]]
    /\ UNCHANGED place

\* Seeded fault: the map entries go, the keys stay.
RemoveLeavesKeys(n) ==
    /\ n \in nodesMap
    /\ nodesMap' = nodesMap \ {n}
    /\ ring' = [p \in Positions |-> IF ring[p] = n THEN NoNode ELSE ring[p]]
    /\ UNCHANGED <<place, keys>>

\* The entries of h.keys are dropped for which the map names n.  The map entry
\* goes with the first of several equal keys, so the others stay.
RemoveNode(n) ==
    /\ n \in nodesMap
    /\ nodesMap' = nodesMap \ {n}
    /\ LET Dropped(i) == ring[keys[i]] = n /\ \A j \in 1..(i - 1) : keys[j] # keys[i]
           newKeys == {i \in DOMAIN keys : ~Dropped(i)}
       IN  keys' = [k \in 1..Cardinality(newKeys) |-> keys[Nth(newKeys, k)]]
    /\ ring' = [p \in Positions |-> IF ring[p] = n THEN NoNode ELSE ring[p]]
    /\ UNCHANGED place

Next == \E n \in Nodes : AddNode(n) \/ RemoveNode(n)

Spec == Init /\ [][Next]_vars
-----------------------------------------------------------------------------
\* Seeded fault: a chunk whose hash is the key of a virtual node is passed on.
StartAfter(ks, h) ==
    LET found == {i \in DOMAIN ks : ks[i] > h} IN IF found = {} THEN 1 ELSE Min(found)

\* Seeded fault: the entry is chosen by the hash modulo the number of entries.
StartModulo(ks, h) == IF ks = <<>> THEN 1 ELSE (h % Len(ks)) + 1

\* sort.Search for the first key not below h; past the last it wraps round.
StartIndex(ks, h) ==
    LET found == {i \in DOMAIN ks : ks[i] >= h} IN IF found = {} THEN 1 ELSE Min(found)

\* The loop over all keys from there on: nodes not seen before are selected,
\* until there are count of them.
Select(ks, nodeOf, h, count) ==
    LET idx == StartIndex(ks, h)
        met == [i \in DOMAIN ks |-> nodeOf[ks[((idx + i - 2) % Len(ks)) + 1]]]
        fresh == {i \in DOMAIN ks : \A j \in 1..(i - 1) : met[j] # met[i]}
    IN  [k \in 1..Min({count, Cardinality(fresh)}) |-> met[Nth(fresh, k)]]

GetNodes(h, count) == IF nodesMap = {} THEN <<>> ELSE Select(keys, ring, h, count)
-----------------------------------------------------------------------------
NoCollision ==
    \A m, n \in Nodes : \A i, j \in 1..VNodes :
        place[m][i] = place[n][j] => m = n /\ i = j

\* How far it is clockwise from h to the nearest virtual node of n.
Distance(h) == [n \in Nodes |-> Min({(place[n][i] + Keys - h) % Keys : i \in 1..VNodes})]

\* ring.go:84, "returns 'count' distinct nodes for the given chunk hash": as
\* long as no two virtual nodes share a key, GetNodes gives the nearest
\* members clockwise, nearest first, whatever was added and removed before.
NearestFirst ==
    NoCollision => \A h \in Positions, count \in 1..Cardinality(Nodes) :
        LET nodes == GetNodes(h, count)
        IN  /\ ToSet(nodes) = FirstClockwise(nodesMap, Distance(h), count)
            /\ Len(nodes) = Min({count, Cardinality(nodesMap)})
            /\ \A i, j \in DOMAIN nodes : i < j => Distance(h)[nodes[i]] < Distance(h)[nodes[j]]

\* Also when keys collide, a chunk is never placed on a node that is not a
\* member, nor twice on one.  (RemoveNode after a collision may leave a key
\* without a node, and GetNodes then returns NoNode; see README.)
OnlyMembers ==
    \A h \in Positions :
        LET nodes == GetNodes(h, Cardinality(Nodes))
        IN  /\ IsInjective(nodes)
            /\ ToSet(nodes) \subseteq nodesMap \cup {NoNode}
            /\ NoNode \in ToSet(nodes) => ~NoCollision

\* learning.md:561, "Adding or removing a node only moves ~1/N of all chunks":
\* a node that joins takes chunks over and moves none between the others, and
\* one that leaves gives only its own away.  Only where they share no key with
\* another: one that takes the nearest keys of two nodes makes them one, and
\* the next node, which is neither, is placed on too.
MoveStep ==
    \A ks \in {keys'}, nodeOf \in {ring'}, h \in Positions, count \in 1..Cardinality(Nodes) :
        LET old == ToSet(Select(keys, ring, h, count))
            new == ToSet(Select(ks, nodeOf, h, count))
        IN  /\ \A n \in nodesMap' \ nodesMap :
                  ToSet(place[n]) \cap ToSet(keys) = {} => new \ old \subseteq {n}
            /\ \A n \in nodesMap \ nodesMap' :
                  (\A i, j \in DOMAIN keys : keys[i] = keys[j] /\ i # j => ring[keys[i]] # n)
                    => old \ new \subseteq {n}

MinimalMove == [][MoveStep]_vars
=============================================================================
