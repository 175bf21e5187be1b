-------------------------- MODULE HashRingProofs ---------------------------
(***************************************************************************)
(* Proofs about HashRing for any nodes, virtual nodes and assignment of    *)
(* keys: the loop of GetNodes over the sorted keys finds the owners that   *)
(* are first met clockwise, AddNode and RemoveNode keep the keys in order, *)
(* and a change of the members moves no chunk between the others.          *)
(***************************************************************************)
EXTENDS HashRing, FiniteSetTheorems, TLAPS

\* Counting what comes before an element numbers a finite set through: if the
\* sets B[x] of what is before x order S, they have 0, 1, ... elements.
LEMMA Numbering ==
    ASSUME NEW S, IsFiniteSet(S), NEW B \in [S -> SUBSET S],
           \A x \in S : x \notin B[x],
           \A x, y \in S : x = y \/ x \in B[y] \/ y \in B[x],
           \A x \in S : \A y \in B[x] : B[y] \subseteq B[x]
    PROVE  /\ \A x \in S : Cardinality(B[x]) \in 0..(Cardinality(S) - 1)
           /\ \A x, y \in S : x \in B[y] <=> Cardinality(B[x]) < Cardinality(B[y])
           /\ \A x, y \in S : Cardinality(B[x]) = Cardinality(B[y]) => x = y
           /\ \A k \in 1..Cardinality(S) : \E x \in S : Cardinality(B[x]) = k - 1
<1>0. /\ Cardinality(S) \in Nat
      /\ \A x \in S : IsFiniteSet(B[x]) /\ Cardinality(B[x]) \in Nat
  <2>1. ASSUME NEW x \in S PROVE IsFiniteSet(B[x])
    BY FS_Subset
  <2> QED BY <2>1, FS_CardinalityType
<1>1. ASSUME NEW x \in S PROVE Cardinality(B[x]) < Cardinality(S)
  <2>1. B[x] \in SUBSET S /\ B[x] # S
    OBVIOUS
  <2>2. Cardinality(B[x]) <= Cardinality(S) /\ (Cardinality(S) = Cardinality(B[x]) => S = B[x])
    BY <2>1, FS_Subset
  <2> QED BY <1>0, <2>1, <2>2
<1>2. ASSUME NEW x \in S, NEW y \in S, x \in B[y]
      PROVE  Cardinality(B[x]) < Cardinality(B[y])
  <2>1. B[x] \in SUBSET B[y] /\ B[x] # B[y]
    BY <1>2
  <2>2. /\ Cardinality(B[x]) <= Cardinality(B[y])
        /\ Cardinality(B[y]) = Cardinality(B[x]) => B[y] = B[x]
    BY <1>0, <2>1, FS_Subset
  <2> QED BY <1>0, <2>1, <2>2
<1>3. \A x, y \in S : x \in B[y] <=> Cardinality(B[x]) < Cardinality(B[y])
  BY <1>0, <1>2
<1>4. \A x, y \in S : Cardinality(B[x]) = Cardinality(B[y]) => x = y
  BY <1>0, <1>2
<1>5. ASSUME NEW k \in 1..Cardinality(S) PROVE \E x \in S : Cardinality(B[x]) = k - 1
  <2> DEFINE T == 1..Cardinality(S)
             f == [x \in S |-> Cardinality(B[x]) + 1]
  <2>1. f \in [S -> T]
    BY <1>0, <1>1
  <2>2. f \in Injection(S, T)
    <3>1. \A x, y \in S : f[x] = f[y] => x = y
      BY <1>0, <1>4
    <3> QED BY <2>1, <3>1 DEF Injection, IsInjective
  <2>3. IsFiniteSet(T) /\ Cardinality(T) = Cardinality(S)
    BY <1>0, FS_Interval
  <2>4. f \in Surjection(S, T)
    <3> HIDE DEF f, T
    <3> QED BY <2>2, <2>3, FS_Injection
  <2>5. \E x \in S : f[x] = k
    BY <2>4 DEF Surjection
  <2> QED BY <1>0, <2>5
<1> QED BY <1>0, <1>1, <1>3, <1>4, <1>5

\* The list of the elements of a set in that order.
Listed(S, B) ==
    [k \in 1..Cardinality(S) |-> CHOOSE x \in S : Cardinality(B[x]) = k - 1]

LEMMA Listing ==
    ASSUME NEW S, IsFiniteSet(S), NEW B \in [S -> SUBSET S],
           \A x \in S : x \notin B[x],
           \A x, y \in S : x = y \/ x \in B[y] \/ y \in B[x],
           \A x \in S : \A y \in B[x] : B[y] \subseteq B[x],
           NEW N, N = Cardinality(S)
    PROVE  /\ N \in Nat /\ Listed(S, B) \in [1..N -> S]
           /\ \A k \in 1..N : Cardinality(B[Listed(S, B)[k]]) = k - 1
           /\ \A x \in S : \E k \in 1..N : Listed(S, B)[k] = x
           /\ \A k, l \in 1..N : k < l <=> Listed(S, B)[k] \in B[Listed(S, B)[l]]
<1>1. /\ \A x \in S : Cardinality(B[x]) \in 0..(N - 1)
      /\ \A x, y \in S : x \in B[y] <=> Cardinality(B[x]) < Cardinality(B[y])
      /\ \A x, y \in S : Cardinality(B[x]) = Cardinality(B[y]) => x = y
      /\ \A k \in 1..N : \E x \in S : Cardinality(B[x]) = k - 1
  BY Numbering
<1>2. N \in Nat
  BY FS_CardinalityType
<1> DEFINE e == Listed(S, B)
<1>3. \A k \in 1..N : e[k] \in S /\ Cardinality(B[e[k]]) = k - 1
  BY <1>1 DEF Listed
<1>4. e \in [1..N -> S]
  BY <1>3 DEF Listed
<1> HIDE DEF e
<1>5. \A x \in S : Cardinality(B[x]) + 1 \in 1..N
  BY <1>1, <1>2
<1>6. ASSUME NEW x \in S PROVE \E k \in 1..N : e[k] = x
  <2> DEFINE c == Cardinality(B[x])
  <2>1. c \in Nat /\ c + 1 \in 1..N
    BY <1>1, <1>2, <1>5
  <2>2. e[c + 1] \in S /\ Cardinality(B[e[c + 1]]) = c
    BY <1>3, <2>1
  <2> QED BY <1>1, <2>1, <2>2
<1>7. \A k, l \in 1..N : k < l <=> e[k] \in B[e[l]]
  <2> SUFFICES ASSUME NEW k \in 1..N, NEW l \in 1..N PROVE k < l <=> e[k] \in B[e[l]]
    OBVIOUS
  <2>1. Cardinality(B[e[k]]) = k - 1 /\ Cardinality(B[e[l]]) = l - 1
    BY <1>3
  <2> QED BY <1>1, <1>3, <2>1
<1> QED BY <1>2, <1>3, <1>4, <1>5, <1>6, <1>7 DEF e

\* Nth lists numbers from the smallest on.
LEMMA NthOf ==
    ASSUME NEW S, \A i \in S : i \in Nat, IsFiniteSet(S), NEW N, N = Cardinality(S)
    PROVE  /\ N \in Nat
           /\ \A k \in 1..N : Nth(S, k) \in S /\ Cardinality(Below(S, Nth(S, k))) = k - 1
           /\ \A i \in S : \E k \in 1..N : Nth(S, k) = i
           /\ \A k, l \in 1..N : k < l <=> Nth(S, k) < Nth(S, l)
<1> DEFINE B == [i \in S |-> Below(S, i)]
           e == Listed(S, B)
<1>1. \A i \in S : B[i] = Below(S, i)
  OBVIOUS
<1>2. \A x, y \in S : x \in B[y] <=> x < y
  BY DEF Below
<1>3. B \in [S -> SUBSET S]
  BY DEF Below
<1> HIDE DEF B
<1>4. \A x \in S : x \in Int
  OBVIOUS
<1>5. /\ \A x \in S : x \notin B[x]
      /\ \A x, y \in S : x = y \/ x \in B[y] \/ y \in B[x]
  BY <1>2, <1>4
<1>6. \A x \in S : \A y \in B[x] : B[y] \subseteq B[x]
  <2> SUFFICES ASSUME NEW x \in S, NEW y \in B[x], NEW z \in B[y] PROVE z \in B[x]
    OBVIOUS
  <2>1. y \in S /\ z \in S
    BY <1>3
  <2> QED BY <1>2, <1>4, <2>1
<1>a. N \in Nat /\ e \in [1..N -> S]
  BY <1>3, <1>5, <1>6, Listing
<1>b. \A k \in 1..N : Cardinality(B[e[k]]) = k - 1
  <2>1. \A k \in 1..N : \E x \in S : Cardinality(B[x]) = k - 1
    BY <1>3, <1>5, <1>6, Numbering
  <2>2. N = Cardinality(S)
    OBVIOUS
  <2> QED BY ONLY <2>1, <2>2 DEF Listed
<1>c. \A x \in S : \E k \in 1..N : e[k] = x
  BY <1>3, <1>5, <1>6, Listing
<1>7. \A k, l \in 1..N : k < l <=> e[k] \in B[e[l]]
  BY <1>3, <1>5, <1>6, Listing
<1>8. \A k \in 1..N : e[k] = Nth(S, k)
  BY <1>1 DEF Listed, Nth
<1> HIDE DEF e
<1>9. \A k \in 1..N : Nth(S, k) \in S /\ Cardinality(Below(S, Nth(S, k))) = k - 1
  BY <1>1, <1>a, <1>b, <1>8
<1>10. \A i \in S : \E k \in 1..N : Nth(S, k) = i
  BY <1>c, <1>8
<1>11. ASSUME NEW k \in 1..N, NEW l \in 1..N PROVE k < l <=> Nth(S, k) < Nth(S, l)
  <2>1. k < l <=> e[k] \in B[e[l]]
    BY <1>7
  <2>2. e[k] = Nth(S, k) /\ e[l] = Nth(S, l) /\ e[k] \in S /\ e[l] \in S
    BY <1>a, <1>8
  <2> QED BY <1>2, <2>1, <2>2
<1> QED BY <1>a, <1>9, <1>10, <1>11

\* In order, smallest first.
InOrder(s) == \A i, j \in DOMAIN s : i < j => s[i] <= s[j]

\* sort.Slice puts the entries in order and loses none.
LEMMA SortedKeys ==
    ASSUME NEW N \in Nat, NEW s \in [1..N -> Nat]
    PROVE  /\ Sorted(s) \in [1..N -> Nat]
           /\ InOrder(Sorted(s)) /\ ToSet(Sorted(s)) = ToSet(s)
           /\ IsInjective(s) => IsInjective(Sorted(s))
<1> DEFINE D == 1..N
<1>1. D = DOMAIN s /\ s \in [D -> Nat]
  OBVIOUS
<1>2. IsFiniteSet(D) /\ N = Cardinality(D)
  BY FS_Interval
<1>a. \A x \in D : s[x] \in Int /\ x \in Int
  OBVIOUS
<1> HIDE DEF D
<1> DEFINE B == [i \in D |-> Earlier(s, i)]
           e == Listed(D, B)
<1>3. \A x, y \in D : x \in B[y] <=> s[x] < s[y] \/ (s[x] = s[y] /\ x < y)
  BY <1>1 DEF Earlier
<1>4. B \in [D -> SUBSET D]
  BY <1>1 DEF Earlier
<1>5. \A i \in D : B[i] = Earlier(s, i)
  OBVIOUS
<1> HIDE DEF B
<1>7. /\ \A x \in D : x \notin B[x]
      /\ \A x, y \in D : x = y \/ x \in B[y] \/ y \in B[x]
  BY <1>3, <1>a
<1>8. \A x \in D : \A y \in B[x] : B[y] \subseteq B[x]
  <2> SUFFICES ASSUME NEW x \in D, NEW y \in B[x], NEW z \in B[y] PROVE z \in B[x]
    OBVIOUS
  <2>1. y \in D /\ z \in D
    BY <1>4
  <2> QED BY <1>3, <1>a, <2>1
<1>9. /\ e \in [1..N -> D]
      /\ \A x \in D : \E k \in 1..N : e[k] = x
      /\ \A k, l \in 1..N : k < l <=> e[k] \in B[e[l]]
  BY <1>2, <1>4, <1>7, <1>8, Listing
<1> HIDE DEF e
<1>b. /\ e \in [D -> D] /\ \A x \in D : \E k \in D : e[k] = x
      /\ \A k, l \in D : k < l <=> e[k] \in B[e[l]]
  BY <1>9 DEF D
<1>10. \A k \in D : e[k] = CHOOSE i \in D : Cardinality(Earlier(s, i)) = k - 1
  BY <1>2, <1>5 DEF Listed, D, e
<1> DEFINE r == Sorted(s)
<1>11. DOMAIN r = D /\ \A k \in D : r[k] = s[e[k]]
  <2>1. DOMAIN r = D
    BY <1>1 DEF Sorted
  <2>2. ASSUME NEW k \in D PROVE r[k] = s[e[k]]
    <3>1. r[k] = s[CHOOSE i \in D : Cardinality(Earlier(s, i)) = k - 1]
      BY <1>1 DEF Sorted
    <3> QED BY <1>10, <3>1
  <2> QED BY <2>1, <2>2
<1>12. r = [k \in D |-> r[k]]
  BY <1>1 DEF Sorted
<1> HIDE DEF r
<1>13. r \in [D -> Nat]
  <2>1. ASSUME NEW k \in D PROVE r[k] \in Nat
    <3>1. PICK x \in D : x = e[k]
      BY <1>b
    <3> QED BY <1>1, <1>11, <3>1
  <2> QED BY <1>12, <2>1
<1>14. InOrder(r)
  <2>1. ASSUME NEW k \in D, NEW l \in D, k < l PROVE r[k] <= r[l]
    <3>1. PICK x \in D, y \in D : x = e[k] /\ y = e[l]
      BY <1>b
    <3>2. x \in B[y] /\ r[k] = s[x] /\ r[l] = s[y]
      BY <1>b, <1>11, <2>1, <3>1
    <3> QED BY <1>3, <1>a, <3>2
  <2> QED BY <1>11, <2>1 DEF InOrder
<1>15. ASSUME NEW k \in D, NEW l \in D, e[k] = e[l] PROVE k = l
  <2>1. PICK x \in D : x = e[k] /\ x = e[l]
    BY <1>b, <1>15
  <2>2. ~(k < l) /\ ~(l < k)
    BY <1>7, <1>b, <2>1
  <2> QED BY <1>a, <2>2
<1>16. ToSet(r) = ToSet(s)
  <2>1. ASSUME NEW y, y \in ToSet(r) PROVE y \in ToSet(s)
    <3>1. PICK k \in D : y = r[k]
      BY <1>11, <2>1 DEF ToSet
    <3>2. PICK x \in D : x = e[k]
      BY <1>b
    <3> QED BY <1>1, <1>11, <3>1, <3>2 DEF ToSet
  <2>2. ASSUME NEW y, y \in ToSet(s) PROVE y \in ToSet(r)
    <3>1. PICK x \in D : y = s[x]
      BY <1>1, <2>2 DEF ToSet
    <3>2. PICK k \in D : x = e[k]
      BY <1>b
    <3> QED BY <1>11, <3>1, <3>2 DEF ToSet
  <2> QED BY <2>1, <2>2
<1>17. ASSUME IsInjective(s) PROVE IsInjective(r)
  <2>1. ASSUME NEW k \in D, NEW l \in D, r[k] = r[l] PROVE k = l
    <3>1. PICK x \in D, y \in D : x = e[k] /\ y = e[l]
      BY <1>b
    <3>2. s[x] = s[y]
      BY <1>11, <2>1, <3>1
    <3>3. x = y
      BY <1>1, <1>17, <3>2 DEF IsInjective
    <3> QED BY <1>15, <3>1, <3>3
  <2> QED BY <1>11, <2>1 DEF IsInjective
<1> QED BY <1>13, <1>14, <1>16, <1>17 DEF D, r

LEMMA MinOf ==
    ASSUME NEW S, \A i \in S : i \in Nat, IsFiniteSet(S), S # {}
    PROVE  Min(S) \in S /\ \A i \in S : Min(S) <= i
<1> DEFINE N == Cardinality(S)
           m == Nth(S, 1)
<1>1. /\ N \in Nat
      /\ \A k \in 1..N : Nth(S, k) \in S
      /\ \A i \in S : \E k \in 1..N : Nth(S, k) = i
      /\ \A k, l \in 1..N : k < l <=> Nth(S, k) < Nth(S, l)
  BY NthOf
<1> HIDE DEF N
<1>2. 1 \in 1..N
  <2>1. PICK i \in S : TRUE
    OBVIOUS
  <2>2. PICK k \in 1..N : Nth(S, k) = i
    BY <1>1
  <2> QED BY <1>1, <2>2
<1>3. m \in S
  BY <1>1, <1>2
<1>4. ASSUME NEW i \in S PROVE m <= i
  <2>1. PICK k \in 1..N : Nth(S, k) = i
    BY <1>1
  <2>2. CASE k = 1
    BY <1>3, <2>1, <2>2
  <2>3. CASE k # 1
    <3>1. 1 < k
      BY <1>1, <2>3
    <3>2. m < i
      BY <1>1, <1>2, <2>1, <3>1
    <3> QED BY <1>3, <3>2
  <2> QED BY <2>2, <2>3
<1> HIDE DEF m
<1> QED BY <1>3, <1>4 DEF Min

LEMMA MinPair ==
    ASSUME NEW a \in Nat, NEW b \in Nat
    PROVE  Min({a, b}) = IF a <= b THEN a ELSE b
<1> DEFINE S == {a, b}
<1>1. IsFiniteSet({a})
  BY FS_Singleton
<1>2. IsFiniteSet({a} \cup {b})
  BY <1>1, FS_AddElement
<1>3. {a, b} = {a} \cup {b}
  OBVIOUS
<1>4. IsFiniteSet(S) /\ S # {} /\ \A x \in S : x \in Nat
  BY <1>2, <1>3
<1>5. \A x : x \in S <=> x = a \/ x = b
  OBVIOUS
<1> HIDE DEF S
<1>6. Min(S) \in S /\ \A x \in S : Min(S) <= x
  BY <1>4, MinOf
<1> QED BY <1>5, <1>6 DEF S

\* RemoveNode keeps the order of the entries that stay.
LEMMA Picked ==
    ASSUME NEW N \in Nat, NEW s \in [1..N -> Nat], NEW S \in SUBSET (1..N),
           NEW M, M = Cardinality(S), NEW r, r = [k \in 1..M |-> s[Nth(S, k)]]
    PROVE  /\ M \in Nat /\ r \in [1..M -> Nat]
           /\ InOrder(s) => InOrder(r)
           /\ ToSet(r) = {s[i] : i \in S}
           /\ IsInjective(s) => IsInjective(r)
<1>1. IsFiniteSet(S) /\ \A i \in S : i \in Nat
  <2>1. IsFiniteSet(1..N)
    BY FS_Interval
  <2>2. IsFiniteSet(S)
    BY <2>1, FS_Subset
  <2> QED BY <2>2
<1>2. /\ M \in Nat
      /\ \A k \in 1..M : Nth(S, k) \in S
      /\ \A i \in S : \E k \in 1..M : Nth(S, k) = i
      /\ \A k, l \in 1..M : k < l <=> Nth(S, k) < Nth(S, l)
  BY <1>1, NthOf
<1>3. DOMAIN r = 1..M /\ \A k \in 1..M : r[k] = s[Nth(S, k)]
  OBVIOUS
<1>4. r \in [1..M -> Nat]
  BY <1>2
<1>5. ASSUME InOrder(s) PROVE InOrder(r)
  BY <1>2, <1>3, <1>5 DEF InOrder
<1>6. ToSet(r) = {s[i] : i \in S}
  <2>1. ASSUME NEW y, y \in ToSet(r) PROVE y \in {s[i] : i \in S}
    BY <1>2, <1>3, <2>1 DEF ToSet
  <2>2. ASSUME NEW i \in S PROVE s[i] \in ToSet(r)
    BY <1>2, <1>3 DEF ToSet
  <2> QED BY <2>1, <2>2
<1>7. ASSUME IsInjective(s) PROVE IsInjective(r)
  <2>1. ASSUME NEW k \in 1..M, NEW l \in 1..M, r[k] = r[l] PROVE k = l
    <3>1. Nth(S, k) = Nth(S, l)
      BY <1>2, <1>3, <1>7, <2>1 DEF IsInjective
    <3>2. ~(k < l) /\ ~(l < k)
      BY <1>1, <1>2, <3>1
    <3> QED BY <1>2, <3>2
  <2> QED BY <1>3, <2>1 DEF IsInjective
<1> QED BY <1>2, <1>4, <1>5, <1>6, <1>7
-----------------------------------------------------------------------------
(***************************************************************************)
(* The way clockwise.                                                      *)
(***************************************************************************)

\* How far it is clockwise from h to p.
Ahead(h, p) == (p + Keys - h) % Keys

LEMMA AheadOf ==
    \A h, p \in Positions :
        /\ Ahead(h, p) = IF p >= h THEN p - h ELSE p + Keys - h
        /\ Ahead(h, p) \in 0..(Keys - 1)
        /\ \A q \in Positions : Ahead(h, p) = Ahead(h, q) => p = q
<1>1. Keys \in Nat /\ Keys > 0
  BY HashRingAssumption
<1>2. \A x \in 0..(2 * Keys - 1) : x % Keys = IF x < Keys THEN x ELSE x - Keys
  BY <1>1, SMTT(30)
<1>3. \A h, p \in Positions : Ahead(h, p) = IF p >= h THEN p - h ELSE p + Keys - h
  <2> SUFFICES ASSUME NEW h \in Positions, NEW p \in Positions
               PROVE  Ahead(h, p) = IF p >= h THEN p - h ELSE p + Keys - h
    OBVIOUS
  <2> DEFINE x == p + Keys - h
  <2>1. x \in 0..(2 * Keys - 1) /\ h \in Int /\ p \in Int
    BY <1>1 DEF Positions
  <2>2. x % Keys = IF x < Keys THEN x ELSE x - Keys
    BY <1>2, <2>1
  <2>3. x < Keys <=> ~(p >= h)
    BY <1>1, <2>1
  <2>4. x - Keys = p - h
    BY <1>1, <2>1
  <2> QED BY <2>2, <2>3, <2>4 DEF Ahead
<1>4. \A h, p \in Positions : Ahead(h, p) \in 0..(Keys - 1)
  BY <1>1, <1>3 DEF Positions
<1>5. \A h, p, q \in Positions : Ahead(h, p) = Ahead(h, q) => p = q
  BY <1>1, <1>3 DEF Positions
<1> QED BY <1>3, <1>4, <1>5

\* The entry met i-th when the loop starts at idx.
Turn(N, idx, i) == ((idx + i - 2) % N) + 1

LEMMA TurnOf ==
    ASSUME NEW N \in Nat, N > 0, NEW idx \in 1..N
    PROVE  /\ \A i \in 1..N :
                /\ Turn(N, idx, i) = IF idx + i - 1 <= N THEN idx + i - 1 ELSE idx + i - 1 - N
                /\ Turn(N, idx, i) \in 1..N
           /\ \A j \in 1..N : \E i \in 1..N : Turn(N, idx, i) = j
<1>1. \A x \in 0..(2 * N - 1) : x % N = IF x < N THEN x ELSE x - N
  BY SMTT(30)
<1>2. ASSUME NEW i \in 1..N
      PROVE  Turn(N, idx, i) = IF idx + i - 1 <= N THEN idx + i - 1 ELSE idx + i - 1 - N
  <2> DEFINE x == idx + i - 2
  <2>1. x \in 0..(2 * N - 1)
    OBVIOUS
  <2>2. x % N = IF x < N THEN x ELSE x - N
    BY <1>1, <2>1
  <2>3. Turn(N, idx, i) = (x % N) + 1
    BY DEF Turn
  <2> HIDE DEF x
  <2>4. idx + i - 1 = x + 1
    BY DEF x
  <2>5. CASE x < N
    BY <2>1, <2>2, <2>3, <2>4, <2>5
  <2>6. CASE ~(x < N)
    BY <2>1, <2>2, <2>3, <2>4, <2>6
  <2> QED BY <2>5, <2>6
<1>3. \A i \in 1..N : Turn(N, idx, i) \in 1..N
  BY <1>2
<1>4. ASSUME NEW j \in 1..N PROVE \E i \in 1..N : Turn(N, idx, i) = j
  <2>1. CASE j >= idx
    <3>1. PICK i \in 1..N : i = j - idx + 1
      BY <2>1
    <3>2. idx + i - 1 = j
      BY <3>1
    <3>3. Turn(N, idx, i) = j
      BY <1>2, <3>2
    <3> QED BY <3>3
  <2>2. CASE j < idx
    <3>1. PICK i \in 1..N : i = j + N - idx + 1
      BY <2>2
    <3>2. idx + i - 1 = j + N
      BY <3>1
    <3>3. Turn(N, idx, i) = j
      BY <1>2, <3>2
    <3> QED BY <3>3
  <2> QED BY <2>1, <2>2
<1> QED BY <1>2, <1>3, <1>4

\* sort.Search: where the loop starts.
LEMMA StartOf ==
    ASSUME NEW N \in Nat, N > 0, NEW ks \in [1..N -> Positions], InOrder(ks),
           NEW h \in Positions
    PROVE  LET idx == StartIndex(ks, h)
           IN  /\ idx \in 1..N
               /\ \A j \in 1..N : j < idx => ks[j] < h
               /\ (\A j \in 1..N : ks[j] < h) \/ (\A j \in 1..N : idx <= j => h <= ks[j])
               /\ (\A j \in 1..N : ks[j] < h) => idx = 1
<1> DEFINE idx == StartIndex(ks, h)
           found == {i \in DOMAIN ks : ks[i] >= h}
<1>1. \A j \in 1..N : ks[j] \in Int /\ h \in Int
  BY DEF Positions
<1>2. \A i : i \in found <=> i \in 1..N /\ ks[i] >= h
  OBVIOUS
<1>3. idx = IF found = {} THEN 1 ELSE Min(found)
  BY DEF StartIndex
<1>4. IsFiniteSet(found) /\ \A i \in found : i \in Nat
  <2>1. IsFiniteSet(1..N)
    BY FS_Interval
  <2>2. found \subseteq 1..N
    OBVIOUS
  <2> QED BY <1>2, <2>1, <2>2, FS_Subset
<1> HIDE DEF found, idx
<1>5. CASE found = {}
  BY <1>1, <1>2, <1>3, <1>5 DEF idx
<1>6. CASE found # {}
  <2>1. idx \in found /\ \A i \in found : idx <= i
    BY <1>3, <1>4, <1>6, MinOf
  <2>2. idx \in 1..N /\ ks[idx] >= h
    BY <1>2, <2>1
  <2>3. \A j \in 1..N : j < idx => ks[j] < h
    BY <1>1, <1>2, <2>1, <2>2
  <2>4. \A j \in 1..N : idx <= j => h <= ks[j]
    <3> SUFFICES ASSUME NEW j \in 1..N, idx <= j PROVE h <= ks[j]
      OBVIOUS
    <3>1. ks[idx] <= ks[j]
      BY <1>1, <2>2 DEF InOrder
    <3> QED BY <1>1, <2>2, <3>1
  <2>5. ~(\A j \in 1..N : ks[j] < h)
    BY <1>1, <2>2
  <2> QED BY <2>2, <2>3, <2>4, <2>5 DEF idx
<1> QED BY <1>5, <1>6

\* From one entry met to the next it is no way back.
LEMMA Clockwise ==
    ASSUME NEW N \in Nat, N > 0, NEW ks \in [1..N -> Positions], InOrder(ks),
           NEW h \in Positions, NEW i \in 1..N, NEW j \in 1..N, i < j
    PROVE  LET idx == StartIndex(ks, h)
           IN  Ahead(h, ks[Turn(N, idx, i)]) <= Ahead(h, ks[Turn(N, idx, j)])
<1> DEFINE idx == StartIndex(ks, h)
           u == Turn(N, idx, i)
           v == Turn(N, idx, j)
<1>1. /\ idx \in 1..N
      /\ \A x \in 1..N : x < idx => ks[x] < h
      /\ (\A x \in 1..N : ks[x] < h) \/ (\A x \in 1..N : idx <= x => h <= ks[x])
      /\ (\A x \in 1..N : ks[x] < h) => idx = 1
  BY StartOf
<1> HIDE DEF idx
<1>2. /\ u = IF idx + i - 1 <= N THEN idx + i - 1 ELSE idx + i - 1 - N
      /\ v = IF idx + j - 1 <= N THEN idx + j - 1 ELSE idx + j - 1 - N
      /\ u \in 1..N /\ v \in 1..N
  BY <1>1, TurnOf
<1> HIDE DEF u, v
<1> DEFINE p == ks[u]
           q == ks[v]
<1>3. /\ p \in Positions /\ q \in Positions
      /\ p \in Int /\ q \in Int /\ h \in Int /\ 0 <= p /\ p < Keys /\ 0 <= q /\ q < Keys
      /\ Keys \in Nat
  BY <1>2, HashRingAssumption DEF Positions
<1>4. /\ Ahead(h, p) = IF p >= h THEN p - h ELSE p + Keys - h
      /\ Ahead(h, q) = IF q >= h THEN q - h ELSE q + Keys - h
  BY <1>3, AheadOf
<1>5. u < v => p <= q
  BY <1>2 DEF InOrder
<1>6. (u < v /\ (idx <= u \/ v < idx)) \/ (idx <= u /\ v < idx)
  BY <1>1, <1>2
<1>7. (u < idx => p < h) /\ (v < idx => q < h)
  BY <1>1, <1>2
<1>8. (p < h /\ q < h) \/ ((idx <= u => h <= p) /\ (idx <= v => h <= q))
  BY <1>1, <1>2
<1> HIDE DEF p, q
<1>9. Ahead(h, p) <= Ahead(h, q)
  <2>1. CASE u < v /\ idx <= u
    BY <1>1, <1>2, <1>3, <1>4, <1>5, <1>8, <2>1
  <2>2. CASE u < v /\ v < idx
    BY <1>1, <1>2, <1>3, <1>4, <1>5, <1>7, <2>2
  <2>3. CASE idx <= u /\ v < idx
    <3>1. q < h
      BY <1>7, <2>3
    <3>2. h <= p \/ idx = 1
      BY <1>1, <1>8, <2>3, <1>2 DEF p
    <3>3. idx # 1
      BY <1>1, <1>2, <2>3
    <3> QED BY <1>3, <1>4, <3>1, <3>2, <3>3
  <2> QED BY <1>6, <2>1, <2>2, <2>3
<1> QED BY <1>9 DEF p, q, u, v, idx
-----------------------------------------------------------------------------
(***************************************************************************)
(* GetNodes gives the nearest owners of keys.                              *)
(***************************************************************************)

Owners(ks, nodeOf) == {nodeOf[ks[i]] : i \in DOMAIN ks}

\* reach[x] is how far it is from h to the nearest key of x.
Reaches(reach, ks, nodeOf, h) ==
    /\ \A i \in DOMAIN ks : /\ reach[nodeOf[ks[i]]] \in Nat
                            /\ reach[nodeOf[ks[i]]] <= Ahead(h, ks[i])
    /\ \A x \in Owners(ks, nodeOf) :
         \E i \in DOMAIN ks : nodeOf[ks[i]] = x /\ reach[x] = Ahead(h, ks[i])

\* An empty ring gives nothing.
LEMMA SelectNothing ==
    ASSUME NEW ks, DOMAIN ks = {}, NEW h, NEW nodeOf, NEW count \in Nat,
           NEW r, r = Select(ks, nodeOf, h, count)
    PROVE  DOMAIN r = {} /\ ToSet(r) = {} /\ Min({count, 0}) = 0
<1> DEFINE D == DOMAIN ks
           met == [i \in D |-> nodeOf[ks[((StartIndex(ks, h) + i - 2) % Len(ks)) + 1]]]
           fresh == {i \in D : \A j \in 1..(i - 1) : met[j] # met[i]}
<1>1. r = [k \in 1..Min({count, Cardinality(fresh)}) |-> met[Nth(fresh, k)]]
  BY DEF Select
<1>2. fresh = {}
  OBVIOUS
<1> HIDE DEF fresh, met
<1>3. Cardinality(fresh) = 0
  BY <1>2, FS_EmptySet
<1>5. Min({count, 0}) = 0
  BY MinPair
<1>6. DOMAIN r = {}
  BY <1>1, <1>3, <1>5
<1> QED BY <1>5, <1>6 DEF ToSet

\* Equal keys have one owner, so no two owners are equally near.
LEMMA SelectNearest ==
    ASSUME NEW N \in Nat, NEW ks \in [1..N -> Positions], InOrder(ks),
           NEW h \in Positions, NEW nodeOf, NEW reach, Reaches(reach, ks, nodeOf, h),
           NEW count \in Nat, NEW r, r = Select(ks, nodeOf, h, count)
    PROVE  /\ ToSet(r) = FirstClockwise(Owners(ks, nodeOf), reach, count)
           /\ DOMAIN r = 1..Min({count, Cardinality(Owners(ks, nodeOf))})
           /\ \A k, l \in DOMAIN r : k < l => reach[r[k]] < reach[r[l]]
           /\ Cardinality(Owners(ks, nodeOf)) \in Nat /\ IsFiniteSet(Owners(ks, nodeOf))
<1>0. CASE N = 0
  <2>1. DOMAIN ks = {} /\ Owners(ks, nodeOf) = {}
    BY <1>0 DEF Owners
  <2>2. DOMAIN r = {} /\ ToSet(r) = {} /\ Min({count, 0}) = 0
    BY <2>1, SelectNothing
  <2>3. FirstClockwise({}, reach, count) = {}
    BY DEF FirstClockwise
  <2>4. Cardinality({}) = 0 /\ IsFiniteSet({})
    BY FS_EmptySet
  <2>5. Cardinality(Owners(ks, nodeOf)) = 0
    BY <2>1, <2>4
  <2>6. 1..Min({count, Cardinality(Owners(ks, nodeOf))}) = {}
    BY <2>2, <2>5
  <2>7. \A k, l \in DOMAIN r : k < l => reach[r[k]] < reach[r[l]]
    BY <2>2
  <2>8. ToSet(r) = FirstClockwise(Owners(ks, nodeOf), reach, count)
    BY <2>1, <2>2, <2>3
  <2>9. DOMAIN r = 1..Min({count, Cardinality(Owners(ks, nodeOf))})
    BY <2>2, <2>6
  <2>a. Cardinality(Owners(ks, nodeOf)) \in Nat /\ IsFiniteSet(Owners(ks, nodeOf))
    BY <2>1, <2>4, <2>5
  <2> QED BY <2>7, <2>8, <2>9, <2>a
<1> SUFFICES ASSUME N > 0
    PROVE  /\ ToSet(r) = FirstClockwise(Owners(ks, nodeOf), reach, count)
           /\ DOMAIN r = 1..Min({count, Cardinality(Owners(ks, nodeOf))})
           /\ \A k, l \in DOMAIN r : k < l => reach[r[k]] < reach[r[l]]
           /\ Cardinality(Owners(ks, nodeOf)) \in Nat /\ IsFiniteSet(Owners(ks, nodeOf))
  BY <1>0
<1> DEFINE idx == StartIndex(ks, h)
           met == [i \in 1..N |-> nodeOf[ks[Turn(N, idx, i)]]]
           a == [i \in 1..N |-> Ahead(h, ks[Turn(N, idx, i)])]
           O == Owners(ks, nodeOf)
           fresh == {i \in 1..N : \A j \in 1..(i - 1) : met[j] # met[i]}
           M == Cardinality(fresh)
<1>1. /\ idx \in 1..N
      /\ \A i \in 1..N : Turn(N, idx, i) \in 1..N
      /\ \A j \in 1..N : \E i \in 1..N : Turn(N, idx, i) = j
  <2>1. idx \in 1..N
    BY StartOf
  <2> HIDE DEF idx
  <2> QED BY <2>1, TurnOf
<1>2. r = [k \in 1..Min({count, M}) |-> met[Nth(fresh, k)]]
  <2> DEFINE D == DOMAIN ks
             path == [i \in D |-> nodeOf[ks[((idx + i - 2) % Len(ks)) + 1]]]
             first == {i \in D : \A j \in 1..(i - 1) : path[j] # path[i]}
  <2>1. D = 1..N /\ Len(ks) = N
    OBVIOUS
  <2>2. r = [k \in 1..Min({count, Cardinality(first)}) |-> path[Nth(first, k)]]
    BY DEF Select
  <2> HIDE DEF D
  <2>3. path = met
    BY <2>1 DEF Turn
  <2> HIDE DEF path, met
  <2>4. first = fresh
    BY <2>1, <2>3
  <2> HIDE DEF first, fresh
  <2> QED BY <2>2, <2>3, <2>4
<1>3. /\ \A i \in 1..N : a[i] \in Nat
      /\ \A i, j \in 1..N : i < j => a[i] <= a[j]
  <2>1. ASSUME NEW i \in 1..N PROVE a[i] \in Nat
    <3>1. ks[Turn(N, idx, i)] \in Positions
      BY <1>1
    <3>2. a[i] \in 0..(Keys - 1)
      BY <3>1, AheadOf
    <3> QED BY <3>2
  <2>2. \A i, j \in 1..N : i < j => a[i] <= a[j]
    BY Clockwise
  <2> QED BY <2>1, <2>2
<1>4. \A i \in 1..N : met[i] \in O
  BY <1>1 DEF Owners
<1>5. \A i \in 1..N : reach[met[i]] \in Nat /\ reach[met[i]] <= a[i]
  BY <1>1 DEF Reaches
<1>6. \A x \in O : \E i \in 1..N : met[i] = x /\ reach[x] = a[i]
  <2> SUFFICES ASSUME NEW x \in O PROVE \E i \in 1..N : met[i] = x /\ reach[x] = a[i]
    OBVIOUS
  <2>1. PICK j \in 1..N : nodeOf[ks[j]] = x /\ reach[x] = Ahead(h, ks[j])
    BY DEF Reaches
  <2>2. PICK i \in 1..N : Turn(N, idx, i) = j
    BY <1>1
  <2> QED BY <2>1, <2>2
<1>7. \A x, y \in O : reach[x] = reach[y] => x = y
  <2> SUFFICES ASSUME NEW x \in O, NEW y \in O, reach[x] = reach[y] PROVE x = y
    OBVIOUS
  <2>1. PICK i \in 1..N : nodeOf[ks[i]] = x /\ reach[x] = Ahead(h, ks[i])
    BY DEF Reaches
  <2>2. PICK j \in 1..N : nodeOf[ks[j]] = y /\ reach[y] = Ahead(h, ks[j])
    BY DEF Reaches
  <2>3. ks[i] = ks[j]
    BY <2>1, <2>2, AheadOf
  <2> QED BY <2>1, <2>2, <2>3
<1> HIDE DEF met, a, O, idx
<1>8. \A i \in fresh : i \in 1..N /\ \A j \in 1..(i - 1) : met[j] # met[i]
  OBVIOUS
<1>9. /\ IsFiniteSet(fresh) /\ \A i \in fresh : i \in Nat
      /\ M \in Nat
  <2>1. IsFiniteSet(1..N)
    BY FS_Interval
  <2>2. fresh \subseteq 1..N
    OBVIOUS
  <2>3. IsFiniteSet(fresh)
    BY <2>1, <2>2, FS_Subset
  <2> HIDE DEF fresh
  <2> QED BY <1>8, <2>3, FS_CardinalityType
<1>10. \A x \in O : \E i \in fresh : met[i] = x
  <2> SUFFICES ASSUME NEW x \in O PROVE \E i \in fresh : met[i] = x
    OBVIOUS
  <2> DEFINE At == {i \in 1..N : met[i] = x}
  <2>1. At # {}
    BY <1>6
  <2>2. IsFiniteSet(At) /\ \A i \in At : i \in Nat
    <3>1. IsFiniteSet(1..N)
      BY FS_Interval
    <3>2. At \subseteq 1..N
      OBVIOUS
    <3>3. IsFiniteSet(At)
      BY <3>1, <3>2, FS_Subset
    <3> QED BY <3>3
  <2>3. \A i : i \in At <=> i \in 1..N /\ met[i] = x
    OBVIOUS
  <2> HIDE DEF At
  <2>4. Min(At) \in At /\ \A i \in At : Min(At) <= i
    BY <2>1, <2>2, MinOf
  <2>5. PICK m \in 1..N : met[m] = x /\ \A i \in 1..N : met[i] = x => m <= i
    BY <2>3, <2>4
  <2> QED BY <2>5
<1>11. \A i \in fresh : reach[met[i]] = a[i]
  <2> SUFFICES ASSUME NEW i \in fresh PROVE reach[met[i]] = a[i]
    OBVIOUS
  <2>1. PICK j \in 1..N : met[j] = met[i] /\ reach[met[i]] = a[j]
    BY <1>4, <1>6, <1>8
  <2>2. i <= j
    BY <1>8, <2>1
  <2>3. a[i] <= a[j] /\ a[i] \in Nat
    BY <1>3, <1>8, <2>2
  <2> QED BY <1>5, <1>8, <2>1, <2>3
<1> HIDE DEF fresh
<1>12. ASSUME NEW i \in fresh, NEW j \in fresh, i < j PROVE reach[met[i]] < reach[met[j]]
  <2>1. i \in 1..(j - 1) /\ i \in 1..N /\ j \in 1..N
    BY <1>8, <1>12
  <2>2. met[i] # met[j]
    BY <1>8, <2>1
  <2>3. reach[met[i]] # reach[met[j]]
    BY <1>4, <1>7, <2>1, <2>2
  <2>4. a[i] <= a[j] /\ a[i] \in Nat /\ a[j] \in Nat
    BY <1>3, <1>12, <2>1
  <2> QED BY <1>11, <2>3, <2>4
<1>13. \A i, j \in fresh : i < j <=> reach[met[i]] < reach[met[j]]
  <2> SUFFICES ASSUME NEW i \in fresh, NEW j \in fresh PROVE i < j <=> reach[met[i]] < reach[met[j]]
    OBVIOUS
  <2>1. reach[met[i]] \in Nat /\ reach[met[j]] \in Nat /\ i \in Nat /\ j \in Nat
    BY <1>5, <1>8
  <2>2. (i < j => reach[met[i]] < reach[met[j]]) /\ (j < i => reach[met[j]] < reach[met[i]])
    BY <1>12
  <2>3. i = j => reach[met[i]] = reach[met[j]]
    OBVIOUS
  <2> QED BY <2>1, <2>2, <2>3
<1>14. \A i, j \in fresh : met[i] = met[j] => i = j
  <2> SUFFICES ASSUME NEW i \in fresh, NEW j \in fresh, met[i] = met[j] PROVE i = j
    OBVIOUS
  <2>1. ~(i < j) /\ ~(j < i)
    <3>1. reach[met[i]] \in Nat /\ reach[met[j]] = reach[met[i]]
      BY <1>5, <1>8
    <3> QED BY <1>13, <3>1
  <2> QED BY <1>9, <2>1
<1>15. ASSUME NEW i \in fresh
       PROVE  Cardinality(Nearer(O, reach, met[i])) = Cardinality(Below(fresh, i))
  <2> DEFINE S == Below(fresh, i)
             T == Nearer(O, reach, met[i])
             f == [j \in S |-> met[j]]
  <2>1. \A j : j \in S <=> j \in fresh /\ j < i
    BY DEF Below
  <2>2. \A x : x \in T <=> x \in O /\ reach[x] < reach[met[i]]
    BY DEF Nearer
  <2> HIDE DEF S, T
  <2>3. \A j \in S : met[j] \in T
    BY <1>4, <1>8, <1>13, <2>1, <2>2
  <2>4. \A x \in T : \E j \in S : met[j] = x
    BY <1>10, <1>13, <2>1, <2>2
  <2>5. f \in Bijection(S, T)
    <3>1. f \in [S -> T]
      BY <2>3
    <3>2. \A j, k \in S : f[j] = f[k] => j = k
      BY <1>14, <2>1
    <3>3. \A x \in T : \E j \in S : f[j] = x
      BY <2>4
    <3> HIDE DEF f
    <3> QED BY <3>1, <3>2, <3>3 DEF Bijection, Injection, Surjection, IsInjective
  <2>6. IsFiniteSet(S)
    <3>1. S \subseteq fresh
      BY <2>1
    <3> QED BY <1>9, <3>1, FS_Subset
  <2>7. ExistsBijection(S, T)
    BY <2>5 DEF ExistsBijection
  <2>8. Cardinality(T) = Cardinality(S)
    BY <2>6, <2>7, FS_Bijection
  <2> QED BY <2>8 DEF S, T
<1>16. Cardinality(O) = M /\ IsFiniteSet(O)
  <2> DEFINE f == [j \in fresh |-> met[j]]
  <2>1. f \in Bijection(fresh, O)
    <3>1. f \in [fresh -> O]
      BY <1>4, <1>8
    <3>2. \A j, k \in fresh : f[j] = f[k] => j = k
      BY <1>14
    <3>3. \A x \in O : \E j \in fresh : f[j] = x
      BY <1>10
    <3> HIDE DEF f
    <3> QED BY <3>1, <3>2, <3>3 DEF Bijection, Injection, Surjection, IsInjective
  <2>2. ExistsBijection(fresh, O)
    BY <2>1 DEF ExistsBijection
  <2> QED BY <1>9, <2>2, FS_Bijection
<1> HIDE DEF M
<1>17. /\ \A k \in 1..M : Nth(fresh, k) \in fresh /\ Cardinality(Below(fresh, Nth(fresh, k))) = k - 1
       /\ \A i \in fresh : \E k \in 1..M : Nth(fresh, k) = i
       /\ \A k, l \in 1..M : k < l <=> Nth(fresh, k) < Nth(fresh, l)
  BY <1>9, NthOf DEF M
<1> DEFINE L == Min({count, M})
<1>18. L \in Nat /\ L <= M /\ \A k \in 1..M : k <= L <=> k - 1 < count
  <2>1. M \in Nat
    BY <1>9 DEF M
  <2>2. L = IF count <= M THEN count ELSE M
    BY <2>1, MinPair
  <2> HIDE DEF L
  <2>3. ASSUME NEW k \in 1..M PROVE k <= L <=> k - 1 < count
    BY <2>1, <2>2, <2>3
  <2> QED BY <2>1, <2>2, <2>3
<1> HIDE DEF L
<1>19. DOMAIN r = 1..L /\ \A k \in 1..L : r[k] = met[Nth(fresh, k)]
  BY <1>2 DEF L
<1>20. \A k, l \in 1..L : k < l => reach[r[k]] < reach[r[l]]
  <2> SUFFICES ASSUME NEW k \in 1..L, NEW l \in 1..L, k < l PROVE reach[r[k]] < reach[r[l]]
    OBVIOUS
  <2>1. k \in 1..M /\ l \in 1..M
    BY <1>9, <1>18
  <2>2. PICK i \in fresh, j \in fresh : i = Nth(fresh, k) /\ j = Nth(fresh, l)
    BY <1>17, <2>1
  <2>3. i < j
    BY <1>17, <2>1, <2>2
  <2> QED BY <1>13, <1>19, <2>2, <2>3
<1>21. \A x : x \in ToSet(r) <=> \E k \in 1..L : x = r[k]
  BY <1>19 DEF ToSet
<1>22. \A x : x \in FirstClockwise(O, reach, count) <=> x \in O /\ Cardinality(Nearer(O, reach, x)) < count
  BY DEF FirstClockwise
<1>23. ASSUME NEW k \in 1..M
       PROVE  LET x == met[Nth(fresh, k)]
              IN  x \in O /\ Cardinality(Nearer(O, reach, x)) = k - 1
  <2>1. PICK i \in fresh : i = Nth(fresh, k) /\ Cardinality(Below(fresh, i)) = k - 1
    BY <1>17
  <2> QED BY <1>4, <1>8, <1>15, <2>1
<1>24. ASSUME NEW x, x \in ToSet(r) PROVE x \in FirstClockwise(O, reach, count)
  <2>1. PICK k \in 1..L : x = r[k]
    BY <1>21, <1>24
  <2>2. k \in 1..M /\ k - 1 < count
    BY <1>9, <1>18, <2>1
  <2>3. x = met[Nth(fresh, k)]
    BY <1>19, <2>1
  <2> QED BY <1>22, <1>23, <2>2, <2>3
<1>25. ASSUME NEW x, x \in FirstClockwise(O, reach, count) PROVE x \in ToSet(r)
  <2>1. x \in O /\ Cardinality(Nearer(O, reach, x)) < count
    BY <1>22, <1>25
  <2>2. PICK i \in fresh : met[i] = x
    BY <1>10, <2>1
  <2>3. PICK k \in 1..M : Nth(fresh, k) = i
    BY <1>17
  <2>4. k - 1 < count
    BY <1>23, <2>1, <2>2, <2>3
  <2>5. k \in 1..L
    BY <1>9, <1>18, <2>4
  <2> QED BY <1>19, <1>21, <2>2, <2>3, <2>5
<1> QED BY <1>9, <1>16, <1>19, <1>20, <1>24, <1>25 DEF O, L

\* Every owner has a nearest key.
Reach(ks, nodeOf, h) ==
    [x \in Owners(ks, nodeOf) |->
        Min({Ahead(h, ks[i]) : i \in {j \in DOMAIN ks : nodeOf[ks[j]] = x}})]

LEMMA ReachOf ==
    ASSUME NEW N \in Nat, NEW ks \in [1..N -> Positions], NEW h \in Positions, NEW nodeOf
    PROVE  Reaches(Reach(ks, nodeOf, h), ks, nodeOf, h)
<1> DEFINE D == 1..N
           R == Reach(ks, nodeOf, h)
<1>1. DOMAIN ks = D /\ IsFiniteSet(D)
  BY FS_Interval
<1>2. \A i \in D : Ahead(h, ks[i]) \in Nat
  <2> SUFFICES ASSUME NEW i \in D PROVE Ahead(h, ks[i]) \in Nat
    OBVIOUS
  <2>1. ks[i] \in Positions
    OBVIOUS
  <2>2. Ahead(h, ks[i]) \in 0..(Keys - 1)
    BY <2>1, AheadOf
  <2> QED BY <2>2
<1> HIDE DEF D
<1>3. ASSUME NEW x \in Owners(ks, nodeOf)
      PROVE  /\ \E i \in D : nodeOf[ks[i]] = x /\ R[x] = Ahead(h, ks[i])
             /\ \A i \in D : nodeOf[ks[i]] = x => R[x] <= Ahead(h, ks[i])
  <2> DEFINE I == {j \in D : nodeOf[ks[j]] = x}
             A == {Ahead(h, ks[i]) : i \in I}
  <2>1. I # {}
    BY <1>1 DEF Owners
  <2>2. IsFiniteSet(I)
    <3>1. I \subseteq D
      OBVIOUS
    <3> QED BY <1>1, <3>1, FS_Subset
  <2>3. R[x] = Min(A)
    BY <1>1 DEF Reach
  <2>4. \A i \in I : i \in D /\ nodeOf[ks[i]] = x
    OBVIOUS
  <2>5. \A i \in D : nodeOf[ks[i]] = x => i \in I
    OBVIOUS
  <2> HIDE DEF I, R
  <2>6. IsFiniteSet(A)
    <3> DEFINE f == [i \in I |-> Ahead(h, ks[i])]
    <3>1. f \in Surjection(I, A)
      <4>1. f \in [I -> A] /\ \A y \in A : \E i \in I : f[i] = y
        OBVIOUS
      <4> HIDE DEF f, A
      <4> QED BY <4>1 DEF Surjection
    <3> HIDE DEF f, A
    <3> QED BY <2>2, <3>1, FS_Surjection
  <2>7. (\A y \in A : y \in Nat) /\ A # {}
    BY <1>2, <2>1, <2>4
  <2>8. \A y : y \in A <=> \E i \in I : y = Ahead(h, ks[i])
    OBVIOUS
  <2> HIDE DEF A
  <2>9. Min(A) \in A /\ \A y \in A : Min(A) <= y
    BY <2>6, <2>7, MinOf
  <2> QED BY <2>3, <2>4, <2>5, <2>8, <2>9
<1>4. ASSUME NEW i \in D PROVE R[nodeOf[ks[i]]] \in Nat /\ R[nodeOf[ks[i]]] <= Ahead(h, ks[i])
  <2>1. nodeOf[ks[i]] \in Owners(ks, nodeOf)
    BY <1>1 DEF Owners
  <2> HIDE DEF R
  <2>2. PICK x \in Owners(ks, nodeOf) : x = nodeOf[ks[i]]
    BY <2>1
  <2>3. PICK j \in D : R[x] = Ahead(h, ks[j])
    BY <1>3
  <2>4. R[x] <= Ahead(h, ks[i])
    BY <1>3, <2>2
  <2> QED BY <1>2, <2>2, <2>3, <2>4
<1> QED BY <1>1, <1>3, <1>4 DEF Reaches

\* Who is first among many is first among some of them.
LEMMA FirstAmongFewer ==
    ASSUME NEW S, NEW T, S \subseteq T, IsFiniteSet(T), NEW rs, NEW rt,
           \A x \in S : rs[x] = rt[x], NEW count \in Nat,
           NEW x \in S, x \in FirstClockwise(T, rt, count)
    PROVE  x \in FirstClockwise(S, rs, count)
<1> DEFINE A == Nearer(S, rs, x)
           B == Nearer(T, rt, x)
<1>1. A \subseteq B /\ B \subseteq T
  BY DEF Nearer
<1>2. Cardinality(B) < count
  BY DEF FirstClockwise
<1> HIDE DEF A, B
<1>3. IsFiniteSet(B)
  BY <1>1, FS_Subset
<1>4. IsFiniteSet(A) /\ Cardinality(A) <= Cardinality(B)
  BY <1>1, <1>3, FS_Subset
<1>5. Cardinality(A) \in Nat /\ Cardinality(B) \in Nat
  BY <1>3, <1>4, FS_CardinalityType
<1>6. Cardinality(A) < count
  BY <1>2, <1>4, <1>5
<1> QED BY <1>6 DEF FirstClockwise, A
-----------------------------------------------------------------------------
(***************************************************************************)
(* The keys in every reachable state.                                      *)
(***************************************************************************)

\* Without collisions the members' keys are the keys, and each is its member's.
AllPlaced ==
    /\ IsInjective(keys)
    /\ \A p \in Positions :
         p \in ToSet(keys) <=> \E n \in nodesMap : \E i \in 1..VNodes : p = place[n][i]
    /\ \A n \in nodesMap : \A i \in 1..VNodes : ring[place[n][i]] = n

KeysInv ==
    /\ place \in Places
    /\ nodesMap \in SUBSET Nodes
    /\ ring \in [Positions -> nodesMap \cup {NoNode}]
    /\ Len(keys) \in Nat /\ keys \in [1..Len(keys) -> Positions]
    /\ InOrder(keys)
    /\ NoCollision => AllPlaced

LEMMA PlacesType ==
    ASSUME place \in Places
    PROVE  /\ place \in [Nodes -> [1..VNodes -> Positions]]
           /\ VNodes \in Nat
           /\ \A n \in Nodes : place[n] \in [1..VNodes -> Positions]
BY HashRingAssumption DEF Positions

LEMMA KeysInit == Init => KeysInv
<1> SUFFICES ASSUME Init PROVE KeysInv
  OBVIOUS
<1>1. DOMAIN keys = {} /\ Len(keys) = 0 /\ keys \in [1..Len(keys) -> Positions]
  BY DEF Init
<1>2. AllPlaced
  BY <1>1 DEF AllPlaced, Init, IsInjective, ToSet
<1>3. InOrder(keys)
  BY <1>1 DEF InOrder
<1> QED BY <1>1, <1>2, <1>3 DEF KeysInv, Init

\* The keys of a node that joins are added to the others.
LEMMA KeysAdded ==
    ASSUME KeysInv, NEW n \in Nodes, AddNode(n)
    PROVE  /\ Len(keys') \in Nat /\ keys' \in [1..Len(keys') -> Positions] /\ InOrder(keys')
           /\ ToSet(keys') = ToSet(keys) \cup ToSet(place[n])
           /\ (IsInjective(keys) /\ IsInjective(place[n]) /\ ToSet(keys) \cap ToSet(place[n]) = {})
                => IsInjective(keys')
<1> DEFINE N == Len(keys)
           M == N + VNodes
           s == keys \o place[n]
<1>1. /\ N \in Nat /\ keys \in [1..N -> Positions] /\ VNodes \in Nat
      /\ place[n] \in [1..VNodes -> Positions] /\ Positions \subseteq Nat
  BY PlacesType DEF KeysInv, Positions
<1>2. /\ M \in Nat /\ DOMAIN s = 1..M
      /\ \A i \in 1..N : s[i] = keys[i]
      /\ \A i \in 1..VNodes : s[N + i] = place[n][i]
  <2>1. Len(place[n]) = VNodes
    BY <1>1
  <2>2. DOMAIN s = 1..M /\ s = [i \in 1..M |-> IF i <= N THEN keys[i] ELSE place[n][i - N]]
    BY <1>1, <2>1
  <2> HIDE DEF s
  <2> QED BY <1>1, <2>2
<1>3. \A i \in 1..M : i \in 1..N \/ \E j \in 1..VNodes : i = N + j
  <2> SUFFICES ASSUME NEW i \in 1..M, i \notin 1..N PROVE \E j \in 1..VNodes : i = N + j
    OBVIOUS
  <2>1. i - N \in 1..VNodes /\ i = N + (i - N)
    BY <1>1
  <2> QED BY <2>1
<1>4. \A i \in 1..N : i \in 1..M
  BY <1>1
<1>5. \A j \in 1..VNodes : N + j \in 1..M
  BY <1>1
<1>6. s = [i \in 1..M |-> s[i]]
  BY <1>1
<1>7. keys' = Sorted(s)
  BY DEF AddNode
<1> HIDE DEF s, M, N
<1>8. s \in [1..M -> Positions]
  <2>1. ASSUME NEW i \in 1..M PROVE s[i] \in Positions
    BY <1>1, <1>2, <1>3
  <2> QED BY <1>6, <2>1
<1>9. ToSet(s) = ToSet(keys) \cup ToSet(place[n])
  <2>1. \A y : y \in ToSet(s) <=> \E i \in 1..M : y = s[i]
    BY <1>2 DEF ToSet
  <2>2. \A y : y \in ToSet(keys) <=> \E i \in 1..N : y = keys[i]
    BY <1>1 DEF ToSet
  <2>3. \A y : y \in ToSet(place[n]) <=> \E i \in 1..VNodes : y = place[n][i]
    BY <1>1 DEF ToSet
  <2>4. ASSUME NEW y, y \in ToSet(s) PROVE y \in ToSet(keys) \cup ToSet(place[n])
    BY <1>2, <1>3, <2>1, <2>2, <2>3, <2>4
  <2>5. ASSUME NEW y, y \in ToSet(keys) PROVE y \in ToSet(s)
    BY <1>2, <1>4, <2>1, <2>2, <2>5
  <2>6. ASSUME NEW y, y \in ToSet(place[n]) PROVE y \in ToSet(s)
    <3>1. PICK i \in 1..VNodes : y = place[n][i]
      BY <2>3, <2>6
    <3>2. N + i \in 1..M /\ s[N + i] = y
      BY <1>2, <1>5, <3>1
    <3> QED BY <2>1, <3>2
  <2> QED BY <2>4, <2>5, <2>6
<1>10. ASSUME IsInjective(keys), IsInjective(place[n]), ToSet(keys) \cap ToSet(place[n]) = {}
       PROVE  IsInjective(s)
  <2>1. /\ \A i, j \in 1..N : keys[i] = keys[j] => i = j
        /\ \A i, j \in 1..VNodes : place[n][i] = place[n][j] => i = j
        /\ \A i \in 1..N : \A j \in 1..VNodes : keys[i] # place[n][j]
    BY <1>1, <1>10 DEF IsInjective, ToSet
  <2>2. ASSUME NEW i \in 1..M, NEW j \in 1..M, s[i] = s[j] PROVE i = j
    <3>1. CASE i \in 1..N /\ j \in 1..N
      BY <1>2, <2>1, <2>2, <3>1
    <3>2. CASE \E x, y \in 1..VNodes : i = N + x /\ j = N + y
      BY <1>2, <2>1, <2>2, <3>2
    <3>3. CASE i \in 1..N /\ \E y \in 1..VNodes : j = N + y
      BY <1>2, <2>1, <2>2, <3>3
    <3>4. CASE j \in 1..N /\ \E x \in 1..VNodes : i = N + x
      BY <1>2, <2>1, <2>2, <3>4
    <3> QED BY <1>3, <3>1, <3>2, <3>3, <3>4
  <2> QED BY <1>2, <2>2 DEF IsInjective
<1> DEFINE r == Sorted(s)
<1>11. /\ r \in [1..M -> Nat] /\ InOrder(r) /\ ToSet(r) = ToSet(s)
       /\ IsInjective(s) => IsInjective(r)
  <2>1. s \in [1..M -> Nat]
    BY <1>1, <1>8
  <2> QED BY <1>2, <2>1, SortedKeys
<1> HIDE DEF r
<1>12. r \in [1..M -> Positions] /\ Len(r) = M
  <2>1. \A i \in 1..M : r[i] \in ToSet(r)
    BY <1>11 DEF ToSet
  <2>2. \A y \in ToSet(s) : y \in Positions
    BY <1>8 DEF ToSet
  <2>3. \A i \in 1..M : r[i] \in Positions
    BY <1>11, <2>1, <2>2
  <2> QED BY <1>2, <1>11, <2>3
<1>13. keys' = r
  BY <1>7 DEF r
<1> QED BY <1>2, <1>9, <1>10, <1>11, <1>12, <1>13

\* The entries whose key the map gives to another stay when n leaves, and so
\* do all but the first of the equal keys of n.
LEMMA KeysKept ==
    ASSUME KeysInv, NEW n \in Nodes, RemoveNode(n)
    PROVE  /\ Len(keys') \in Nat /\ keys' \in [1..Len(keys') -> Positions] /\ InOrder(keys')
           /\ IsInjective(keys) => IsInjective(keys')
           /\ \A p \in ToSet(keys) : ring[p] # n => p \in ToSet(keys')
           /\ \A p \in ToSet(keys') :
                /\ p \in ToSet(keys)
                /\ ring[p] = n => \E i, j \in DOMAIN keys : i # j /\ keys[i] = p /\ keys[j] = p
<1> DEFINE N == Len(keys)
           newKeys == {i \in DOMAIN keys :
                         ~(ring[keys[i]] = n /\ \A j \in 1..(i - 1) : keys[j] # keys[i])}
           M == Cardinality(newKeys)
           r == [k \in 1..M |-> keys[Nth(newKeys, k)]]
<1>1. N \in Nat /\ keys \in [1..N -> Positions] /\ Positions \subseteq Nat /\ InOrder(keys)
  BY DEF KeysInv, Positions
<1>2. keys' = r
  BY DEF RemoveNode
<1>3. newKeys \in SUBSET (1..N)
  BY <1>1
<1>4. \A i \in 1..N : i \in newKeys <=> (ring[keys[i]] = n => \E j \in 1..(i - 1) : keys[j] = keys[i])
  BY <1>1
<1> HIDE DEF newKeys, N
<1>5. /\ M \in Nat /\ r \in [1..M -> Nat] /\ InOrder(r)
      /\ ToSet(r) = {keys[i] : i \in newKeys}
      /\ IsInjective(keys) => IsInjective(r)
  <2>1. keys \in [1..N -> Nat]
    BY <1>1
  <2>2. M = Cardinality(newKeys) /\ r = [k \in 1..M |-> keys[Nth(newKeys, k)]]
    OBVIOUS
  <2> HIDE DEF M, r
  <2> QED BY <1>1, <1>3, <2>1, <2>2, Picked
<1> HIDE DEF r, M
<1>6. \A p \in ToSet(r) : p \in Positions
  BY <1>1, <1>3, <1>5
<1>7. r \in [1..M -> Positions] /\ Len(r) = M
  <2>1. \A i \in 1..M : r[i] \in ToSet(r)
    BY <1>5 DEF ToSet
  <2> QED BY <1>5, <1>6, <2>1
<1>8. \A p : p \in ToSet(keys) <=> \E i \in 1..N : p = keys[i]
  BY <1>1 DEF ToSet
<1>9. ASSUME NEW p \in ToSet(keys), ring[p] # n PROVE p \in ToSet(r)
  <2>1. PICK i \in 1..N : p = keys[i]
    BY <1>8
  <2>2. i \in newKeys
    BY <1>4, <1>9, <2>1
  <2> QED BY <1>5, <2>1, <2>2
<1>10. ASSUME NEW p \in ToSet(r)
       PROVE  /\ p \in ToSet(keys)
              /\ ring[p] = n => \E i, j \in DOMAIN keys : i # j /\ keys[i] = p /\ keys[j] = p
  <2>1. PICK i \in newKeys : p = keys[i]
    BY <1>5
  <2>2. i \in 1..N
    BY <1>3
  <2>3. ASSUME ring[p] = n PROVE \E j \in DOMAIN keys : i # j /\ keys[j] = p
    <3>1. PICK j \in 1..(i - 1) : keys[j] = keys[i]
      BY <1>4, <2>1, <2>2, <2>3
    <3>2. j \in 1..N /\ j # i
      BY <1>1, <2>2
    <3> QED BY <1>1, <2>1, <3>1, <3>2
  <2> QED BY <1>1, <1>8, <2>1, <2>2, <2>3
<1> QED BY <1>2, <1>5, <1>7, <1>9, <1>10

\* Without collisions a key has one member.
LEMMA OnePlace ==
    ASSUME place \in Places, NoCollision
    PROVE  /\ \A m, n \in Nodes : \A i, j \in 1..VNodes : place[m][i] = place[n][j] => m = n /\ i = j
           /\ \A n \in Nodes : IsInjective(place[n])
<1>1. \A m, n \in Nodes : \A i, j \in 1..VNodes : place[m][i] = place[n][j] => m = n /\ i = j
  BY DEF NoCollision
<1>2. ASSUME NEW n \in Nodes PROVE IsInjective(place[n])
  <2>1. place[n] \in [1..VNodes -> Positions]
    BY PlacesType
  <2> QED BY <1>1, <2>1 DEF IsInjective
<1> QED BY <1>1, <1>2

LEMMA KeysAdd ==
    ASSUME KeysInv, NEW n \in Nodes, AddNode(n)
    PROVE  KeysInv'
<1>1. /\ place \in Places /\ place' = place /\ n \notin nodesMap
      /\ nodesMap \in SUBSET Nodes /\ nodesMap' = nodesMap \cup {n}
      /\ ring \in [Positions -> nodesMap \cup {NoNode}]
      /\ ring' = [p \in Positions |-> IF p \in ToSet(place[n]) THEN n ELSE ring[p]]
  BY DEF KeysInv, AddNode
<1>2. /\ Len(keys') \in Nat /\ keys' \in [1..Len(keys') -> Positions] /\ InOrder(keys')
      /\ ToSet(keys') = ToSet(keys) \cup ToSet(place[n])
      /\ (IsInjective(keys) /\ IsInjective(place[n]) /\ ToSet(keys) \cap ToSet(place[n]) = {})
           => IsInjective(keys')
  BY KeysAdded
<1>3. ring' \in [Positions -> nodesMap' \cup {NoNode}]
  BY <1>1
<1>4. place[n] \in [1..VNodes -> Positions]
  BY <1>1, PlacesType
<1>5. \A p : p \in ToSet(place[n]) <=> \E i \in 1..VNodes : p = place[n][i]
  BY <1>4 DEF ToSet
<1>6. ASSUME NoCollision PROVE AllPlaced'
  <2>1. /\ IsInjective(keys)
        /\ \A p \in Positions :
             p \in ToSet(keys) <=> \E m \in nodesMap : \E i \in 1..VNodes : p = place[m][i]
        /\ \A m \in nodesMap : \A i \in 1..VNodes : ring[place[m][i]] = m
    BY <1>6 DEF KeysInv, AllPlaced
  <2>2. /\ \A k, m \in Nodes : \A i, j \in 1..VNodes : place[k][i] = place[m][j] => k = m /\ i = j
        /\ IsInjective(place[n])
    BY <1>1, <1>6, OnePlace
  <2>3. \A p \in ToSet(place[n]) : p \in Positions
    BY <1>4, <1>5
  <2>4. ToSet(keys) \cap ToSet(place[n]) = {}
    <3> SUFFICES ASSUME NEW p \in ToSet(keys), p \in ToSet(place[n]) PROVE FALSE
      OBVIOUS
    <3>1. PICK m \in nodesMap : \E i \in 1..VNodes : p = place[m][i]
      BY <2>1, <2>3
    <3>2. m \in Nodes /\ m # n
      BY <1>1
    <3> QED BY <1>5, <2>2, <3>1, <3>2
  <2>5. IsInjective(keys')
    BY <1>2, <2>1, <2>2, <2>4
  <2>6. ASSUME NEW p \in Positions
        PROVE  p \in ToSet(keys') <=> \E m \in nodesMap' : \E i \in 1..VNodes : p = place[m][i]
    BY <1>1, <1>2, <1>5, <2>1
  <2>7. ASSUME NEW m \in nodesMap', NEW i \in 1..VNodes PROVE ring'[place[m][i]] = m
    <3>1. m \in Nodes /\ place[m][i] \in Positions
      BY <1>1, PlacesType
    <3>2. CASE m = n
      BY <1>1, <1>5, <3>1, <3>2
    <3>3. CASE m # n
      <4>1. m \in nodesMap /\ ring[place[m][i]] = m
        BY <1>1, <2>1, <3>3
      <4>2. place[m][i] \notin ToSet(place[n])
        BY <1>5, <2>2, <3>1, <3>3
      <4> QED BY <1>1, <3>1, <4>1, <4>2
    <3> QED BY <3>2, <3>3
  <2> QED BY <1>1, <2>5, <2>6, <2>7 DEF AllPlaced
<1>7. NoCollision' => NoCollision
  BY <1>1 DEF NoCollision
<1>8. place' \in Places /\ nodesMap' \in SUBSET Nodes
  BY <1>1
<1> QED BY <1>2, <1>3, <1>6, <1>7, <1>8 DEF KeysInv

LEMMA KeysRemove ==
    ASSUME KeysInv, NEW n \in Nodes, RemoveNode(n)
    PROVE  KeysInv'
<1>1. /\ place \in Places /\ place' = place /\ n \in nodesMap
      /\ nodesMap \in SUBSET Nodes /\ nodesMap' = nodesMap \ {n}
      /\ ring \in [Positions -> nodesMap \cup {NoNode}]
      /\ ring' = [p \in Positions |-> IF ring[p] = n THEN NoNode ELSE ring[p]]
  BY DEF KeysInv, RemoveNode
<1>2. /\ Len(keys') \in Nat /\ keys' \in [1..Len(keys') -> Positions] /\ InOrder(keys')
      /\ IsInjective(keys) => IsInjective(keys')
      /\ \A p \in ToSet(keys) : ring[p] # n => p \in ToSet(keys')
      /\ \A p \in ToSet(keys') :
           /\ p \in ToSet(keys)
           /\ ring[p] = n => \E i, j \in DOMAIN keys : i # j /\ keys[i] = p /\ keys[j] = p
  BY KeysKept
<1>3. ring' \in [Positions -> nodesMap' \cup {NoNode}]
  BY <1>1
<1>4. ASSUME NoCollision PROVE AllPlaced'
  <2>1. /\ IsInjective(keys)
        /\ \A p \in Positions :
             p \in ToSet(keys) <=> \E m \in nodesMap : \E i \in 1..VNodes : p = place[m][i]
        /\ \A m \in nodesMap : \A i \in 1..VNodes : ring[place[m][i]] = m
    BY <1>4 DEF KeysInv, AllPlaced
  <2>2. \A p \in ToSet(keys') : ring[p] # n
    BY <1>2, <2>1 DEF IsInjective
  <2>3. IsInjective(keys')
    BY <1>2, <2>1
  <2>4. ASSUME NEW p \in Positions
        PROVE  p \in ToSet(keys') <=> \E m \in nodesMap' : \E i \in 1..VNodes : p = place[m][i]
    <3>1. p \in ToSet(keys') <=> p \in ToSet(keys) /\ ring[p] # n
      BY <1>2, <2>2
    <3>2. ASSUME p \in ToSet(keys), ring[p] # n
          PROVE  \E m \in nodesMap' : \E i \in 1..VNodes : p = place[m][i]
      <4>1. PICK m \in nodesMap : \E i \in 1..VNodes : p = place[m][i]
        BY <2>1, <3>2
      <4>2. m # n
        BY <2>1, <3>2, <4>1
      <4> QED BY <1>1, <4>1, <4>2
    <3>3. ASSUME NEW m \in nodesMap', NEW i \in 1..VNodes, p = place[m][i]
          PROVE  p \in ToSet(keys) /\ ring[p] # n
      <4>1. m \in nodesMap /\ m # n
        BY <1>1
      <4> QED BY <2>1, <3>3, <4>1
    <3> QED BY <3>1, <3>2, <3>3
  <2>5. ASSUME NEW m \in nodesMap', NEW i \in 1..VNodes PROVE ring'[place[m][i]] = m
    <3>1. m \in Nodes /\ m \in nodesMap /\ m # n
      BY <1>1
    <3>2. place[m][i] \in Positions
      BY <1>1, <3>1, PlacesType
    <3> QED BY <1>1, <2>1, <3>1, <3>2
  <2> QED BY <1>1, <2>3, <2>4, <2>5 DEF AllPlaced
<1>5. NoCollision' => NoCollision
  BY <1>1 DEF NoCollision
<1>6. place' \in Places /\ nodesMap' \in SUBSET Nodes
  BY <1>1
<1> QED BY <1>2, <1>3, <1>4, <1>5, <1>6 DEF KeysInv

LEMMA KeysStep == KeysInv /\ [Next]_vars => KeysInv'
<1> SUFFICES ASSUME KeysInv, [Next]_vars PROVE KeysInv'
  OBVIOUS
<1>1. ASSUME NEW n \in Nodes, AddNode(n) PROVE KeysInv'
  BY <1>1, KeysAdd
<1>2. ASSUME NEW n \in Nodes, RemoveNode(n) PROVE KeysInv'
  BY <1>2, KeysRemove
<1>3. CASE UNCHANGED vars
  BY <1>3 DEF vars, KeysInv, AllPlaced, NoCollision
<1> QED BY <1>1, <1>2, <1>3 DEF Next

\* The keys stay sorted, every one is in the map only for a member, and as long
\* as no two virtual nodes collide they are exactly the members' (ring.go:29-75).
THEOREM KeysInvariant == Spec => []KeysInv
BY KeysInit, KeysStep, PTL DEF Spec

\* ring.go:51, 74: h.keys is sorted, which sort.Search relies on.
THEOREM TypeCorrect == Spec => []TypeOK
<1>1. KeysInv => TypeOK
  <2> SUFFICES ASSUME KeysInv PROVE TypeOK
    OBVIOUS
  <2>1. ToSet(keys) \subseteq Positions
    BY DEF KeysInv, ToSet
  <2>2. \A i \in 2..Len(keys) : keys[i - 1] <= keys[i]
    <3> SUFFICES ASSUME NEW i \in 2..Len(keys) PROVE keys[i - 1] <= keys[i]
      OBVIOUS
    <3>1. i - 1 \in 1..Len(keys) /\ i \in 1..Len(keys) /\ i - 1 < i
      BY DEF KeysInv
    <3> QED BY <3>1 DEF KeysInv, InOrder
  <2>3. ring \in [Positions -> Nodes \cup {NoNode}]
    BY DEF KeysInv
  <2> QED BY <2>1, <2>2, <2>3 DEF KeysInv, TypeOK
<1> QED BY <1>1, KeysInvariant, PTL
-----------------------------------------------------------------------------
(***************************************************************************)
(* What GetNodes gives in every reachable state.                           *)
(***************************************************************************)

LEMMA SortedInjective ==
    ASSUME NEW L \in Nat, NEW r, DOMAIN r = 1..L, NEW reach,
           \A k, l \in DOMAIN r : k < l => reach[r[k]] < reach[r[l]],
           \A k \in DOMAIN r : reach[r[k]] \in Nat
    PROVE  IsInjective(r)
<1>1. ASSUME NEW k \in DOMAIN r, NEW l \in DOMAIN r, r[k] = r[l] PROVE k = l
  <2>1. reach[r[k]] \in Nat /\ reach[r[l]] = reach[r[k]]
    BY <1>1
  <2>2. ~(k < l) /\ ~(l < k)
    BY <2>1
  <2> QED BY <2>2
<1> QED BY <1>1 DEF IsInjective

\* Without collisions the members own the keys, and Distance is their reach.
LEMMA MembersReach ==
    ASSUME KeysInv, NoCollision, NEW h \in Positions
    PROVE  /\ Owners(keys, ring) = nodesMap
           /\ Reaches(Distance(h), keys, ring, h)
<1> DEFINE R == Distance(h)
<1>1. /\ place \in Places /\ nodesMap \in SUBSET Nodes
      /\ keys \in [1..Len(keys) -> Positions] /\ Len(keys) \in Nat
      /\ \A p \in Positions :
           p \in ToSet(keys) <=> \E m \in nodesMap : \E i \in 1..VNodes : p = place[m][i]
      /\ \A m \in nodesMap : \A i \in 1..VNodes : ring[place[m][i]] = m
      /\ VNodes \in Nat /\ VNodes > 0
      /\ \A m \in Nodes : place[m] \in [1..VNodes -> Positions]
  BY PlacesType, HashRingAssumption DEF KeysInv, AllPlaced
<1>2. \A j \in DOMAIN keys : keys[j] \in Positions /\ keys[j] \in ToSet(keys)
  BY <1>1 DEF ToSet
<1>3. \A j \in DOMAIN keys : \E m \in nodesMap : \E i \in 1..VNodes :
        keys[j] = place[m][i] /\ ring[keys[j]] = m
  <2> SUFFICES ASSUME NEW j \in DOMAIN keys
               PROVE  \E m \in nodesMap : \E i \in 1..VNodes :
                        keys[j] = place[m][i] /\ ring[keys[j]] = m
    OBVIOUS
  <2>1. PICK m \in nodesMap : \E i \in 1..VNodes : keys[j] = place[m][i]
    BY <1>1, <1>2
  <2> QED BY <1>1, <2>1
<1>4. \A m \in nodesMap : \A i \in 1..VNodes : \E j \in DOMAIN keys : keys[j] = place[m][i]
  <2> SUFFICES ASSUME NEW m \in nodesMap, NEW i \in 1..VNodes
               PROVE  \E j \in DOMAIN keys : keys[j] = place[m][i]
    OBVIOUS
  <2>1. place[m][i] \in Positions
    BY <1>1
  <2>2. place[m][i] \in ToSet(keys)
    BY <1>1, <2>1
  <2> QED BY <2>2 DEF ToSet
<1>5. Owners(keys, ring) = nodesMap
  <2>1. ASSUME NEW x \in Owners(keys, ring) PROVE x \in nodesMap
    BY <1>3 DEF Owners
  <2>2. ASSUME NEW m \in nodesMap PROVE m \in Owners(keys, ring)
    <3>1. 1 \in 1..VNodes
      BY <1>1
    <3>2. PICK j \in DOMAIN keys : keys[j] = place[m][1]
      BY <1>4, <3>1
    <3>3. ring[keys[j]] = m
      BY <1>1, <3>1, <3>2
    <3> QED BY <3>3 DEF Owners
  <2> QED BY <2>1, <2>2
<1>6. \A p \in Positions : Ahead(h, p) \in Nat
  <2> SUFFICES ASSUME NEW p \in Positions PROVE Ahead(h, p) \in Nat
    OBVIOUS
  <2>1. Ahead(h, p) \in 0..(Keys - 1)
    BY AheadOf
  <2> QED BY <2>1
<1>7. ASSUME NEW m \in Nodes
      PROVE  /\ \E i \in 1..VNodes : R[m] = Ahead(h, place[m][i])
             /\ \A i \in 1..VNodes : R[m] <= Ahead(h, place[m][i])
             /\ R[m] \in Nat
  <2> DEFINE I == 1..VNodes
             A == {Ahead(h, place[m][i]) : i \in I}
             f == [i \in I |-> Ahead(h, place[m][i])]
  <2>1. R[m] = Min(A)
    BY DEF Distance, Ahead
  <2>2. \A i \in I : Ahead(h, place[m][i]) \in Nat
    BY <1>1, <1>6
  <2>3. I # {} /\ IsFiniteSet(I)
    <3>1. 1 \in I
      BY <1>1
    <3>2. IsFiniteSet(I)
      BY <1>1, FS_Interval
    <3> QED BY <3>1, <3>2
  <2> HIDE DEF I, R
  <2>4. IsFiniteSet(A)
    <3>1. f \in Surjection(I, A)
      <4>1. f \in [I -> A] /\ \A y \in A : \E i \in I : f[i] = y
        OBVIOUS
      <4> HIDE DEF f, A
      <4> QED BY <4>1 DEF Surjection
    <3> HIDE DEF f, A
    <3> QED BY <2>3, <3>1, FS_Surjection
  <2>5. (\A y \in A : y \in Nat) /\ A # {} /\ \A y : y \in A <=> \E i \in I : y = Ahead(h, place[m][i])
    BY <2>2, <2>3
  <2> HIDE DEF A
  <2>6. Min(A) \in A /\ \A y \in A : Min(A) <= y
    BY <2>4, <2>5, MinOf
  <2> QED BY <2>1, <2>2, <2>5, <2>6 DEF I
<1> HIDE DEF R
<1>8. ASSUME NEW j \in DOMAIN keys
      PROVE  R[ring[keys[j]]] \in Nat /\ R[ring[keys[j]]] <= Ahead(h, keys[j])
  <2>1. PICK m \in nodesMap, i \in 1..VNodes : keys[j] = place[m][i] /\ ring[keys[j]] = m
    BY <1>3
  <2>2. m \in Nodes
    BY <1>1
  <2> QED BY <1>7, <2>1, <2>2
<1>9. ASSUME NEW x \in Owners(keys, ring)
      PROVE  \E j \in DOMAIN keys : ring[keys[j]] = x /\ R[x] = Ahead(h, keys[j])
  <2>1. x \in nodesMap /\ x \in Nodes
    BY <1>1, <1>5
  <2>2. PICK i \in 1..VNodes : R[x] = Ahead(h, place[x][i])
    BY <1>7, <2>1
  <2>3. PICK j \in DOMAIN keys : keys[j] = place[x][i]
    BY <1>4, <2>1
  <2> QED BY <1>1, <2>1, <2>2, <2>3
<1> QED BY <1>5, <1>8, <1>9 DEF Reaches, R

\* ring.go:84: without collisions GetNodes returns the nearest members, nearest
\* first, whatever was added and removed before.
THEOREM Nearest == Spec => []NearestFirst
<1>1. KeysInv => NearestFirst
  <2> SUFFICES ASSUME KeysInv, NoCollision, NEW h \in Positions, NEW count \in 1..Cardinality(Nodes)
               PROVE  LET nodes == GetNodes(h, count)
                      IN  /\ ToSet(nodes) = FirstClockwise(nodesMap, Distance(h), count)
                          /\ Len(nodes) = Min({count, Cardinality(nodesMap)})
                          /\ \A i, j \in DOMAIN nodes :
                               i < j => Distance(h)[nodes[i]] < Distance(h)[nodes[j]]
    BY DEF NearestFirst
  <2> DEFINE r == Select(keys, ring, h, count)
             nodes == GetNodes(h, count)
             N == Len(keys)
             D == Distance(h)
  <2>1. Owners(keys, ring) = nodesMap /\ Reaches(D, keys, ring, h)
    BY MembersReach
  <2>2. N \in Nat /\ keys \in [1..N -> Positions] /\ InOrder(keys)
    BY DEF KeysInv
  <2>3. count \in Nat
    OBVIOUS
  <2> HIDE DEF r, N, D
  <2>4. /\ ToSet(r) = FirstClockwise(Owners(keys, ring), D, count)
        /\ DOMAIN r = 1..Min({count, Cardinality(Owners(keys, ring))})
        /\ \A k, l \in DOMAIN r : k < l => D[r[k]] < D[r[l]]
        /\ Cardinality(Owners(keys, ring)) \in Nat /\ IsFiniteSet(Owners(keys, ring))
    BY <2>1, <2>2, <2>3, SelectNearest DEF r
  <2>5. CASE nodesMap = {}
    <3>1. nodes = <<>>
      BY <2>5 DEF GetNodes
    <3>2. Min({count, Cardinality(nodesMap)}) = 0
      <4>1. Cardinality(nodesMap) = 0
        BY <2>5, FS_EmptySet
      <4> QED BY <2>3, <4>1, MinPair
    <3>3. FirstClockwise(nodesMap, D, count) = {}
      BY <2>5 DEF FirstClockwise
    <3>4. ToSet(nodes) = {} /\ Len(nodes) = 0 /\ DOMAIN nodes = {}
      BY <3>1 DEF ToSet
    <3> HIDE DEF nodes
    <3> QED BY <3>2, <3>3, <3>4 DEF D, nodes
  <2>6. CASE nodesMap # {}
    <3>1. nodes = r
      BY <2>6 DEF GetNodes, r
    <3> DEFINE L == Min({count, Cardinality(nodesMap)})
    <3>2. L \in Nat
      BY <2>1, <2>3, <2>4, MinPair
    <3>3. DOMAIN r = 1..L
      BY <2>1, <2>4
    <3> HIDE DEF L, nodes
    <3>4. Len(r) = L
      BY <3>2, <3>3
    <3> QED BY <2>1, <2>4, <3>1, <3>4 DEF L, D, nodes
  <2> QED BY <2>5, <2>6
<1> QED BY <1>1, KeysInvariant, PTL

\* ring.go:103-120: also when keys collide, a chunk is placed on members only,
\* on none twice, and an owner is missing only where keys collide.
THEOREM MembersOnly == Spec => []OnlyMembers
<1>1. KeysInv => OnlyMembers
  <2> SUFFICES ASSUME KeysInv, NEW h \in Positions
               PROVE  LET nodes == GetNodes(h, Cardinality(Nodes))
                      IN  /\ IsInjective(nodes)
                          /\ ToSet(nodes) \subseteq nodesMap \cup {NoNode}
                          /\ NoNode \in ToSet(nodes) => ~NoCollision
    BY DEF OnlyMembers
  <2> DEFINE count == Cardinality(Nodes)
             r == Select(keys, ring, h, count)
             nodes == GetNodes(h, count)
             N == Len(keys)
             R == Reach(keys, ring, h)
             O == Owners(keys, ring)
  <2>1. N \in Nat /\ keys \in [1..N -> Positions] /\ InOrder(keys)
    BY DEF KeysInv
  <2>2. count \in Nat
    BY HashRingAssumption, FS_CardinalityType
  <2> HIDE DEF r, N, R, count
  <2>3. Reaches(R, keys, ring, h)
    BY <2>1, ReachOf DEF R
  <2>4. /\ ToSet(r) = FirstClockwise(O, R, count)
        /\ DOMAIN r = 1..Min({count, Cardinality(O)})
        /\ \A k, l \in DOMAIN r : k < l => R[r[k]] < R[r[l]]
        /\ Cardinality(O) \in Nat /\ IsFiniteSet(O)
    BY <2>1, <2>2, <2>3, SelectNearest DEF r
  <2>5. \A x \in O : R[x] \in Nat
    BY <2>3 DEF Reaches, Owners
  <2>6. O \subseteq nodesMap \cup {NoNode}
    BY <2>1 DEF Owners, KeysInv
  <2>7. NoCollision => NoNode \notin O
    <3>1. NoCollision => O = nodesMap
      BY MembersReach
    <3>2. NoNode \notin nodesMap
      BY HashRingAssumption DEF KeysInv
    <3> QED BY <3>1, <3>2
  <2> HIDE DEF O
  <2>8. ToSet(r) \subseteq O
    BY <2>4 DEF FirstClockwise
  <2>9. IsInjective(r)
    <3> DEFINE L == Min({count, Cardinality(O)})
    <3>1. L \in Nat
      BY <2>2, <2>4, MinPair
    <3>2. \A k \in DOMAIN r : r[k] \in ToSet(r)
      BY DEF ToSet
    <3>3. \A k \in DOMAIN r : R[r[k]] \in Nat
      BY <2>5, <2>8, <3>2
    <3>4. DOMAIN r = 1..L
      BY <2>4
    <3> HIDE DEF L
    <3> QED BY <2>4, <3>1, <3>3, <3>4, SortedInjective
  <2>10. CASE nodesMap = {}
    <3>1. nodes = <<>>
      BY <2>10 DEF GetNodes
    <3>2. ToSet(nodes) = {} /\ IsInjective(nodes)
      BY <3>1 DEF ToSet, IsInjective
    <3> HIDE DEF nodes
    <3> QED BY <3>2 DEF nodes, count
  <2>11. CASE nodesMap # {}
    <3>1. nodes = r
      BY <2>11 DEF GetNodes, r
    <3> HIDE DEF nodes
    <3> QED BY <2>6, <2>7, <2>8, <2>9, <3>1 DEF nodes, count
  <2> QED BY <2>10, <2>11
<1> QED BY <1>1, KeysInvariant, PTL
-----------------------------------------------------------------------------
(***************************************************************************)
(* What a change of the members moves.                                     *)
(***************************************************************************)

\* Two rings of which one has all the owners of the other, at the same keys:
\* whoever the larger one selects of them, the smaller one selects.
LEMMA SelectedAmongFewer ==
    ASSUME NEW N \in Nat, NEW ks \in [1..N -> Positions], InOrder(ks), NEW ofKs,
           NEW M \in Nat, NEW ls \in [1..M -> Positions], InOrder(ls), NEW ofLs,
           NEW h \in Positions, NEW count \in Nat,
           \A x \in Owners(ks, ofKs) : \A p \in Positions :
             (p \in ToSet(ks) /\ ofKs[p] = x) <=> (p \in ToSet(ls) /\ ofLs[p] = x)
    PROVE  \A x \in Owners(ks, ofKs) : x \in ToSet(Select(ls, ofLs, h, count))
                                      => x \in ToSet(Select(ks, ofKs, h, count))
<1> SUFFICES ASSUME NEW x \in Owners(ks, ofKs), x \in ToSet(Select(ls, ofLs, h, count))
             PROVE  x \in ToSet(Select(ks, ofKs, h, count))
  OBVIOUS
<1> DEFINE rk == Reach(ks, ofKs, h)
           rl == Reach(ls, ofLs, h)
           sk == Select(ks, ofKs, h, count)
           sl == Select(ls, ofLs, h, count)
           S == Owners(ks, ofKs)
           T == Owners(ls, ofLs)
<1>1. Reaches(rk, ks, ofKs, h) /\ Reaches(rl, ls, ofLs, h)
  BY ReachOf
<1> HIDE DEF rk, rl, sk, sl
<1>2. /\ ToSet(sk) = FirstClockwise(S, rk, count)
      /\ DOMAIN sk = 1..Min({count, Cardinality(S)})
      /\ \A k, l \in DOMAIN sk : k < l => rk[sk[k]] < rk[sk[l]]
      /\ Cardinality(S) \in Nat /\ IsFiniteSet(S)
  BY <1>1, SelectNearest DEF sk
<1>3. /\ ToSet(sl) = FirstClockwise(T, rl, count)
      /\ DOMAIN sl = 1..Min({count, Cardinality(T)})
      /\ \A k, l \in DOMAIN sl : k < l => rl[sl[k]] < rl[sl[l]]
      /\ Cardinality(T) \in Nat /\ IsFiniteSet(T)
  BY <1>1, SelectNearest DEF sl
<1>4. ASSUME NEW y \in S PROVE y \in T /\ rk[y] = rl[y]
  <2>1. \A p \in Positions : Ahead(h, p) \in Nat
    <3> SUFFICES ASSUME NEW p \in Positions PROVE Ahead(h, p) \in Nat
      OBVIOUS
    <3>1. Ahead(h, p) \in 0..(Keys - 1)
      BY AheadOf
    <3> QED BY <3>1
  <2>2. /\ \A p \in Positions : p \in ToSet(ks) <=> \E i \in 1..N : p = ks[i]
        /\ \A p \in Positions : p \in ToSet(ls) <=> \E i \in 1..M : p = ls[i]
    BY DEF ToSet
  <2>3. PICK i \in 1..N : ofKs[ks[i]] = y /\ rk[y] = Ahead(h, ks[i])
    BY <1>1 DEF Reaches
  <2>4. PICK i2 \in 1..M : ls[i2] = ks[i] /\ ofLs[ls[i2]] = y
    <3>1. ks[i] \in Positions /\ ks[i] \in ToSet(ks)
      BY <2>2
    <3>2. ks[i] \in ToSet(ls) /\ ofLs[ks[i]] = y
      BY <2>3, <3>1
    <3> QED BY <2>2, <3>1, <3>2
  <2>5. y \in Owners(ls, ofLs)
    BY <2>4 DEF Owners
  <2>6. PICK j \in 1..M : ofLs[ls[j]] = y /\ rl[y] = Ahead(h, ls[j])
    BY <1>1, <2>5 DEF Reaches
  <2>7. PICK j2 \in 1..N : ks[j2] = ls[j] /\ ofKs[ks[j2]] = y
    <3>1. ls[j] \in Positions /\ ls[j] \in ToSet(ls)
      BY <2>2
    <3>2. ls[j] \in ToSet(ks) /\ ofKs[ls[j]] = y
      BY <2>6, <3>1
    <3> QED BY <2>2, <3>1, <3>2
  <2>8. rl[y] <= Ahead(h, ls[i2])
    BY <1>1, <2>4 DEF Reaches
  <2>9. rk[y] <= Ahead(h, ks[j2])
    BY <1>1, <2>7 DEF Reaches
  <2>10. Ahead(h, ks[i]) \in Nat /\ Ahead(h, ls[j]) \in Nat
    BY <2>1
  <2> QED BY <2>3, <2>4, <2>5, <2>6, <2>7, <2>8, <2>9, <2>10
<1>5. S \subseteq T /\ x \in S /\ x \in FirstClockwise(T, rl, count)
  BY <1>3, <1>4 DEF S, sl
<1>6. x \in FirstClockwise(S, rk, count)
  BY <1>3, <1>4, <1>5, FirstAmongFewer
<1> QED BY <1>2, <1>6 DEF sk

\* Only owners are selected.
LEMMA SelectedOwners ==
    ASSUME NEW N \in Nat, NEW ks \in [1..N -> Positions], InOrder(ks),
           NEW h \in Positions, NEW nodeOf, NEW count \in Nat
    PROVE  ToSet(Select(ks, nodeOf, h, count)) \subseteq Owners(ks, nodeOf)
<1> DEFINE R == Reach(ks, nodeOf, h)
           r == Select(ks, nodeOf, h, count)
<1>1. Reaches(R, ks, nodeOf, h)
  BY ReachOf
<1> HIDE DEF R, r
<1>2. /\ ToSet(r) = FirstClockwise(Owners(ks, nodeOf), R, count)
      /\ DOMAIN r = 1..Min({count, Cardinality(Owners(ks, nodeOf))})
      /\ \A k, l \in DOMAIN r : k < l => R[r[k]] < R[r[l]]
      /\ Cardinality(Owners(ks, nodeOf)) \in Nat /\ IsFiniteSet(Owners(ks, nodeOf))
  BY <1>1, SelectNearest DEF r
<1> QED BY <1>2 DEF FirstClockwise, r

\* A node that shares no key with the members takes chunks over from them.
LEMMA JoinMoves ==
    ASSUME KeysInv, KeysInv', NEW n \in Nodes, AddNode(n),
           ToSet(place[n]) \cap ToSet(keys) = {},
           NEW h \in Positions, NEW count \in Nat
    PROVE  ToSet(Select(keys', ring', h, count)) \ ToSet(Select(keys, ring, h, count)) \subseteq {n}
<1> DEFINE N == Len(keys)
           M == Len(keys')
           ls == keys'
           ofLs == ring'
           old == ToSet(Select(keys, ring, h, count))
           new == ToSet(Select(ls, ofLs, h, count))
<1>1. /\ place \in Places /\ n \notin nodesMap /\ nodesMap \in SUBSET Nodes
      /\ ring \in [Positions -> nodesMap \cup {NoNode}]
      /\ ofLs = [p \in Positions |-> IF p \in ToSet(place[n]) THEN n ELSE ring[p]]
      /\ n # NoNode
  BY HashRingAssumption DEF KeysInv, AddNode
<1>2. ToSet(ls) = ToSet(keys) \cup ToSet(place[n])
  BY KeysAdded
<1>3. /\ N \in Nat /\ keys \in [1..N -> Positions] /\ InOrder(keys)
      /\ M \in Nat /\ ls \in [1..M -> Positions] /\ InOrder(ls)
  BY DEF KeysInv
<1> HIDE DEF N, M, ls, ofLs
<1>4. \A p \in Positions : p \notin ToSet(place[n]) => ofLs[p] = ring[p]
  BY <1>1
<1>5. \A p \in Positions : ring[p] # n
  BY <1>1
<1>6. /\ \A i \in 1..N : keys[i] \in Positions /\ keys[i] \in ToSet(keys)
      /\ \A i \in 1..M : ls[i] \in Positions /\ ls[i] \in ToSet(ls)
  BY <1>3 DEF ToSet
<1>7. \A x \in Owners(keys, ring) : \A p \in Positions :
        (p \in ToSet(keys) /\ ring[p] = x) <=> (p \in ToSet(ls) /\ ofLs[p] = x)
  <2> SUFFICES ASSUME NEW x \in Owners(keys, ring), NEW p \in Positions
               PROVE  (p \in ToSet(keys) /\ ring[p] = x) <=> (p \in ToSet(ls) /\ ofLs[p] = x)
    OBVIOUS
  <2>1. x # n
    BY <1>3, <1>5, <1>6 DEF Owners
  <2>2. CASE p \in ToSet(place[n])
    <3>1. p \notin ToSet(keys) /\ ofLs[p] = n
      BY <1>1, <2>2
    <3> QED BY <2>1, <3>1
  <2>3. CASE p \notin ToSet(place[n])
    BY <1>2, <1>4, <2>3
  <2> QED BY <2>2, <2>3
<1>8. \A x \in Owners(ls, ofLs) : x = n \/ x \in Owners(keys, ring)
  <2> SUFFICES ASSUME NEW x \in Owners(ls, ofLs), x # n PROVE x \in Owners(keys, ring)
    OBVIOUS
  <2>1. PICK i \in 1..M : x = ofLs[ls[i]]
    BY <1>3 DEF Owners
  <2>2. ls[i] \notin ToSet(place[n])
    BY <1>1, <1>6, <2>1
  <2>3. ls[i] \in ToSet(keys) /\ x = ring[ls[i]]
    BY <1>2, <1>4, <1>6, <2>1, <2>2
  <2> QED BY <2>3 DEF ToSet, Owners
<1>9. \A x \in Owners(keys, ring) : x \in ToSet(Select(ls, ofLs, h, count))
                                   => x \in ToSet(Select(keys, ring, h, count))
  BY <1>3, <1>7, SelectedAmongFewer
<1>10. ToSet(Select(ls, ofLs, h, count)) \subseteq Owners(ls, ofLs)
  BY <1>3, SelectedOwners
<1>11. new \ old \subseteq {n}
  BY <1>8, <1>9, <1>10
<1> QED BY <1>11 DEF ls, ofLs

\* A node of which no key occurs twice gives only its own chunks away.
LEMMA LeaveMoves ==
    ASSUME KeysInv, KeysInv', NEW n \in Nodes, RemoveNode(n),
           \A i, j \in DOMAIN keys : keys[i] = keys[j] /\ i # j => ring[keys[i]] # n,
           NEW h \in Positions, NEW count \in Nat
    PROVE  ToSet(Select(keys, ring, h, count)) \ ToSet(Select(keys', ring', h, count)) \subseteq {n}
<1> DEFINE N == Len(keys)
           M == Len(keys')
           ls == keys'
           ofLs == ring'
           old == ToSet(Select(keys, ring, h, count))
           new == ToSet(Select(ls, ofLs, h, count))
<1>1. /\ n \in nodesMap /\ nodesMap \in SUBSET Nodes /\ n # NoNode
      /\ ring \in [Positions -> nodesMap \cup {NoNode}]
      /\ ofLs = [p \in Positions |-> IF ring[p] = n THEN NoNode ELSE ring[p]]
  BY HashRingAssumption DEF KeysInv, RemoveNode
<1>2. /\ \A p \in ToSet(keys) : ring[p] # n => p \in ToSet(ls)
      /\ \A p \in ToSet(ls) : p \in ToSet(keys) /\ ring[p] # n
  BY KeysKept
<1>3. /\ N \in Nat /\ keys \in [1..N -> Positions] /\ InOrder(keys)
      /\ M \in Nat /\ ls \in [1..M -> Positions] /\ InOrder(ls)
  BY DEF KeysInv
<1> HIDE DEF N, M, ls, ofLs
<1>4. \A p \in Positions : ring[p] # n => ofLs[p] = ring[p]
  BY <1>1
<1>5. \A p \in Positions : ofLs[p] # n
  BY <1>1
<1>6. /\ \A i \in 1..N : keys[i] \in Positions /\ keys[i] \in ToSet(keys)
      /\ \A i \in 1..M : ls[i] \in Positions /\ ls[i] \in ToSet(ls)
  BY <1>3 DEF ToSet
<1>7. \A x \in Owners(ls, ofLs) : \A p \in Positions :
        (p \in ToSet(ls) /\ ofLs[p] = x) <=> (p \in ToSet(keys) /\ ring[p] = x)
  <2> SUFFICES ASSUME NEW x \in Owners(ls, ofLs), NEW p \in Positions
               PROVE  (p \in ToSet(ls) /\ ofLs[p] = x) <=> (p \in ToSet(keys) /\ ring[p] = x)
    OBVIOUS
  <2>1. x # n
    BY <1>3, <1>5, <1>6 DEF Owners
  <2> QED BY <1>2, <1>4, <2>1
<1>8. \A x \in Owners(keys, ring) : x = n \/ x \in Owners(ls, ofLs)
  <2> SUFFICES ASSUME NEW x \in Owners(keys, ring), x # n PROVE x \in Owners(ls, ofLs)
    OBVIOUS
  <2>1. PICK i \in 1..N : x = ring[keys[i]]
    BY <1>3 DEF Owners
  <2>2. keys[i] \in ToSet(ls) /\ x = ofLs[keys[i]]
    BY <1>2, <1>4, <1>6, <2>1
  <2> QED BY <2>2 DEF ToSet, Owners
<1>9. \A x \in Owners(ls, ofLs) : x \in ToSet(Select(keys, ring, h, count))
                               => x \in ToSet(Select(ls, ofLs, h, count))
  BY <1>3, <1>7, SelectedAmongFewer
<1>10. ToSet(Select(keys, ring, h, count)) \subseteq Owners(keys, ring)
  BY <1>3, SelectedOwners
<1>11. old \ new \subseteq {n}
  BY <1>8, <1>9, <1>10
<1> QED BY <1>11 DEF ls, ofLs

\* learning.md:561 and ring.go:34-75: a node that joins or leaves moves no chunk
\* between the others, unless it shares a key with one of them.
THEOREM ChangesAreMinimal == Spec => MinimalMove
<1>1. ASSUME KeysInv, KeysInv', [Next]_vars PROVE [MoveStep]_vars
  <2> SUFFICES ASSUME Next PROVE MoveStep
    BY <1>1
  <2> SUFFICES ASSUME NEW ks \in {keys'}, NEW nodeOf \in {ring'}, NEW h \in Positions,
                      NEW count \in 1..Cardinality(Nodes)
               PROVE  LET old == ToSet(Select(keys, ring, h, count))
                          new == ToSet(Select(ks, nodeOf, h, count))
                      IN  /\ \A n \in nodesMap' \ nodesMap :
                                ToSet(place[n]) \cap ToSet(keys) = {} => new \ old \subseteq {n}
                          /\ \A n \in nodesMap \ nodesMap' :
                                (\A i, j \in DOMAIN keys : keys[i] = keys[j] /\ i # j => ring[keys[i]] # n)
                                  => old \ new \subseteq {n}
    BY DEF MoveStep
  <2>1. ks = keys' /\ nodeOf = ring' /\ count \in Nat
    OBVIOUS
  <2>2. ASSUME NEW m \in Nodes, AddNode(m),
               NEW n \in nodesMap' \ nodesMap, ToSet(place[n]) \cap ToSet(keys) = {}
        PROVE  ToSet(Select(ks, nodeOf, h, count)) \ ToSet(Select(keys, ring, h, count)) \subseteq {n}
    <3>1. n = m
      BY <2>2 DEF AddNode
    <3>2. n \in Nodes /\ AddNode(n)
      BY <2>2, <3>1
    <3> QED BY <1>1, <2>1, <2>2, <3>2, JoinMoves
  <2>3. ASSUME NEW m \in Nodes, RemoveNode(m), NEW n \in nodesMap \ nodesMap',
               \A i, j \in DOMAIN keys : keys[i] = keys[j] /\ i # j => ring[keys[i]] # n
        PROVE  ToSet(Select(keys, ring, h, count)) \ ToSet(Select(ks, nodeOf, h, count)) \subseteq {n}
    <3>1. n = m
      BY <2>3 DEF RemoveNode
    <3>2. n \in Nodes /\ RemoveNode(n)
      BY <2>3, <3>1
    <3> QED BY <1>1, <2>1, <2>3, <3>2, LeaveMoves
  <2>4. ASSUME NEW m \in Nodes, AddNode(m) PROVE nodesMap \ nodesMap' = {}
    BY <2>4 DEF AddNode
  <2>5. ASSUME NEW m \in Nodes, RemoveNode(m) PROVE nodesMap' \ nodesMap = {}
    BY <2>5 DEF RemoveNode
  <2> QED BY <2>2, <2>3, <2>4, <2>5 DEF Next
<1> QED BY <1>1, KeysInvariant, PTL DEF Spec, MinimalMove
=============================================================================
