--------------------------- MODULE HashRingProofs ---------------------------
(***************************************************************************)
(* Theorems about HashRing, for any addresses, keys and hash functions and *)
(* for any number of nodes that come and go.                               *)
(***************************************************************************)
EXTENDS HashRing, FiniteSetTheorems, TLAPS

USE RingAssumption

\* A finite set of integers has a smallest element, the one Min chooses.
LEMMA MinExists ==
    ASSUME NEW S \in SUBSET Int, IsFiniteSet(S), S # {}
    PROVE  Min(S) \in S /\ \A y \in S : Min(S) <= y
<1> DEFINE Below(x) == {y \in S : y < x}
           T == {Below(x) : x \in S}
           R == StrictSubsetOrdering(S)
<1>1. T \subseteq FiniteSubsetsOf(S) /\ T # {}
  <2>1. \A x \in S : Below(x) \in SUBSET S
    OBVIOUS
  <2>2. \A x \in S : IsFiniteSet(Below(x))
    <3> HIDE DEF Below
    <3> QED
      BY <2>1, FS_Subset
  <2> QED
    BY <2>1, <2>2 DEF FiniteSubsetsOf
<1>2. IsWellFoundedOn(R, FiniteSubsetsOf(S))
  BY FS_StrictSubsetOrderingWellFounded
<1>3. \E t \in T : \A u \in T : ~(<<u, t>> \in R)
  <2> HIDE DEF T, R
  <2> QED
    BY <1>1, <1>2, WFMin
<1>4. PICK x \in S : \A y \in S : ~(<<Below(y), Below(x)>> \in R)
  BY <1>3
<1>5. \A y \in S : x <= y
  <2> SUFFICES ASSUME NEW y \in S, y < x PROVE FALSE
    OBVIOUS
  <2>1. Below(y) \subseteq Below(x) /\ Below(y) # Below(x)
    <3>1. y \in Below(x) /\ y \notin Below(y)
      OBVIOUS
    <3>2. \A z \in S : z < y => z < x
      OBVIOUS
    <3> QED
      BY <3>1, <3>2
  <2>2. <<Below(y), Below(x)>> \in R
    BY <2>1 DEF StrictSubsetOrdering
  <2> QED
    BY <1>4, <2>2
<1> QED
  BY <1>5 DEF Min

\* lower_bound, with the wrap to begin(): the position it finds is met before every other
\* one on the walk from p.
LEMMA LowerBoundIsFirst ==
    ASSUME NEW r, DOMAIN r \subseteq Int, IsFiniteSet(DOMAIN r), DOMAIN r # {}, NEW p \in Int
    PROVE  /\ LowerBound(r, p) \in DOMAIN r
           /\ \A s \in DOMAIN r : s # LowerBound(r, p) => MetBefore(LowerBound(r, p), s, p)
<1> DEFINE after == {q \in DOMAIN r : q >= p}
<1>1. CASE after # {}
  <2>1. IsFiniteSet(after) /\ after \in SUBSET Int
    BY FS_Subset
  <2>2. LowerBound(r, p) = Min(after)
    BY <1>1 DEF LowerBound
  <2>3. Min(after) \in after /\ \A y \in after : Min(after) <= y
    <3> HIDE DEF after
    <3> QED
      BY <1>1, <2>1, MinExists
  <2> QED
    BY <2>2, <2>3 DEF MetBefore
<1>2. CASE after = {}
  <2>1. LowerBound(r, p) = Min(DOMAIN r)
    BY <1>2 DEF LowerBound
  <2>2. Min(DOMAIN r) \in DOMAIN r /\ \A y \in DOMAIN r : Min(DOMAIN r) <= y
    BY MinExists
  <2> QED
    BY <1>2, <2>1, <2>2 DEF MetBefore
<1> QED
  BY <1>1, <1>2

\* Only one of two positions can be met before the other.
LEMMA MetOnce ==
    ASSUME NEW q \in Int, NEW s \in Int, NEW p \in Int, MetBefore(q, s, p), MetBefore(s, q, p)
    PROVE  FALSE
BY DEF MetBefore

-----------------------------------------------------------------------------
\* Every entry sits at its own hash; the ring is finite.
EntryInv == IsFiniteSet(DOMAIN ring) /\ \A q \in DOMAIN ring : hashKey[ring[q]] = q

\* The inductive invariant: every entry is at its own hash, and there are finitely many.
RingInv == TypeOK /\ EntryInv /\ RingHoldsMembers

\* The empty ring.
LEMMA InitRing == Init => RingInv
<1> SUFFICES ASSUME Init PROVE RingInv
  OBVIOUS
<1>1. DOMAIN ring = {} /\ members = {} /\ hashKey \in HashFunctions
  BY DEF Init
<1>2. IsFiniteSet(DOMAIN ring)
  BY <1>1, FS_EmptySet
<1> QED
  BY <1>1, <1>2 DEF RingInv, TypeOK, EntryInv, RingHoldsMembers, GetAllNodes

\* addNode overwrites at most the entry at its own hash.
LEMMA AddStep ==
    ASSUME RingInv, NEW a \in Address, AddNode(a)
    PROVE  RingInv'
<1> USE DEF RingInv
<1>1. /\ hashKey' = hashKey /\ hashKey \in [Address \cup Key -> Int] /\ members' = members \cup {a}
      /\ DOMAIN ring' = DOMAIN ring \cup {hashKey[a]} /\ ring'[hashKey[a]] = a
      /\ \A q \in DOMAIN ring : q # hashKey[a] => ring'[q] = ring[q]
  BY DEF AddNode, WithNode, TypeOK
<1>2. TypeOK'
  BY <1>1 DEF TypeOK
<1>3. EntryInv'
  <2>1. IsFiniteSet(DOMAIN ring')
    BY <1>1, FS_AddElement DEF EntryInv
  <2>2. \A q \in DOMAIN ring' : hashKey'[ring'[q]] = q
    BY <1>1 DEF EntryInv
  <2> QED
    BY <2>1, <2>2 DEF EntryInv
<1>4. GetAllNodes(ring') \subseteq members'
  BY <1>1 DEF RingHoldsMembers, GetAllNodes
<1>5. ASSUME NoCollision PROVE members' \subseteq GetAllNodes(ring')
  <2> SUFFICES ASSUME NEW b \in members' PROVE \E q \in DOMAIN ring' : ring'[q] = b
    BY DEF GetAllNodes
  <2>1. CASE b = a
    BY <1>1, <2>1
  <2>2. CASE b # a
    <3>1. b \in members /\ b \in Address
      BY <1>1, <2>2 DEF TypeOK
    <3>2. PICK q \in DOMAIN ring : ring[q] = b
      BY <1>5, <3>1 DEF RingHoldsMembers, GetAllNodes
    <3>3. q # hashKey[a]
      BY <1>5, <2>2, <3>1, <3>2 DEF EntryInv, NoCollision
    <3> QED
      BY <1>1, <3>2, <3>3
  <2> QED
    BY <2>1, <2>2
<1>6. RingHoldsMembers'
  BY <1>1, <1>3, <1>4, <1>5 DEF RingHoldsMembers, EntryInv, NoCollision
<1> QED
  BY <1>2, <1>3, <1>6

\* removeNode erases what is at the hash, which is the address itself or a namesake.
LEMMA RemoveStep ==
    ASSUME RingInv, NEW a \in Address, RemoveNode(a)
    PROVE  RingInv'
<1> USE DEF RingInv
<1>1. /\ hashKey' = hashKey /\ hashKey \in [Address \cup Key -> Int] /\ members' = members \ {a}
      /\ DOMAIN ring' = DOMAIN ring \ {hashKey[a]}
      /\ \A q \in DOMAIN ring' : ring'[q] = ring[q]
  BY DEF RemoveNode, WithoutNode, TypeOK
<1>2. TypeOK'
  BY <1>1 DEF TypeOK
<1>3. EntryInv'
  <2>1. IsFiniteSet(DOMAIN ring')
    BY <1>1, FS_RemoveElement DEF EntryInv
  <2>2. \A q \in DOMAIN ring' : hashKey'[ring'[q]] = q
    BY <1>1 DEF EntryInv
  <2> QED
    BY <2>1, <2>2 DEF EntryInv
<1>4. GetAllNodes(ring') \subseteq members'
  <2> SUFFICES ASSUME NEW q \in DOMAIN ring' PROVE ring'[q] \in members \ {a}
    BY <1>1 DEF GetAllNodes
  <2>1. ring[q] \in members /\ hashKey[ring[q]] = q /\ q # hashKey[a]
    BY <1>1 DEF RingHoldsMembers, GetAllNodes, EntryInv
  <2> QED
    BY <1>1, <2>1
<1>5. ASSUME NoCollision PROVE members' \subseteq GetAllNodes(ring')
  <2> SUFFICES ASSUME NEW b \in members, b # a PROVE \E q \in DOMAIN ring' : ring'[q] = b
    BY <1>1 DEF GetAllNodes
  <2>1. PICK q \in DOMAIN ring : ring[q] = b
    BY <1>5 DEF RingHoldsMembers, GetAllNodes
  <2>2. q # hashKey[a]
    BY <1>5, <2>1 DEF EntryInv, NoCollision, TypeOK
  <2> QED
    BY <1>1, <2>1, <2>2
<1>6. RingHoldsMembers'
  BY <1>1, <1>3, <1>4, <1>5 DEF RingHoldsMembers, EntryInv, NoCollision
<1> QED
  BY <1>2, <1>3, <1>6

\* Every step keeps the invariant.
LEMMA RingStep ==
    ASSUME RingInv, [Next]_vars
    PROVE  RingInv'
<1>1. CASE UNCHANGED vars
  BY <1>1 DEF vars, RingInv, TypeOK, EntryInv, RingHoldsMembers, NoCollision, GetAllNodes
<1> QED
  BY <1>1, AddStep, RemoveStep DEF Next

\* It is an invariant.
LEMMA RingAlways == Spec => []RingInv
BY InitRing, RingStep, PTL DEF Spec

\* The ring stays a map from hashes of addresses to addresses.
THEOREM RingTypeCorrect == Spec => []TypeOK
BY RingAlways, PTL DEF RingInv

\* After any sequence of addNode and removeNode, with collisions or without, the ring
\* names only members, each at its own hash, and without collisions all of them.
THEOREM RingIsItsMembers == Spec => []RingHoldsMembers
BY RingAlways, PTL DEF RingInv

\* A change of the ring moves a key only to a node that came or from one that went
\* (getNodeForKey before and after addNode or removeNode): of two nodes that are in the
\* ring before and after, the walk from the key meets the same one first.
THEOREM KeysMoveMinimally == Spec => MinimalMovement
<1> DEFINE Moves == \A k \in Key :
              LET old == GetNodeForKey(hashKey, ring, k)
                  new == GetNodeForKey(hashKey, ring', k)
              IN  old # new => old \notin GetAllNodes(ring') \/ new \notin GetAllNodes(ring)
<1>1. ASSUME RingInv, RingInv', [Next]_vars PROVE Moves
  <2> DEFINE old(k) == GetNodeForKey(hashKey, ring, k)
             new(k) == GetNodeForKey(hashKey, ring', k)
  <2> SUFFICES ASSUME NEW k \in Key, old(k) # new(k),
                      old(k) \in GetAllNodes(ring'), new(k) \in GetAllNodes(ring)
               PROVE  FALSE
    OBVIOUS
  <2>1. hashKey' = hashKey /\ hashKey \in [Address \cup Key -> Int]
    BY <1>1 DEF Next, AddNode, RemoveNode, vars, RingInv, TypeOK
  <2>2. /\ DOMAIN ring \subseteq Int /\ IsFiniteSet(DOMAIN ring)
        /\ DOMAIN ring' \subseteq Int /\ IsFiniteSet(DOMAIN ring')
        /\ \A q \in DOMAIN ring : hashKey[ring[q]] = q /\ ring[q] \in Address
        /\ \A q \in DOMAIN ring' : hashKey[ring'[q]] = q /\ ring'[q] \in Address
    BY <1>1, <2>1 DEF RingInv, TypeOK, EntryInv
  <2>3. DOMAIN ring # {} /\ DOMAIN ring' # {}
    BY <2>2 DEF GetAllNodes, GetNodeForKey
  <2> DEFINE p == hashKey[k]
             q == LowerBound(ring, p)
             s == LowerBound(ring', p)
  <2>4. p \in Int /\ old(k) = ring[q] /\ new(k) = ring'[s]
    BY <2>1, <2>3 DEF GetNodeForKey
  <2>5. q \in DOMAIN ring /\ \A t \in DOMAIN ring : t # q => MetBefore(q, t, p)
    BY <2>2, <2>3, <2>4, LowerBoundIsFirst
  <2>6. s \in DOMAIN ring' /\ \A t \in DOMAIN ring' : t # s => MetBefore(s, t, p)
    BY <2>2, <2>3, <2>4, LowerBoundIsFirst
  <2> HIDE DEF p, q, s, old, new
  <2>7. q \in DOMAIN ring' /\ ring'[q] = old(k)
    <3>1. PICK t \in DOMAIN ring' : ring'[t] = old(k)
      BY DEF GetAllNodes
    <3>2. t = q
      BY <2>2, <2>4, <2>5, <3>1
    <3> QED
      BY <3>1, <3>2
  <2>8. s \in DOMAIN ring
    <3>1. PICK t \in DOMAIN ring : ring[t] = new(k)
      BY DEF GetAllNodes
    <3>2. t = s
      BY <2>2, <2>4, <2>6, <3>1
    <3> QED
      BY <3>1, <3>2
  <2>9. q # s
    BY <2>4, <2>7
  <2> QED
    BY <2>2, <2>4, <2>5, <2>6, <2>7, <2>8, <2>9, MetOnce
<1>2. RingInv /\ RingInv' /\ [Next]_vars => [Moves]_vars
  BY <1>1
<1>3. MinimalMovement <=> [][Moves]_vars
  BY PTL DEF MinimalMovement
<1> QED
  BY <1>2, <1>3, RingAlways, PTL DEF Spec

-----------------------------------------------------------------------------
(* The walk of getNodesForKey.                                             *)

\* The positions of a finite map can be listed in ascending order, and Keys lists all of them.
IsAscending(s, n, D) ==
    /\ n \in Nat /\ s \in [1..n -> D]
    /\ \A i, j \in 1..n : i < j => s[i] < s[j]
    /\ \A q \in D : \E i \in 1..n : s[i] = q

LEMMA KeysAscend ==
    ASSUME NEW r, DOMAIN r \subseteq Int, IsFiniteSet(DOMAIN r)
    PROVE  IsAscending(Keys(r), Cardinality(DOMAIN r), DOMAIN r)
<1> DEFINE D == DOMAIN r
           n == Cardinality(D)
           Below(q) == {s \in D : s < q}
           rank == [q \in D |-> Cardinality(Below(q)) + 1]
<1>1. n \in Nat
  BY FS_CardinalityType
<1>2. ASSUME NEW q \in D
      PROVE  IsFiniteSet(Below(q)) /\ Cardinality(Below(q)) \in Nat /\ Cardinality(Below(q)) < n
  <2>1. Below(q) \in SUBSET D /\ Below(q) # D
    OBVIOUS
  <2> HIDE DEF Below
  <2>2. IsFiniteSet(Below(q)) /\ Cardinality(Below(q)) <= n /\ Cardinality(Below(q)) # n
    BY <2>1, FS_Subset
  <2>3. Cardinality(Below(q)) \in Nat
    BY <2>2, FS_CardinalityType
  <2> QED
    BY <1>1, <2>2, <2>3
<1>3. ASSUME NEW q \in D, NEW s \in D, q < s
      PROVE  Cardinality(Below(q)) < Cardinality(Below(s))
  <2>1. Below(q) \in SUBSET Below(s) /\ Below(q) # Below(s)
    <3>1. q \in Below(s) /\ q \notin Below(q)
      BY <1>3
    <3>2. \A t \in D : t < q => t < s
      BY <1>3
    <3> QED
      BY <3>1, <3>2
  <2> HIDE DEF Below
  <2>2. Cardinality(Below(q)) <= Cardinality(Below(s)) /\ Cardinality(Below(q)) # Cardinality(Below(s))
    BY <1>2, <2>1, FS_Subset
  <2> QED
    BY <1>2, <2>2
<1>4. /\ rank \in [D -> 1..n]
      /\ \A q, s \in D : q < s => rank[q] < rank[s]
  <2> HIDE DEF Below
  <2>1. \A q \in D : Cardinality(Below(q)) + 1 \in 1..n
    BY <1>1, <1>2
  <2>2. \A q, s \in D : q < s => Cardinality(Below(q)) + 1 < Cardinality(Below(s)) + 1
    BY <1>2, <1>3
  <2> QED
    BY <2>1, <2>2
<1> HIDE DEF rank, Below
<1>5. IsFiniteSet(1..n) /\ Cardinality(1..n) = n
  BY <1>1, FS_Interval
<1>6. \A i \in 1..n : \E q \in D : rank[q] = i
  <2>1. \A q, s \in D : rank[q] = rank[s] => q = s
    <3> SUFFICES ASSUME NEW q \in D, NEW s \in D, rank[q] = rank[s], q # s PROVE FALSE
      OBVIOUS
    <3>1. q < s \/ s < q
      OBVIOUS
    <3>2. rank[q] \in Int /\ rank[s] \in Int
      BY <1>1, <1>4
    <3> QED
      BY <1>4, <3>1, <3>2
  <2>2. rank \in Injection(D, 1..n)
    BY <1>4, <2>1 DEF Injection, IsInjective
  <2>3. rank \in Surjection(D, 1..n)
    BY <1>5, <2>2, FS_Injection
  <2> QED
    BY <2>3 DEF Surjection
<1> DEFINE f == [i \in 1..n |-> CHOOSE q \in D : rank[q] = i]
<1>7. f \in [1..n -> D] /\ \A i \in 1..n : f[i] \in D /\ rank[f[i]] = i
  BY <1>6
<1> HIDE DEF f
<1>8. ASSUME NEW i \in 1..n, NEW j \in 1..n, i < j
      PROVE  f[i] < f[j]
  <2>1. f[i] \in Int /\ f[j] \in Int /\ f[i] \in D /\ f[j] \in D /\ i \in Int /\ j \in Int
    BY <1>1, <1>7
  <2>2. f[i] # f[j] /\ ~(f[j] < f[i])
    BY <1>4, <1>7, <1>8, <2>1
  <2> QED
    BY <2>1, <2>2
<1> DEFINE Up(s) == \A i, j \in 1..n : i < j => s[i] < s[j]
<1>9. Keys(r) \in [1..n -> D] /\ Up(Keys(r))
  <2>1. \E s \in [1..n -> D] : Up(s)
    BY <1>7, <1>8
  <2>2. Keys(r) = CHOOSE s \in [1..n -> D] : Up(s)
    BY DEF Keys
  <2> HIDE DEF Up
  <2> QED
    BY <2>1, <2>2, Zenon
<1>10. \A q \in D : \E i \in 1..n : Keys(r)[i] = q
  <2> DEFINE k == Keys(r)
  <2>1. k \in [1..n -> D] /\ Up(k)
    BY <1>9
  <2> HIDE DEF k
  <2>2. \A i, j \in 1..n : k[i] = k[j] => i = j
    <3> SUFFICES ASSUME NEW i \in 1..n, NEW j \in 1..n, k[i] = k[j], i # j PROVE FALSE
      OBVIOUS
    <3>1. k[i] \in Int /\ k[j] \in Int /\ (i < j \/ j < i)
      BY <1>1, <2>1
    <3> QED
      BY <2>1, <3>1
  <2>3. k \in Injection(1..n, D)
    BY <2>1, <2>2 DEF Injection, IsInjective
  <2>4. k \in Surjection(1..n, D)
    BY <1>5, <2>3, FS_Injection
  <2> QED
    BY <2>4 DEF Surjection, k
<1> QED
  BY <1>1, <1>9, <1>10 DEF IsAscending

\* w lists all positions of D in the order in which the walk from p meets them.
IsWalk(w, n, D, p) ==
    /\ n \in Nat /\ w \in [1..n -> D] /\ D \subseteq Int /\ p \in Int
    /\ \A i, j \in 1..n : i < j => MetBefore(w[i], w[j], p)
    /\ \A q \in D : \E i \in 1..n : w[i] = q

\* (startIndex + i) % keys.size() goes round once.
LEMMA RoundIndex ==
    ASSUME NEW n \in Nat \ {0}, NEW x \in 0..(n + n - 1)
    PROVE  x % n = IF x < n THEN x ELSE x - n
<1>1. CASE x < n
  BY <1>1, SMT
<1>2. CASE x >= n
  <2>1. PICK y \in 0..(n - 1) : y = x - n /\ x = n + y
    BY <1>2
  <2>2. (n + y) % n = y
    BY SMT
  <2> QED
    BY <1>2, <2>1, <2>2
<1> QED
  BY <1>1, <1>2

\* From the first position at or behind p, to the end and then from the beginning.
StartsRound(start, keys, n, D, p) ==
    /\ D \subseteq Int /\ n \in Nat \ {0} /\ IsAscending(keys, n, D)
    /\ p \in Int /\ start \in 1..n
    /\ keys[start] >= p \/ (start = 1 /\ \A i \in 1..n : keys[i] < p)
    /\ \A i \in 1..n : i < start => keys[i] < p

LEMMA RoundIsWalk ==
    ASSUME NEW D, NEW n, NEW keys, NEW p, NEW start, StartsRound(start, keys, n, D, p)
    PROVE  IsWalk(Visited(keys, start), n, D, p) /\ Visited(keys, start)[1] = keys[start]
<1> USE DEF StartsRound
<1> DEFINE w == Visited(keys, start)
           Place(i) == IF start + i - 1 <= n THEN start + i - 1 ELSE start + i - 1 - n
<1>1. keys \in [1..n -> D] /\ \A i, j \in 1..n : i < j => keys[i] < keys[j]
  BY DEF IsAscending
<1>2. Len(keys) = n
  BY <1>1
<1>3. ASSUME NEW i \in 1..n
      PROVE  Place(i) \in 1..n /\ ((start - 1 + i - 1) % n) + 1 = Place(i)
  <2>1. PICK x \in 0..(n + n - 1) : x = start - 1 + i - 1
    OBVIOUS
  <2>2. x % n = IF x < n THEN x ELSE x - n
    BY RoundIndex
  <2>3. PICK y \in Int : y = x % n /\ y = IF x < n THEN x ELSE x - n
    BY <2>2
  <2>4. y + 1 = Place(i) /\ Place(i) \in 1..n
    BY <2>1, <2>3
  <2> HIDE DEF Place
  <2> QED
    BY <2>1, <2>3, <2>4
<1>4. w = [i \in 1..n |-> keys[Place(i)]]
  <2>1. w = [i \in 1..n |-> keys[((start - 1 + i - 1) % n) + 1]]
    BY <1>2 DEF Visited
  <2> HIDE DEF w, Place
  <2> QED
    BY <1>3, <2>1
<1> HIDE DEF w
<1>5. \A i \in 1..n : w[i] = keys[Place(i)] /\ keys[Place(i)] \in D
  <2> HIDE DEF Place
  <2> QED
    BY <1>1, <1>3, <1>4
<1>6. w \in [1..n -> D]
  <2> HIDE DEF Place
  <2> QED
    BY <1>4, <1>5
<1>7. ASSUME NEW i \in 1..n, NEW j \in 1..n, i < j
      PROVE  MetBefore(w[i], w[j], p)
  <2>1. PICK a \in 1..n, b \in 1..n :
           /\ a = Place(i) /\ b = Place(j)
           /\ \/ start <= a /\ a < b
              \/ start <= a /\ b < start
              \/ a < b /\ b < start
    <3>1. /\ \/ start <= Place(i) /\ Place(i) < Place(j)
             \/ start <= Place(i) /\ Place(j) < start
             \/ Place(i) < Place(j) /\ Place(j) < start
      BY <1>7
    <3> HIDE DEF Place
    <3> QED
      BY <1>3, <3>1
  <2>2. PICK x \in Int, y \in Int : x = keys[a] /\ y = keys[b] /\ w[i] = x /\ w[j] = y
    <3> HIDE DEF Place
    <3> QED
      BY <1>5, <2>1
  <2>3. keys[start] \in Int /\ (start < a => keys[start] < x) /\ (start < b => keys[start] < y)
        /\ (a < b => x < y)
    BY <1>1, <2>2
  <2>4. CASE start <= a /\ a < b
    <3>1. keys[start] <= x
      BY <2>2, <2>3, <2>4
    <3>2. x < y /\ ((x >= p /\ y >= p) \/ (x < p /\ y < p))
      BY <2>2, <2>3, <2>4, <3>1
    <3> QED
      BY <2>2, <3>2 DEF MetBefore
  <2>5. CASE start <= a /\ b < start
    <3>1. keys[start] <= x /\ start # 1
      BY <2>2, <2>3, <2>5
    <3>2. x >= p /\ y < p
      BY <2>2, <2>3, <2>5, <3>1
    <3> QED
      BY <2>2, <3>2 DEF MetBefore
  <2>6. CASE a < b /\ b < start
    <3>1. x < y /\ x < p /\ y < p
      <4>1. a < start
        BY <2>6
      <4> QED
        BY <2>2, <2>3, <2>6, <4>1
    <3> QED
      BY <2>2, <3>1 DEF MetBefore
  <2> QED
    BY <2>1, <2>4, <2>5, <2>6
<1>8. ASSUME NEW q \in D
      PROVE  \E i \in 1..n : w[i] = q
  <2>1. PICK a \in 1..n : keys[a] = q
    BY DEF IsAscending
  <2>2. PICK i \in 1..n : Place(i) = a
    <3>1. CASE start <= a
      <4>1. a - start + 1 \in 1..n /\ Place(a - start + 1) = a
        BY <3>1
      <4> QED
        BY <4>1
    <3>2. CASE a < start
      <4>1. a + n - start + 1 \in 1..n /\ Place(a + n - start + 1) = a
        BY <3>2
      <4> QED
        BY <4>1
    <3> QED
      BY <3>1, <3>2
  <2> QED
    BY <1>5, <2>1, <2>2
<1>9. w[1] = keys[start]
  <2>1. 1 \in 1..n /\ Place(1) = start
    OBVIOUS
  <2> QED
    BY <1>5, <2>1
<1>10. IsWalk(w, n, D, p)
  BY <1>6, <1>7, <1>8 DEF IsWalk
<1> QED
  BY <1>9, <1>10 DEF w

\* The walk from a key starts at the position lower_bound names.
Walk(r, p) == Visited(Keys(r), CHOOSE i \in DOMAIN Keys(r) : Keys(r)[i] = LowerBound(r, p))

LEMMA WalkFromKey ==
    ASSUME NEW r, DOMAIN r \subseteq Int, IsFiniteSet(DOMAIN r), DOMAIN r # {}, NEW p \in Int
    PROVE  /\ Cardinality(DOMAIN r) \in Nat \ {0}
           /\ IsWalk(Walk(r, p), Cardinality(DOMAIN r), DOMAIN r, p)
           /\ Walk(r, p)[1] = LowerBound(r, p)
<1> DEFINE D == DOMAIN r
           n == Cardinality(D)
           keys == Keys(r)
           q == LowerBound(r, p)
           start == CHOOSE i \in DOMAIN keys : keys[i] = q
<1>1. n \in Nat \ {0}
  BY FS_CardinalityType, FS_EmptySet
<1>2. IsAscending(keys, n, D)
  BY KeysAscend
<1>3. q \in D /\ \A s \in D : s # q => MetBefore(q, s, p)
  BY LowerBoundIsFirst
<1>4. Walk(r, p) = Visited(keys, start)
  BY DEF Walk
<1> HIDE DEF keys, q
<1>5. DOMAIN keys = 1..n /\ keys \in [1..n -> D]
  BY <1>2 DEF IsAscending
<1>6. start \in 1..n /\ keys[start] = q
  <2>1. \E i \in DOMAIN keys : keys[i] = q
    BY <1>2, <1>3, <1>5 DEF IsAscending
  <2> QED
    BY <1>5, <2>1
<1> HIDE DEF start, D, n
<1>7. q \in Int /\ \A i \in 1..n : keys[i] \in D /\ keys[i] \in Int
  BY <1>3, <1>5 DEF D
<1>8. ASSUME NEW i \in 1..n, i < start PROVE keys[i] < p /\ q >= p
  <2>1. keys[i] < q
    BY <1>2, <1>6, <1>8 DEF IsAscending
  <2>2. MetBefore(q, keys[i], p)
    BY <1>3, <1>7, <2>1
  <2> QED
    BY <1>7, <2>1, <2>2 DEF MetBefore
<1>9. ASSUME ~(q >= p)
      PROVE  start = 1 /\ \A i \in 1..n : keys[i] < p
  <2>1. ASSUME NEW i \in 1..n PROVE keys[i] < p
    <3>1. keys[i] = q \/ MetBefore(q, keys[i], p)
      BY <1>3, <1>7
    <3> QED
      BY <1>7, <1>9, <3>1 DEF MetBefore
  <2>2. 1 \in 1..n /\ ~(1 < start)
    BY <1>1, <1>8, <1>9
  <2>3. start = 1
    BY <1>1, <1>6, <2>2
  <2> QED
    BY <2>1, <2>3
<1>10. D \subseteq Int
  BY DEF D
<1>11. IsWalk(Visited(keys, start), n, D, p) /\ Visited(keys, start)[1] = keys[start]
  <2>1. keys[start] >= p \/ (start = 1 /\ \A i \in 1..n : keys[i] < p)
    BY <1>6, <1>9
  <2>2. \A i \in 1..n : i < start => keys[i] < p
    BY <1>8
  <2>3. StartsRound(start, keys, n, D, p)
    BY <1>1, <1>2, <1>6, <1>10, <2>1, <2>2 DEF StartsRound
  <2> QED
    BY <2>3, RoundIsWalk
<1> QED
  BY <1>1, <1>4, <1>6, <1>11 DEF D, n, q

\* No position is met twice, and before the i-th position the walk meets i - 1 of them.
LEMMA WalkCounts ==
    ASSUME NEW w, NEW n, NEW D, NEW p, IsWalk(w, n, D, p)
    PROVE  /\ \A i, j \in 1..n : w[i] = w[j] => i = j
           /\ \A i \in 1..n : Cardinality({q \in D : MetBefore(q, w[i], p)}) = i - 1
<1>1. /\ n \in Nat /\ w \in [1..n -> D] /\ D \subseteq Int /\ p \in Int
      /\ \A i, j \in 1..n : i < j => MetBefore(w[i], w[j], p)
      /\ \A q \in D : \E i \in 1..n : w[i] = q
  BY DEF IsWalk
<1>2. \A i \in 1..n : w[i] \in Int /\ w[i] \in D
  BY <1>1
<1>3. ASSUME NEW i \in 1..n, NEW j \in 1..n, w[i] = w[j]
      PROVE  i = j
  <2>1. i \in Int /\ j \in Int
    BY <1>1
  <2>2. ~MetBefore(w[i], w[j], p) /\ ~MetBefore(w[j], w[i], p)
    BY <1>1, <1>2, <1>3 DEF MetBefore
  <2> QED
    BY <1>1, <2>1, <2>2
<1>4. ASSUME NEW i \in 1..n
      PROVE  Cardinality({q \in D : MetBefore(q, w[i], p)}) = i - 1
  <2> DEFINE B == {q \in D : MetBefore(q, w[i], p)}
             f == [j \in 1..(i - 1) |-> w[j]]
  <2>1. i - 1 \in Nat /\ \A j \in 1..(i - 1) : j \in 1..n /\ j < i
    BY <1>1
  <2>2. \A j \in 1..(i - 1) : w[j] \in B
    BY <1>1, <1>2, <2>1
  <2>3. ASSUME NEW q \in B PROVE \E j \in 1..(i - 1) : w[j] = q
    <3>1. q \in D /\ MetBefore(q, w[i], p) /\ q \in Int
      BY <1>1
    <3>2. PICK j \in 1..n : w[j] = q
      BY <1>1, <3>1
    <3>3. ~(i < j) /\ i # j
      <4>1. ~MetBefore(w[i], w[j], p)
        BY <1>1, <1>2, <3>1, <3>2 DEF MetBefore
      <4>2. w[i] # w[j]
        BY <1>1, <1>2, <3>1, <3>2 DEF MetBefore
      <4> QED
        BY <1>1, <4>1, <4>2
    <3>4. j \in 1..(i - 1)
      BY <1>1, <3>3
    <3> QED
      BY <3>2, <3>4
  <2> HIDE DEF B
  <2>4. f \in [1..(i - 1) -> B] /\ \A j \in 1..(i - 1) : f[j] = w[j]
    BY <2>2
  <2> HIDE DEF f
  <2>5. f \in Injection(1..(i - 1), B)
    <3>1. \A j, k \in 1..(i - 1) : f[j] = f[k] => j = k
      BY <1>3, <2>1, <2>4
    <3> QED
      BY <2>4, <3>1 DEF Injection, IsInjective
  <2>6. f \in Surjection(1..(i - 1), B)
    BY <2>3, <2>4 DEF Surjection
  <2>7. ExistsBijection(1..(i - 1), B)
    BY <2>5, <2>6 DEF ExistsBijection, Bijection
  <2>8. IsFiniteSet(1..(i - 1)) /\ Cardinality(1..(i - 1)) = i - 1
    BY <2>1, FS_Interval
  <2>9. Cardinality(B) = i - 1
    BY <2>7, <2>8, FS_Bijection
  <2> QED
    BY <2>9 DEF B
<1> QED
  BY <1>3, <1>4

\* Of m and n the one that is not greater.
Least(m, n) == IF m <= n THEN m ELSE n

\* No two positions of the walk hold the same node.
MeetsOnce(r, w, size, D) ==
    /\ size \in Nat /\ w \in [1..size -> D]
    /\ \A i, j \in 1..size : r[w[i]] = r[w[j]] => i = j

\* On such a walk the first n nodes are collected.
LEMMA CollectsFirst ==
    ASSUME NEW r, NEW w, NEW size, NEW D, MeetsOnce(r, w, size, D), NEW n \in Nat
    PROVE  Collected(r, w, n) = [j \in 1..Least(size, n) |-> r[w[j]]]
<1> USE DEF MeetsOnce
<1> DEFINE N(i) == [j \in 1..Least(i, n) |-> r[w[j]]]
           Visit(f, i) ==
             IF i = 0 THEN <<>>
             ELSE IF Len(f[i - 1]) < n /\ ~Contains(f[i - 1], r[w[i]])
                  THEN Append(f[i - 1], r[w[i]]) ELSE f[i - 1]
           F(f) == [i \in 0..size |-> Visit(f, i)]
           g == [i \in 0..size |-> N(i)]
           c == CHOOSE f : f = F(f)
           V == {r[w[j]] : j \in 1..size}
<1>1. Len(w) = size
  OBVIOUS
<1>2. Collected(r, w, n) = c[size]
  BY <1>1 DEF Collected
<1>3. ASSUME NEW i \in 0..size
      PROVE  /\ N(i) \in Seq(V) /\ Len(N(i)) = Least(i, n)
             /\ \A j \in 1..Least(i, n) : N(i)[j] = r[w[j]]
  <2>1. Least(i, n) \in Nat /\ Least(i, n) <= i
    BY DEF Least
  <2>2. \A j \in 1..Least(i, n) : r[w[j]] \in V
    <3>1. \A j \in 1..Least(i, n) : j \in 1..size
      BY <2>1
    <3> QED
      BY <3>1
  <2> HIDE DEF V
  <2> QED
    BY <2>1, <2>2
<1>4. N(0) = <<>>
  BY DEF Least
<1>5. ASSUME NEW i \in 1..size, NEW f, f[i - 1] = N(i - 1)
      PROVE  Visit(f, i) = N(i)
  <2>1. PICK k \in 0..size : k = i - 1 /\ i = k + 1 /\ i # 0
    OBVIOUS
  <2> DEFINE s == N(k)
  <2>2. /\ s \in Seq(V) /\ Len(s) = Least(k, n) /\ \A j \in 1..Least(k, n) : s[j] = r[w[j]]
        /\ N(i) \in Seq(V) /\ Len(N(i)) = Least(i, n)
        /\ \A j \in 1..Least(i, n) : N(i)[j] = r[w[j]]
    <3> HIDE DEF N, V
    <3>1. i \in 0..size
      OBVIOUS
    <3> QED
      BY <1>3, <3>1
  <2>3. f[i - 1] = s
    BY <1>5, <2>1
  <2>4. r[w[i]] \in V
    OBVIOUS
  <2> HIDE DEF V
  <2>5. N(i) = [j \in 1..Least(i, n) |-> r[w[j]]]
    OBVIOUS
  <2> HIDE DEF s, N
  <2>6. CASE k < n
    <3>1. Least(k, n) = k /\ Least(i, n) = k + 1
      BY <2>1, <2>6 DEF Least
    <3>2. ~Contains(s, r[w[i]])
      <4> SUFFICES ASSUME NEW j \in 1..Len(s), s[j] = r[w[i]] PROVE FALSE
        BY DEF Contains
      <4>1. j \in 1..k /\ j \in 1..size /\ j # i
        BY <2>1, <2>2, <3>1
      <4>2. r[w[j]] = r[w[i]]
        BY <2>2, <3>1, <4>1
      <4> QED
        BY <4>1, <4>2
    <3>3. Visit(f, i) = Append(s, r[w[i]])
      BY <2>1, <2>2, <2>3, <2>6, <3>1, <3>2
    <3> HIDE DEF Visit
    <3>4. /\ Append(s, r[w[i]]) \in Seq(V) /\ Len(Append(s, r[w[i]])) = k + 1
          /\ \A j \in 1..(k + 1) : Append(s, r[w[i]])[j] = r[w[j]]
      <4>1. /\ Append(s, r[w[i]]) \in Seq(V) /\ Len(Append(s, r[w[i]])) = Len(s) + 1
            /\ \A j \in 1..Len(s) : Append(s, r[w[i]])[j] = s[j]
            /\ Append(s, r[w[i]])[Len(s) + 1] = r[w[i]]
        BY <2>2, <2>4
      <4>2. Len(s) = k
        BY <2>2, <3>1
      <4>3. \A j \in 1..(k + 1) : j \in 1..k \/ j = k + 1
        BY <2>1
      <4> QED
        BY <2>1, <2>2, <3>1, <4>1, <4>2, <4>3
    <3>5. Append(s, r[w[i]]) = [j \in 1..(k + 1) |-> r[w[j]]]
      <4> DEFINE a == Append(s, r[w[i]])
      <4>1. a \in Seq(V) /\ Len(a) = k + 1 /\ \A j \in 1..(k + 1) : a[j] = r[w[j]]
        BY <3>4
      <4> HIDE DEF a
      <4>2. a = [j \in 1..(k + 1) |-> a[j]]
        BY <2>1, <4>1
      <4>3. a = [j \in 1..(k + 1) |-> r[w[j]]]
        BY <4>1, <4>2
      <4> QED
        BY <4>3 DEF a
    <3> QED
      BY <2>5, <3>1, <3>3, <3>5
  <2>7. CASE ~(k < n)
    <3>1. Least(k, n) = n /\ Least(i, n) = n
      BY <2>1, <2>7 DEF Least
    <3>2. ~(Len(s) < n)
      BY <2>2, <3>1
    <3>3. Visit(f, i) = s
      BY <2>1, <2>3, <3>2
    <3>4. s = [j \in 1..n |-> r[w[j]]]
      BY <3>1 DEF s, N
    <3> QED
      BY <2>5, <3>1, <3>3, <3>4
  <2> QED
    BY <2>6, <2>7
<1>6. ASSUME NEW f PROVE Visit(f, 0) = <<>>
  OBVIOUS
<1> HIDE DEF N, Visit, V
<1>7. g = F(g)
  <2>1. ASSUME NEW i \in 0..size PROVE N(i) = Visit(g, i)
    <3>1. CASE i = 0
      BY <1>4, <1>6, <3>1
    <3>2. CASE i # 0
      <4>1. i \in 1..size /\ i - 1 \in 0..size
        BY <3>2
      <4>2. g[i - 1] = N(i - 1)
        BY <4>1
      <4> HIDE DEF g
      <4> QED
        BY <1>5, <4>1, <4>2
    <3> QED
      BY <3>1, <3>2
  <2> QED
    BY <2>1, Zenon
<1>8. c = F(c)
  <2> HIDE DEF F, g
  <2> QED
    BY <1>7, Zenon
<1> HIDE DEF c
<1>9. \A i \in 0..size : c[i] = Visit(c, i)
  BY <1>8
<1> HIDE DEF F, g
<1>10. \A i \in 0..size : c[i] = N(i)
  <2> DEFINE T == {i \in 0..size : c[i] # N(i)}
  <2> SUFFICES ASSUME T # {} PROVE FALSE
    OBVIOUS
  <2>0. T \in SUBSET (0..size) /\ T \in SUBSET Int
    OBVIOUS
  <2>1. IsFiniteSet(T) /\ T \in SUBSET Int
    <3>1. IsFiniteSet(0..size)
      BY FS_Interval
    <3> HIDE DEF T
    <3>2. IsFiniteSet(T)
      BY <2>0, <3>1, FS_Subset, Zenon
    <3> QED
      BY <2>0, <3>2
  <2>2. PICK i \in T : \A y \in T : i <= y
    <3> HIDE DEF T
    <3> QED
      BY <2>1, MinExists
  <2>3. i \in 0..size /\ c[i] # N(i)
    OBVIOUS
  <2>4. i # 0
    BY <1>4, <1>6, <1>9, <2>3
  <2>5. i \in 1..size /\ i - 1 \in 0..size /\ ~(i <= i - 1)
    BY <2>3, <2>4
  <2>6. c[i - 1] = N(i - 1)
    <3>1. i - 1 \notin T
      <4> HIDE DEF T
      <4> QED
        BY <2>2, <2>5
    <3> QED
      BY <2>5, <3>1
  <2> QED
    BY <1>5, <1>9, <2>3, <2>5, <2>6
<1>11. size \in 0..size
  OBVIOUS
<1> QED
  BY <1>2, <1>10, <1>11 DEF N

\* What a ring of distinct entries answers.
LEMMA NodesOfKey ==
    ASSUME RingInv, NEW k \in Key, NEW n \in Nat, DOMAIN ring # {}
    PROVE  LET D    == DOMAIN ring
               size == Cardinality(D)
               w    == Walk(ring, hashKey[k])
           IN  /\ size \in Nat \ {0} /\ hashKey[k] \in Int /\ IsWalk(w, size, D, hashKey[k])
               /\ w[1] = LowerBound(ring, hashKey[k])
               /\ GetNodesForKey(hashKey, ring, k, n) = [j \in 1..Least(size, n) |-> ring[w[j]]]
               /\ \A i \in 1..size : w[i] \in D /\ hashKey[ring[w[i]]] = w[i]
<1> DEFINE D == DOMAIN ring
           size == Cardinality(D)
           p == hashKey[k]
           w == Walk(ring, p)
<1>1. /\ p \in Int /\ D \subseteq Int /\ IsFiniteSet(D)
      /\ \A q \in D : hashKey[ring[q]] = q
  BY DEF RingInv, TypeOK, EntryInv
<1>2. size \in Nat \ {0} /\ IsWalk(w, size, D, p) /\ w[1] = LowerBound(ring, p)
  BY <1>1, WalkFromKey
<1>3. GetNodesForKey(hashKey, ring, k, n) = Collected(ring, w, n)
  BY DEF GetNodesForKey, Walk
<1> HIDE DEF w, size, p
<1>4. w \in [1..size -> D] /\ \A i \in 1..size : w[i] \in D /\ hashKey[ring[w[i]]] = w[i]
  BY <1>1, <1>2 DEF IsWalk
<1>5. \A i, j \in 1..size : w[i] = w[j] => i = j
  BY <1>2, WalkCounts
<1>6. \A i, j \in 1..size : ring[w[i]] = ring[w[j]] => i = j
  BY <1>4, <1>5
<1>7. Collected(ring, w, n) = [j \in 1..Least(size, n) |-> ring[w[j]]]
  <2>1. MeetsOnce(ring, w, size, D)
    BY <1>2, <1>4, <1>6 DEF MeetsOnce
  <2> QED
    BY <2>1, CollectsFirst
<1> QED
  BY <1>1, <1>2, <1>3, <1>4, <1>7 DEF w, size, p

\* getNodesForKey returns the successors of the key, for any ring of any addresses and any
\* hash function: as many as there are up to n, the i-th with i - 1 positions before it on the
\* walk from the key, and getNodeForKey's first.
THEOREM ReplicasFollowTheKey == ASSUME IsFiniteSet(Address) PROVE Spec => []ReplicasAreSuccessors
<1>1. ASSUME RingInv PROVE ReplicasAreSuccessors
  <2> DEFINE nodes(k, n) == GetNodesForKey(hashKey, ring, k, n)
             Before(i, k, n) == {q \in DOMAIN ring : MetBefore(q, hashKey[nodes(k, n)[i]], hashKey[k])}
  <2> SUFFICES ASSUME NEW k \in Key, NEW n \in 0..Cardinality(Address)
               PROVE  /\ Len(nodes(k, n)) = Min({n, GetNodeCount(ring)})
                      /\ \A i \in DOMAIN nodes(k, n) : Cardinality(Before(i, k, n)) = i - 1
                      /\ nodes(k, n) # <<>> => nodes(k, n)[1] = GetNodeForKey(hashKey, ring, k)
    BY DEF ReplicasAreSuccessors
  <2> DEFINE D == DOMAIN ring
             size == Cardinality(D)
             p == hashKey[k]
             w == Walk(ring, p)
             s == nodes(k, n)
  <2>1. n \in Nat /\ size \in Nat
    BY <1>1, FS_CardinalityType DEF RingInv, EntryInv
  <2>2. Min({n, size}) = Least(size, n)
    <3> HIDE DEF size
    <3> QED
      BY <2>1 DEF Min, Least
  <2>3. CASE D = {}
    <3>1. s = <<>> /\ size = 0
      BY <2>3, FS_EmptySet DEF GetNodesForKey
    <3> HIDE DEF s, size
    <3>2. Len(s) = Least(size, n)
      BY <2>1, <3>1 DEF Least
    <3> QED
      BY <2>2, <3>1, <3>2 DEF s, size, GetNodeCount
  <2>4. CASE D # {}
    <3>1. /\ size \in Nat \ {0} /\ p \in Int /\ IsWalk(w, size, D, p) /\ w[1] = LowerBound(ring, p)
          /\ s = [j \in 1..Least(size, n) |-> ring[w[j]]]
          /\ \A i \in 1..size : w[i] \in D /\ hashKey[ring[w[i]]] = w[i]
      BY <1>1, <2>1, <2>4, NodesOfKey
    <3>2. \A i \in 1..size : Cardinality({q \in D : MetBefore(q, w[i], p)}) = i - 1
      BY <3>1, WalkCounts
    <3>3. GetNodeForKey(hashKey, ring, k) = ring[w[1]]
      BY <2>4, <3>1 DEF GetNodeForKey
    <3> DEFINE m == Least(size, n)
    <3>4. m \in Nat /\ \A i \in 1..m : i \in 1..size
      BY <2>1, <3>1 DEF Least
    <3> HIDE DEF nodes, w, size, m
    <3>5. Len(s) = m /\ DOMAIN s = 1..m /\ \A i \in 1..m : s[i] = ring[w[i]]
      BY <3>1, <3>4 DEF m
    <3>6. ASSUME NEW i \in DOMAIN s PROVE Cardinality(Before(i, k, n)) = i - 1
      <4>1. i \in 1..size /\ hashKey[s[i]] = w[i]
        BY <3>1, <3>4, <3>5, <3>6
      <4> QED
        BY <3>2, <4>1
    <3>7. ASSUME s # <<>> PROVE s[1] = ring[w[1]]
      <4>1. 1 \in 1..m
        BY <3>4, <3>5, <3>7
      <4> QED
        BY <3>5, <4>1
    <3> QED
      BY <2>2, <3>3, <3>5, <3>6, <3>7 DEF m, size, GetNodeCount
  <2> QED
    BY <2>3, <2>4
<1> QED
  BY <1>1, RingAlways, PTL

\* When the primary of a key leaves the ring, its second node, which has copies of the chunks,
\* becomes the primary (removeNode, getNodesForKey, getNodeForKey), for any ring and any hash
\* function.
THEOREM ReplicaTakesOver == Spec => FailoverToReplica
<1> DEFINE Over == \A k \in Key :
              LET nodes == GetNodesForKey(hashKey, ring, k, 2)
              IN  (Len(nodes) = 2 /\ ~HasNode(hashKey, ring', nodes[1]))
                     => GetNodeForKey(hashKey, ring', k) = nodes[2]
<1>1. ASSUME RingInv, RingInv', [Next]_vars PROVE Over
  <2> DEFINE s(k) == GetNodesForKey(hashKey, ring, k, 2)
  <2> SUFFICES ASSUME NEW k \in Key, Len(s(k)) = 2, ~HasNode(hashKey, ring', s(k)[1])
               PROVE  GetNodeForKey(hashKey, ring', k) = s(k)[2]
    OBVIOUS
  <2> DEFINE D == DOMAIN ring
             size == Cardinality(D)
             p == hashKey[k]
             w == Walk(ring, p)
             q == LowerBound(ring', p)
  <2>1. D # {}
    <3>1. ASSUME D = {} PROVE s(k) = <<>>
      BY <3>1 DEF GetNodesForKey
    <3>2. Len(<<>>) # 2
      OBVIOUS
    <3> HIDE DEF s
    <3> QED
      BY <3>1, <3>2, Zenon
  <2>2. /\ size \in Nat \ {0} /\ p \in Int /\ IsWalk(w, size, D, p)
        /\ s(k) = [j \in 1..Least(size, 2) |-> ring[w[j]]]
        /\ \A i \in 1..size : w[i] \in D /\ hashKey[ring[w[i]]] = w[i]
    BY <1>1, <2>1, NodesOfKey
  <2> HIDE DEF s, w, size
  <2>3. 1 \in 1..size /\ 2 \in 1..size /\ s(k)[1] = ring[w[1]] /\ s(k)[2] = ring[w[2]]
    <3> DEFINE m == Least(size, 2)
    <3>1. m \in Nat /\ (m = 2 => size >= 2)
      BY <2>2 DEF Least
    <3>2. s(k) = [j \in 1..m |-> ring[w[j]]]
      BY <2>2
    <3> HIDE DEF m
    <3>3. m = 2
      BY <3>1, <3>2
    <3>4. 1 \in 1..size /\ 2 \in 1..size /\ 1 \in 1..m /\ 2 \in 1..m
      BY <2>2, <3>1, <3>3
    <3> QED
      BY <3>2, <3>4, Zenon
  <2>4. w[1] \in D /\ w[2] \in D /\ w[1] \notin DOMAIN ring' /\ w[1] # w[2]
    <3>1. w[1] # w[2]
      BY <2>2, <2>3, WalkCounts
    <3> QED
      BY <2>2, <2>3, <3>1 DEF HasNode
  <2>5. PICK a \in Address : RemoveNode(a)
    <3>1. ASSUME NEW a \in Address, AddNode(a) PROVE D \subseteq DOMAIN ring'
      BY <3>1 DEF AddNode, WithNode
    <3> QED
      BY <1>1, <2>4, <3>1 DEF Next, vars
  <2>6. /\ DOMAIN ring' = D \ {w[1]} /\ \A t \in DOMAIN ring' : ring'[t] = ring[t]
    <3>1. DOMAIN ring' = D \ {hashKey[a]} /\ \A t \in DOMAIN ring' : ring'[t] = ring[t]
      BY <2>5 DEF RemoveNode, WithoutNode
    <3>2. hashKey[a] = w[1]
      BY <2>4, <3>1
    <3> QED
      BY <3>1, <3>2
  <2>7. DOMAIN ring' \subseteq Int /\ IsFiniteSet(DOMAIN ring') /\ w[2] \in DOMAIN ring'
    <3>1. D \subseteq Int /\ IsFiniteSet(DOMAIN ring')
      BY <1>1, <2>2 DEF RingInv, EntryInv, IsWalk
    <3> QED
      BY <2>4, <2>6, <3>1
  <2>8. q \in DOMAIN ring' /\ \A t \in DOMAIN ring' : t # q => MetBefore(q, t, p)
    BY <2>2, <2>7, LowerBoundIsFirst
  <2> HIDE DEF q
  <2>9. q = w[2]
    <3> SUFFICES ASSUME q # w[2] PROVE FALSE
      OBVIOUS
    <3>1. MetBefore(q, w[2], p) /\ q \in D /\ q # w[1]
      BY <2>6, <2>7, <2>8
    <3>2. PICK i \in 1..size : w[i] = q
      BY <2>2, <3>1 DEF IsWalk
    <3>3. 2 < i
      <4>1. i # 1 /\ i # 2 /\ i \in Int /\ i >= 1
        BY <2>2, <3>1, <3>2
      <4> QED
        BY <4>1
    <3>4. MetBefore(w[2], w[i], p)
      BY <2>2, <2>3, <3>3 DEF IsWalk
    <3>5. q \in Int /\ w[2] \in Int
      BY <2>7, <2>8
    <3> QED
      BY <2>2, <3>1, <3>2, <3>4, <3>5, MetOnce
  <2>10. GetNodeForKey(hashKey, ring', k) = ring'[q]
    BY <2>7 DEF GetNodeForKey, q
  <2> QED
    BY <2>3, <2>6, <2>7, <2>9, <2>10
<1>2. RingInv /\ RingInv' /\ [Next]_vars => [Over]_vars
  BY <1>1
<1>3. FailoverToReplica <=> [][Over]_vars
  BY PTL DEF FailoverToReplica
<1> QED
  BY <1>2, <1>3, RingAlways, PTL DEF Spec

=============================================================================
