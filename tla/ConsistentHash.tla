---------------------------- MODULE ConsistentHash ----------------------------
(***************************************************************************)
(* dht/consistent_hash as functions.  A ring is a map from positions to    *)
(* addresses (ring_, a std::map); the hash function is a parameter hash,   *)
(* a function on addresses and keys, and HashKey below is the code's own.  *)
(***************************************************************************)
EXTENDS Integers, Sequences, FiniteSets, SequencesExt

CONSTANT NoNode  \* the empty string getNodeForKey returns on an empty ring

\* hashKey: h = 31 * h + c over the characters in a 32-bit int, which the compiler lets
\* wrap.  A word is a pair of 16-bit halves.
Half == 65536

HashStep(h, c) ==
    LET low == 31 * h[2] + c
    IN  <<(31 * h[1] + low \div Half) % Half, low % Half>>

HashKey(chars) ==
    LET h == FoldLeft(HashStep, <<0, 0>>, chars)
    IN  (IF h[1] < Half \div 2 THEN h[1] ELSE h[1] - Half) * Half + h[2]

\* addNode: ring_[hashKey(a)] = a, an entry at the same position is overwritten.
WithNode(hash, r, a) ==
    [q \in DOMAIN r \cup {hash[a]} |-> IF q = hash[a] THEN a ELSE r[q]]

\* Faulty variant of WithoutNode: erase(it, end()) for erase(it).
WithoutRest(hash, r, a) == [q \in {s \in DOMAIN r : s < hash[a]} |-> r[q]]

\* Faulty variant of WithoutNode: the entry is blanked, not erased.
WithBlank(hash, r, a) == [q \in DOMAIN r |-> IF q = hash[a] THEN NoNode ELSE r[q]]

\* removeNode: ring_.erase(hashKey(a)), whatever entry is there.
WithoutNode(hash, r, a) == [q \in DOMAIN r \ {hash[a]} |-> r[q]]

\* The constructor of Client adds its storage nodes one by one.
RingOf(hash, addresses) ==
    FoldLeft(LAMBDA r, a : WithNode(hash, r, a), <<>>, addresses)

\* ring_.lower_bound(p), and ring_.begin() behind the last position.
LowerBound(r, p) ==
    LET after == {q \in DOMAIN r : q >= p}
    IN  IF after # {} THEN Min(after) ELSE Min(DOMAIN r)

\* The positions of ring_, which a std::map keeps in order.
Keys(r) ==
    LET size == Cardinality(DOMAIN r)
    IN  CHOOSE s \in [1..size -> DOMAIN r] : \A i, j \in 1..size : i < j => s[i] < s[j]

\* Faulty variant of GetNodeForKey: the node is indexed, not searched for.
GetNodeByIndex(hash, r, k) ==
    IF DOMAIN r = {} THEN NoNode
    ELSE LET keys == Keys(r) IN r[keys[(hash[k] % Len(keys)) + 1]]

GetNodeForKey(hash, r, k) ==
    IF DOMAIN r = {} THEN NoNode ELSE r[LowerBound(r, hash[k])]

\* Faulty variant of Visited: the walk stops at the end of the map.
VisitedNoWrap(keys, start) == SubSeq(keys, start, Len(keys))

\* keys[(startIndex + i) % keys.size()] for every i.
Visited(keys, start) == [i \in 1..Len(keys) |-> keys[((start - 1 + i - 1) % Len(keys)) + 1]]

\* The nodes met on a walk, each once, and up to n of them.
Collected(r, walk, n) ==
    LET nodes[i \in 0..Len(walk)] ==
            IF i = 0 THEN <<>>
            ELSE IF Len(nodes[i - 1]) < n /\ ~Contains(nodes[i - 1], r[walk[i]])
                 THEN Append(nodes[i - 1], r[walk[i]]) ELSE nodes[i - 1]
    IN  nodes[Len(walk)]

\* The walk starts at the lower bound and wraps.
GetNodesForKey(hash, r, k, n) ==
    LET keys  == Keys(r)
        start == CHOOSE i \in DOMAIN keys : keys[i] = LowerBound(r, hash[k])
    IN  IF DOMAIN r = {} THEN <<>> ELSE Collected(r, Visited(keys, start), n)

GetAllNodes(r) == {r[q] : q \in DOMAIN r}
GetNodeCount(r) == Cardinality(DOMAIN r)
HasNode(hash, r, a) == hash[a] \in DOMAIN r

=============================================================================
