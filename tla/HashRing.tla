------------------------------ MODULE HashRing ------------------------------
(***************************************************************************)
(* The ring of storage nodes over its life: nodes come and go in any order *)
(* and Init picks any of HashFunctions, so that collisions, wrap-around    *)
(* and every arrangement of nodes and keys occur.                          *)
(***************************************************************************)
EXTENDS ConsistentHash

CONSTANTS
    Address,        \* addresses of storage nodes
    Key,            \* keys: hashes of chunks
    HashFunctions   \* the hash functions considered

ASSUME RingAssumption ==
    /\ HashFunctions \subseteq [Address \cup Key -> Int]
    /\ NoNode \notin Address

VARIABLES
    hashKey,  \* the hash function (never changes)
    ring,     \* ring_
    members   \* history: the addresses added and not removed since

vars == <<hashKey, ring, members>>

\* The ring is a finite map whose entries are addresses.
TypeOK ==
    /\ hashKey \in HashFunctions
    /\ DOMAIN ring \subseteq {hashKey[a] : a \in Address}
    /\ \A q \in DOMAIN ring : ring[q] \in Address
    /\ members \subseteq Address

-----------------------------------------------------------------------------
Init ==
    /\ hashKey \in HashFunctions
    /\ ring = <<>>
    /\ members = {}

AddNode(a) ==
    /\ ring' = WithNode(hashKey, ring, a)
    /\ members' = members \cup {a}
    /\ UNCHANGED hashKey

RemoveNode(a) ==
    /\ ring' = WithoutNode(hashKey, ring, a)
    /\ members' = members \ {a}
    /\ UNCHANGED hashKey

Next == \E a \in Address : AddNode(a) \/ RemoveNode(a)

Spec == Init /\ [][Next]_vars

-----------------------------------------------------------------------------
(* Properties.                                                             *)

\* No two addresses in play have the same hash.
NoCollision == \A a, b \in Address : hashKey[a] = hashKey[b] => a = b

\* The ring is the set of its members (addNode, removeNode): whatever the order of the
\* calls, it never names an address that was removed, every entry sits at its own hash,
\* and without collisions every member has its entry.
RingHoldsMembers ==
    /\ GetAllNodes(ring) \subseteq members
    /\ \A q \in DOMAIN ring : hashKey[ring[q]] = q
    /\ NoCollision => members = GetAllNodes(ring)

\* q is met before s on the walk that starts at p.
MetBefore(q, s, p) ==
    \/ q >= p /\ s < p
    \/ (q >= p <=> s >= p) /\ q < s

\* getNodesForKey returns the successor list of the key (README: primary node and the
\* next k-1 nodes): as many nodes as there are, up to k, the i-th of them with exactly
\* i-1 positions between it and the key, the first of them the one getNodeForKey names.
ReplicasAreSuccessors ==
    \A k \in Key, n \in 0..Cardinality(Address) :
        LET nodes == GetNodesForKey(hashKey, ring, k, n) IN
        /\ Len(nodes) = Min({n, GetNodeCount(ring)})
        /\ \A i \in DOMAIN nodes :
              Cardinality({q \in DOMAIN ring : MetBefore(q, hashKey[nodes[i]], hashKey[k])}) = i - 1
        /\ nodes # <<>> => nodes[1] = GetNodeForKey(hashKey, ring, k)

\* Adding or removing a node moves only what it must (README: minimizes data movement): a
\* key's primary changes only to a node that came or from one that went.
MinimalMovement ==
    [][\A k \in Key :
          LET old == GetNodeForKey(hashKey, ring, k)
              new == GetNodeForKey(hashKey, ring', k)
          IN  old # new => old \notin GetAllNodes(ring') \/ new \notin GetAllNodes(ring)]_vars

\* When the primary of a key goes, the replica that already has its chunks takes over
\* (README: automatic failover to replicas).
FailoverToReplica ==
    [][\A k \in Key :
          LET nodes == GetNodesForKey(hashKey, ring, k, 2)
          IN  (Len(nodes) = 2 /\ ~HasNode(hashKey, ring', nodes[1])) => GetNodeForKey(hashKey, ring', k) = nodes[2]]_vars

\* Load is spread evenly (README: evenly distribute load across storage nodes): with two
\* nodes or more, each one's arc of the ring is at least a quarter of a fair share.
Arc(q) ==
    LET others == {s \in DOMAIN ring : s < q}
        pred   == IF others # {} THEN Max(others) ELSE Max(DOMAIN ring)
        width  == q \div Half - pred \div Half
    IN  IF pred < q THEN width ELSE width + Half

EvenLoad ==
    GetNodeCount(ring) >= 2 =>
        \A q \in DOMAIN ring : 4 * GetNodeCount(ring) * Arc(q) >= Half
=============================================================================
