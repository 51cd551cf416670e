CONSTANTS
  a1 = a1  a2 = a2  a3 = a3  k1 = k1  k2 = k2
  NoNode = NoNode
  Address = {a1, a2, a3}
  Key = {k1}
  HashFunctions <- AllFunctions
SPECIFICATION Spec
INVARIANT TypeOK
INVARIANT RingHoldsMembers
INVARIANT ReplicasAreSuccessors
PROPERTY MinimalMovement
PROPERTY FailoverToReplica
