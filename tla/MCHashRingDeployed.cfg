CONSTANTS
  a1 = a1  a2 = a2  a3 = a3  k1 = k1  k2 = k2
  NoNode = NoNode
  Address <- DeployedNodes
  Key = {}
  HashFunctions <- CodeHash
SPECIFICATION Spec
INVARIANT EvenLoad
