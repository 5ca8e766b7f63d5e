SPECIFICATION Spec
CONSTANTS
  NoClient = NoClient
  NoKey = NoKey
  Clients = {c1, c2, c3}
  Keys = {k1, k2}
  Ops = {"lpush", "rpush", "lpop", "set", "del", "rename", "expire", "rpoplpush", "blpop", "brpop", "brpoplpush"}
  Stored = {"string"}
  Pipelining = FALSE
  MaxElems = 3
  MaxQueue = 2
  MaxUnblocked = 2
SYMMETRY ClientSymmetry
INVARIANTS
  TypeOK
  QueuesInOrder
  NobodyWaitsInVain
  ElementsConserved
  ReplicaInStep
