\* One client in and out of transactions, two databases, keys that expire:
\* what a reader of the propagated stream holds.
SPECIFICATION Spec
CONSTANTS
  NoClient = NoClient
  NoVal = NoVal
  Clients = {c1}
  DBs = {0, 1}
  Keys = {k1}
  Values = {v1, v2}
  Ops = {"set", "get", "del", "flushdb", "flushall", "move", "select"}
  Conditions = {}
  Drops = TRUE
  MaxQueue = 2
  MaxDirty = 0
INVARIANTS ReplicaInStep
