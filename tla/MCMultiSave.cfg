\* SAVE among the commands of a transaction.
SPECIFICATION Spec
CONSTANTS
  NoClient = NoClient
  NoVal = NoVal
  Clients = {c1}
  DBs = {0, 1}
  Keys = {k1}
  Values = {v1}
  Ops = {"set", "save"}
  Conditions = {}
  Drops = FALSE
  MaxQueue = 2
  MaxDirty = 2
INVARIANTS ExecFollowsMulti
