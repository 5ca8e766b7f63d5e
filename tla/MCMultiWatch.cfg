\* Two clients, two databases, one key: WATCH against every kind of command
\* that changes a key and calls its hook, and against refused commands.
SPECIFICATION Spec
CONSTANTS
  NoClient = NoClient
  NoVal = NoVal
  Clients = {c1, c2}
  DBs = {0, 1}
  Keys = {k1}
  Values = {v1}
  Ops = {"set", "flushdb", "select", "unwatch"}
  Conditions = {"oom"}
  Drops = FALSE
  MaxQueue = 1
  MaxDirty = 0
SYMMETRY ClientSymmetry
INVARIANTS TypeOK WatchTablesAgree WatchSound DirtyHasCause
PROPERTIES ExecOnlyIfClean
