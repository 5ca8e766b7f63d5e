\* The append only file as in MCAof, with one database and few writes; the threads of
\* bio.c and the children have their instances in MCBackground. part may come to rest.
SPECIFICATION BackgroundSpec
CONSTANTS
  DBs = {0}
  Policies = {"always", "everysec"}
  LoadTruncated = TRUE
  NoFsyncOnRewrite = FALSE
  Scenarios <- LiveScenarios
  MaxPending = 2
PROPERTIES
  BufferWritten
  SwitchedOn
  BackgroundDone
CHECK_DEADLOCK FALSE
