SPECIFICATION Spec
CONSTANTS
  DBs = {0, 1}
  Policies = {"always", "everysec"}
  LoadTruncated = TRUE
  NoFsyncOnRewrite = FALSE
  Scenarios <- SafetyScenarios
  MaxPending = 2
INVARIANTS
  TypeOK
  FileAddsUp
  RewriteAddsUp
  AckedIsDurable
