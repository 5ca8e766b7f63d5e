SPECIFICATION FairSpec
CONSTANTS
  r1 = r1
  r2 = r2
  r3 = r3
  s1 = s1
  s2 = s2
  s3 = s3
  None = None
  Sentinels = {s1, s2, s3}
  Redis = {r1, r2, r3}
  First = r1
  Rank <- Ranks
  Scenarios <- AllScenarios
INVARIANTS TypeOK VoteOnce OneLeaderPerEpoch PromotedIsValid ConfigEpochsAgree
PROPERTIES ConfigSpreads
\* At rest once the bounded epochs and faults are used up.
CHECK_DEADLOCK FALSE
