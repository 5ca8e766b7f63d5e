SPECIFICATION FairSpec
CONSTANTS
  s1 = s1
  s2 = s2
  s3 = s3
  None = None
  Setups <- AllSetups
INVARIANTS TypeOK Converges OffsetsAgree SlavesServed
PROPERTIES EventuallyInSync
\* At rest once the bounded writes and faults are used up.
CHECK_DEADLOCK FALSE
