SPECIFICATION Spec
CONSTANTS
  s1 = s1
  s2 = s2
  s3 = s3
  None = None
  Setups <- LongChain
INVARIANTS Converges
\* At rest once the bounded writes and faults are used up.
CHECK_DEADLOCK FALSE
