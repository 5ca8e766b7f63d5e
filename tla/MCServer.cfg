\* The backlog has two slaves, a buffer of two or three bytes, writes shorter than
\* it, as long as it and longer, so that the buffer wraps more than once. The other
\* parts have their instances in MCServer.
SPECIFICATION ServerSpec
CONSTANTS
  Slaves = {s1, s2}
  Sizes = {1, 3}
  MinSize = 2
  Lengths = {0, 1, 2, 5}
  MaxStream = 6
  MaxOffset = 6
INVARIANTS TypeOK RingHoldsHistory StreamContiguous KeyspaceInStep ServerSound
CHECK_DEADLOCK FALSE
