CONSTANTS
  Client = {c1, c2}
  Size = {2, 3, 6}
  max_buffer_bytes = 5
  MaxBlocks = 3
  MaxConnects = 3
  MaxUpsets = 2
SPECIFICATION FairSpec
INVARIANTS BufferSound ClientsServed
PROPERTIES FlushLosesOnlyToTheGone StopReturnsUnlessStalled
CHECK_DEADLOCK FALSE
