CONSTANTS
  Base = 3
  PrefixLen = 2
  Segment <- MCSegment
  InitialDelay = 1
  MaxDelay = 2
  DelayMod = 8
  MaxMessages = 2
  MaxUpsets = 1
SPECIFICATION FairSpec
INVARIANTS SendsInOrder ReceivesWhole DescriptorsLive
PROPERTIES EverySegmentWritten StopReturnsUnlessParked
CHECK_DEADLOCK FALSE
