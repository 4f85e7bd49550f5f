CONSTANTS
  Base = 3
  PrefixLen = 2
  Fd = {3, 4}
  Block <- MCBlock
  MaxConnects = 3
  MaxMessages = 3
SPECIFICATION FairSpec
INVARIANTS StreamsApart
PROPERTIES OrderlyCloseLosesNothing StopReturns
