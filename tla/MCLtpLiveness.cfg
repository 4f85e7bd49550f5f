CONSTANTS
  left = left  right = right  p = p  q = q
  Engine = {left, right}
  Byte = {p, q}
  Zero = zero
  max_segment_size = 1
  max_retransmissions = 2
  max_concurrent_sessions = 1
  CountModulus = 256
  Block <- TwoBytes
  Modes = {TRUE}
  MaxStarts <- BothWays
  MaxLoss = 1
  MaxEarly = 1
  MaxCancels = 0
  Unreachable = {}
SPECIFICATION FairSpec
PROPERTIES BlockSettled ReceiverSettled
CHECK_DEADLOCK FALSE
