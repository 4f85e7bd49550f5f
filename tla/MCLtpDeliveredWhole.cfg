CONSTANTS
  left = left  right = right  p = p  q = q
  Engine = {left, right}
  Byte = {p, q}
  Zero = zero
  max_segment_size = 1
  max_retransmissions = 4
  max_concurrent_sessions = 1
  CountModulus = 256
  Block <- TwoBytes
  Modes = {TRUE}
  MaxStarts <- OneBlock
  MaxLoss = 3
  MaxEarly = 0
  MaxCancels = 0
  Unreachable = {}
SPECIFICATION Spec
INVARIANT DeliveredOnlyWhole
CHECK_DEADLOCK FALSE
