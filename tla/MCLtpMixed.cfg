CONSTANTS
  left = left  right = right  p = p  q = q
  Engine = {left, right}
  Byte = {p, q}
  Zero = zero
  max_segment_size = 1
  max_retransmissions = 2
  max_concurrent_sessions = 1
  CountModulus = 256
  Block <- TwoBytes
  Modes = {TRUE, FALSE}
  MaxStarts <- BothWays
  MaxLoss = 2
  MaxEarly = 1
  MaxCancels = 1
  Unreachable = {}
SPECIFICATION Spec
INVARIANTS TypeOK GreenDeliveryPlaced
PROPERTY OutcomeFinal
CHECK_DEADLOCK FALSE
