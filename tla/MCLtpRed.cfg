CONSTANTS
  left = left  right = right  p = p  q = q
  Engine = {left, right}
  Byte = {p, q}
  Zero = zero
  max_segment_size = 1
  max_retransmissions = 3
  max_concurrent_sessions = 1
  CountModulus = 256
  Block <- ShortBlocks
  Modes = {TRUE}
  MaxStarts <- OneBlock
  MaxLoss = 3
  MaxEarly = 3
  MaxCancels = 0
  Unreachable = {}
SPECIFICATION Spec
INVARIANTS RedDeliveryIntact ClaimsTrue OriginatorTries
CHECK_DEADLOCK FALSE
