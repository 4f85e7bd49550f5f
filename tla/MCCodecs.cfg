CONSTANTS
  ByteBits = 8
  K = 7
  Gen0 <- MCGen0
  Gen1 <- MCGen1
  Pattern <- MCPattern
  LengthBits = 16
  PaddingBits = 4
  RateBits = 2
  SeqBits = 12
  CrcBits = 32
  CrcPoly <- MCCrcPoly
  TailSymbols = 6
  DigitBits = 2
  MaxBytes = 3
  ValueBits = 5
  MaxReserve = 4
  Segment <- MCSegment
  Burst <- MCBurst
  MaxExtra = 2
  LeadOut <- MCLeadOut
SPECIFICATION Spec
INVARIANTS SegmentRoundTrip BurstRoundTrip NoWrongPayload
CHECK_DEADLOCK FALSE
