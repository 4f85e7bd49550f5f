CONSTANTS
  Timeout = {1, 2}
  MaxTimers = 3
  MaxTime = 3
SPECIFICATION FairSpec
INVARIANTS FiresRightly NoOversleep
PROPERTIES EveryTimerServed StopReturns
