CONSTANTS
  Capacity = 3
  Item = {i1, i2}
  NoItem = NoItem
SPECIFICATION QFairSpec
INVARIANTS SlotExclusion NoLostWakeup
PROPERTIES LinearizableFifo EveryElementPopped
