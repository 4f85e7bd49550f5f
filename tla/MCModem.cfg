CONSTANTS
  FrameSize = 2
  RecvMax = 2
  TxCapacity = 1
  MaxInputs <- MCMaxInputs
  MinDecode = 2
  MaxBuffer = 4
  RxCapacity = 1
  BurstLength = {1, 3}
  MaxBatches <- MCMaxBatches
  MaxClients <- MCMaxClients
  MaxUpsets <- MCMaxUpsets
SPECIFICATION FairSpec
INVARIANTS InputSent ReceivedInOrder OutputDelivered
PROPERTIES LostOnlyBehindAnother BufferedGoesOut ShutdownReturns
CHECK_DEADLOCK FALSE
