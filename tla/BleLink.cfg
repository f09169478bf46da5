SPECIFICATION FairSpec
CONSTANTS
  a = a
  b = b
  k1 = k1
  k2 = k2
  k3 = k3
  NoPkt = NoPkt
  Peer = {a, b}
  Pkt = {k1, k2, k3}
  Src <- FromAB
  Size <- MixedSizes
  Limits = {1, 2}
  DefaultLimit = 2
  RxQueueMax = 2
  RxPpsLimit = 2
  ConnectFirst = FALSE
  MaxLosses = 1
  MaxConnects = 2
INVARIANTS TypeOK InOrderUnlessLost BlobsAreWellFormed
PROPERTIES SentIsReceived
CHECK_DEADLOCK FALSE
