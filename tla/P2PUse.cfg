\* One peer connects, the other only accepts, as test/main.cpp does.
SPECIFICATION FairSpec
CONSTANTS
  a = a
  b = b
  None = None
  Peers <- TwoPeers
  Attempts <- OneSided
  Nums <- TwoNums
  Garbage <- LowAndHigh
  MayTimeout = FALSE
PROPERTY
  ConnectionFinishes
CHECK_DEADLOCK FALSE
