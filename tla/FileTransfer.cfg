\* Three files of three, one and two packages, in any order and overlap.
SPECIFICATION FairTransfer
CONSTANTS
  f = f
  g = g
  h = h
  None = None
  Header = 1
  Sizes <- OneSize
  Files <- ThreeFiles
  Chunks <- TwoNoneOne
  Rest <- ButTheLast
  MaxSends <- OneEach
  MaxBox = 3
  MayClose = TRUE
INVARIANTS
  TransferTypeOK
  WaitsOnlyAfterEnd
  AloneIsWhole
  TwoNeverMix
PROPERTIES
  ImplementsPackageQueue
  JobsFinish
\* The sends are bounded, and ub stops a run.
CHECK_DEADLOCK FALSE
