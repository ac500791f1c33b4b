\* Both peers open connections, a task may run out of time at any moment.
SPECIFICATION FairSpec
CONSTANTS
  a = a
  b = b
  None = None
  Peers <- TwoPeers
  Attempts <- Mutual
  Nums <- TwoNums
  Garbage <- LowAndHigh
  MayTimeout = TRUE
INVARIANTS
  TypeOK
  FinishesWhatItRead
  AgreeUnlessBothStart
  BothStartBlindly
  ChosenStaysOpen
PROPERTY
  StartedFinishes
\* Connections run out, a handshake may stand still, and ub stops a run.
CHECK_DEADLOCK FALSE
