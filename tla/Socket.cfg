\* Both ends send, the kernel takes one byte each way, everything may break.
SPECIFICATION FairSpec
CONSTANTS
  c = c
  s = s
  Ends <- BothEnds
  Client = c
  Sizes <- OneAndTwo
  MaxBytes <- ThreeAndTwo
  Room = 1
  MayBreak = TRUE
INVARIANTS
  TypeOK
  InterestFollowsCache
  NoSilentData
PROPERTIES
  JamLasts
  ImplementsStream
  SentArrives
  CloseIsNoticed
\* Boxes run out, an idle connection waits, and ub stops a run.
CHECK_DEADLOCK FALSE
