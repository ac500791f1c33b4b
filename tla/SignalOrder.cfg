\* Three emissions of both kinds from two threads, no slot deleted.
SPECIFICATION FairSpec
CONSTANTS
  s1 = s1
  s2 = s2
  s3 = s3
  t1 = t1
  t2 = t2
  l1 = l1
  l2 = l2
  f1 = f1
  Lambda = Lambda
  Nobody = Nobody
  Slots <- TwoSlots
  Threads <- TwoThreads
  Loops <- OneLoop
  LoopOf <- OneEachLoops
  FidOf <- OneEach
  MaxEmits = 3
  MaySync = TRUE
  MayCut = FALSE
INVARIANT
  TakenInEmitOrder
\* Emissions and slots run out, and ub stops a run.
CHECK_DEADLOCK FALSE
