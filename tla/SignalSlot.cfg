\* Everything a signal allows, on two threads and two loops.
SPECIFICATION FairSpec
CONSTANTS
  s1 = s1
  s2 = s2
  s3 = s3
  t1 = t1
  t2 = t2
  l1 = l1
  l2 = l2
  f1 = f1
  Lambda = Lambda
  Nobody = Nobody
  Slots <- ThreeSlots
  Threads <- TwoThreads
  Loops <- TwoLoops
  LoopOf <- MemberAndLambdaLoops
  FidOf <- MemberAndLambda
  MaxEmits = 2
  MaySync = TRUE
  MayCut = TRUE
INVARIANTS
  TypeOK
  ArgsMatchEvents
  AsyncEmitTouchesLive
  EachEmissionOnce
PROPERTY
  ImplementsMailbox
\* Emissions and slots run out, and ub stops a run.
CHECK_DEADLOCK FALSE
