\* One thread emits to one slot in another thread's loop, as test/main.cpp does.
SPECIFICATION FairSpec
CONSTANTS
  s1 = s1
  s2 = s2
  s3 = s3
  t1 = t1
  t2 = t2
  l1 = l1
  l2 = l2
  f1 = f1
  Lambda = Lambda
  Nobody = Nobody
  Slots <- OneSlot
  Threads <- OneThread
  Loops <- OneLoop
  LoopOf <- OneMemberLoop
  FidOf <- OneMember
  MaxEmits = 2
  MaySync = FALSE
  MayCut = FALSE
INVARIANT
  NoArgRace
CHECK_DEADLOCK FALSE
