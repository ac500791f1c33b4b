\* One thread that posts and one that executes, as the test programs do.
SPECIFICATION FairSpec
CONSTANTS
  e1 = e1
  e2 = e2
  c1 = c1
  c2 = c2
  x1 = x1
  x2 = x2
  NoEvent = NoEvent
  Events <- OneEvent
  Callers <- OneCaller
  Executors <- OneExecutor
  MaxCalls = 3
  MaxDepth = 0
  SpuriousWakeups = FALSE
  QuitAllowed = FALSE
INVARIANT
  NoEmptyTop
CHECK_DEADLOCK FALSE
