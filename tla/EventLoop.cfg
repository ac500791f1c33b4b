\* Two callers and two executors of one loop, everything allowed.
SPECIFICATION FairSpec
CONSTANTS
  e1 = e1
  e2 = e2
  c1 = c1
  c2 = c2
  x1 = x1
  x2 = x2
  NoEvent = NoEvent
  Events <- MCEvents
  Callers <- MCCallers
  Executors <- MCExecutors
  MaxCalls = 3
  MaxDepth = 1
  SpuriousWakeups = TRUE
  QuitAllowed = TRUE
INVARIANTS
  TypeOK
  EventsConserved
  NoLostWakeup
  QuitWithinOneEvent
PROPERTIES
  QueueNeverStalls
  QuitUnwinds
  ImplementsLoopQueue
\* The calls are bounded, a loop nobody posts to sleeps, and ub stops a run.
CHECK_DEADLOCK FALSE
