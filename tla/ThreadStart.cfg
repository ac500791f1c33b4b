\* Two Thread objects, the second possibly given the id of the first when
\* that has ended, while another thread posts to them.
SPECIFICATION FairSpec
CONSTANTS
  o1 = o1
  o2 = o2
  i1 = i1
  i2 = i2
  p1 = p1
  Main = Main
  NoId = NoId
  Objs <- TwoObjs
  Ids <- OneId
  Posters <- OnePoster
  MaxPosts = 1
  SpuriousWakeups = TRUE
INVARIANTS
  TypeOK
  ReturnMeansMoved
  SettledPostsReachChild
PROPERTIES
  LockedStartReturns
  EarlySleeperReturns
\* Loops sleep when nothing is posted, and ub stops a run.
CHECK_DEADLOCK FALSE
