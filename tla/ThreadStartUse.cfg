\* One Thread object, started once, as test/main.cpp does.
SPECIFICATION FairSpec
CONSTANTS
  o1 = o1
  o2 = o2
  i1 = i1
  i2 = i2
  p1 = p1
  Main = Main
  NoId = NoId
  Objs <- OneObj
  Ids <- OneId
  Posters <- NoPoster
  MaxPosts = 0
  SpuriousWakeups = FALSE
PROPERTY
  StartReturns
CHECK_DEADLOCK FALSE
