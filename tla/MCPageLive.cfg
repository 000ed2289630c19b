SPECIFICATION FairSpec
CONSTANTS
  Thread = {t1, t2, t3}
  Capacity = 2
  Batch = 1
  NULL = NULL
  JUNK = JUNK
  ABANDONED = ABANDONED
PROPERTIES
  CollectEnds
  PushLockFree
