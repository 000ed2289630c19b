SPECIFICATION FairSpec
CONSTANTS
  Thread = {t1, t2}
  HeapAddr = {h1, h2}
  Segment = {s1, s2}
  Usable = 1
  SEGMENT_CACHE = 1
  NumClasses = 2
  Capacity <- TwoClasses
  Batch <- TwoClasses
  LateCalls = FALSE
  HeapMayFail = FALSE
  NULL = NULL
  ABANDONED = ABANDONED
  EMPTY = EMPTY
INVARIANTS
  TypeOK
  NoPrematureRecycle
  ClassListsSound
  CentralSound
PROPERTY
  CallsReturn
