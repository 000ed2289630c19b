SPECIFICATION Spec
CONSTANTS
  Thread = {t1, t2}
  HeapAddr = {h1, h2}
  Segment = {s1, s2}
  Usable = 1
  SEGMENT_CACHE = 1
  NumClasses = 1
  Capacity <- OneBlock
  Batch <- OneBlock
  LateCalls = FALSE
  HeapMayFail = TRUE
  NULL = NULL
  ABANDONED = ABANDONED
  EMPTY = EMPTY
SYMMETRY Symmetry
INVARIANTS
  FailedHeapReturnsNull
CHECK_DEADLOCK FALSE
