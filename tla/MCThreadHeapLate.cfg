SPECIFICATION Spec
CONSTANTS
  Thread = {t1, t2}
  HeapAddr = {h1, h2, h3}
  Segment = {s1, s2}
  Usable = 1
  SEGMENT_CACHE = 1
  NumClasses = 1
  Capacity <- OneBlock
  Batch <- OneBlock
  LateCalls = TRUE
  HeapMayFail = FALSE
  NULL = NULL
  ABANDONED = ABANDONED
  EMPTY = EMPTY
SYMMETRY Symmetry
INVARIANTS
  ExitHandsPagesBack
CHECK_DEADLOCK FALSE
