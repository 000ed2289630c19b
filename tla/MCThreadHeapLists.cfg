SPECIFICATION Spec
CONSTANTS
  Thread = {t1, t2}
  HeapAddr = {h1, h2}
  Segment = {s1, s2, s3}
  Usable = 1
  SEGMENT_CACHE = 1
  NumClasses = 1
  Capacity <- OneBlock
  Batch <- OneBlock
  LateCalls = TRUE
  HeapMayFail = TRUE
  NULL = NULL
  ABANDONED = ABANDONED
  EMPTY = EMPTY
SYMMETRY Symmetry
INVARIANTS
  ClassListsSound
  CentralSound
  NoPrematureRecycle
  HeapsDistinct
  CursorValid
CHECK_DEADLOCK FALSE
