SPECIFICATION FairSpec
CONSTANTS
  Thread = {t1, t2}
  Segment = {s1, s2}
  Usable = 2
  SEGMENT_CACHE = 1
  Capacity = 1
  NULL = NULL
  ABANDONED = ABANDONED
INVARIANTS
  TypeOK
  ListsSound
  CountsAreExact
  LivePagesStay
PROPERTIES
  GrowsOnlyWhenFull
  LockReleased
