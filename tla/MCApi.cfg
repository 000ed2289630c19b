SPECIFICATION Spec
CONSTANTS
  Thread = {t1, t2}
  WORD_BITS = 6
  WORD = 64
  VA_END = 24
  PS = 2
  SEGMENT_SIZE = 4
  PAGE_SIZE = 2
  ALLOC_ALIGN = 1
  SMALL_SIZE_MAX = 2
  LARGE_OFFSET = 1
  LargeSize = {5}
  MaxLarge = 2
  MaxForeign = 1
SYMMETRY Symmetry
INVARIANTS
  LiveIntact
  OursWhileLive
  QuietExact
  PeakIsHighWater
  BytesAccounted
PROPERTIES
  ForeignUntouched
  PeakLoopAdvances
