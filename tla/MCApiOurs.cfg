SPECIFICATION Spec
CONSTANTS
  Thread = {t1, t2}
  WORD_BITS = 6
  WORD = 64
  VA_END = 32
  PS = 2
  SEGMENT_SIZE = 8
  PAGE_SIZE = 2
  ALLOC_ALIGN = 1
  SMALL_SIZE_MAX = 2
  LARGE_OFFSET = 1
  LargeSize = {3}
  MaxLarge = 1
  MaxForeign = 1
SYMMETRY Symmetry
INVARIANTS
  OursIsExact
