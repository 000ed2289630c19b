SPECIFICATION Spec
CONSTANTS
  WORD_BITS = 29
  WORD = 536870912
  PS = 4096
  SEGMENT_SIZE = 4194304
  PAGE_SIZE = 65536
  ALLOC_ALIGN = 16
  SMALL_SIZE_MAX = 16384
  LARGE_OFFSET = 32
  MallocSize <- MCMallocSize
  CallocArg <- MCCallocArg
  AlignedArg <- MCAlignedArg
  ReallocSize <- MCReallocSize
INVARIANTS
  BlocksRecoverable
  LargeRecoverable
  WasteBounded
  RefusedOnlyIfImpossible
