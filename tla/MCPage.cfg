SPECIFICATION Spec
CONSTANTS
  Thread = {t1, t2, t3}
  Capacity = 3
  Batch = 2
  NULL = NULL
  JUNK = JUNK
  ABANDONED = ABANDONED
SYMMETRY Symmetry
INVARIANTS
  TypeOK
  ListsTerminate
  BlocksPartitioned
PROPERTIES
  OwnerPrivate
  ImplementsPromise
