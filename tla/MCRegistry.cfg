SPECIFICATION Spec
CONSTANTS
  Region = {a1, a2, a3, a4, a5}
  HashValue <- SomeHashes
  InitialCap = 4
  EMPTY = EMPTY
  TOMB = TOMB
SYMMETRY Symmetry
INVARIANTS
  ProbesEnd
  OwnsExactly
  TableCountsExact
