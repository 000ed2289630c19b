SPECIFICATION Spec
CONSTANT Capacity = 4
INVARIANTS
  UsedExact
  PooledIsIdle
PROPERTY
  LiveLeavesByFree
