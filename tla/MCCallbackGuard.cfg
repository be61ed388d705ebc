CONSTANTS
  Thread = {t1, t2}
  MaxOps = 3
  MaxPanics = 4
SPECIFICATION Spec
CHECK_DEADLOCK FALSE
INVARIANTS
  PanicSurfaces
  NothingStashed
  CallbackAlive
