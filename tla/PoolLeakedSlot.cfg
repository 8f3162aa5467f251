SPECIFICATION Spec
CONSTANTS
  Callers = {c1, c2}
  Closers = {}
  Resources = {r1}
  maxResources = 1
  CreateMayFail = TRUE
  None = None
CHECK_DEADLOCK FALSE
INVARIANTS
  WaiterHasSource
