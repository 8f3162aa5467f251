SPECIFICATION FairSpec
CONSTANTS
  Callers = {c1, c2}
  Closers = {d1}
  Resources = {r1}
  maxResources = 1
  CreateMayFail = FALSE
  None = None
CHECK_DEADLOCK FALSE
PROPERTIES
  DestroysWhenAllReturned
