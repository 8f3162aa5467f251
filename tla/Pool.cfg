SPECIFICATION FairSpec
CONSTANTS
  Callers = {c1, c2, c3}
  Closers = {d1, d2}
  Resources = {r1, r2}
  maxResources = 2
  CreateMayFail = TRUE
  None = None
CHECK_DEADLOCK FALSE
INVARIANTS
  TypeOK
  NoIdleWhileWaiting
  NoLostResource
  ReturnNeverThrows
PROPERTIES
  LeaseSpec
  NoOvertaking
  Served
  DestroyAllSettles
