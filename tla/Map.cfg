SPECIFICATION FairSpec
CONSTANTS
  Keys = {k1, k2}
  Promises = {p1, p2, p3}
  Timers = {t1, t2}
  timed = TRUE
  WithClear = TRUE
  maxFollows = 1
  None = None
INVARIANTS
  TypeOK
  MapsAgree
  TimersMatch
  StatusTruthfulUnlessStale
  OwnTimerDeletesSettled
PROPERTIES
  RejectAllCompleteUnlessStale
  Forgotten
