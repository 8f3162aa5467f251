SPECIFICATION FairSpec
CONSTANTS
  Ops <- AllCalls
  Programs <- EarlyGet
  Tasks = {t1, t2, t3}
  Uuids = {t1, t2}
  t1 = t1
  t2 = t2
  t3 = t3
  Connections = {c1, c2}
  Promises = {p1, p2}
  Timers = {m1, m2}
  Sub = Sub
  End = End
  WorkerStates = {"SUCCESS"}
  None = None
CHECK_DEADLOCK FALSE
PROPERTIES
  Answered
