SPECIFICATION FairSpec
CONSTANTS
  Ops <- AllCalls
  Programs <- SmallPrograms
  Tasks = {t1, t2}
  t1 = t1
  t2 = t2
  Channels = {c1, c2}
  Promises = {p1, p2, p3}
  Timers = {m1, m2}
  Con = Con
  End = End
  MaxFull = 1
  None = None
CHECK_DEADLOCK FALSE
INVARIANTS
  EndIsGentle
  ConsumerReserved
PROPERTIES
  ResultBackendSpec
  Delivered
  RejectedAtEnd
  EveryCallEnds
