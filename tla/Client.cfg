SPECIFICATION FairSpec
CONSTANTS
  t1 = t1
  t2 = t2
  c1 = c1
  c2 = c2
  app = app
  Tasks = {t1, t2}
  Calls = {c1, c2}
  Custom = Custom
  Null = Null
  None = None
  Error = Error
  Unimplemented = Unimplemented
  Hostnames = {"h", "g", "localhost"}
  Requests <- AllRequests
CHECK_DEADLOCK FALSE
INVARIANTS
  TypeOK
  ParsedAsWritten
  UriLeadsBack
  WorkersUnderstand
  Balanced
PROPERTIES
  SentAtMostOnce
  GetEnds
