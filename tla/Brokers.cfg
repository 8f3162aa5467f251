SPECIFICATION FairSpec
CONSTANTS
  Publishes = {m1, m2, m3}
  Channels = {c1, c2}
  Refused = {m3}
  End = End
  None = None
CHECK_DEADLOCK FALSE
INVARIANTS
  EndIsGentle
PROPERTIES
  MessageBrokerSpec
  PublishAndEndSettle
