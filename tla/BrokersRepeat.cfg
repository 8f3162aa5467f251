SPECIFICATION Spec
CONSTANTS
  Publishes = {m1}
  Channels = {c1, c2}
  Refused = {}
  End = End
  None = None
CHECK_DEADLOCK FALSE
INVARIANTS
  WrittenOnce
