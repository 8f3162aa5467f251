SPECIFICATION Spec
CONSTANTS
  Elements = {a, b}
  Arguments <- UpToTwo
  Nodes = {n1, n2, n3, n4}
  Iterators = {i1}
  None = None
CHECK_DEADLOCK FALSE
SYMMETRY Interchangeable
INVARIANTS
  TypeOK
  Linked
  YieldsEachOnce
PROPERTIES
  DequeSpec
