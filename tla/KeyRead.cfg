SPECIFICATION Spec
CONSTANT MaxKeys = 6
INVARIANTS
  InOrder
PROPERTIES
  LatchedIsReturned
