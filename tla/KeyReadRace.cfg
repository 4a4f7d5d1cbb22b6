SPECIFICATION Spec
CONSTANT MaxKeys = 2
INVARIANTS
  ClearsWhatItRead
