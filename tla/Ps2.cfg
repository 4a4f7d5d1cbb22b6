SPECIFICATION Spec
CONSTANTS
  Firmware = {{0}, {0, 1}, {0, 5}}
  Scancodes = {{0, 1}, {4}}
  MaxPolls = 2
  MaxKeys = 2
  MaxMoves = 5
INVARIANTS
  ConfigKept
  PacketsInStep
PROPERTIES
  InitEnds
  PortServed
CHECK_DEADLOCK FALSE
