SPECIFICATION Spec
CONSTANTS
  Slots = 4
  Persist = 3
  Names = {n1, n2, n3}
  NoName = NoName
  Contents = {c1, c2}
  Boot = Boot
  FirstData = 2
  MaxSector = 10
  StackSectors = {0, 1, 2}
  StackFlags = {0, 1, 2}
  Absent = Absent
  None = None
INVARIANTS
  CacheCoherent
PROPERTIES
  ImplementsDurableStore
