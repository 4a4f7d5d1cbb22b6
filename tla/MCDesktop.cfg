SPECIFICATION Spec
CONSTANTS
  MaxX = 5
  MaxY = 4
  StartX = 3
  StartY = 2
  TaskbarY = 3
  StartW = 2
  TitleH = 1
  Places <- MCPlaces
  Word = 16
  SyncBit = 8
  Bytes = {1, 2, 8, 9, 15}
INVARIANTS
  Grip
  TitleOnScreen
  CtrlNotStuck
PROPERTIES
  DragWhileHeld
