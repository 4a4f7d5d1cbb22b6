SPECIFICATION ProgramsSpec
CONSTANTS
  gridW = 4
  gridH = 6
  MAX_LENGTH = 6
  FrameMax = 2
  MaxScore = 30
  BufferSize = 4
  NoteMax = 2
  NoteChars = {"a"}
  NoteNUL = NoteNUL
  NoNote = NoNote
INVARIANTS
  SnakeBody
  ScoreTellsLength
  SavedIsShown
