SPECIFICATION Spec
CONSTANTS
  TERM_W = 2
  TERM_H = 3
  BufSize = 6
  Chars <- MCChars
  Texts <- MCTexts
  NoBuffer = NoBuffer
  StatusText <- MCStatus
  InputSize = 3
  InputMax = 2
  PrefixCap = 1
  MaxHist = 2
  Keys = {"a", " "}
  PromptText <- MCPrompt
  Banner <- MCBanner
  Outputs <- MCOutputs
  Commands <- MCCommands
  FileNames <- MCFiles
  NUL = NUL
  ESC = ESC
  Digits <- MCDigits
INVARIANTS
  LineInv
  WindowInv
  EchoIsTail
  EditorInv
  RenderInBounds
  CursorTellsPosition
PROPERTIES
  RecallFaithful
  NewestIsLast
  CompletionExtends
  ImplementsTextEdit
