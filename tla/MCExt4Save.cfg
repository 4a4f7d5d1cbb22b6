SPECIFICATION Spec
CONSTANTS
  a = a  b = b  d = d  e = e  x = x
  HeapStart = 4
  HeapEnd = 96
  Word = 1024
  Names = {a, b, d}
  Contents = {e, x}
  Empty = e
  NoFile = NoFile
  DiskNames = {d}
  DiskContent <- MCDiskContent
  ContentSize <- MCContentSize
  DiskBlocks <- MCDiskBlocks
  BlockSize = 4
  NodeSize = 4
  EntrySize = 4
  DiskCount = 1
  CpBuf = 4
  EditBuf = 4
  LineSize = 2
INVARIANTS
  SaveCompletes
CHECK_DEADLOCK FALSE
