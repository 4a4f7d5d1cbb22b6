SPECIFICATION MemorySpec
CONSTANTS
  Word = 2048
  HeapStart = 160
  HeapEnd = 504
  Sizes = {1, 6, 13, 32, 64}
  MaxBlocks = 8
  UserStart = 96
  UserLimit = 768
  Header = 3
  UserSizes = {5, 100, 300}
  Page = 32
  Tables = 3
  FbAddrs = {960, 1504}
  FbSizes = {70}
  TssBases = {1061104, 305419896}
INVARIANTS
  OutsideKernelHeap
