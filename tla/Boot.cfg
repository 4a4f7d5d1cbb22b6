SPECIFICATION MemorySpec
CONSTANTS
  Word = 2048
  HeapStart = 160
  HeapEnd = 504
  Sizes = {1, 6, 13, 32, 64}
  MaxBlocks = 8
  UserStart = 8
  UserLimit = 26
  Header = 3
  UserSizes = {0, 5, 60}
  Page = 32
  Tables = 3
  FbAddrs = {960, 1504}
  FbSizes = {70}
  TssBases = {1061104, 305419896}
INVARIANTS
  HeapInv
  UserHeapInv
  NothingLost
  SegmentsDecode
  TablesApart
  IdentityMapped
PROPERTIES
  ExhaustionIsFinal
  BlocksStay
  MapsOnePage
