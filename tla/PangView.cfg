SPECIFICATION Spec
CONSTANTS
  Alphabets <- MCAlphabets
  Parts <- MCParts
  Bare <- MCBare
  Numerals = {"1", "7"}
  Files <- MCFiles
  Readable <- MCReadable
  Pictures <- MCPictures
  Written <- MCWritten
  Args <- MCArgs
  MaxLen <- MCMaxLen
  MaxDepth = 3
  MaxPage = 4
  CacheMax = 2
  None = None
INVARIANTS TypeOK NoTrap NeverHidden AllClosed ShownIsLast
PROPERTIES NothingLost Shows
CHECK_DEADLOCK FALSE
