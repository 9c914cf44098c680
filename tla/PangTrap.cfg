SPECIFICATION Spec
CONSTANTS
  Alphabets <- TrapAlphabets
  Parts <- TrapParts
  Bare <- TrapBare
  Numerals = {"1", "7"}
  Files <- OneFiles
  Readable <- OneFile
  Pictures <- MCPictures
  Written <- TrapWritten
  Args <- OneArgs
  MaxLen <- OneMaxLen
  MaxDepth = 3
  MaxPage = 4
  CacheMax = 2
  None = None
INVARIANTS NeverRaises
CHECK_DEADLOCK FALSE
