SPECIFICATION Spec
CONSTANTS
  Alphabets <- ImageAlphabets
  Parts <- ImageParts
  Bare <- ImageBare
  Numerals = {"1", "7"}
  Files <- OneFiles
  Readable <- OneFile
  Pictures <- MCPictures
  Written <- ImageWritten
  Args <- OneArgs
  MaxLen <- OneMaxLen
  MaxDepth = 3
  MaxPage = 4
  CacheMax = 2
  None = None
PROPERTIES PictureInPlace
CHECK_DEADLOCK FALSE
