SPECIFICATION Spec
CONSTANTS
  d1 = d1
  d2 = d2
  p1 = p1
  p2 = p2
  p3 = p3
  NoDev = NoDev
  Disks <- MCDisks
  Parts <- MCParts
  DiskOf <- MCDiskOf
  OneDigit <- MCParts
  Rank <- MCRank
  Docs = {a}
  Options = {"delete-disk"}
  Faults = {"crash"}
INVARIANTS
  DeletedStaysDeleted
