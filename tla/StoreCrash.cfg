SPECIFICATION Spec
CONSTANTS
  d1 = d1
  d2 = d2
  p1 = p1
  p2 = p2
  p3 = p3
  NoDev = NoDev
  Disks <- MCDisks
  Parts <- MCParts
  DiskOf <- MCDiskOf
  OneDigit = {p1, p2}
  Rank <- MCRank
  Docs = {a, b}
  Options = {"nodisk", "delete-data"}
  Faults = {"crash", "sfdisk"}
INVARIANTS
  TypeOK
  AtMostOneStorage
  AnnouncedIsStorage
PROPERTIES
  NothingErasedUnasked
  SessionOnCheckedStorage
  KeepsPromise
