SPECIFICATION Spec
CONSTANTS
  d1 = d1
  d2 = d2
  p1 = p1
  p2 = p2
  p3 = p3
  NoDev = NoDev
  Disks <- OneDisk
  Parts <- TwoParts
  DiskOf <- OneDiskOf
  OneDigit = {p1}
  Rank <- OneRank
  Docs = {a}
  Options = {"nodisk", "delete-data", "delete-disk"}
  Faults = {"crash", "sfdisk", "mkfs", "mount", "unplug"}
PROPERTIES
  NothingErasedUnasked
  LeftAlone
