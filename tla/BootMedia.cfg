SPECIFICATION PatientSpec
CONSTANTS
  disk = disk
  part = part
  usb = usb
  again = again
  NoDev = NoDev
  Devs <- MCDevs
  Rank <- MCRank
  HasFs = {part, usb, again}
  Marked = {usb, again}
  HasInit = {part, usb, again}
  Bootable = {part, usb, again}
  Early = {disk, part}
  Givens <- MCGivens
  Faults = {"hand", "unplug"}
  RetryCnt = 10
  MaxTries = 5
INVARIANTS
  TypeOK
  RunsMarked
  NothingLeft
PROPERTIES
  LateMediumFound
  GetsSomewhere
CHECK_DEADLOCK FALSE
