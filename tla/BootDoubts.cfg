\* Properties the code does not have; TLC takes one at a time.
SPECIFICATION Spec
CONSTANTS
  disk = disk
  part = part
  usb = usb
  again = again
  NoDev = NoDev
  Devs <- MCDevs
  Rank <- MCRank
  HasFs = {part, usb, again}
  Marked = {usb, again}
  HasInit = {part, usb, again}
  Bootable = {part, usb, again}
  Early = {disk, part}
  Givens <- MCGivens
  Faults = {"hand", "unplug"}
  RetryCnt = 1
  MaxTries = 5
INVARIANT OptionsTaken
\* INVARIANT MountedOnce
CHECK_DEADLOCK FALSE
