SPECIFICATION Spec
CONSTANTS
  app = app
  daemon = daemon
  keeper = keeper
  getty = getty
  shell = shell
  stick = stick
  NoProc = NoProc
  Procs <- MCProcs
  Temper <- MCTemper
  Uses <- MCUses
  Keeper <- MCKeeper
  Media <- MCMedia
  Listed <- MCMedia
  Modes = {"data", "nosave"}
  Boots = {"usb"}
INVARIANTS
  TypeOK
  InitWaits
  Tidy
PROPERTIES
  EventuallyOff
CHECK_DEADLOCK FALSE
