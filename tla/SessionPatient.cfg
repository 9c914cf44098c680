SPECIFICATION Spec
CONSTANTS
  ann = ann
  bob = bob
  NoUser = NoUser
  Users <- MCUsers
  Depth = 2
  Autologins <- NobodyOrAnn
  Inputs = {"login", "button", "close", "reboot", "shutdown", "press"}
  Faults = {}
INVARIANTS
  DownOnlyIfAsked
PROPERTIES
  NoSessionOnceConfirmed
  ConfirmedPowersOff
  AutoSession
