SPECIFICATION Spec
CONSTANTS
  ann = ann
  bob = bob
  NoUser = NoUser
  Users <- MCUsers
  Depth = 2
  Autologins <- NobodyOrAnn
  Inputs = {"login", "button", "close", "exit", "reboot", "shutdown", "press", "impatient"}
  Faults = {"xcrash", "kill"}
INVARIANTS
  TypeOK
  SessionOfLogin
