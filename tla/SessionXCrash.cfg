SPECIFICATION Spec
CONSTANTS
  ann = ann
  bob = bob
  NoUser = NoUser
  Users <- MCUsers
  Depth = 2
  Autologins <- Nobody
  Inputs = {"login"}
  Faults = {"xcrash"}
INVARIANTS
  DownOnlyIfAsked
