SPECIFICATION Spec
CONSTANTS
  ann = ann
  bob = bob
  NoUser = NoUser
  Users <- MCUsers
  Depth = 2
  Autologins <- OnlyAnn
  Inputs = {}
  Faults = {}
PROPERTIES
  AutoLoopPowersOff
CHECK_DEADLOCK FALSE
