SPECIFICATION Spec
CONSTANTS
  Kinds <- MCKinds
  MaxEvents = 4
  Period = 4
INVARIANT TypeOK
PROPERTY Answers
CHECK_DEADLOCK FALSE
