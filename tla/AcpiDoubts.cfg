\* Properties the code does not have; TLC takes one at a time.
SPECIFICATION Spec
CONSTANTS
  Kinds <- MCKinds
  MaxEvents = 4
  Period = 4
PROPERTY PressHandled
\* PROPERTY Prompt
\* PROPERTY SessionKept
\* PROPERTY Stays
CHECK_DEADLOCK FALSE
