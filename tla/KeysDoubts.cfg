\* Properties the code does not have; TLC takes one at a time.
SPECIFICATION Spec
CONSTANTS
  Progs <- MCPeek
  Timeouts = {0, 2}
  MaxKeys = 2
INVARIANT YesCounts
\* PROPERTY CtrlCGivesTime
\* INVARIANT NoFalseYes
CHECK_DEADLOCK FALSE
