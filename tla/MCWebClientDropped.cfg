CONSTANTS
  Cards = 2
  None = None
  MaxConns = 3
  MaxActs = 4
CHECK_DEADLOCK FALSE
SPECIFICATION Spec
INVARIANT ReplayIsRight
