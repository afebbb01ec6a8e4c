SPECIFICATION KeyMapSpec
CONSTANTS
  Key = {1, 2}
  MaxValue = 3
INVARIANTS
  GetsAgree
  CountsKeys
CHECK_DEADLOCK FALSE
