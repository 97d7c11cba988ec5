CONSTANTS
  e0 = e0
  Event = {e0}
  Request = {r1, r2}
  Text = {"text"}
  Asks <- MCAsks
  TTL = 1
  MaxTime = 2
SPECIFICATION Spec
PROPERTIES EndIsKept
CHECK_DEADLOCK FALSE
