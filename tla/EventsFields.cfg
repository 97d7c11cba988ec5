CONSTANTS
  e0 = e0
  Event = {e0}
  Request = {r1, r2, r3}
  Text = {"text"}
  Asks <- MCUpdates
  TTL = 1
  MaxTime = 1
SPECIFICATION Spec
PROPERTIES OmittedKept
CHECK_DEADLOCK FALSE
