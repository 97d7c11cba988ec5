CONSTANTS
  e0 = e0
  Event = {e0}
  Request = {r1, r2, r3}
  Text = {"text"}
  Asks <- MCAsks
  TTL = 1
  MaxTime = 2
SPECIFICATION FairSpec
INVARIANTS TypeOK AnswersHold OneCreator
PROPERTIES StaysEnded OpenIsSwept
CHECK_DEADLOCK FALSE
