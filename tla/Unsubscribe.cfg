CONSTANTS
  s1 = s1
  s2 = s2
  r1 = r1
  r2 = r2
  r3 = r3
  g = g
  h = h
  ann = ann
  bob = bob
  Session = {s1, s2}
  Request = {r1, r2, r3}
  Spelling = {"Ann", "ann", "bob"}
  Fold <- MCFold
  Mobile <- MCMobile
  QueueCap = 1
  MaxEnvelopes = 2
  MaxRcpt = 2
  IntakeLoads <- MCLoads
SPECIFICATION Spec

PROPERTIES UnsubscribedIsGone
CHECK_DEADLOCK FALSE
