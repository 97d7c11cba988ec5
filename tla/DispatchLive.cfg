CONSTANTS
  a = a
  b = b
  g = g
  h = h
  Notif = {n1, n2}
  Worker = {w1, w2}
  Member = {a, b}
  Group = {g}
  Requests <- MCRequestsLive
  MaxEntries = 1
  Providers = {"sms", "voice"}
  StartSubs <- MCStartSubs
  StartMembers <- MCStartMembers
  Reach <- MCReach
  QueueCap = 1
  Concurrency = 2
  RetryLimit = 2
  DbMayFail = FALSE
  MaxRestarts = 0
  MaxChanges = 0
SPECIFICATION FairSpec
PROPERTIES EnqueuedIsClosed
CHECK_DEADLOCK FALSE
CONSTRAINT MCRunning
