CONSTANTS
  a = a
  b = b
  g = g
  h = h
  Notif = {n1}
  Worker = {w1}
  Member = {a, b}
  Group = {g, h}
  Requests <- MCRequestsWide
  MaxEntries = 2
  Providers = {"sms", "email"}
  StartSubs <- MCStartSubs
  StartMembers <- MCStartMembersWide
  Reach <- MCReachMixed
  QueueCap = 1
  Concurrency = 1
  RetryLimit = 2
  DbMayFail = TRUE
  MaxRestarts = 1
  MaxChanges = 1
SPECIFICATION Spec
INVARIANTS TypeOK FailedSentNothing CountCoversTargets RecordsTruthful
PROPERTIES ImplementsLifecycle
CHECK_DEADLOCK FALSE
