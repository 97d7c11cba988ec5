CONSTANTS
  a = a
  b = b
  g = g
  h = h
  Notif = {n1}
  Worker = {w1}
  Member = {a, b}
  Group = {g}
  Requests <- MCRequestsLive
  MaxEntries = 1
  Providers = {"sms"}
  StartSubs <- MCStartSubs
  StartMembers <- MCStartMembers
  Reach <- MCReach
  QueueCap = 1
  Concurrency = 1
  RetryLimit = 2
  DbMayFail = FALSE
  MaxRestarts = 0
  MaxChanges = 1
SPECIFICATION Spec

PROPERTIES SmsOnlyToSubscribed
CHECK_DEADLOCK FALSE
