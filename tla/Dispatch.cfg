CONSTANTS
  a = a
  b = b
  g = g
  h = h
  Notif = {n1, n2}
  Worker = {w1, w2}
  Member = {a, b}
  Group = {g}
  Requests <- MCRequests
  MaxEntries = 1
  Providers = {"sms"}
  StartSubs <- MCStartSubs
  StartMembers <- MCStartMembers
  Reach <- MCReach
  QueueCap = 1
  Concurrency = 1
  RetryLimit = 2
  DbMayFail = FALSE
  MaxRestarts = 0
  MaxChanges = 0
SPECIFICATION Spec
SYMMETRY MCSymmetry
INVARIANTS SemaphoreExact RecordsTruthful
PROPERTIES CompletedIsRecorded NothingAfterClose
CHECK_DEADLOCK FALSE
