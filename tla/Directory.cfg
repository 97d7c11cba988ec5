CONSTANTS
  g1 = g1
  g2 = g2
  u1 = u1
  u2 = u2
  u3 = u3
  v1 = v1
  v2 = v2
  v3 = v3
  c1 = c1
  c2 = c2
  c3 = c3
  NoRow = NoRow
  NoGroup = NoGroup
  NoPlace = NoPlace
  here = here
  there = there
  Places = {here, there}
  Groups = {g1, g2}
  Users = {u1, u2, u3}
  Nameless = {u3}
  Passwords = {"p1", "p2"}
  Client = {c1, c2, c3}
  Visitor = {v1, v2, v3}
  RoleGroups <- MCRoleGroups
  Loads <- MCLoads
  MaxSize = 1
  TTL = 1
  SessionTTL = 1
SPECIFICATION FairSpec
INVARIANTS TypeOK ToldIsTrue AuditAccounts SnapshotsOnly InStep RevocationBounded SessionsHonest
PROPERTIES CacheImplementsMap ImplementsMirror RemovedIsCleaned ListedIsMirrored EveryoneServed ExpiredIsSwept
CHECK_DEADLOCK FALSE
