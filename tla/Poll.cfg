CONSTANTS
  Voice = {v}
  Sms = {s}
  NoDelivery = NoDelivery
  Shown <- MCShown
  Limit = 2
  MaxFaults = 1
  MaxRestarts = 1
SPECIFICATION FairSpec
INVARIANTS TypeOK OneChecker StatusTruthful AttemptsBounded
PROPERTIES SettledIsFinal GivesUpAtLimit Settles
CHECK_DEADLOCK FALSE
