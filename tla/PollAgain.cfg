CONSTANTS
  Voice = {}
  Sms = {s}
  NoDelivery = NoDelivery
  Shown <- MCShown
  Limit = 2
  MaxFaults = 0
  MaxRestarts = 1
SPECIFICATION FairSpec
PROPERTIES CheckedAgain
CHECK_DEADLOCK FALSE
