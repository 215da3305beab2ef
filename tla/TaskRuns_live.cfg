SPECIFICATION FairSpec
CONSTANTS
  MaxRuns = 2
  Kinds = {"plain", "unserviced", "digest", "delivery"}
  ClaimLimit = 2
  MaxAttempts = 2
  Retain = 1
  MaxAdmin = 0
  MaxOutages = 1
PROPERTIES RunningEventuallySettles ClaimableEventuallyTaken
CHECK_DEADLOCK FALSE
