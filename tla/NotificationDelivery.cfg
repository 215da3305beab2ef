SPECIFICATION FairSpec
CONSTANTS
  Replies = {"r1"}
  Externals = {"x"}
  Digests = {"g"}
  MaxDeliveries = 2
  ClaimLimit = 2
  MaxAttempts = 2
  Threshold = 2
  MaxPlans = 2
  MaxAdmin = 1
  MaxCrashes = 1
INVARIANTS SendsBounded OneMailPerReply SuppressionEarned
PROPERTIES SentIsFinal ImplementsAtLeastOnce PendingEventuallySettles
CHECK_DEADLOCK FALSE
