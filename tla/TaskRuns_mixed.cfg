SPECIFICATION Spec
CONSTANTS
  MaxRuns = 2
  Kinds = {"plain", "delivery"}
  ClaimLimit = 2
  MaxAttempts = 3
  Retain = 1
  MaxAdmin = 1
  MaxOutages = 1
INVARIANTS AutoRetryBounded AtMostOncePerRequest
PROPERTIES ImplementsLanes SettledOverwrittenOnlyByItsHolder NoSilentStranding
CHECK_DEADLOCK FALSE
