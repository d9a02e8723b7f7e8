CONSTANTS
  MaxAttempts = 3
  Durations = {1, 60}
  RetryAfters <- MCRetryAfters
  Malformed = Malformed
  None = None
SPECIFICATION Spec
INVARIANTS
  VerdictTruthful
  RetriesExactly
  ErrorNamesLastOutcome
  WaitsAsAsked
CHECK_DEADLOCK FALSE
