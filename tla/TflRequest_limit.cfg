CONSTANTS
  MaxAttempts = 3
  Durations = {1, 60}
  RetryAfters <- MCRetryAfters
  Malformed = Malformed
  None = None
SPECIFICATION Spec
CHECK_DEADLOCK FALSE
INVARIANTS
  FitsFunctionLimit
