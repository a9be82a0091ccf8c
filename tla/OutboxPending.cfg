SPECIFICATION LiveSpec
CHECK_DEADLOCK FALSE
CONSTANTS
  Intents = {1}
  Workers = {"executor", "recovery"}
  Role <- MCRole
  Owner <- MCOwner
  MaxAttempts = 2
  MaxBatch = 3
  ClaimTTL = 2
  AttemptTTL = 3
  Faults = {}
PROPERTY Converges
