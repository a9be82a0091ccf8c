SPECIFICATION Spec
CHECK_DEADLOCK FALSE
CONSTANTS
  Intents = {1, 2}
  Workers = {"executor", "drain"}
  Role <- MCRole
  Owner <- MCOwner
  MaxAttempts = 2
  MaxBatch = 3
  ClaimTTL = 2
  AttemptTTL = 2
  Faults = {}
PROPERTY DrainGoesOn
