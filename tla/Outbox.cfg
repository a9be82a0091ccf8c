SPECIFICATION Spec
CONSTANTS
  Intents = {1}
  Workers = {"executor", "recovery", "drain1", "drain2"}
  Role <- MCRole
  Owner <- MCOwner
  MaxAttempts = 2
  MaxBatch = 3
  ClaimTTL = 2
  AttemptTTL = 3
  Faults = {"crash", "write"}
INVARIANTS OneLiveDelivery AckedIsDelivered
