SPECIFICATION Spec
CHECK_DEADLOCK FALSE
CONSTANTS
  Nodes = {1, 2}
  Edges = {1}
  NodeDef <- HeldNodes
  EdgeDef <- HeldEdges
  EntryNodeIDs = {1}
  ExitNodeIDs = {2}
  Deadline = 0
  LeaseTTL = 1
  Resources <- MCResources
  PlanBudget <- Unlimited
  PlanConcurrent = 0
  TokenEstimate = 1
  MaxBackoff = 4
  IntMax = 100
  Snapshots <- PassFail
  ClientKeys = {}
  Actors = {"watcher", "operator"}
  Requests = {"approval", "cancel", "retry", "takeover"}
  Faults = {"crash", "outbox"}
  Overlap = TRUE
  MaxTime = 2
  MaxAttempts = 3
INVARIANTS SingleFlight AttemptsAreLogged
