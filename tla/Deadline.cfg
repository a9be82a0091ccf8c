SPECIFICATION LiveSpec
CHECK_DEADLOCK FALSE
CONSTANTS
  Nodes = {1, 2, 3, 4}
  Edges = {1, 2, 3, 4}
  NodeDef <- JoinLate
  EdgeDef <- FanOutEdges
  EntryNodeIDs = {1}
  ExitNodeIDs = {4}
  Deadline = 4
  LeaseTTL = 2
  Resources <- MCResources
  PlanBudget <- Unlimited
  PlanConcurrent = 0
  TokenEstimate = 1
  MaxBackoff = 4
  IntMax = 100
  Snapshots <- PassFail
  ClientKeys = {}
  Actors = {"watcher"}
  Requests = {}
  Faults = {"context"}
  Overlap = FALSE
  MaxTime = 5
  MaxAttempts = 6
PROPERTIES DeadlineHonoured ClosingIsComplete
