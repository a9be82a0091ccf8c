SPECIFICATION LiveSpec
CHECK_DEADLOCK FALSE
CONSTANTS
  Nodes = {1, 2, 3, 4, 5, 6}
  Edges = {1, 2, 3, 4, 5, 6, 7}
  NodeDef <- ReleaseNodes
  EdgeDef <- ReleaseEdges
  EntryNodeIDs = {1}
  ExitNodeIDs = {4, 5, 6}
  Deadline = 0
  LeaseTTL = 1
  Resources <- MCResources
  PlanBudget <- Unlimited
  PlanConcurrent = 0
  TokenEstimate = 1
  MaxBackoff = 4
  IntMax = 100
  Snapshots <- PassBug
  ClientKeys = {}
  Actors = {"watcher"}
  Requests = {}
  Faults = {}
  Overlap = FALSE
  MaxTime = 20
  MaxAttempts = 11
INVARIANTS SuccessIsVerified
PROPERTIES WatchSettles
