SPECIFICATION Spec
CHECK_DEADLOCK FALSE
CONSTANTS
  Nodes = {1}
  Edges = {}
  NodeDef <- SingleNode
  EdgeDef <- NoEdges
  EntryNodeIDs = {1}
  ExitNodeIDs = {1}
  Deadline = 0
  LeaseTTL = 1
  Resources <- MCResources
  PlanBudget <- Unlimited
  PlanConcurrent = 0
  TokenEstimate = 1
  MaxBackoff = 4
  IntMax = 100
  Snapshots <- PassFail
  ClientKeys = {}
  Actors = {"watcher", "ticker"}
  Requests = {}
  Faults = {}
  Overlap = TRUE
  MaxTime = 2
  MaxAttempts = 2
PROPERTIES LedgerSpec
