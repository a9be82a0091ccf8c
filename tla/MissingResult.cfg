SPECIFICATION Spec
CHECK_DEADLOCK FALSE
CONSTANTS
  Nodes = {1}
  Edges = {}
  NodeDef <- SingleNode
  EdgeDef <- NoEdges
  EntryNodeIDs = {1}
  ExitNodeIDs = {1}
  Deadline = 0
  LeaseTTL = 2
  Resources <- MCResources
  PlanBudget <- Unlimited
  PlanConcurrent = 0
  TokenEstimate = 1
  MaxBackoff = 4
  IntMax = 100
  Snapshots <- Unstructured
  ClientKeys = {}
  Actors = {"watcher"}
  Requests = {}
  Faults = {}
  Overlap = FALSE
  MaxTime = 5
  MaxAttempts = 6
INVARIANTS MissingResultFails
