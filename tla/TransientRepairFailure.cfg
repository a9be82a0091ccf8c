SPECIFICATION Spec
CHECK_DEADLOCK FALSE
CONSTANTS
  Nodes = {1, 2, 3, 4, 5}
  Edges = {1, 2, 3, 4, 5}
  NodeDef <- RepairNodes
  EdgeDef <- RepairEdges
  EntryNodeIDs = {1}
  ExitNodeIDs = {4, 5}
  Deadline = 0
  LeaseTTL = 2
  Resources <- MCResources
  PlanBudget <- Unlimited
  PlanConcurrent = 0
  TokenEstimate = 1
  MaxBackoff = 4
  IntMax = 100
  Snapshots <- PassBug
  ClientKeys = {}
  Actors = {"watcher"}
  Requests = {}
  Faults = {}
  Overlap = FALSE
  MaxTime = 5
  MaxAttempts = 9
INVARIANTS AcceptedIsStorable
