SPECIFICATION LiveSpec
CHECK_DEADLOCK FALSE
CONSTANTS
  Nodes = {1}
  Edges = {}
  NodeDef <- TimedNode
  EdgeDef <- NoEdges
  EntryNodeIDs = {1}
  ExitNodeIDs = {1}
  Deadline = 4
  LeaseTTL = 2
  Resources <- MCResources
  PlanBudget <- Unlimited
  PlanConcurrent = 0
  TokenEstimate = 1
  MaxBackoff = 4
  IntMax = 100
  Snapshots <- PassBugFail
  ClientKeys = {}
  Actors = {"watcher"}
  Requests = {}
  Faults = {}
  Overlap = FALSE
  MaxTime = 5
  MaxAttempts = 6
PROPERTIES DeadlineHonoured
