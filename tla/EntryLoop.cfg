SPECIFICATION Spec
CHECK_DEADLOCK FALSE
CONSTANTS
  Nodes = {1, 2}
  Edges = {1, 2}
  NodeDef <- EntryLoopNodes
  EdgeDef <- EntryLoopEdges
  EntryNodeIDs = {1}
  ExitNodeIDs = {2}
  Deadline = 0
  LeaseTTL = 2
  Resources <- MCResources
  PlanBudget <- Unlimited
  PlanConcurrent = 0
  TokenEstimate = 1
  MaxBackoff = 4
  IntMax = 100
  Snapshots <- PassBugFail
  ClientKeys = {}
  Actors = {"watcher"}
  Requests = {}
  Faults = {}
  Overlap = FALSE
  MaxTime = 5
  MaxAttempts = 6
INVARIANTS NotStranded
