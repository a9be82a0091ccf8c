SPECIFICATION Spec
CHECK_DEADLOCK FALSE
CONSTANTS
  Nodes = {1, 2, 3}
  Edges = {1, 2}
  NodeDef <- TwoEntryNodes
  EdgeDef <- TwoEntryEdges
  EntryNodeIDs = {1, 2}
  ExitNodeIDs = {3}
  Deadline = 0
  LeaseTTL = 2
  Resources <- MCResources
  PlanBudget <- Unlimited
  PlanConcurrent = 0
  TokenEstimate = 1
  MaxBackoff = 4
  IntMax = 100
  Snapshots <- PassOnly
  ClientKeys = {}
  Actors = {"watcher"}
  Requests = {}
  Faults = {}
  Overlap = FALSE
  MaxTime = 5
  MaxAttempts = 6
PROPERTIES WaitingIsHeld
