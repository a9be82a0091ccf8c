SPECIFICATION Spec
CHECK_DEADLOCK FALSE
CONSTANTS
  Nodes = {1, 2, 3, 4}
  Edges = {1, 2, 3, 4}
  NodeDef <- JoinApproval
  EdgeDef <- ApprovalEdges
  EntryNodeIDs = {1}
  ExitNodeIDs = {4}
  Deadline = 0
  LeaseTTL = 2
  Resources <- MCResources
  PlanBudget <- Unlimited
  PlanConcurrent = 0
  TokenEstimate = 1
  MaxBackoff = 4
  IntMax = 100
  Snapshots <- PassFail
  ClientKeys = {}
  Actors = {"watcher", "operator"}
  Requests = {"approval"}
  Faults = {}
  Overlap = TRUE
  MaxTime = 5
  MaxAttempts = 4
INVARIANTS ReplayAgrees
