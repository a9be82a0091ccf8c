SPECIFICATION Spec
CHECK_DEADLOCK FALSE
CONSTANTS
  Nodes = {1, 2, 3}
  Edges = {1, 2, 3}
  NodeDef <- FeedbackNodes
  EdgeDef <- FeedbackEdges
  EntryNodeIDs = {1}
  ExitNodeIDs = {3}
  Deadline = 0
  LeaseTTL = 2
  Resources <- MCResources
  PlanBudget <- Unlimited
  PlanConcurrent = 0
  TokenEstimate = 1
  MaxBackoff = 4
  IntMax = 100
  Snapshots <- PassBugFail
  ClientKeys = {}
  Actors = {"watcher"}
  Requests = {}
  Faults = {"crash", "outbox", "resolve", "write"}
  Overlap = FALSE
  MaxTime = 5
  MaxAttempts = 6
INVARIANTS TypeOK UsageAccounted ReplayAgrees NotStranded
PROPERTIES LedgerSpec
