--------------------------- MODULE GraphValidation ---------------------------
(***************************************************************************)
(* ValidateGraph: what a workflow graph must satisfy before a plan can be  *)
(* frozen from it.  Predicates are sets of outcomes here, and contracts,   *)
(* agent and squad references are not modelled.                            *)
(***************************************************************************)
EXTENDS PlanReducer

ValidNode(n) ==
  LET d == NodeDef[n]
  IN  /\ d.kind \in {"agent", "squad", "gate", "human", "merge", "repair"}
      /\ d.join \in {"", "all", "quorum", "first_success"}
      /\ d.quorum >= 0 /\ d.retryMax >= 0 /\ d.backoff >= 0 /\ d.rounds >= 0
      /\ d.timeout >= 0 /\ d.maxContext >= 0 /\ d.concurrent >= 0 /\ d.duration >= 0
      /\ \A r \in Resources : d.budget[r] >= 0
      /\ d.policy \in {"", "collect", "prefer_priority", "fail"}
      /\ d.kind # "merge" => d.policy = ""
      /\ d.kind # "repair" => d.target = 0 /\ d.verify = {} /\ d.rounds = 0
      /\ d.kind = "repair" => d.target # n /\ d.verify # {} /\ d.rounds # 0
      /\ (d.join = "quorum" /\ d.quorum > 0) => d.quorum <= Cardinality(Incoming(n))

ValidEdge(e) ==
  LET d == EdgeDef[e]
  IN  /\ d.from \in Nodes /\ d.to \in Nodes
      /\ d.on \in {"success", "failure", "timeout", "approval", "bug", "cancel"}
      /\ d.max >= 0
      /\ (d.from = d.to \/ d.loop) => d.max >= 1
      /\ d.fanOut => d.priority >= 0

ValidRepairNode(n) ==
  LET target == resolveRepairTarget(n)
  IN  /\ target \in Nodes /\ repairPathExists(n, target)
      /\ \A v \in NodeDef[n].verify : v \in Nodes /\ repairPathExists(target, v)

hasHumanExit(n) == \E h \in Reachable(Edges, {n}) : NodeDef[h].kind = "human"

(* Every cycle has a bounded edge, and a bounded edge of a loop group that *)
(* closes a cycle has a human exit.                                        *)
BoundedCycles ==
  LET unbounded == {e \in Edges : EdgeDef[e].max < 1}
  IN  /\ \A n \in Nodes : n \notin Reachable(unbounded, Successors(unbounded, {n}))
      /\ \A e \in Edges \ unbounded :
           (EdgeDef[e].loop /\ EdgeDef[e].from \in Reachable(Edges, {EdgeDef[e].to}))
             => hasHumanExit(EdgeDef[e].from)

ValidateGraph ==
  /\ Nodes # {} /\ EntryNodeIDs # {} /\ ExitNodeIDs # {}
  /\ EntryNodeIDs \cup ExitNodeIDs \subseteq Nodes
  /\ \A n \in Nodes : ValidNode(n)
  /\ \A e \in Edges : ValidEdge(e)
  /\ \A n \in Nodes : NodeDef[n].kind = "repair" => ValidRepairNode(n)
  /\ Nodes \subseteq Reachable(Edges, EntryNodeIDs)
  /\ \A n \in Nodes : Reachable(Edges, {n}) \cap ExitNodeIDs # {}
  /\ BoundedCycles
=============================================================================
