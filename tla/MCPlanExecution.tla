--------------------------- MODULE MCPlanExecution ---------------------------
(***************************************************************************)
(* Small graphs for model checking PlanExecution.  Nodes and edges are     *)
(* numbered; a run chooses one graph in its .cfg.                          *)
(***************************************************************************)
EXTENDS PlanExecution, GraphValidation

(* Every graph that is checked is one that a plan can be frozen from.      *)
ASSUME FrozenGraph == ValidateGraph

MCResources == {"tokens"}
Unlimited == [r \in MCResources |-> 0]
Tokens(k) == [r \in MCResources |-> k]
OneClientKey == {<<1, 1, "client">>}

AgentNode ==
  [kind |-> "agent", join |-> "", quorum |-> 0, shortCircuit |-> FALSE, retryMax |-> 0,
   backoff |-> 0, retryOn |-> {}, budget |-> Unlimited, maxContext |-> 0, concurrent |-> 0,
   duration |-> 0, timeout |-> 0, target |-> 0, verify |-> {}, rounds |-> 0, policy |-> "",
   required |-> {}, requireEvidence |-> FALSE]
GateNode == [AgentNode EXCEPT !.kind = "gate"]
HumanNode == [AgentNode EXCEPT !.kind = "human"]
MergeNode(join) == [AgentNode EXCEPT !.kind = "merge", !.join = join]

Outcomes == {"pass", "failure", "bug", "timeout", "cancelled", "approved", "denied"}

Edge(from, on, to) ==
  [from |-> from, to |-> to, on |-> on, fanOut |-> FALSE, priority |-> 0, max |-> 0,
   when |-> Outcomes, needs |-> {}, loop |-> FALSE]

Snapshot(status, marker) ==
  [status |-> status, marker |-> marker, tools |-> TRUE, evidence |-> {"report"},
   used |-> Tokens(1)]
Pass == Snapshot("completed", "pass")
Bug == Snapshot("completed", "bug")
Fail == Snapshot("failed", "")

-----------------------------------------------------------------------------
(* Feedback: 1 is a gate, 2 develops, 3 tests; a bug goes back to 2 once.  *)
FeedbackNodes == <<GateNode, [AgentNode EXCEPT !.retryMax = 2, !.backoff = 1], AgentNode>>
FeedbackEdges == <<Edge(1, "success", 2), Edge(2, "success", 3),
                   [Edge(3, "bug", 2) EXCEPT !.max = 1]>>
PassBugFail == {Pass, Bug, Fail}
PassFail == {Pass, Fail}
PassOnly == {Pass}

(* The same with the human exit 4 that a loop group needs, for a test that *)
(* times out.                                                              *)
LoopNodes == <<GateNode, AgentNode, AgentNode, HumanNode>>
LoopEdges == <<Edge(1, "success", 2), Edge(2, "success", 3),
               [Edge(3, "bug", 2) EXCEPT !.max = 1, !.loop = TRUE], Edge(3, "timeout", 4)>>

(* Repair: 1 is a gate, 2 tests, 3 plans the repair of 2, 4 verifies; 5 is *)
(* the human exit that a bounded cycle needs.                              *)
RepairNodes ==
  <<GateNode, AgentNode,
    [AgentNode EXCEPT !.kind = "repair", !.target = 2, !.verify = {4}, !.rounds = 2],
    AgentNode, HumanNode>>
RepairEdges ==
  <<Edge(1, "success", 2), [Edge(2, "bug", 3) EXCEPT !.max = 2, !.loop = TRUE],
    [Edge(3, "success", 2) EXCEPT !.max = 2, !.loop = TRUE],
    Edge(2, "success", 4), Edge(4, "timeout", 5)>>

(* The same with a second verification node, 6, beside 4, and with a bug   *)
(* that 4 reports going back to 3 too.                                     *)
ReleaseNodes == Append([RepairNodes EXCEPT ![3].verify = {4, 6}], AgentNode)
ReleaseEdges ==
  [RepairEdges EXCEPT ![4].fanOut = TRUE] \o
  <<[Edge(4, "bug", 3) EXCEPT !.max = 1, !.loop = TRUE],
    [Edge(2, "success", 6) EXCEPT !.fanOut = TRUE]>>
PassBug == {Pass, Bug}

(* FanOut: the gate 1 opens the agents 2 and 3, which the merge 4 joins.   *)
FanOutNodes(join) == <<GateNode, AgentNode, AgentNode, MergeNode(join)>>
FanOutEdges ==
  <<[Edge(1, "success", 2) EXCEPT !.fanOut = TRUE], [Edge(1, "success", 3) EXCEPT !.fanOut = TRUE],
    Edge(2, "success", 4), Edge(3, "success", 4)>>
JoinAll == FanOutNodes("all")
JoinRetry == [JoinAll EXCEPT ![2].retryMax = 2, ![3].retryMax = 2]
JoinLate ==                                          \* 1 develops, with retries
  [JoinAll EXCEPT ![1] = [AgentNode EXCEPT !.retryMax = 2, !.backoff = 1]]
JoinApproval ==                                      \* 3 is a human decision
  [JoinAll EXCEPT ![2].retryMax = 1, ![3] = HumanNode]
ApprovalEdges == [FanOutEdges EXCEPT ![4].on = "approval"]
JoinFirst == FanOutNodes("first_success")

(* The agents 2 and 3 are exits.                                           *)
TwoExitNodes == SubSeq(JoinAll, 1, 3)
TwoExitEdges == SubSeq(FanOutEdges, 1, 2)

(* FanOut with a failure edge beside each success edge into a            *)
(* short-circuiting merge.                                                 *)
ShortNodes == [JoinAll EXCEPT ![4].shortCircuit = TRUE]
ShortEdges == FanOutEdges \o <<Edge(2, "failure", 4), Edge(3, "failure", 4)>>

(* Two entry agents report to the human exit 3.                            *)
TwoEntryNodes == <<AgentNode, AgentNode, HumanNode>>
TwoEntryEdges == <<Edge(1, "success", 3), Edge(2, "success", 3)>>

(* 1 develops and is the entry, 2 tests and sends bugs back to 1.          *)
EntryLoopNodes == <<AgentNode, AgentNode>>
EntryLoopEdges == <<Edge(1, "success", 2), [Edge(2, "bug", 1) EXCEPT !.max = 1]>>

(* Held: the human node 1 releases the agent 2.                            *)
HeldNodes == <<HumanNode, [AgentNode EXCEPT !.retryMax = 2]>>
HeldEdges == <<Edge(1, "approval", 2)>>

(* A single agent.                                                         *)
SingleNode == <<[AgentNode EXCEPT !.retryMax = 2]>>
TimedNode == <<[AgentNode EXCEPT !.duration = 1]>>
NoEdges == << >>
Unstructured == {Snapshot("completed", "")}

=============================================================================
