----------------------------- MODULE PlanReducer -----------------------------
(***************************************************************************)
(* The reducer of internal/orchestration: the pure functions that turn a   *)
(* PlanProjection into the next one (NewProjection, StartAttempt,          *)
(* FinishAttempt, route, Retry, TakeOver), the repair lifecycle they drive *)
(* and the readiness computation of the scheduler.  A frozen plan is given *)
(* by the constants; a projection is a record p.                           *)
(*                                                                         *)
(* A Go method that mutates p and may return an error is an operator with  *)
(* the value [ok, p]: p is what the method leaves in memory, which on an   *)
(* error is not always what it was given.                                  *)
(*                                                                         *)
(* An operator X_slip is X with a plausible mistake.  Nothing refers to    *)
(* it: it documents what the properties of the runs would detect.          *)
(***************************************************************************)
EXTENDS Integers, FiniteSets, FiniteSetsExt

CONSTANTS
  Nodes,         \* node IDs: numbers, in the sort order of the real IDs
  Edges,         \* edge IDs: numbers >= 1, in the order of graph.Edges
  NodeDef,       \* [Nodes -> WorkflowNode]
  EdgeDef,       \* [Edges -> WorkflowEdge]
  EntryNodeIDs, ExitNodeIDs,
  Deadline,      \* plan.Deadline, 0 when there is none
  LeaseTTL,      \* the 15 minutes of Executor.leaseTTL and TakeOver
  Resources,     \* the counted ones of "tokens", "tool_calls", "cost_cents"
  PlanBudget,    \* [Resources -> Nat], 0 is unlimited
  PlanConcurrent, \* PolicySnapshot.Budget.Concurrent, 0 is unlimited
  TokenEstimate, \* Manifest.TokenEstimate of the context envelope
  MaxBackoff,    \* 24 hours, in clock units
  IntMax         \* the largest value of a usage counter (2^63 - 1 in the code)

Closed == {"passed", "failed", "cancelled", "timed_out"}
AttemptStatus == {"running", "waiting"} \cup Closed
NodeStatus == {"pending", "ready"} \cup AttemptStatus
PlanStatus == {"ready", "running", "terminal"}
RepairLifecycle == {"planned", "dispatched", "patched", "verifying",
                    "verified", "failed", "exhausted"}

ASSUME GraphAssumption ==
  /\ Nodes \subseteq Nat \ {0} /\ Edges \subseteq Nat \ {0}
  /\ \A e \in Edges : /\ EdgeDef[e].from \in Nodes /\ EdgeDef[e].to \in Nodes
                      /\ EdgeDef[e].max \in Nat
  /\ EntryNodeIDs \subseteq Nodes /\ ExitNodeIDs \subseteq Nodes
  /\ "tokens" \in Resources

(* Nil values: 0 for an absent attempt, repair plan or time; NoFailure for *)
(* a nil *FailureReason; NoKey for an empty idempotency key.               *)
NoFailure == [code |-> "", retryable |-> FALSE]
NoKey == <<0, 0, "">>
NoUse == [r \in Resources |-> 0]

With(f, i, v) == [j \in DOMAIN f \cup {i} |-> IF j = i THEN v ELSE f[j]]

NewProjection ==
  [status     |-> "ready",
   outcome    |-> "",
   nodes      |-> [n \in Nodes |->
                     [status  |-> IF n \in EntryNodeIDs THEN "ready" ELSE "pending",
                      current |-> 0, no |-> 0, retryAt |-> 0, retries |-> 0,
                      edges   |-> {}]],
   attempts   |-> [i \in {} |-> 0],
   traversals |-> [e \in Edges |-> 0],
   repairs    |-> [i \in {} |-> 0],
   idem       |-> [k \in {} |-> 0],
   usage      |-> NoUse]

(* Addition of two usage counters, which wraps around like int64.          *)
Plus(x, y) == IF x + y > IntMax THEN x + y - 2 * (IntMax + 1) ELSE x + y

Within(limit, x) == limit > 0 => x <= limit

Running(p) == {i \in DOMAIN p.attempts : p.attempts[i].status = "running"}
AttemptsOf(p, n) == {i \in DOMAIN p.attempts : p.attempts[i].node = n}

-----------------------------------------------------------------------------
(* Edges: which events an edge reacts to and when a branch counts.         *)

eventMatches(on, status, event, outcome) ==
  \/ /\ on = "success" /\ status = "passed"
     /\ event \notin {"approval_granted", "approved"} /\ outcome # "approved"
  \/ on = "failure" /\ status = "failed" /\ event # "bug" /\ outcome # "bug"
  \/ on = "bug" /\ status = "failed" /\ (event = "bug" \/ outcome = "bug")
  \/ on = "timeout" /\ status = "timed_out"
  \/ on = "cancel" /\ status = "cancelled"
  \/ /\ on = "approval"
     /\ event \in {"approval_granted", "approved"} \/ outcome = "approved"

(* EdgeDef[e].when is the set of outcomes the edge's predicate accepts.    *)
EvaluatePredicate(e, outcome) == outcome \in EdgeDef[e].when

CommittedEvent(a) ==
  CASE a.status = "passed"    -> "success"
    [] a.status = "failed"    -> IF a.outcome = "bug" THEN "bug" ELSE "failure"
    [] a.status = "timed_out" -> "timeout"
    [] a.status = "cancelled" -> "cancel"
    [] a.status = "waiting"   -> "waiting"
    [] OTHER                  -> ""

edgeSatisfied(e, a) ==
  /\ eventMatches(EdgeDef[e].on, a.status, CommittedEvent(a), a.outcome)
  /\ EvaluatePredicate(e, a.outcome)
  /\ EdgeDef[e].needs \subseteq a.evidence

Incoming(n) == {e \in Edges : EdgeDef[e].to = n}

(* The nodes that the edges of E lead to from S, S included.               *)
Successors(E, S) == {EdgeDef[e].to : e \in {f \in E : EdgeDef[f].from \in S}}
Reachable(E, S) ==
  LET reach[k \in 0..Cardinality(Nodes)] ==
        IF k = 0 THEN S ELSE reach[k - 1] \cup Successors(E, reach[k - 1])
  IN  reach[Cardinality(Nodes)]

SatisfiedEdges(p, n) ==
  {e \in Incoming(n) : LET c == p.nodes[EdgeDef[e].from].current
                       IN  c # 0 /\ edgeSatisfied(e, p.attempts[c])}

(* Counts one branch too many.                                             *)
JoinNeed_slip(n) == IF NodeDef[n].join = "all" THEN Cardinality(Incoming(n)) + 1 ELSE 1
JoinNeed(n) ==
  LET k == Cardinality(Incoming(n))
  IN  CASE NodeDef[n].join = "all"    -> k
        [] NodeDef[n].join = "quorum" -> IF NodeDef[n].quorum > 0
                                         THEN NodeDef[n].quorum ELSE k \div 2 + 1
        [] OTHER                      -> 1

ShortCircuited(p, n) ==
  /\ NodeDef[n].shortCircuit
  /\ \E e \in Incoming(n) :
        p.nodes[EdgeDef[e].from].status \in {"failed", "timed_out", "cancelled"}
  /\ \E e \in SatisfiedEdges(p, n) :
        /\ p.attempts[p.nodes[EdgeDef[e].from].current].status # "passed"
        /\ EdgeDef[e].on # "success"

ReadyNode(p, n, now) ==
  /\ p.nodes[n].status = "ready"
  /\ now >= p.nodes[n].retryAt
  /\ \/ Incoming(n) = {}
     \/ ShortCircuited(p, n)
     \/ Cardinality(SatisfiedEdges(p, n)) >= JoinNeed(n)

-----------------------------------------------------------------------------
(* The repair lifecycle.  A repair plan is identified by the attempt that  *)
(* created it; its target, verification nodes and round budget are those   *)
(* of the Repair node (r.node).                                            *)

resolveRepairTarget(n) ==
  LET derived == {EdgeDef[e].to : e \in {f \in Edges : /\ EdgeDef[f].from = n
                                                       /\ EdgeDef[f].to # n
                                                       /\ EdgeDef[f].on = "success"}}
  IN  IF NodeDef[n].target # 0 THEN NodeDef[n].target
      ELSE IF Cardinality(derived) = 1 THEN CHOOSE t \in derived : TRUE ELSE 0

MaxRounds(n) == IF NodeDef[n].rounds <= 0 THEN 1 ELSE NodeDef[n].rounds

(* Breadth-first search along success edges; an edge of a loop group       *)
(* without a traversal bound is not followed.                              *)
repairPathExists(from, to) ==
  to \in Reachable({e \in Edges : /\ EdgeDef[e].on = "success"
                                  /\ ~(EdgeDef[e].max = 0 /\ EdgeDef[e].loop)}, {from})

repairLifecycleTransitionAllowed(from, to) ==
  \/ from = to
  \/ from = "planned" /\ to \in {"dispatched", "failed", "exhausted"}
  \/ from = "dispatched" /\ to \in {"patched", "failed", "exhausted"}
  \/ from = "patched" /\ to \in {"verifying", "failed", "exhausted"}
  \/ from = "verifying" /\ to \in {"verified", "failed", "exhausted"}
  \/ from = "failed" /\ to \in {"planned", "exhausted"}

TransientProviderCodes ==
  {"provider_failed", "provider_timeout", "provider_result_missing",
   "provider_tool_evidence_missing", "upstream_error", "timeout", "lease_expired"}

isRetryableRepairProviderFailure(a) ==
  /\ a.status \in {"failed", "timed_out"}
  /\ a.failure.retryable /\ a.failure.code \in TransientProviderCodes

retryableRepairProviderAttempt(p, id) ==
  id \in DOMAIN p.attempts /\ isRetryableRepairProviderFailure(p.attempts[id])

(* The virtual ready edge "repair:<id>:target" is the number -id.          *)
repairReadyFrom(p, n, from, rid, verification) ==
  \/ ~verification /\ -rid \in p.nodes[n].edges
  \/ \E e \in p.nodes[n].edges \cap Edges :
        /\ EdgeDef[e].to = n /\ EdgeDef[e].on = "success"
        /\ \/ EdgeDef[e].from = from
           \/ verification /\ repairPathExists(from, EdgeDef[e].from)

VerificationAttempt(r, n) == IF n \in DOMAIN r.verifications THEN r.verifications[n] ELSE 0

(* The state a new attempt of node n would move repair plan rid to.        *)
RepairRole(p, rid, n) ==
  LET r           == p.repairs[rid]
      targetRetry == r.state = "dispatched" /\ retryableRepairProviderAttempt(p, r.target)
      verifyRetry == retryableRepairProviderAttempt(p, VerificationAttempt(r, n))
  IN  IF /\ resolveRepairTarget(r.node) = n
         /\ \/ targetRetry
            \/ /\ r.state = "planned" /\ r.target = 0
               /\ repairReadyFrom(p, n, r.node, rid, FALSE)
      THEN "dispatched"
      ELSE IF /\ n \in NodeDef[r.node].verify
              /\ r.state \in {"patched", "verifying"} /\ r.target # 0
              /\ \/ verifyRetry
                 \/ /\ VerificationAttempt(r, n) = 0
                    /\ repairReadyFrom(p, n, resolveRepairTarget(r.node), rid, TRUE)
      THEN "verifying" ELSE ""

(* A repair plan that claims an attempt of node n.  The code takes the     *)
(* first in the order of their IDs, which are made from random attempt     *)
(* IDs: any of them, and only several Repair nodes can make several.       *)
repairPlanForDispatch(p, n) ==
  LET claims == {rid \in DOMAIN p.repairs : RepairRole(p, rid, n) # ""}
  IN  IF claims = {} THEN [id |-> 0, state |-> ""]
      ELSE LET rid == CHOOSE x \in claims : TRUE
           IN  [id |-> rid, state |-> RepairRole(p, rid, n)]

resetRepairRound(nodes, rid, r) ==
  LET target == resolveRepairTarget(r.node)
  IN  [n \in Nodes |->
        IF n \notin NodeDef[r.node].verify \cup {target} \/ nodes[n].status = "running"
        THEN nodes[n]
        ELSE [nodes[n] EXCEPT !.retryAt = 0,
                !.status = IF n = target THEN "ready" ELSE "pending",
                !.edges = IF n = target THEN {-rid} ELSE {}]]

(* A failed patch or verification: the next round, or exhaustion.          *)
FailRepairRound(p, a) ==
  LET r    == p.repairs[a.repair]
      more == r.round < MaxRounds(r.node)
      next == [r EXCEPT !.round = @ + 1, !.state = "planned", !.target = 0,
                        !.verifications = [n \in {} |-> 0], !.verified = {}]
  IN  IF ~repairLifecycleTransitionAllowed(r.state, "failed")
      THEN [ok |-> FALSE, p |-> p, state |-> a.rstate]
      ELSE IF more
      THEN [ok |-> TRUE, state |-> "failed",
            p |-> [p EXCEPT !.repairs[a.repair] = next,
                            !.nodes = resetRepairRound(p.nodes, a.repair, r)]]
      ELSE [ok |-> TRUE, state |-> "exhausted",
            p |-> [p EXCEPT !.repairs[a.repair].state = "exhausted"]]

PassVerification(p, a) ==
  LET r        == p.repairs[a.repair]
      verified == r.verified \cup {a.node}
      next     == IF Cardinality(verified) = Cardinality(NodeDef[r.node].verify)
                  THEN "verified" ELSE "verifying"
      (* The map VerifiedNodes is shared with the projection: the mark     *)
      (* stays even when the transition is refused.                        *)
      marked   == [p EXCEPT !.repairs[a.repair].verified = verified]
  IN  IF repairLifecycleTransitionAllowed(r.state, next)
      THEN [ok |-> TRUE, state |-> next,
            p |-> [marked EXCEPT !.repairs[a.repair].state = next]]
      ELSE [ok |-> FALSE, p |-> marked, state |-> a.rstate]

advanceRepairAttemptState(p, a) ==
  LET same == [ok |-> TRUE, p |-> p, state |-> a.rstate]
  IN  IF a.repair = 0 \/ isRetryableRepairProviderFailure(a) THEN same
      ELSE IF a.rstate = "dispatched" /\ a.status = "passed"
      THEN IF repairLifecycleTransitionAllowed(p.repairs[a.repair].state, "patched")
           THEN [ok |-> TRUE, state |-> "patched",
                 p |-> [p EXCEPT !.repairs[a.repair].state = "patched"]]
           ELSE [same EXCEPT !.ok = FALSE]
      ELSE IF a.rstate = "verifying" /\ a.status = "passed" THEN PassVerification(p, a)
      ELSE IF /\ a.rstate \in {"dispatched", "verifying"}
              /\ a.status \in {"failed", "timed_out", "cancelled"}
      THEN FailRepairRound(p, a)
      ELSE same

(* The plan a passing Repair attempt creates; a plan of the same node that *)
(* is still open keeps its identity, round and state, and loses its        *)
(* target and verification attempts.                                       *)
createRepairPlan(p, id, a) ==
  LET open  == {rid \in DOMAIN p.repairs :
                  /\ p.repairs[rid].node = a.node
                  /\ p.repairs[rid].state \notin {"verified", "exhausted"}}
      fresh == [node |-> a.node, attempt |-> id, round |-> 1, state |-> "planned",
                target |-> 0, verifications |-> [n \in {} |-> 0], verified |-> {}]
      rid   == CHOOSE x \in open : TRUE
  IN  IF open # {}
      THEN [p |-> [p EXCEPT !.repairs[rid] = [fresh EXCEPT !.round = p.repairs[rid].round,
                                                           !.state = p.repairs[rid].state]],
            id |-> rid]
      ELSE IF a.repair = 0
      THEN [p |-> [p EXCEPT !.repairs = With(p.repairs, id, fresh)], id |-> id]
      ELSE [p |-> p, id |-> a.repair]

(* The repair part of FinishAttempt for the attempt a (its status already  *)
(* set): the value [ok, p, a].                                             *)
RepairTransition(p, id, a) ==
  IF NodeDef[a.node].kind = "repair"
  THEN CASE a.status = "passed" ->
              LET c == createRepairPlan(p, id, a)
              IN  [ok |-> TRUE, p |-> c.p,
                   a |-> [a EXCEPT !.rstate = "planned", !.repair = c.id]]
         [] a.status \in {"failed", "timed_out"} ->
              [ok |-> TRUE, p |-> p, a |-> [a EXCEPT !.rstate = "exhausted"]]
         [] OTHER -> [ok |-> TRUE, p |-> p, a |-> a]
  ELSE IF a.rstate = "" THEN [ok |-> TRUE, p |-> p, a |-> a]
  ELSE LET t == advanceRepairAttemptState(p, a)
       IN  [ok |-> t.ok, p |-> t.p, a |-> [a EXCEPT !.rstate = t.state]]

(* Takes a patch that one of its verification nodes has confirmed.         *)
allRepairsVerified_slip(p) ==
  \A rid \in DOMAIN p.repairs :
     LET r == p.repairs[rid]
     IN  r.state \in {"verifying", "verified"} /\ NodeDef[r.node].verify \cap r.verified # {}
allRepairsVerified(p) ==
  \A rid \in DOMAIN p.repairs :
     LET r == p.repairs[rid]
     IN  r.state = "verified" /\ NodeDef[r.node].verify # {}
         /\ NodeDef[r.node].verify \subseteq r.verified

repairVerificationPending(p) ==
  \E rid \in DOMAIN p.repairs :
     p.repairs[rid].state \in {"planned", "dispatched", "patched", "verifying"}

-----------------------------------------------------------------------------
(* StartAttempt.  The context envelope is complete, as both callers check. *)
(* The idempotency key of a start names node and number, so it is new when *)
(* the number is; the keys of starts are left out of idem.                 *)

StartAdmissible(p, n, id, no, token, expires, now) ==
  /\ Deadline # 0 => now < Deadline
  /\ Within(PlanBudget["tokens"], Plus(p.usage["tokens"], TokenEstimate))
  /\ PlanConcurrent > 0 => Cardinality(Running(p)) < PlanConcurrent
  /\ n \in Nodes
  /\ now >= p.nodes[n].retryAt
  /\ Within(NodeDef[n].budget["tokens"],
            TokenEstimate * (Cardinality(AttemptsOf(p, n)) + 1))
  /\ Within(NodeDef[n].maxContext, TokenEstimate)
  /\ NodeDef[n].concurrent > 0 =>
        Cardinality(Running(p) \cap AttemptsOf(p, n)) < NodeDef[n].concurrent
  /\ p.nodes[n].status \in {"ready", "failed", "timed_out"}
  /\ p.nodes[n].current \notin Running(p)
  /\ id # 0 /\ id \notin DOMAIN p.attempts
  /\ \A i \in AttemptsOf(p, n) : p.attempts[i].no # no
  /\ expires # 0 => now < expires

(* The attempt takes the place in a repair plan that d gives it.           *)
WithAttempt(p, n, id, no, token, expires, now, d) ==
  LET role == IF NodeDef[n].kind = "repair" THEN "planned" ELSE d.state
      a    == [node |-> n, no |-> no, status |-> "running", token |-> token,
               expires |-> expires, started |-> now, outcome |-> "",
               evidence |-> {}, used |-> NoUse, failure |-> NoFailure,
               repair |-> d.id, rstate |-> role, bound |-> FALSE]
      repairs ==
        CASE d.id # 0 /\ role = "dispatched" ->
               [p.repairs EXCEPT ![d.id] = [@ EXCEPT !.state = "dispatched", !.target = id]]
          [] d.id # 0 /\ role = "verifying" ->
               [p.repairs EXCEPT
                  ![d.id] = [@ EXCEPT !.state = "verifying",
                                      !.verifications = With(p.repairs[d.id].verifications, n, id)]]
          [] OTHER -> p.repairs
  IN  [p EXCEPT !.attempts = With(p.attempts, id, a),
                !.repairs  = repairs,
                !.nodes[n] = [@ EXCEPT !.status = "running", !.current = id,
                                       !.no = no, !.retryAt = 0, !.edges = {}],
                !.status   = "running",
                !.usage["tokens"] = Plus(@, TokenEstimate)]

StartAttempt(p, n, id, no, token, expires, now) ==
  IF StartAdmissible(p, n, id, no, token, expires, now)
  THEN [ok |-> TRUE,
        p  |-> WithAttempt(p, n, id, no, token, expires, now, repairPlanForDispatch(p, n))]
  ELSE [ok |-> FALSE, p |-> p]

-----------------------------------------------------------------------------
(* route: where a finished attempt leads.                                  *)

(* Reports the attempt's status as the outcome of the plan.                *)
TerminalOutcome_slip(status) == status
TerminalOutcome(status) ==
  CASE status = "passed"    -> "succeeded"
    [] status = "cancelled" -> "cancelled"
    [] status = "timed_out" -> "timed_out"
    [] OTHER                -> "failed"

(* Forgets the status of the plan.                                         *)
Terminate_slip(p, outcome) == [p EXCEPT !.outcome = outcome]
Terminate(p, outcome) == [p EXCEPT !.status = "terminal", !.outcome = outcome]

(* The backoff of the k-th retry: doubled each time, capped at 24 hours.   *)
Backoff(base, k) ==
  LET b[i \in 1..k] ==
        IF i = 1 THEN base
        ELSE IF b[i - 1] = 0 \/ b[i - 1] >= MaxBackoff THEN b[i - 1]
        ELSE IF b[i - 1] > MaxBackoff \div 2 THEN MaxBackoff
        ELSE 2 * b[i - 1]
  IN  b[k]

retryAllowed(a, in) ==
  /\ a.failure.retryable
  /\ \/ NodeDef[a.node].retryOn = {}
     \/ {a.failure.code, in.event, a.outcome} \cap NodeDef[a.node].retryOn # {}

(* No edge takes the event: retry, leave through an exit, or fail closed.  *)
RouteWithoutEdge(p, a, in) ==
  LET d       == NodeDef[a.node]
      retries == p.nodes[a.node].retries + 1
  IN  IF /\ a.status \in {"failed", "timed_out"} /\ retryAllowed(a, in)
         /\ d.retryMax > a.no /\ d.retryMax > 1
      THEN [ok |-> TRUE,
            p |-> [p EXCEPT !.status = "running",
                     !.nodes[a.node] = [@ EXCEPT !.status = "ready", !.retries = retries,
                                          !.retryAt = in.now + Backoff(d.backoff, retries)]]]
      ELSE IF a.node \in ExitNodeIDs
      THEN IF a.evidence = {} THEN [ok |-> FALSE, p |-> p]
           ELSE IF allRepairsVerified(p)
           THEN [ok |-> TRUE, p |-> Terminate(p, TerminalOutcome(a.status))]
           ELSE IF a.status = "passed" /\ repairVerificationPending(p)
           THEN [ok |-> TRUE, p |-> [p EXCEPT !.status = "running"]]
           ELSE [ok |-> TRUE, p |-> Terminate(p, "failed")]
      ELSE IF a.status \in {"failed", "timed_out", "cancelled"}
      THEN [ok |-> TRUE, p |-> Terminate(p, TerminalOutcome(a.status))]
      ELSE [ok |-> TRUE, p |-> p]

(* Take the edges of E in graph order, up to the first whose traversals    *)
(* are used up.                                                            *)
FollowEdges(p, E, fanOut) ==
  LET spent == {e \in E : EdgeDef[e].max > 0 /\ p.traversals[e] >= EdgeDef[e].max}
      taken == {e \in E : \A x \in spent : e < x}
      nodes == [n \in Nodes |->
                  LET via == taken \cap Incoming(n)
                  IN  IF via = {} \/ p.nodes[n].status = "running" THEN p.nodes[n]
                      ELSE [p.nodes[n] EXCEPT !.status = "ready", !.edges = @ \cup via,
                              !.retryAt = IF fanOut THEN 0 ELSE @]]
      count == [e \in Edges |-> IF e \in taken /\ EdgeDef[e].max > 0
                                THEN p.traversals[e] + 1 ELSE p.traversals[e]]
  IN  [ok |-> spent = {}, p |-> [p EXCEPT !.nodes = nodes, !.traversals = count]]

route(p, a, in) ==
  LET matched == {e \in Edges : /\ EdgeDef[e].from = a.node
                                /\ eventMatches(EdgeDef[e].on, a.status, in.event, a.outcome)
                                /\ EvaluatePredicate(e, a.outcome)}
      fanOut  == Cardinality(matched) > 1 /\ \A e \in matched : EdgeDef[e].fanOut
      best    == {e \in matched : \A f \in matched : EdgeDef[f].priority <= EdgeDef[e].priority}
  IN  IF a.status = "timed_out" /\ a.failure.code = "plan_deadline_exceeded"
      THEN [ok |-> TRUE, p |-> Terminate(p, "timed_out")]
      ELSE IF \E e \in matched : ~(EdgeDef[e].needs \subseteq a.evidence)
      THEN [ok |-> FALSE, p |-> p]
      ELSE IF matched = {} THEN RouteWithoutEdge(p, a, in)
      ELSE IF fanOut THEN FollowEdges(p, matched, TRUE)
      ELSE IF Cardinality(best) > 1 THEN [ok |-> FALSE, p |-> p]
      ELSE FollowEdges(p, best, FALSE)

-----------------------------------------------------------------------------
(* FinishAttempt.  An input is a record                                    *)
(* [event, outcome, evidence, used, failure, key, token, now].             *)

statusOf(event) ==
  CASE event \in {"success", "approval_granted"}        -> "passed"
    [] event \in {"failure", "bug", "approval_denied"}  -> "failed"
    [] event = "timeout"                                -> "timed_out"
    [] event = "cancel"                                 -> "cancelled"
    [] event \in {"waiting", "approval", "approved"}    -> "waiting"
    [] OTHER                                            -> "invalid"

transitionPayloadHash(in) ==
  <<in.event, in.outcome, in.evidence, in.used, in.failure>>

NodeUsage(p, n, r) ==
  MapThenFoldSet(Plus, 0,
                 LAMBDA i : Plus(p.attempts[i].used[r],
                                 IF r = "tokens" THEN TokenEstimate ELSE 0),
                 LAMBDA S : CHOOSE i \in S : TRUE,
                 AttemptsOf(p, n))

(* An attempt that has not been closed.  The slip lets every one finish.   *)
Open_slip(a) == TRUE
Open(a) == a.status \in {"running", "waiting"}

FinishAdmissible(p, a, in) ==
  /\ Open(a)
  /\ in.token \in {0, a.token}
  /\ (a.status = "running" /\ in.now >= a.expires) => in.event = "timeout"
  /\ in.event \notin {"waiting", "approval"} => in.evidence # {}
  /\ statusOf(in.event) # "invalid"
  /\ \A r \in Resources :
        /\ Within(PlanBudget[r], Plus(p.usage[r], in.used[r]))
        /\ Within(NodeDef[a.node].budget[r], Plus(NodeUsage(p, a.node, r), in.used[r]))
  /\ Within(NodeDef[a.node].duration, in.now - a.started)

(* A failing branch opens the short-circuit joins it leads to.             *)
OpenShortCircuits(p, a) ==
  IF a.status \notin {"failed", "timed_out", "cancelled"} THEN p
  ELSE [p EXCEPT !.nodes = [n \in Nodes |->
          IF /\ NodeDef[n].shortCircuit
             /\ \E e \in Incoming(n) : EdgeDef[e].from = a.node /\ edgeSatisfied(e, a)
             /\ p.nodes[n].status \notin {"running", "passed"}
          THEN [p.nodes[n] EXCEPT !.status = "ready"] ELSE p.nodes[n]]]

(* Leaves the usage out of the attempt.                                    *)
WithResult_slip(a, in) ==
  [a EXCEPT !.status = statusOf(in.event), !.outcome = in.outcome,
            !.evidence = in.evidence, !.failure = in.failure]
WithResult(a, in) ==
  [a EXCEPT !.status = statusOf(in.event), !.outcome = in.outcome,
            !.evidence = in.evidence, !.used = in.used, !.failure = in.failure]

(* The projection with the result of attempt id; t is the outcome of its   *)
(* repair part.                                                            *)
Recorded(p, id, in, t) ==
  OpenShortCircuits(
    [t.p EXCEPT !.attempts[id] = t.a,
                !.nodes[t.a.node] = [p.nodes[t.a.node] EXCEPT !.status = t.a.status],
                !.usage = [r \in Resources |-> Plus(@[r], in.used[r])],
                !.idem = IF in.key = NoKey THEN @
                         ELSE With(@, in.key, transitionPayloadHash(in))],
    t.a)

(* The rollback after a refused route r.  The usage stays.                 *)
Undone(p, id, t, r) ==
  [r.p EXCEPT !.attempts[id] = p.attempts[id], !.nodes[t.a.node] = t.p.nodes[t.a.node],
              !.status = p.status, !.traversals = p.traversals,
              !.repairs = t.p.repairs, !.idem = p.idem]
UndoneUnless(p, id, t, r) == IF r.ok THEN r ELSE [ok |-> FALSE, p |-> Undone(p, id, t, r)]

ApplyRepaired(p, id, in, t) ==
  IF ~t.ok THEN [ok |-> FALSE, p |-> t.p]
  ELSE IF in.event \in {"waiting", "approval"} THEN [ok |-> TRUE, p |-> Recorded(p, id, in, t)]
  ELSE UndoneUnless(p, id, t, route(Recorded(p, id, in, t), t.a, in))

(* The accepted transition of attempt id.                                  *)
ApplyFinish(p, id, in) ==
  ApplyRepaired(p, id, in, RepairTransition(p, id, WithResult(p.attempts[id], in)))

FinishAttempt(p, id, in) ==
  IF ~(id \in DOMAIN p.attempts /\ p.nodes[p.attempts[id].node].current = id)
  THEN [ok |-> FALSE, p |-> p]
  ELSE LET a     == p.attempts[id]
           known == in.key # NoKey /\ in.key \in DOMAIN p.idem
       IN  IF known /\ p.idem[in.key] # transitionPayloadHash(in) THEN [ok |-> FALSE, p |-> p]
           ELSE IF known /\ a.status # "running" /\ ~(a.status = "waiting" /\ in.event = "waiting")
           THEN [ok |-> TRUE, p |-> p]
           ELSE IF FinishAdmissible(p, a, in) THEN ApplyFinish(p, id, in)
           ELSE [ok |-> FALSE, p |-> p]

-----------------------------------------------------------------------------
(* The operator transitions of scheduler.go.                               *)

Retry(p, n) ==
  IF p.nodes[n].status \notin {"failed", "timed_out"} THEN [ok |-> FALSE, p |-> p]
  ELSE [ok |-> TRUE, p |-> [p EXCEPT !.nodes[n].status = "ready",
                                     !.status = IF @ = "terminal" THEN "running" ELSE @]]

(* Names no evidence.                                                      *)
TimeoutInput_slip(code, retryable, token, now) ==
  [event |-> "timeout", outcome |-> "timeout", evidence |-> {}, used |-> NoUse,
   failure |-> [code |-> code, retryable |-> retryable], key |-> NoKey,
   token |-> token, now |-> now]
TimeoutInput(code, retryable, token, now) ==
  [event |-> "timeout", outcome |-> "timeout", evidence |-> {code}, used |-> NoUse,
   failure |-> [code |-> code, retryable |-> retryable], key |-> NoKey,
   token |-> token, now |-> now]

(* Reopens the node without closing its attempt.                           *)
TakeOver_slip(p, id, now) ==
  IF id \notin Running(p) THEN [ok |-> FALSE, p |-> p]
  ELSE [ok |-> TRUE, p |-> [p EXCEPT !.attempts[id].token = @ + 1,
                                     !.nodes[p.attempts[id].node].status = "ready"]]
TakeOver(p, id, now) ==
  IF id \notin Running(p) THEN [ok |-> FALSE, p |-> p]
  ELSE LET token == p.attempts[id].token + 1
           q     == [p EXCEPT !.attempts[id].token = token,
                              !.attempts[id].expires = now + LeaseTTL]
       IN  FinishAttempt(q, id, TimeoutInput("human_takeover", TRUE, token, now))

-----------------------------------------------------------------------------
(* PlanProjection.Validate, which guards every write of a projection.      *)

ValidRepair(p, rid) ==
  LET r      == p.repairs[rid]
      verify == NodeDef[r.node].verify
      target == resolveRepairTarget(r.node)
      Is(id, n, S) == /\ id \in DOMAIN p.attempts
                      /\ p.attempts[id].node = n /\ p.attempts[id].status \in S
  IN  /\ target # 0 /\ verify # {} /\ r.round \in 1..MaxRounds(r.node)
      /\ Is(r.attempt, r.node, {"passed"})
      /\ r.state = "dispatched" => Is(r.target, target, {"running"})
      /\ r.state \in {"patched", "verifying", "verified"} => Is(r.target, target, {"passed"})
      /\ r.state \in {"verifying", "verified"} =>
           /\ DOMAIN r.verifications # {} /\ DOMAIN r.verifications \subseteq verify
           /\ \A n \in DOMAIN r.verifications :
                Is(r.verifications[n], n, IF r.state = "verifying"
                                          THEN {"running", "passed"} ELSE AttemptStatus)
      /\ r.state = "verified" =>
           /\ verify \subseteq r.verified \cap DOMAIN r.verifications
           /\ \A n \in verify : Is(r.verifications[n], n, {"passed"})

Validate(p) ==
  /\ \A r \in Resources : p.usage[r] >= 0
  /\ \A i \in Running(p) : p.attempts[i].expires # 0
  /\ \A rid \in DOMAIN p.repairs : ValidRepair(p, rid)
  /\ (p.status = "terminal" /\ p.outcome = "succeeded") => allRepairsVerified(p)
  /\ \A n \in Nodes :
       LET c == p.nodes[n].current
       IN  c # 0 => /\ c \in DOMAIN p.attempts /\ p.attempts[c].node = n
                    /\ p.nodes[n].status \in {"running", "waiting"} =>
                         p.attempts[c].status = p.nodes[n].status
=============================================================================
