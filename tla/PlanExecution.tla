---------------------------- MODULE PlanExecution ----------------------------
(***************************************************************************)
(* The execution of one frozen plan.  Three kinds of actors drive the      *)
(* reducer and commit each accepted transition together with its event:    *)
(*   "watcher"   Worker.Run: ticks the scheduler and reconciles provider   *)
(*               runs until the plan is terminal or quiescent; there is    *)
(*               one per plan, and it keeps its projection in memory;      *)
(*   "ticker"    an API request that runs Scheduler.Tick once;             *)
(*   "operator"  an API request that cancels, retries, takes over or       *)
(*               approves.                                                 *)
(* An actor loads the committed projection, works on its copy and writes   *)
(* the whole copy back with each event (CommitEventProjection).            *)
(*                                                                         *)
(* proj   the committed projection                                         *)
(* log    the event log of the plan                                        *)
(* now    the clock                                                        *)
(* actor  actor -> [phase, p, todo, at, back, time]: its place in the      *)
(*        code, its copy, the nodes or attempts its loop has still to      *)
(*        visit, the attempt it is working on, the copy it would roll back *)
(*        to and the time it read before its loop                          *)
(***************************************************************************)
EXTENDS PlanReducer, Sequences

CONSTANTS
  Actors,        \* the actors that occur: a subset of the three
  Snapshots,     \* the terminal provider snapshots that a run can end with
  ClientKeys,    \* Idempotency-Key headers an operator may send
  Requests,      \* the operator requests that occur
  Faults,        \* the faults that occur
  Overlap,       \* FALSE: requests come only while the plan is not being driven
  MaxTime,       \* bound on the clock
  MaxAttempts    \* bound on the number of attempts

VARIABLES proj, log, now, actor
vars == <<proj, log, now, actor>>

-----------------------------------------------------------------------------
(* The event log.  An event is [type, key, body]; two events with the same *)
(* key are the same event if their bodies are, and a conflict otherwise.   *)
(* The key of an event is a transition key and a suffix.                   *)

AttemptKey(n, no) == <<n, no, "">>

StartedEvent(n, id, no, token, expires, at) ==
  [type |-> "attempt.started", key |-> <<AttemptKey(n, no), "">>,
   body |-> [node |-> n, attempt |-> id, no |-> no, token |-> token,
             expires |-> expires, at |-> at]]

(* Leaves the failure out of the event.                                    *)
FinishedEvent_slip(key, id, in) ==
  [type |-> "attempt.finished", key |-> <<key, ":finished">>,
   body |-> [attempt |-> id, in |-> [in EXCEPT !.failure = NoFailure]]]
FinishedEvent(key, id, in) ==
  [type |-> "attempt.finished", key |-> <<key, ":finished">>, body |-> [attempt |-> id, in |-> in]]

BoundEvent(id, a) ==
  [type |-> "attempt.bound", key |-> <<AttemptKey(a.node, a.no), ":bound">>,
   body |-> [attempt |-> id, token |-> a.token]]

RetryEvent(key, n) == [type |-> "node.retry_requested", key |-> <<key, "">>, body |-> [node |-> n]]

(* Takes any event with a known key for a repetition.                      *)
Conflict_slip(ev) == FALSE
Conflict(ev) == \E i \in DOMAIN log : log[i].key = ev.key /\ log[i].body # ev.body
Appended(ev) == IF \E i \in DOMAIN log : log[i].key = ev.key THEN log ELSE Append(log, ev)

(* CommitEventProjection: event and projection q are written, or neither   *)
(* is and the caller's copy becomes back.  The write itself may fail:      *)
(* written is FALSE when the disk refuses it, or when another event was    *)
(* appended after the caller had read the tail that its event names.       *)
Writes == IF "write" \in Faults THEN BOOLEAN ELSE {TRUE}
CommitEventProjection(q, back, ev, written) ==
  IF Validate(q) /\ ~Conflict(ev) /\ written THEN [ok |-> TRUE, p |-> q, log |-> Appended(ev)]
  ELSE [ok |-> FALSE, p |-> back, log |-> log]

Persist(c) == proj' = (IF c.ok THEN c.p ELSE proj) /\ log' = c.log

(* A transition r of the copy is committed if the reducer accepted it; if  *)
(* it did not, the copy is what the reducer left.                          *)
CommitTransition(r, back, ev, written) ==
  IF r.ok THEN CommitEventProjection(r.p, back, ev, written)
  ELSE [ok |-> FALSE, p |-> r.p, log |-> log]

(* Executor.FinishAttempt on the copy p: a refused commit restores p.      *)
ExecutorFinish(p, id, in, key, written) ==
  CommitTransition(FinishAttempt(p, id, in), p, FinishedEvent(key, id, in), written)

(* The attempt's own key, for an input without one.                        *)
KeyOf(p, id) == AttemptKey(p.attempts[id].node, p.attempts[id].no)

Bind(p, id) == [p EXCEPT !.attempts[id].bound = TRUE]

(* One event of ReplayProjection; s is [ok, p].                            *)
ReplayEvent(s, ev) ==
  LET b == ev.body
  IN  IF ~s.ok THEN s
      ELSE CASE ev.type = "attempt.started" ->
                  StartAttempt(s.p, b.node, b.attempt, b.no, b.token, b.expires, b.at)
             [] ev.type = "attempt.bound" ->
                  IF /\ b.attempt \in Running(s.p)
                     /\ s.p.attempts[b.attempt].token = b.token
                  THEN [ok |-> TRUE, p |-> Bind(s.p, b.attempt)]
                  ELSE [ok |-> FALSE, p |-> s.p]
             [] ev.type = "attempt.finished" -> FinishAttempt(s.p, b.attempt, b.in)
             [] ev.type = "node.retry_requested" -> Retry(s.p, b.node)

ReplayProjection(events) ==
  LET replay[i \in 0..Len(events)] ==
        IF i = 0 THEN [ok |-> TRUE, p |-> NewProjection] ELSE ReplayEvent(replay[i - 1], events[i])
  IN  replay[Len(events)]

-----------------------------------------------------------------------------
Off == [phase |-> "off", p |-> NewProjection, todo |-> {}, at |-> 0, back |-> NewProjection,
        time |-> 0]

Init ==
  /\ proj = NewProjection
  /\ log = << >>
  /\ now = 1
  /\ actor = [x \in Actors |-> Off]

Become(x, a) == actor' = [actor EXCEPT ![x] = a]
AtPhase(x, phase) == x \in Actors /\ actor[x].phase = phase

(* domain.NewID: an ID that no attempt has.  The code draws it at random,  *)
(* so the order of IDs means nothing and no action looks at it; numbering  *)
(* the attempts as they start only names them.  The fencing token is the   *)
(* clock in nanoseconds, unique to the attempt.                            *)
NewID == Len(SelectSeq(log, LAMBDA ev : ev.type = "attempt.started")) + 1
FencingToken(id) == 2 * id

Provided(n) == NodeDef[n].kind \in {"agent", "squad"}
leaseTTL(n) == IF NodeDef[n].timeout > 0 THEN NodeDef[n].timeout ELSE LeaseTTL

(* The k lowest nodes of S.                                                *)
Lowest(S, k) == {n \in S : Cardinality({m \in S : m < n}) < k}

ReadyNodes(p) == {n \in Nodes : ReadyNode(p, n, now)}
nextRetryAt(p) == \E n \in Nodes : p.nodes[n].status = "ready" /\ p.nodes[n].retryAt > now

Reconciling(p) == [Off EXCEPT !.phase = "reconcile", !.p = p, !.todo = Running(p),
                               !.time = now]

(* The end of a tick: the watcher goes on to Reconcile, a request returns. *)
TickDone(x, p) == IF x = "watcher" THEN Reconciling(p) ELSE Off

(* A tick that returns an error: the watcher goes on only if there is work *)
(* to go on with.                                                          *)
TickFailed(x, p) ==
  IF x = "watcher" /\ (nextRetryAt(p) \/ ReadyNodes(p) # {} \/ p.status = "terminal")
  THEN Reconciling(p) ELSE Off

-----------------------------------------------------------------------------
(* Scheduler.Tick.                                                         *)

(* GetProjection; the watcher does not start on a terminal plan.           *)
Load(x) ==
  /\ AtPhase(x, "off")
  /\ x = "watcher" => proj.status # "terminal"
  /\ Overlap \/ \A y \in Actors : AtPhase(y, "off")
  /\ Become(x, [Off EXCEPT !.phase = IF x = "operator" THEN "request" ELSE "tick", !.p = proj])
  /\ UNCHANGED <<proj, log, now>>

limitForStructural == IF PlanConcurrent > 0 THEN PlanConcurrent ELSE Cardinality(Nodes)

BeginTick(x) ==
  LET p     == actor[x].p
      ready == ReadyNodes(p)
  IN  /\ AtPhase(x, "tick")
      /\ Become(x, IF Deadline # 0 /\ now >= Deadline THEN [Off EXCEPT !.phase = "closing", !.p = p]
                   ELSE IF ready = {} THEN TickDone(x, p)
                   ELSE [Off EXCEPT !.phase = "structural", !.p = p,
                           !.todo = Lowest({n \in ready : ~Provided(n)}, limitForStructural)])
      /\ UNCHANGED <<proj, log, now>>

(* The attempt that both AdvanceStructural and dispatchReady start for     *)
(* node n: the outcome of its commit.                                      *)
StartNode(p, n, id, expires, written) ==
  LET no == p.nodes[n].no + 1
  IN  CommitTransition(StartAttempt(p, n, id, no, FencingToken(id), expires, now), p,
                       StartedEvent(n, id, no, FencingToken(id), expires, now), written)

(* AdvanceStructural, up to the commit of attempt.started.                 *)
StartStructural(x) ==
  LET p  == actor[x].p
      n  == Min(actor[x].todo)
      id == NewID
  IN  /\ AtPhase(x, "structural") /\ actor[x].todo # {}
      /\ id <= MaxAttempts
      /\ \E c \in {StartNode(p, n, id, now + leaseTTL(n), written) : written \in Writes} :
           /\ Persist(c)
           /\ Become(x, IF c.ok THEN [actor[x] EXCEPT !.phase = "deciding", !.p = c.p,
                                                      !.at = id, !.back = p]
                        ELSE TickFailed(x, p))
      /\ UNCHANGED now

StructuralEvidence(p, n) ==
  UNION {p.attempts[p.nodes[EdgeDef[e].from].current].evidence : e \in SatisfiedEdges(p, n)}

(* aggregateStructuralFields: the usage fields of the source that is last  *)
(* in (priority, ID) order survive in the gate's own result.               *)
GateUsage(p, n) ==
  LET last == {e \in SatisfiedEdges(p, n) : \A f \in SatisfiedEdges(p, n) :
                 \/ EdgeDef[e].priority < EdgeDef[f].priority
                 \/ EdgeDef[e].priority = EdgeDef[f].priority /\ e >= f}
  IN  IF last = {} THEN NoUse
      ELSE p.attempts[p.nodes[EdgeDef[CHOOSE e \in last : TRUE].from].current].used

(* PlanRepair.                                                             *)
RepairPlanned(p, n, no) ==
  LET target == resolveRepairTarget(n)
  IN  /\ StructuralEvidence(p, n) # {} /\ no <= MaxRounds(n)
      /\ target \notin {0, n} /\ repairPathExists(n, target)
      /\ NodeDef[n].verify # {}
      /\ \A v \in NodeDef[n].verify : repairPathExists(target, v)

(* The decisions evaluateStructural can take; a gate predicate and a merge *)
(* conflict depend on result fields, which are not modelled.               *)
StructuralEvents(p, n, no) ==
  LET d == NodeDef[n]
  IN  CASE d.kind = "repair" -> IF RepairPlanned(p, n, no) THEN {"success"} ELSE {"failure"}
        [] d.kind = "gate"   -> IF d.required \subseteq StructuralEvidence(p, n)
                                THEN {"success", "failure"} ELSE {"failure"}
        [] d.kind = "merge"  ->
             IF \/ d.requireEvidence /\ StructuralEvidence(p, n) = {}
                \/ d.policy = "prefer_priority" /\ SatisfiedEdges(p, n) = {}
             THEN {"failure"}
             ELSE IF d.policy = "fail" THEN {"success", "failure"} ELSE {"success"}

StructuralInput(p, n, no, event, token, at) ==
  [event |-> event, outcome |-> IF event = "success" THEN "pass" ELSE "failure",
   evidence |-> StructuralEvidence(p, n) \cup {"decision"},
   used |-> IF NodeDef[n].kind = "gate" THEN GateUsage(p, n) ELSE NoUse,
   failure |-> IF event = "success" THEN NoFailure ELSE [code |-> "structural", retryable |-> FALSE],
   key |-> <<n, no, ":decision">>, token |-> token, now |-> at]

WaitingInput(n, no, token, at) ==
  [event |-> "waiting", outcome |-> "approval_pending", evidence |-> {}, used |-> NoUse,
   failure |-> NoFailure, key |-> <<n, no, ":waiting">>, token |-> token, now |-> at]

(* The rest of AdvanceStructural: the decision, or a human node's wait.    *)
(* If it cannot be committed the copy returns to the state before the      *)
(* attempt was started, although attempt.started is durable.               *)
DecideStructural(x) ==
  LET a  == actor[x]
      id == a.at
      n  == a.p.attempts[id].node
      no == a.p.attempts[id].no
      at == a.p.attempts[id].started
      inputs == IF NodeDef[n].kind = "human" THEN {WaitingInput(n, no, FencingToken(id), at)}
                ELSE {StructuralInput(a.p, n, no, event, FencingToken(id), at) :
                        event \in StructuralEvents(a.p, n, no)}
  IN  /\ AtPhase(x, "deciding")
      /\ \E in \in inputs :
         \E c \in {ExecutorFinish(a.p, id, in, AttemptKey(n, no), written) : written \in Writes} :
           /\ Persist(c)
           /\ Become(x, IF c.ok THEN [a EXCEPT !.phase = "structural", !.p = c.p, !.at = 0,
                                              !.todo = @ \ {n}, !.back = NewProjection]
                        ELSE TickFailed(x, a.back))
      /\ UNCHANGED now

(* The provider nodes that the concurrency limit lets this tick dispatch,  *)
(* lowest IDs first.  Without a limit it is the number of ready nodes, and *)
(* the running attempts are subtracted in either case.                     *)
Dispatchable(x, p) ==
  LET ready == ReadyNodes(p)
      asked == IF x = "watcher" /\ PlanConcurrent > 0 THEN PlanConcurrent ELSE Cardinality(ready)
      limit == (IF PlanConcurrent > 0 /\ asked > PlanConcurrent THEN PlanConcurrent ELSE asked)
               - Cardinality(Running(p))
  IN  Lowest({n \in ready : Provided(n)}, limit)

BeginDispatch(x) ==
  /\ AtPhase(x, "structural") /\ actor[x].todo = {}
  /\ Become(x, [actor[x] EXCEPT !.phase = "dispatch", !.todo = Dispatchable(x, actor[x].p)])
  /\ UNCHANGED <<proj, log, now>>

(* dispatchReady, up to the commit of attempt.started; the lease ends no   *)
(* later than the plan.                                                    *)
DispatchReady(x) ==
  LET p   == actor[x].p
      n   == Min(actor[x].todo)
      id  == NewID
      due == now + leaseTTL(n)
      end == IF Deadline # 0 /\ Deadline < due THEN Deadline ELSE due
  IN  /\ AtPhase(x, "dispatch") /\ actor[x].todo # {}
      /\ id <= MaxAttempts
      /\ \E c \in {StartNode(p, n, id, end, written) : written \in Writes} :
           /\ Persist(c)
           /\ Become(x, IF c.ok THEN [actor[x] EXCEPT !.phase = "starting", !.p = c.p,
                                                      !.at = id, !.back = p]
                        ELSE TickFailed(x, p))
      /\ UNCHANGED now

(* The outbox refuses the provider.start intent: the copy is rolled back,  *)
(* the durable attempt is not.                                             *)
OutboxFails(x) ==
  /\ "outbox" \in Faults
  /\ AtPhase(x, "starting")
  /\ Become(x, TickFailed(x, actor[x].back))
  /\ UNCHANGED <<proj, log, now>>

(* The agent, its capabilities, its provider or the squad leader cannot be *)
(* resolved, before or after the commit of attempt.started.                *)
ResolveFails(x) ==
  /\ "resolve" \in Faults
  /\ AtPhase(x, "starting") \/ (AtPhase(x, "dispatch") /\ actor[x].todo # {})
  /\ Become(x, TickFailed(x, actor[x].p))
  /\ UNCHANGED <<proj, log, now>>

(* Whether the intent can be acknowledged: its lease may have run out.     *)
Acks == IF "outbox" \in Faults THEN BOOLEAN ELSE {TRUE}

(* StartRun succeeds: attempt.bound, then the intent is acknowledged.  An  *)
(* error leaves the binding in the copy.                                   *)
BindRun(x) ==
  LET a == actor[x]
      q == Bind(a.p, a.at)
      bound == BoundEvent(a.at, a.p.attempts[a.at])
  IN  /\ AtPhase(x, "starting")
      /\ \E written \in Writes, acked \in Acks :
           LET c == CommitEventProjection(q, q, bound, written)
           IN  /\ Persist(c)
               /\ Become(x, IF c.ok /\ acked
                            THEN [a EXCEPT !.phase = "dispatch", !.p = q, !.at = 0,
                                           !.todo = @ \ {q.attempts[a.at].node},
                                           !.back = NewProjection]
                            ELSE TickFailed(x, q))
      /\ UNCHANGED now

(* ErrorCodeOf: a code that the repair lifecycle treats as transient, and  *)
(* one that it does not.                                                   *)
StartRunErrors == {"upstream_error", "capability_unavailable"}

(* StartRun returns an error: the attempt fails and the tick ends.         *)
StartRunFails(x, code) ==
  LET a  == actor[x]
      in == [event |-> "failure", outcome |-> "failure", evidence |-> {"provider-dispatch"},
             used |-> NoUse, failure |-> [code |-> code, retryable |-> TRUE],
             key |-> NoKey, token |-> a.p.attempts[a.at].token, now |-> now]
  IN  /\ AtPhase(x, "starting")
      /\ \E c \in {ExecutorFinish(a.p, a.at, in, KeyOf(a.p, a.at), written) : written \in Writes} :
           Persist(c) /\ Become(x, TickFailed(x, c.p))
      /\ UNCHANGED now

EndTick(x) ==
  /\ AtPhase(x, "dispatch") /\ actor[x].todo = {}
  /\ Become(x, TickDone(x, actor[x].p))
  /\ UNCHANGED <<proj, log, now>>

-----------------------------------------------------------------------------
(* Worker.Reconcile: the running attempts of the copy are visited in any   *)
(* order; an error ends the watcher.                                       *)

Visited(x, p, id) == [actor[x] EXCEPT !.p = p, !.todo = @ \ {id}]

FinishVisited(x, id, in) ==
  \E c \in {ExecutorFinish(actor[x].p, id, in, KeyOf(actor[x].p, id), written) :
              written \in Writes} :
    Persist(c) /\ Become(x, IF c.ok THEN Visited(x, c.p, id) ELSE Off)

(* Reconcile: the transition a terminal provider snapshot stands for.  A   *)
(* snapshot is [status, marker, tools, evidence, used]: marker is the      *)
(* outcome of ADRO_RESULT_JSON ("" if there is none), tools says whether a *)
(* matched tool call was recorded.                                         *)
ReconcileInput(s, token, at) ==
  LET In(event, outcome, code, evidence) ==
        [event |-> event, outcome |-> outcome, evidence |-> evidence \cup {"provider-run"},
         used |-> s.used, key |-> NoKey, token |-> token, now |-> at,
         failure |-> IF code = "" THEN NoFailure
                     ELSE [code |-> code, retryable |-> code # "cancelled"]]
      Completed ==
        CASE s.marker = ""        -> In("success", "pass", "provider_result_missing", {})
          [] s.marker # "" /\ ~s.tools ->
               In("failure", "failure", "provider_tool_evidence_missing", {})
          [] s.marker = "bug" /\ s.tools ->
               In("bug", "bug", "provider_reported_bug", s.evidence)
          [] s.marker = "failure" /\ s.tools ->
               In("failure", "failure", "provider_reported_failure", s.evidence)
          [] OTHER                -> In("success", "pass", "", s.evidence)
  IN  CASE s.status = "completed" -> Completed
        [] s.status = "failed"    ->
             IF s.marker = "bug" THEN In("bug", "bug", "provider_reported_bug", s.evidence)
             ELSE In("failure", "failure", "provider_failed", s.evidence)
        [] s.status = "timed_out" -> In("timeout", "timeout", "provider_timeout", s.evidence)
        [] s.status = "cancelled" -> In("cancel", "cancelled", "cancelled", {})

(* The lease of id has not run out at the time Reconcile started.          *)
(* Forgets that leases end.                                                *)
Waits_slip(x, id) == TRUE
Waits(x, id) == actor[x].time < actor[x].p.attempts[id].expires

ReconcileRun(x, id, s) ==
  LET a == actor[x].p.attempts[id]
  IN  /\ AtPhase(x, "reconcile") /\ id \in actor[x].todo
      /\ a.bound /\ Waits(x, id)
      /\ FinishVisited(x, id, ReconcileInput(s, a.token, actor[x].time))
      /\ UNCHANGED now

ReconcileExpired(x, id) ==
  LET a == actor[x].p.attempts[id]
  IN  /\ AtPhase(x, "reconcile") /\ id \in actor[x].todo
      /\ ~Waits(x, id)
      /\ FinishVisited(x, id, TimeoutInput("lease_expired", TRUE, a.token, actor[x].time))
      /\ UNCHANGED now

(* The run is not finished, or an unbound attempt cannot be recovered yet. *)
ReconcileWaits(x, id) ==
  /\ AtPhase(x, "reconcile") /\ id \in actor[x].todo
  /\ Waits(x, id)
  /\ Become(x, Visited(x, actor[x].p, id))
  /\ UNCHANGED <<proj, log, now>>

(* recoverUnboundAttempt reclaims the provider.start intent of an attempt  *)
(* that has no run; Reconcile then looks at the run.                       *)
RecoverUnbound(x, id) ==
  LET p == actor[x].p
      q == Bind(p, id)
  IN  /\ AtPhase(x, "reconcile") /\ id \in actor[x].todo
      /\ Provided(p.attempts[id].node)
      /\ ~p.attempts[id].bound /\ Waits(x, id)
      /\ \E written \in Writes, acked \in Acks :
           LET c == CommitEventProjection(q, q, BoundEvent(id, p.attempts[id]), written)
           IN  Persist(c) /\ Become(x, IF c.ok /\ acked THEN [actor[x] EXCEPT !.p = q] ELSE Off)
      /\ UNCHANGED now

(* The provider cannot be reached, or the intent of an unbound attempt is  *)
(* still leased to the executor that died: the watcher ends.               *)
ReconcileFails(x, id) ==
  LET a == actor[x].p.attempts[id]
  IN  /\ AtPhase(x, "reconcile") /\ id \in actor[x].todo
      /\ Provided(a.node) /\ Waits(x, id)
      /\ ~a.bound \/ "resolve" \in Faults
      /\ Become(x, Off)
      /\ UNCHANGED <<proj, log, now>>

(* Run loops until the plan is terminal or nothing is left to wait for.    *)
EndReconcile(x) ==
  LET p == actor[x].p
  IN  /\ AtPhase(x, "reconcile") /\ actor[x].todo = {}
      /\ Become(x, IF \/ p.status = "terminal"
                      \/ ReadyNodes(p) = {} /\ Running(p) = {} /\ ~nextRetryAt(p)
                   THEN Off ELSE [Off EXCEPT !.phase = "tick", !.p = p])
      /\ UNCHANGED <<proj, log, now>>

-----------------------------------------------------------------------------
(* The plan deadline, and the end of the watcher's context, which is       *)
(* handled as a deadline in the past: running attempts are closed one by   *)
(* one, then a plan that is still open is made terminal.                   *)

(* The context is checked before a tick and by the provider calls of       *)
(* Reconcile; closeOnContextCancellation leaves a terminal plan alone.     *)
ContextEnds(x) ==
  /\ "context" \in Faults
  /\ x = "watcher"
  /\ \/ AtPhase(x, "tick")
     \/ AtPhase(x, "reconcile") /\ \E id \in actor[x].todo : Waits(x, id)
  /\ Become(x, IF actor[x].p.status = "terminal" THEN Off
               ELSE [Off EXCEPT !.phase = "cancelling", !.p = actor[x].p])
  /\ UNCHANGED <<proj, log, now>>

Closing(x) == AtPhase(x, "closing") \/ AtPhase(x, "cancelling")

(* The attempts that are still to be closed.  The slip stops at the first, *)
(* which has made the plan terminal.                                       *)
ToClose_slip(p) == IF p.status = "terminal" THEN {} ELSE Running(p)
ToClose(p) == Running(p)

(* The attempts are closed in the order of their random IDs: any order.    *)
CloseAttempt(x) ==
  LET p      == actor[x].p
      in(id) == TimeoutInput("plan_deadline_exceeded", FALSE, p.attempts[id].token, now)
  IN  /\ Closing(x)
      /\ \E id \in ToClose(p) :
         \E c \in {ExecutorFinish(p, id, in(id), KeyOf(p, id), written) : written \in Writes} :
           /\ Persist(c)
           /\ Become(x, IF c.ok THEN [actor[x] EXCEPT !.p = c.p]
                        ELSE IF AtPhase(x, "closing") THEN TickFailed(x, c.p) ELSE Off)
      /\ UNCHANGED now

(* SaveProjection writes the terminal projection without an event.         *)
ClosePlan(x) ==
  LET p == actor[x].p
      q == Terminate(p, "timed_out")
  IN  /\ Closing(x) /\ ToClose(p) = {}
      /\ \E written \in Writes :
           proj' = IF p.status # "terminal" /\ Validate(q) /\ written THEN q ELSE proj
      /\ Become(x, Off)
      /\ UNCHANGED <<log, now>>

-----------------------------------------------------------------------------
(* Operator requests (internal/api/orchestration.go).                      *)

Request(x, request) == AtPhase(x, "request") /\ request \in Requests

(* executionPlanApproval: grant or deny the current waiting attempt.       *)
Approve(x, n, granted) ==
  LET p     == actor[x].p
      id    == p.nodes[n].current
      a     == p.attempts[id]
      event == IF granted THEN "approval_granted" ELSE "approval_denied"
      key   == <<a.node, a.no, event>>
  IN  /\ Request(x, "approval")
      /\ id # 0 /\ a.status = "waiting"
      /\ \E written \in Writes : Persist(ExecutorFinish(p, id,
           [event |-> event, outcome |-> IF granted THEN "approved" ELSE "denied",
            evidence |-> {"human"}, used |-> NoUse, failure |-> NoFailure,
            key |-> key, token |-> a.token, now |-> now], key, written))
      /\ Become(x, Off) /\ UNCHANGED now

Cancel(x, id, key) ==
  LET p == actor[x].p
  IN  /\ Request(x, "cancel")
      /\ \E written \in Writes : Persist(ExecutorFinish(p, id,
           [event |-> "cancel", outcome |-> "cancelled", evidence |-> {"operator"}, used |-> NoUse,
            failure |-> [code |-> "cancelled", retryable |-> FALSE], key |-> key,
            token |-> p.attempts[id].token, now |-> now],
           IF key = NoKey THEN KeyOf(p, id) ELSE key, written))
      /\ Become(x, Off) /\ UNCHANGED now

(* retry: without a header the event key names only the node.              *)
RetryNode(x, n, key) ==
  LET r == Retry(actor[x].p, n)
  IN  /\ Request(x, "retry")
      /\ r.ok
      /\ \E written \in Writes : Persist(CommitEventProjection(r.p, r.p,
           RetryEvent(IF key = NoKey THEN <<n, 0, "retry">> ELSE key, n), written))
      /\ Become(x, Off) /\ UNCHANGED now

(* takeover: the event carries the incremented fencing token and a         *)
(* transition key that the reducer call did not use.                       *)
TakeOverAttempt(x, id, header) ==
  LET r   == TakeOver(actor[x].p, id, now)
      key == IF header = NoKey THEN <<id, 0, "timeout">> ELSE header
      in  == TimeoutInput("human_takeover", TRUE, actor[x].p.attempts[id].token + 1, now)
  IN  /\ Request(x, "takeover")
      /\ r.ok
      /\ \E written \in Writes : Persist(CommitEventProjection(r.p, r.p,
           FinishedEvent(key, id, [in EXCEPT !.key = key]), written))
      /\ Become(x, Off) /\ UNCHANGED now

-----------------------------------------------------------------------------
(* The process dies.                                                       *)
Crash(x) ==
  /\ "crash" \in Faults
  /\ actor[x].phase # "off"
  /\ Become(x, Off)
  /\ UNCHANGED <<proj, log, now>>

(* Only leases, retry times and the deadline are ever compared with the    *)
(* clock, so it rests when none of them lies ahead.                        *)
Timers(p) == {p.attempts[i].expires : i \in Running(p)} \cup {p.nodes[n].retryAt : n \in Nodes}

Clock ==
  /\ now < MaxTime
  /\ \E t \in {Deadline} \cup Timers(proj) \cup UNION {Timers(actor[x].p) : x \in Actors} : now < t
  /\ now' = now + 1
  /\ UNCHANGED <<proj, log, actor>>

Tick(x) ==
  \/ Load(x) \/ BeginTick(x)
  \/ StartStructural(x) \/ DecideStructural(x)
  \/ BeginDispatch(x) \/ DispatchReady(x) \/ BindRun(x)
  \/ \E code \in StartRunErrors : StartRunFails(x, code)
  \/ OutboxFails(x) \/ ResolveFails(x) \/ EndTick(x)
  \/ CloseAttempt(x) \/ ClosePlan(x)

Reconcile(x) ==
  \/ \E id \in actor[x].todo :
       \/ \E s \in Snapshots : ReconcileRun(x, id, s)
       \/ ReconcileExpired(x, id) \/ ReconcileWaits(x, id)
       \/ RecoverUnbound(x, id) \/ ReconcileFails(x, id)
  \/ EndReconcile(x) \/ ContextEnds(x)

Operate(x) ==
  \/ \E n \in Nodes : \/ \E granted \in BOOLEAN : Approve(x, n, granted)
                      \/ \E k \in ClientKeys \cup {NoKey} : RetryNode(x, n, k)
  \/ \E id \in DOMAIN actor[x].p.attempts :
       \E k \in ClientKeys \cup {NoKey} : Cancel(x, id, k) \/ TakeOverAttempt(x, id, k)

Next ==
  \/ \E x \in Actors : Tick(x) \/ Reconcile(x) \/ Operate(x) \/ Crash(x)
  \/ Clock

Spec == Init /\ [][Next]_vars

(* A watcher that runs takes its next step, and time passes.  Nothing is   *)
(* assumed of clients: when a watcher has returned, only another request   *)
(* starts one, and none need come.  The first conjunct is weak fairness of *)
(* the watcher's steps: it has one as long as it runs, and each changes    *)
(* its place.  At the bound on attempts nothing is promised, so a bound    *)
(* that is too small shows as a violation.                                 *)
Watched == actor["watcher"].phase # "off"
Fairness ==
  /\ \/ []<>~(Watched /\ NewID <= MaxAttempts)
     \/ []<><<actor'["watcher"] # actor["watcher"]>>_vars
  /\ WF_vars(Clock)
LiveSpec == Spec /\ Fairness

-----------------------------------------------------------------------------
(* Properties.                                                             *)

(* The committed projection has the types of PlanProjection: statuses,     *)
(* numbers and repair states in their ranges, and a current attempt that   *)
(* exists.                                                                 *)
TypeOK ==
  /\ proj.status \in PlanStatus
  /\ proj.outcome \in {"", "succeeded", "failed", "cancelled", "timed_out"}
  /\ \A n \in Nodes : /\ proj.nodes[n].status \in NodeStatus
                      /\ proj.nodes[n].current \in DOMAIN proj.attempts \cup {0}
                      /\ proj.nodes[n].no \in Nat
  /\ \A i \in DOMAIN proj.attempts : /\ proj.attempts[i].node \in Nodes
                                     /\ proj.attempts[i].no \in Nat
                                     /\ proj.attempts[i].status \in AttemptStatus
  /\ \A e \in Edges : proj.traversals[e] \in Nat
  /\ \A rid \in DOMAIN proj.repairs : proj.repairs[rid].state \in RepairLifecycle

(* At most one attempt of a node runs, it is the node's current attempt,   *)
(* and the node says so: no interleaving of dispatch, provider results,    *)
(* retries, takeovers and feedback reopens a node over a running attempt   *)
(* or leaves a running attempt behind that no path can finish.             *)
SingleFlight ==
  /\ \A i \in Running(proj) :
       LET n == proj.attempts[i].node
       IN  proj.nodes[n].status = "running" /\ proj.nodes[n].current = i
  /\ \A n \in Nodes : proj.nodes[n].status = "running" => proj.nodes[n].current \in Running(proj)

(* A plan that succeeded verified every repair: each verification node of  *)
(* each repair plan has a passing attempt that started after the repair    *)
(* target's passing attempt.                                               *)
SuccessIsVerified ==
  proj.status = "terminal" /\ proj.outcome = "succeeded" =>
    \A rid \in DOMAIN proj.repairs :
      LET r == proj.repairs[rid]
      IN  /\ r.target # 0 /\ proj.attempts[r.target].status = "passed"
          /\ \A v \in NodeDef[r.node].verify :
               /\ VerificationAttempt(r, v) > r.target
               /\ proj.attempts[VerificationAttempt(r, v)].status = "passed"

(* A plan that succeeded is done with its exits: none is open or running.  *)
SuccessClosesExits ==
  proj.status = "terminal" /\ proj.outcome = "succeeded" =>
    \A n \in ExitNodeIDs : proj.nodes[n].status \notin {"ready", "running"}

(* The consumption counters are the sum over the attempts of the context   *)
(* estimate charged at start and the usage charged at finish: refused      *)
(* transitions and their rollback neither lose nor double a charge.        *)
UsageAccounted ==
  \A r \in Resources :
    proj.usage[r] =
      MapThenSumSet(LAMBDA i : proj.attempts[i].used[r]
                               + (IF r = "tokens" THEN TokenEstimate ELSE 0),
                    DOMAIN proj.attempts)

(* The projection never holds what no event says, whichever stale copy was *)
(* written last: each attempt was started by an event that names its node  *)
(* and number, and each closed one has the result of an event about it.    *)
AttemptsAreLogged ==
  \A i \in DOMAIN proj.attempts :
    LET a == proj.attempts[i]
    IN  /\ \E k \in DOMAIN log :
             /\ log[k].type = "attempt.started" /\ log[k].body.attempt = i
             /\ log[k].body.node = a.node /\ log[k].body.no = a.no
        /\ a.status \in Closed => \E k \in DOMAIN log :
             /\ log[k].type = "attempt.finished" /\ log[k].body.attempt = i
             /\ a = WithResult([a EXCEPT !.status = "running"], log[k].body.in)

(* Replaying the event log from an empty projection is accepted and gives  *)
(* the committed projection.                                               *)
ReplayAgrees == ReplayProjection(log) = [ok |-> TRUE, p |-> proj]

(* An open plan can go on: an attempt runs, a human decision is awaited,   *)
(* or some node is ready, now or once its backoff is over.                 *)
NotStranded ==
  \/ proj.status = "terminal"
  \/ Running(proj) # {}
  \/ \E n \in Nodes : \/ proj.nodes[n].status = "waiting"
                      \/ ReadyNode(proj, n, proj.nodes[n].retryAt)

(* Whatever a running attempt may report, a result that the reducer        *)
(* accepts leaves a projection that the repository accepts as well: a      *)
(* valid plan cannot get into a state where its attempts cannot be closed. *)
ReportInputs(a, at) ==
  {ReconcileInput(s, a.token, at) : s \in Snapshots} \cup
  {TimeoutInput(code, TRUE, a.token, at) : code \in {"lease_expired", "human_takeover"}} \cup
  {TimeoutInput("plan_deadline_exceeded", FALSE, a.token, at)}
AcceptedIsStorable ==
  \A i \in Running(proj) : \A in \in ReportInputs(proj.attempts[i], now) :
    LET r == FinishAttempt(proj, i, in) IN r.ok => Validate(r.p)

(* An attempt whose run ended without a structured result has not passed.  *)
MissingResultFails ==
  \A i \in DOMAIN proj.attempts :
    proj.attempts[i].failure.code = "provider_result_missing" => proj.attempts[i].status # "passed"

(* A plan that has ended keeps its outcome.                                *)
OutcomeFinal ==
  [][proj.status = "terminal" => proj'.status = "terminal" /\ proj'.outcome = proj.outcome]_vars

(* A human node leaves waiting only by the decision on its attempt.        *)
WaitingIsHeld ==
  [][\A n \in Nodes : proj.nodes[n].status = "waiting" =>
       \/ proj'.nodes[n].status = "waiting"
       \/ proj'.attempts[proj.nodes[n].current].status # "waiting"]_vars

(* After a takeover the previous worker cannot commit a late result.       *)
TakeoverFences ==
  [][\A i \in DOMAIN proj.attempts : proj.attempts[i].failure.code = "human_takeover" =>
       i \in DOMAIN proj'.attempts /\ proj'.attempts[i] = proj.attempts[i]]_vars

(* The plan has ended or waits for a person.                               *)
Settled ==
  proj.status = "terminal" \/ \E n \in Nodes : proj.nodes[n].status = "waiting"

(* An attempt is durable whose provider run was not started.               *)
Unstarted == \E i \in Running(proj) : ~proj.attempts[i].bound

(* A run may report a result that the reducer or the repository refuses.   *)
Unrecordable ==
  \E i \in Running(proj) : \E in \in ReportInputs(proj.attempts[i], proj.attempts[i].started) :
    LET r == FinishAttempt(proj, i, in) IN ~(r.ok /\ Validate(r.p))

(* A watcher that has taken up a plan leaves it only when the plan has     *)
(* ended or waits for a person, or after an error: a start that failed     *)
(* after its lease, or a result that could not be recorded.  And it does   *)
(* leave it: silent providers, retries, feedback, repair rounds and joins  *)
(* keep it neither busy for ever nor idle.                                 *)
WatchSettles == Watched ~> (Settled \/ (~Watched /\ (Unstarted \/ Unrecordable)))

(* A plan that a watcher drives ends or is put before a person.            *)
PlanSettles == Watched ~> Settled

(* The same, but for starts that fail after their lease: when a feedback   *)
(* loop is used up, its last result still ends the plan or calls a person. *)
SpentLoopSettles == Watched ~> (Settled \/ (~Watched /\ Unstarted))

(* A watched plan that is open at its deadline ends, unless the watcher    *)
(* leaves it because a start failed after its lease, which ends no later   *)
(* than the plan.                                                          *)
DeadlineHonoured ==
  (Watched /\ Deadline # 0 /\ now >= Deadline /\ proj.status # "terminal") ~>
    (proj.status = "terminal" \/ (~Watched /\ Unstarted))

(* When the watcher closes a plan, at its deadline or because its context  *)
(* ended, it closes every running attempt, although the first one that it  *)
(* closes makes the plan terminal.                                         *)
ClosingIsComplete ==
  Closing("watcher") ~> (proj.status = "terminal" /\ Running(proj) = {})

(* The committed attempts implement the ledger.                            *)
Ledger == INSTANCE AttemptLedger WITH
  ledger <- [i \in DOMAIN proj.attempts |->
               LET a == proj.attempts[i]
               IN  [node |-> a.node, no |-> a.no, status |-> a.status,
                    result |-> <<a.outcome, a.evidence, a.used, a.failure>>]]
LedgerSpec == Ledger!LedgerSpec
=============================================================================
