------------------------- MODULE PlanExecutionProofs -------------------------
(***************************************************************************)
(* For every graph and every combination of actors, requests and faults,   *)
(* the committed projection is well typed and single flight.  The argument *)
(* is about one projection at a time: each operation of the reducer keeps  *)
(* it sane (PlanReducerProofs), and every copy that an actor holds or      *)
(* commits comes from such operations, however stale it is.                *)
(***************************************************************************)
EXTENDS PlanExecution, PlanReducerProofs

-----------------------------------------------------------------------------
(* The actors.                                                             *)

ActorFields == {"phase", "p", "todo", "at", "back", "time"}
ActorOK(v) == IsRecord(v, ActorFields) /\ Sane(v.p) /\ Sane(v.back)

(* The inductive invariant: the committed projection is sane, and so is    *)
(* every copy that may still be committed over it.                         *)
IInv ==
  /\ Sane(proj)
  /\ actor = [x \in Actors |-> actor[x]] /\ \A x \in Actors : ActorOK(actor[x])

LEMMA NewSane == Sane(NewProjection)
<1> DEFINE y(n) == [status |-> IF n \in EntryNodeIDs THEN "ready" ELSE "pending",
                    current |-> 0, no |-> 0, retryAt |-> 0, retries |-> 0, edges |-> {}]
<1>1. \A n : NodeOK(y(n))
  BY DEF NodeOK, IsRecord, NodeFields, NodeStatus
<1>2. /\ IsRecord(NewProjection, ProjectionFields)
      /\ NewProjection.status = "ready" /\ NewProjection.outcome = ""
      /\ NewProjection.nodes = [n \in Nodes |-> y(n)]
      /\ NewProjection.attempts = [i \in {} |-> 0] /\ NewProjection.repairs = [i \in {} |-> 0]
      /\ NewProjection.traversals = [e \in Edges |-> 0]
  BY Zenon DEF NewProjection, IsRecord, ProjectionFields
<1>3. AttemptsOK(NewProjection.attempts) /\ RepairsOK(NewProjection.repairs)
  BY Zenon, <1>2 DEF AttemptsOK, RepairsOK
<1>4. \A n \in Nodes : y(n).current = 0 /\ y(n).status # "running" OBVIOUS
<1> HIDE DEF y
<1>5. Typed(NewProjection)
  <2>1. /\ NewProjection.nodes = [n \in Nodes |-> NewProjection.nodes[n]]
        /\ \A n \in Nodes : NodeOK(NewProjection.nodes[n])
    <3> DEFINE f == [n \in Nodes |-> y(n)]
    <3>1. f = [n \in Nodes |-> f[n]] /\ \A n \in Nodes : NodeOK(f[n]) BY <1>1
    <3> HIDE DEF f
    <3>2. NewProjection.nodes = f BY Zenon, <1>2 DEF f
    <3> QED BY <3>1, <3>2
  <2>2. /\ NewProjection.traversals = [e \in Edges |-> NewProjection.traversals[e]]
        /\ \A e \in Edges : NewProjection.traversals[e] \in Nat
    <3> DEFINE f == [e \in Edges |-> 0]
    <3>1. f = [e \in Edges |-> f[e]] /\ \A e \in Edges : f[e] \in Nat OBVIOUS
    <3> HIDE DEF f
    <3>2. NewProjection.traversals = f BY Zenon, <1>2 DEF f
    <3> QED BY <3>1, <3>2
  <2>3. NewProjection.status \in PlanStatus /\ NewProjection.outcome \in Outcomes0
    BY Zenon, <1>2 DEF PlanStatus, Outcomes0
  <2> QED BY Zenon, <1>2, <1>3, <2>1, <2>2, <2>3 DEF Typed
<1>6. Flight(NewProjection) BY Zenon, <1>2, <1>4 DEF Flight
<1> QED BY <1>5, <1>6 DEF Sane

LEMMA ActorUpdate ==
  ASSUME NEW v, ActorOK(v), NEW p, Sane(p), NEW b, Sane(b), NEW ph, NEW td, NEW at
  PROVE  /\ ActorOK([v EXCEPT !.phase = ph, !.p = p])
         /\ ActorOK([v EXCEPT !.phase = ph, !.p = p, !.todo = td])
         /\ ActorOK([v EXCEPT !.phase = ph, !.p = p, !.at = at, !.back = b])
         /\ ActorOK([v EXCEPT !.phase = ph, !.p = p, !.at = at, !.todo = td, !.back = b])
         /\ ActorOK([v EXCEPT !.phase = ph, !.todo = td])
         /\ ActorOK([v EXCEPT !.p = p, !.todo = td])
         /\ ActorOK([v EXCEPT !.p = p])
         /\ ActorOK([v EXCEPT !.phase = ph, !.p = p, !.todo = td, !.time = at])
<1>1. ActorOK([v EXCEPT !.phase = ph, !.p = p]) BY Zenon DEF ActorOK, IsRecord, ActorFields
<1>2. ActorOK([v EXCEPT !.phase = ph, !.p = p, !.todo = td])
  BY Zenon DEF ActorOK, IsRecord, ActorFields
<1>3. ActorOK([v EXCEPT !.phase = ph, !.p = p, !.at = at, !.back = b])
  BY Zenon DEF ActorOK, IsRecord, ActorFields
<1>4. ActorOK([v EXCEPT !.phase = ph, !.p = p, !.at = at, !.todo = td, !.back = b])
  BY Zenon DEF ActorOK, IsRecord, ActorFields
<1>5. ActorOK([v EXCEPT !.phase = ph, !.todo = td]) BY Zenon DEF ActorOK, IsRecord, ActorFields
<1>6. ActorOK([v EXCEPT !.p = p, !.todo = td]) BY Zenon DEF ActorOK, IsRecord, ActorFields
<1>7. ActorOK([v EXCEPT !.p = p]) BY DEF ActorOK, IsRecord, ActorFields
<1>8. ActorOK([v EXCEPT !.phase = ph, !.p = p, !.todo = td, !.time = at])
  BY Zenon DEF ActorOK, IsRecord, ActorFields
<1> QED BY <1>1, <1>2, <1>3, <1>4, <1>5, <1>6, <1>7, <1>8

LEMMA OffOK == ActorOK(Off)
  BY NewSane DEF ActorOK, Off, IsRecord, ActorFields

LEMMA TickEndOK ==
  ASSUME NEW x, NEW p, Sane(p)
  PROVE  ActorOK(Reconciling(p)) /\ ActorOK(TickDone(x, p)) /\ ActorOK(TickFailed(x, p))
<1>1. ActorOK(Reconciling(p)) BY Zenon, OffOK, ActorUpdate DEF Reconciling
<1> QED BY <1>1, OffOK DEF TickDone, TickFailed

LEMMA CommitSane ==
  ASSUME NEW q, Sane(q), NEW b, Sane(b), NEW ev, NEW w
  PROVE  Sane(CommitEventProjection(q, b, ev, w).p)
  BY DEF CommitEventProjection

LEMMA CommitTransitionSane ==
  ASSUME NEW r, Sane(r.p), NEW b, Sane(b), NEW ev, NEW w
  PROVE  Sane(CommitTransition(r, b, ev, w).p)
<1>1. Sane(CommitEventProjection(r.p, b, ev, w).p) BY CommitSane
<1> QED BY <1>1 DEF CommitTransition

LEMMA ExecutorFinishSane ==
  ASSUME NEW p, Sane(p), NEW id, NEW in, NEW key, NEW w
  PROVE  Sane(ExecutorFinish(p, id, in, key, w).p)
<1>1. Sane(FinishAttempt(p, id, in).p) BY FinishSane
<1> QED BY <1>1, CommitTransitionSane DEF ExecutorFinish

LEMMA StartNodeSane ==
  ASSUME NEW p, Sane(p), NEW n, NEW id, NEW expires, NEW w
  PROVE  Sane(StartNode(p, n, id, expires, w).p)
<1> DEFINE no == p.nodes[n].no + 1
           r  == StartAttempt(p, n, id, no, FencingToken(id), expires, now)
<1>1. CASE n \in Nodes
  <2>1. no \in Nat BY <1>1 DEF Sane, Typed, NodeOK
  <2> HIDE DEF no
  <2>2. Sane(r.p) BY <2>1, StartSane
  <2> HIDE DEF r
  <2> QED BY <2>2, CommitTransitionSane DEF StartNode, r, no
<1>2. CASE n \notin Nodes
  <2>1. r = [ok |-> FALSE, p |-> p] BY <1>2 DEF StartAttempt, StartAdmissible
  <2>2. Sane(r.p) BY <2>1
  <2> HIDE DEF r
  <2> QED BY <2>2, CommitTransitionSane DEF StartNode, r
<1> QED BY <1>1, <1>2

LEMMA BindSane == ASSUME NEW p, Sane(p), NEW id PROVE Sane(Bind(p, id))
<1> DEFINE a == [p.attempts[id] EXCEPT !.bound = TRUE]
<1>1. id \in DOMAIN p.attempts => AttemptOK(p.attempts[id]) BY DEF Sane, Typed, AttemptsOK
<1>2. id \in DOMAIN p.attempts =>
        /\ AttemptOK(a) /\ a.node = p.attempts[id].node /\ a.status = p.attempts[id].status
  BY Zenon, <1>1 DEF AttemptOK, IsRecord, AttemptFields
<1> HIDE DEF a
<1>3. Sane([p EXCEPT !.attempts[id] = a]) BY Zenon, <1>2, AttemptUpdate
<1> QED BY <1>3 DEF Bind, a

LEMMA PersistSane == ASSUME NEW c, Sane(c.p), Sane(proj), Persist(c) PROVE Sane(proj')
  BY DEF Persist

LEMMA BecomeOK ==
  ASSUME IInv, NEW x \in Actors, NEW v, ActorOK(v), Become(x, v), Sane(proj')
  PROVE  IInv'
<1>1. actor' = [y \in Actors |-> actor'[y]] BY DEF IInv, Become
<1>2. \A y \in Actors : ActorOK(actor'[y]) BY DEF IInv, Become
<1> QED BY <1>1, <1>2 DEF IInv

-----------------------------------------------------------------------------
(* Every step of an actor keeps the invariant.                             *)

LEMMA TickInv == ASSUME IInv, NEW x \in Actors, Tick(x) PROVE IInv'
<1> DEFINE v == actor[x]
<1>1. ActorOK(v) /\ Sane(v.p) /\ Sane(v.back) /\ Sane(proj) BY DEF IInv, ActorOK
<1>2. ActorOK(Off) /\ Sane(NewProjection) BY OffOK, NewSane
<1>3. \A q : Sane(q) => /\ ActorOK(TickDone(x, q)) /\ ActorOK(TickFailed(x, q))
  BY TickEndOK
<1>4. CASE Load(x)
  <2>1. \A ph : ActorOK([Off EXCEPT !.phase = ph, !.p = proj]) BY Zenon, <1>1, <1>2, ActorUpdate
  <2> QED BY Zenon, <1>1, <1>4, <2>1, BecomeOK DEF Load
<1>5. CASE BeginTick(x)
  <2>1. \A ph, td : /\ ActorOK([Off EXCEPT !.phase = ph, !.p = v.p])
                    /\ ActorOK([Off EXCEPT !.phase = ph, !.p = v.p, !.todo = td])
    BY Zenon, <1>1, <1>2, ActorUpdate
  <2>2. PICK w : ActorOK(w) /\ Become(x, w) BY Zenon, <1>1, <1>3, <1>5, <2>1 DEF BeginTick
  <2> QED BY <1>1, <1>5, <2>2, BecomeOK DEF BeginTick
<1>6. ASSUME NEW c, Sane(c.p), Persist(c), NEW w, ActorOK(w), Become(x, w) PROVE IInv'
  BY <1>1, <1>6, PersistSane, BecomeOK
<1>7. CASE StartStructural(x)
  <2> DEFINE n == Min(v.todo)
             id == NewID
             c(w) == StartNode(v.p, n, id, now + leaseTTL(n), w)
  <2>1. \A w : Sane(c(w).p) BY <1>1, StartNodeSane
  <2>2. PICK w : /\ Persist(c(w))
                 /\ Become(x, IF c(w).ok THEN [v EXCEPT !.phase = "deciding", !.p = c(w).p,
                                                        !.at = id, !.back = v.p]
                              ELSE TickFailed(x, v.p))
    BY Zenon, <1>7 DEF StartStructural
  <2> HIDE DEF c, id
  <2>3. ActorOK([v EXCEPT !.phase = "deciding", !.p = c(w).p, !.at = id, !.back = v.p])
    BY Zenon, <1>1, <2>1, ActorUpdate
  <2> QED BY <1>1, <1>3, <1>6, <2>1, <2>2, <2>3
<1>8. CASE DispatchReady(x)
  <2> DEFINE n == Min(v.todo)
             id == NewID
             due == now + leaseTTL(n)
             end == IF Deadline # 0 /\ Deadline < due THEN Deadline ELSE due
             c(w) == StartNode(v.p, n, id, end, w)
  <2>1. \A w : Sane(c(w).p) BY <1>1, StartNodeSane
  <2>2. PICK w : /\ Persist(c(w))
                 /\ Become(x, IF c(w).ok THEN [v EXCEPT !.phase = "starting", !.p = c(w).p,
                                                        !.at = id, !.back = v.p]
                              ELSE TickFailed(x, v.p))
    BY Zenon, <1>8 DEF DispatchReady
  <2> HIDE DEF c, id
  <2>3. ActorOK([v EXCEPT !.phase = "starting", !.p = c(w).p, !.at = id, !.back = v.p])
    BY Zenon, <1>1, <2>1, ActorUpdate
  <2> QED BY <1>1, <1>3, <1>6, <2>1, <2>2, <2>3
<1>9. CASE DecideStructural(x)
  <2>1. PICK c, n :
          /\ \E in, key, w : c = ExecutorFinish(v.p, v.at, in, key, w)
          /\ Persist(c)
          /\ Become(x, IF c.ok THEN [v EXCEPT !.phase = "structural", !.p = c.p, !.at = 0,
                                              !.todo = @ \ {n}, !.back = NewProjection]
                       ELSE TickFailed(x, v.back))
    BY Zenon, <1>9 DEF DecideStructural
  <2>2. Sane(c.p) BY <1>1, <2>1, ExecutorFinishSane
  <2>3. ActorOK([v EXCEPT !.phase = "structural", !.p = c.p, !.at = 0,
                          !.todo = @ \ {n}, !.back = NewProjection])
    BY Zenon, <1>1, <1>2, <2>2, ActorUpdate
  <2> QED BY <1>1, <1>3, <1>6, <2>1, <2>2, <2>3
<1>10. CASE BeginDispatch(x)
  <2>1. \A td : ActorOK([v EXCEPT !.phase = "dispatch", !.todo = td]) BY Zenon, <1>1, ActorUpdate
  <2> QED BY Zenon, <1>1, <1>10, <2>1, BecomeOK DEF BeginDispatch
<1>11. CASE BindRun(x)
  <2> DEFINE q == Bind(v.p, v.at)
             c(w) == CommitEventProjection(q, q, BoundEvent(v.at, v.p.attempts[v.at]), w)
  <2>1. Sane(q) BY <1>1, BindSane
  <2>2. \A w : Sane(c(w).p) BY <2>1, CommitSane
  <2>3. \A td : ActorOK([v EXCEPT !.phase = "dispatch", !.p = q, !.at = 0, !.todo = td,
                                  !.back = NewProjection])
    <3> HIDE DEF q
    <3> QED BY Zenon, <1>1, <1>2, <2>1, ActorUpdate
  <2>4. PICK w, td :
          /\ Persist(c(w))
          /\ \/ Become(x, [v EXCEPT !.phase = "dispatch", !.p = q, !.at = 0, !.todo = td,
                                    !.back = NewProjection])
             \/ Become(x, TickFailed(x, q))
    BY Zenon, <1>11 DEF BindRun
  <2>5. PICK u : ActorOK(u) /\ Become(x, u) BY Zenon, <2>4, <1>3, <2>1, <2>3
  <2> QED BY <1>6, <2>2, <2>4, <2>5
<1>12. ASSUME NEW code, StartRunFails(x, code) PROVE IInv'
  <2>1. PICK in, key, w : LET c == ExecutorFinish(v.p, v.at, in, key, w)
                          IN  Persist(c) /\ Become(x, TickFailed(x, c.p))
    BY Zenon, <1>12 DEF StartRunFails
  <2>2. Sane(ExecutorFinish(v.p, v.at, in, key, w).p) BY <1>1, ExecutorFinishSane
  <2> QED BY <1>3, <1>6, <2>1, <2>2
<1>13. CASE OutboxFails(x) \/ ResolveFails(x) \/ EndTick(x)
  BY <1>1, <1>3, <1>13, BecomeOK DEF OutboxFails, ResolveFails, EndTick
<1>14. CASE CloseAttempt(x)
  <2>1. PICK id, in, key, w :
          LET c == ExecutorFinish(v.p, id, in, key, w)
          IN  /\ Persist(c)
              /\ Become(x, IF c.ok THEN [v EXCEPT !.p = c.p]
                           ELSE IF AtPhase(x, "closing") THEN TickFailed(x, c.p) ELSE Off)
    BY Zenon, <1>14 DEF CloseAttempt
  <2> DEFINE c == ExecutorFinish(v.p, id, in, key, w)
  <2>2. Sane(c.p) BY <1>1, ExecutorFinishSane
  <2>3. ActorOK([v EXCEPT !.p = c.p])
    <3> HIDE DEF c
    <3> QED BY Zenon, <1>1, <2>2, ActorUpdate
  <2> QED BY <1>2, <1>3, <1>6, <2>1, <2>2, <2>3
<1>15. CASE ClosePlan(x)
  <2>1. Sane(Terminate(v.p, "timed_out")) BY Zenon, <1>1, TerminateMoved, MovedSane DEF Outcomes0
  <2>2. Sane(proj') BY <1>1, <1>15, <2>1 DEF ClosePlan
  <2> QED BY <1>2, <1>15, <2>2, BecomeOK DEF ClosePlan
<1> QED BY <1>4, <1>5, <1>7, <1>8, <1>9, <1>10, <1>11, <1>12, <1>13, <1>14, <1>15 DEF Tick

LEMMA ReconcileInv == ASSUME IInv, NEW x \in Actors, Reconcile(x) PROVE IInv'
<1> DEFINE v == actor[x]
<1>1. ActorOK(v) /\ Sane(v.p) /\ Sane(proj) BY DEF IInv, ActorOK
<1>2. ActorOK(Off) BY OffOK
<1>3. ASSUME NEW c, Sane(c.p), Persist(c), NEW w, ActorOK(w), Become(x, w) PROVE IInv'
  BY <1>1, <1>3, PersistSane, BecomeOK
<1>4. ASSUME NEW id, NEW in, FinishVisited(x, id, in) PROVE IInv'
  <2> DEFINE c(w) == ExecutorFinish(v.p, id, in, KeyOf(v.p, id), w)
  <2>1. \A w : Sane(c(w).p) BY <1>1, ExecutorFinishSane
  <2>2. PICK w : Persist(c(w)) /\ Become(x, IF c(w).ok THEN Visited(x, c(w).p, id) ELSE Off)
    BY Zenon, <1>4 DEF FinishVisited
  <2> HIDE DEF c
  <2>3. ActorOK(Visited(x, c(w).p, id)) BY Zenon, <1>1, <2>1, ActorUpdate DEF Visited
  <2> QED BY <1>2, <1>3, <2>1, <2>2, <2>3
<1>5. ASSUME NEW id, NEW s, ReconcileRun(x, id, s) PROVE IInv'
  BY <1>4, <1>5 DEF ReconcileRun
<1>6. ASSUME NEW id, ReconcileExpired(x, id) PROVE IInv'
  BY Zenon, <1>4, <1>6 DEF ReconcileExpired
<1>7. ASSUME NEW id, ReconcileWaits(x, id) PROVE IInv'
  <2>1. ActorOK(Visited(x, v.p, id)) BY Zenon, <1>1, ActorUpdate DEF Visited
  <2> QED BY <1>1, <1>7, <2>1, BecomeOK DEF ReconcileWaits
<1>8. ASSUME NEW id, RecoverUnbound(x, id) PROVE IInv'
  <2> DEFINE q == Bind(v.p, id)
             c(w) == CommitEventProjection(q, q, BoundEvent(id, v.p.attempts[id]), w)
  <2>1. Sane(q) BY <1>1, BindSane
  <2>2. \A w : Sane(c(w).p) BY <2>1, CommitSane
  <2>3. PICK w : Persist(c(w)) /\ (Become(x, [v EXCEPT !.p = q]) \/ Become(x, Off))
    BY Zenon, <1>8 DEF RecoverUnbound
  <2> HIDE DEF c, q
  <2>4. ActorOK([v EXCEPT !.p = q]) BY Zenon, <1>1, <2>1, ActorUpdate
  <2> QED BY <1>2, <1>3, <2>2, <2>3, <2>4
<1>9. \A ph : ActorOK([Off EXCEPT !.phase = ph, !.p = v.p]) BY Zenon, <1>1, <1>2, ActorUpdate
<1>10. CASE EndReconcile(x) BY Zenon, <1>1, <1>2, <1>9, <1>10, BecomeOK DEF EndReconcile
<1>11. CASE ContextEnds(x) BY Zenon, <1>1, <1>2, <1>9, <1>11, BecomeOK DEF ContextEnds
<1>12. ASSUME NEW id, ReconcileFails(x, id) PROVE IInv'
  BY Zenon, <1>1, <1>2, <1>12, BecomeOK DEF ReconcileFails
<1> QED BY <1>5, <1>6, <1>7, <1>8, <1>10, <1>11, <1>12 DEF Reconcile

LEMMA OperateInv == ASSUME IInv, NEW x \in Actors, Operate(x) PROVE IInv'
<1> DEFINE p == actor[x].p
<1>1. Sane(p) /\ Sane(proj) BY DEF IInv, ActorOK
<1>2. ASSUME NEW c, Sane(c.p), Persist(c), Become(x, Off) PROVE IInv'
  BY <1>1, <1>2, OffOK, PersistSane, BecomeOK
<1>3. ASSUME NEW n \in Nodes, NEW granted, Approve(x, n, granted) PROVE IInv'
  <2>1. PICK id, in, key, w : Persist(ExecutorFinish(p, id, in, key, w)) BY Zenon, <1>3 DEF Approve
  <2>2. Become(x, Off) BY Zenon, <1>3 DEF Approve
  <2> QED BY <1>1, <1>2, <2>1, <2>2, ExecutorFinishSane
<1>4. ASSUME NEW id, NEW k, Cancel(x, id, k) PROVE IInv'
  <2>1. PICK in, key, w : Persist(ExecutorFinish(p, id, in, key, w)) BY <1>4 DEF Cancel
  <2>2. Become(x, Off) BY <1>4 DEF Cancel
  <2> QED BY <1>1, <1>2, <2>1, <2>2, ExecutorFinishSane
<1>5. ASSUME NEW n \in Nodes, NEW k, RetryNode(x, n, k) PROVE IInv'
  <2>1. Sane(Retry(p, n).p) BY <1>1, RetrySane
  <2>2. PICK ev, w : Persist(CommitEventProjection(Retry(p, n).p, Retry(p, n).p, ev, w))
    BY <1>5 DEF RetryNode
  <2>3. Become(x, Off) BY <1>5 DEF RetryNode
  <2> QED BY <1>2, <2>1, <2>2, <2>3, CommitSane
<1>6. ASSUME NEW id, NEW k, TakeOverAttempt(x, id, k) PROVE IInv'
  <2> DEFINE r == TakeOver(p, id, now)
  <2>1. Sane(r.p) BY <1>1, TakeOverSane
  <2>2. PICK ev, w : Persist(CommitEventProjection(r.p, r.p, ev, w))
    BY <1>6 DEF TakeOverAttempt
  <2>3. Become(x, Off) BY <1>6 DEF TakeOverAttempt
  <2> QED BY <1>2, <2>1, <2>2, <2>3, CommitSane
<1> QED BY <1>3, <1>4, <1>5, <1>6 DEF Operate

-----------------------------------------------------------------------------

LEMMA Inductive == IInv /\ [Next]_vars => IInv'
<1> SUFFICES ASSUME IInv, [Next]_vars PROVE IInv' OBVIOUS
<1>1. ASSUME NEW x \in Actors, Tick(x) PROVE IInv' BY <1>1, TickInv
<1>2. ASSUME NEW x \in Actors, Reconcile(x) PROVE IInv' BY <1>2, ReconcileInv
<1>3. ASSUME NEW x \in Actors, Operate(x) PROVE IInv' BY <1>3, OperateInv
<1>4. ASSUME NEW x \in Actors, Crash(x) PROVE IInv'
  <2>1. Sane(proj') BY <1>4 DEF Crash, IInv
  <2> QED BY <1>4, <2>1, OffOK, BecomeOK DEF Crash
<1>5. CASE Clock BY <1>5 DEF Clock, IInv
<1>6. CASE UNCHANGED vars BY <1>6 DEF vars, IInv
<1> QED BY <1>1, <1>2, <1>3, <1>4, <1>5, <1>6 DEF Next

LEMMA Invariance == Spec => []IInv
<1>1. Init => IInv
  <2> SUFFICES ASSUME Init PROVE IInv OBVIOUS
  <2>1. Sane(proj) BY NewSane DEF Init
  <2>2. actor = [x \in Actors |-> Off] BY DEF Init
  <2>3. actor = [x \in Actors |-> actor[x]] /\ \A x \in Actors : ActorOK(actor[x])
    BY <2>2, OffOK
  <2> QED BY <2>1, <2>3 DEF IInv
<1> QED BY <1>1, Inductive, PTL DEF Spec

(* The committed projection always has the types that PlanProjection and   *)
(* its validation assume: no sequence of ticks, provider results, operator *)
(* requests, lost updates and crashes commits a status, an attempt number, *)
(* a traversal count or a repair state outside its range, or a current     *)
(* attempt that does not exist.                                            *)
THEOREM TypeCorrectness == Spec => []TypeOK
<1>1. IInv => TypeOK
  BY ZenonT(40) DEF IInv, Sane, Typed, Flight, NodeOK, AttemptsOK, AttemptOK, RepairsOK, RepairOK,
         Outcomes0, TypeOK
<1> QED BY <1>1, Invariance, PTL

(* Whatever the graph and however the actors overlap, StartAttempt,        *)
(* FinishAttempt with its rollback, route, Retry, TakeOver and the stale   *)
(* copies that CommitEventProjection writes back keep one running attempt  *)
(* per running node.                                                       *)
THEOREM AttemptsAreSingleFlight == Spec => []SingleFlight
<1>1. IInv => SingleFlight
  BY DEF IInv, Sane, Flight, SingleFlight, Running
<1> QED BY <1>1, Invariance, PTL
=============================================================================
