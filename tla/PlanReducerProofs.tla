-------------------------- MODULE PlanReducerProofs --------------------------
(***************************************************************************)
(* What the reducer preserves, for every graph and every input: a sane     *)
(* projection, one that is well typed and in which running attempts and    *)
(* running nodes correspond one to one, stays sane under every operation,  *)
(* also when the operation is refused and leaves a partial result.         *)
(***************************************************************************)
EXTENDS PlanReducer, TLAPS

IsRecord(r, F) == r = [f \in F |-> r[f]]

ProjectionFields == {"status", "outcome", "nodes", "attempts", "traversals", "repairs", "idem", "usage"}
NodeFields == {"status", "current", "no", "retryAt", "retries", "edges"}
AttemptFields == {"node", "no", "status", "token", "expires", "started", "outcome", "evidence",
                  "used", "failure", "repair", "rstate", "bound"}
RepairFields == {"node", "attempt", "round", "state", "target", "verifications", "verified"}
Outcomes0 == {"", "succeeded", "failed", "cancelled", "timed_out"}

NodeOK(y) == IsRecord(y, NodeFields) /\ y.status \in NodeStatus /\ y.no \in Nat
AttemptOK(a) == /\ IsRecord(a, AttemptFields)
                /\ a.node \in Nodes /\ a.no \in Nat /\ a.status \in AttemptStatus
AttemptsOK(f) == f = [i \in DOMAIN f |-> f[i]] /\ \A i \in DOMAIN f : AttemptOK(f[i])
RepairOK(r) == IsRecord(r, RepairFields) /\ r.state \in RepairLifecycle
RepairsOK(f) == f = [i \in DOMAIN f |-> f[i]] /\ \A i \in DOMAIN f : RepairOK(f[i])

(* The shape and the types of a projection.                                *)
Typed(p) ==
  /\ IsRecord(p, ProjectionFields)
  /\ p.status \in PlanStatus /\ p.outcome \in Outcomes0
  /\ p.nodes = [n \in Nodes |-> p.nodes[n]] /\ \A n \in Nodes : NodeOK(p.nodes[n])
  /\ p.traversals = [e \in Edges |-> p.traversals[e]] /\ \A e \in Edges : p.traversals[e] \in Nat
  /\ AttemptsOK(p.attempts) /\ RepairsOK(p.repairs)

(* Running attempts and running nodes are in one-to-one correspondence.    *)
Flight(p) ==
  /\ \A n \in Nodes : p.nodes[n].current \in DOMAIN p.attempts \cup {0}
  /\ \A i \in DOMAIN p.attempts : p.attempts[i].status = "running" =>
       /\ p.nodes[p.attempts[i].node].status = "running"
       /\ p.nodes[p.attempts[i].node].current = i
  /\ \A n \in Nodes : p.nodes[n].status = "running" =>
       LET c == p.nodes[n].current
       IN  /\ c \in DOMAIN p.attempts
           /\ p.attempts[c].status = "running" /\ p.attempts[c].node = n

Sane(p) == Typed(p) /\ Flight(p)

(* A step from the node state y to z that keeps a running node as it is    *)
(* and starts none.                                                        *)
Calm(y, z) ==
  /\ NodeOK(z) /\ z.current = y.current /\ z.no = y.no
  /\ y.status = "running" => z = y
  /\ z.status = "running" => y.status = "running"

(* A step from p to q that starts and closes no attempt.                   *)
Moved(p, q) ==
  /\ Typed(q) /\ q.attempts = p.attempts
  /\ \A n \in Nodes : Calm(p.nodes[n], q.nodes[n])

LEMMA MovedSane == ASSUME NEW p, NEW q, Sane(p), Moved(p, q) PROVE Sane(q)
<1>1. \A i \in DOMAIN p.attempts : p.attempts[i].node \in Nodes
  BY DEF Sane, Typed, AttemptsOK, AttemptOK
<1>2. \A n \in Nodes : /\ q.nodes[n].current = p.nodes[n].current
                       /\ p.nodes[n].status = "running" <=> q.nodes[n].status = "running"
  BY DEF Moved, Calm
<1>3. Flight(q)
  BY <1>1, <1>2 DEF Sane, Moved, Flight
<1> QED BY <1>3 DEF Sane, Moved

LEMMA MovedTransitive ==
  ASSUME NEW p, NEW q, NEW r, Moved(p, q), Moved(q, r) PROVE Moved(p, r)
  BY DEF Moved, Calm

LEMMA MovedReflexive == ASSUME NEW p, Sane(p) PROVE Moved(p, p)
  BY DEF Moved, Calm, Sane, Typed

-----------------------------------------------------------------------------
(* Updates of a projection.                                                *)

(* Node states and traversal counts replaced by calm ones.                 *)
LEMMA NodesMoved ==
  ASSUME NEW p, Sane(p), NEW f, f = [n \in Nodes |-> f[n]],
         \A n \in Nodes : Calm(p.nodes[n], f[n])
  PROVE  Moved(p, [p EXCEPT !.nodes = f])
  BY DEF Sane, Moved, Typed, Calm, IsRecord, ProjectionFields

LEMMA NodeMoved ==
  ASSUME NEW p, Sane(p), NEW m \in Nodes, NEW z, Calm(p.nodes[m], z)
  PROVE  Moved(p, [p EXCEPT !.nodes[m] = z])
<1> DEFINE f == [p.nodes EXCEPT ![m] = z]
<1>1. f = [n \in Nodes |-> f[n]] BY DEF Sane, Typed
<1>2. \A n \in Nodes : Calm(p.nodes[n], p.nodes[n]) BY DEF Sane, Typed, Calm
<1>3. \A n \in Nodes : Calm(p.nodes[n], f[n]) BY <1>2 DEF Sane, Typed
<1>4. [p EXCEPT !.nodes[m] = z] = [p EXCEPT !.nodes = f] OBVIOUS
<1> QED BY <1>1, <1>3, <1>4, NodesMoved

LEMMA StatusMoved ==
  ASSUME NEW p, Sane(p), NEW s \in PlanStatus
  PROVE  Moved(p, [p EXCEPT !.status = s])
  BY DEF Sane, Moved, Typed, Calm, IsRecord, ProjectionFields

LEMMA TerminateMoved ==
  ASSUME NEW p, Sane(p), NEW o \in Outcomes0
  PROVE  Moved(p, Terminate(p, o))
  BY Zenon DEF Sane, Moved, Typed, Calm, IsRecord, ProjectionFields, Terminate, PlanStatus

LEMMA RepairsMoved ==
  ASSUME NEW p, Sane(p), NEW f, RepairsOK(f)
  PROVE  Moved(p, [p EXCEPT !.repairs = f])
  BY DEF Sane, Moved, Typed, Calm, IsRecord, ProjectionFields

-----------------------------------------------------------------------------
(* The operators of the reducer.                                           *)

(* A node that is not running may be given any non-running status.         *)
LEMMA CalmUpdate ==
  ASSUME NEW y, NodeOK(y), y.status # "running",
         NEW s \in NodeStatus \ {"running"}, NEW e, NEW r, NEW k
  PROVE  /\ Calm(y, [y EXCEPT !.status = s])
         /\ Calm(y, [y EXCEPT !.retryAt = r, !.status = s, !.edges = e])
         /\ Calm(y, [y EXCEPT !.status = s, !.edges = e, !.retryAt = r])
         /\ Calm(y, [y EXCEPT !.status = s, !.retries = k, !.retryAt = r])
  BY Zenon DEF Calm, NodeOK, IsRecord, NodeFields

LEMMA ResetCalm ==
  ASSUME NEW p, Sane(p), NEW rid, NEW r
  PROVE  Moved(p, [p EXCEPT !.nodes = resetRepairRound(p.nodes, rid, r)])
<1> DEFINE f == resetRepairRound(p.nodes, rid, r)
<1>1. f = [n \in Nodes |-> f[n]] BY DEF resetRepairRound
<1>2. ASSUME NEW n \in Nodes PROVE Calm(p.nodes[n], f[n])
  <2>1. NodeOK(p.nodes[n]) BY DEF Sane, Typed
  <2>2. Calm(p.nodes[n], p.nodes[n]) BY <2>1 DEF Calm
  <2>3. {"ready", "pending"} \subseteq NodeStatus \ {"running"}
    BY DEF NodeStatus
  <2> QED BY Zenon, <2>1, <2>2, <2>3, CalmUpdate DEF resetRepairRound
<1> QED BY <1>1, <1>2, NodesMoved

LEMMA OpenMoved ==
  ASSUME NEW p, Sane(p), NEW a PROVE Moved(p, OpenShortCircuits(p, a))
<1> DEFINE Opens(n) == /\ NodeDef[n].shortCircuit
                       /\ \E e \in Incoming(n) : EdgeDef[e].from = a.node /\ edgeSatisfied(e, a)
                       /\ p.nodes[n].status \notin {"running", "passed"}
           f == [n \in Nodes |-> IF Opens(n) THEN [p.nodes[n] EXCEPT !.status = "ready"]
                                 ELSE p.nodes[n]]
<1>1. OpenShortCircuits(p, a) \in {p, [p EXCEPT !.nodes = f]}
  BY DEF OpenShortCircuits
<1>2. ASSUME NEW n \in Nodes PROVE Calm(p.nodes[n], f[n])
  <2>1. NodeOK(p.nodes[n]) BY DEF Sane, Typed
  <2>2. Calm(p.nodes[n], p.nodes[n]) BY <2>1 DEF Calm
  <2>3. "ready" \in NodeStatus \ {"running"} BY DEF NodeStatus
  <2>4. Opens(n) => p.nodes[n].status # "running" OBVIOUS
  <2> QED BY Zenon, <2>1, <2>2, <2>3, <2>4, CalmUpdate
<1>3. Moved(p, [p EXCEPT !.nodes = f])
  <2> HIDE DEF Opens
  <2> QED BY Zenon, <1>2, NodesMoved
<1> QED BY <1>1, <1>3, MovedReflexive

LEMMA FollowMoved ==
  ASSUME NEW p, Sane(p), NEW E, NEW fanOut PROVE Moved(p, FollowEdges(p, E, fanOut).p)
<1> DEFINE spent == {e \in E : EdgeDef[e].max > 0 /\ p.traversals[e] >= EdgeDef[e].max}
           taken == {e \in E : \A x \in spent : e < x}
           f == [n \in Nodes |->
                  LET via == taken \cap Incoming(n)
                  IN  IF via = {} \/ p.nodes[n].status = "running" THEN p.nodes[n]
                      ELSE [p.nodes[n] EXCEPT !.status = "ready", !.edges = @ \cup via,
                              !.retryAt = IF fanOut THEN 0 ELSE @]]
           g == [e \in Edges |-> IF e \in taken /\ EdgeDef[e].max > 0
                                 THEN p.traversals[e] + 1 ELSE p.traversals[e]]
<1>1. FollowEdges(p, E, fanOut).p = [p EXCEPT !.nodes = f, !.traversals = g]
  BY DEF FollowEdges
<1>2. ASSUME NEW n \in Nodes PROVE Calm(p.nodes[n], f[n])
  <2>1. NodeOK(p.nodes[n]) BY DEF Sane, Typed
  <2>2. Calm(p.nodes[n], p.nodes[n]) BY <2>1 DEF Calm
  <2>3. "ready" \in NodeStatus \ {"running"} BY DEF NodeStatus
  <2> HIDE DEF taken
  <2> QED BY Zenon, <2>1, <2>2, <2>3, CalmUpdate
<1>3. Moved(p, [p EXCEPT !.nodes = f]) 
  <2> HIDE DEF taken
  <2> QED BY Zenon, <1>2, NodesMoved
<1>4. g = [e \in Edges |-> g[e]] /\ \A e \in Edges : g[e] \in Nat
  <2> HIDE DEF taken
  <2> QED BY DEF Sane, Typed
<1> HIDE DEF f, g
<1> QED BY Zenon, <1>1, <1>3, <1>4 DEF Sane, Moved, Typed, IsRecord, ProjectionFields

LEMMA RouteMoved ==
  ASSUME NEW p, Sane(p), NEW a, AttemptOK(a), p.nodes[a.node].status # "running", NEW in
  PROVE  Moved(p, route(p, a, in).p)
<1>1. Moved(p, p) BY MovedReflexive
<1>2. \A s : TerminalOutcome(s) \in Outcomes0 BY DEF TerminalOutcome, Outcomes0
<1>3. \A s : Moved(p, Terminate(p, TerminalOutcome(s))) BY <1>2, TerminateMoved
<1>4. Moved(p, Terminate(p, "failed")) /\ Moved(p, Terminate(p, "timed_out"))
  BY Zenon, TerminateMoved DEF Outcomes0
<1>5. Moved(p, [p EXCEPT !.status = "running"]) BY Zenon, StatusMoved DEF PlanStatus
<1>6. ASSUME NEW k, NEW r
      PROVE  Moved(p, [p EXCEPT !.status = "running",
                         !.nodes[a.node] = [@ EXCEPT !.status = "ready", !.retries = k, !.retryAt = r]])
  <2> DEFINE z == [p.nodes[a.node] EXCEPT !.status = "ready", !.retries = k, !.retryAt = r]
             q == [p EXCEPT !.nodes[a.node] = z]
  <2>1. a.node \in Nodes /\ NodeOK(p.nodes[a.node]) BY DEF AttemptOK, Sane, Typed
  <2>2. Calm(p.nodes[a.node], z) BY Zenon, <2>1, CalmUpdate DEF NodeStatus
  <2>3. Moved(p, q) BY <2>1, <2>2, NodeMoved
  <2>4. Moved(q, [q EXCEPT !.status = "running"])
    BY Zenon, <2>3, MovedSane, StatusMoved DEF PlanStatus
  <2>5. Moved(p, [q EXCEPT !.status = "running"]) BY <2>3, <2>4, MovedTransitive
  <2>6. [q EXCEPT !.status = "running"]
        = [p EXCEPT !.status = "running",
             !.nodes[a.node] = [@ EXCEPT !.status = "ready", !.retries = k, !.retryAt = r]]
    BY Zenon DEF Sane, Typed, IsRecord, ProjectionFields
  <2> QED BY <2>5, <2>6
<1>7. Moved(p, RouteWithoutEdge(p, a, in).p)
  BY Zenon, <1>1, <1>3, <1>4, <1>5, <1>6 DEF RouteWithoutEdge
<1>8. \A E, b : Moved(p, FollowEdges(p, E, b).p) BY FollowMoved
<1> QED BY Zenon, <1>1, <1>4, <1>7, <1>8 DEF route

LEMMA RepairsUpdate ==
  ASSUME NEW f, RepairsOK(f), NEW k, NEW v, k \in DOMAIN f => RepairOK(v)
  PROVE  RepairsOK([f EXCEPT ![k] = v])
  BY DEF RepairsOK

LEMMA RepairsWith ==
  ASSUME NEW f, RepairsOK(f), NEW k, NEW v, RepairOK(v)
  PROVE  RepairsOK(With(f, k, v))
<1> DEFINE g == With(f, k, v)
<1>1. /\ g = [j \in DOMAIN g |-> g[j]]
      /\ DOMAIN g = DOMAIN f \cup {k} /\ g[k] = v
      /\ \A j \in DOMAIN f \ {k} : g[j] = f[j]
  BY DEF With
<1> HIDE DEF g
<1>2. RepairsOK(g) BY <1>1 DEF RepairsOK
<1> QED BY <1>2 DEF g

LEMMA RepairFieldsUpdate ==
  ASSUME NEW r, RepairOK(r), NEW s \in RepairLifecycle, NEW v, NEW t
  PROVE  /\ RepairOK([r EXCEPT !.state = s]) /\ RepairOK([r EXCEPT !.verified = v])
         /\ RepairOK([r EXCEPT !.state = s, !.target = t])
         /\ RepairOK([r EXCEPT !.state = s, !.verifications = v])
<1>1. RepairOK([r EXCEPT !.state = s]) BY DEF RepairOK, IsRecord, RepairFields
<1>2. RepairOK([r EXCEPT !.verified = v]) BY DEF RepairOK, IsRecord, RepairFields
<1>3. RepairOK([r EXCEPT !.state = s, !.target = t]) BY Zenon DEF RepairOK, IsRecord, RepairFields
<1>4. RepairOK([r EXCEPT !.state = s, !.verifications = v])
  BY Zenon DEF RepairOK, IsRecord, RepairFields
<1> QED BY <1>1, <1>2, <1>3, <1>4

LEMMA NextRoundOK ==
  ASSUME NEW r, RepairOK(r), NEW k, NEW f, NEW v
  PROVE  RepairOK([r EXCEPT !.round = k, !.state = "planned", !.target = 0,
                            !.verifications = f, !.verified = v])
<1> DEFINE z == [r EXCEPT !.round = k, !.state = "planned", !.target = 0,
                          !.verifications = f, !.verified = v]
<1>1. z.state = "planned" BY DEF RepairOK, IsRecord, RepairFields
<1>2. IsRecord(z, RepairFields) BY Zenon DEF RepairOK, IsRecord
<1> QED BY <1>1, <1>2 DEF RepairOK, RepairLifecycle

(* The repair part of FinishAttempt keeps what identifies the attempt.     *)
LEMMA RepairMoved ==
  ASSUME NEW p, Sane(p), NEW id, NEW a, AttemptOK(a)
  PROVE  LET t == RepairTransition(p, id, a)
         IN  /\ Moved(p, t.p) /\ AttemptOK(t.a)
             /\ t.a.node = a.node /\ t.a.no = a.no /\ t.a.status = a.status
<1>1. Moved(p, p) BY MovedReflexive
<1>2. RepairsOK(p.repairs) BY DEF Sane, Typed
<1>3. ASSUME NEW k, NEW s \in RepairLifecycle
      PROVE  Moved(p, [p EXCEPT !.repairs[k].state = s])
  <2>1. RepairsOK([p.repairs EXCEPT ![k] = [@ EXCEPT !.state = s]])
    BY Zenon, <1>2, RepairsUpdate, RepairFieldsUpdate DEF RepairsOK
  <2>2. Moved(p, [p EXCEPT !.repairs = [p.repairs EXCEPT ![k].state = s]])
    BY <2>1, RepairsMoved
  <2> QED BY <2>2
<1>4. ASSUME NEW k, NEW v PROVE Moved(p, [p EXCEPT !.repairs[k].verified = v])
  <2>1. RepairsOK([p.repairs EXCEPT ![k] = [@ EXCEPT !.verified = v]])
    BY Zenon, <1>2, RepairsUpdate, RepairFieldsUpdate DEF RepairsOK, RepairLifecycle
  <2>2. Moved(p, [p EXCEPT !.repairs = [p.repairs EXCEPT ![k].verified = v]])
    BY <2>1, RepairsMoved
  <2> QED BY <2>2
<1>5. Moved(p, FailRepairRound(p, a).p)
  <2> DEFINE r == p.repairs[a.repair]
             next == [r EXCEPT !.round = @ + 1, !.state = "planned", !.target = 0,
                               !.verifications = [n \in {} |-> 0], !.verified = {}]
             f == [p.repairs EXCEPT ![a.repair] = next]
             q == [p EXCEPT !.repairs = f]
             z == [q EXCEPT !.nodes = resetRepairRound(q.nodes, a.repair, r)]
  <2>1. RepairsOK(f)
    <3>1. a.repair \in DOMAIN p.repairs => RepairOK(next)
      BY Zenon, <1>2, NextRoundOK DEF RepairsOK
    <3> HIDE DEF next
    <3> QED BY <1>2, <3>1, RepairsUpdate
  <2>2. Moved(p, q) /\ Sane(q) BY <2>1, RepairsMoved, MovedSane
  <2>3. Moved(p, z)
    <3> HIDE DEF q, r
    <3> QED BY <2>2, ResetCalm, MovedTransitive
  <2>4. z = [p EXCEPT !.repairs[a.repair] = next,
                      !.nodes = resetRepairRound(p.nodes, a.repair, r)]
    <3> HIDE DEF next, r
    <3> QED BY DEF Sane, Typed, IsRecord, ProjectionFields
  <2>5. Moved(p, [p EXCEPT !.repairs[a.repair].state = "exhausted"])
    BY Zenon, <1>3 DEF RepairLifecycle
  <2> QED BY <1>1, <2>3, <2>4, <2>5 DEF FailRepairRound
<1>6. Moved(p, PassVerification(p, a).p)
  <2> DEFINE v == p.repairs[a.repair].verified \cup {a.node}
             q == [p EXCEPT !.repairs[a.repair].verified = v]
  <2>1. Moved(p, q) BY <1>4
  <2>2. ASSUME NEW s \in RepairLifecycle
        PROVE  Moved(p, [q EXCEPT !.repairs[a.repair].state = s])
    <3> DEFINE f == [q.repairs EXCEPT ![a.repair].state = s]
    <3>1. Sane(q) BY <2>1, MovedSane
    <3> HIDE DEF q
    <3>2. RepairsOK(f)
      BY ZenonT(40), <3>1, RepairsUpdate, RepairFieldsUpdate DEF Sane, Typed, RepairsOK
    <3>3. Moved(q, [q EXCEPT !.repairs = f]) BY <3>1, <3>2, RepairsMoved
    <3> QED BY <2>1, <3>3, MovedTransitive
  <2>3. {"verified", "verifying"} \subseteq RepairLifecycle BY DEF RepairLifecycle
  <2> QED BY Zenon, <2>1, <2>2, <2>3 DEF PassVerification
<1>7. Moved(p, advanceRepairAttemptState(p, a).p)
  <2>1. Moved(p, [p EXCEPT !.repairs[a.repair].state = "patched"])
    BY Zenon, <1>3 DEF RepairLifecycle
  <2> QED BY <1>1, <1>5, <1>6, <2>1 DEF advanceRepairAttemptState
<1>8. Moved(p, createRepairPlan(p, id, a).p)
  <2> DEFINE open == {rid \in DOMAIN p.repairs :
                        /\ p.repairs[rid].node = a.node
                        /\ p.repairs[rid].state \notin {"verified", "exhausted"}}
             fresh == [node |-> a.node, attempt |-> id, round |-> 1, state |-> "planned",
                       target |-> 0, verifications |-> [n \in {} |-> 0], verified |-> {}]
             rid == CHOOSE x \in open : TRUE
             kept == [fresh EXCEPT !.round = p.repairs[rid].round, !.state = p.repairs[rid].state]
  <2>1. RepairOK(fresh)
    BY Zenon DEF RepairOK, IsRecord, RepairFields, RepairLifecycle
  <2>2. open # {} => RepairsOK([p.repairs EXCEPT ![rid] = kept])
    <3>1. open # {} => rid \in DOMAIN p.repairs OBVIOUS
    <3> HIDE DEF rid
    <3>2. open # {} => RepairOK(kept)
      BY Zenon, <1>2, <3>1, <2>1 DEF RepairsOK, RepairOK, IsRecord, RepairFields
    <3> QED BY <1>2, <3>1, <3>2, RepairsUpdate
  <2>3. RepairsOK(With(p.repairs, id, fresh))
    <3> HIDE DEF fresh
    <3> QED BY <1>2, <2>1, RepairsWith
  <2>4. Moved(p, [p EXCEPT !.repairs = With(p.repairs, id, fresh)])
    BY <2>3, RepairsMoved
  <2>5. open # {} => Moved(p, [p EXCEPT !.repairs[rid] = kept])
    BY Zenon, <2>2, RepairsMoved
  <2> QED BY Zenon, <1>1, <2>4, <2>5 DEF createRepairPlan
<1>9. \A x, y : /\ AttemptOK([a EXCEPT !.rstate = x])
                /\ AttemptOK([a EXCEPT !.rstate = x, !.repair = y])
  BY ZenonT(40) DEF AttemptOK, IsRecord, AttemptFields
<1>10. \A x, y : LET b == [a EXCEPT !.rstate = x]
                     c == [a EXCEPT !.rstate = x, !.repair = y]
                 IN  /\ b.node = a.node /\ b.no = a.no /\ b.status = a.status
                     /\ c.node = a.node /\ c.no = a.no /\ c.status = a.status
  OBVIOUS
<1> DEFINE t == RepairTransition(p, id, a)
<1>11. Moved(p, t.p) BY Zenon, <1>1, <1>7, <1>8 DEF RepairTransition
<1>12. \/ t.a = a
       \/ \E x, y : t.a \in {[a EXCEPT !.rstate = x], [a EXCEPT !.rstate = x, !.repair = y]}
  BY Zenon DEF RepairTransition
<1> HIDE DEF t
<1>13. /\ AttemptOK(t.a)
       /\ t.a.node = a.node /\ t.a.no = a.no /\ t.a.status = a.status
  <2>1. CASE t.a = a BY <2>1
  <2>2. ASSUME NEW x, t.a = [a EXCEPT !.rstate = x]
        PROVE  /\ AttemptOK(t.a)
               /\ t.a.node = a.node /\ t.a.no = a.no /\ t.a.status = a.status
    BY Zenon, <2>2, <1>9, <1>10
  <2>3. ASSUME NEW x, NEW y, t.a = [a EXCEPT !.rstate = x, !.repair = y]
        PROVE  /\ AttemptOK(t.a)
               /\ t.a.node = a.node /\ t.a.no = a.no /\ t.a.status = a.status
    <3>1. AttemptOK([a EXCEPT !.rstate = x, !.repair = y])
      BY Zenon DEF AttemptOK, IsRecord, AttemptFields
    <3>2. t.a.node = a.node /\ t.a.no = a.no /\ t.a.status = a.status BY <2>3, <1>10
    <3> QED BY <2>3, <3>1, <3>2
  <2> QED BY Zenon, <1>12, <2>1, <2>2, <2>3
<1> QED BY <1>11, <1>13 DEF t

(* Closing attempt id, or letting it wait, in a projection u that was      *)
(* reached from p without starting or closing an attempt.                  *)
LEMMA CloseSane ==
  ASSUME NEW p, Sane(p), NEW u, Moved(p, u), NEW id \in DOMAIN p.attempts,
         NEW n, n = p.attempts[id].node, p.nodes[n].current = id,
         NEW a, AttemptOK(a), a.node = n, a.status # "running",
         NEW z, NodeOK(z), z.current = id, z.status = a.status, NEW us, NEW im
  PROVE  Sane([u EXCEPT !.attempts[id] = a, !.nodes[n] = z, !.usage = us, !.idem = im])
<1> DEFINE q == [u EXCEPT !.attempts[id] = a, !.nodes[n] = z, !.usage = us, !.idem = im]
<1>1. Sane(u) /\ n \in Nodes BY MovedSane DEF Sane, Typed, AttemptsOK, AttemptOK
<1>2. /\ IsRecord(q, ProjectionFields)
      /\ q.attempts = [u.attempts EXCEPT ![id] = a]
      /\ q.nodes = [u.nodes EXCEPT ![n] = z]
      /\ q.status = u.status /\ q.outcome = u.outcome
      /\ q.traversals = u.traversals /\ q.repairs = u.repairs
  BY Zenon, <1>1 DEF Sane, Typed, IsRecord, ProjectionFields
<1> HIDE DEF q
<1>3. AttemptsOK(q.attempts) BY <1>1, <1>2 DEF Sane, Typed, AttemptsOK
<1>4. /\ q.nodes = [m \in Nodes |-> q.nodes[m]]
      /\ \A m \in Nodes : NodeOK(q.nodes[m])
  BY <1>1, <1>2 DEF Sane, Typed
<1>5. Typed(q) BY <1>1, <1>2, <1>3, <1>4 DEF Sane, Typed
<1>6. /\ DOMAIN q.attempts = DOMAIN p.attempts /\ q.attempts[id] = a
      /\ \A i \in DOMAIN p.attempts \ {id} : q.attempts[i] = p.attempts[i]
      /\ q.nodes[n] = z /\ \A m \in Nodes \ {n} : q.nodes[m] = u.nodes[m]
  BY <1>1, <1>2 DEF Moved, Sane, Typed
<1>7. \A m \in Nodes : /\ u.nodes[m].current = p.nodes[m].current
                       /\ u.nodes[m].status = "running" <=> p.nodes[m].status = "running"
  BY DEF Moved, Calm
<1>8. \A i \in DOMAIN p.attempts : p.attempts[i].node \in Nodes
  BY DEF Sane, Typed, AttemptsOK, AttemptOK
<1>9. \A i \in DOMAIN p.attempts :
        p.attempts[i].status = "running" /\ i # id => p.attempts[i].node # n
  BY SMTT(20) DEF Sane, Flight
<1>10. Flight(q)
  <2>1. \A m \in Nodes : q.nodes[m].current \in DOMAIN q.attempts \cup {0}
    BY <1>6, <1>7 DEF Sane, Flight
  <2>2. ASSUME NEW i \in DOMAIN q.attempts, q.attempts[i].status = "running"
        PROVE  /\ q.nodes[q.attempts[i].node].status = "running"
               /\ q.nodes[q.attempts[i].node].current = i
    <3>1. i # id /\ i \in DOMAIN p.attempts BY <2>2, <1>6
    <3>2. q.attempts[i] = p.attempts[i] BY <3>1, <1>6
    <3> DEFINE m == p.attempts[i].node
    <3>3. m \in Nodes \ {n} BY SMTT(20), <2>2, <3>1, <3>2, <1>8, <1>9
    <3>4. p.nodes[m].status = "running" /\ p.nodes[m].current = i
      BY <2>2, <3>1, <3>2 DEF Sane, Flight
    <3> HIDE DEF m
    <3>5. q.nodes[m].status = "running" /\ q.nodes[m].current = i
      BY <3>3, <3>4, <1>6, <1>7
    <3> QED BY <3>2, <3>5 DEF m
  <2>3. ASSUME NEW m \in Nodes, q.nodes[m].status = "running"
        PROVE  LET c == q.nodes[m].current
               IN  /\ c \in DOMAIN q.attempts
                   /\ q.attempts[c].status = "running" /\ q.attempts[c].node = m
    <3>1. m # n BY <2>3, <1>6
    <3>2. p.nodes[m].status = "running" /\ q.nodes[m].current = p.nodes[m].current
      BY SMTT(20), <2>3, <3>1, <1>6, <1>7
    <3> DEFINE c == p.nodes[m].current
    <3>3. /\ c \in DOMAIN p.attempts
          /\ p.attempts[c].status = "running" /\ p.attempts[c].node = m
      BY <3>2 DEF Sane, Flight
    <3> HIDE DEF c
    <3>4. c # id BY <3>1, <3>3
    <3> QED BY <3>2, <3>3, <3>4, <1>6 DEF c
  <2> QED BY Zenon, <2>1, <2>2, <2>3 DEF Flight
<1> QED BY <1>5, <1>10 DEF Sane, q

(* The result of an attempt is written into its record.                    *)
LEMMA ResultOK ==
  ASSUME NEW x, AttemptOK(x), NEW in, statusOf(in.event) \in AttemptStatus
  PROVE  /\ AttemptOK(WithResult(x, in)) /\ WithResult(x, in).node = x.node
         /\ WithResult(x, in).status = statusOf(in.event)
<1> DEFINE v == statusOf(in.event)
           y == [x EXCEPT !.status = v, !.outcome = in.outcome,
                          !.evidence = in.evidence, !.used = in.used, !.failure = in.failure]
<1>0. v \in AttemptStatus OBVIOUS
<1> HIDE DEF v
<1>1. IsRecord(y, AttemptFields) BY Zenon DEF AttemptOK, IsRecord
<1>2. y.node = x.node /\ y.no = x.no BY DEF AttemptOK, IsRecord, AttemptFields
<1>3. y.status = v BY DEF AttemptOK, IsRecord, AttemptFields
<1>4. y = WithResult(x, in) BY DEF WithResult, v
<1> HIDE DEF y
<1>5. AttemptOK(y) BY <1>0, <1>1, <1>2, <1>3 DEF AttemptOK
<1> QED BY <1>2, <1>3, <1>4, <1>5 DEF v

LEMMA ApplyFinishSane ==
  ASSUME NEW p, Sane(p), NEW id \in DOMAIN p.attempts,
         p.nodes[p.attempts[id].node].current = id,
         NEW in, statusOf(in.event) # "invalid"
  PROVE  Sane(ApplyFinish(p, id, in).p)
<1> DEFINE a0 == WithResult(p.attempts[id], in)
           t  == RepairTransition(p, id, a0)
           a  == t.a
           n  == a.node
           q  == [t.p EXCEPT !.attempts[id] = a,
                             !.nodes[n] = [p.nodes[n] EXCEPT !.status = a.status],
                             !.usage = [r \in Resources |-> Plus(@[r], in.used[r])],
                             !.idem = IF in.key = NoKey THEN @
                                      ELSE With(@, in.key, transitionPayloadHash(in))]
           s  == OpenShortCircuits(q, a)
           r  == route(s, a, in)
           w  == [r.p EXCEPT !.attempts[id] = p.attempts[id], !.nodes[n] = t.p.nodes[n],
                             !.status = p.status, !.traversals = p.traversals,
                             !.repairs = t.p.repairs, !.idem = p.idem]
<1>1. statusOf(in.event) \in AttemptStatus \ {"running"}
  BY DEF statusOf, AttemptStatus, Closed
<1>2. AttemptOK(p.attempts[id]) /\ p.attempts[id].node \in Nodes
  BY DEF Sane, Typed, AttemptsOK, AttemptOK
<1>3. AttemptOK(a0) /\ a0.node = p.attempts[id].node /\ a0.status = statusOf(in.event)
  BY <1>1, <1>2, ResultOK
<1> HIDE DEF a0
<1>4. /\ Moved(p, t.p) /\ AttemptOK(a)
      /\ n = p.attempts[id].node /\ a.status \in AttemptStatus \ {"running"}
  BY <1>1, <1>3, RepairMoved
<1> HIDE DEF t
<1>5. Sane(q)
  <2> DEFINE z == [p.nodes[n] EXCEPT !.status = a.status]
  <2>1. NodeOK(z) /\ z.current = id /\ z.status = a.status
    <3>1. NodeOK(p.nodes[n]) /\ p.nodes[n].current = id BY <1>2, <1>4 DEF Sane, Typed
    <3>2. a.status \in NodeStatus BY <1>4 DEF NodeStatus
    <3> HIDE DEF a
    <3> QED BY <3>1, <3>2 DEF NodeOK, IsRecord, NodeFields
  <2> HIDE DEF z
  <2>2. \A us, im : Sane([t.p EXCEPT !.attempts[id] = a, !.nodes[n] = z,
                                    !.usage = us, !.idem = im])
    BY ZenonT(40), <1>4, <2>1, CloseSane
  <2> QED BY Zenon, <2>2 DEF z
<1>6. q.nodes[n].status = a.status /\ \A m \in Nodes \ {n} : q.nodes[m] = t.p.nodes[m]
  BY <1>2, <1>4 DEF Moved, Sane, Typed, IsRecord, ProjectionFields, NodeOK, NodeFields
<1>7. q.attempts = [p.attempts EXCEPT ![id] = a]
  BY <1>4 DEF Moved, Typed, IsRecord, ProjectionFields
<1> HIDE DEF q
<1>8. Moved(q, s) /\ Sane(s) BY <1>5, OpenMoved, MovedSane
<1> HIDE DEF s
<1>9. Moved(s, r.p) /\ Sane(r.p)
  <2>1. s.nodes[n].status # "running" BY <1>2, <1>4, <1>6, <1>8 DEF Moved, Calm
  <2> QED BY SMTT(20), <1>4, <1>8, <2>1, RouteMoved, MovedSane
<1> HIDE DEF r
<1>10. Sane(t.p) BY <1>4, MovedSane
<1>11. Moved(p, w)
  <2>1. Moved(q, r.p) BY <1>8, <1>9, MovedTransitive
  <2>2. /\ IsRecord(w, ProjectionFields)
        /\ w.attempts = [r.p.attempts EXCEPT ![id] = p.attempts[id]]
        /\ w.nodes = [r.p.nodes EXCEPT ![n] = t.p.nodes[n]]
        /\ w.status = p.status /\ w.outcome = r.p.outcome
        /\ w.traversals = p.traversals /\ w.repairs = t.p.repairs
    BY Zenon, <1>9 DEF Sane, Typed, IsRecord, ProjectionFields
  <2> HIDE DEF w
  <2>3. w.attempts = p.attempts
    BY <1>7, <2>1, <2>2 DEF Moved, Sane, Typed, AttemptsOK
  <2>4. ASSUME NEW m \in Nodes PROVE Calm(p.nodes[m], w.nodes[m])
    <3>1. CASE m = n BY Zenon, <3>1, <1>4, <1>9, <2>2 DEF Moved, Sane, Typed
    <3>2. CASE m # n
      <4>1. w.nodes[m] = r.p.nodes[m] BY <3>2, <1>9, <2>2 DEF Sane, Typed
      <4>2. Calm(q.nodes[m], w.nodes[m]) BY <2>1, <4>1 DEF Moved
      <4>3. Calm(p.nodes[m], q.nodes[m]) BY <3>2, <1>4, <1>6 DEF Moved
      <4> QED BY <4>2, <4>3 DEF Calm
    <3> QED BY <3>1, <3>2
  <2>5. /\ w.nodes = [m \in Nodes |-> w.nodes[m]]
        /\ \A m \in Nodes : NodeOK(w.nodes[m])
    BY Zenon, <1>9, <2>2, <2>4 DEF Sane, Typed, Calm
  <2>6. Typed(w)
    BY Zenon, <1>9, <1>10, <2>2, <2>3, <2>5 DEF Sane, Typed
  <2> QED BY <2>3, <2>4, <2>6 DEF Moved
<1>12. Sane(w) BY <1>11, MovedSane
<1>13. s = Recorded(p, id, in, t) BY Zenon DEF Recorded, s, q
<1>14. w = Undone(p, id, t, r) BY Zenon DEF Undone
<1> HIDE DEF w
<1>15. Sane(ApplyRepaired(p, id, in, t).p)
  BY Zenon, <1>8, <1>9, <1>10, <1>12, <1>13, <1>14 DEF ApplyRepaired, UndoneUnless, r
<1> QED BY Zenon, <1>15 DEF ApplyFinish, a0, t

LEMMA FinishSane ==
  ASSUME NEW p, Sane(p), NEW id, NEW in PROVE Sane(FinishAttempt(p, id, in).p)
<1>1. CASE /\ id \in DOMAIN p.attempts /\ p.nodes[p.attempts[id].node].current = id
           /\ FinishAdmissible(p, p.attempts[id], in)
  <2>1. statusOf(in.event) # "invalid" BY <1>1 DEF FinishAdmissible
  <2>2. Sane(ApplyFinish(p, id, in).p) BY <1>1, <2>1, ApplyFinishSane
  <2> QED BY <2>2 DEF FinishAttempt
<1>2. CASE ~(/\ id \in DOMAIN p.attempts /\ p.nodes[p.attempts[id].node].current = id
             /\ FinishAdmissible(p, p.attempts[id], in))
  BY <1>2 DEF FinishAttempt
<1> QED BY <1>1, <1>2

(* A change of an attempt that keeps its node, number and status.          *)
LEMMA AttemptUpdate ==
  ASSUME NEW p, Sane(p), NEW id, NEW a,
         id \in DOMAIN p.attempts =>
           /\ AttemptOK(a) /\ a.node = p.attempts[id].node
           /\ a.status = p.attempts[id].status
  PROVE  Sane([p EXCEPT !.attempts[id] = a])
<1> DEFINE q == [p EXCEPT !.attempts[id] = a]
<1>1. /\ IsRecord(q, ProjectionFields) /\ q.attempts = [p.attempts EXCEPT ![id] = a]
      /\ q.nodes = p.nodes /\ q.status = p.status /\ q.outcome = p.outcome
      /\ q.traversals = p.traversals /\ q.repairs = p.repairs
  BY DEF Sane, Typed, IsRecord, ProjectionFields
<1> HIDE DEF q
<1>2. AttemptsOK(q.attempts) BY <1>1 DEF Sane, Typed, AttemptsOK
<1>3. Typed(q) BY <1>1, <1>2 DEF Sane, Typed
<1>4. /\ DOMAIN q.attempts = DOMAIN p.attempts
      /\ \A i \in DOMAIN p.attempts : /\ q.attempts[i].node = p.attempts[i].node
                                      /\ q.attempts[i].status = p.attempts[i].status
  BY SMTT(20), <1>1
<1>5. Flight(q)
  <2>1. Flight(p) BY DEF Sane
  <2>2. \A n \in Nodes : q.nodes[n].current \in DOMAIN q.attempts \cup {0}
    BY <1>1, <1>4, <2>1 DEF Flight
  <2>3. ASSUME NEW i \in DOMAIN q.attempts, q.attempts[i].status = "running"
        PROVE  /\ q.nodes[q.attempts[i].node].status = "running"
               /\ q.nodes[q.attempts[i].node].current = i
    BY <2>3, <1>1, <1>4, <2>1 DEF Flight
  <2>4. ASSUME NEW m \in Nodes, q.nodes[m].status = "running"
        PROVE  LET c == q.nodes[m].current
               IN  /\ c \in DOMAIN q.attempts
                   /\ q.attempts[c].status = "running" /\ q.attempts[c].node = m
    BY <2>4, <1>1, <1>4, <2>1 DEF Flight
  <2> QED BY <2>2, <2>3, <2>4 DEF Flight
<1> QED BY <1>3, <1>5 DEF Sane, q

LEMMA TakeOverSane ==
  ASSUME NEW p, Sane(p), NEW id, NEW t PROVE Sane(TakeOver(p, id, t).p)
<1> DEFINE k == p.attempts[id].token + 1
           a == [p.attempts[id] EXCEPT !.token = k]
           b == [a EXCEPT !.expires = t + LeaseTTL]
           q == [p EXCEPT !.attempts[id].token = k, !.attempts[id].expires = t + LeaseTTL]
<1>1. id \in DOMAIN p.attempts => AttemptOK(p.attempts[id]) BY DEF Sane, Typed, AttemptsOK
<1>2. id \in DOMAIN p.attempts =>
        /\ AttemptOK(a) /\ a.node = p.attempts[id].node /\ a.status = p.attempts[id].status
  BY <1>1 DEF AttemptOK, IsRecord, AttemptFields
<1>3. id \in DOMAIN p.attempts =>
        /\ AttemptOK(b) /\ b.node = p.attempts[id].node /\ b.status = p.attempts[id].status
  <2> HIDE DEF a
  <2> QED BY <1>2 DEF AttemptOK, IsRecord, AttemptFields
<1>4. Sane([p EXCEPT !.attempts[id] = b])
  <2> HIDE DEF b
  <2> QED BY Zenon, <1>3, AttemptUpdate
<1>5. id \in DOMAIN p.attempts => q = [p EXCEPT !.attempts[id] = b]
  BY Zenon DEF Sane, Typed, IsRecord, ProjectionFields
<1> HIDE DEF k, q
<1>6. CASE id \in Running(p)
  <2>1. Sane(q) BY <1>4, <1>5, <1>6 DEF Running
  <2>2. \A in : Sane(FinishAttempt(q, id, in).p) BY <2>1, FinishSane
  <2> QED BY Zenon, <1>6, <2>2 DEF TakeOver, q, k
<1>7. CASE id \notin Running(p) BY <1>7 DEF TakeOver
<1> QED BY <1>6, <1>7

LEMMA RetrySane == ASSUME NEW p, Sane(p), NEW n \in Nodes PROVE Sane(Retry(p, n).p)
<1> DEFINE z == [p.nodes[n] EXCEPT !.status = "ready"]
           q == [p EXCEPT !.nodes[n] = z]
<1>1. CASE p.nodes[n].status \in {"failed", "timed_out"}
  <2>1. Calm(p.nodes[n], z) BY Zenon, <1>1, CalmUpdate DEF Sane, Typed, NodeStatus
  <2>2. Sane(q) BY <2>1, NodeMoved, MovedSane
  <2>3. \A s \in PlanStatus : Sane([q EXCEPT !.status = s])
    <3> HIDE DEF q
    <3> QED BY <2>2, StatusMoved, MovedSane
  <2>4. (IF p.status = "terminal" THEN "running" ELSE p.status) \in PlanStatus
    BY DEF Sane, Typed, PlanStatus
  <2>5. Sane([q EXCEPT !.status = IF p.status = "terminal" THEN "running" ELSE p.status])
    BY Zenon, <2>3, <2>4
  <2>6. Retry(p, n).p = [q EXCEPT !.status = IF p.status = "terminal" THEN "running" ELSE p.status]
    BY <1>1 DEF Retry, Sane, Typed, IsRecord, ProjectionFields
  <2> QED BY <2>5, <2>6
<1>2. CASE p.nodes[n].status \notin {"failed", "timed_out"} BY <1>2 DEF Retry
<1> QED BY <1>1, <1>2

(* Starting attempt id of a node that is not running.                      *)
LEMMA OpenSane ==
  ASSUME NEW p, Sane(p), NEW n \in Nodes, p.nodes[n].status # "running",
         NEW id, id \notin DOMAIN p.attempts,
         NEW a, AttemptOK(a), a.node = n, a.status = "running",
         NEW z, NodeOK(z), z.current = id, z.status = "running",
         NEW f, RepairsOK(f), NEW us
  PROVE  Sane([p EXCEPT !.attempts = With(p.attempts, id, a), !.repairs = f, !.nodes[n] = z,
                        !.status = "running", !.usage = us])
<1> DEFINE q == [p EXCEPT !.attempts = With(p.attempts, id, a), !.repairs = f, !.nodes[n] = z,
                          !.status = "running", !.usage = us]
<1>1. /\ IsRecord(q, ProjectionFields)
      /\ q.attempts = With(p.attempts, id, a) /\ q.repairs = f
      /\ q.nodes = [p.nodes EXCEPT ![n] = z] /\ q.status = "running"
      /\ q.outcome = p.outcome /\ q.traversals = p.traversals
  BY Zenon DEF Sane, Typed, IsRecord, ProjectionFields
<1> HIDE DEF q
<1>2. /\ q.attempts = [i \in DOMAIN q.attempts |-> q.attempts[i]]
      /\ DOMAIN q.attempts = DOMAIN p.attempts \cup {id} /\ q.attempts[id] = a
      /\ \A i \in DOMAIN p.attempts : q.attempts[i] = p.attempts[i]
  BY <1>1 DEF With
<1>3. AttemptsOK(q.attempts) BY <1>2 DEF AttemptsOK, Sane, Typed
<1>4. /\ q.nodes = [m \in Nodes |-> q.nodes[m]]
      /\ q.nodes[n] = z /\ \A m \in Nodes \ {n} : q.nodes[m] = p.nodes[m]
  BY <1>1 DEF Sane, Typed
<1>5. Typed(q)
  <2>1. \A m \in Nodes : NodeOK(q.nodes[m]) BY <1>4 DEF Sane, Typed
  <2>2. q.status \in PlanStatus BY <1>1 DEF PlanStatus
  <2> QED BY <1>1, <1>3, <1>4, <2>1, <2>2 DEF Sane, Typed
<1>6. \A i \in DOMAIN p.attempts : p.attempts[i].node \in Nodes
  BY DEF Sane, Typed, AttemptsOK, AttemptOK
<1>7. Flight(p) BY SMTT(20) DEF Sane
<1>8. Flight(q)
  <2>1. \A m \in Nodes : q.nodes[m].current \in DOMAIN q.attempts \cup {0}
    BY <1>2, <1>4, <1>7 DEF Flight
  <2>2. ASSUME NEW i \in DOMAIN q.attempts, q.attempts[i].status = "running"
        PROVE  /\ q.nodes[q.attempts[i].node].status = "running"
               /\ q.nodes[q.attempts[i].node].current = i
    <3>1. CASE i = id BY <3>1, <1>2, <1>4
    <3>2. CASE i # id
      <4> DEFINE m == p.attempts[i].node
      <4>1. q.attempts[i] = p.attempts[i] /\ i \in DOMAIN p.attempts BY <3>2, <1>2
      <4>2. p.nodes[m].status = "running" /\ p.nodes[m].current = i
        BY <2>2, <4>1, <1>7 DEF Flight
      <4>3. m \in Nodes \ {n} BY <4>1, <4>2, <1>6
      <4> HIDE DEF m
      <4>4. q.nodes[m].status = "running" /\ q.nodes[m].current = i BY <4>2, <4>3, <1>4
      <4> QED BY <4>1, <4>4 DEF m
    <3> QED BY <3>1, <3>2
  <2>3. ASSUME NEW m \in Nodes, q.nodes[m].status = "running"
        PROVE  LET c == q.nodes[m].current
               IN  /\ c \in DOMAIN q.attempts
                   /\ q.attempts[c].status = "running" /\ q.attempts[c].node = m
    <3>1. CASE m = n BY <3>1, <1>2, <1>4
    <3>2. CASE m # n
      <4>1. q.nodes[m] = p.nodes[m] BY <3>2, <1>4
      <4> DEFINE c == p.nodes[m].current
      <4>2. /\ c \in DOMAIN p.attempts
            /\ p.attempts[c].status = "running" /\ p.attempts[c].node = m
        BY <2>3, <4>1, <1>7 DEF Flight
      <4> HIDE DEF c
      <4> QED BY <4>1, <4>2, <1>2 DEF c
    <3> QED BY <3>1, <3>2
  <2> QED BY <2>1, <2>2, <2>3 DEF Flight
<1> QED BY <1>5, <1>8 DEF Sane, q

LEMMA StartSane ==
  ASSUME NEW p, Sane(p), NEW n, NEW id, NEW no \in Nat, NEW token, NEW expires, NEW t
  PROVE  Sane(StartAttempt(p, n, id, no, token, expires, t).p)
<1>1. CASE ~StartAdmissible(p, n, id, no, token, expires, t) BY <1>1 DEF StartAttempt
<1>2. CASE StartAdmissible(p, n, id, no, token, expires, t)
  <2> DEFINE d == repairPlanForDispatch(p, n)
             role == IF NodeDef[n].kind = "repair" THEN "planned" ELSE d.state
             a == [node |-> n, no |-> no, status |-> "running", token |-> token,
                   expires |-> expires, started |-> t, outcome |-> "",
                   evidence |-> {}, used |-> NoUse, failure |-> NoFailure,
                   repair |-> d.id, rstate |-> role, bound |-> FALSE]
             f == CASE d.id # 0 /\ role = "dispatched" ->
                         [p.repairs EXCEPT ![d.id] = [@ EXCEPT !.state = "dispatched", !.target = id]]
                    [] d.id # 0 /\ role = "verifying" ->
                         [p.repairs EXCEPT
                            ![d.id] = [@ EXCEPT !.state = "verifying",
                                         !.verifications = With(p.repairs[d.id].verifications, n, id)]]
                    [] OTHER -> p.repairs
             z == [p.nodes[n] EXCEPT !.status = "running", !.current = id,
                                     !.no = no, !.retryAt = 0, !.edges = {}]
  <2>1. /\ n \in Nodes /\ id \notin DOMAIN p.attempts
        /\ p.nodes[n].status \in {"ready", "failed", "timed_out"}
    BY <1>2 DEF StartAdmissible
  <2>2. AttemptOK(a) /\ a.node = n /\ a.status = "running"
    <3> HIDE DEF d, role
    <3>1. a.node = n /\ a.status = "running" /\ a.no = no OBVIOUS
    <3>2. IsRecord(a, AttemptFields) BY Zenon DEF IsRecord, AttemptFields
    <3> HIDE DEF a
    <3> QED BY <2>1, <3>1, <3>2 DEF AttemptOK, AttemptStatus
  <2>3. NodeOK(z) /\ z.current = id /\ z.status = "running"
    <3>1. NodeOK(p.nodes[n]) BY <2>1 DEF Sane, Typed
    <3>2. IsRecord(z, NodeFields) BY Zenon, <3>1 DEF NodeOK, IsRecord
    <3>3. z.current = id /\ z.status = "running" /\ z.no = no
      BY <3>1 DEF NodeOK, IsRecord, NodeFields
    <3> HIDE DEF z
    <3> QED BY <3>2, <3>3 DEF NodeOK, NodeStatus, AttemptStatus
  <2>4. RepairsOK(f)
    <3>1. RepairsOK(p.repairs) BY DEF Sane, Typed
    <3> HIDE DEF d, role
    <3>2. \A v : /\ d.id \in DOMAIN p.repairs =>
                      RepairOK([p.repairs[d.id] EXCEPT !.state = "dispatched", !.target = id])
                 /\ d.id \in DOMAIN p.repairs =>
                      RepairOK([p.repairs[d.id] EXCEPT !.state = "verifying", !.verifications = v])
      BY Zenon, <3>1, RepairFieldsUpdate DEF RepairsOK, RepairLifecycle
    <3>3. RepairsOK([p.repairs EXCEPT ![d.id] = [@ EXCEPT !.state = "dispatched", !.target = id]])
      BY Zenon, <3>1, <3>2, RepairsUpdate
    <3>4. RepairsOK([p.repairs EXCEPT
                       ![d.id] = [@ EXCEPT !.state = "verifying",
                                    !.verifications = With(p.repairs[d.id].verifications, n, id)]])
      BY Zenon, <3>1, <3>2, RepairsUpdate
    <3> QED BY <3>1, <3>3, <3>4
  <2> HIDE DEF a, f, z
  <2>5. \A us : Sane([p EXCEPT !.attempts = With(p.attempts, id, a), !.repairs = f,
                               !.nodes[n] = z, !.status = "running", !.usage = us])
    BY Zenon, <2>1, <2>2, <2>3, <2>4, OpenSane
  <2>6. StartAttempt(p, n, id, no, token, expires, t).p
        = [p EXCEPT !.attempts = With(p.attempts, id, a), !.repairs = f, !.nodes[n] = z,
                    !.status = "running", !.usage["tokens"] = Plus(@, TokenEstimate)]
    BY <1>2 DEF StartAttempt, WithAttempt, a, f, z
  <2>7. \E us : [p EXCEPT !.attempts = With(p.attempts, id, a), !.repairs = f, !.nodes[n] = z,
                          !.status = "running", !.usage["tokens"] = Plus(@, TokenEstimate)]
                = [p EXCEPT !.attempts = With(p.attempts, id, a), !.repairs = f, !.nodes[n] = z,
                            !.status = "running", !.usage = us]
    BY Zenon
  <2>8. PICK us : StartAttempt(p, n, id, no, token, expires, t).p
                  = [p EXCEPT !.attempts = With(p.attempts, id, a), !.repairs = f, !.nodes[n] = z,
                              !.status = "running", !.usage = us]
    BY Zenon, <2>6, <2>7
  <2> QED BY Zenon, <2>5, <2>8
<1> QED BY <1>1, <1>2
=============================================================================
