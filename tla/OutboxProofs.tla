----------------------------- MODULE OutboxProofs -----------------------------
(***************************************************************************)
(* For every set of intents and workers, with any crashes and failed       *)
(* writes: no two workers deliver an intent under leases that are both     *)
(* good.  OneLiveDelivery only speaks of the workers; it is inductive      *)
(* together with Matches, which ties what a worker believes to the record. *)
(***************************************************************************)
EXTENDS Outbox, TLAPS

Records == [status : {"pending", "leased", "acked", "failed"}, owner : {Owner[w] : w \in Workers} \cup {""},
            left : Nat, attempts : Nat]
WorkerStates == [phase : {"idle", "chosen", "claim", "deliver", "record", "settle"},
                 id : Intents \cup {0}, left : Nat, err : BOOLEAN, claimed : Nat]

Types ==
  /\ DOMAIN outbox \subseteq Intents
  /\ outbox \in [DOMAIN outbox -> Records]
  /\ worker \in [Workers -> WorkerStates]

(* A worker whose lease is good is the one that the record names.          *)
Matches ==
  \A w \in Workers : worker[w].left > 0 =>
    /\ worker[w].id \in DOMAIN outbox
    /\ outbox[worker[w].id].status = "leased"
    /\ outbox[worker[w].id].owner = Owner[w]
    /\ outbox[worker[w].id].left = worker[w].left

(* The intent that a worker works on has a record.                         *)
Known == \A w \in Workers : worker[w].phase \in {"idle", "claim"} \/ worker[w].id \in DOMAIN outbox

IInv == Types /\ Known /\ Matches

(* A step that takes worker w to v and changes no record.                  *)
LEMMA WorkerStep ==
  ASSUME IInv, NEW w \in Workers, NEW v \in WorkerStates, Become(w, v), UNCHANGED outbox,
         v.phase \in {"idle", "claim"} \/ v.id \in DOMAIN outbox,
         v.left = 0 \/ (v.left = worker[w].left /\ v.id = worker[w].id)
  PROVE  IInv'
<1>1. worker' \in [Workers -> WorkerStates] /\ \A u \in Workers : worker'[u] = IF u = w THEN v ELSE worker[u]
  BY DEF IInv, Types, Become
<1>2. Types'
  BY <1>1 DEF IInv, Types
<1>3. Known'
  BY <1>1 DEF IInv, Known
<1>4. Matches'
  BY <1>1 DEF IInv, Matches, Types
<1> QED
  BY <1>2, <1>3, <1>4 DEF IInv

LEMMA IdleIsState == Idle \in WorkerStates /\ Idle.left = 0 /\ Idle.phase = "idle"
BY DEF Idle, WorkerStates

(* A claim: nobody held a good lease on the record.                        *)
LEMMA ClaimStep ==
  ASSUME IInv, NEW w \in Workers, NEW i \in Intents, Claimable(i), Claim(w, i), Claimed(w, i)
  PROVE  IInv'
<1>1. TTL(w) \in Nat \ {0}
  BY OutboxAssumption DEF TTL
<1>2. /\ i \in DOMAIN outbox
      /\ DOMAIN outbox' = DOMAIN outbox
      /\ outbox'[i] = [status |-> "leased", owner |-> Owner[w], left |-> TTL(w), attempts |-> outbox[i].attempts + 1]
      /\ \A j \in DOMAIN outbox : j # i => outbox'[j] = outbox[j]
      /\ outbox' = [j \in DOMAIN outbox |-> outbox'[j]]
  BY DEF IInv, Types, Claimable, Claim
<1> DEFINE c == [worker[w] EXCEPT !.phase = "deliver", !.id = i, !.left = TTL(w), !.claimed = @ + 1]
<1>3. worker' = [worker EXCEPT ![w] = c] /\ worker[w] \in WorkerStates
  BY DEF IInv, Types, Claimed, Become
<1>a. worker[w].claimed + 1 \in Nat
  BY <1>3 DEF WorkerStates
<1>b. c \in WorkerStates
  <2> HIDE DEF TTL
  <2> QED BY <1>1, <1>3, <1>a, Zenon DEF WorkerStates
<1>c. c.id = i /\ c.left = TTL(w)
  BY <1>3 DEF WorkerStates
<1>4. /\ worker'[w].id = i /\ worker'[w].left = TTL(w)
      /\ \A u \in Workers : u # w => worker'[u] = worker[u]
      /\ worker' \in [Workers -> WorkerStates]
  <2> HIDE DEF c
  <2> QED BY <1>3, <1>b, <1>c DEF IInv, Types
<1>5. outbox[i].attempts \in Nat
  BY <1>2 DEF IInv, Types, Records
<1>6. outbox'[i] \in Records
  <2>1. Owner[w] \in {Owner[u] : u \in Workers} /\ outbox[i].attempts + 1 \in Nat
    BY <1>5
  <2>2. "leased" \in {"pending", "leased", "acked", "failed"} /\ TTL(w) \in Nat
           /\ Owner[w] \in {Owner[u] : u \in Workers} \cup {""}
    BY <1>1, <2>1
  <2> HIDE DEF TTL
  <2>3. [status |-> "leased", owner |-> Owner[w], left |-> TTL(w), attempts |-> outbox[i].attempts + 1] \in Records
    BY <2>1, <2>2 DEF Records
  <2> QED BY <1>2, <2>3
<1>7. \A j \in DOMAIN outbox : outbox'[j] \in Records
  BY <1>2, <1>6 DEF IInv, Types
<1>8. Types'
  BY <1>2, <1>4, <1>7 DEF IInv, Types
<1>9. \A u \in Workers : (u # w /\ worker[u].left > 0) => worker[u].id # i
  BY DEF IInv, Matches, Claimable, Leased
<1>10. Matches'
  BY <1>2, <1>4, <1>9 DEF IInv, Matches
<1>11. Known'
  BY <1>2, <1>4 DEF IInv, Known
<1> QED
  BY <1>8, <1>10, <1>11 DEF IInv

(* A record is released by the worker that held it, whose lease ends.      *)
LEMMA ReleaseStep ==
  ASSUME IInv, NEW w \in Workers, NEW i \in Intents, NEW status \in {"pending", "acked", "failed"},
         i \in DOMAIN outbox, Held(i, Owner[w]), Release(i, status),
         NEW v \in WorkerStates, Become(w, v), v.left = 0, v.phase \in {"idle", "claim"}
  PROVE  IInv'
<1>1. /\ DOMAIN outbox' = DOMAIN outbox
      /\ outbox' = [outbox EXCEPT ![i] = [outbox[i] EXCEPT !.status = status, !.owner = "", !.left = 0]]
      /\ outbox[i] \in Records
      /\ \A j \in DOMAIN outbox : j # i => outbox'[j] = outbox[j]
  BY DEF IInv, Types, Release
<1>2. [outbox[i] EXCEPT !.status = status, !.owner = "", !.left = 0] \in Records
  BY <1>1 DEF Records
<1>3. worker' \in [Workers -> WorkerStates] /\ \A u \in Workers : worker'[u] = IF u = w THEN v ELSE worker[u]
  BY DEF IInv, Types, Become
<1>4. Types'
  BY <1>1, <1>2, <1>3 DEF IInv, Types
<1>5. \A u \in Workers : (u # w /\ worker[u].left > 0) => worker[u].id # i
  BY OwnersDiffer DEF IInv, Matches, Held
<1>6. ASSUME NEW u \in Workers, worker'[u].left > 0
      PROVE  u # w /\ worker'[u] = worker[u] /\ worker[u].id # i
  BY <1>3, <1>5, <1>6
<1>7. ASSUME NEW u \in Workers, worker'[u].left > 0
      PROVE  worker'[u].id \in DOMAIN outbox' /\ outbox'[worker'[u].id] = outbox[worker[u].id]
               /\ worker'[u] = worker[u]
  BY <1>1, <1>6, <1>7 DEF IInv, Matches
<1>8. Matches'
  BY <1>7 DEF IInv, Matches
<1>9. Known'
  BY <1>1, <1>3 DEF IInv, Known
<1> QED
  BY <1>4, <1>8, <1>9 DEF IInv

(* Claims of the three kinds of workers.                                   *)
LEMMA ByIDStep ==
  ASSUME IInv, NEW w \in Workers, NEW i \in Intents, ClaimOutboxByID(w, i)
  PROVE  IInv'
<1>1. PICK written \in Writes :
        IF Claimable(i) /\ written THEN Claim(w, i) /\ Claimed(w, i)
        ELSE UNCHANGED outbox /\ Become(w, Idle)
  BY DEF ClaimOutboxByID
<1>2. CASE Claimable(i) /\ written
  BY <1>1, <1>2, ClaimStep
<1>3. CASE ~(Claimable(i) /\ written)
  BY <1>1, <1>3, IdleIsState, WorkerStep
<1> QED
  BY <1>2, <1>3

LEMMA EnqueueStep ==
  ASSUME IInv, NEW w \in Workers, NEW i \in Intents, Enqueue(w, i)
  PROVE  IInv'
<1> DEFINE new == [status |-> "pending", owner |-> "", left |-> 0, attempts |-> 0]
           chosen == [Idle EXCEPT !.phase = "chosen", !.id = i]
<1>1. chosen \in WorkerStates /\ chosen.left = 0 /\ chosen.id = i /\ new \in Records
  BY DEF Idle, WorkerStates, Records
<1>2. PICK written \in Writes :
        EnqueueOutbox(i, written) /\ Become(w, IF written THEN chosen ELSE Idle) /\ i \notin DOMAIN outbox
  BY DEF Enqueue
<1> HIDE DEF new, chosen
<1>3. CASE ~written
  BY <1>2, <1>3, IdleIsState, WorkerStep DEF EnqueueOutbox
<1>4. CASE written
  <2>1. /\ DOMAIN outbox' = DOMAIN outbox \cup {i}
        /\ outbox' = [j \in DOMAIN outbox \cup {i} |-> IF j = i THEN new ELSE outbox[j]]
        /\ \A j \in DOMAIN outbox : outbox'[j] = outbox[j]
    BY <1>2, <1>4 DEF EnqueueOutbox, new
  <2>2. worker' \in [Workers -> WorkerStates] /\ \A u \in Workers : worker'[u] = IF u = w THEN chosen ELSE worker[u]
    BY <1>1, <1>2, <1>4 DEF IInv, Types, Become
  <2>3. Types'
    BY <1>1, <2>1, <2>2 DEF IInv, Types
  <2>4. Known'
    BY <1>1, <2>1, <2>2 DEF IInv, Known
  <2>5. Matches'
    BY <1>1, <2>1, <2>2 DEF IInv, Matches
  <2> QED
    BY <2>3, <2>4, <2>5 DEF IInv
<1> QED
  BY <1>3, <1>4

LEMMA ClockStep ==
  ASSUME IInv, Clock
  PROVE  IInv'
<1>1. /\ DOMAIN outbox' = DOMAIN outbox
      /\ outbox' = [i \in DOMAIN outbox |-> [outbox[i] EXCEPT !.left = Less(outbox[i].left)]]
      /\ worker' = [w \in Workers |-> [worker[w] EXCEPT !.left = Less(worker[w].left)]]
  BY DEF Clock
<1>2. ASSUME NEW i \in DOMAIN outbox
      PROVE  /\ outbox'[i] \in Records
             /\ outbox'[i].status = outbox[i].status /\ outbox'[i].owner = outbox[i].owner
             /\ outbox'[i].left = Less(outbox[i].left)
  <2>a. outbox[i] \in Records
    BY <1>2 DEF IInv, Types
  <2>b. outbox[i].left \in Nat
    BY <2>a DEF Records
  <2>1. outbox[i] \in Records /\ Less(outbox[i].left) \in Nat
    BY <2>a, <2>b DEF Less
  <2> QED
    BY <1>1, <2>1, Zenon DEF Records
<1>3. ASSUME NEW w \in Workers
      PROVE  /\ worker'[w].id = worker[w].id /\ worker'[w].phase = worker[w].phase
             /\ worker'[w].left = Less(worker[w].left) /\ worker[w].left \in Nat
             /\ worker'[w] \in WorkerStates
  <2>1. worker[w] \in WorkerStates /\ Less(worker[w].left) \in Nat /\ worker[w].left \in Nat
    BY <1>3 DEF IInv, Types, WorkerStates, Less
  <2> QED
    BY <1>1, <2>1, Zenon DEF WorkerStates
<1>4. Types'
  BY <1>1, <1>2, <1>3 DEF IInv, Types
<1>5. Known'
  BY <1>1, <1>3 DEF IInv, Known
<1>6. ASSUME NEW w \in Workers, worker'[w].left > 0
      PROVE  worker[w].left > 0
  BY <1>3, <1>6 DEF Less
<1>7. Matches'
  BY <1>1, <1>2, <1>3, <1>6 DEF IInv, Matches
<1> QED
  BY <1>4, <1>5, <1>7 DEF IInv

(* The steps that end a worker's use of an intent.                         *)
LEMMA SettleStep ==
  ASSUME IInv, NEW w \in Workers, Settle(w) \/ Reject(w)
  PROVE  IInv'
<1> DEFINE i == worker[w].id
           after == [worker[w] EXCEPT !.phase = "claim", !.left = 0]
<1>1. /\ i \in DOMAIN outbox /\ i \in Intents
      /\ after \in WorkerStates /\ after.left = 0 /\ after.phase = "claim"
  <2>1. worker[w] \in WorkerStates /\ AtPhase(w, "settle")
    BY DEF IInv, Types, Settle, Reject
  <2>2. i \in DOMAIN outbox /\ i \in Intents
    BY <2>1 DEF IInv, Types, Known, AtPhase
  <2>3. after \in WorkerStates /\ after.left = 0 /\ after.phase = "claim"
    BY <2>1, Zenon DEF WorkerStates
  <2> QED BY <2>2, <2>3
<1>2. PICK v \in {Idle, after}, status \in {"pending", "acked", "failed"} :
        Become(w, v) /\ (UNCHANGED outbox \/ (Held(i, Owner[w]) /\ Release(i, status)))
  <2>1. CASE Settle(w)
    BY <2>1 DEF Settle, AckOutbox, AckStatus, AfterSettling
  <2>2. CASE Reject(w)
    BY <2>2 DEF Reject, FailOutbox
  <2> QED BY <2>1, <2>2
<1> HIDE DEF i, after
<1>3. v \in WorkerStates /\ v.left = 0 /\ v.phase \in {"idle", "claim"}
  BY <1>1, <1>2, IdleIsState
<1>4. CASE UNCHANGED outbox
  BY <1>2, <1>3, <1>4, WorkerStep
<1>5. CASE Held(i, Owner[w]) /\ Release(i, status)
  BY <1>1, <1>2, <1>3, <1>5, ReleaseStep
<1> QED
  BY <1>2, <1>4, <1>5

(* A worker goes on without touching a record.                             *)
LEMMA ProgressStep ==
  ASSUME IInv, NEW w \in Workers,
         \/ \E i \in Intents : Recover(w, i)
         \/ BeginDrain(w) \/ (\E ok \in BOOLEAN : Deliver(w, ok)) \/ Record(w) \/ Crash(w)
  PROVE  IInv'
<1>1. CASE \E i \in Intents : Recover(w, i)
  <2>1. PICK i \in Intents : Recover(w, i)
    BY <1>1
  <2> DEFINE v == [Idle EXCEPT !.phase = "chosen", !.id = i]
  <2>2. v \in WorkerStates /\ v.left = 0 /\ v.id = i
    BY DEF Idle, WorkerStates
  <2>3. i \in DOMAIN outbox /\ UNCHANGED outbox /\ Become(w, v)
    BY <2>1 DEF Recover
  <2> HIDE DEF v
  <2> QED BY <2>2, <2>3, WorkerStep
<1>2. CASE BeginDrain(w)
  <2> DEFINE v == [Idle EXCEPT !.phase = "claim"]
  <2>1. v \in WorkerStates /\ v.left = 0 /\ v.phase = "claim"
    BY DEF Idle, WorkerStates
  <2>2. UNCHANGED outbox /\ Become(w, v)
    BY <1>2 DEF BeginDrain
  <2> HIDE DEF v
  <2> QED BY <2>1, <2>2, WorkerStep
<1>3. CASE \E ok \in BOOLEAN : Deliver(w, ok)
  <2>1. PICK ok \in BOOLEAN : Deliver(w, ok)
    BY <1>3
  <2> DEFINE v == [worker[w] EXCEPT !.phase = "record", !.err = ~ok]
  <2>2. worker[w] \in WorkerStates /\ worker[w].id \in DOMAIN outbox /\ UNCHANGED outbox /\ Become(w, v)
    BY <2>1 DEF Deliver, AtPhase, IInv, Types, Known
  <2>3. (~ok) \in BOOLEAN
    OBVIOUS
  <2>4. v \in WorkerStates /\ v.left = worker[w].left /\ v.id = worker[w].id
    BY <2>2, <2>3, Zenon DEF WorkerStates
  <2> HIDE DEF v
  <2> QED BY <2>2, <2>4, WorkerStep
<1>4. CASE Record(w)
  <2> DEFINE v == [worker[w] EXCEPT !.phase = "settle"]
  <2>1. worker[w] \in WorkerStates /\ worker[w].id \in DOMAIN outbox /\ UNCHANGED outbox
    BY <1>4 DEF Record, AtPhase, IInv, Types, Known
  <2>2. Become(w, v) \/ Become(w, Idle)
    BY <1>4 DEF Record
  <2>3. v \in WorkerStates /\ v.left = worker[w].left /\ v.id = worker[w].id
    BY <2>1, Zenon DEF WorkerStates
  <2> HIDE DEF v
  <2>4. CASE Become(w, v)
    BY <2>1, <2>3, <2>4, WorkerStep
  <2>5. CASE Become(w, Idle)
    BY <2>1, <2>5, IdleIsState, WorkerStep
  <2> QED BY <2>2, <2>4, <2>5
<1>5. CASE Crash(w)
  BY <1>5, IdleIsState, WorkerStep DEF Crash
<1> QED
  BY <1>1, <1>2, <1>3, <1>4, <1>5

LEMMA DrainStep ==
  ASSUME IInv, NEW w \in Workers, DrainNext(w)
  PROVE  IInv'
<1>1. CASE UNCHANGED outbox /\ Become(w, Idle)
  BY <1>1, IdleIsState, WorkerStep
<1>2. CASE \E i \in Candidates : Claim(w, i) /\ Claimed(w, i)
  BY <1>2, ClaimStep DEF Candidates, IInv, Types
<1> QED
  BY <1>1, <1>2 DEF DrainNext

LEMMA OutboxStep == IInv /\ [Next]_vars => IInv'
<1> SUFFICES ASSUME IInv, [Next]_vars PROVE IInv'
  OBVIOUS
<1>1. CASE Clock
  BY <1>1, ClockStep
<1>2. ASSUME NEW w \in Workers, Work(w) \/ Crash(w) PROVE IInv'
  <2>1. CASE \E i \in Intents : Enqueue(w, i)
    BY <2>1, EnqueueStep
  <2>2. CASE ClaimChosen(w)
    <3>1. worker[w].id \in Intents /\ ClaimOutboxByID(w, worker[w].id)
      BY <2>2 DEF ClaimChosen, AtPhase, IInv, Types, Known
    <3> QED BY <3>1, ByIDStep
  <2>3. CASE DrainNext(w)
    BY <2>3, DrainStep
  <2>4. CASE Settle(w) \/ Reject(w)
    BY <2>4, SettleStep
  <2>5. CASE \/ \E i \in Intents : Recover(w, i)
             \/ BeginDrain(w) \/ (\E ok \in BOOLEAN : Deliver(w, ok)) \/ Record(w) \/ Crash(w)
    BY <2>5, ProgressStep
  <2> QED
    BY <1>2, <2>1, <2>2, <2>3, <2>4, <2>5 DEF Work
<1>3. CASE UNCHANGED vars
  BY <1>3 DEF vars, IInv, Types, Known, Matches
<1> QED
  BY <1>1, <1>2, <1>3 DEF Next

(* Whatever crashes, late answers and failed writes there are, an intent   *)
(* is never delivered by two workers whose leases, handed out by           *)
(* ClaimOutbox and ClaimOutboxByID, are both still good.                   *)
THEOREM DeliveriesAreExclusive == Spec => []OneLiveDelivery
<1>1. Init => IInv
  <2> SUFFICES ASSUME Init PROVE IInv
    OBVIOUS
  <2>1. DOMAIN outbox = {} /\ outbox \in [{} -> Records]
    BY DEF Init
  <2>2. worker \in [Workers -> WorkerStates] /\ \A w \in Workers : worker[w] = Idle
    BY IdleIsState DEF Init
  <2> QED
    BY <2>1, <2>2, IdleIsState DEF IInv, Types, Known, Matches
<1>2. IInv => OneLiveDelivery
  BY OwnersDiffer DEF IInv, Matches, OneLiveDelivery, Delivering
<1> QED
  BY <1>1, <1>2, OutboxStep, PTL DEF Spec
=============================================================================
