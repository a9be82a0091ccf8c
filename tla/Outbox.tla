-------------------------------- MODULE Outbox --------------------------------
(***************************************************************************)
(* The delivery outbox of one plan (EnqueueOutbox ... FailOutbox in        *)
(* repository.go) and the workers that use it:                             *)
(*   "executor"  dispatchReady: enqueues an intent and claims it by ID;    *)
(*   "recovery"  recoverUnboundAttempt: claims an intent by ID;            *)
(*   "drain"     OutboxDispatcher.Drain: claims the next intent, in a loop.*)
(* A worker delivers the intent it claimed, which takes time, and settles  *)
(* it afterwards.  Each call runs under the repository's lock, so it is    *)
(* one step.  Time is kept as what is left of each lease, so that it has   *)
(* no end.  An operator X_slip is X with a plausible mistake; nothing      *)
(* refers to it.                                                           *)
(*                                                                         *)
(* outbox     intent -> OutboxRecord, for the intents that were enqueued;  *)
(*            left is LeaseExpiresAt - now                                 *)
(* lease      intent -> what is left of the lease of its attempt while the *)
(*            attempt is running and unbound, 0 otherwise                  *)
(* worker     worker -> [phase, id, left, err, claimed]: the intent it     *)
(*            works on, what is left of the lease it was given, whether    *)
(*            the delivery failed, how many intents this Drain has claimed *)
(* delivered  the intents whose side effect has happened                   *)
(***************************************************************************)
EXTENDS Integers

CONSTANTS
  Intents,       \* outbox IDs: numbers, in creation order
  Workers,
  Role,          \* [Workers -> {"executor", "recovery", "drain"}]
  Owner,         \* [Workers -> lease owner]
  MaxAttempts,   \* OutboxRecord.MaxAttempts, DefaultOutboxMaxAttempts
  MaxBatch,      \* OutboxDispatcher.MaxBatch
  ClaimTTL,      \* the lease that the executor and Drain take
  AttemptTTL,    \* leaseTTL(node): the attempt's lease, and the one that recovery takes
  Faults         \* the faults that occur: a subset of {"crash", "write"}

ASSUME OutboxAssumption ==
  /\ Intents \subseteq Nat \ {0}
  /\ {ClaimTTL, AttemptTTL, MaxAttempts, MaxBatch} \subseteq Nat \ {0}
  /\ Role \in [Workers -> {"executor", "recovery", "drain"}]

(* Workers that run at the same time lease under different names.          *)
ASSUME OwnersDiffer == \A v, w \in Workers : Owner[v] = Owner[w] => v = w

VARIABLES outbox, lease, worker, delivered
vars == <<outbox, lease, worker, delivered>>

Settled == {"acked", "failed"}
Idle == [phase |-> "idle", id |-> 0, left |-> 0, err |-> FALSE, claimed |-> 0]

Init ==
  /\ outbox = [i \in {} |-> 0]
  /\ lease = [i \in Intents |-> 0]
  /\ worker = [w \in Workers |-> Idle]
  /\ delivered = {}

Become(w, v) == worker' = [worker EXCEPT ![w] = v]
AtPhase(w, phase) == worker[w].phase = phase

(* Whether persistLocked succeeds; if it does not, the call is undone.     *)
Writes == IF "write" \in Faults THEN BOOLEAN ELSE {TRUE}

-----------------------------------------------------------------------------
(* The store.                                                              *)

EnqueueOutbox(i, written) ==
  outbox' = IF i \in DOMAIN outbox \/ ~written THEN outbox
            ELSE [j \in DOMAIN outbox \cup {i} |->
                    IF j = i THEN [status |-> "pending", owner |-> "", left |-> 0, attempts |-> 0]
                    ELSE outbox[j]]

(* A lease that has not run out.  The slip takes it to end one tick early. *)
Leased_slip(i) == outbox[i].status = "leased" /\ outbox[i].left > 1
Leased(i) == outbox[i].status = "leased" /\ outbox[i].left > 0

(* claimOutboxLocked.                                                      *)
Claimable(i) == i \in DOMAIN outbox /\ outbox[i].status \notin Settled /\ ~Leased(i)
TTL(w) == IF Role[w] = "recovery" THEN AttemptTTL ELSE ClaimTTL
Claim(w, i) ==
  outbox' = [outbox EXCEPT ![i] = [status |-> "leased", owner |-> Owner[w], left |-> TTL(w),
                                   attempts |-> @.attempts + 1]]

(* The records that ClaimOutbox chooses from; it takes the oldest, which   *)
(* has the smallest ID too, as IDs are made from the clock.                *)
Candidates == {i \in DOMAIN outbox : Claimable(i) /\ outbox[i].attempts < MaxAttempts}
Oldest(i) == \A j \in Candidates : i <= j

Release(i, status) ==
  outbox' = [outbox EXCEPT ![i] = [@ EXCEPT !.status = status, !.owner = "", !.left = 0]]

(* The check of AckOutbox and FailOutbox.                                  *)
Held(i, owner) == Leased(i) /\ outbox[i].owner = owner

(* AckOutbox.  The slip takes a delivery that failed for the last time as  *)
(* done.                                                                   *)
AckStatus_slip(i, err) == IF err /\ outbox[i].attempts < MaxAttempts THEN "pending" ELSE "acked"
AckStatus(i, err) ==
  IF ~err THEN "acked" ELSE IF outbox[i].attempts >= MaxAttempts THEN "failed" ELSE "pending"
AckOutbox(i, owner, err, written) ==
  IF Held(i, owner) /\ written THEN Release(i, AckStatus(i, err)) ELSE UNCHANGED outbox

FailOutbox(i, owner, written) ==
  IF Held(i, owner) /\ written THEN Release(i, "failed") ELSE UNCHANGED outbox

-----------------------------------------------------------------------------
(* The workers.                                                            *)

(* The worker holds the lease of i.                                        *)
Claimed(w, i) ==
  Become(w, [worker[w] EXCEPT !.phase = "deliver", !.id = i, !.left = TTL(w), !.claimed = @ + 1])

(* ClaimOutboxByID does not look at the number of attempts.                *)
ClaimOutboxByID(w, i) ==
  \E written \in Writes :
    IF Claimable(i) /\ written THEN Claim(w, i) /\ Claimed(w, i)
    ELSE UNCHANGED outbox /\ Become(w, Idle)

(* dispatchReady enqueues the intent of the attempt it has just started.   *)
Enqueue(w, i) ==
  /\ Role[w] = "executor" /\ AtPhase(w, "idle")
  /\ i \notin DOMAIN outbox
  /\ \E written \in Writes :
       /\ EnqueueOutbox(i, written)
       /\ lease' = IF written THEN [lease EXCEPT ![i] = AttemptTTL] ELSE lease
       /\ Become(w, IF written THEN [Idle EXCEPT !.phase = "chosen", !.id = i] ELSE Idle)
  /\ UNCHANGED delivered

(* recoverUnboundAttempt for an attempt whose lease has not run out and    *)
(* whose intent is not settled.                                            *)
Recover(w, i) ==
  /\ Role[w] = "recovery" /\ AtPhase(w, "idle")
  /\ lease[i] > 0
  /\ i \in DOMAIN outbox /\ outbox[i].status \notin Settled
  /\ Become(w, [Idle EXCEPT !.phase = "chosen", !.id = i])
  /\ UNCHANGED <<outbox, lease, delivered>>

(* Both claim the intent by ID, and by then another worker may have it.    *)
ClaimChosen(w) ==
  /\ AtPhase(w, "chosen")
  /\ ClaimOutboxByID(w, worker[w].id)
  /\ UNCHANGED <<lease, delivered>>

BeginDrain(w) ==
  /\ Role[w] = "drain" /\ AtPhase(w, "idle")
  /\ Become(w, [Idle EXCEPT !.phase = "claim"])
  /\ UNCHANGED <<outbox, lease, delivered>>

(* One iteration of Drain: the batch is full, nothing is left, or the      *)
(* oldest candidate is claimed.                                            *)
DrainNext(w) ==
  /\ AtPhase(w, "claim")
  /\ \E written \in Writes :
       IF worker[w].claimed = MaxBatch \/ Candidates = {} \/ ~written
       THEN UNCHANGED outbox /\ Become(w, Idle)
       ELSE \E i \in Candidates : Oldest(i) /\ Claim(w, i) /\ Claimed(w, i)
  /\ UNCHANGED <<lease, delivered>>

(* The side effect happens, or the delivery fails.                         *)
Deliver(w, ok) ==
  /\ AtPhase(w, "deliver")
  /\ delivered' = IF ok THEN delivered \cup {worker[w].id} ELSE delivered
  /\ Become(w, [worker[w] EXCEPT !.phase = "record", !.err = ~ok])
  /\ UNCHANGED <<outbox, lease>>

(* The executor and recovery commit attempt.bound after a delivery; the    *)
(* executor finishes the attempt after a failed one.  If that is not       *)
(* written they return without settling the intent.                        *)
Record(w) ==
  /\ AtPhase(w, "record")
  /\ LET records == Role[w] = "executor" \/ (Role[w] = "recovery" /\ ~worker[w].err)
     IN  \E written \in (IF records THEN Writes ELSE {TRUE}) :
           /\ lease' = IF records /\ written THEN [lease EXCEPT ![worker[w].id] = 0] ELSE lease
           /\ Become(w, IF written THEN [worker[w] EXCEPT !.phase = "settle"] ELSE Idle)
  /\ UNCHANGED <<outbox, delivered>>

(* Drain goes on after an acknowledgement that was accepted.               *)
AfterSettling(w, written) ==
  IF Role[w] = "drain" /\ Held(worker[w].id, Owner[w]) /\ written
  THEN [worker[w] EXCEPT !.phase = "claim", !.left = 0] ELSE Idle

Settle(w) ==
  /\ AtPhase(w, "settle")
  /\ \E written \in Writes :
       /\ AckOutbox(worker[w].id, Owner[w], worker[w].err, written)
       /\ Become(w, AfterSettling(w, written))
  /\ UNCHANGED <<lease, delivered>>

(* A worker that knows that no retry can succeed.                          *)
Reject(w) ==
  /\ AtPhase(w, "settle") /\ worker[w].err
  /\ \E written \in Writes : FailOutbox(worker[w].id, Owner[w], written)
  /\ Become(w, Idle)
  /\ UNCHANGED <<lease, delivered>>

Crash(w) ==
  /\ "crash" \in Faults /\ ~AtPhase(w, "idle")
  /\ Become(w, Idle)
  /\ UNCHANGED <<outbox, lease, delivered>>

Less(n) == IF n > 0 THEN n - 1 ELSE 0

Clock ==
  /\ outbox' = [i \in DOMAIN outbox |-> [outbox[i] EXCEPT !.left = Less(@)]]
  /\ lease' = [i \in Intents |-> Less(lease[i])]
  /\ worker' = [w \in Workers |-> [worker[w] EXCEPT !.left = Less(@)]]
  /\ UNCHANGED delivered

Work(w) ==
  \/ \E i \in Intents : Enqueue(w, i) \/ Recover(w, i)
  \/ ClaimChosen(w) \/ BeginDrain(w) \/ DrainNext(w)
  \/ \E ok \in BOOLEAN : Deliver(w, ok)
  \/ Record(w) \/ Settle(w) \/ Reject(w)

Next == Clock \/ \E w \in Workers : Work(w) \/ Crash(w)

Spec == Init /\ [][Next]_vars

(* Time passes, and every worker goes on with what it does.                *)
Fairness == WF_vars(Clock) /\ \A w \in Workers : WF_vars(Work(w))
LiveSpec == Spec /\ Fairness

-----------------------------------------------------------------------------
(* Properties.                                                             *)

Delivering(w, i) == worker[w].phase \in {"deliver", "record", "settle"} /\ worker[w].id = i

(* Two workers that deliver the same intent at the same time do not both   *)
(* hold a lease that is still good: claims by ID, claims of the next       *)
(* intent, late acknowledgements and expiry never hand out two.            *)
OneLiveDelivery ==
  \A i \in Intents : \A v, w \in Workers :
    (Delivering(v, i) /\ Delivering(w, i) /\ worker[v].left > 0 /\ worker[w].left > 0) => v = w

(* An intent is acknowledged only if its side effect has happened,         *)
(* whichever of several workers delivered it and whoever answered late.    *)
AckedIsDelivered == \A i \in DOMAIN outbox : outbox[i].status = "acked" => i \in delivered

(* After a failed delivery Drain goes on to another intent if there is one.*)
DrainGoesOn ==
  [][\A w \in Workers :
       (AtPhase(w, "claim") /\ worker[w].err /\ worker'[w].phase = "deliver"
         /\ Candidates \ {worker[w].id} # {}) => worker'[w].id # worker[w].id]_vars

(* Every intent is settled in the end.                                     *)
Converges ==
  \A i \in Intents : i \in DOMAIN outbox ~> i \in DOMAIN outbox /\ outbox[i].status \in Settled
=============================================================================
