---------------------------- MODULE AttemptLedger ----------------------------
(***************************************************************************)
(* What the orchestration promises about the attempts of a plan: a ledger  *)
(* of numbered attempts that only grows, in which a node has at most one   *)
(* running attempt and an attempt that was closed never changes again.     *)
(***************************************************************************)
EXTENDS Integers

CONSTANT Nodes
VARIABLE ledger    \* attempt ID -> [node, no, status, result]

Final == {"passed", "failed", "cancelled", "timed_out"}

LedgerInit == ledger = [i \in {} |-> 0]

(* A new attempt runs.                                                     *)
Begin(id) ==
  /\ id \notin DOMAIN ledger
  /\ DOMAIN ledger' = DOMAIN ledger \cup {id}
  /\ \A i \in DOMAIN ledger : ledger'[i] = ledger[i]
  /\ ledger'[id].node \in Nodes /\ ledger'[id].status = "running"
  /\ \A i \in DOMAIN ledger : ledger[i].node = ledger'[id].node =>
        ledger[i].status # "running" /\ ledger[i].no # ledger'[id].no

(* A running or waiting attempt is closed, once; a running one may be left *)
(* waiting for a decision.                                                 *)
Settle(id) ==
  /\ id \in DOMAIN ledger
  /\ \/ ledger[id].status \in {"running", "waiting"} /\ ledger'[id].status \in Final
     \/ ledger[id].status = "running" /\ ledger'[id].status = "waiting"
  /\ DOMAIN ledger' = DOMAIN ledger
  /\ \A i \in DOMAIN ledger \ {id} : ledger'[i] = ledger[i]
  /\ ledger'[id].node = ledger[id].node /\ ledger'[id].no = ledger[id].no

LedgerNext == \E id \in DOMAIN ledger' : Begin(id) \/ Settle(id)

LedgerSpec == LedgerInit /\ [][LedgerNext]_ledger
=============================================================================
