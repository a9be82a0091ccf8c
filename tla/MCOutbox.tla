------------------------------- MODULE MCOutbox -------------------------------
(***************************************************************************)
(* Small instances of Outbox: a worker leases under its own name, and its  *)
(* name tells its role.                                                    *)
(***************************************************************************)
EXTENDS Outbox

MCRole == [w \in Workers |-> IF w \in {"executor", "recovery"} THEN w ELSE "drain"]
MCOwner == [w \in Workers |-> w]
=============================================================================
