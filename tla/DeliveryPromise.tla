--------------------------- MODULE DeliveryPromise ---------------------------
(***************************************************************************)
(* What the Outbox promises about one message, with no rows, Hosts, leases *)
(* or attempts: how many copies the recipient may ever see, and what the   *)
(* recorded outcome is worth.                                              *)
(***************************************************************************)
EXTENDS Naturals

VARIABLES
  outcome,  \* "open", "doubt" (perhaps sent), "failed" or "delivered"
  copies,   \* copies the provider has accepted
  allowed   \* copies ever permitted: one, and one per operator retry

vars == <<outcome, copies, allowed>>

Init == outcome = "open" /\ copies = 0 /\ allowed = 1

\* The provider accepts a copy; it may do so long after the row moved on.
Copy == copies < allowed /\ copies' = copies + 1 /\ UNCHANGED <<outcome, allowed>>

Doubt == outcome = "open" /\ outcome' = "doubt" /\ UNCHANGED <<copies, allowed>>

\* Only while a copy may still be sent is a message put back to be sent.
Requeue ==
  /\ outcome = "doubt" /\ copies < allowed
  /\ outcome' = "open" /\ UNCHANGED <<copies, allowed>>

Fail ==
  /\ outcome \in {"open", "doubt"}
  /\ outcome' = "failed" /\ UNCHANGED <<copies, allowed>>

\* Delivery is never claimed without a copy, and never taken back.
Confirm ==
  /\ outcome # "delivered" /\ copies > 0
  /\ outcome' = "delivered" /\ UNCHANGED <<copies, allowed>>

OperatorRetry ==
  /\ outcome \in {"doubt", "failed"}
  /\ outcome' = "open" /\ allowed' = allowed + 1 /\ UNCHANGED copies

Next == Copy \/ Doubt \/ Requeue \/ Fail \/ Confirm \/ OperatorRetry

Spec == Init /\ [][Next]_vars
=============================================================================
