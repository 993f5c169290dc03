----------------------------- MODULE JobPromise -----------------------------
(* What an automation is promised of each occurrence: it has one outcome,  *)
(* final once given; it is executed only while that is open, and no more   *)
(* often than its definition allows; it ends as executed only if it was,   *)
(* and what was executed and may not be repeated is never said to have     *)
(* been dropped.                                                           *)
EXTENDS Integers

VARIABLES outcome, runs, retries

vars == <<outcome, runs, retries>>

Init == outcome = "open" /\ runs = 0 /\ retries \in Nat

Execute ==
  /\ outcome = "open" /\ runs <= retries
  /\ runs' = runs + 1 /\ UNCHANGED <<outcome, retries>>

End ==
  /\ outcome = "open" /\ runs > 0
  /\ outcome' \in {"ended", "cancelled", "unknown"}
  /\ UNCHANGED <<runs, retries>>

Drop ==
  /\ outcome = "open" /\ (runs = 0 \/ retries > 0)
  /\ outcome' = "dropped" /\ UNCHANGED <<runs, retries>>

Next == Execute \/ End \/ Drop
Spec == Init /\ [][Next]_vars
=============================================================================
