-------------------------- MODULE AutomationsPromise -------------------------
(* The automations ledger implements JobPromise, occurrence by occurrence. *)
EXTENDS Automations

Outcome(o) ==
  CASE occ[o] \in {"absent", "pending"} -> "open"
    [] occ[o] = "skipped" -> "dropped"
    [] occ[o] = "cancelled" /\ run[o] = "none" -> "dropped"
    [] OTHER -> occ[o]

Promise(o) == INSTANCE JobPromise WITH
  outcome <- Outcome(o), runs <- runs[o], retries <- Retries(o)

(* Whatever crashes, stalls, is handed over, retried, replaced or          *)
(* cancelled, an occurrence ends once and is executed only while it is     *)
(* open and as often as its retry budget allows (README: a running task is *)
(* rescheduled only if it is idempotent and has retries left).             *)
KeepsPromise ==
  /\ \A o \in Occs : Promise(o)!Init
  /\ [][\A o \in Occs : [Promise(o)!Next]_(Promise(o)!vars)]_vars
=============================================================================
