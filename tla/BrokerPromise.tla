--------------------------- MODULE BrokerPromise ----------------------------
(* The broker ledger implements EffectPromise.                             *)
EXTENDS Broker

Outcome(a) ==
  CASE row[a].status = "succeeded" -> "done"
    [] row[a].status = "failed" -> "refused"
    [] row[a].status = "unknown" -> "unknown"
    [] OTHER -> "open"

Promise == INSTANCE EffectPromise WITH outcome <- [a \in Actions |-> Outcome(a)]

(* Through crashes, hand-overs, stalls, stops and aborts a write is sent   *)
(* at most once, its recorded outcome is final, and an action recorded as  *)
(* failed never reached the wire and never will (README: neither backend   *)
(* retries a dispatched request).                                          *)
KeepsPromise == Promise!Spec
=============================================================================
