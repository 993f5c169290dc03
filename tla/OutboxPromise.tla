---------------------------- MODULE OutboxPromise ----------------------------
(* The Outbox implements DeliveryPromise, message by message.              *)
EXTENDS Outbox

(* A row is read as an outcome.  A running attempt is in doubt once an     *)
(* earlier one was: a reconcile is still looking for the copy.             *)
Outcome(r) ==
  CASE r.status \in {"accepted", "delivered", "read"} -> "delivered"
    [] r.status = "dead" -> "failed"
    [] r.status = "unknown_after_send" -> "doubt"
    [] r.status = "attempting" /\ r.doubt -> "doubt"
    [] OTHER -> "open"

Promise(m) == INSTANCE DeliveryPromise WITH
  outcome <- Outcome(box[m]),
  copies <- Cardinality(landed[m]),
  allowed <- 1 + box[m].retries

(* Every message is delivered at most once per permission to send, is      *)
(* reported delivered only when it was, and comes back from failure only   *)
(* through an operator or the provider.                                    *)
KeepsPromise ==
  /\ \A m \in Msgs : Promise(m)!Init
  /\ [][\A m \in Msgs : [Promise(m)!Next]_(Promise(m)!vars)]_vars
=============================================================================
