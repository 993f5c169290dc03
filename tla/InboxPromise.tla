---------------------------- MODULE InboxPromise ----------------------------
(* The Inbox implements DispatchPromise, message by message.               *)
EXTENDS Inbox

\* Its dispatch marker is on the row; native input carries one from the
\* start, and has begun once it was executed.
Dispatched(r) ==
  /\ r.status = "claimed"
  /\ r.code = "started" \/ (r.code = "native" /\ r.runs > r.retries)

Outcome(r) ==
  CASE r.status \in Finished -> r.status
    [] Dispatched(r) -> "started"
    [] OTHER -> "waiting"

Promise(m) == INSTANCE DispatchPromise WITH
  Attempts <- MaxAttempts, Answers <- KindOf[m] = "turn",
  outcome <- Outcome(inbox[m]), tries <- inbox[m].attempts,
  runs <- inbox[m].runs, grants <- 1 + inbox[m].retries

Promised == {m \in Msgs : KindOf[m] # "permission"}

(* The README's at-most-once automatic Agent dispatch: through crashes,    *)
(* lost claims, stalls and cancellations a message is tried as often as    *)
(* its budget allows and executed at most once, and once more for each     *)
(* operator retry; what was started is never put back to wait; processed   *)
(* is final, and a command or native input is processed only if it was     *)
(* executed.  A permission command is the documented exception.            *)
KeepsPromise ==
  /\ \A m \in Promised : Promise(m)!Init
  /\ [][\A m \in Promised : [Promise(m)!Next]_(Promise(m)!vars)]_vars
=============================================================================
