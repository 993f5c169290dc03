-------------------------- MODULE DispatchPromise ---------------------------
(***************************************************************************)
(* What the owner is promised of one message of the Inbox, with no rows,   *)
(* Hosts, claims or leases: how often it is tried and executed, and what   *)
(* its outcome is worth.                                                   *)
(***************************************************************************)
EXTENDS Integers

CONSTANTS
  Attempts,  \* tries before the message is given up
  Answers    \* whether it can be answered without being executed

VARIABLES
  outcome,   \* "waiting", "started", "processed" or "dead_letter"
  tries,     \* tries that count
  runs,      \* executions
  grants     \* one, and one more per operator retry

vars == <<outcome, tries, runs, grants>>

Init == outcome = "waiting" /\ tries = 0 /\ runs = 0 /\ grants = 1

Try ==
  /\ outcome = "waiting" /\ tries + 1 < Attempts + grants
  /\ tries' = tries + 1 /\ UNCHANGED <<outcome, runs, grants>>

\* Waiting for a Session that is busy is no try.
PutBack ==
  /\ outcome = "waiting" /\ tries > 0
  /\ tries' = tries - 1 /\ UNCHANGED <<outcome, runs, grants>>

\* What was started never waits again of its own accord.
Start ==
  /\ outcome = "waiting" /\ tries > 0 /\ runs < grants
  /\ outcome' = "started" /\ runs' = runs + 1 /\ UNCHANGED <<tries, grants>>

Process ==
  /\ outcome = "started" \/ (outcome = "waiting" /\ Answers)
  /\ outcome' = "processed" /\ UNCHANGED <<tries, runs, grants>>

GiveUp ==
  /\ outcome \in {"waiting", "started"}
  /\ outcome' = "dead_letter" /\ UNCHANGED <<tries, runs, grants>>

OperatorRetry ==
  /\ outcome = "dead_letter"
  /\ outcome' = "waiting" /\ grants' = grants + 1 /\ UNCHANGED <<tries, runs>>

Next == Try \/ PutBack \/ Start \/ Process \/ GiveUp \/ OperatorRetry
Spec == Init /\ [][Next]_vars
=============================================================================
