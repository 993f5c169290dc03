---------------------------- MODULE MCAutomations ----------------------------
(* Small instances of Automations for TLC.                                 *)
EXTENDS AutomationsPromise, TLC

CONSTANTS x

\* n occurrences of one automation, each later than the one before.
Setup1(n, kind, overlap, retries, calls, maxToken, maxLapse) ==
  [auto |-> [o \in Occs |-> x], at |-> [o \in Occs |-> o],
   preview |-> [o \in Occs |-> FALSE],
   trigger |-> [o \in Occs |-> IF o <= n THEN kind ELSE "never"],
   overlap |-> x :> overlap, retries |-> x :> retries,
   calls |-> calls, maxToken |-> maxToken, maxLapse |-> maxLapse]

\* A retry that is skipped, a replacement under a duty lost to a stall, a
\* backlog to coalesce, a job whose lease and duty are lost, and two modes.
SmallSetups ==
  {Setup1(2, "schedule", "skip", 1, {}, 1, 0),
   Setup1(2, "event", "cancel-previous", 1, {}, 2, 0),
   Setup1(3, "event", "queue-one", 0, {}, 1, 0),
   Setup1(1, "schedule", "skip", 1, {"cancel", "change"}, 2, 1),
   [Setup1(2, "event", "skip", 0, {"change"}, 1, 0) EXCEPT !.preview[1] = TRUE]}

\* One idempotent job whose task lease is lost while the duty is kept.
StalledSetups == {Setup1(1, "event", "skip", 1, {}, 1, 1)}
=============================================================================
