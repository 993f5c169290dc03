------------------------------ MODULE MCBroker ------------------------------
(* Small instances of Broker for TLC.                                      *)
EXTENDS BrokerPromise, TLC

CONSTANTS a, b, gh, h1

Setup(x, y, max) ==
  [ask |-> (a :> [op |-> x, head |-> h1, grant |-> gh])
           @@ (b :> [op |-> y, head |-> h1, grant |-> gh]),
   quota |-> gh :> max]

\* Two commits on one head, two pull requests of it, and more than the quota.
SmallSetups == {Setup("commit", "commit", 2), Setup("pull-request", "pull-request", 2),
                Setup("commit", "inspect", 1)}
=============================================================================
