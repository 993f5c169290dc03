------------------------------ MODULE MCOutbox ------------------------------
(* Small instances of Outbox for TLC.                                      *)
EXTENDS OutboxPromise, TLC

CONSTANT l1
NoRetry == [m \in Msgs |-> 0]
RetryFirst == [m \in Msgs |-> IF m = 1 THEN 1 ELSE 0]
OneLane == [m \in Msgs |-> l1]
SymHosts == Permutations(Hosts)
None == {}
First1 == {1}
Second == {2}
Lane1 == {l1}
PolicyAnswers == {"authorized", "denied", "deferred"}
PolicyDecides == {"authorized", "denied"}
PolicyAgrees == {"authorized"}
=============================================================================
