------------------------------ MODULE MCInbox ------------------------------
(* Small instances of Inbox for TLC.                                       *)
EXTENDS InboxPromise, TLC

CONSTANTS a, b

SymHosts == Permutations(Hosts)

\* A turn and a permission command of one conversation, with a /stop behind.
ConvStop == <<a, a, a>>
KindStop == <<"turn", "permission", "stop">>

\* A turn, a /new behind it, and input typed in the native session.
ConvNew == <<a, a, b>>
KindNew == <<"turn", "new", "native">>

ConvOne == <<a>>
KindPermission == <<"permission">>
KindTurn == <<"turn">>

NoRetry == [m \in Msgs |-> 0]
RetryFirst == [m \in Msgs |-> IF m = 1 THEN 1 ELSE 0]
=============================================================================
