------------------------- MODULE SessionLeasePromise ------------------------
(* The lease of a Session implements SessionPromise.                       *)
EXTENDS SessionLease

Promise == INSTANCE SessionPromise WITH
  owner <- row.identity, turn <- row.token,
  working <- {t \in Tokens : Working(lease[t])}

(* Through expiry, crashes, abandoned loads and failing stores, a Session  *)
(* keeps the identity it was first claimed for, also across a released     *)
(* construction that never got a binding; whatever works works under the   *)
(* latest token; and no further token is granted while anything works.     *)
KeepsPromise == Promise!Spec
=============================================================================
