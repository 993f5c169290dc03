--------------------------- MODULE MCSessionLease ---------------------------
(* Small instances of SessionLease for TLC.                                *)
EXTENDS SessionLeasePromise, TLC

SymProcs == Permutations(Procs)
=============================================================================
