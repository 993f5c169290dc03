--------------------------- MODULE SessionPromise ---------------------------
(***************************************************************************)
(* What the users of a Session are promised, with no rows, leases, expiry  *)
(* or processes: turns that are taken one after the other by the identity  *)
(* the Session belongs to.  Only the latest turn ever works, and no other  *)
(* is taken while it does.                                                 *)
(***************************************************************************)
EXTENDS Integers

CONSTANTS Identities, Nobody

VARIABLES
  owner,    \* the identity the Session belongs to
  turn,     \* how many turns were taken
  working   \* the turns something still runs for

vars == <<owner, turn, working>>

Init == owner = Nobody /\ turn = 0 /\ working = {}

Take(i) ==
  /\ owner \in {Nobody, i} /\ working = {}
  /\ owner' = i /\ turn' = turn + 1 /\ UNCHANGED working

Work == turn > 0 /\ working' = {turn} /\ UNCHANGED <<owner, turn>>
Rest == working' = {} /\ UNCHANGED <<owner, turn>>

Next == (\E i \in Identities : Take(i)) \/ Work \/ Rest
Spec == Init /\ [][Next]_vars
=============================================================================
