---------------------------- MODULE SessionLease ----------------------------
(***************************************************************************)
(* Exclusive execution of one Delivery-owned Session: its durable row in   *)
(* delivery_session_leases (store.ts) and the process-local objects that   *)
(* hold its tokens (session-lease-runtime.ts).  Every claim gets a fresh   *)
(* token, so a SessionExecutionLease is named by its token; row.live is    *)
(* lease_until > now.  A name with a Bug suffix is a plausible defect of   *)
(* the operator that follows it; no specification uses it.                 *)
(***************************************************************************)
EXTENDS Integers

CONSTANTS
  Procs,       \* processes sharing the database
  Identities,  \* who may ask for the Session: scope and principal record
  Nobody,      \* no process, no identity
  MaxToken,    \* bound: claims ever granted
  MaxPending,  \* bound: operations running at once under one lease
  MaxVersion,  \* bound: versions of a principal record
  StoreFails   \* whether recording the end of a lease may fail

Tokens == 1..MaxToken

ASSUME SessionLeaseAssumption ==
  /\ MaxToken \in Nat /\ MaxPending \in Nat /\ MaxVersion \in Nat
  /\ StoreFails \in BOOLEAN /\ Nobody \notin Procs \cup Identities

VARIABLES
  row,    \* the delivery_session_leases row
  auth,   \* whether an identity holds the Session's authority, at what version
  lease   \* the SessionExecutionLease of each token

vars == <<row, auth, lease>>

States == {"none", "prepared", "dispatched", "unknown", "released"}
Row == [state : States, token : Nat, live : BOOLEAN,
        identity : Identities \cup {Nobody}, version : Nat]
Lease == [proc : Procs \cup {Nobody}, phase : {"none", "opened", "dispatched", "gone"},
          aborted : BOOLEAN, closed : BOOLEAN, released : BOOLEAN,
          unobserved : BOOLEAN, agent : BOOLEAN, pending : Nat, late : BOOLEAN,
          unsaved : BOOLEAN,
          building : {"no", "loading", "prepared", "over"}]

\* pending > 0: operations entered and not left; late: a cold load that was
\* given up while it may still be running; unsaved: the store refused to
\* record that the closed lease had ended, which nothing tries again.
Working(l) == l.agent \/ l.pending > 0 \/ l.late

Fresh(p) ==
  [proc |-> p, phase |-> "opened", aborted |-> FALSE, closed |-> FALSE,
   released |-> FALSE, unobserved |-> FALSE, agent |-> FALSE, pending |-> 0,
   late |-> FALSE, unsaved |-> FALSE, building |-> "no"]

-----------------------------------------------------------------------------
(* sessionLeaseCurrent with live authority, as hasSessionLease asks it.    *)
ValidBugAnyToken(t) ==
  /\ row.live /\ row.state \in {"prepared", "dispatched"}
  /\ auth[row.identity].active /\ auth[row.identity].version = row.version
Valid(t) ==
  /\ row.token = t /\ row.live /\ row.state \in {"prepared", "dispatched"}
  /\ auth[row.identity].active /\ auth[row.identity].version = row.version

(* SessionExecutionLease.assert.                                           *)
assert(t) == ~lease[t].closed /\ ~lease[t].aborted /\ Valid(t)

QuiescentBugForgetsLoad(l) == l.pending = 0 /\ ~l.agent
Quiescent(l) == ~l.unobserved /\ l.pending = 0 /\ ~l.agent

(* #settle on the updated object l of token t, with finishSessionLease.    *)
Settle(t, l) ==
  \E stored \in {TRUE} \cup {~StoreFails} :
    LET tries == l.closed /\ ~l.released
        hit == /\ stored /\ tries /\ row.token = t
               /\ row.state \in {"prepared", "dispatched", "unknown"}
    IN /\ row' = IF hit
                 THEN [row EXCEPT !.state = IF Quiescent(l) THEN "released" ELSE "unknown"]
                 ELSE row
       /\ lease' = [lease EXCEPT ![t] =
                      [l EXCEPT !.released = @ \/ (hit /\ Quiescent(l)),
                                !.unsaved = tries /\ Quiescent(l) /\ ~stored]]

-----------------------------------------------------------------------------
(* The rows claimSessionLease grants to a new token.                       *)
GrantableBugExpired(i) ==
  \/ row.state = "none"
  \/ row.identity = i /\ (row.state = "released" \/ ~row.live)
GrantableBugAnyone(i) ==
  row.state \in {"none", "released"} \/ (row.state = "prepared" /\ ~row.live)
Grantable(i) ==
  \/ row.state = "none"
  \/ /\ row.identity = i
     /\ row.state = "released" \/ (row.state = "prepared" /\ ~row.live)

open(p, i) ==
  /\ auth[i].active /\ Grantable(i) /\ row.token < MaxToken
  /\ row' = [state |-> "prepared", token |-> row.token + 1, live |-> TRUE,
             identity |-> i, version |-> auth[i].version]
  /\ lease' = [lease EXCEPT ![row.token + 1] = Fresh(p)]
  /\ UNCHANGED auth

(* A claim that finds a dispatched row expired only marks it unknown.      *)
claimFindsExpired(i) ==
  /\ auth[i].active /\ row.identity = i
  /\ row.state = "dispatched" /\ ~row.live
  /\ row' = [row EXCEPT !.state = "unknown"]
  /\ UNCHANGED <<auth, lease>>

(* lease.dispatch, which every user of a lease calls before anything runs. *)
dispatch(t) ==
  /\ lease[t].phase = "opened" /\ assert(t) /\ row.state = "prepared"
  /\ row' = [row EXCEPT !.state = "dispatched"]
  /\ lease' = [lease EXCEPT ![t].phase = "dispatched"]
  /\ UNCHANGED auth

(* #construct: the lease is entered, the Agent is loaded or created ...    *)
construct(t) ==
  /\ lease[t].phase = "dispatched" /\ assert(t)
  /\ lease[t].building = "no" /\ ~lease[t].agent /\ lease[t].pending < MaxPending
  /\ lease' = [lease EXCEPT ![t].building = "loading", ![t].pending = @ + 1]
  /\ UNCHANGED <<row, auth>>

attach(t) ==
  /\ lease[t].building = "loading" /\ assert(t)
  /\ lease' = [lease EXCEPT ![t].building = "prepared", ![t].agent = TRUE]
  /\ UNCHANGED <<row, auth>>

(* ... published, or rolled back and disposed, ...                         *)
publish(t) ==
  /\ lease[t].building = "prepared" /\ assert(t)
  /\ lease' = [lease EXCEPT ![t].building = "over"]
  /\ UNCHANGED <<row, auth>>

rollBack(t) ==
  /\ lease[t].building = "prepared"
  /\ Settle(t, [lease[t] EXCEPT !.building = "over", !.agent = FALSE])
  /\ UNCHANGED auth

(* ... or its load fails: either it is known to have stopped, or it is     *)
(* given up (abandonConstruction) while it may still be running.           *)
loadFails(t) ==
  /\ lease[t].building = "loading"
  /\ lease' = [lease EXCEPT ![t].building = "over"]
  /\ UNCHANGED <<row, auth>>

abandonConstruction(t) ==
  /\ lease[t].building = "loading"
  /\ \E running \in BOOLEAN :
       LET l == [lease[t] EXCEPT !.building = "over", !.unobserved = TRUE,
                   !.aborted = TRUE, !.closed = TRUE, !.late = running]
       IN IF lease[t].closed
          THEN lease' = [lease EXCEPT ![t] = l] /\ UNCHANGED row
          ELSE Settle(t, l)
  /\ UNCHANGED auth

finishConstruction(t) ==
  /\ lease[t].building = "over"
  /\ Settle(t, [lease[t] EXCEPT !.building = "no", !.pending = @ - 1])
  /\ UNCHANGED auth

lateLoadEnds(t) ==
  /\ lease[t].late
  /\ lease' = [lease EXCEPT ![t].late = FALSE]
  /\ UNCHANGED <<row, auth>>

(* tools/execute and llm/stream enter the lease and leave it again.        *)
enter(t) ==
  /\ assert(t) /\ lease[t].agent /\ lease[t].pending < MaxPending
  /\ lease' = [lease EXCEPT ![t].pending = @ + 1]
  /\ UNCHANGED <<row, auth>>

leaveBugCountsTwice(t) ==
  /\ lease[t].agent
  /\ Settle(t, [lease[t] EXCEPT !.pending = @ - 1])
  /\ UNCHANGED auth
leave(t) ==
  /\ lease[t].pending > (IF lease[t].building = "no" THEN 0 ELSE 1)
  /\ Settle(t, [lease[t] EXCEPT !.pending = @ - 1])
  /\ UNCHANGED auth

disposedBugNoSettle(t) ==
  /\ lease[t].agent /\ lease[t].building = "no"
  /\ lease' = [lease EXCEPT ![t].agent = FALSE]
  /\ UNCHANGED <<row, auth>>
disposed(t) ==
  /\ lease[t].agent /\ lease[t].building = "no"
  /\ Settle(t, [lease[t] EXCEPT !.agent = FALSE])
  /\ UNCHANGED auth

(* A failed renewal or assert, a deadline, /stop, or native user input.    *)
cancel(t) ==
  /\ lease[t].phase \in {"opened", "dispatched"} /\ ~lease[t].aborted
  /\ lease' = [lease EXCEPT ![t].aborted = TRUE]
  /\ UNCHANGED <<row, auth>>

close(t) ==
  /\ lease[t].phase \in {"opened", "dispatched"} /\ ~lease[t].closed
  /\ Settle(t, [lease[t] EXCEPT !.closed = TRUE])
  /\ UNCHANGED auth

(* The process dies and everything in it stops; the row stays as it is.    *)
crash(p) ==
  /\ \E t \in Tokens : lease[t].proc = p /\ lease[t].phase \in {"opened", "dispatched"}
  /\ lease' = [t \in Tokens |->
       IF lease[t].proc = p
       THEN [Fresh(p) EXCEPT !.phase = "gone", !.aborted = TRUE, !.closed = TRUE]
       ELSE lease[t]]
  /\ UNCHANGED <<row, auth>>

(* lease_until passes: nobody renewed it, or the renewing process stalled. *)
lapse ==
  /\ row.live
  /\ row' = [row EXCEPT !.live = FALSE]
  /\ UNCHANGED <<auth, lease>>

(* A stalled process that renews in time keeps the lease; bindings and     *)
(* principals are revoked, restored and versioned underneath it.           *)
changeAuthority(i) ==
  /\ auth[i].version < MaxVersion
  /\ auth' = [auth EXCEPT ![i] = [active |-> ~@.active, version |-> @.version + 1]]
  /\ UNCHANGED <<row, lease>>

-----------------------------------------------------------------------------
Init ==
  /\ row = [state |-> "none", token |-> 0, live |-> FALSE,
            identity |-> Nobody, version |-> 0]
  /\ auth = [i \in Identities |-> [active |-> TRUE, version |-> 1]]
  /\ lease = [t \in Tokens |-> [Fresh(Nobody) EXCEPT !.phase = "none"]]

LeaseStep(t) ==
  \/ dispatch(t) \/ construct(t) \/ attach(t) \/ publish(t) \/ rollBack(t)
  \/ loadFails(t) \/ abandonConstruction(t) \/ finishConstruction(t)
  \/ lateLoadEnds(t) \/ enter(t) \/ leave(t) \/ disposed(t)
  \/ cancel(t) \/ close(t)

Next ==
  \/ \E p \in Procs, i \in Identities : open(p, i)
  \/ \E i \in Identities : claimFindsExpired(i) \/ changeAuthority(i)
  \/ \E t \in Tokens : LeaseStep(t)
  \/ \E p \in Procs : crash(p)
  \/ lapse

Spec == Init /\ [][Next]_vars

(* Operations under way return, Agents are disposed, and loads settle.     *)
(* Nothing makes a user close a lease, a late load end or a process die.   *)
Fairness ==
  \A t \in Tokens :
    /\ WF_vars(attach(t) \/ loadFails(t) \/ abandonConstruction(t))
    /\ WF_vars(publish(t) \/ rollBack(t))
    /\ WF_vars(finishConstruction(t)) /\ WF_vars(leave(t)) /\ WF_vars(disposed(t))

FairSpec == Spec /\ Fairness

-----------------------------------------------------------------------------
(* The row, the authority and every lease are well formed.                 *)
TypeOK ==
  /\ row \in Row
  /\ auth \in [Identities -> [active : BOOLEAN, version : Nat]]
  /\ lease \in [Tokens -> Lease]

(* Whatever runs for the Session - an Agent, an operation, a load that was *)
(* given up - runs under the row's own token, while the row still says     *)
(* dispatched or unknown: two holders never execute the Session at once,   *)
(* and it is never offered to a new holder while anything runs.            *)
Exclusive ==
  \A t \in Tokens :
    Working(lease[t]) => row.token = t /\ row.state \in {"dispatched", "unknown"}

(* A new token is granted only after the old one provably stopped: it was  *)
(* released after quiescence, or expired before it was ever dispatched.    *)
(* An expired dispatched lease and an unknown one are never taken over.    *)
TakeoverIsProven ==
  [][row'.token # row.token =>
       \/ row.state = "none"
       \/ row.state = "prepared" /\ lease[row.token].phase # "dispatched"
       \/ /\ row.state = "released" /\ lease[row.token].released
          /\ ~Working(lease[row.token])
       \/ row.state = "released" /\ lease[row.token].phase = "gone"
    ]_vars

(* A closed lease is given back once its work ends, unless its process     *)
(* died, a load was abandoned, or the store failed at the very settle that *)
(* found the work ended: those keep the Session occupied until /new.       *)
ClosedIsReleased ==
  \A t \in Tokens :
    lease[t].closed /\ lease[t].phase = "dispatched"
    ~> \/ lease[t].released \/ lease[t].unobserved \/ lease[t].unsaved
       \/ lease[t].phase = "gone"

=============================================================================
