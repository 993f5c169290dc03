------------------------------- MODULE Broker -------------------------------
(***************************************************************************)
(* The external actions broker: a daemon (broker-core.ts) that performs    *)
(* GitHub writes for Hosts, and its ledger (broker-ledger.ts), which       *)
(* several daemons may open one after another or, when one stalls, at      *)
(* once.  A daemon's authority is its fence: claimController raises the    *)
(* fence and the generation together, so one number stands for both, and   *)
(* held says that the controller row exists and has not expired.           *)
(* Row versions are left out: a row never returns to an earlier status,    *)
(* so its status stands for its version.  Refused calls are no steps.      *)
(* A name with a Bug suffix is a plausible defect of the operator that     *)
(* follows it; no specification uses it.                                   *)
(***************************************************************************)
EXTENDS Integers, FiniteSets

CONSTANTS
  Procs,     \* broker daemons
  Actions,   \* action ids the Hosts ask for
  Grants,    \* grant ids
  Heads,     \* expected heads of a write
  Setups,    \* what the actions may ask for, and the grants' maxActions
  MaxGen,    \* bound: controller claims; the last daemon does not fail
  MaxRev,    \* bound: revisions of a grant
  MaxEpoch,  \* bound: policy epochs and emergency epochs
  MayStall   \* whether a daemon may stall past its controller TTL

Ask == [op : {"commit", "pull-request", "inspect"}, head : Heads, grant : Grants]

ASSUME BrokerAssumption ==
  /\ IsFiniteSet(Actions)
  /\ Setups \subseteq [ask : [Actions -> Ask], quota : [Grants -> Nat]]
  /\ MaxGen \in Nat /\ MaxRev \in Nat /\ MaxEpoch \in Nat /\ MayStall \in BOOLEAN

VARIABLES
  ask,     \* what each action asks for; never changes
  quota,   \* maxActions of each grant; never changes
  meta,    \* the meta row
  held,    \* the controller row exists and is not expired
  grant,   \* the head revision of each grant
  row,     \* the requests table
  lease,   \* the credential_leases table
  core,    \* the daemons
  job,     \* executePrepared of each daemon and action
  wire,    \* writes on their way to GitHub
  landed,  \* writes GitHub performed
  sends    \* history: how often each write was put on the wire

ledger == <<meta, held, grant, row, lease>>
world == <<wire, landed, sends>>
vars == <<ask, quota, ledger, core, job, world>>

Meta == [gen : Nat, policy : Nat, emergency : Nat, stopped : BOOLEAN, draining : BOOLEAN]
Head == [rev : Nat, revoked : BOOLEAN, policy : Nat, emergency : Nat]
Row == [status : {"absent", "prepared", "dispatched", "succeeded", "failed", "unknown"},
        rev : Nat, gen : Nat, sent : BOOLEAN]   \* sent: dispatched_at is set
Absent == [status |-> "absent", rev |-> 0, gen |-> 0, sent |-> FALSE]
Core == [fence : Nat, phase : {"down", "serving", "inert", "closing"}]
Down == [fence |-> 0, phase |-> "down"]
Job == [phase : {"idle", "reading", "calling", "sent"}, aborted : BOOLEAN]
Idle == [phase |-> "idle", aborted |-> FALSE]

Active(a) == row[a].status \in {"prepared", "dispatched"}
Holds(p) == held /\ core[p].phase # "down" /\ core[p].fence = meta.gen

-----------------------------------------------------------------------------
(* #terminalize of the rows S: what may have been sent is unknown.         *)
TerminalizeBugFails(S) ==
  /\ row' = [a \in Actions |->
               IF a \in S /\ Active(a) THEN [row[a] EXCEPT !.status = "failed"] ELSE row[a]]
  /\ lease' = [a \in Actions |->
                 IF a \in S /\ lease[a] = "active" THEN "revoked" ELSE lease[a]]
TerminalizeBugKeepsLease(S) ==
  /\ row' = [a \in Actions |->
               IF a \in S /\ Active(a)
               THEN [row[a] EXCEPT !.status = IF @ = "prepared" THEN "failed" ELSE "unknown"]
               ELSE row[a]]
  /\ UNCHANGED lease
Terminalize(S) ==
  /\ row' = [a \in Actions |->
               IF a \in S /\ Active(a)
               THEN [row[a] EXCEPT !.status = IF @ = "prepared" THEN "failed" ELSE "unknown"]
               ELSE row[a]]
  /\ lease' = [a \in Actions |->
                 IF a \in S /\ lease[a] = "active" THEN "revoked" ELSE lease[a]]

OfGrant(g) == {a \in Actions : ask[a].grant = g}

(* The pending operations S of daemon p get their AbortController aborted. *)
AbortJobs(p, S) ==
  job' = [job EXCEPT ![p] = [a \in Actions |->
            IF a \in S /\ @[a].phase # "idle" THEN [@[a] EXCEPT !.aborted = TRUE] ELSE @[a]]]
InFlight(S) == {a \in S : row[a].status = "dispatched"}

-----------------------------------------------------------------------------
(* A daemon starts: claimController takes a free controller row, raises    *)
(* the fence and recovers what its predecessor left, ...                   *)
ClaimBugNoRecovery(p) ==
  /\ core[p].phase = "down" /\ ~held /\ meta.gen < MaxGen
  /\ held' = TRUE
  /\ UNCHANGED <<ask, quota, row, lease, job, world>>
Claim(p) ==
  /\ core[p].phase = "down" /\ ~held /\ meta.gen < MaxGen
  /\ held' = TRUE
  /\ Terminalize(Actions)
  /\ UNCHANGED <<ask, quota, job, world>>

(* ... then syncGrants takes the configured grants: an unchanged revision  *)
(* must not be revoked or carry older epochs, another one is higher, and   *)
(* what the configuration no longer lists is revoked.                      *)
Synced(g, pick, policy) ==
  CASE pick = "same" -> grant[g]
    [] pick = "next" -> [rev |-> grant[g].rev + 1, revoked |-> FALSE,
                         policy |-> policy, emergency |-> meta.emergency]
    [] pick = "none" -> [grant[g] EXCEPT !.revoked = TRUE]
Configurable(g, pick, policy) ==
  CASE pick = "same" -> /\ grant[g].rev > 0 /\ ~grant[g].revoked
                        /\ grant[g].policy = policy /\ grant[g].emergency = meta.emergency
    [] pick = "next" -> grant[g].rev < MaxRev
    [] pick = "none" -> TRUE

start(p) ==
  /\ Claim(p)
  /\ \E policy \in meta.policy..MaxEpoch, pick \in [Grants -> {"same", "next", "none"}] :
       /\ \A g \in Grants : Configurable(g, pick[g], policy)
       /\ grant' = [g \in Grants |-> Synced(g, pick[g], policy)]
       /\ meta' = [meta EXCEPT !.gen = @ + 1, !.draining = FALSE, !.policy = policy]
  /\ core' = [core EXCEPT ![p] = [fence |-> meta.gen + 1, phase |-> "serving"]]

(* The configuration is refused, or the daemon dies in between.            *)
startFails(p) ==
  /\ Claim(p) /\ meta.gen + 1 < MaxGen
  /\ meta' = [meta EXCEPT !.gen = @ + 1, !.draining = FALSE]
  /\ UNCHANGED <<grant, core>>

-----------------------------------------------------------------------------
(* The grant of a request is its current revision and carries the current  *)
(* epochs (checkRequest, dispatch).                                        *)
Granted(g, rev) ==
  /\ grant[g].rev = rev /\ rev > 0 /\ ~grant[g].revoked
  /\ grant[g].policy = meta.policy /\ grant[g].emergency = meta.emergency
Admitting == ~meta.stopped /\ ~meta.draining

(* A pull request occupies its branch while it is pending or unknown, and  *)
(* for its head once it succeeded; a commit in doubt occupies its head.    *)
InDoubt(b) == row[b].status \in {"dispatched", "unknown"}
PullOccupiedBugForgetsUnknown(a) ==
  \E b \in Actions \ {a} :
    /\ ask[b].op = "pull-request" /\ ask[a].op = "pull-request"
    /\ \/ Active(b)
       \/ row[b].status = "succeeded" /\ ask[b].head = ask[a].head
PullOccupied(a) ==
  \E b \in Actions \ {a} :
    /\ ask[b].op = "pull-request" /\ ask[a].op = "pull-request"
    /\ \/ Active(b) \/ row[b].status = "unknown"
       \/ row[b].status = "succeeded" /\ ask[b].head = ask[a].head
CommitOccupied(a) ==
  \E b \in Actions \ {a} :
    /\ ask[b].op = "commit" /\ ask[a].op = "commit" /\ ask[b].head = ask[a].head
    /\ InDoubt(b)

(* What counts against a grant, whatever revision it was asked under.      *)
UsedBugForgetsUnknown(g) ==
  {b \in OfGrant(g) : row[b].status \in {"prepared", "dispatched", "succeeded"}}
Used(g) == {b \in OfGrant(g) : row[b].status = "prepared" \/ row[b].sent}

(* execute: prepare inserts the row; a request that already has one is     *)
(* answered from it and changes nothing.                                   *)
prepare(p, a) ==
  LET g == ask[a].grant IN
  /\ core[p].phase = "serving" /\ Holds(p) /\ job[p][a] = Idle
  /\ row[a].status = "absent"
  /\ Admitting /\ Granted(g, grant[g].rev)
  /\ ~PullOccupied(a) /\ ~CommitOccupied(a)
  /\ Cardinality(Used(g)) + 1 <= quota[g]
  /\ row' = [row EXCEPT ![a] = [status |-> "prepared", rev |-> grant[g].rev,
                                gen |-> meta.gen, sent |-> FALSE]]
  /\ job' = [job EXCEPT ![p][a].phase = "reading"]
  /\ UNCHANGED <<ask, quota, meta, held, grant, lease, core, world>>

(* The credentials cannot be read, a deadline passed, or dispatch refuses: *)
(* failPrepared, by a daemon that may have lost its authority, of a row    *)
(* that may be terminal by now.                                            *)
failPrepared(p, a) ==
  /\ job[p][a].phase = "reading"
  /\ row' = IF Holds(p) /\ row[a].status = "prepared"
            THEN [row EXCEPT ![a].status = "failed"] ELSE row
  /\ job' = [job EXCEPT ![p][a] = Idle]
  /\ UNCHANGED <<ask, quota, meta, held, grant, lease, core, world>>

(* dispatch: everything is checked again, then the intent is durable.      *)
DispatchableBugNoStatus(p, a) ==
  /\ Holds(p) /\ Admitting
  /\ Granted(ask[a].grant, row[a].rev)
  /\ ~CommitOccupied(a)
DispatchableBugNoRecheck(p, a) ==
  /\ Holds(p) /\ Admitting
  /\ row[a].status = "prepared" /\ row[a].gen = meta.gen
  /\ Granted(ask[a].grant, row[a].rev)
Dispatchable(p, a) ==
  /\ Holds(p) /\ Admitting
  /\ row[a].status = "prepared" /\ row[a].gen = meta.gen
  /\ Granted(ask[a].grant, row[a].rev)
  /\ ~CommitOccupied(a)
dispatch(p, a) ==
  /\ job[p][a].phase = "reading" /\ Dispatchable(p, a)
  /\ row' = [row EXCEPT ![a].status = "dispatched", ![a].sent = TRUE]
  /\ lease' = [lease EXCEPT ![a] = "active"]
  /\ job' = [job EXCEPT ![p][a].phase = "calling"]
  /\ UNCHANGED <<ask, quota, meta, held, grant, core, world>>

(* The transport puts the write on the wire unless its signal is aborted.  *)
send(p, a) ==
  /\ job[p][a].phase = "calling" /\ ~job[p][a].aborted
  /\ wire' = wire \cup {a} /\ sends' = [sends EXCEPT ![a] = @ + 1]
  /\ job' = [job EXCEPT ![p][a].phase = "sent"]
  /\ UNCHANGED <<ask, quota, ledger, core, landed>>

(* The transport returns, its signal aborts, or the lease ran out: settle. *)
(* Anything but a success is unknown, and an outcome is never replaced.    *)
SettledBugRaw(ok) == IF ok THEN "succeeded" ELSE "transport-failed"
Settled(ok) == IF ok THEN "succeeded" ELSE "unknown"
settle(p, a) ==
  /\ job[p][a].phase \in {"calling", "sent"}
  /\ \E ok \in BOOLEAN :
       /\ ok => job[p][a].phase = "sent" /\ a \in landed /\ ~job[p][a].aborted
       /\ IF Holds(p) /\ row[a].status = "dispatched"
          THEN /\ row' = [row EXCEPT ![a].status = Settled(ok)]
               /\ lease' = [lease EXCEPT ![a] = IF ok THEN "completed" ELSE "failed"]
          ELSE UNCHANGED <<row, lease>>
  /\ job' = [job EXCEPT ![p][a] = Idle]
  /\ UNCHANGED <<ask, quota, meta, held, grant, core, world>>

(* The caller disconnects, or the deadline of the action passes.           *)
abort(p, a) ==
  /\ job[p][a].phase # "idle" /\ ~job[p][a].aborted
  /\ AbortJobs(p, {a})
  /\ UNCHANGED <<ask, quota, ledger, core, world>>

-----------------------------------------------------------------------------
(* Signed administration: emergency stop, resume and revocation end what   *)
(* is active and abort what is in flight, in one step of the daemon.       *)
setStopped(p, stopped) ==
  /\ Holds(p) /\ meta.emergency < MaxEpoch
  /\ meta' = [meta EXCEPT !.stopped = stopped, !.emergency = @ + 1]
  /\ Terminalize(Actions) /\ AbortJobs(p, InFlight(Actions))
  /\ UNCHANGED <<ask, quota, held, grant, core, world>>

revokeBugNoAbort(p, g) ==
  /\ Holds(p) /\ grant[g].rev > 0
  /\ grant' = [grant EXCEPT ![g].revoked = TRUE]
  /\ Terminalize(OfGrant(g))
  /\ UNCHANGED <<ask, quota, meta, held, core, job, world>>
revoke(p, g) ==
  /\ Holds(p) /\ grant[g].rev > 0
  /\ grant' = [grant EXCEPT ![g].revoked = TRUE]
  /\ Terminalize(OfGrant(g)) /\ AbortJobs(p, InFlight(OfGrant(g)))
  /\ UNCHANGED <<ask, quota, meta, held, core, world>>

-----------------------------------------------------------------------------
(* Shutdown: nothing new is admitted, at the deadline everything pending   *)
(* is aborted, and close does so again before the controller is released.  *)
beginDrain(p) ==
  /\ core[p].phase = "serving" /\ Holds(p) /\ ~meta.draining
  /\ meta' = [meta EXCEPT !.draining = TRUE]
  /\ UNCHANGED <<ask, quota, held, grant, row, lease, core, job, world>>

AbortAll(p) ==
  /\ AbortJobs(p, Actions)
  /\ IF Holds(p) THEN Terminalize(Actions) ELSE UNCHANGED <<row, lease>>
  /\ UNCHANGED <<ask, quota, meta, held, grant, world>>

drain(p) ==
  /\ core[p].phase \in {"serving", "inert"} /\ (meta.draining \/ ~Holds(p))
  /\ \E a \in Actions : job[p][a] # Idle
  /\ AbortAll(p) /\ UNCHANGED core

close(p) ==
  /\ core[p].phase \in {"serving", "inert"} /\ meta.gen < MaxGen
  /\ AbortAll(p) /\ core' = [core EXCEPT ![p].phase = "closing"]

Stop(p) ==
  /\ core' = [core EXCEPT ![p] = Down]
  /\ job' = [job EXCEPT ![p] = [a \in Actions |-> Idle]]
  /\ UNCHANGED <<ask, quota, meta, grant, row, lease, world>>
releaseController(p) ==
  /\ core[p].phase = "closing"
  /\ held' = (held /\ ~Holds(p))
  /\ Stop(p)
crash(p) ==
  /\ core[p].phase # "down" /\ meta.gen < MaxGen
  /\ Stop(p) /\ UNCHANGED held

(* The controller row expires: its daemon is gone, or stalled past the TTL.*)
Orphaned == \A p \in Procs : core[p].phase = "down" \/ core[p].fence # meta.gen
expire ==
  /\ held /\ (Orphaned \/ (MayStall /\ meta.gen < MaxGen))
  /\ held' = FALSE
  /\ UNCHANGED <<ask, quota, meta, grant, row, lease, core, job, world>>

(* The renewal timer finds the authority lost: the daemon goes inert.      *)
renewFails(p) ==
  /\ core[p].phase = "serving" /\ ~Holds(p)
  /\ core' = [core EXCEPT ![p].phase = "inert"]
  /\ AbortJobs(p, Actions)
  /\ UNCHANGED <<ask, quota, ledger, world>>

land(a) ==
  /\ a \in wire
  /\ wire' = wire \ {a} /\ landed' = landed \cup {a}
  /\ UNCHANGED <<ask, quota, ledger, core, job, sends>>
lose(a) ==
  /\ a \in wire
  /\ wire' = wire \ {a}
  /\ UNCHANGED <<ask, quota, ledger, core, job, landed, sends>>

-----------------------------------------------------------------------------
Init ==
  /\ \E setup \in Setups : ask = setup.ask /\ quota = setup.quota
  /\ meta = [gen |-> 0, policy |-> 0, emergency |-> 0, stopped |-> FALSE, draining |-> FALSE]
  /\ held = FALSE
  /\ grant = [g \in Grants |-> [rev |-> 0, revoked |-> FALSE, policy |-> 0, emergency |-> 0]]
  /\ row = [a \in Actions |-> Absent] /\ lease = [a \in Actions |-> "none"]
  /\ core = [p \in Procs |-> Down]
  /\ job = [p \in Procs |-> [a \in Actions |-> Idle]]
  /\ wire = {} /\ landed = {} /\ sends = [a \in Actions |-> 0]

CoreStep(p) ==
  \/ start(p) \/ startFails(p) \/ beginDrain(p) \/ drain(p) \/ close(p)
  \/ releaseController(p) \/ crash(p) \/ renewFails(p)
  \/ \E stopped \in BOOLEAN : setStopped(p, stopped)
  \/ \E g \in Grants : revoke(p, g)
ActionStep(p, a) ==
  \/ prepare(p, a) \/ failPrepared(p, a) \/ dispatch(p, a)
  \/ send(p, a) \/ settle(p, a) \/ abort(p, a)

Next ==
  \/ \E p \in Procs : CoreStep(p) \/ \E a \in Actions : ActionStep(p, a)
  \/ \E a \in Actions : land(a) \/ lose(a)
  \/ expire

Spec == Init /\ [][Next]_vars

(* Credential reads end, transports return or time out, timers fire, a     *)
(* supervisor starts a daemon again, and its configuration is accepted.    *)
Fairness ==
  /\ WF_vars(Orphaned /\ expire)
  /\ \A p \in Procs :
       /\ WF_vars(start(p)) /\ WF_vars(renewFails(p)) /\ WF_vars(releaseController(p))
       /\ \A a \in Actions : /\ WF_vars(failPrepared(p, a) \/ dispatch(p, a))
                             /\ WF_vars(settle(p, a))

FairSpec == Spec /\ Fairness

-----------------------------------------------------------------------------
(* Every table, daemon and operation is well formed.                       *)
TypeOK ==
  /\ ask \in [Actions -> Ask] /\ quota \in [Grants -> Nat]
  /\ meta \in Meta /\ held \in BOOLEAN /\ grant \in [Grants -> Head]
  /\ row \in [Actions -> Row]
  /\ lease \in [Actions -> {"none", "active", "completed", "failed", "revoked"}]
  /\ core \in [Procs -> Core] /\ job \in [Procs -> [Actions -> Job]]
  /\ wire \subseteq Actions /\ landed \subseteq Actions /\ sends \in [Actions -> Nat]

(* The next daemon can open the ledger: #validateStored refuses a database *)
(* whose leases, outcomes and rows contradict each other, for good.        *)
LedgerReadable ==
  \A a \in Actions :
    /\ lease[a] = "active" <=> row[a].status = "dispatched"
    /\ lease[a] = "completed" <=> row[a].status = "succeeded"
    /\ row[a].status \in {"dispatched", "succeeded", "unknown"} <=> row[a].sent

(* Two writes whose outcome is in doubt never share a target: no second    *)
(* commit on an expected head, no second pull request of a branch, and no  *)
(* pull request of a head that already has one, across grants, revisions,  *)
(* daemons and emergency stops.                                            *)
DoubtExclusive ==
  \A a, b \in Actions :
    a # b /\ ask[a].op = ask[b].op =>
      /\ ask[a].op = "commit" /\ ask[a].head = ask[b].head => ~(InDoubt(a) /\ InDoubt(b))
      /\ ask[a].op = "pull-request" => ~(InDoubt(a) /\ (InDoubt(b) \/ Active(b)))
      /\ ask[a].op = "pull-request" /\ ask[a].head = ask[b].head =>
           ~(row[a].status = "succeeded" /\ row[b].status = "succeeded")

(* No more writes go out under a grant than it allows, however they ended  *)
(* and whatever revision they were asked under.                            *)
WithinQuota ==
  \A g \in Grants :
    Cardinality({a \in OfGrant(g) : row[a].status = "prepared" \/ sends[a] > 0}) <= quota[g]

(* A write leaves a daemon that still has its authority only while its row *)
(* is dispatched under the current, unrevoked grant and nothing was        *)
(* stopped: stop and revoke reach operations already past their dispatch.  *)
SendIsAuthorized ==
  [][\A a \in Actions, p \in Procs :
       send(p, a) /\ Holds(p) =>
         /\ row[a].status = "dispatched" /\ ~meta.stopped
         /\ Granted(ask[a].grant, row[a].rev)
    ]_vars

(* Every admitted action reaches an outcome: at once by its daemon, or     *)
(* from the daemon that takes over after a crash or a stall, provided one  *)
(* keeps its controller in the end.                                        *)
Settles == \A a \in Actions : Active(a) ~> ~Active(a)

=============================================================================
