------------------------------- MODULE Outbox -------------------------------
(***************************************************************************)
(* The Delivery Outbox: durable rows in SQLite (store.ts), the coordinator *)
(* that claims and dispatches them (coordinator.ts), and the provider they *)
(* are sent to.  Several Hosts share one database: a draining incarnation  *)
(* of the plugin overlaps the one that replaces it.                        *)
(*                                                                         *)
(* A message is its rowid, 1..NMsg, in enqueue order.  Of its attempts     *)
(* ledger the row keeps what the code asks of it: how many sends and       *)
(* reconciles it lists (attempt_count is their sum), whether a ledger row  *)
(* is still 'attempting' (open), and whether one was closed as accepted or *)
(* unknown (doubt).  A time is kept as what it is compared for: live is    *)
(* lease_until > now, due is next_attempt_at <= now or NULL.               *)
(*                                                                         *)
(* A name with a Bug suffix is a plausible defect of the operator that     *)
(* follows it; no specification uses it, it is there to show that the      *)
(* properties would notice.                                                *)
(***************************************************************************)
EXTENDS Integers, FiniteSets

CONSTANTS
  Hosts,            \* plugin incarnations (ownerId) sharing the database
  NoOwner,          \* claimed_by IS NULL
  NMsg,             \* how many messages are ever enqueued
  Lanes, LaneOf,    \* conversation lanes (lane_hash); a message's lane
  Routes,           \* messages carrying dsh.route.authority (owner routes)
  Maintenance,      \* plain "inbound:*:maintenance" acknowledgements
  ReconLanes,       \* lanes whose adapter declares reconcileUnknownSend
  Verdicts,         \* answers the Policy recheck of an owner route may give
  MaxAttempts, MaxConcurrency,
  MaxGen,           \* bound: binding generations per lane
  MaxRetries,       \* bound: operator retries of each message
  MayDrain,         \* whether a restart fence is ever raised
  StalledDispatch,  \* whether a Host may stall past its lease between
                    \* committing a claim and calling the adapter
  RacyReconcile     \* whether reconcile may answer not-sent while an earlier
                    \* send is still under way

Msgs == 1..NMsg

ASSUME OutboxAssumption ==
  /\ NMsg \in Nat /\ MaxAttempts \in Nat \ {0} /\ MaxConcurrency \in Nat \ {0}
  /\ MaxGen \in Nat /\ MaxRetries \in [Msgs -> Nat]
  /\ NoOwner \notin Hosts
  /\ LaneOf \in [Msgs -> Lanes] /\ ReconLanes \subseteq Lanes
  /\ Routes \subseteq Msgs /\ Maintenance \subseteq Msgs \ Routes
  /\ "authorized" \in Verdicts
  /\ Verdicts \subseteq {"authorized", "denied", "deferred"}
  /\ {MayDrain, StalledDispatch, RacyReconcile} \subseteq BOOLEAN

VARIABLES
  box,       \* outbox_messages with its attempts and resolutions
  bind,      \* the current conversation binding of each lane
  draining,  \* delivery_restart_fence holds a row
  job,       \* each Host's in-memory active operations
  wire,      \* sends under way to the provider, by attempt number
  landed     \* sends the provider accepted, by attempt number

vars == <<box, bind, draining, job, wire, landed>>

Statuses == {"absent", "pending", "attempting", "retry_wait",
             "unknown_after_send", "accepted", "delivered", "read", "dead"}
Terminal == {"accepted", "delivered", "read", "dead"}
Phases == {"idle", "claimed", "calling", "dropped"}

Row == [status : Statuses, claimedBy : Hosts \cup {NoOwner}, token : Nat,
        live : BOOLEAN, due : BOOLEAN, gen : Nat, sends : Nat, recons : Nat,
        open : BOOLEAN, doubt : BOOLEAN, pid : Nat,
        decision : {"none", "cancel", "retry"}, retries : Nat]
Job == [phase : Phases, mode : {"send", "reconcile"}, token : Nat]

Idle == [phase |-> "idle", mode |-> "send", token |-> 0]
Absent == [status |-> "absent", claimedBy |-> NoOwner, token |-> 0,
           live |-> FALSE, due |-> TRUE, gen |-> 0, sends |-> 0, recons |-> 0,
           open |-> FALSE, doubt |-> FALSE, pid |-> 0,
           decision |-> "none", retries |-> 0]

AttemptCount(r) == r.sends + r.recons
Cancelled(r) == r.decision = "cancel"
Quiet(r) == r.status \in Terminal \/ Cancelled(r)
BindingActive(m, r) ==
  bind[LaneOf[m]].active /\ bind[LaneOf[m]].generation = r.gen

-----------------------------------------------------------------------------
(* Row updates.                                                            *)

ClearClaim(r) == [r EXCEPT !.claimedBy = NoOwner, !.token = 0, !.live = FALSE]
Kill(r) == [r EXCEPT !.status = "dead", !.due = TRUE]

Exhausted(r) ==
  r.status = "retry_wait" /\ r.due /\ r.sends >= MaxAttempts

ExpireBugRetries(r) ==
  IF r.status = "attempting" /\ ~r.live
  THEN [ClearClaim(r) EXCEPT !.status = "retry_wait", !.due = TRUE, !.open = FALSE]
  ELSE r
Expire(r) ==
  IF r.status = "attempting" /\ ~r.live
  THEN [ClearClaim(r) EXCEPT !.status = "unknown_after_send", !.due = TRUE,
                             !.open = FALSE, !.doubt = TRUE]
  ELSE r

recoverOutbox(r) ==
  LET e == Expire(r) IN IF Exhausted(e) THEN Kill(e) ELSE e

DoomedBugForgetsReconciles(m, r) ==
  \/ Exhausted(r)
  \/ /\ m \notin Routes /\ ~Cancelled(r) /\ ~BindingActive(m, r)
     /\ r.status \in {"pending", "retry_wait", "unknown_after_send"}
(* The bulk updates of claimOutbox that dead-letter a row: send attempts   *)
(* used up, reconcile attempts used up, and a plain row whose binding is   *)
(* no longer active.                                                       *)
Doomed(m, r) ==
  \/ Exhausted(r)
  \/ r.status = "unknown_after_send" /\ ~Cancelled(r) /\ r.recons >= MaxAttempts
  \/ /\ m \notin Routes /\ ~Cancelled(r) /\ ~BindingActive(m, r)
     /\ r.status \in {"pending", "retry_wait", "unknown_after_send"}

ownerRouteIsProvablyUnsentBugNoLedger(r) == r.pid = 0
ownerRouteIsProvablyUnsent(r) == r.pid = 0 /\ ~r.open /\ ~r.doubt

(* What inspectOwnerRouteDispatch finds: no active binding is a denial,    *)
(* otherwise the exact Policy recheck decides.                             *)
inspectOwnerRouteDispatch(m, verdict) ==
  IF bind[LaneOf[m]].active THEN verdict ELSE "denied"

DueRoute(m, r) ==
  m \in Routes /\ r.status \in {"pending", "retry_wait"} /\ r.due

(* A due owner route before its claim: deferred, dead-lettered with an     *)
(* audit attempt, or rebound to the current generation.                    *)
MaintainRoute(m, r, verdict) ==
  CASE verdict = "deferred" -> [r EXCEPT !.status = "retry_wait", !.due = FALSE]
    [] verdict = "authorized" /\ ownerRouteIsProvablyUnsent(r) ->
         [r EXCEPT !.gen = bind[LaneOf[m]].generation]
    [] OTHER -> [Kill(r) EXCEPT !.sends = @ + 1, !.decision = "none"]

Maintain(m, r, verdict) ==
  IF Doomed(m, r) THEN Kill(r)
  ELSE IF DueRoute(m, r)
       THEN MaintainRoute(m, r, inspectOwnerRouteDispatch(m, verdict))
       ELSE r

AheadBugIgnoresOrder(m) == {}
Ahead(m) == {e \in 1..(m - 1) : LaneOf[e] = LaneOf[m]
                                /\ (draining => e \in Maintenance)}
LaneFreeBugUnchecked(rows, m) == TRUE
LaneFree(rows, m) ==
  \A a \in Msgs : LaneOf[a] = LaneOf[m] => rows[a].status # "attempting"
\* Under the restart fence only maintenance acknowledgements are sent.
AdmittedBugNoFence(m, r) == TRUE
Admitted(m, r) ==
  draining => m \in Maintenance /\ r.status # "unknown_after_send"

(* The candidate query of claimOutbox over the maintained rows.  A route   *)
(* row that is still due there is one whose authority was just validated.  *)
Claimable(rows, m) ==
  LET r == rows[m] IN
  /\ r.status \in {"pending", "retry_wait", "unknown_after_send"}
  /\ r.claimedBy = NoOwner /\ ~Cancelled(r) /\ r.due
  /\ r.status = "retry_wait" => r.sends < MaxAttempts
  /\ r.status = "unknown_after_send" =>
       r.recons < MaxAttempts /\ LaneOf[m] \in ReconLanes
  /\ BindingActive(m, r) \/ (m \in Routes /\ r.status = "unknown_after_send")
  /\ Admitted(m, r) /\ LaneFree(rows, m)
  /\ \A e \in Ahead(m) : Quiet(rows[e])

ModeBugReadAfterUpdate(r) == "send"
Mode(r) == IF r.status = "unknown_after_send" THEN "reconcile" ELSE "send"
Claim(r, h) ==
  [r EXCEPT !.status = "attempting", !.claimedBy = h,
            !.token = AttemptCount(r) + 1, !.live = TRUE, !.due = TRUE,
            !.open = TRUE, !.decision = "none",
            !.sends = @ + (IF Mode(r) = "send" THEN 1 ELSE 0),
            !.recons = @ + (IF Mode(r) = "send" THEN 0 ELSE 1)]

CurrentBugIgnoresLease(h, m) ==
  /\ box[m].status = "attempting" /\ box[m].claimedBy = h
  /\ box[m].token = job[h][m].token
(* The claim h works on is still its own (the WHERE of finishOutbox).      *)
Current(h, m) ==
  /\ box[m].status = "attempting" /\ box[m].claimedBy = h
  /\ box[m].token = job[h][m].token /\ box[m].live

CloseBugLedgerStaysOpen(r, outcome, pid) ==
  [ClearClaim(r) EXCEPT
     !.status = outcome, !.due = (outcome # "retry_wait"),
     !.pid = IF pid = 0 THEN @ ELSE pid]
Close(r, outcome, pid) ==
  [ClearClaim(r) EXCEPT
     !.status = outcome, !.due = (outcome # "retry_wait"), !.open = FALSE,
     !.doubt = @ \/ outcome \in {"accepted", "unknown_after_send"},
     !.pid = IF pid = 0 THEN @ ELSE pid]

(* finishOutbox: the operation ends; a stale fence leaves the row alone.   *)
finishOutbox(h, m, outcome, pid) ==
  /\ job' = [job EXCEPT ![h][m] = Idle]
  /\ box' = IF Current(h, m)
            THEN [box EXCEPT ![m] = Close(@, outcome, pid)] ELSE box

Rank(s) == CASE s = "accepted" -> 1 [] s = "delivered" -> 2
             [] s = "read" -> 3 [] OTHER -> 0
RaiseBugLastWins(r, s) == [ClearClaim(r) EXCEPT !.status = s, !.due = TRUE]
Raise(r, s) ==
  IF Rank(s) > Rank(r.status)
  THEN [ClearClaim(r) EXCEPT !.status = s, !.due = TRUE] ELSE r

-----------------------------------------------------------------------------
(* The Host.                                                               *)

Active(h) == {m \in Msgs : job[h][m].phase # "idle"}
\* tick calls process synchronously up to the adapter's promise: until the
\* claims of one tick are dispatched the Host's event loop runs nothing else.
Dispatching(h) == {m \in Msgs : job[h][m].phase = "claimed"}

First(set, k) == {m \in set : Cardinality({n \in set : n < m}) < k}

(* DeliveryCoordinator.tick: recoverOutbox, then, with capacity left, one  *)
(* claimOutbox transaction; each claim becomes an active operation.        *)
Tick(h, verdict) ==
  /\ Dispatching(h) = {}
  /\ LET recovered == [m \in Msgs |-> recoverOutbox(box[m])]
         rows == IF draining THEN recovered
                 ELSE [m \in Msgs |-> Maintain(m, recovered[m], verdict[m])]
         free == MaxConcurrency - Cardinality(Active(h))
         taken == First({m \in Msgs \ Active(h) : Claimable(rows, m)}, free)
     IN IF free <= 0
        THEN box' = recovered /\ UNCHANGED job
        ELSE /\ box' = [m \in Msgs |->
                          IF m \in taken THEN Claim(rows[m], h) ELSE rows[m]]
             /\ job' = [job EXCEPT ![h] = [m \in Msgs |->
                  IF m \in taken
                  THEN [phase |-> "claimed", mode |-> Mode(rows[m]),
                        token |-> AttemptCount(rows[m]) + 1]
                  ELSE job[h][m]]]
  /\ UNCHANGED <<bind, draining, wire, landed>>

Turn(h, m) ==
  /\ job[h][m].phase = "claimed"
  /\ \A n \in Dispatching(h) : m <= n

(* process without an adapter call.  A reconcile finds the adapter gone or *)
(* no longer reconciling (unknown), or not rendering the format (dead).  A *)
(* send is put off (adapter gone, a check that throws, a deferred route, a *)
(* notice refused for now) or refused (format, revoked binding or          *)
(* principal, denied route, stale notice).                                 *)
Refuse(h, m) ==
  /\ Turn(h, m)
  /\ \E outcome \in IF job[h][m].mode = "reconcile"
                    THEN {"unknown_after_send", "dead"}
                    ELSE {"retry_wait", "dead"} :
       finishOutbox(h, m, outcome, 0)
  /\ UNCHANGED <<bind, draining, wire, landed>>

(* validateClaimedOwnerRoute, and the binding check of a plain message.    *)
MaySend(h, m) ==
  IF m \in Routes
  THEN /\ box[m].status = "attempting" /\ box[m].claimedBy = h
       /\ box[m].token = job[h][m].token
       /\ inspectOwnerRouteDispatch(m, "authorized") = "authorized"
  ELSE BindingActive(m, box[m])

CallAdapter(h, m) ==
  /\ Turn(h, m)
  /\ job[h][m].mode = "send" => MaySend(h, m)
  /\ job' = [job EXCEPT ![h][m] = [@ EXCEPT !.phase = "calling"]]
  /\ wire' = IF job[h][m].mode = "send"
             THEN [wire EXCEPT ![m] = @ \cup {job[h][m].token}] ELSE wire
  /\ UNCHANGED <<box, bind, draining, landed>>

(* adapter.send settles: accepted with a provider message id, a provable   *)
(* not-sent, or unknown (also when it throws).                             *)
SendReturns(h, m) ==
  /\ job[h][m].phase = "calling" /\ job[h][m].mode = "send"
  /\ Dispatching(h) = {}
  /\ LET a == job[h][m].token IN
     \/ a \in landed[m] /\ finishOutbox(h, m, "accepted", a)
     \/ /\ a \notin landed[m] \cup wire[m]
        /\ \E outcome \in {"retry_wait", "dead"} : finishOutbox(h, m, outcome, 0)
     \/ \E pid \in {0} \cup (landed[m] \cap {a}) :
          finishOutbox(h, m, "unknown_after_send", pid)
  /\ UNCHANGED <<bind, draining, wire, landed>>

(* reconcileUnknownSend settles (finishReconcile): a found copy is         *)
(* finished as accepted and its receipt recorded; a reconciled not-sent    *)
(* ends an owner route and requeues a plain message.                       *)
ReconcileReturns(h, m) ==
  /\ job[h][m].phase = "calling" /\ job[h][m].mode = "reconcile"
  /\ Dispatching(h) = {}
  /\ \/ \E pid \in landed[m], s \in {"accepted", "delivered", "read"} :
          /\ job' = [job EXCEPT ![h][m] = Idle]
          /\ box' = IF Current(h, m)
                    THEN [box EXCEPT ![m] = Raise(Close(@, "accepted", pid), s)]
                    ELSE box
     \/ /\ landed[m] = {}
        /\ RacyReconcile \/ wire[m] = {}
        /\ finishOutbox(h, m, IF m \in Routes THEN "dead" ELSE "retry_wait", 0)
     \/ finishOutbox(h, m, "unknown_after_send", 0)
  /\ UNCHANGED <<bind, draining, wire, landed>>

(* The heartbeat finds the lease lost, or the renewal throws: the call is  *)
(* aborted, its result will be dropped.                                    *)
Abort(h, m) ==
  /\ job[h][m].phase = "calling" /\ Dispatching(h) = {}
  /\ job' = [job EXCEPT ![h][m] = [@ EXCEPT !.phase = "dropped"]]
  /\ UNCHANGED <<box, bind, draining, wire, landed>>

AbortedReturns(h, m) ==
  /\ job[h][m].phase = "dropped" /\ Dispatching(h) = {}
  /\ job' = [job EXCEPT ![h][m] = Idle]
  /\ UNCHANGED <<box, bind, draining, wire, landed>>

(* A crash, or stop followed by a new start: every operation is forgotten. *)
(* An aborted call that outlives stop's bounded drain can only still land. *)
Crash(h) ==
  /\ Active(h) # {}
  /\ job' = [job EXCEPT ![h] = [m \in Msgs |-> Idle]]
  /\ UNCHANGED <<box, bind, draining, wire, landed>>

-----------------------------------------------------------------------------
(* Time, the provider, producers and the operator.                         *)

Lapse(m) ==
  /\ box[m].status = "attempting" /\ box[m].live
  /\ box' = [box EXCEPT ![m].live = FALSE]
  /\ UNCHANGED <<bind, draining, job, wire, landed>>

Attended(m) ==
  \E h \in Hosts : Current(h, m) /\ job[h][m].phase \in {"claimed", "calling"}

(* A lease runs out while no operation renews it ...                       *)
LapseUnattended(m) == ~Attended(m) /\ Lapse(m)
(* ... or while the Host that should renew it is stalled.                  *)
LapseStalled(m) ==
  /\ \E h \in Hosts : Current(h, m) /\ \/ job[h][m].phase = "calling"
                                       \/ /\ StalledDispatch
                                          /\ job[h][m].phase = "claimed"
  /\ Lapse(m)

BackoffElapses(m) ==
  /\ ~box[m].due
  /\ box' = [box EXCEPT ![m].due = TRUE]
  /\ UNCHANGED <<bind, draining, job, wire, landed>>

Land(m, a) ==
  /\ a \in wire[m]
  /\ wire' = [wire EXCEPT ![m] = @ \ {a}]
  /\ landed' = [landed EXCEPT ![m] = @ \cup {a}]
  /\ UNCHANGED <<box, bind, draining, job>>

Lose(m, a) ==
  /\ a \in wire[m]
  /\ wire' = [wire EXCEPT ![m] = @ \ {a}]
  /\ UNCHANGED <<box, bind, draining, job, landed>>

recordReceiptBugAnyMessage(m, s) ==
  /\ box[m].status # "absent"
  /\ box' = [box EXCEPT ![m] = Raise(@, s)]
  /\ UNCHANGED <<bind, draining, job, wire, landed>>
(* A receipt matches a row by its provider message id.                     *)
recordReceipt(m, s) ==
  /\ box[m].pid # 0
  /\ box' = [box EXCEPT ![m] = Raise(@, s)]
  /\ UNCHANGED <<bind, draining, job, wire, landed>>

(* enqueueIntent and enqueueOwnerRoute insert a pending row under an       *)
(* active binding; a replayed key returns the row it finds.                *)
enqueue(m) ==
  /\ box[m].status = "absent" /\ \A n \in 1..(m - 1) : box[n].status # "absent"
  /\ bind[LaneOf[m]].active
  /\ box' = [box EXCEPT ![m] = [Absent EXCEPT !.status = "pending",
                                !.gen = bind[LaneOf[m]].generation]]
  /\ UNCHANGED <<bind, draining, job, wire, landed>>

(* resolveOutbox: one decision per (message, attempt_count), on a dead or  *)
(* unknown row; an unknown owner route is never retried.                   *)
Resolvable(m) ==
  box[m].status \in {"dead", "unknown_after_send"} /\ box[m].decision = "none"

OperatorCancel(m) ==
  /\ Resolvable(m)
  /\ box' = [box EXCEPT ![m].decision = "cancel", ![m].due = TRUE]
  /\ UNCHANGED <<bind, draining, job, wire, landed>>

OperatorRetryBugRewinds(m) ==
  /\ Resolvable(m) /\ box[m].retries < MaxRetries[m]
  /\ ~(m \in Routes /\ box[m].status = "unknown_after_send")
  /\ BindingActive(m, box[m])
  /\ box' = [box EXCEPT ![m].status = "pending", ![m].decision = "retry",
                        ![m].due = TRUE, ![m].retries = @ + 1,
                        ![m].sends = @ - MaxAttempts]
  /\ UNCHANGED <<bind, draining, job, wire, landed>>
OperatorRetry(m) ==
  /\ Resolvable(m) /\ box[m].retries < MaxRetries[m]
  /\ ~(m \in Routes /\ box[m].status = "unknown_after_send")
  /\ BindingActive(m, box[m])
  /\ box' = [box EXCEPT ![m].status = "pending", ![m].decision = "retry",
                        ![m].due = TRUE, ![m].retries = @ + 1]
  /\ UNCHANGED <<bind, draining, job, wire, landed>>

rotateBinding(l) ==
  /\ bind[l].active /\ bind[l].generation < MaxGen
  /\ bind' = [bind EXCEPT ![l].generation = @ + 1]
  /\ UNCHANGED <<box, draining, job, wire, landed>>

revokePrincipal(l) ==
  /\ bind[l].active
  /\ bind' = [bind EXCEPT ![l].active = FALSE]
  /\ UNCHANGED <<box, draining, job, wire, landed>>

createBinding(l) ==
  /\ ~bind[l].active /\ bind[l].generation < MaxGen
  /\ bind' = [bind EXCEPT ![l] = [active |-> TRUE, generation |-> @.generation + 1]]
  /\ UNCHANGED <<box, draining, job, wire, landed>>

setRestartFence ==
  /\ MayDrain /\ ~draining /\ draining' = TRUE
  /\ UNCHANGED <<box, bind, job, wire, landed>>

clearRestartFence ==
  /\ draining /\ draining' = FALSE
  /\ UNCHANGED <<box, bind, job, wire, landed>>

-----------------------------------------------------------------------------
Init ==
  /\ box = [m \in Msgs |-> Absent]
  /\ bind = [l \in Lanes |-> [active |-> TRUE, generation |-> 1]]
  /\ draining = FALSE
  /\ job = [h \in Hosts |-> [m \in Msgs |-> Idle]]
  /\ wire = [m \in Msgs |-> {}]
  /\ landed = [m \in Msgs |-> {}]

HostStep(h) ==
  \/ \E verdict \in [Routes -> Verdicts] : Tick(h, verdict)
  \/ \E m \in Msgs : \/ Refuse(h, m) \/ CallAdapter(h, m)
                     \/ SendReturns(h, m) \/ ReconcileReturns(h, m)
                     \/ Abort(h, m) \/ AbortedReturns(h, m)
  \/ Crash(h)

MessageStep(m) ==
  \/ LapseUnattended(m) \/ LapseStalled(m) \/ BackoffElapses(m)
  \/ \E a \in wire[m] : Land(m, a) \/ Lose(m, a)
  \/ \E s \in {"accepted", "delivered", "read"} : recordReceipt(m, s)
  \/ enqueue(m) \/ OperatorCancel(m) \/ OperatorRetry(m)

Next ==
  \/ \E h \in Hosts : HostStep(h)
  \/ \E m \in Msgs : MessageStep(m)
  \/ \E l \in Lanes : rotateBinding(l) \/ revokePrincipal(l) \/ createBinding(l)
  \/ setRestartFence \/ clearRestartFence

Spec == Init /\ [][Next]_vars

(* The tick timer, adapter calls that return, leases that run out when     *)
(* nobody renews them, and backoffs that elapse.                           *)
Fairness ==
  /\ \A h \in Hosts :
       /\ WF_vars(\E verdict \in [Routes -> Verdicts] : Tick(h, verdict))
       /\ \A m \in Msgs :
            /\ WF_vars(Refuse(h, m) \/ CallAdapter(h, m))
            /\ WF_vars(SendReturns(h, m) \/ ReconcileReturns(h, m))
            /\ WF_vars(AbortedReturns(h, m))
  /\ \A m \in Msgs : WF_vars(LapseUnattended(m)) /\ WF_vars(BackoffElapses(m))

FairSpec == Spec /\ Fairness

-----------------------------------------------------------------------------
(* Every row, operation and binding is well formed.                        *)
TypeOK ==
  /\ box \in [Msgs -> Row]
  /\ bind \in [Lanes -> [active : BOOLEAN, generation : Nat]]
  /\ draining \in BOOLEAN
  /\ job \in [Hosts -> [Msgs -> Job]]
  /\ wire \in [Msgs -> SUBSET Nat] /\ landed \in [Msgs -> SUBSET Nat]

(* The claim columns and the attempts ledger agree: a row is claimed       *)
(* exactly while it is 'attempting', its token is its latest attempt       *)
(* number, and that attempt is the open ledger row.  Only a receipt that   *)
(* settles a row under a running attempt may leave the ledger row open.    *)
ClaimMatchesLedger ==
  \A m \in Msgs : LET r == box[m] IN
    IF r.status = "attempting"
    THEN r.claimedBy \in Hosts /\ r.token = AttemptCount(r) /\ r.open
    ELSE /\ r.claimedBy = NoOwner /\ r.token = 0 /\ ~r.live
         /\ r.open => r.status \in {"accepted", "delivered", "read"}

(* A conversation lane never has two attempts running, whatever Hosts,     *)
(* expired leases and operator retries do.                                 *)
LaneExclusive ==
  \A m, n \in Msgs :
    /\ m # n /\ LaneOf[m] = LaneOf[n] /\ box[m].status = "attempting"
    => box[n].status # "attempting"

Started(m) == box[m].status = "attempting" \/ wire[m] \cup landed[m] # {}

(* Order in a lane: a message is not attempted, let alone on its way to    *)
(* the provider, before everything queued earlier in the lane has settled  *)
(* or was cancelled.  Excepted: an earlier message an operator revived,    *)
(* and maintenance acknowledgements, which may overtake while draining.    *)
InOrder ==
  \A e, m \in Msgs :
    /\ e < m /\ LaneOf[e] = LaneOf[m] /\ Started(m)
    /\ box[e].retries = 0 /\ m \notin Maintenance
    => Quiet(box[e])

(* At most one copy reaches the provider, plus one for every retry an      *)
(* operator asked for (README: an unknown send is never repeated           *)
(* automatically).                                                         *)
AtMostOncePerGrant ==
  \A m \in Msgs : Cardinality(landed[m]) <= 1 + box[m].retries

(* A message that waits to be sent was never accepted and is not under     *)
(* way, unless an operator chose to send it again.                         *)
WaitingIsUnsent ==
  \A m \in Msgs :
    box[m].status \in {"pending", "retry_wait"} /\ box[m].retries = 0
    => wire[m] \cup landed[m] = {}

(* An owner route is put on the wire once: even a stalled Host, a provider *)
(* that reconciles too early or an operator retry of the dead row cannot   *)
(* produce a second copy.                                                  *)
RouteAtMostOnce ==
  \A m \in Routes : Cardinality(wire[m] \cup landed[m]) <= 1

(* A row that claims acceptance names a copy the provider really accepted. *)
AcceptedIsReal ==
  \A m \in Msgs :
    box[m].status \in {"accepted", "delivered", "read"} => box[m].pid \in landed[m]

(* However far a Host stalls or a provider reconciles too early: no more   *)
(* copies get on their way than sends were claimed, and retries are        *)
(* bounded, by MaxAttempts sends, one more per operator retry, and         *)
(* MaxAttempts reconciles.                                                 *)
AttemptsBounded ==
  \A m \in Msgs : /\ Cardinality(wire[m] \cup landed[m]) <= box[m].sends
                  /\ box[m].sends <= MaxAttempts + box[m].retries
                  /\ box[m].recons <= MaxAttempts

(* Only the current holder of an unexpired claim settles it; otherwise it  *)
(* ends because it expired, and is then remembered as in doubt, or by a    *)
(* provider receipt.                                                       *)
OnlyHolderSettles ==
  [][\A m \in Msgs :
       /\ box[m].status = "attempting"
       /\ box'[m].status # "attempting" \/ box'[m].token # box[m].token
       => \/ /\ box[m].live
             /\ \E h \in Hosts : /\ box[m].claimedBy = h
                                 /\ job[h][m].token = box[m].token
                                 /\ job'[h][m] = Idle
          \/ ~box[m].live /\ box'[m].doubt
          \/ box[m].pid # 0 /\ box'[m].status \in {"accepted", "delivered", "read"}
    ]_vars

(* What is known of a message only improves: receipts raise it, nothing    *)
(* lowers it, and a dead letter comes back only when an operator retries   *)
(* it or the provider reports it.                                          *)
OutcomeMonotone ==
  [][\A m \in Msgs :
       /\ Rank(box[m].status) <= Rank(box'[m].status)
       /\ Rank(box[m].status) > 0 => box'[m].pid = box[m].pid
       /\ box[m].status = "dead" /\ box'[m].status # "dead" =>
            \/ Rank(box'[m].status) > 0
            \/ box'[m].status = "pending" /\ box'[m].retries = box[m].retries + 1
    ]_vars

(* While the restart fence is up no ordinary message starts an attempt,    *)
(* and none is dead-lettered by the authority and binding rechecks.        *)
DrainStartsNothing ==
  [][draining => \A m \in Msgs \ Maintenance :
       /\ box'[m].status = "attempting" => box[m].status = "attempting"
       /\ box[m].status = "pending" =>
            box'[m].status \in {"pending", "accepted", "delivered", "read"}
    ]_vars

(* Whatever health() counts as actionable (dead or unknown and not         *)
(* cancelled) can still be decided by the operator: resolveOutbox refuses  *)
(* a second decision on the same attempt count.                            *)
ActionableIsDecidable ==
  \A m \in Msgs :
    /\ box[m].status \in {"dead", "unknown_after_send"} /\ ~Cancelled(box[m])
    => Resolvable(m)

(* An unknown whose adapter cannot reconcile stays until an operator       *)
(* decides, and everything behind it in the lane waits with it.            *)
Parked(m) == box[m].status = "unknown_after_send" /\ LaneOf[m] \notin ReconLanes
Resting(m) ==
  \/ Quiet(box[m]) \/ Parked(m)
  \/ \E e \in 1..(m - 1) :
       LaneOf[e] = LaneOf[m] /\ Parked(e) /\ ~Cancelled(box[e])

(* Every queued message settles, or its lane is parked for an operator, or *)
(* the restart fence goes up, through crashes, lost leases, lost sends and *)
(* inconclusive reconciles.                                                *)
Settles == \A m \in Msgs : box[m].status = "pending" ~> Resting(m) \/ draining

=============================================================================
