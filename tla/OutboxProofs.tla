---------------------------- MODULE OutboxProofs ----------------------------
(***************************************************************************)
(* The Outbox ledger for any number of Hosts, messages, lanes and attempts *)
(* (Outbox.tla): rows stay well formed, the claim columns agree with the   *)
(* attempts ledger, sends and reconciles stay within their budgets, and a  *)
(* lane has one attempt at a time.                                         *)
(***************************************************************************)
EXTENDS Outbox, TLAPS

(* What holds of one row: its type, the agreement of its claim with its    *)
(* ledger, and its attempt bounds.  A pending row has a send left; without *)
(* that an operator retry followed by a claim would exceed the bound.      *)
Matches(r) ==
  IF r.status = "attempting"
  THEN r.claimedBy \in Hosts /\ r.token = AttemptCount(r) /\ r.open
  ELSE /\ r.claimedBy = NoOwner /\ r.token = 0 /\ ~r.live
       /\ r.open => r.status \in {"accepted", "delivered", "read"}
Bounded(r) ==
  /\ r.sends <= MaxAttempts + r.retries /\ r.recons <= MaxAttempts
  /\ r.status = "pending" => r.sends < MaxAttempts + r.retries
RowOK(r) == r \in Row /\ Matches(r) /\ Bounded(r)

IInv == TypeOK /\ (\A m \in Msgs : RowOK(box[m])) /\ LaneExclusive

\* The claims of one step are disjoint from the attempts already running.
StartsNone == \A m \in Msgs : box'[m].status = "attempting" => box[m].status = "attempting"

-----------------------------------------------------------------------------
(* Row operators keep a row well formed.                                   *)

(* Dead-lettering a row that waits.                                        *)
LEMMA KillKeeps ==
  ASSUME NEW r, RowOK(r), r.status \in {"pending", "retry_wait", "unknown_after_send"}
  PROVE  RowOK(Kill(r)) /\ Kill(r).status = "dead"
<1>1. /\ Kill(r) \in Row /\ Kill(r).status = "dead" /\ Kill(r).claimedBy = r.claimedBy
      /\ Kill(r).token = r.token /\ Kill(r).live = r.live /\ Kill(r).open = r.open
      /\ Kill(r).sends = r.sends /\ Kill(r).recons = r.recons
      /\ Kill(r).retries = r.retries
  BY DEF RowOK, Kill, Row, Statuses
<1> QED BY <1>1 DEF RowOK, Matches, Bounded

(* The expiry of a lease (recoverOutbox).                                  *)
LEMMA ExpireKeeps ==
  ASSUME NEW r, RowOK(r)
  PROVE  RowOK(Expire(r)) /\ (Expire(r).status = "attempting" => r.status = "attempting")
<1>1. CASE r.status = "attempting" /\ ~r.live
  <2> DEFINE e == Expire(r)
  <2>1. /\ e \in Row /\ e.status = "unknown_after_send" /\ e.claimedBy = NoOwner
        /\ e.token = 0 /\ ~e.live /\ ~e.open /\ e.sends = r.sends
        /\ e.recons = r.recons /\ e.retries = r.retries
    BY <1>1 DEF RowOK, Expire, ClearClaim, Row, Statuses
  <2> QED BY <2>1 DEF RowOK, Matches, Bounded
<1>2. CASE ~(r.status = "attempting" /\ ~r.live)
  BY <1>2 DEF Expire
<1> QED BY <1>1, <1>2

(* recoverOutbox keeps a row well formed and starts no attempt.            *)
LEMMA RecoverKeeps ==
  ASSUME NEW r, RowOK(r)
  PROVE  /\ RowOK(recoverOutbox(r))
         /\ recoverOutbox(r).status = "attempting" => r.status = "attempting"
BY ExpireKeeps, KillKeeps DEF recoverOutbox, Exhausted

(* The bulk updates of claimOutbox and the maintenance of owner routes     *)
(* never touch a running attempt, and the audit attempt a denied route     *)
(* gets stays within its bound.                                            *)
LEMMA MaintainKeeps ==
  ASSUME NEW r, RowOK(r), NEW m \in Msgs, NEW v, TypeOK
  PROVE  /\ RowOK(Maintain(m, r, v))
         /\ Maintain(m, r, v).status = "attempting" => r.status = "attempting"
<1>1. CASE Doomed(m, r)
  BY <1>1, KillKeeps DEF Maintain, Doomed, Exhausted
<1>2. CASE ~Doomed(m, r) /\ DueRoute(m, r)
  <2> DEFINE w == inspectOwnerRouteDispatch(m, v)
             n == MaintainRoute(m, r, w)
  <2>1. r.status \in {"pending", "retry_wait"} /\ r \in Row /\ Matches(r) /\ Bounded(r)
    BY <1>2 DEF DueRoute, RowOK
  <2>2. r.sends < MaxAttempts + r.retries
    <3>1. r.sends \in Nat /\ r.retries \in Nat /\ MaxAttempts \in Nat
      BY <2>1, OutboxAssumption DEF Row
    <3>2. r.status = "retry_wait" => r.sends < MaxAttempts
      BY <1>2, <3>1 DEF Doomed, Exhausted, DueRoute
    <3> QED BY <2>1, <3>1, <3>2 DEF Bounded
  <2>3. CASE w = "deferred"
    <3>1. n = [r EXCEPT !.status = "retry_wait", !.due = FALSE]
      BY <2>3 DEF MaintainRoute
    <3>2. /\ n \in Row /\ n.status = "retry_wait" /\ n.claimedBy = r.claimedBy
          /\ n.token = r.token /\ n.live = r.live /\ n.open = r.open
          /\ n.sends = r.sends /\ n.recons = r.recons /\ n.retries = r.retries
      BY <2>1, <3>1 DEF Row, Statuses
    <3>3. RowOK(n) /\ n.status # "attempting"
      BY <2>1, <3>2 DEF RowOK, Matches, Bounded
    <3> QED BY <1>2, <3>3 DEF Maintain
  <2>4. CASE w = "authorized" /\ ownerRouteIsProvablyUnsent(r)
    <3>1. n = [r EXCEPT !.gen = bind[LaneOf[m]].generation]
      BY <2>4 DEF MaintainRoute
    <3>2. bind[LaneOf[m]].generation \in Nat
      BY OutboxAssumption DEF TypeOK
    <3>3. /\ n \in Row /\ n.status = r.status /\ n.claimedBy = r.claimedBy
          /\ n.token = r.token /\ n.live = r.live /\ n.open = r.open
          /\ n.sends = r.sends /\ n.recons = r.recons /\ n.retries = r.retries
      BY <2>1, <3>1, <3>2 DEF Row
    <3>4. RowOK(n) /\ n.status # "attempting"
      BY <2>1, <3>3 DEF RowOK, Matches, Bounded
    <3> QED BY <1>2, <3>4 DEF Maintain
  <2>5. CASE w # "deferred" /\ ~(w = "authorized" /\ ownerRouteIsProvablyUnsent(r))
    <3>1. n = [Kill(r) EXCEPT !.sends = @ + 1, !.decision = "none"]
      BY <2>5 DEF MaintainRoute
    <3>2. r.sends + 1 \in Nat
      BY <2>1 DEF Row
    <3>3. /\ n \in Row /\ n.status = "dead" /\ n.claimedBy = r.claimedBy
          /\ n.token = r.token /\ n.live = r.live /\ n.open = r.open
          /\ n.sends = r.sends + 1 /\ n.recons = r.recons /\ n.retries = r.retries
      BY <2>1, <3>1, <3>2 DEF Kill, Row, Statuses
    <3>4. r.sends + 1 <= MaxAttempts + r.retries
      BY <2>1, <2>2, OutboxAssumption DEF Row
    <3>5. RowOK(n) /\ n.status # "attempting"
      BY <2>1, <3>3, <3>4 DEF RowOK, Matches, Bounded
    <3> QED BY <1>2, <3>5 DEF Maintain
  <2> QED BY <2>3, <2>4, <2>5
<1>3. CASE ~Doomed(m, r) /\ ~DueRoute(m, r)
  BY <1>3 DEF Maintain
<1> QED BY <1>1, <1>2, <1>3

(* A claim starts an attempt the bounds allow.                             *)
LEMMA ClaimKeeps ==
  ASSUME NEW rows, NEW m \in Msgs, RowOK(rows[m]), Claimable(rows, m), NEW h \in Hosts
  PROVE  RowOK(Claim(rows[m], h))
<1> DEFINE r == rows[m]
           c == Claim(r, h)
           s == IF Mode(r) = "send" THEN 1 ELSE 0
           k == IF Mode(r) = "send" THEN 0 ELSE 1
<1>1. /\ r \in Row /\ r.sends \in Nat /\ r.recons \in Nat /\ r.retries \in Nat
      /\ MaxAttempts \in Nat
  BY OutboxAssumption DEF RowOK, Row
<1>2. /\ r.sends + s \in Nat /\ r.recons + k \in Nat
      /\ r.sends + r.recons + 1 = (r.sends + s) + (r.recons + k)
      /\ r.sends + r.recons + 1 \in Nat
  BY <1>1
<1>3. r.sends + s <= MaxAttempts + r.retries /\ r.recons + k <= MaxAttempts
  <2>1. r.sends <= MaxAttempts + r.retries /\ r.recons <= MaxAttempts
        /\ (r.status = "pending" => r.sends < MaxAttempts + r.retries)
    BY DEF RowOK, Bounded
  <2>2. CASE r.status = "unknown_after_send"
    <3>1. r.recons < MaxAttempts
      BY <2>2 DEF Claimable
    <3>2. s = 0 /\ k = 1
      BY <2>2 DEF Mode
    <3> HIDE DEF s, k
    <3> QED BY <1>1, <2>1, <3>1, <3>2
  <2>3. CASE r.status \in {"pending", "retry_wait"}
    <3>1. r.sends < MaxAttempts + r.retries
      BY <1>1, <2>1, <2>3 DEF Claimable
    <3>2. s = 1 /\ k = 0
      BY <2>3 DEF Mode
    <3> HIDE DEF s, k
    <3> QED BY <1>1, <2>1, <3>1, <3>2
  <2> QED BY <2>2, <2>3 DEF Claimable
<1>4. /\ c \in Row /\ c.status = "attempting" /\ c.claimedBy = h
      /\ c.token = r.sends + r.recons + 1 /\ c.open /\ c.sends = r.sends + s
      /\ c.recons = r.recons + k /\ c.retries = r.retries
  BY <1>1, <1>2 DEF Claim, AttemptCount, Row, Statuses
<1> QED BY <1>2, <1>3, <1>4 DEF RowOK, Matches, Bounded, AttemptCount

(* finishOutbox ends the attempt.                                          *)
LEMMA CloseKeeps ==
  ASSUME NEW r, RowOK(r), r.status = "attempting", NEW pid \in Nat,
         NEW o \in {"accepted", "retry_wait", "unknown_after_send", "dead"}
  PROVE  RowOK(Close(r, o, pid)) /\ Close(r, o, pid).status = o
<1> DEFINE c == Close(r, o, pid)
<1> DEFINE b == ClearClaim(r)
           doubt == b.doubt \/ o \in {"accepted", "unknown_after_send"}
           p == IF pid = 0 THEN b.pid ELSE pid
<1>0. /\ b \in Row /\ b.claimedBy = NoOwner /\ b.token = 0 /\ ~b.live
      /\ b.sends = r.sends /\ b.recons = r.recons /\ b.retries = r.retries
  BY DEF RowOK, ClearClaim, Row
<1>1. /\ c \in Row /\ c.status = o /\ c.claimedBy = NoOwner /\ c.token = 0
      /\ ~c.live /\ ~c.open /\ c.sends = r.sends /\ c.recons = r.recons
      /\ c.retries = r.retries
  <2>1. c = [b EXCEPT !.status = o, !.due = (o # "retry_wait"), !.open = FALSE,
                      !.doubt = doubt, !.pid = p]
    BY DEF Close
  <2>2. doubt \in BOOLEAN /\ p \in Nat /\ (o # "retry_wait") \in BOOLEAN
    BY <1>0 DEF Row
  <2> HIDE DEF b, doubt, p, c
  <2> QED BY <1>0, <2>1, <2>2 DEF Row, Statuses
<1> QED BY <1>1 DEF RowOK, Matches, Bounded

(* A receipt ends an attempt or raises a settled row.                      *)
LEMMA RaiseKeeps ==
  ASSUME NEW r, RowOK(r), NEW s \in {"accepted", "delivered", "read"}
  PROVE  RowOK(Raise(r, s)) /\ (Raise(r, s).status = "attempting" => r.status = "attempting")
<1>1. CASE Rank(s) > Rank(r.status)
  <2> DEFINE c == Raise(r, s)
  <2>1. /\ c \in Row /\ c.status = s /\ c.claimedBy = NoOwner /\ c.token = 0
        /\ ~c.live /\ c.sends = r.sends /\ c.recons = r.recons
        /\ c.retries = r.retries
    BY <1>1 DEF RowOK, Raise, ClearClaim, Row, Statuses
  <2> QED BY <2>1 DEF RowOK, Matches, Bounded
<1>2. CASE ~(Rank(s) > Rank(r.status))
  BY <1>2 DEF Raise
<1> QED BY <1>1, <1>2

-----------------------------------------------------------------------------
(* Actions.                                                                *)

(* The initial database.                                                   *)
LEMMA InitIInv == Init => IInv
<1> SUFFICES ASSUME Init PROVE IInv
  OBVIOUS
<1>1. Absent \in Row /\ RowOK(Absent) /\ Absent.status = "absent"
  BY OutboxAssumption DEF Absent, Row, Statuses, RowOK, Matches, Bounded
<1>2. \A m \in Msgs : box[m] = Absent
  BY DEF Init
<1>3. TypeOK
  BY <1>1 DEF Init, TypeOK, Idle, Job, Phases
<1>4. LaneExclusive
  BY <1>1, <1>2 DEF LaneExclusive
<1> QED BY <1>1, <1>2, <1>3, <1>4 DEF IInv

(* A step that changes rows one at a time and starts no attempt.           *)
LEMMA StartsNoneKeeps ==
  ASSUME IInv, TypeOK', \A m \in Msgs : RowOK(box'[m]), StartsNone
  PROVE  IInv'
BY DEF IInv, LaneExclusive, StartsNone

(* A step that updates a single row.                                       *)
LEMMA OneRowKeeps ==
  ASSUME IInv, NEW m \in Msgs, NEW r, RowOK(r),
         r.status = "attempting" => box[m].status = "attempting",
         box' = [box EXCEPT ![m] = r],
         UNCHANGED <<bind, draining>>, job' \in [Hosts -> [Msgs -> Job]],
         wire' \in [Msgs -> SUBSET Nat], landed' \in [Msgs -> SUBSET Nat]
  PROVE  IInv'
<1>1. r \in Row /\ TypeOK
  BY DEF RowOK, IInv
<1>2. \A n \in Msgs : box'[n] = IF n = m THEN r ELSE box[n]
  BY <1>1 DEF TypeOK
<1>3. TypeOK'
  BY <1>1 DEF TypeOK
<1>4. StartsNone /\ \A n \in Msgs : RowOK(box'[n])
  BY <1>2 DEF StartsNone, IInv
<1> QED BY <1>3, <1>4, StartsNoneKeeps

(* A step that leaves the rows alone.                                      *)
LEMMA NoRowKeeps ==
  ASSUME IInv, UNCHANGED box,
         bind' \in [Lanes -> [active : BOOLEAN, generation : Nat]],
         draining' \in BOOLEAN, job' \in [Hosts -> [Msgs -> Job]],
         wire' \in [Msgs -> SUBSET Nat], landed' \in [Msgs -> SUBSET Nat]
  PROVE  IInv'
BY DEF IInv, TypeOK, LaneExclusive

(* The messages one claimOutbox transaction takes are pairwise in          *)
(* different lanes: of two in one lane the later one waits for the         *)
(* earlier, and while the fence is up both are acknowledgements.           *)
LEMMA ClaimsDisjoint ==
  ASSUME NEW rows, NEW m \in Msgs, NEW n \in Msgs,
         Claimable(rows, m), Claimable(rows, n), LaneOf[m] = LaneOf[n]
  PROVE  m = n
<1>1. ASSUME NEW a \in Msgs, NEW b \in Msgs, Claimable(rows, a), Claimable(rows, b),
             LaneOf[a] = LaneOf[b], a < b
      PROVE  FALSE
  <2>1. a \in 1..(b - 1)
    BY <1>1, OutboxAssumption DEF Msgs
  <2>2. draining => a \in Maintenance
    BY <1>1 DEF Claimable, Admitted
  <2>3. a \in Ahead(b)
    BY <1>1, <2>1, <2>2 DEF Ahead
  <2>4. Quiet(rows[a])
    BY <1>1, <2>3 DEF Claimable
  <2> QED BY <1>1, <2>4 DEF Claimable, Quiet, Terminal
<1>2. m < n \/ n < m \/ m = n
  BY OutboxAssumption DEF Msgs
<1> QED BY <1>1, <1>2

(* A tick: recovery, maintenance and claims in one lane at a time.         *)
LEMMA TickKeeps ==
  ASSUME IInv, NEW h \in Hosts, NEW verdict, Tick(h, verdict)
  PROVE  IInv'
<1> DEFINE recovered == [m \in Msgs |-> recoverOutbox(box[m])]
           rows == IF draining THEN recovered
                   ELSE [m \in Msgs |-> Maintain(m, recovered[m], verdict[m])]
           free == MaxConcurrency - Cardinality(Active(h))
           taken == First({m \in Msgs \ Active(h) : Claimable(rows, m)}, free)
<1>1. TypeOK /\ LaneExclusive /\ \A m \in Msgs : RowOK(box[m])
  BY DEF IInv
<1>2. \A m \in Msgs : /\ RowOK(recovered[m])
                      /\ recovered[m].status = "attempting" => box[m].status = "attempting"
  BY <1>1, RecoverKeeps
<1>3. \A m \in Msgs : /\ RowOK(rows[m])
                      /\ rows[m].status = "attempting" => box[m].status = "attempting"
  BY <1>1, <1>2, MaintainKeeps
<1>4. UNCHANGED <<bind, draining, wire, landed>>
  BY DEF Tick
<1>5. CASE free <= 0
  <2>1. box' = recovered /\ UNCHANGED job
    BY <1>5 DEF Tick
  <2>2. TypeOK'
    BY <1>1, <1>2, <1>4, <2>1 DEF TypeOK, RowOK
  <2> QED BY <1>2, <2>1, <2>2, StartsNoneKeeps DEF StartsNone
<1>6. CASE ~(free <= 0)
  <2>1. /\ box' = [m \in Msgs |-> IF m \in taken THEN Claim(rows[m], h) ELSE rows[m]]
        /\ job' = [job EXCEPT ![h] = [m \in Msgs |->
                    IF m \in taken
                    THEN [phase |-> "claimed", mode |-> Mode(rows[m]),
                          token |-> AttemptCount(rows[m]) + 1]
                    ELSE job[h][m]]]
    BY <1>6 DEF Tick
  <2>2. \A m \in taken : m \in Msgs /\ Claimable(rows, m)
    BY DEF First
  <2> HIDE DEF rows, taken, free, recovered
  <2>3. \A m \in Msgs : box'[m] = IF m \in taken THEN Claim(rows[m], h) ELSE rows[m]
    BY <2>1
  <2>4. \A m \in Msgs : RowOK(box'[m])
    BY <1>3, <2>2, <2>3, ClaimKeeps
  <2>5. TypeOK'
    <3>1. box' \in [Msgs -> Row]
      BY <2>1, <2>3, <2>4 DEF RowOK
    <3>2. \A m \in Msgs : AttemptCount(rows[m]) + 1 \in Nat
                          /\ Mode(rows[m]) \in {"send", "reconcile"}
      BY <1>3 DEF RowOK, Row, AttemptCount, Mode
    <3>3. job' \in [Hosts -> [Msgs -> Job]]
      BY <1>1, <2>1, <3>2 DEF TypeOK, Job, Phases
    <3> QED BY <1>1, <1>4, <3>1, <3>3 DEF TypeOK
  <2>6. ASSUME NEW m \in Msgs, NEW n \in Msgs, m # n, LaneOf[m] = LaneOf[n],
               box'[m].status = "attempting"
        PROVE  box'[n].status # "attempting"
    <3>1. m \in taken => rows[n].status # "attempting"
      BY <2>2, <2>6 DEF Claimable, LaneFree
    <3>2. m \notin taken => rows[m].status = "attempting"
      BY <2>3, <2>6
    <3>3. m \notin taken => rows[n].status # "attempting"
      BY <1>1, <1>3, <2>6, <3>2 DEF LaneExclusive
    <3>4. n \notin taken
      <4>1. SUFFICES ASSUME n \in taken PROVE FALSE
        OBVIOUS
      <4>2. rows[m].status # "attempting"
        BY <2>2, <2>6, <4>1 DEF Claimable, LaneFree
      <4>3. m \in taken
        BY <3>2, <4>2
      <4> QED BY <2>2, <2>6, <4>1, <4>3, ClaimsDisjoint
    <3> QED BY <2>3, <3>1, <3>3, <3>4
  <2>7. LaneExclusive'
    BY <1>4, <2>6 DEF LaneExclusive
  <2> QED BY <2>4, <2>5, <2>7 DEF IInv
<1> QED BY <1>5, <1>6

(* The end of an operation (finishOutbox), under a fence current or stale. *)
LEMMA FinishKeeps ==
  ASSUME IInv, NEW h \in Hosts, NEW m \in Msgs, NEW pid \in Nat,
         NEW o \in {"accepted", "retry_wait", "unknown_after_send", "dead"},
         finishOutbox(h, m, o, pid), UNCHANGED <<bind, draining, wire, landed>>
  PROVE  IInv'
<1>1. TypeOK /\ Idle \in Job
  BY DEF IInv, Idle, Job, Phases
<1>2. /\ job' \in [Hosts -> [Msgs -> Job]]
      /\ wire' \in [Msgs -> SUBSET Nat] /\ landed' \in [Msgs -> SUBSET Nat]
  BY <1>1 DEF finishOutbox, TypeOK
<1>3. CASE Current(h, m)
  <2>1. box' = [box EXCEPT ![m] = Close(box[m], o, pid)]
    BY <1>3 DEF finishOutbox
  <2>2. RowOK(Close(box[m], o, pid)) /\ Close(box[m], o, pid).status # "attempting"
    BY <1>3, CloseKeeps DEF IInv, Current
  <2> QED BY <1>2, <2>1, <2>2, OneRowKeeps
<1>4. CASE ~Current(h, m)
  <2>1. UNCHANGED box
    BY <1>4 DEF finishOutbox
  <2> QED BY <1>1, <1>2, <2>1, NoRowKeeps DEF TypeOK
<1> QED BY <1>3, <1>4

(* A reconcile that found a copy: accepted, then raised by its receipt.    *)
LEMMA ReconcileKeeps ==
  ASSUME IInv, NEW h \in Hosts, NEW m \in Msgs, ReconcileReturns(h, m)
  PROVE  IInv'
<1>1. TypeOK /\ Idle \in Job /\ UNCHANGED <<bind, draining, wire, landed>>
  BY DEF IInv, Idle, Job, Phases, ReconcileReturns
<1>2. CASE \E pid \in landed[m], s \in {"accepted", "delivered", "read"} :
             /\ job' = [job EXCEPT ![h][m] = Idle]
             /\ box' = IF Current(h, m)
                       THEN [box EXCEPT ![m] = Raise(Close(@, "accepted", pid), s)]
                       ELSE box
  <2>1. PICK pid \in landed[m], s \in {"accepted", "delivered", "read"} :
             /\ job' = [job EXCEPT ![h][m] = Idle]
             /\ box' = IF Current(h, m)
                       THEN [box EXCEPT ![m] = Raise(Close(box[m], "accepted", pid), s)]
                       ELSE box
    BY <1>2
  <2>2. pid \in Nat
    BY <1>1 DEF TypeOK
  <2>3. /\ job' \in [Hosts -> [Msgs -> Job]]
        /\ wire' \in [Msgs -> SUBSET Nat] /\ landed' \in [Msgs -> SUBSET Nat]
    BY <1>1, <2>1 DEF TypeOK
  <2>4. CASE Current(h, m)
    <3> DEFINE c == Close(box[m], "accepted", pid)
    <3>1. RowOK(c) /\ c.status = "accepted"
      BY <2>2, <2>4, CloseKeeps DEF IInv, Current
    <3> HIDE DEF c
    <3>2. RowOK(Raise(c, s)) /\ (Raise(c, s).status = "attempting" => c.status = "attempting")
      BY <3>1, RaiseKeeps
    <3>3. box' = [box EXCEPT ![m] = Raise(c, s)]
      BY <2>1, <2>4 DEF c
    <3> QED BY <1>1, <2>3, <3>1, <3>2, <3>3, OneRowKeeps
  <2>5. CASE ~Current(h, m)
    BY <1>1, <2>1, <2>3, <2>5, NoRowKeeps DEF TypeOK
  <2> QED BY <2>4, <2>5
<1>3. CASE finishOutbox(h, m, IF m \in Routes THEN "dead" ELSE "retry_wait", 0)
  BY <1>1, <1>3, FinishKeeps
<1>4. CASE finishOutbox(h, m, "unknown_after_send", 0)
  BY <1>1, <1>4, FinishKeeps
<1> QED BY <1>2, <1>3, <1>4 DEF ReconcileReturns

(* An operation that only changes its phase stays an operation.            *)
LEMMA PhaseTyped ==
  ASSUME TypeOK, NEW h \in Hosts, NEW m \in Msgs, NEW p \in Phases,
         job' = [job EXCEPT ![h][m] = [job[h][m] EXCEPT !.phase = p]]
  PROVE  job' \in [Hosts -> [Msgs -> Job]]
<1>1. job[h][m] \in Job /\ job \in [Hosts -> [Msgs -> Job]]
  BY DEF TypeOK
<1>2. ASSUME NEW j \in Job PROVE [j EXCEPT !.phase = p] \in Job
  BY DEF Job
<1>3. ASSUME NEW j \in Job PROVE [job EXCEPT ![h][m] = j] \in [Hosts -> [Msgs -> Job]]
  BY <1>1
<1> QED BY <1>1, <1>2, <1>3

(* Every step of a Host.                                                   *)
LEMMA HostKeeps ==
  ASSUME IInv, NEW h \in Hosts, HostStep(h)
  PROVE  IInv'
<1>1. TypeOK /\ Idle \in Job
  BY DEF IInv, Idle, Job, Phases
<1>2. CASE \E verdict \in [Routes -> Verdicts] : Tick(h, verdict)
  BY <1>2, TickKeeps
<1>3. ASSUME NEW m \in Msgs, Refuse(h, m) PROVE IInv'
  BY <1>3, FinishKeeps DEF Refuse
<1>4. ASSUME NEW m \in Msgs, CallAdapter(h, m) PROVE IInv'
  <2>1. /\ job' = [job EXCEPT ![h][m] = [@ EXCEPT !.phase = "calling"]]
        /\ wire' = IF job[h][m].mode = "send"
                   THEN [wire EXCEPT ![m] = @ \cup {job[h][m].token}] ELSE wire
        /\ UNCHANGED <<box, bind, draining, landed>>
    BY <1>4 DEF CallAdapter
  <2>2. job[h][m].token \in Nat
    BY <1>1 DEF TypeOK, Job
  <2>3. job' \in [Hosts -> [Msgs -> Job]]
    BY <1>1, <2>1, PhaseTyped DEF Phases
  <2>4. wire' \in [Msgs -> SUBSET Nat]
    BY <1>1, <2>1, <2>2 DEF TypeOK
  <2> QED BY <1>1, <2>1, <2>3, <2>4, NoRowKeeps DEF TypeOK
<1>5. ASSUME NEW m \in Msgs, SendReturns(h, m) PROVE IInv'
  <2>1. PICK o \in {"accepted", "retry_wait", "unknown_after_send", "dead"},
             pid \in {0, job[h][m].token} : finishOutbox(h, m, o, pid)
    BY <1>5 DEF SendReturns
  <2>2. pid \in Nat
    BY <1>1 DEF TypeOK, Job
  <2>3. UNCHANGED <<bind, draining, wire, landed>>
    BY <1>5 DEF SendReturns
  <2> QED BY <2>1, <2>2, <2>3, FinishKeeps
<1>6. ASSUME NEW m \in Msgs, ReconcileReturns(h, m) PROVE IInv'
  BY <1>6, ReconcileKeeps
<1>7. ASSUME NEW m \in Msgs, Abort(h, m) PROVE IInv'
  <2>1. job' \in [Hosts -> [Msgs -> Job]]
    BY <1>1, <1>7, PhaseTyped DEF Abort, Phases
  <2> QED BY <1>1, <1>7, <2>1, NoRowKeeps DEF Abort, TypeOK
<1>8. ASSUME NEW m \in Msgs, AbortedReturns(h, m) PROVE IInv'
  <2>1. job' \in [Hosts -> [Msgs -> Job]]
    BY <1>1, <1>8 DEF AbortedReturns, TypeOK
  <2> QED BY <1>1, <1>8, <2>1, NoRowKeeps DEF AbortedReturns, TypeOK
<1>9. CASE Crash(h)
  <2>1. job' \in [Hosts -> [Msgs -> Job]]
    BY <1>1, <1>9 DEF Crash, TypeOK
  <2> QED BY <1>1, <1>9, <2>1, NoRowKeeps DEF Crash, TypeOK
<1> QED BY <1>2, <1>3, <1>4, <1>5, <1>6, <1>7, <1>8, <1>9 DEF HostStep

(* Every step of time, the provider, a producer or the operator.           *)
LEMMA MessageKeeps ==
  ASSUME IInv, NEW m \in Msgs, MessageStep(m)
  PROVE  IInv'
<1> DEFINE r == box[m]
<1>1. TypeOK /\ RowOK(r) /\ r \in Row /\ Matches(r) /\ Bounded(r)
  BY DEF IInv, RowOK
<1>2. ASSUME NEW k, RowOK(k), k.status = "attempting" => r.status = "attempting",
             box' = [box EXCEPT ![m] = k], UNCHANGED <<bind, draining, job, wire, landed>>
      PROVE  IInv'
  BY <1>1, <1>2, OneRowKeeps DEF TypeOK
<1>3. CASE Lapse(m)
  <2> DEFINE k == [r EXCEPT !.live = FALSE]
  <2>1. /\ k \in Row /\ k.status = r.status /\ k.claimedBy = r.claimedBy
        /\ k.token = r.token /\ ~k.live /\ k.open = r.open /\ k.sends = r.sends
        /\ k.recons = r.recons /\ k.retries = r.retries
    BY <1>1 DEF Row
  <2>2. RowOK(k)
    BY <1>1, <2>1 DEF RowOK, Matches, Bounded, AttemptCount
  <2> QED BY <1>2, <1>3, <2>1, <2>2 DEF Lapse
<1>4. CASE BackoffElapses(m)
  <2> DEFINE k == [r EXCEPT !.due = TRUE]
  <2>1. /\ k \in Row /\ k.status = r.status /\ k.claimedBy = r.claimedBy
        /\ k.token = r.token /\ k.live = r.live /\ k.open = r.open
        /\ k.sends = r.sends /\ k.recons = r.recons /\ k.retries = r.retries
    BY <1>1 DEF Row
  <2>2. RowOK(k)
    BY <1>1, <2>1 DEF RowOK, Matches, Bounded, AttemptCount
  <2> QED BY <1>2, <1>4, <2>1, <2>2 DEF BackoffElapses
<1>5. CASE \E a \in wire[m] : Land(m, a) \/ Lose(m, a)
  <2>1. UNCHANGED <<box, bind, draining, job>>
    BY <1>5 DEF Land, Lose
  <2>2. wire' \in [Msgs -> SUBSET Nat] /\ landed' \in [Msgs -> SUBSET Nat]
    BY <1>1, <1>5 DEF Land, Lose, TypeOK
  <2> QED BY <1>1, <2>1, <2>2, NoRowKeeps DEF TypeOK
<1>6. CASE \E s \in {"accepted", "delivered", "read"} : recordReceipt(m, s)
  <2>1. PICK s \in {"accepted", "delivered", "read"} : recordReceipt(m, s)
    BY <1>6
  <2>2. RowOK(Raise(r, s)) /\ (Raise(r, s).status = "attempting" => r.status = "attempting")
    BY <1>1, RaiseKeeps
  <2> HIDE DEF r
  <2> QED BY <1>2, <2>1, <2>2 DEF recordReceipt, r
<1>7. CASE enqueue(m)
  <2> DEFINE k == [Absent EXCEPT !.status = "pending", !.gen = bind[LaneOf[m]].generation]
  <2>1. bind[LaneOf[m]].generation \in Nat
    BY <1>1, OutboxAssumption DEF TypeOK
  <2>2. /\ k \in Row /\ k.status = "pending" /\ k.claimedBy = NoOwner
        /\ k.token = 0 /\ ~k.live /\ ~k.open /\ k.sends = 0
        /\ k.recons = 0 /\ k.retries = 0
    BY <2>1 DEF Absent, Row, Statuses
  <2>3. RowOK(k)
    BY <2>2, OutboxAssumption DEF RowOK, Matches, Bounded
  <2> QED BY <1>2, <1>7, <2>2, <2>3 DEF enqueue
<1>8. CASE OperatorCancel(m)
  <2> DEFINE k == [r EXCEPT !.decision = "cancel", !.due = TRUE]
  <2>1. /\ k \in Row /\ k.status = r.status /\ k.claimedBy = r.claimedBy
        /\ k.token = r.token /\ k.live = r.live /\ k.open = r.open
        /\ k.sends = r.sends /\ k.recons = r.recons /\ k.retries = r.retries
    BY <1>1 DEF Row
  <2>2. RowOK(k)
    BY <1>1, <2>1 DEF RowOK, Matches, Bounded, AttemptCount
  <2>3. box' = [box EXCEPT ![m] = k] /\ UNCHANGED <<bind, draining, job, wire, landed>>
    BY <1>1, <1>8 DEF OperatorCancel, TypeOK
  <2> QED BY <1>2, <2>1, <2>2, <2>3
<1>9. CASE OperatorRetry(m)
  <2> DEFINE k == [r EXCEPT !.status = "pending", !.decision = "retry",
                            !.due = TRUE, !.retries = @ + 1]
  <2>1. r.status \in {"dead", "unknown_after_send"}
    BY <1>9 DEF OperatorRetry, Resolvable
  <2>2. r.retries \in Nat /\ r.sends \in Nat /\ r.retries + 1 \in Nat /\ MaxAttempts \in Nat
    BY <1>1, OutboxAssumption DEF Row
  <2>3. /\ k \in Row /\ k.status = "pending" /\ k.claimedBy = r.claimedBy
        /\ k.token = r.token /\ k.live = r.live /\ k.open = r.open
        /\ k.sends = r.sends /\ k.recons = r.recons /\ k.retries = r.retries + 1
    BY <1>1, <2>2 DEF Row, Statuses
  <2>4. r.sends < MaxAttempts + (r.retries + 1)
    BY <1>1, <2>2 DEF Bounded
  <2>5. RowOK(k)
    BY <1>1, <2>1, <2>2, <2>3, <2>4 DEF RowOK, Matches, Bounded
  <2>6. box' = [box EXCEPT ![m] = k] /\ UNCHANGED <<bind, draining, job, wire, landed>>
    BY <1>1, <1>9 DEF OperatorRetry, TypeOK
  <2> QED BY <1>2, <2>3, <2>5, <2>6
<1> QED BY <1>3, <1>4, <1>5, <1>6, <1>7, <1>8, <1>9
        DEF MessageStep, LapseUnattended, LapseStalled

(* The invariant is inductive.                                             *)
LEMMA NextIInv == IInv /\ [Next]_vars => IInv'
<1> SUFFICES ASSUME IInv, [Next]_vars PROVE IInv'
  OBVIOUS
<1>1. TypeOK
  BY DEF IInv
<1>2. CASE \E h \in Hosts : HostStep(h)
  BY <1>2, HostKeeps
<1>3. CASE \E m \in Msgs : MessageStep(m)
  BY <1>3, MessageKeeps
<1>4. ASSUME NEW l \in Lanes, rotateBinding(l) \/ revokePrincipal(l) \/ createBinding(l)
      PROVE  IInv'
  <2>1. UNCHANGED <<box, draining, job, wire, landed>>
    BY <1>4 DEF rotateBinding, revokePrincipal, createBinding
  <2>2. bind[l].generation \in Nat /\ bind[l].generation + 1 \in Nat
    BY <1>1 DEF TypeOK
  <2>3. bind' \in [Lanes -> [active : BOOLEAN, generation : Nat]]
    <3>1. CASE rotateBinding(l)
      BY <1>1, <2>2, <3>1 DEF rotateBinding, TypeOK
    <3>2. CASE revokePrincipal(l)
      BY <1>1, <3>2 DEF revokePrincipal, TypeOK
    <3>3. CASE createBinding(l)
      <4> DEFINE b == [active |-> TRUE, generation |-> bind[l].generation + 1]
      <4>1. b \in [active : BOOLEAN, generation : Nat]
        BY <2>2
      <4>2. bind' = [bind EXCEPT ![l] = b]
        BY <3>3 DEF createBinding
      <4> QED BY <1>1, <4>1, <4>2 DEF TypeOK
    <3> QED BY <1>4, <3>1, <3>2, <3>3
  <2> QED BY <1>1, <2>1, <2>3, NoRowKeeps DEF TypeOK
<1>5. CASE setRestartFence \/ clearRestartFence
  BY <1>1, <1>5, NoRowKeeps DEF setRestartFence, clearRestartFence, TypeOK
<1>6. CASE UNCHANGED vars
  BY <1>1, <1>6, NoRowKeeps DEF vars, TypeOK
<1> QED BY <1>2, <1>3, <1>4, <1>5, <1>6 DEF Next

(* The strengthened invariant holds of every reachable state.              *)
THEOREM Inductive == Spec => []IInv
BY InitIInv, NextIInv, PTL DEF Spec

(* Every row, operation, binding and wire is well formed.                  *)
THEOREM TypeCorrect == Spec => []TypeOK
<1>1. IInv => TypeOK
  BY DEF IInv
<1> QED BY <1>1, Inductive, PTL

(* The claim columns of a row and its attempts ledger always agree.        *)
THEOREM LedgerAgrees == Spec => []ClaimMatchesLedger
<1>1. IInv => ClaimMatchesLedger
  BY DEF IInv, RowOK, Matches, ClaimMatchesLedger
<1> QED BY <1>1, Inductive, PTL

(* A conversation lane never has two attempts running, for any number of   *)
(* Hosts, expired leases, operator retries and restart fences.             *)
THEOREM OneAttemptPerLane == Spec => []LaneExclusive
<1>1. IInv => LaneExclusive
  BY DEF IInv
<1> QED BY <1>1, Inductive, PTL
=============================================================================
