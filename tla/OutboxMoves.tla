---------------------------- MODULE OutboxMoves -----------------------------
(***************************************************************************)
(* What one step of the Outbox may do to one message, for any number of    *)
(* Hosts, messages and lanes: every step is a Move of every message (lemma *)
(* EveryMove).  The proofs about copies, order and permissions are by cases *)
(* on these few moves, not on the actions of Outbox.tla.                   *)
(***************************************************************************)
EXTENDS OutboxProofs

Wired(m) == wire[m] \cup landed[m]

-----------------------------------------------------------------------------
(* What a step may do to message m.                                        *)

JobsKept(m) == \A h \in Hosts : job'[h][m] = job[h][m]
JobBecomes(h, m, j) == \A g \in Hosts : job'[g][m] = IF g = h THEN j ELSE job[g][m]
WireKept(m) == wire'[m] = wire[m] /\ landed'[m] = landed[m]

Rests(m) == box'[m] = box[m] /\ JobsKept(m) /\ WireKept(m)

Forgets(h, m) ==
  /\ box'[m] = box[m] /\ WireKept(m)
  /\ \/ JobBecomes(h, m, Idle)
     \/ /\ job[h][m].phase = "calling"
        /\ JobBecomes(h, m, [job[h][m] EXCEPT !.phase = "dropped"])

Calls(h, m) ==
  /\ job[h][m].phase = "claimed"
  /\ job[h][m].mode = "send" => MaySend(h, m)
  /\ box'[m] = box[m] /\ landed'[m] = landed[m]
  /\ JobBecomes(h, m, [job[h][m] EXCEPT !.phase = "calling"])
  /\ wire'[m] = IF job[h][m].mode = "send"
                THEN wire[m] \cup {job[h][m].token} ELSE wire[m]

\* The outcome o and provider message id pid an operation of h may end with.
Answers(h, m, o, pid) ==
  LET j == job[h][m] IN
  \/ /\ j.phase = "claimed" /\ pid = 0
     /\ o = "dead" \/ o = IF j.mode = "reconcile" THEN "unknown_after_send" ELSE "retry_wait"
  \/ /\ j.phase = "calling" /\ j.mode = "send"
     /\ \/ o = "accepted" /\ pid = j.token /\ pid \in landed[m]
        \/ o \in {"retry_wait", "dead"} /\ pid = 0 /\ j.token \notin Wired(m)
        \/ o = "unknown_after_send" /\ (pid = 0 \/ pid \in landed[m])
  \/ /\ j.phase = "calling" /\ j.mode = "reconcile" /\ pid = 0
     /\ \/ o = "unknown_after_send"
        \/ /\ o = IF m \in Routes THEN "dead" ELSE "retry_wait"
           /\ landed[m] = {} /\ (RacyReconcile \/ wire[m] = {})

Finishes(h, m, o, pid) ==
  /\ Answers(h, m, o, pid)
  /\ JobBecomes(h, m, Idle) /\ WireKept(m)
  /\ box'[m] = IF Current(h, m) THEN Close(box[m], o, pid) ELSE box[m]

Finds(h, m, pid, s) ==
  /\ job[h][m].phase = "calling" /\ job[h][m].mode = "reconcile" /\ pid \in landed[m]
  /\ JobBecomes(h, m, Idle) /\ WireKept(m)
  /\ box'[m] = IF Current(h, m) THEN Raise(Close(box[m], "accepted", pid), s) ELSE box[m]

\* What a tick makes of row r before it claims anything.
Swept(r, k) ==
  /\ RowOK(k)
  /\ k.pid = r.pid /\ k.retries = r.retries /\ AttemptCount(k) >= AttemptCount(r)
  /\ k.sends >= r.sends
  /\ Quiet(r) => Quiet(k)
  /\ r.status \in Terminal \cup {"absent"} => k = r
  /\ r.status = "attempting" =>
       IF r.live THEN k = r ELSE k.doubt /\ k.status \in {"unknown_after_send", "dead"}
  /\ r.status \in {"pending", "retry_wait", "unknown_after_send"} =>
       /\ k.open = r.open /\ k.doubt = r.doubt
       /\ k.status \in {r.status, "dead"} \cup
            (IF r.status = "pending" THEN {"retry_wait"} ELSE {})

\* A row that a tick may claim.
Eligible(m, k) ==
  /\ k.status \in {"pending", "retry_wait", "unknown_after_send"} /\ ~Cancelled(k)
  /\ draining => m \in Maintenance
  /\ m \in Routes /\ k.status # "unknown_after_send" => ownerRouteIsProvablyUnsent(k)

\* What is queued before m in its lane is quiet after the step.
Foremost(m) ==
  m \notin Maintenance =>
    \A e \in 1..(m - 1) : LaneOf[e] = LaneOf[m] => Quiet(box'[e])

Ticks(h, m) ==
  /\ WireKept(m)
  /\ \E k \in Row :
       /\ Swept(box[m], k)
       /\ draining /\ box[m].status = "pending" => k = box[m]
       /\ \/ box'[m] = k /\ JobsKept(m)
          \/ /\ job[h][m].phase = "idle" /\ Eligible(m, k) /\ Foremost(m)
             /\ box'[m] = Claim(k, h)
             /\ JobBecomes(h, m, [phase |-> "claimed", mode |-> Mode(k),
                                  token |-> AttemptCount(k) + 1])

\* Rows that differ in nothing the invariants ask about.
Alike(r, k) ==
  /\ k.status = r.status /\ k.claimedBy = r.claimedBy /\ k.token = r.token
  /\ k.live = r.live /\ k.sends = r.sends /\ k.recons = r.recons
  /\ k.open = r.open /\ k.doubt = r.doubt /\ k.pid = r.pid /\ k.retries = r.retries

Relabels(m) ==
  /\ JobsKept(m) /\ WireKept(m) /\ Alike(box[m], box'[m])
  /\ Quiet(box[m]) => Quiet(box'[m])

Lapses(m) ==
  /\ JobsKept(m) /\ WireKept(m)
  /\ box[m].status = "attempting"
  /\ box'[m] = [box[m] EXCEPT !.live = FALSE]
  /\ StalledDispatch \/ \A h \in Hosts : Current(h, m) => job[h][m].phase # "claimed"

Receives(m, s) ==
  /\ JobsKept(m) /\ WireKept(m)
  /\ box[m].pid # 0 /\ box'[m] = Raise(box[m], s)

Enqueues(m) ==
  /\ JobsKept(m) /\ WireKept(m)
  /\ box[m].status = "absent" /\ \A n \in 1..(m - 1) : box[n].status # "absent"
  /\ Alike([Absent EXCEPT !.status = "pending"], box'[m])

Revives(m) ==
  /\ JobsKept(m) /\ WireKept(m)
  /\ box[m].status \in {"dead", "unknown_after_send"}
  /\ box'[m] = [box[m] EXCEPT !.status = "pending", !.decision = "retry",
                              !.due = TRUE, !.retries = @ + 1]

Travels(m) ==
  /\ box'[m] = box[m] /\ JobsKept(m)
  /\ \E a \in wire[m] :
       /\ wire'[m] = wire[m] \ {a}
       /\ landed'[m] = landed[m] \/ landed'[m] = landed[m] \cup {a}

HostMove(h, m) ==
  \/ Forgets(h, m) \/ Calls(h, m) \/ Ticks(h, m)
  \/ \E o \in {"accepted", "retry_wait", "unknown_after_send", "dead"}, pid \in Nat :
       Finishes(h, m, o, pid)
  \/ \E s \in {"accepted", "delivered", "read"}, pid \in Nat : Finds(h, m, pid, s)
RowMove(m) ==
  \/ Relabels(m) \/ Lapses(m) \/ Enqueues(m) \/ Revives(m) \/ Travels(m)
  \/ \E s \in {"accepted", "delivered", "read"} : Receives(m, s)
Move(m) == Rests(m) \/ (\E h \in Hosts : HostMove(h, m)) \/ RowMove(m)

-----------------------------------------------------------------------------
(* A sweep may leave a row as it is.                                       *)
LEMMA SweptSame ==
  ASSUME NEW r, RowOK(r), r.status = "attempting" => r.live
  PROVE  Swept(r, r)
<1>1. AttemptCount(r) >= AttemptCount(r) /\ r.sends >= r.sends
  BY DEF RowOK, Row, AttemptCount
<1> QED BY <1>1 DEF Swept

(* A sweep of a row that waits.                                            *)
LEMMA SweptWaiting ==
  ASSUME NEW r, NEW k, RowOK(k),
         r.status \in {"pending", "retry_wait", "unknown_after_send"},
         AttemptCount(k) >= AttemptCount(r), k.sends >= r.sends, Quiet(r) => Quiet(k),
         k.doubt = r.doubt, k.open = r.open, k.pid = r.pid, k.retries = r.retries,
         \/ k.status \in {r.status, "dead"}
         \/ r.status = "pending" /\ k.status = "retry_wait"
  PROVE  Swept(r, k)
<1>1. r.status \notin Terminal \cup {"absent"} /\ r.status # "attempting"
  BY DEF Terminal
<1>2. k.status \in {r.status, "dead"} \cup
        (IF r.status = "pending" THEN {"retry_wait"} ELSE {})
  OBVIOUS
<1> QED BY <1>1, <1>2 DEF Swept

(* A tick's sweep (recoverOutbox, then the bulk updates) of one row.       *)
LEMMA RecoverSweeps ==
  ASSUME NEW r, RowOK(r)
  PROVE  Swept(r, recoverOutbox(r))
<1> DEFINE e == Expire(r)
           k == recoverOutbox(r)
<1> SUFFICES Swept(r, k)
  OBVIOUS
<1>1. RowOK(k) /\ r \in Row /\ r.sends \in Nat /\ r.recons \in Nat
  BY RecoverKeeps DEF RowOK, Row
<1>2. CASE r.status = "attempting" /\ ~r.live
  <2>1. e = [[r EXCEPT !.claimedBy = NoOwner, !.token = 0, !.live = FALSE]
               EXCEPT !.status = "unknown_after_send", !.due = TRUE, !.open = FALSE,
                      !.doubt = TRUE]
    BY <1>2 DEF Expire, ClearClaim
  <2>2. /\ e.status = "unknown_after_send" /\ e.doubt /\ e.pid = r.pid
        /\ e.retries = r.retries /\ e.sends = r.sends /\ e.recons = r.recons
        /\ e.decision = r.decision
    BY <1>1, <2>1 DEF Row
  <2> HIDE DEF e
  <2>3. k = e
    BY <2>2 DEF recoverOutbox, Exhausted, e
  <2> HIDE DEF k
  <2>4. AttemptCount(k) >= AttemptCount(r) /\ (Quiet(r) => Quiet(k)) /\ k.sends >= r.sends
    BY <1>1, <1>2, <2>2, <2>3 DEF AttemptCount, Quiet, Terminal, Cancelled
  <2>5. r.status \notin Terminal \cup {"absent", "pending", "retry_wait", "unknown_after_send"}
    BY <1>2 DEF Terminal
  <2>6. k.doubt /\ k.status \in {"unknown_after_send", "dead"}
        /\ k.pid = r.pid /\ k.retries = r.retries
    BY <2>2, <2>3
  <2> QED BY <1>1, <1>2, <2>4, <2>5, <2>6 DEF Swept
<1>3. CASE ~(r.status = "attempting" /\ ~r.live)
  <2>1. k = IF Exhausted(r) THEN Kill(r) ELSE r
    BY <1>3 DEF Expire, recoverOutbox
  <2>2. CASE Exhausted(r)
    <3>1. /\ k.status = "dead" /\ k.doubt = r.doubt /\ k.open = r.open /\ k.pid = r.pid
          /\ k.retries = r.retries /\ k.sends = r.sends /\ k.recons = r.recons
      BY <1>1, <2>1, <2>2 DEF Kill, Row
    <3>2. r.status = "retry_wait"
      BY <2>2 DEF Exhausted
    <3> HIDE DEF k
    <3>3. AttemptCount(k) >= AttemptCount(r) /\ Quiet(k) /\ k.sends >= r.sends
      BY <1>1, <3>1 DEF AttemptCount, Quiet, Terminal
    <3> QED BY <1>1, <3>1, <3>2, <3>3, SweptWaiting
  <2>3. CASE ~Exhausted(r)
    <3>1. k = r
      BY <2>1, <2>3
    <3> HIDE DEF k
    <3> QED BY <1>3, <3>1, SweptSame
  <2> QED BY <2>2, <2>3
<1> QED BY <1>2, <1>3

(* ... and what the bulk updates make of a recovered row.                  *)
LEMMA MaintainSweeps ==
  ASSUME NEW r, RowOK(r), r.status = "attempting" => r.live, NEW m \in Msgs, NEW v, TypeOK
  PROVE  Swept(r, Maintain(m, r, v))
<1> DEFINE k == Maintain(m, r, v)
           w == inspectOwnerRouteDispatch(m, v)
<1> SUFFICES Swept(r, k)
  OBVIOUS
<1>1. RowOK(k) /\ r \in Row /\ r.sends \in Nat /\ r.recons \in Nat
  BY MaintainKeeps DEF RowOK, Row
<1>2. ASSUME k.status = "dead", k.doubt = r.doubt, k.open = r.open, k.pid = r.pid,
             k.retries = r.retries, k.sends \in {r.sends, r.sends + 1}, k.recons = r.recons,
             r.status \in {"pending", "retry_wait", "unknown_after_send"}
      PROVE  Swept(r, k)
  <2> HIDE DEF k
  <2>1. AttemptCount(k) >= AttemptCount(r) /\ Quiet(k) /\ k.sends >= r.sends
    BY <1>1, <1>2 DEF AttemptCount, Quiet, Terminal
  <2> QED BY <1>1, <1>2, <2>1, SweptWaiting
<1>3. ASSUME k.status = r.status \/ (r.status = "pending" /\ k.status = "retry_wait"),
             k.doubt = r.doubt, k.open = r.open, k.pid = r.pid,
             k.retries = r.retries, k.sends = r.sends, k.recons = r.recons,
             k.decision = r.decision, r.status \in {"pending", "retry_wait"}
      PROVE  Swept(r, k)
  <2> HIDE DEF k
  <2>1. AttemptCount(k) >= AttemptCount(r) /\ (Quiet(r) => Quiet(k)) /\ k.sends >= r.sends
    BY <1>1, <1>3 DEF AttemptCount, Quiet, Terminal, Cancelled
  <2> QED BY <1>1, <1>3, <2>1, SweptWaiting
<1>4. CASE Doomed(m, r)
  <2>1. k = Kill(r) /\ r.status \in {"pending", "retry_wait", "unknown_after_send"}
    BY <1>4 DEF Maintain, Doomed, Exhausted
  <2>2. /\ k.status = "dead" /\ k.doubt = r.doubt /\ k.open = r.open /\ k.pid = r.pid
        /\ k.retries = r.retries /\ k.sends = r.sends /\ k.recons = r.recons
    BY <1>1, <2>1 DEF Kill, Row
  <2> QED BY <1>2, <2>1, <2>2
<1>5. CASE ~Doomed(m, r) /\ DueRoute(m, r)
  <2>1. k = MaintainRoute(m, r, w) /\ r.status \in {"pending", "retry_wait"}
    BY <1>5 DEF Maintain, DueRoute
  <2>2. CASE w = "deferred"
    <3>1. k = [r EXCEPT !.status = "retry_wait", !.due = FALSE]
      BY <2>1, <2>2 DEF MaintainRoute
    <3>2. /\ k.status = "retry_wait" /\ k.doubt = r.doubt /\ k.open = r.open
          /\ k.pid = r.pid /\ k.retries = r.retries /\ k.sends = r.sends
          /\ k.recons = r.recons /\ k.decision = r.decision
      BY <1>1, <3>1 DEF Row
    <3> QED BY <1>3, <2>1, <3>2
  <2>3. CASE w = "authorized" /\ ownerRouteIsProvablyUnsent(r)
    <3>1. k = [r EXCEPT !.gen = bind[LaneOf[m]].generation]
      BY <2>1, <2>3 DEF MaintainRoute
    <3>2. /\ k.status = r.status /\ k.doubt = r.doubt /\ k.open = r.open
          /\ k.pid = r.pid /\ k.retries = r.retries /\ k.sends = r.sends
          /\ k.recons = r.recons /\ k.decision = r.decision
      BY <1>1, <3>1 DEF Row
    <3> HIDE DEF k
    <3>3. k.status = r.status \/ (r.status = "pending" /\ k.status = "retry_wait")
      BY <3>2, Zenon
    <3> QED BY <1>3, <2>1, <3>2, <3>3, Zenon
  <2>4. CASE w # "deferred" /\ ~(w = "authorized" /\ ownerRouteIsProvablyUnsent(r))
    <3>1. k = [Kill(r) EXCEPT !.sends = @ + 1, !.decision = "none"]
      BY <2>1, <2>4 DEF MaintainRoute
    <3>2. /\ k.status = "dead" /\ k.doubt = r.doubt /\ k.open = r.open
          /\ k.pid = r.pid /\ k.retries = r.retries /\ k.sends = r.sends + 1
          /\ k.recons = r.recons
      BY <1>1, <3>1 DEF Kill, Row
    <3> HIDE DEF k
    <3> QED BY <1>2, <2>1, <3>2
  <2> QED BY <2>2, <2>3, <2>4
<1>6. CASE ~Doomed(m, r) /\ ~DueRoute(m, r)
  BY <1>6, SweptSame DEF Maintain
<1> QED BY <1>4, <1>5, <1>6

(* A sweep after a sweep is one.                                           *)
LEMMA SweepsCompose ==
  ASSUME NEW r, NEW k, NEW n, RowOK(r), Swept(r, k), Swept(k, n)
  PROVE  Swept(r, n)
<1>1. /\ r \in Row /\ k \in Row /\ n \in Row
      /\ AttemptCount(r) \in Nat /\ AttemptCount(k) \in Nat /\ AttemptCount(n) \in Nat
      /\ r.sends \in Nat /\ k.sends \in Nat /\ n.sends \in Nat
  BY DEF Swept, RowOK, Row, AttemptCount
<1>2. AttemptCount(n) >= AttemptCount(r) /\ n.sends >= r.sends
  BY <1>1 DEF Swept
<1>3. r.status \in Statuses /\ k.status \in Statuses /\ k.live \in BOOLEAN
  BY <1>1 DEF Row
<1>4. RowOK(n) /\ n.pid = r.pid /\ n.retries = r.retries /\ (Quiet(r) => Quiet(n))
  BY DEF Swept
<1>5. r.status \in Terminal \cup {"absent"} => n = r
  BY DEF Swept
<1>6. r.status = "attempting" =>
       IF r.live THEN n = r ELSE n.doubt /\ n.status \in {"unknown_after_send", "dead"}
  <2>1. CASE r.live
    BY <2>1 DEF Swept
  <2>2. CASE r.status = "attempting" /\ ~r.live
    <3>1. k.doubt /\ k.status \in {"unknown_after_send", "dead"}
      BY <2>2 DEF Swept
    <3>2. CASE k.status = "dead"
      BY <3>1, <3>2, <2>2 DEF Swept, Terminal
    <3>3. CASE k.status = "unknown_after_send"
      BY <3>1, <3>3, <2>2 DEF Swept
    <3> QED BY <3>1, <3>2, <3>3
  <2> QED BY <2>1, <2>2
<1>7. r.status \in {"pending", "retry_wait", "unknown_after_send"} =>
       /\ n.open = r.open /\ n.doubt = r.doubt
       /\ n.status \in {r.status, "dead"} \cup
            (IF r.status = "pending" THEN {"retry_wait"} ELSE {})
  <2> SUFFICES ASSUME r.status \in {"pending", "retry_wait", "unknown_after_send"}
               PROVE  /\ n.open = r.open /\ n.doubt = r.doubt
                      /\ n.status \in {r.status, "dead"} \cup
                           (IF r.status = "pending" THEN {"retry_wait"} ELSE {})
    OBVIOUS
  <2>1. k.open = r.open /\ k.doubt = r.doubt
        /\ k.status \in {r.status, "dead"} \cup
             (IF r.status = "pending" THEN {"retry_wait"} ELSE {})
    BY DEF Swept
  <2>2. CASE k.status = "dead"
    BY <2>1, <2>2 DEF Swept, Terminal
  <2>3. CASE k.status # "dead"
    <3>1. k.status \in {"pending", "retry_wait", "unknown_after_send"}
      BY <2>1, <2>3
    <3>2. n.open = k.open /\ n.doubt = k.doubt
          /\ n.status \in {k.status, "dead"} \cup
               (IF k.status = "pending" THEN {"retry_wait"} ELSE {})
      BY <3>1 DEF Swept
    <3> QED BY <2>1, <3>2
  <2> QED BY <2>2, <2>3
<1> QED BY <1>2, <1>4, <1>5, <1>6, <1>7 DEF Swept

-----------------------------------------------------------------------------
(* Every step is a move of every message.                                  *)

(* An update of one operation.                                             *)
LEMMA JobSet ==
  ASSUME TypeOK, NEW h \in Hosts, NEW n \in Msgs, NEW j,
         job' = [job EXCEPT ![h][n] = j], NEW m \in Msgs
  PROVE  IF m = n THEN JobBecomes(h, m, j) ELSE JobsKept(m)
BY DEF TypeOK, JobBecomes, JobsKept

(* The end of an operation.                                                *)
LEMMA FinishMoves ==
  ASSUME TypeOK, NEW h \in Hosts, NEW n \in Msgs, NEW m \in Msgs,
         NEW o \in {"accepted", "retry_wait", "unknown_after_send", "dead"}, NEW pid \in Nat,
         Answers(h, n, o, pid), finishOutbox(h, n, o, pid), UNCHANGED <<wire, landed>>
  PROVE  Move(m)
<1>1. IF m = n THEN JobBecomes(h, m, Idle) ELSE JobsKept(m)
  BY JobSet DEF finishOutbox
<1>2. box'[m] = IF m = n /\ Current(h, n) THEN Close(box[n], o, pid) ELSE box[m]
  BY DEF finishOutbox, TypeOK
<1>3. CASE m = n
  BY <1>1, <1>2, <1>3 DEF Finishes, WireKept, HostMove, Move
<1>4. CASE m # n
  BY <1>1, <1>2, <1>4 DEF Rests, WireKept, Move
<1> QED BY <1>3, <1>4

(* A tick.                                                                 *)
LEMMA TickMoves ==
  ASSUME IInv, NEW h \in Hosts, NEW verdict, Tick(h, verdict), NEW m \in Msgs
  PROVE  Ticks(h, m)
<1> DEFINE recovered == [n \in Msgs |-> recoverOutbox(box[n])]
           rows == IF draining THEN recovered
                   ELSE [n \in Msgs |-> Maintain(n, recovered[n], verdict[n])]
           free == MaxConcurrency - Cardinality(Active(h))
           taken == First({n \in Msgs \ Active(h) : Claimable(rows, n)}, free)
           r == box[m]
<1>1. TypeOK /\ RowOK(r) /\ WireKept(m)
  BY DEF IInv, Tick, WireKept
<1>2. Swept(r, recovered[m]) /\ RowOK(recovered[m])
  BY <1>1, RecoverSweeps DEF Swept
<1>3. recovered[m].status = "attempting" => recovered[m].live
  <2>1. CASE r.status = "attempting" /\ ~r.live
    BY <1>2, <2>1 DEF Swept
  <2>2. CASE r.status # "attempting"
    BY <1>1, <2>2, RecoverKeeps
  <2>3. CASE r.status = "attempting" /\ r.live
    BY <1>2, <2>3 DEF Swept
  <2> QED BY <1>1, <2>1, <2>2, <2>3
<1>4. Swept(r, rows[m]) /\ rows[m] \in Row
  <2>1. CASE draining
    BY <1>2, <2>1 DEF RowOK
  <2>2. CASE ~draining
    <3>1. rows[m] = Maintain(m, recovered[m], verdict[m])
      BY <2>2
    <3> HIDE DEF rows, recovered
    <3>2. Swept(recovered[m], rows[m])
      BY <1>1, <1>2, <1>3, <3>1, MaintainSweeps
    <3> QED BY <1>1, <1>2, <3>2, SweepsCompose DEF Swept, RowOK
  <2> QED BY <2>1, <2>2
<1>5. /\ r.status = "pending" => recovered[m] = r
      /\ draining /\ r.status = "pending" => rows[m] = r
  BY DEF recoverOutbox, Expire, Exhausted
<1>6. CASE free <= 0
  <2>1. box'[m] = recovered[m] /\ JobsKept(m)
    BY <1>6 DEF Tick, JobsKept
  <2> HIDE DEF recovered
  <2> QED BY <1>1, <1>2, <1>5, <2>1 DEF Ticks, RowOK
<1>7. CASE ~(free <= 0)
  <2>1. /\ box' = [n \in Msgs |-> IF n \in taken THEN Claim(rows[n], h) ELSE rows[n]]
        /\ job' = [job EXCEPT ![h] = [n \in Msgs |->
                    IF n \in taken
                    THEN [phase |-> "claimed", mode |-> Mode(rows[n]),
                          token |-> AttemptCount(rows[n]) + 1]
                    ELSE job[h][n]]]
    BY <1>7 DEF Tick
  <2>2. m \in taken => m \notin Active(h) /\ Claimable(rows, m)
    BY DEF First
  <2>3. CASE m \notin taken
    <3> HIDE DEF taken, rows
    <3>1. box'[m] = rows[m] /\ JobsKept(m)
      BY <1>1, <2>1, <2>3 DEF JobsKept, TypeOK
    <3> QED BY <1>1, <1>4, <1>5, <3>1 DEF Ticks
  <2>4. CASE m \in taken
    <3>1. Eligible(m, rows[m])
      <4>1. Claimable(rows, m)
        BY <2>2, <2>4
      <4>2. rows[m].status \in {"pending", "retry_wait", "unknown_after_send"} /\ rows[m].due
            /\ (draining => m \in Maintenance) /\ ~Cancelled(rows[m])
        BY <4>1 DEF Claimable, Admitted
      <4>3. ASSUME m \in Routes, rows[m].status # "unknown_after_send"
            PROVE  ownerRouteIsProvablyUnsent(rows[m])
        <5>1. ~draining
          BY <4>2, <4>3, OutboxAssumption
        <5> DEFINE k == recovered[m]
                   w == inspectOwnerRouteDispatch(m, verdict[m])
        <5>2. rows[m] = Maintain(m, k, verdict[m])
          BY <5>1
        <5>3. k \in Row
          BY <1>2 DEF RowOK
        <5> HIDE DEF rows, k
        <5>4. ~Doomed(m, k)
          BY <4>2, <5>2, <5>3 DEF Maintain, Kill, Row
        <5>5. CASE DueRoute(m, k)
          <6>1. rows[m] = MaintainRoute(m, k, w)
            BY <5>2, <5>4, <5>5 DEF Maintain
          <6>2. CASE w = "deferred"
            BY <4>2, <5>3, <6>1, <6>2 DEF MaintainRoute, Row
          <6>3. CASE w = "authorized" /\ ownerRouteIsProvablyUnsent(k)
            <7>1. rows[m] = [k EXCEPT !.gen = bind[LaneOf[m]].generation]
              BY <6>1, <6>3 DEF MaintainRoute
            <7> QED BY <5>3, <6>3, <7>1 DEF ownerRouteIsProvablyUnsent, Row
          <6>4. CASE w # "deferred" /\ ~(w = "authorized" /\ ownerRouteIsProvablyUnsent(k))
            <7>1. rows[m] = [Kill(k) EXCEPT !.sends = @ + 1, !.decision = "none"]
              BY <6>1, <6>4 DEF MaintainRoute
            <7> QED BY <4>2, <5>3, <7>1 DEF Kill, Row
          <6> QED BY <6>2, <6>3, <6>4
        <5>6. CASE ~DueRoute(m, k)
          <6>1. rows[m] = k
            BY <5>2, <5>4, <5>6 DEF Maintain
          <6> QED BY <4>2, <4>3, <5>6, <6>1 DEF DueRoute
        <5> QED BY <5>5, <5>6
      <4> HIDE DEF rows
      <4> QED BY <4>2, <4>3 DEF Eligible
    <3>4. Foremost(m)
      <4> SUFFICES ASSUME m \notin Maintenance, NEW e \in 1..(m - 1), LaneOf[e] = LaneOf[m]
                   PROVE  Quiet(box'[e])
        BY DEF Foremost
      <4>1. e \in Msgs /\ Claimable(rows, m)
        BY <2>2, <2>4, OutboxAssumption DEF Msgs
      <4>2. e \in Ahead(m)
        BY <4>1 DEF Ahead, Claimable, Admitted
      <4>3. Quiet(rows[e])
        BY <4>1, <4>2 DEF Claimable
      <4>4. e \notin taken
        BY <4>3 DEF First, Claimable, Quiet, Terminal
      <4> HIDE DEF taken, rows
      <4> QED BY <2>1, <4>1, <4>3, <4>4
    <3> HIDE DEF taken, rows
    <3>2. /\ box'[m] = Claim(rows[m], h)
          /\ JobBecomes(h, m, [phase |-> "claimed", mode |-> Mode(rows[m]),
                               token |-> AttemptCount(rows[m]) + 1])
      BY <1>1, <2>1, <2>4 DEF JobBecomes, TypeOK
    <3>3. job[h][m].phase = "idle"
      BY <2>2, <2>4 DEF Active
    <3> QED BY <1>1, <1>4, <1>5, <3>1, <3>2, <3>3, <3>4 DEF Ticks
  <2> QED BY <2>3, <2>4
<1> QED BY <1>6, <1>7

(* A step of Host h on message n.                                          *)
LEMMA HostMoves ==
  ASSUME IInv, NEW h \in Hosts, HostStep(h), NEW m \in Msgs
  PROVE  Move(m)
<1>1. TypeOK
  BY DEF IInv
<1>2. CASE \E verdict \in [Routes -> Verdicts] : Tick(h, verdict)
  BY <1>2, TickMoves DEF HostMove, Move
<1>3. ASSUME NEW n \in Msgs, Refuse(h, n) PROVE Move(m)
  <2>1. PICK o \in IF job[h][n].mode = "reconcile"
                   THEN {"unknown_after_send", "dead"} ELSE {"retry_wait", "dead"} :
             finishOutbox(h, n, o, 0)
    BY <1>3 DEF Refuse
  <2>2. Answers(h, n, o, 0) /\ o \in {"accepted", "retry_wait", "unknown_after_send", "dead"}
    BY <1>3, <2>1 DEF Refuse, Turn, Answers
  <2> QED BY <1>1, <1>3, <2>1, <2>2, FinishMoves DEF Refuse
<1>4. ASSUME NEW n \in Msgs, CallAdapter(h, n) PROVE Move(m)
  <2>1. IF m = n THEN JobBecomes(h, m, [job[h][n] EXCEPT !.phase = "calling"]) ELSE JobsKept(m)
    BY <1>1, <1>4, JobSet DEF CallAdapter
  <2>2. wire'[m] = IF m = n /\ job[h][n].mode = "send"
                   THEN wire[n] \cup {job[h][n].token} ELSE wire[m]
    BY <1>1, <1>4 DEF CallAdapter, TypeOK
  <2>3. CASE m = n
    BY <1>4, <2>1, <2>2, <2>3 DEF CallAdapter, Turn, Calls, HostMove, Move
  <2>4. CASE m # n
    BY <1>4, <2>1, <2>2, <2>4 DEF CallAdapter, Rests, WireKept, Move
  <2> QED BY <2>3, <2>4
<1>5. ASSUME NEW n \in Msgs, SendReturns(h, n) PROVE Move(m)
  <2>1. PICK o \in {"accepted", "retry_wait", "unknown_after_send", "dead"},
             pid \in {0, job[h][n].token} : finishOutbox(h, n, o, pid) /\ Answers(h, n, o, pid)
    BY <1>5 DEF SendReturns, Answers, Wired
  <2>2. pid \in Nat
    BY <1>1 DEF TypeOK, Job
  <2> QED BY <1>1, <1>5, <2>1, <2>2, FinishMoves DEF SendReturns
<1>6. ASSUME NEW n \in Msgs, ReconcileReturns(h, n) PROVE Move(m)
  <2>1. CASE \E pid \in landed[n], s \in {"accepted", "delivered", "read"} :
               /\ job' = [job EXCEPT ![h][n] = Idle]
               /\ box' = IF Current(h, n)
                         THEN [box EXCEPT ![n] = Raise(Close(@, "accepted", pid), s)]
                         ELSE box
    <3>1. PICK pid \in landed[n], s \in {"accepted", "delivered", "read"} :
               /\ job' = [job EXCEPT ![h][n] = Idle]
               /\ box' = IF Current(h, n)
                         THEN [box EXCEPT ![n] = Raise(Close(box[n], "accepted", pid), s)]
                         ELSE box
      BY <2>1
    <3>2. pid \in Nat
      BY <1>1 DEF TypeOK
    <3>3. IF m = n THEN JobBecomes(h, m, Idle) ELSE JobsKept(m)
      BY <1>1, <3>1, JobSet
    <3>4. box'[m] = IF m = n /\ Current(h, n)
                    THEN Raise(Close(box[n], "accepted", pid), s) ELSE box[m]
      BY <1>1, <3>1 DEF TypeOK
    <3>5. CASE m = n
      BY <1>6, <3>2, <3>3, <3>4, <3>5 DEF ReconcileReturns, Finds, WireKept, HostMove, Move
    <3>6. CASE m # n
      BY <1>6, <3>3, <3>4, <3>6 DEF ReconcileReturns, Rests, WireKept, Move
    <3> QED BY <3>5, <3>6
  <2>2. CASE /\ landed[n] = {}
             /\ RacyReconcile \/ wire[n] = {}
             /\ finishOutbox(h, n, IF n \in Routes THEN "dead" ELSE "retry_wait", 0)
    <3> DEFINE o == IF n \in Routes THEN "dead" ELSE "retry_wait"
    <3>1. Answers(h, n, o, 0)
      BY <1>6, <2>2 DEF ReconcileReturns, Answers
    <3> QED BY <1>1, <1>6, <2>2, <3>1, FinishMoves DEF ReconcileReturns
  <2>3. CASE finishOutbox(h, n, "unknown_after_send", 0)
    <3>1. Answers(h, n, "unknown_after_send", 0)
      BY <1>6 DEF ReconcileReturns, Answers
    <3> QED BY <1>1, <1>6, <2>3, <3>1, FinishMoves DEF ReconcileReturns
  <2> QED BY <1>6, <2>1, <2>2, <2>3 DEF ReconcileReturns
<1>7. ASSUME NEW n \in Msgs, Abort(h, n) PROVE Move(m)
  <2>1. IF m = n THEN JobBecomes(h, m, [job[h][n] EXCEPT !.phase = "dropped"]) ELSE JobsKept(m)
    BY <1>1, <1>7, JobSet DEF Abort
  <2> QED BY <1>7, <2>1 DEF Abort, Rests, Forgets, WireKept, HostMove, Move
<1>8. ASSUME NEW n \in Msgs, AbortedReturns(h, n) PROVE Move(m)
  <2>1. IF m = n THEN JobBecomes(h, m, Idle) ELSE JobsKept(m)
    BY <1>1, <1>8, JobSet DEF AbortedReturns
  <2> QED BY <1>8, <2>1 DEF AbortedReturns, Rests, Forgets, WireKept, HostMove, Move
<1>9. CASE Crash(h)
  <2>1. JobBecomes(h, m, Idle)
    BY <1>1, <1>9 DEF Crash, JobBecomes, TypeOK
  <2> QED BY <1>9, <2>1 DEF Crash, Forgets, WireKept, HostMove, Move
<1> QED BY <1>2, <1>3, <1>4, <1>5, <1>6, <1>7, <1>8, <1>9 DEF HostStep

(* A step of message n.                                                    *)
LEMMA MessageMoves ==
  ASSUME IInv, NEW n \in Msgs, MessageStep(n), NEW m \in Msgs
  PROVE  Move(m)
<1> DEFINE r == box[n]
<1>1. TypeOK /\ r \in Row /\ JobsKept(m)
  <2>1. UNCHANGED job
    BY DEF MessageStep, LapseUnattended, LapseStalled, Lapse, BackoffElapses, Land, Lose,
       recordReceipt, enqueue, OperatorCancel, OperatorRetry
  <2>2. TypeOK
    BY DEF IInv
  <2>3. JobsKept(m)
    BY <2>1 DEF JobsKept
  <2> QED BY <2>2, <2>3 DEF TypeOK
<1>2. ASSUME NEW k, box' = [box EXCEPT ![n] = k], UNCHANGED <<wire, landed>>
      PROVE  WireKept(m) /\ (IF m = n THEN box'[m] = k ELSE Rests(m))
  BY <1>1, <1>2 DEF TypeOK, Rests, WireKept
<1>3. CASE LapseUnattended(n) \/ LapseStalled(n)
  <2> DEFINE k == [r EXCEPT !.live = FALSE]
  <2>1. /\ box' = [box EXCEPT ![n] = k] /\ UNCHANGED <<wire, landed>>
        /\ r.status = "attempting"
    BY <1>3 DEF LapseUnattended, LapseStalled, Lapse
  <2>2. StalledDispatch \/ \A h \in Hosts : Current(h, n) => job[h][n].phase # "claimed"
    BY <1>3 DEF LapseUnattended, LapseStalled, Attended, Current
  <2>3. WireKept(m) /\ (IF m = n THEN box'[m] = k ELSE Rests(m))
    BY <1>2, <2>1
  <2> QED BY <1>1, <2>1, <2>2, <2>3 DEF Lapses, RowMove, Move
<1>4. CASE BackoffElapses(n)
  <2> DEFINE k == [r EXCEPT !.due = TRUE]
  <2>1. Alike(r, k) /\ (Quiet(r) => Quiet(k))
    BY <1>1 DEF Alike, Row, Quiet, Cancelled
  <2>2. WireKept(m) /\ (IF m = n THEN box'[m] = k ELSE Rests(m))
    BY <1>2, <1>4 DEF BackoffElapses
  <2> QED BY <1>1, <2>1, <2>2 DEF Relabels, RowMove, Move
<1>5. CASE \E a \in wire[n] : Land(n, a) \/ Lose(n, a)
  <2>1. UNCHANGED box /\ \E a \in wire[n] :
          /\ wire'[m] = IF m = n THEN wire[m] \ {a} ELSE wire[m]
          /\ landed'[m] = landed[m] \/ (m = n /\ landed'[m] = landed[m] \cup {a})
    BY <1>1, <1>5 DEF Land, Lose, TypeOK
  <2>2. CASE m = n
    BY <1>1, <2>1, <2>2 DEF Travels, RowMove, Move
  <2>3. CASE m # n
    BY <1>1, <2>1, <2>3 DEF Rests, WireKept, Move
  <2> QED BY <2>2, <2>3
<1>6. CASE \E s \in {"accepted", "delivered", "read"} : recordReceipt(n, s)
  <2>1. PICK s \in {"accepted", "delivered", "read"} : recordReceipt(n, s)
    BY <1>6
  <2>2. r.pid # 0 /\ box' = [box EXCEPT ![n] = Raise(r, s)] /\ UNCHANGED <<wire, landed>>
    BY <2>1 DEF recordReceipt
  <2>3. WireKept(m) /\ (IF m = n THEN box'[m] = Raise(r, s) ELSE Rests(m))
    BY <1>2, <2>2
  <2> QED BY <1>1, <2>2, <2>3 DEF Receives, RowMove, Move
<1>7. CASE enqueue(n)
  <2> DEFINE k == [Absent EXCEPT !.status = "pending", !.gen = bind[LaneOf[n]].generation]
  <2>1. Alike([Absent EXCEPT !.status = "pending"], k)
    BY DEF Alike, Absent
  <2>2. WireKept(m) /\ (IF m = n THEN box'[m] = k ELSE Rests(m))
    BY <1>2, <1>7 DEF enqueue
  <2>3. r.status = "absent" /\ \A a \in 1..(n - 1) : box[a].status # "absent"
    BY <1>7 DEF enqueue
  <2> HIDE DEF k
  <2> QED BY <1>1, <2>1, <2>2, <2>3 DEF Enqueues, RowMove, Move
<1>8. CASE OperatorCancel(n)
  <2> DEFINE k == [r EXCEPT !.decision = "cancel", !.due = TRUE]
  <2>1. Alike(r, k) /\ (Quiet(r) => Quiet(k))
    BY <1>1 DEF Alike, Row, Quiet, Cancelled
  <2>2. box' = [box EXCEPT ![n] = k] /\ UNCHANGED <<wire, landed>>
    BY <1>1, <1>8 DEF OperatorCancel, TypeOK
  <2>3. WireKept(m) /\ (IF m = n THEN box'[m] = k ELSE Rests(m))
    BY <1>2, <2>2
  <2> QED BY <1>1, <2>1, <2>3 DEF Relabels, RowMove, Move
<1>9. CASE OperatorRetry(n)
  <2> DEFINE k == [r EXCEPT !.status = "pending", !.decision = "retry",
                            !.due = TRUE, !.retries = @ + 1]
  <2>1. box' = [box EXCEPT ![n] = k] /\ UNCHANGED <<wire, landed>>
        /\ r.status \in {"dead", "unknown_after_send"}
    BY <1>1, <1>9 DEF OperatorRetry, Resolvable, TypeOK
  <2>2. WireKept(m) /\ (IF m = n THEN box'[m] = k ELSE Rests(m))
    BY <1>2, <2>1
  <2> QED BY <1>1, <2>1, <2>2 DEF Revives, RowMove, Move
<1> QED BY <1>3, <1>4, <1>5, <1>6, <1>7, <1>8, <1>9 DEF MessageStep

(* A step of the whole Outbox.                                             *)
LEMMA EveryMove ==
  ASSUME IInv, [Next]_vars, NEW m \in Msgs
  PROVE  Move(m)
<1>1. CASE \E h \in Hosts : HostStep(h)
  BY <1>1, HostMoves
<1>2. CASE \E n \in Msgs : MessageStep(n)
  BY <1>2, MessageMoves
<1>3. CASE UNCHANGED <<box, job, wire, landed>>
  BY <1>3 DEF Move, Rests, JobsKept, WireKept
<1> QED BY <1>1, <1>2, <1>3 DEF Next, vars, rotateBinding, revokePrincipal, createBinding,
        setRestartFence, clearRestartFence

-----------------------------------------------------------------------------
(* What Close and Raise make of a row's fields.                            *)
Closed(r, o, pid, k) ==
  /\ k \in Row /\ k.status = o /\ ~k.open
  /\ k.sends = r.sends /\ k.recons = r.recons /\ k.retries = r.retries
  /\ k.pid = IF pid = 0 THEN r.pid ELSE pid
  /\ k.doubt <=> r.doubt \/ o \in {"accepted", "unknown_after_send"}

(* The end of an attempt keeps the row's counts.                           *)
LEMMA CloseFields ==
  ASSUME NEW r \in Row, NEW pid \in Nat,
         NEW o \in {"accepted", "retry_wait", "unknown_after_send", "dead"},
         NEW k, k = Close(r, o, pid)
  PROVE  Closed(r, o, pid, k)
<1> DEFINE b == ClearClaim(r)
           doubt == b.doubt \/ o \in {"accepted", "unknown_after_send"}
           p == IF pid = 0 THEN b.pid ELSE pid
<1>1. /\ b \in Row /\ b.sends = r.sends /\ b.recons = r.recons /\ b.retries = r.retries
      /\ b.doubt = r.doubt /\ b.pid = r.pid
  BY OutboxAssumption DEF ClearClaim, Row
<1>2. k = [b EXCEPT !.status = o, !.due = (o # "retry_wait"), !.open = FALSE,
                    !.doubt = doubt, !.pid = p]
  BY DEF Close
<1>3. /\ doubt = (r.doubt \/ o \in {"accepted", "unknown_after_send"})
      /\ p = (IF pid = 0 THEN r.pid ELSE pid)
  BY <1>1
<1>4. doubt \in BOOLEAN /\ p \in Nat /\ (o # "retry_wait") \in BOOLEAN /\ o \in Statuses
  BY <1>1 DEF Row, Statuses
<1> HIDE DEF b, doubt, p
<1>5. /\ k.status = o /\ ~k.open /\ k.sends = b.sends /\ k.recons = b.recons
      /\ k.retries = b.retries /\ k.pid = p /\ k.doubt = doubt /\ k \in Row
  BY <1>1, <1>2, <1>4 DEF Row
<1> QED BY <1>1, <1>3, <1>5 DEF Closed

(* Raising a row keeps its ledger and its provider id.                     *)
LEMMA RaiseFields ==
  ASSUME NEW r \in Row, NEW s \in {"accepted", "delivered", "read"},
         NEW k, k = Raise(r, s)
  PROVE  /\ k.status \in {s, r.status} /\ k.open = r.open /\ k.doubt = r.doubt
         /\ k.pid = r.pid /\ k.sends = r.sends /\ k.recons = r.recons
         /\ k.retries = r.retries /\ k \in Row
         /\ k.status \notin {"accepted", "delivered", "read"} => k = r
         /\ Rank(r.status) <= Rank(k.status) /\ 0 < Rank(k.status)
<1>1. Rank(s) \in Nat /\ 0 < Rank(s) /\ Rank(r.status) \in Nat
  BY DEF Rank
<1>2. CASE Rank(s) > Rank(r.status)
  <2> DEFINE b == ClearClaim(r)
  <2>0. /\ b \in Row /\ b.sends = r.sends /\ b.recons = r.recons /\ b.retries = r.retries
        /\ b.doubt = r.doubt /\ b.pid = r.pid /\ b.open = r.open
    BY DEF ClearClaim, Row
  <2>1. k = [b EXCEPT !.status = s, !.due = TRUE]
    BY <1>2 DEF Raise
  <2> HIDE DEF b
  <2>2. /\ k.status = s /\ k.open = r.open /\ k.doubt = r.doubt
        /\ k.pid = r.pid /\ k.sends = r.sends /\ k.recons = r.recons
        /\ k.retries = r.retries /\ k \in Row
    BY <2>0, <2>1 DEF Row, Statuses
  <2> QED BY <1>1, <1>2, <2>2
<1>3. CASE ~(Rank(s) > Rank(r.status))
  <2>1. k = r
    BY <1>3 DEF Raise
  <2> QED BY <1>1, <1>3, <2>1
<1> QED BY <1>2, <1>3
=============================================================================
