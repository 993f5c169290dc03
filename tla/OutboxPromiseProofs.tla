------------------------ MODULE OutboxPromiseProofs -------------------------
(***************************************************************************)
(* One copy per permission, and the refinement of DeliveryPromise, for any *)
(* number of Hosts, messages, lanes and attempts.  Both need the premises  *)
(* ~StalledDispatch and ~RacyReconcile: without them a Host that stalled   *)
(* between claim and call, or a reconcile that answers while the send is   *)
(* still under way, may have a plain message sent twice.                   *)
(***************************************************************************)
EXTENDS OutboxWireProofs, OutboxPromise

-----------------------------------------------------------------------------
(* One copy per grant, of a Host that does not stall and a provider that   *)
(* does not reconcile too early.                                           *)

Fits(S, n) == IsFiniteSet(S) /\ Cardinality(S) <= n

Waiting(r) == r.status \in {"pending", "retry_wait"}

\* The copies of a message have their permissions, one is left for a message
\* that waits or is about to be sent, and a claim not yet dispatched is the
\* only one and still current, unless a receipt settled the row.
Granted(m) ==
  LET r == box[m] IN
  /\ Fits(Wired(m), 1 + r.retries)
  /\ Waiting(r) => Fits(Wired(m), r.retries)
  /\ r.status = "absent" => r.retries = 0
  /\ \A h \in Hosts :
       /\ job[h][m].phase = "claimed" =>
            /\ Current(h, m) \/ Known(r)
            /\ job[h][m].mode = "send" => Fits(Wired(m), r.retries)
            /\ \A g \in Hosts : job[g][m].phase = "claimed" => g = h
       /\ Current(h, m) /\ job[h][m].phase = "calling" /\ job[h][m].mode = "send" =>
            Fits(Wired(m) \ {job[h][m].token}, r.retries)

GrantInv == \A m \in Msgs : Granted(m)

SameClaim(r, k) ==
  /\ k.status = r.status /\ k.claimedBy = r.claimedBy /\ k.token = r.token
  /\ k.live = r.live

\* A step that takes no permission away and starts no attempt.
Spares(m) ==
  LET r == box[m]
      k == box'[m]
  IN /\ \A h \in Hosts : JobFades(h, m)
     /\ Wired(m)' \subseteq Wired(m) /\ r.retries <= k.retries
     /\ Waiting(k) => Waiting(r) \/ Fits(Wired(m), k.retries)
     /\ k.status = "absent" => r.status = "absent" /\ k.retries = r.retries
     /\ Known(r) => Known(k)
     /\ \A h \in Hosts :
          job'[h][m].phase = "claimed" /\ Current(h, m) => SameClaim(r, k) \/ Known(k)
     /\ k.status = "attempting" /\ k.live => SameClaim(r, k)

(* What fits keeps fitting a part of it and a larger bound.                *)
LEMMA FitsPart ==
  ASSUME NEW S, NEW T, T \subseteq S, NEW n \in Nat, NEW k \in Nat, n <= k, Fits(S, n)
  PROVE  Fits(T, k)
<1>1. IsFiniteSet(T) /\ Cardinality(T) <= Cardinality(S)
  BY FS_Subset DEF Fits
<1>2. Cardinality(T) \in Nat /\ Cardinality(S) \in Nat
  BY <1>1, FS_CardinalityType DEF Fits
<1> QED BY <1>1, <1>2 DEF Fits

(* One more needs one place more.                                          *)
LEMMA FitsMore ==
  ASSUME NEW S, NEW n \in Nat, NEW x, Fits(S, n)
  PROVE  Fits(S \cup {x}, 1 + n)
<1>1. /\ IsFiniteSet(S \cup {x}) /\ Cardinality(S) \in Nat
      /\ Cardinality(S \cup {x}) = IF x \in S THEN Cardinality(S) ELSE Cardinality(S) + 1
  BY FS_AddElement, FS_CardinalityType DEF Fits
<1> QED BY <1>1 DEF Fits

(* Nothing always fits.                                                    *)
LEMMA FitsNone ==
  ASSUME NEW n \in Nat
  PROVE  Fits({}, n)
BY FS_EmptySet DEF Fits

(* A sparing step keeps the permissions.                                   *)
LEMMA SparesKeeps ==
  ASSUME TypeOK, TypeOK', NEW m \in Msgs, Granted(m), Spares(m)
  PROVE  Granted(m)'
<1> DEFINE r == box[m]
           k == box'[m]
<1>1. /\ r.retries \in Nat /\ k.retries \in Nat /\ r.retries <= k.retries
      /\ 1 + r.retries \in Nat /\ 1 + k.retries \in Nat
      /\ 1 + r.retries <= 1 + k.retries /\ Wired(m)' \subseteq Wired(m)
  <2>1. r.retries \in Nat /\ k.retries \in Nat /\ r.retries <= k.retries
    BY DEF TypeOK, Row, Spares
  <2> QED BY <2>1 DEF Spares
<1>2. Fits(Wired(m)', 1 + k.retries)
  BY <1>1, FitsPart DEF Granted
<1>3. Fits(Wired(m), r.retries) => Fits(Wired(m)', k.retries)
  BY <1>1, FitsPart
<1>4. Waiting(k) => Fits(Wired(m)', k.retries)
  <2>1. Fits(Wired(m), k.retries) => Fits(Wired(m)', k.retries)
    BY <1>1, FitsPart
  <2> QED BY <1>3, <2>1 DEF Granted, Spares
<1>5. k.status = "absent" => k.retries = 0
  BY DEF Granted, Spares
<1>6. ASSUME NEW h \in Hosts, job'[h][m].phase \in {"claimed", "calling"}
      PROVE  job'[h][m] = job[h][m]
  BY <1>6 DEF Spares, JobFades
<1>7. ASSUME NEW h \in Hosts, job'[h][m].phase = "claimed"
      PROVE  /\ Current(h, m)' \/ Known(k)
             /\ job'[h][m].mode = "send" => Fits(Wired(m)', k.retries)
             /\ \A g \in Hosts : job'[g][m].phase = "claimed" => g = h
  <2>1. job'[h][m] = job[h][m] /\ job[h][m].phase = "claimed"
    BY <1>6, <1>7
  <2>2. (Current(h, m) \/ Known(r))
        /\ (job[h][m].mode = "send" => Fits(Wired(m), r.retries))
    BY <2>1 DEF Granted
  <2>3. Current(h, m)' \/ Known(k)
    BY <1>7, <2>1, <2>2 DEF Spares, SameClaim, Current
  <2>4. \A g \in Hosts : job'[g][m].phase = "claimed" => g = h
    BY <1>6, <2>1 DEF Granted
  <2> QED BY <1>3, <2>1, <2>2, <2>3, <2>4
<1>8. ASSUME NEW h \in Hosts, Current(h, m)', job'[h][m].phase = "calling",
             job'[h][m].mode = "send"
      PROVE  Fits(Wired(m)' \ {job'[h][m].token}, k.retries)
  <2>1. job'[h][m] = job[h][m]
    BY <1>6, <1>8
  <2>2. Current(h, m)
    BY <1>8, <2>1 DEF Spares, SameClaim, Current
  <2>3. Fits(Wired(m) \ {job[h][m].token}, r.retries)
    BY <1>8, <2>1, <2>2 DEF Granted
  <2>4. Wired(m)' \ {job'[h][m].token} \subseteq Wired(m) \ {job[h][m].token}
    BY <1>1, <2>1
  <2> HIDE DEF r, k
  <2> QED BY <1>1, <2>3, <2>4, FitsPart
<1> QED BY <1>2, <1>4, <1>5, <1>7, <1>8 DEF Granted

(* A copy put on the wire uses a permission.                               *)
LEMMA CallsGranted ==
  ASSUME TypeOK, NEW m \in Msgs, NEW h \in Hosts, Traced(m), Granted(m), Calls(h, m)
  PROVE  Granted(m)'
<1> DEFINE r == box[m]
           t == job[h][m].token
           sends == job[h][m].mode = "send"
<1>1. /\ box'[m] = r /\ landed'[m] = landed[m] /\ job[h][m] \in Job /\ r.retries \in Nat
      /\ job[h][m].phase = "claimed"
      /\ \A g \in Hosts : g # h => job'[g][m] = job[g][m]
      /\ job'[h][m] = [job[h][m] EXCEPT !.phase = "calling"]
  BY DEF TypeOK, Row, Calls, JobBecomes
<1>2. job'[h][m].phase = "calling" /\ job'[h][m].token = t
      /\ job'[h][m].mode = job[h][m].mode
  BY <1>1 DEF Job
<1>3. Wired(m)' = IF sends THEN Wired(m) \cup {t} ELSE Wired(m)
  BY <1>1 DEF Calls, Wired
<1>4. t \notin Wired(m)
  BY <1>1 DEF Traced
<1>5. /\ Current(h, m) \/ Known(r)
      /\ sends => Fits(Wired(m), r.retries)
      /\ \A g \in Hosts : g # h => job[g][m].phase # "claimed"
  BY <1>1 DEF Granted
<1>6. \A g \in Hosts : job'[g][m].phase # "claimed"
  BY <1>1, <1>2, <1>5
<1>7. \A g \in Hosts : Current(g, m)' => Current(g, m)
  <2>1. \A g \in Hosts : job'[g][m].token = job[g][m].token
    BY <1>1, <1>2
  <2> QED BY <1>1, <2>1 DEF Current
<1>8. Fits(Wired(m)', 1 + r.retries)
  <2>1. ASSUME sends PROVE Fits(Wired(m) \cup {t}, 1 + r.retries)
    BY <1>1, <1>5, <2>1, FitsMore
  <2>2. Fits(Wired(m), 1 + r.retries)
    BY DEF Granted
  <2> QED BY <1>3, <2>1, <2>2
<1>9. ~Waiting(r)
  BY <1>5 DEF Current, Known, Waiting
<1>10. ASSUME NEW g \in Hosts, Current(g, m)', job'[g][m].phase = "calling",
              job'[g][m].mode = "send"
       PROVE  Fits(Wired(m)' \ {job'[g][m].token}, r.retries)
  <2>1. g = h
    BY <1>5, <1>7, <1>10 DEF Current, Known
  <2>2. Wired(m)' \ {t} = Wired(m)
    BY <1>2, <1>3, <1>4, <1>10, <2>1
  <2> QED BY <1>2, <1>5, <1>10, <2>1, <2>2
<1> QED BY <1>1, <1>6, <1>8, <1>9, <1>10 DEF Granted

(* A claim finds a permission left.                                        *)
LEMMA ClaimsGranted ==
  ASSUME TypeOK, NEW m \in Msgs, NEW h \in Hosts, Traced(m), Granted(m), TickClaims(h, m)
  PROVE  Granted(m)'
<1> DEFINE r == box[m]
           n == box'[m]
<1>1. PICK k \in Row :
        /\ Swept(r, k) /\ Eligible(m, k) /\ n = Claim(k, h)
        /\ JobBecomes(h, m, [phase |-> "claimed", mode |-> Mode(k),
                             token |-> AttemptCount(k) + 1])
  BY DEF TickClaims
<1>2. /\ n.status = "attempting" /\ n.claimedBy = h /\ n.token = AttemptCount(k) + 1
      /\ n.live /\ n.retries = k.retries
  BY <1>1 DEF Claim, Row
<1>3. /\ job'[h][m].phase = "claimed" /\ job'[h][m].mode = Mode(k)
      /\ job'[h][m].token = AttemptCount(k) + 1
      /\ \A g \in Hosts : g # h => job'[g][m] = job[g][m]
  BY <1>1 DEF JobBecomes
<1>4. Wired(m)' = Wired(m) /\ k.retries = r.retries
  BY <1>1 DEF TickClaims, WireKept, Wired, Swept
<1>5. \A g \in Hosts : job[g][m].phase # "claimed"
  <2> SUFFICES ASSUME NEW g \in Hosts, job[g][m].phase = "claimed" PROVE FALSE
    OBVIOUS
  <2>1. Current(g, m) \/ Known(r)
    BY DEF Granted
  <2>2. k = r
    BY <1>1, <2>1 DEF Current, Known, Swept, Terminal
  <2> QED BY <1>1, <2>1, <2>2 DEF Current, Known, Eligible
<1>6. Current(h, m)' /\ \A g \in Hosts : Current(g, m)' => g = h
  BY <1>2, <1>3 DEF Current
<1>7. Mode(k) = "send" => Fits(Wired(m), r.retries)
  <2> SUFFICES ASSUME Mode(k) = "send" PROVE Waiting(r)
    BY DEF Granted
  <2>1. Waiting(k)
    BY <1>1 DEF Mode, Eligible, Waiting
  <2>2. r.status \in Statuses
    BY DEF TypeOK, Row
  <2> QED BY <1>1, <2>1, <2>2 DEF Swept, Waiting, Statuses, Terminal
<1> QED BY <1>2, <1>3, <1>4, <1>5, <1>6, <1>7 DEF Granted, Waiting

(* A row left alone while operations end.                                  *)
LEMMA SameRowSpares ==
  ASSUME NEW m \in Msgs, TypeOK, box'[m] = box[m], Wired(m)' \subseteq Wired(m),
         \A h \in Hosts : JobFades(h, m)
  PROVE  Spares(m)
<1>1. box[m].retries <= box[m].retries
  BY DEF TypeOK, Row
<1> QED BY <1>1 DEF Spares, SameClaim

(* What Granted says of the holder's answer.                               *)
LEMMA AnswerFits ==
  ASSUME ~RacyReconcile, NEW m \in Msgs, NEW h \in Hosts, TypeOK, Granted(m), Current(h, m),
         NEW pid, Answers(h, m, "retry_wait", pid)
  PROVE  Fits(Wired(m), box[m].retries)
<1> DEFINE j == job[h][m]
<1>1. box[m].retries \in Nat /\ j \in Job
  BY DEF TypeOK, Row
<1>2. CASE j.phase = "claimed"
  <2>1. j.mode = "send"
    BY <1>1, <1>2 DEF Answers, Job
  <2> QED BY <1>2, <2>1 DEF Granted
<1>3. CASE j.phase = "calling" /\ j.mode = "send"
  <2>1. Wired(m) \ {j.token} = Wired(m)
    BY <1>3 DEF Answers
  <2> QED BY <1>3, <2>1 DEF Granted
<1>4. CASE j.phase = "calling" /\ j.mode = "reconcile"
  <2>1. Wired(m) = {}
    BY <1>4 DEF Answers, Wired
  <2> QED BY <1>1, <2>1, FitsNone
<1> QED BY <1>1, <1>2, <1>3, <1>4 DEF Answers

(* Every other move of a Host spares the permissions.                      *)
LEMMA HostSpares ==
  ASSUME ~RacyReconcile, IInv, NEW m \in Msgs, NEW h \in Hosts, Granted(m),
         HostMove(h, m), ~Calls(h, m), ~TickClaims(h, m)
  PROVE  Spares(m)
<1> DEFINE r == box[m]
           n == box'[m]
<1>1. TypeOK /\ r \in Row /\ r.status \in Statuses /\ r.retries \in Nat
      /\ r.retries <= r.retries
  <2>1. TypeOK /\ r \in Row /\ r.status \in Statuses /\ r.retries \in Nat
    BY DEF IInv, TypeOK, Row
  <2> QED BY <2>1
<1>2. WireKept(m) => Wired(m)' = Wired(m)
  BY DEF WireKept, Wired
<1>3. CASE Forgets(h, m)
  <2>1. ASSUME NEW g \in Hosts PROVE JobFades(g, m)
    <3> DEFINE j == [job[h][m] EXCEPT !.phase = "dropped"]
    <3>1. /\ j.phase = "dropped" /\ j.token = job[h][m].token /\ j.mode = job[h][m].mode
      BY <1>1 DEF TypeOK, Job
    <3>2. \/ JobBecomes(h, m, Idle)
          \/ JobBecomes(h, m, j) /\ job[h][m].phase = "calling"
      BY <1>3 DEF Forgets
    <3> HIDE DEF j
    <3> QED BY <3>1, <3>2, IdleFades DEF JobBecomes, JobFades
  <2> QED BY <1>1, <1>2, <1>3, <2>1, SameRowSpares DEF Forgets
<1>4. CASE Ticks(h, m)
  <2>1. PICK k \in Row : Swept(r, k) /\ n = k /\ JobsKept(m)
    BY <1>4 DEF Ticks, TickClaims
  <2>2. WireKept(m) /\ \A g \in Hosts : JobFades(g, m)
    BY <1>4, <2>1, IdleFades DEF Ticks
  <2>3. k.retries = r.retries
    BY <2>1 DEF Swept
  <2>4. CASE r.status \in Terminal \cup {"absent"}
    <3>1. n = r
      BY <2>1, <2>4 DEF Swept
    <3> QED BY <1>1, <1>2, <2>2, <3>1, SameRowSpares
  <2>5. CASE r.status = "attempting" /\ r.live
    <3>1. n = r
      BY <2>1, <2>5 DEF Swept
    <3> QED BY <1>1, <1>2, <2>2, <3>1, SameRowSpares
  <2>6. CASE r.status = "attempting" /\ ~r.live
    <3>1. k.status \in {"unknown_after_send", "dead"}
      BY <2>1, <2>6 DEF Swept
    <3>2. \A g \in Hosts : ~Current(g, m)
      BY <2>6 DEF Current
    <3> QED BY <1>1, <1>2, <2>1, <2>2, <2>3, <2>6, <3>1, <3>2
            DEF Spares, Waiting, Known, SameClaim
  <2>7. CASE r.status \in {"pending", "retry_wait", "unknown_after_send"}
    <3>1. k.status \in {r.status, "dead"} \cup
            (IF r.status = "pending" THEN {"retry_wait"} ELSE {})
      BY <2>1, <2>7 DEF Swept
    <3>2. k.status \notin {"absent", "attempting"} /\ (Waiting(k) => Waiting(r)) /\ ~Known(r)
      BY <2>7, <3>1 DEF Waiting, Known
    <3>3. \A g \in Hosts : ~Current(g, m)
      BY <2>7 DEF Current
    <3> QED BY <1>1, <1>2, <2>1, <2>2, <2>3, <3>2, <3>3 DEF Spares
  <2> QED BY <1>1, <2>4, <2>5, <2>6, <2>7 DEF Statuses, Terminal
<1>5. ASSUME WireKept(m), JobBecomes(h, m, Idle), Current(h, m),
             n.status \notin {"absent", "attempting"}, n.retries = r.retries,
             Waiting(n) => Fits(Wired(m), r.retries)
      PROVE  Spares(m)
  <2>1. \A g \in Hosts : Current(g, m) => g = h
    BY <1>5 DEF Current
  <2>2. job'[h][m].phase = "idle" /\ \A g \in Hosts : JobFades(g, m)
    BY <1>5, IdleFades DEF JobBecomes, Idle
  <2>3. ~Known(r)
    BY <1>5 DEF Current, Known
  <2> QED BY <1>1, <1>2, <1>5, <2>1, <2>2, <2>3 DEF Spares
<1>6. ASSUME NEW o \in {"accepted", "retry_wait", "unknown_after_send", "dead"},
             NEW pid \in Nat, Finishes(h, m, o, pid)
      PROVE  Spares(m)
  <2>1. CASE Current(h, m)
    <3>1. Closed(r, o, pid, n)
      BY <1>1, <1>6, <2>1, CloseFields DEF Finishes
    <3>2. n.status = o /\ n.retries = r.retries
      BY <3>1 DEF Closed
    <3>3. Waiting(n) => Fits(Wired(m), r.retries)
      BY <1>1, <1>6, <2>1, <3>2, AnswerFits DEF Waiting, Finishes
    <3> QED BY <1>5, <1>6, <2>1, <3>2, <3>3 DEF Finishes
  <2>2. CASE ~Current(h, m)
    BY <1>1, <1>2, <1>6, <2>2, SameRowSpares, IdleFades DEF Finishes
  <2> QED BY <2>1, <2>2
<1>7. ASSUME NEW s \in {"accepted", "delivered", "read"}, NEW pid \in Nat, Finds(h, m, pid, s)
      PROVE  Spares(m)
  <2>1. CASE Current(h, m)
    <3> DEFINE c == Close(r, "accepted", pid)
    <3>1. Closed(r, "accepted", pid, c)
      BY <1>1, CloseFields
    <3>2. n = Raise(c, s)
      BY <1>7, <2>1 DEF Finds
    <3> HIDE DEF c
    <3>3. c \in Row /\ c.status = "accepted" /\ c.retries = r.retries
      BY <3>1 DEF Closed
    <3>4. n.status \in {s, c.status} /\ n.retries = r.retries
      BY <3>2, <3>3, RaiseFields
    <3> QED BY <1>5, <1>7, <2>1, <3>3, <3>4 DEF Finds, Waiting
  <2>2. CASE ~Current(h, m)
    BY <1>1, <1>2, <1>7, <2>2, SameRowSpares, IdleFades DEF Finds
  <2> QED BY <2>1, <2>2
<1> QED BY <1>3, <1>4, <1>6, <1>7 DEF HostMove

(* Time, producers, receipts and the operator spare them too.              *)
LEMMA RowSpares ==
  ASSUME ~StalledDispatch, IInv, NEW m \in Msgs, Traced(m), Granted(m),
         RowMove(m) \/ Rests(m)
  PROVE  Spares(m)
<1> DEFINE r == box[m]
           k == box'[m]
<1>1. TypeOK /\ r \in Row /\ r.status \in Statuses /\ r.retries \in Nat
      /\ r.retries <= r.retries
  <2>1. TypeOK /\ r \in Row /\ r.status \in Statuses /\ r.retries \in Nat
    BY DEF IInv, TypeOK, Row
  <2> QED BY <2>1
<1>2. \A h \in Hosts : JobFades(h, m) /\ job'[h][m] = job[h][m]
  BY DEF Rests, RowMove, Relabels, Lapses, Enqueues, Revives, Travels, Receives,
     JobsKept, JobFades
<1>3. WireKept(m) => Wired(m)' = Wired(m)
  BY DEF WireKept, Wired
<1>4. CASE Rests(m)
  BY <1>1, <1>2, <1>3, <1>4, SameRowSpares DEF Rests
<1>5. CASE Travels(m)
  <2>1. Wired(m)' \subseteq Wired(m) /\ box'[m] = box[m]
    BY <1>5 DEF Travels, Wired
  <2> QED BY <1>1, <1>2, <2>1, SameRowSpares
<1>6. CASE Relabels(m)
  <2>1. SameClaim(r, k) /\ k.retries = r.retries /\ k.status = r.status /\ WireKept(m)
    BY <1>6 DEF Relabels, Alike, SameClaim
  <2> QED BY <1>1, <1>2, <1>3, <2>1 DEF Spares, Waiting, Known
<1>7. CASE Lapses(m)
  <2>1. /\ k.status = "attempting" /\ ~k.live /\ k.retries = r.retries /\ WireKept(m)
        /\ r.status = "attempting"
    BY <1>1, <1>7 DEF Lapses, Row
  <2>2. \A h \in Hosts : Current(h, m) => job'[h][m].phase # "claimed"
    BY <1>2, <1>7 DEF Lapses
  <2> QED BY <1>1, <1>2, <1>3, <2>1, <2>2 DEF Spares, Waiting, Known
<1>8. ASSUME NEW s \in {"accepted", "delivered", "read"}, Receives(m, s) PROVE Spares(m)
  <2>1. k = Raise(r, s) /\ r.pid # 0 /\ WireKept(m)
    BY <1>8 DEF Receives
  <2>2. /\ k.status \in {s, r.status} /\ k.retries = r.retries
        /\ k.status \notin {"accepted", "delivered", "read"} => k = r
        /\ 0 < Rank(k.status)
    BY <1>1, <2>1, RaiseFields
  <2>3. Known(k)
    BY <1>1, <2>2, Ranks DEF Known
  <2> QED BY <1>1, <1>2, <1>3, <2>1, <2>2, <2>3 DEF Spares, Waiting, Known
<1>9. CASE Revives(m)
  <2>1. /\ k.status = "pending" /\ k.retries = r.retries + 1 /\ WireKept(m)
        /\ r.status \in {"dead", "unknown_after_send"}
    BY <1>1, <1>9 DEF Revives, Row
  <2>2. 1 + r.retries = k.retries /\ r.retries <= k.retries
    BY <1>1, <2>1
  <2>3. Fits(Wired(m), k.retries)
    BY <2>2 DEF Granted
  <2>4. \A h \in Hosts : ~Current(h, m)
    BY <2>1 DEF Current
  <2> QED BY <1>2, <1>3, <2>1, <2>2, <2>3, <2>4 DEF Spares, Known
<1>10. CASE Enqueues(m)
  <2>1. /\ k.status = "pending" /\ k.retries = 0 /\ WireKept(m) /\ r.status = "absent"
    BY <1>10 DEF Enqueues, Alike, Absent
  <2>2. r.retries = 0
    BY <2>1 DEF Granted
  <2>3. Wired(m) = {}
    <3>1. \A c \in Wired(m) : c \in Nat /\ 0 < c /\ c <= 0
      BY <1>1, <2>1 DEF Traced, TypeOK, Wired
    <3> QED BY <3>1
  <2>4. Fits(Wired(m), k.retries)
    BY <2>1, <2>3, FitsNone
  <2>5. \A h \in Hosts : ~Current(h, m)
    BY <2>1 DEF Current
  <2> QED BY <1>1, <1>2, <1>3, <2>1, <2>2, <2>4, <2>5 DEF Spares, Known
<1> QED BY <1>4, <1>5, <1>6, <1>7, <1>8, <1>9, <1>10 DEF RowMove

(* Every step keeps the permissions of every message.                      *)
LEMMA NextGrant ==
  ASSUME ~StalledDispatch, ~RacyReconcile
  PROVE  IInv /\ IInv' /\ WireInv /\ GrantInv /\ [Next]_vars => GrantInv'
<1> SUFFICES ASSUME IInv, IInv', WireInv, GrantInv, [Next]_vars, NEW m \in Msgs
             PROVE  Granted(m)'
  BY DEF GrantInv
<1>1. Traced(m) /\ Granted(m) /\ Move(m) /\ TypeOK /\ TypeOK'
  BY EveryMove DEF WireInv, GrantInv, IInv
<1>2. CASE Rests(m) \/ RowMove(m)
  BY <1>1, <1>2, RowSpares, SparesKeeps
<1>3. ASSUME NEW h \in Hosts, HostMove(h, m) PROVE Granted(m)'
  BY <1>1, <1>3, HostSpares, SparesKeeps, CallsGranted, ClaimsGranted
<1> QED BY <1>1, <1>2, <1>3 DEF Move

(* At first there is nothing to permit.                                    *)
LEMMA InitGrant == Init => GrantInv
<1> SUFFICES ASSUME Init, NEW m \in Msgs PROVE Granted(m)
  BY DEF GrantInv
<1>1. /\ box[m] = Absent /\ wire[m] = {} /\ landed[m] = {}
      /\ \A h \in Hosts : job[h][m].phase = "idle"
  BY DEF Init, Idle
<1>2. /\ Absent.retries = 0 /\ Absent.status = "absent"
  BY DEF Absent
<1>3. Wired(m) = {} /\ Fits({}, 1 + 0)
  BY <1>1, FitsNone DEF Wired
<1> QED BY <1>1, <1>2, <1>3 DEF Granted, Waiting

(* The copies of a message stay within their permissions.                  *)
LEMMA AllGranted ==
  ASSUME ~StalledDispatch, ~RacyReconcile
  PROVE  Spec => [](IInv /\ WireInv /\ GrantInv)
<1>1. Init => IInv /\ WireInv /\ GrantInv
  BY InitIInv, InitWire, InitGrant
<1>2. IInv /\ WireInv /\ GrantInv /\ [Next]_vars => (IInv /\ WireInv /\ GrantInv)'
  BY NextIInv, NextWire, NextGrant
<1> QED BY <1>1, <1>2, PTL DEF Spec

(* At most one copy reaches the provider, and one more for every retry an  *)
(* operator asked for, whatever crashes, lost leases, late answers,        *)
(* receipts and reconciles do; a Host that stalls past its lease between   *)
(* claim and call, and a reconcile that answers too early, are excluded.   *)
THEOREM OneCopyPerGrant ==
  ~StalledDispatch /\ ~RacyReconcile => (Spec => []AtMostOncePerGrant)
<1> SUFFICES ASSUME ~StalledDispatch, ~RacyReconcile
             PROVE  Spec => []AtMostOncePerGrant
  OBVIOUS
<1>1. IInv /\ WireInv /\ GrantInv => AtMostOncePerGrant
  <2> SUFFICES ASSUME IInv, GrantInv, NEW m \in Msgs
               PROVE  Cardinality(landed[m]) <= 1 + box[m].retries
    BY DEF AtMostOncePerGrant
  <2>1. 1 + box[m].retries \in Nat /\ 1 + box[m].retries <= 1 + box[m].retries
    <3>1. box[m].retries \in Nat
      BY DEF IInv, TypeOK, Row
    <3> QED BY <3>1
  <2>2. Fits(Wired(m), 1 + box[m].retries) /\ landed[m] \subseteq Wired(m)
    BY DEF GrantInv, Granted, Wired
  <2>3. Fits(landed[m], 1 + box[m].retries)
    BY <2>1, <2>2, FitsPart
  <2> QED BY <2>3 DEF Fits
<1> QED BY <1>1, AllGranted, PTL

(* Under the same conditions a message that waits to be sent was never     *)
(* accepted and is not under way, unless an operator chose to repeat it.   *)
THEOREM WaitingIsFree ==
  ~StalledDispatch /\ ~RacyReconcile => (Spec => []WaitingIsUnsent)
<1> SUFFICES ASSUME ~StalledDispatch, ~RacyReconcile
             PROVE  Spec => []WaitingIsUnsent
  OBVIOUS
<1>1. IInv /\ WireInv /\ GrantInv => WaitingIsUnsent
  <2> SUFFICES ASSUME IInv, GrantInv, NEW m \in Msgs, Waiting(box[m]), box[m].retries = 0
               PROVE  wire[m] \cup landed[m] = {}
    BY DEF WaitingIsUnsent, Waiting
  <2>1. Fits(Wired(m), 0)
    BY DEF GrantInv, Granted
  <2>2. Cardinality(Wired(m)) = 0
    BY <2>1, FS_CardinalityType DEF Fits
  <2> QED BY <2>1, <2>2, FS_EmptySet DEF Fits, Wired
<1> QED BY <1>1, AllGranted, PTL

-----------------------------------------------------------------------------
(* The Outbox implements DeliveryPromise.                                  *)

(* The outcome of a row by its status.                                     *)
LEMMA OutcomeIs ==
  ASSUME NEW r
  PROVE  /\ Known(r) => Outcome(r) = "delivered"
         /\ r.status = "dead" => Outcome(r) = "failed"
         /\ r.status = "unknown_after_send" => Outcome(r) = "doubt"
         /\ r.status = "attempting" /\ r.doubt => Outcome(r) = "doubt"
         /\ r.status = "attempting" /\ ~r.doubt => Outcome(r) = "open"
         /\ r.status \in {"absent", "pending", "retry_wait"} => Outcome(r) = "open"
BY DEF Outcome, Known

(* Steps of the outcome alone.                                             *)
LEMMA OutcomeSteps ==
  ASSUME NEW m \in Msgs, landed'[m] = landed[m], box'[m].retries = box[m].retries,
         \/ Outcome(box'[m]) = Outcome(box[m])
         \/ Outcome(box[m]) = "open" /\ Outcome(box'[m]) = "doubt"
         \/ /\ Outcome(box[m]) = "doubt" /\ Outcome(box'[m]) = "open"
            /\ Cardinality(landed[m]) < 1 + box[m].retries
         \/ Outcome(box[m]) \in {"open", "doubt"} /\ Outcome(box'[m]) = "failed"
         \/ /\ Outcome(box[m]) # "delivered" /\ Outcome(box'[m]) = "delivered"
            /\ Cardinality(landed[m]) > 0
  PROVE  [Promise(m)!Next]_(Promise(m)!vars)
<1>1. Outcome(box[m])' = Outcome(box'[m])
  BY DEF Outcome
<1> QED BY <1>1 DEF Promise!vars, Promise!Next, Promise!Doubt, Promise!Requeue,
            Promise!Fail, Promise!Confirm

(* A copy that landed counts.                                              *)
LEMMA LandedCounts ==
  ASSUME TypeOK, NEW m \in Msgs, Granted(m)
  PROVE  /\ IsFiniteSet(landed[m]) /\ Cardinality(landed[m]) \in Nat
         /\ landed[m] # {} => Cardinality(landed[m]) > 0
<1>1. IsFiniteSet(landed[m])
  BY FS_Subset DEF Granted, Fits, Wired
<1>2. Cardinality(landed[m]) \in Nat /\ (Cardinality(landed[m]) = 0 <=> landed[m] = {})
  BY <1>1, FS_CardinalityType, FS_EmptySet
<1> QED BY <1>1, <1>2

(* A tick.                                                                 *)
LEMMA PromiseTick ==
  ASSUME TypeOK, NEW m \in Msgs, NEW h \in Hosts, Traced(m), Ticks(h, m)
  PROVE  [Promise(m)!Next]_(Promise(m)!vars)
<1> DEFINE r == box[m]
           n == box'[m]
<1>1. PICK k \in Row :
       /\ Swept(r, k)
       /\ \/ n = k
          \/ Eligible(m, k) /\ n = Claim(k, h)
  BY DEF Ticks
<1>2. landed'[m] = landed[m] /\ r.status \in Statuses
  BY DEF Ticks, WireKept, TypeOK, Row
<1>3. \/ n = k
      \/ /\ n.status = "attempting" /\ n.doubt = k.doubt /\ n.retries = k.retries
         /\ k.status \in {"pending", "retry_wait", "unknown_after_send"}
  BY <1>1 DEF Claim, Eligible, Row
<1>4. n.retries = r.retries
  BY <1>1, <1>3 DEF Swept
<1>5. CASE r.status \in Terminal \cup {"absent"}
  <2>1. n = r
    BY <1>1, <1>3, <1>5 DEF Swept, Terminal
  <2> QED BY <1>2, <2>1, OutcomeSteps
<1>6. CASE r.status = "attempting" /\ r.live
  <2>1. n = r
    BY <1>1, <1>3, <1>6 DEF Swept
  <2> QED BY <1>2, <2>1, OutcomeSteps
<1>7. CASE r.status = "attempting" /\ ~r.live
  <2>1. k.doubt /\ k.status \in {"unknown_after_send", "dead"}
    BY <1>1, <1>7 DEF Swept
  <2>2. Outcome(r) \in {"open", "doubt"}
    BY <1>7, OutcomeIs
  <2>3. Outcome(n) \in {"doubt", "failed"}
    BY <1>3, <2>1, OutcomeIs
  <2> QED BY <1>2, <1>4, <2>2, <2>3, OutcomeSteps
<1>8. CASE r.status \in {"pending", "retry_wait"}
  <2>1. k.status \in {"pending", "retry_wait", "dead"}
    BY <1>1, <1>8 DEF Swept
  <2>2. Outcome(r) = "open"
    BY <1>8, OutcomeIs
  <2>3. Outcome(n) \in {"open", "doubt", "failed"}
    BY <1>3, <2>1, OutcomeIs
  <2> QED BY <1>2, <1>4, <2>2, <2>3, OutcomeSteps
<1>9. CASE r.status = "unknown_after_send"
  <2>1. k.status \in {"unknown_after_send", "dead"} /\ k.doubt = r.doubt /\ r.doubt
    BY <1>1, <1>9 DEF Swept, Traced
  <2>2. Outcome(r) = "doubt"
    BY <1>9, OutcomeIs
  <2>3. Outcome(n) \in {"doubt", "failed"}
    BY <1>3, <2>1, OutcomeIs
  <2> QED BY <1>2, <1>4, <2>2, <2>3, OutcomeSteps
<1> QED BY <1>2, <1>5, <1>6, <1>7, <1>8, <1>9 DEF Statuses, Terminal

(* The end of an operation.                                                *)
LEMMA PromiseFinish ==
  ASSUME ~RacyReconcile, TypeOK, NEW m \in Msgs, NEW h \in Hosts, Granted(m), NEW pid \in Nat,
         NEW o \in {"accepted", "retry_wait", "unknown_after_send", "dead"},
         Finishes(h, m, o, pid)
  PROVE  [Promise(m)!Next]_(Promise(m)!vars)
<1> DEFINE r == box[m]
           n == box'[m]
<1>1. landed'[m] = landed[m] /\ r \in Row /\ r.retries \in Nat
  BY DEF Finishes, WireKept, TypeOK, Row
<1>2. CASE ~Current(h, m)
  BY <1>1, <1>2, OutcomeSteps DEF Finishes
<1>3. CASE Current(h, m)
  <2>1. Closed(r, o, pid, n)
    BY <1>1, <1>3, CloseFields DEF Finishes
  <2>2. n.status = o /\ n.retries = r.retries
    BY <2>1 DEF Closed
  <2>3. Outcome(r) \in {"open", "doubt"}
    BY <1>3, OutcomeIs DEF Current
  <2>4. CASE o = "accepted"
    <3>1. Cardinality(landed[m]) > 0
      BY <2>4, LandedCounts DEF Finishes, Answers
    <3>2. Outcome(n) = "delivered"
      BY <2>2, <2>4, OutcomeIs DEF Known
    <3> QED BY <1>1, <2>2, <2>3, <3>1, <3>2, OutcomeSteps
  <2>5. CASE o = "retry_wait"
    <3>1. Fits(Wired(m), r.retries)
      BY <1>3, <2>5, AnswerFits DEF Finishes
    <3>2. Fits(landed[m], r.retries)
      BY <1>1, <3>1, FitsPart DEF Wired
    <3>3. Cardinality(landed[m]) < 1 + r.retries
      BY <1>1, <3>2, LandedCounts DEF Fits
    <3>4. Outcome(n) = "open"
      BY <2>2, <2>5, OutcomeIs
    <3> QED BY <1>1, <2>2, <2>3, <3>3, <3>4, OutcomeSteps
  <2>6. CASE o \in {"unknown_after_send", "dead"}
    <3>1. Outcome(n) \in {"doubt", "failed"}
      BY <2>2, <2>6, OutcomeIs
    <3> QED BY <1>1, <2>2, <2>3, <3>1, OutcomeSteps
  <2> QED BY <2>4, <2>5, <2>6
<1> QED BY <1>2, <1>3

(* A copy found by a reconcile, or reported by a receipt.                  *)
LEMMA PromiseConfirm ==
  ASSUME TypeOK, NEW m \in Msgs, Traced(m), Granted(m),
         \/ \E s \in {"accepted", "delivered", "read"} : Receives(m, s)
         \/ \E h \in Hosts, s \in {"accepted", "delivered", "read"}, pid \in Nat :
              Finds(h, m, pid, s)
  PROVE  [Promise(m)!Next]_(Promise(m)!vars)
<1> DEFINE r == box[m]
           n == box'[m]
<1>1. landed'[m] = landed[m] /\ r \in Row /\ r.status \in Statuses
  BY DEF Receives, Finds, WireKept, TypeOK, Row
<1>2. ASSUME NEW k \in Row, k.retries = r.retries,
             NEW s \in {"accepted", "delivered", "read"}, n = Raise(k, s)
      PROVE  Known(n) /\ n.retries = r.retries
  <2>1. n \in Row /\ n.retries = r.retries /\ 0 < Rank(n.status)
    BY <1>2, RaiseFields
  <2>2. n.status \in Statuses
    BY <2>1 DEF Row
  <2> QED BY <2>1, <2>2, Ranks DEF Known
<1>3. ASSUME Known(n), n.retries = r.retries, landed[m] # {}
      PROVE  [Promise(m)!Next]_(Promise(m)!vars)
  <2>1. Outcome(n) = "delivered" /\ Cardinality(landed[m]) > 0
    BY <1>3, OutcomeIs, LandedCounts
  <2> QED BY <1>1, <1>3, <2>1, OutcomeSteps
<1>4. ASSUME NEW s \in {"accepted", "delivered", "read"}, Receives(m, s)
      PROVE  [Promise(m)!Next]_(Promise(m)!vars)
  <2>1. n = Raise(r, s) /\ landed[m] # {}
    BY <1>4 DEF Receives, Traced
  <2>2. Known(n) /\ n.retries = r.retries
    BY <1>1, <1>2, <2>1
  <2> HIDE DEF r, n
  <2> QED BY <1>3, <2>1, <2>2
<1>5. ASSUME NEW h \in Hosts, NEW s \in {"accepted", "delivered", "read"}, NEW pid \in Nat,
             Finds(h, m, pid, s)
      PROVE  [Promise(m)!Next]_(Promise(m)!vars)
  <2>1. CASE ~Current(h, m)
    BY <1>1, <1>5, <2>1, OutcomeSteps DEF Finds
  <2>2. CASE Current(h, m)
    <3> DEFINE c == Close(r, "accepted", pid)
    <3>1. Closed(r, "accepted", pid, c)
      BY <1>1, CloseFields
    <3>2. n = Raise(c, s) /\ landed[m] # {}
      BY <1>5, <2>2 DEF Finds
    <3> HIDE DEF c
    <3>3. c \in Row /\ c.retries = r.retries
      BY <3>1 DEF Closed
    <3>4. Known(n) /\ n.retries = r.retries
      BY <1>2, <3>2, <3>3
    <3> HIDE DEF r, n
    <3> QED BY <1>3, <3>2, <3>4
  <2> QED BY <2>1, <2>2
<1> QED BY <1>4, <1>5

(* A copy lands or is lost.                                                *)
LEMMA PromiseTravel ==
  ASSUME TypeOK, NEW m \in Msgs, Traced(m), Granted(m), Travels(m)
  PROVE  [Promise(m)!Next]_(Promise(m)!vars)
<1>1. PICK a \in wire[m] : landed'[m] = landed[m] \/ landed'[m] = landed[m] \cup {a}
  BY DEF Travels
<1>2. box'[m] = box[m] /\ box[m].retries \in Nat
  BY DEF Travels, TypeOK, Row
<1>3. CASE landed'[m] = landed[m]
  BY <1>2, <1>3, OutcomeSteps
<1>4. CASE landed'[m] = landed[m] \cup {a}
  <2>1. a \notin landed[m] /\ landed[m] \cup {a} \subseteq Wired(m)
    BY DEF Traced, Wired
  <2>2. IsFiniteSet(landed[m]) /\ Cardinality(landed[m]) \in Nat
    BY LandedCounts
  <2>3. Cardinality(landed'[m]) = Cardinality(landed[m]) + 1
    BY <1>4, <2>1, <2>2, FS_AddElement
  <2>4. Cardinality(landed'[m]) <= 1 + box[m].retries
    <3>1. 1 + box[m].retries \in Nat /\ 1 + box[m].retries <= 1 + box[m].retries
      BY <1>2
    <3>2. Fits(landed[m] \cup {a}, 1 + box[m].retries)
      BY <2>1, <3>1, FitsPart DEF Granted
    <3> QED BY <1>4, <3>2 DEF Fits
  <2>5. Cardinality(landed[m]) < 1 + box[m].retries
    BY <1>2, <2>2, <2>3, <2>4
  <2>6. Outcome(box[m])' = Outcome(box[m]) /\ box'[m].retries = box[m].retries
    BY <1>2 DEF Outcome
  <2> QED BY <2>3, <2>5, <2>6 DEF Promise!vars, Promise!Next, Promise!Copy
<1> QED BY <1>1, <1>3, <1>4

(* An operator sends the message again.                                    *)
LEMMA PromiseRevive ==
  ASSUME TypeOK, NEW m \in Msgs, Revives(m)
  PROVE  [Promise(m)!Next]_(Promise(m)!vars)
<1>1. /\ box[m] \in Row /\ landed'[m] = landed[m]
      /\ box[m].status \in {"dead", "unknown_after_send"}
  BY DEF TypeOK, Revives, WireKept
<1>2. box'[m].status = "pending" /\ box'[m].retries = box[m].retries + 1
      /\ box[m].retries \in Nat
  BY <1>1 DEF Revives, Row
<1>3. Outcome(box[m]) \in {"doubt", "failed"} /\ Outcome(box'[m]) = "open"
  BY <1>1, <1>2, OutcomeIs
<1>4. Outcome(box[m])' = Outcome(box'[m])
  BY DEF Outcome
<1>5. 1 + box'[m].retries = (1 + box[m].retries) + 1
  BY <1>2
<1> QED BY <1>1, <1>3, <1>4, <1>5 DEF Promise!Next, Promise!OperatorRetry

(* Every step of the Outbox is a step of the promise of each message.      *)
LEMMA PromiseStep ==
  ASSUME ~RacyReconcile, IInv, WireInv, GrantInv, [Next]_vars, NEW m \in Msgs
  PROVE  [Promise(m)!Next]_(Promise(m)!vars)
<1>1. TypeOK /\ Traced(m) /\ Granted(m) /\ Move(m) /\ box[m] \in Row
  BY EveryMove DEF IInv, WireInv, GrantInv, TypeOK
<1>2. CASE Rests(m) \/ \E h \in Hosts : Forgets(h, m) \/ Calls(h, m)
  <2>1. box'[m] = box[m] /\ landed'[m] = landed[m]
    BY <1>2 DEF Rests, Forgets, Calls, WireKept
  <2> QED BY <2>1, OutcomeSteps
<1>3. CASE Relabels(m) \/ Lapses(m)
  <2>1. /\ box'[m].status = box[m].status /\ box'[m].doubt = box[m].doubt
        /\ box'[m].retries = box[m].retries /\ landed'[m] = landed[m]
    BY <1>1, <1>3 DEF Relabels, Alike, Lapses, WireKept, Row
  <2>2. Outcome(box'[m]) = Outcome(box[m])
    BY <2>1, Zenon DEF Outcome
  <2> QED BY <2>1, <2>2, OutcomeSteps
<1>4. CASE Enqueues(m)
  <2>1. /\ box[m].status = "absent" /\ box'[m].status = "pending"
        /\ box'[m].retries = 0 /\ landed'[m] = landed[m]
    BY <1>4 DEF Enqueues, Alike, Absent, WireKept
  <2>2. box[m].retries = 0 /\ Outcome(box[m]) = "open" /\ Outcome(box'[m]) = "open"
    BY <1>1, <2>1, OutcomeIs DEF Granted
  <2> QED BY <2>1, <2>2, OutcomeSteps
<1>5. ASSUME NEW h \in Hosts, HostMove(h, m) PROVE [Promise(m)!Next]_(Promise(m)!vars)
  BY <1>1, <1>2, <1>5, PromiseTick, PromiseFinish, PromiseConfirm DEF HostMove
<1>6. CASE RowMove(m)
  BY <1>1, <1>3, <1>4, <1>6, PromiseTravel, PromiseRevive, PromiseConfirm DEF RowMove
<1> QED BY <1>1, <1>2, <1>5, <1>6 DEF Move

(* The Outbox starts where the promise does.                               *)
LEMMA PromiseInit == Init => \A m \in Msgs : Promise(m)!Init
<1> SUFFICES ASSUME Init, NEW m \in Msgs PROVE Promise(m)!Init
  OBVIOUS
<1>1. box[m] = Absent /\ landed[m] = {}
  BY DEF Init
<1>2. Absent.status = "absent" /\ Absent.retries = 0
  BY DEF Absent
<1>3. Outcome(box[m]) = "open"
  BY <1>1, <1>2, OutcomeIs
<1>4. Cardinality(landed[m]) = 0 /\ 1 + box[m].retries = 1
  BY <1>1, <1>2, FS_EmptySet
<1> QED BY <1>3, <1>4 DEF Promise!Init

(* The Outbox implements DeliveryPromise, message by message, for any      *)
(* number of Hosts and messages: at most one copy per permission, delivery *)
(* reported only of a copy, and failure undone only by an operator or the  *)
(* provider.                                                               *)
THEOREM Refines == ~StalledDispatch /\ ~RacyReconcile => (Spec => KeepsPromise)
<1> SUFFICES ASSUME ~StalledDispatch, ~RacyReconcile
             PROVE  Spec => KeepsPromise
  OBVIOUS
<1>1. Init => \A m \in Msgs : Promise(m)!Init
  BY PromiseInit
<1>2. IInv /\ WireInv /\ GrantInv /\ [Next]_vars =>
        [\A m \in Msgs : [Promise(m)!Next]_(Promise(m)!vars)]_vars
  BY PromiseStep
<1> QED BY <1>1, <1>2, AllGranted, PTL DEF Spec, KeepsPromise
=============================================================================
