-------------------------- MODULE OutboxWireProofs --------------------------
(***************************************************************************)
(* How the rows of the Outbox relate to the copies that really travel, for *)
(* any number of Hosts, messages, lanes and attempts: an accepted row names *)
(* a copy, an owner route is sent once, only the holder of a claim settles *)
(* it, outcomes only improve, the fence holds, and lanes are sent in order. *)
(***************************************************************************)
EXTENDS OutboxMoves, FiniteSetTheorems

Held(h, m) ==
  /\ box[m].status = "attempting" /\ box[m].claimedBy = h
  /\ box[m].token = job[h][m].token
Known(r) == r.status \in {"accepted", "delivered", "read"}

-----------------------------------------------------------------------------
(* The invariants of one message.                                          *)

\* Its row and operations trace every copy: provider ids name copies that
\* were accepted, attempt numbers are never used twice, and what is unknown
\* is remembered as in doubt.
Traced(m) ==
  LET r == box[m] IN
  /\ r.pid # 0 => r.pid \in landed[m]
  /\ Known(r) => r.pid # 0
  /\ r.status = "absent" => AttemptCount(r) = 0
  /\ r.status = "unknown_after_send" => r.doubt
  /\ \A a \in Wired(m) : 0 < a /\ a <= AttemptCount(r)
  /\ wire[m] \cap landed[m] = {}
  /\ \A h \in Hosts : job[h][m].phase # "idle" =>
       /\ 0 < job[h][m].token /\ job[h][m].token <= AttemptCount(r)
       /\ \A g \in Hosts \ {h} :
            job[g][m].phase # "idle" => job[g][m].token # job[h][m].token
       /\ job[h][m].phase = "claimed" => job[h][m].token \notin Wired(m)
       /\ Held(h, m) /\ job[h][m].mode = "reconcile" => r.doubt

\* An owner route with a copy shows it in its ledger, and the operation that
\* holds it has put no other copy on the wire.
Routed(m) ==
  m \in Routes =>
    /\ \A a, b \in Wired(m) : a = b
    /\ Wired(m) # {} => box[m].open \/ box[m].doubt
    /\ \A h \in Hosts : Held(h, m) /\ job[h][m].mode = "send" =>
         /\ job[h][m].phase = "claimed" => Wired(m) = {}
         /\ job[h][m].phase = "calling" => Wired(m) \subseteq {job[h][m].token}

WireInv == \A m \in Msgs : Traced(m) /\ Routed(m)

\* A step that neither claims the message nor puts a copy of it on the wire.
JobFades(h, m) ==
  \/ job'[h][m] = job[h][m]
  \/ job'[h][m].phase = "idle"
  \/ /\ job[h][m].phase = "calling" /\ job'[h][m].phase = "dropped"
     /\ job'[h][m].token = job[h][m].token /\ job'[h][m].mode = job[h][m].mode
RowFades(r, k) ==
  /\ AttemptCount(k) >= AttemptCount(r)
  /\ Known(k) => k.pid # 0
  /\ k.status = "absent" => AttemptCount(k) = 0
  /\ k.status = "unknown_after_send" => k.doubt
  /\ k.status = "attempting" =>
       /\ r.status = "attempting" /\ k.claimedBy = r.claimedBy /\ k.token = r.token
       /\ r.doubt => k.doubt
Fades(m) ==
  /\ \A h \in Hosts : JobFades(h, m)
  /\ RowFades(box[m], box'[m])
  /\ box'[m].pid # 0 => box'[m].pid \in landed'[m]
  /\ Wired(m)' \subseteq Wired(m) /\ wire'[m] \cap landed'[m] = {}
  /\ m \in Routes /\ Wired(m)' # {} => box'[m].open \/ box'[m].doubt

TickClaims(h, m) ==
  /\ WireKept(m) /\ job[h][m].phase = "idle"
  /\ \E k \in Row :
       /\ Swept(box[m], k) /\ Eligible(m, k) /\ box'[m] = Claim(k, h)
       /\ JobBecomes(h, m, [phase |-> "claimed", mode |-> Mode(k),
                            token |-> AttemptCount(k) + 1])

(* A fading step keeps the invariants of the message.                      *)
LEMMA FadesKeeps ==
  ASSUME TypeOK, TypeOK', NEW m \in Msgs, Traced(m), Routed(m), Fades(m)
  PROVE  Traced(m)' /\ Routed(m)'
<1> DEFINE r == box[m]
           k == box'[m]
<1>1. /\ r \in Row /\ k \in Row /\ AttemptCount(r) \in Nat /\ AttemptCount(k) \in Nat
      /\ AttemptCount(k) >= AttemptCount(r)
      /\ \A h \in Hosts : job[h][m] \in Job /\ job'[h][m] \in Job
      /\ Wired(m) \subseteq Nat /\ Wired(m)' \subseteq Nat
  BY DEF TypeOK, Row, AttemptCount, Fades, RowFades, Wired
<1>2. ASSUME NEW h \in Hosts, job'[h][m].phase # "idle"
      PROVE  /\ job[h][m].phase # "idle" /\ job'[h][m].token = job[h][m].token
             /\ job'[h][m].mode = job[h][m].mode
             /\ job'[h][m].phase \in {"claimed", "calling"} => job'[h][m] = job[h][m]
             /\ Held(h, m)' => Held(h, m) /\ (r.doubt => k.doubt)
  BY <1>2 DEF Fades, RowFades, JobFades, Held
<1>3. \A a \in Wired(m)' : a \in Wired(m)
  BY DEF Fades
<1>4. Traced(m)'
  <2>1. \A a \in Wired(m)' : 0 < a /\ a <= AttemptCount(k)
    BY <1>1, <1>3 DEF Traced
  <2>2. /\ k.pid # 0 => k.pid \in landed'[m]
        /\ Known(k) => k.pid # 0
        /\ k.status = "absent" => AttemptCount(k) = 0
        /\ k.status = "unknown_after_send" => k.doubt
        /\ wire'[m] \cap landed'[m] = {}
    BY DEF Fades, RowFades
  <2>3. ASSUME NEW h \in Hosts, job'[h][m].phase # "idle"
        PROVE  /\ 0 < job'[h][m].token /\ job'[h][m].token <= AttemptCount(k)
               /\ \A g \in Hosts \ {h} :
                    job'[g][m].phase # "idle" => job'[g][m].token # job'[h][m].token
               /\ job'[h][m].phase = "claimed" => job'[h][m].token \notin Wired(m)'
               /\ Held(h, m)' /\ job'[h][m].mode = "reconcile" => k.doubt
    <3>1. /\ 0 < job[h][m].token /\ job[h][m].token <= AttemptCount(r)
          /\ \A g \in Hosts \ {h} :
               job[g][m].phase # "idle" => job[g][m].token # job[h][m].token
          /\ job[h][m].phase = "claimed" => job[h][m].token \notin Wired(m)
          /\ Held(h, m) /\ job[h][m].mode = "reconcile" => r.doubt
      BY <1>2, <2>3 DEF Traced
    <3>2. job[h][m].token \in Nat
      BY <1>1 DEF Job
    <3>3. 0 < job'[h][m].token /\ job'[h][m].token <= AttemptCount(k)
      BY <1>1, <1>2, <2>3, <3>1, <3>2
    <3>4. \A g \in Hosts \ {h} :
            job'[g][m].phase # "idle" => job'[g][m].token # job'[h][m].token
      BY <1>2, <2>3, <3>1
    <3>5. job'[h][m].phase = "claimed" => job'[h][m].token \notin Wired(m)'
      BY <1>2, <1>3, <2>3, <3>1
    <3> QED BY <1>2, <2>3, <3>1, <3>3, <3>4, <3>5
  <2> QED BY <2>1, <2>2, <2>3 DEF Traced
<1>5. Routed(m)'
  <2> SUFFICES ASSUME m \in Routes
               PROVE  /\ \A a, b \in Wired(m)' : a = b
                      /\ Wired(m)' # {} => k.open \/ k.doubt
                      /\ \A h \in Hosts : Held(h, m)' /\ job'[h][m].mode = "send" =>
                           /\ job'[h][m].phase = "claimed" => Wired(m)' = {}
                           /\ job'[h][m].phase = "calling" =>
                                Wired(m)' \subseteq {job'[h][m].token}
    BY DEF Routed
  <2>1. \A a, b \in Wired(m)' : a = b
    BY <1>3 DEF Routed
  <2>2. Wired(m)' # {} => k.open \/ k.doubt
    BY DEF Fades
  <2>3. ASSUME NEW h \in Hosts, Held(h, m)', job'[h][m].mode = "send",
               job'[h][m].phase \in {"claimed", "calling"}
        PROVE  /\ job'[h][m].phase = "claimed" => Wired(m)' = {}
               /\ job'[h][m].phase = "calling" => Wired(m)' \subseteq {job'[h][m].token}
    <3>1. Held(h, m) /\ job'[h][m] = job[h][m]
      BY <1>2, <2>3
    <3> QED BY <1>3, <2>3, <3>1 DEF Routed
  <2> QED BY <2>1, <2>2, <2>3
<1> QED BY <1>4, <1>5

(* So does putting a copy on the wire, ...                                 *)
LEMMA CallsKeeps ==
  ASSUME TypeOK, TypeOK', NEW m \in Msgs, NEW h \in Hosts, Traced(m), Routed(m),
         RowOK(box[m]), Calls(h, m)
  PROVE  Traced(m)' /\ Routed(m)'
<1> DEFINE r == box[m]
           t == job[h][m].token
           sends == job[h][m].mode = "send"
<1>1. /\ box'[m] = r /\ landed'[m] = landed[m] /\ job[h][m] \in Job
      /\ job[h][m].phase = "claimed"
      /\ \A g \in Hosts : g # h => job'[g][m] = job[g][m]
      /\ job'[h][m] = [job[h][m] EXCEPT !.phase = "calling"]
  BY DEF TypeOK, Calls, JobBecomes
<1>2. job'[h][m].phase = "calling" /\ job'[h][m].token = t
      /\ job'[h][m].mode = job[h][m].mode
  BY <1>1 DEF Job
<1>3. \A g \in Hosts : Held(g, m)' <=> Held(g, m)
  BY <1>1, <1>2 DEF Held
<1>4. \A g \in Hosts : job'[g][m].token = job[g][m].token
        /\ job'[g][m].mode = job[g][m].mode
        /\ (job'[g][m].phase # "idle" => job[g][m].phase # "idle")
        /\ (g # h => job'[g][m].phase = job[g][m].phase)
  BY <1>1, <1>2
<1>5. Wired(m)' = IF sends THEN Wired(m) \cup {t} ELSE Wired(m)
  BY <1>1 DEF Calls, Wired
<1>6. 0 < t /\ t <= AttemptCount(r) /\ t \notin Wired(m)
  BY <1>1 DEF Traced
<1>7. Traced(m)'
  <2>1. \A a \in Wired(m)' : 0 < a /\ a <= AttemptCount(r)
    BY <1>5, <1>6 DEF Traced
  <2>2. wire'[m] \cap landed'[m] = {}
    BY <1>1, <1>6 DEF Traced, Calls, Wired
  <2>3. \A g \in Hosts : g # h /\ job[g][m].phase = "claimed" => job[g][m].token \notin Wired(m)'
    BY <1>1, <1>5 DEF Traced
  <2>4. ASSUME NEW g \in Hosts, job'[g][m].phase # "idle"
        PROVE  /\ 0 < job'[g][m].token /\ job'[g][m].token <= AttemptCount(r)
               /\ \A f \in Hosts \ {g} :
                    job'[f][m].phase # "idle" => job'[f][m].token # job'[g][m].token
               /\ job'[g][m].phase = "claimed" => job'[g][m].token \notin Wired(m)'
               /\ Held(g, m)' /\ job'[g][m].mode = "reconcile" => r.doubt
    BY <1>2, <1>3, <1>4, <2>3, <2>4 DEF Traced
  <2> QED BY <1>1, <2>1, <2>2, <2>4 DEF Traced
<1>8. Routed(m)'
  <2> SUFFICES ASSUME m \in Routes
               PROVE  /\ \A a, b \in Wired(m)' : a = b
                      /\ Wired(m)' # {} => r.open \/ r.doubt
                      /\ \A g \in Hosts : Held(g, m)' /\ job'[g][m].mode = "send" =>
                           /\ job'[g][m].phase = "claimed" => Wired(m)' = {}
                           /\ job'[g][m].phase = "calling" =>
                                Wired(m)' \subseteq {job'[g][m].token}
    BY <1>1 DEF Routed
  <2>1. CASE sends
    <3>1. Held(h, m)
      BY <2>1 DEF Calls, MaySend, Held
    <3>2. Wired(m) = {} /\ r.open
      BY <1>1, <2>1, <3>1 DEF Routed, RowOK, Matches, Held
    <3>3. \A g \in Hosts : Held(g, m) => g = h
      BY <3>1 DEF Held
    <3> QED BY <1>2, <1>3, <1>5, <2>1, <3>2, <3>3
  <2>2. CASE ~sends
    BY <1>2, <1>3, <1>4, <1>5, <2>2 DEF Routed
  <2> QED BY <2>1, <2>2
<1> QED BY <1>7, <1>8

(* ... and a claim.                                                        *)
LEMMA ClaimsKeeps ==
  ASSUME TypeOK, TypeOK', NEW m \in Msgs, NEW h \in Hosts, Traced(m), Routed(m),
         TickClaims(h, m)
  PROVE  Traced(m)' /\ Routed(m)'
<1> DEFINE r == box[m]
<1>1. PICK k \in Row :
        /\ Swept(r, k) /\ Eligible(m, k) /\ box'[m] = Claim(k, h)
        /\ JobBecomes(h, m, [phase |-> "claimed", mode |-> Mode(k),
                             token |-> AttemptCount(k) + 1])
  BY DEF TickClaims
<1> DEFINE n == AttemptCount(k)
<1>2. r \in Row /\ AttemptCount(r) \in Nat /\ n \in Nat /\ AttemptCount(r) <= n
  BY <1>1 DEF TypeOK, Row, AttemptCount, Swept
<1>3. /\ box'[m].status = "attempting" /\ box'[m].claimedBy = h /\ box'[m].token = n + 1
      /\ box'[m].open /\ box'[m].doubt = k.doubt /\ box'[m].pid = k.pid
      /\ AttemptCount(box'[m]) = n + 1
  BY <1>1, <1>2 DEF Claim, Row, AttemptCount
<1>4. /\ job'[h][m].phase = "claimed" /\ job'[h][m].mode = Mode(k) /\ job'[h][m].token = n + 1
      /\ \A g \in Hosts : g # h => job'[g][m] = job[g][m]
  BY <1>1 DEF JobBecomes
<1>5. Wired(m)' = Wired(m) /\ wire'[m] = wire[m] /\ landed'[m] = landed[m]
  BY DEF TickClaims, WireKept, Wired
<1>6. k.pid = r.pid /\ (r.doubt => k.doubt) /\ (r.open => k.open \/ k.doubt)
  <2>1. r.status \notin Terminal \cup {"absent"}
    BY <1>1 DEF Swept, Eligible, Terminal
  <2> QED BY <1>1, <1>2, <2>1 DEF Swept, Eligible, Row, Statuses, Terminal
<1>7. \A g \in Hosts : job[g][m] \in Job /\ job[g][m].token \in Nat
  BY DEF TypeOK, Job
<1>8. \A g \in Hosts : g # h => ~Held(g, m)'
  BY <1>3 DEF Held
<1>9. Mode(k) = "reconcile" => k.doubt
  <2>1. CASE k.status = "unknown_after_send"
    <3>1. r.status \notin Terminal \cup {"absent", "pending", "retry_wait"}
      BY <1>1, <2>1 DEF Swept, Terminal
    <3> QED BY <1>1, <1>2, <2>1, <3>1 DEF Swept, Row, Statuses, Terminal, Traced
  <2> QED BY <2>1 DEF Mode
<1>10. Traced(m)'
  <2>1. \A a \in Wired(m)' : 0 < a /\ a <= n + 1
    BY <1>2, <1>5 DEF Traced, TypeOK, Wired
  <2>2. n + 1 \notin Wired(m)
    BY <1>2 DEF Traced, TypeOK, Wired
  <2>3. ASSUME NEW g \in Hosts, job'[g][m].phase # "idle"
        PROVE  /\ 0 < job'[g][m].token /\ job'[g][m].token <= n + 1
               /\ \A f \in Hosts \ {g} :
                    job'[f][m].phase # "idle" => job'[f][m].token # job'[g][m].token
               /\ job'[g][m].phase = "claimed" => job'[g][m].token \notin Wired(m)'
               /\ Held(g, m)' /\ job'[g][m].mode = "reconcile" => k.doubt
    <3>1. ASSUME NEW f \in Hosts, f # h, job'[f][m].phase # "idle"
          PROVE  /\ 0 < job'[f][m].token /\ job'[f][m].token <= n
                 /\ job'[f][m] = job[f][m]
      BY <1>2, <1>4, <1>7, <3>1 DEF Traced
    <3>2. CASE g = h
      BY <1>2, <1>4, <1>5, <1>7, <1>9, <2>2, <3>1, <3>2
    <3>3. CASE g # h
      BY <1>2, <1>4, <1>5, <1>7, <1>8, <2>3, <3>1, <3>3 DEF Traced
    <3> QED BY <3>2, <3>3
  <2>4. Known(box'[m]) = FALSE /\ (box'[m].pid # 0 => box'[m].pid \in landed'[m])
    BY <1>3, <1>5, <1>6 DEF Known, Traced
  <2> QED BY <1>3, <1>5, <2>1, <2>3, <2>4 DEF Traced
<1>11. Routed(m)'
  <2> SUFFICES ASSUME m \in Routes
               PROVE  /\ \A a, b \in Wired(m) : a = b
                      /\ Held(h, m)' /\ job'[h][m].mode = "send" => Wired(m) = {}
    BY <1>3, <1>4, <1>5, <1>8 DEF Routed
  <2>1. ASSUME Mode(k) = "send" PROVE Wired(m) = {}
    <3>1. ownerRouteIsProvablyUnsent(k)
      BY <1>1, <2>1 DEF Eligible, Mode
    <3>2. ~r.open /\ ~r.doubt
      BY <1>2, <1>6, <3>1 DEF ownerRouteIsProvablyUnsent, Row
    <3> QED BY <3>2 DEF Routed
  <2> QED BY <1>4, <2>1 DEF Routed
<1> QED BY <1>10, <1>11

-----------------------------------------------------------------------------
(* Every other move fades.                                                 *)

(* What is left to show of a step that puts nothing on the wire.           *)
LEMMA FadeParts ==
  ASSUME NEW m \in Msgs, Traced(m), Routed(m), WireKept(m),
         \A h \in Hosts : JobFades(h, m), RowFades(box[m], box'[m]),
         box'[m].pid # 0 => box'[m].pid \in landed[m],
         m \in Routes /\ Wired(m) # {} => box'[m].open \/ box'[m].doubt
  PROVE  Fades(m)
<1>1. Wired(m)' = Wired(m) /\ wire'[m] = wire[m] /\ landed'[m] = landed[m]
  BY DEF WireKept, Wired
<1> QED BY <1>1 DEF Fades, Traced

(* A sweep changes a row as a fading step may.                             *)
LEMMA SweptFades ==
  ASSUME NEW m \in Msgs, TypeOK, Traced(m), NEW k, Swept(box[m], k)
  PROVE  /\ RowFades(box[m], k) /\ k.pid = box[m].pid
         /\ box[m].open \/ box[m].doubt => k.open \/ k.doubt
<1> DEFINE r == box[m]
<1>1. /\ r \in Row /\ r.status \in Statuses /\ r.live \in BOOLEAN
      /\ AttemptCount(k) >= AttemptCount(r) /\ k.pid = r.pid
  BY DEF TypeOK, Row, Swept
<1>2. /\ Known(r) => r.pid # 0
      /\ r.status = "absent" => AttemptCount(r) = 0
      /\ r.status = "unknown_after_send" => r.doubt
  BY DEF Traced
<1>3. CASE r.status \in Terminal \cup {"absent"}
  <2>1. k = r /\ r.status # "attempting"
    BY <1>3 DEF Swept, Terminal
  <2> QED BY <1>1, <1>2, <2>1 DEF RowFades
<1>4. CASE r.status = "attempting"
  <2>1. IF r.live THEN k = r ELSE k.doubt /\ k.status \in {"unknown_after_send", "dead"}
    BY <1>4 DEF Swept
  <2>2. CASE r.live
    BY <1>1, <1>2, <2>1, <2>2 DEF RowFades
  <2>3. CASE ~r.live
    BY <1>1, <2>1, <2>3 DEF RowFades, Known
  <2> QED BY <2>2, <2>3
<1>5. CASE r.status \in {"pending", "retry_wait", "unknown_after_send"}
  <2>1. /\ k.open = r.open /\ k.doubt = r.doubt
        /\ k.status \in {r.status, "dead"} \cup
             (IF r.status = "pending" THEN {"retry_wait"} ELSE {})
    BY <1>5 DEF Swept
  <2>2. k.status \in {"pending", "retry_wait", "unknown_after_send", "dead"}
        /\ (k.status = "unknown_after_send" => r.status = "unknown_after_send")
    BY <1>5, <2>1
  <2> QED BY <1>1, <1>2, <2>1, <2>2 DEF RowFades, Known
<1> QED BY <1>1, <1>3, <1>4, <1>5 DEF Statuses, Terminal

(* A step that leaves the row alone.                                       *)
LEMMA SameRowFades ==
  ASSUME NEW m \in Msgs, TypeOK, Traced(m), Routed(m), box'[m] = box[m], WireKept(m),
         \A h \in Hosts : JobFades(h, m)
  PROVE  Fades(m)
<1>1. AttemptCount(box[m]) \in Nat
  BY DEF TypeOK, Row, AttemptCount
<1>2. RowFades(box[m], box'[m])
  BY <1>1 DEF RowFades, Traced
<1>3. m \in Routes /\ Wired(m) # {} => box'[m].open \/ box'[m].doubt
  BY DEF Routed
<1>4. box'[m].pid # 0 => box'[m].pid \in landed[m]
  BY DEF Traced
<1> QED BY <1>2, <1>3, <1>4, FadeParts

(* Nothing happens, or a Host forgets an operation.                        *)
LEMMA ForgetFades ==
  ASSUME NEW m \in Msgs, TypeOK, Traced(m), Routed(m),
         Rests(m) \/ (\E h \in Hosts : Forgets(h, m))
  PROVE  Fades(m)
<1>1. ASSUME NEW h \in Hosts PROVE JobFades(h, m)
  <2>1. CASE Rests(m)
    BY <2>1 DEF Rests, JobsKept, JobFades
  <2>2. ASSUME NEW g \in Hosts, Forgets(g, m) PROVE JobFades(h, m)
    <3>1. job[g][m] \in Job /\ Idle.phase = "idle"
      BY DEF TypeOK, Idle
    <3>2. CASE JobBecomes(g, m, Idle)
      BY <3>1, <3>2 DEF JobBecomes, JobFades
    <3>3. CASE job[g][m].phase = "calling"
               /\ JobBecomes(g, m, [job[g][m] EXCEPT !.phase = "dropped"])
      <4> DEFINE j == [job[g][m] EXCEPT !.phase = "dropped"]
      <4>1. j.phase = "dropped" /\ j.token = job[g][m].token /\ j.mode = job[g][m].mode
        BY <3>1 DEF Job
      <4>2. job'[h][m] = IF h = g THEN j ELSE job[h][m]
        BY <3>3 DEF JobBecomes
      <4> HIDE DEF j
      <4> QED BY <3>3, <4>1, <4>2 DEF JobFades
    <3> QED BY <2>2, <3>2, <3>3 DEF Forgets
  <2> QED BY <2>1, <2>2
<1> QED BY <1>1, SameRowFades DEF Rests, Forgets

(* The jobs of an operation that ends.                                     *)
LEMMA IdleFades ==
  ASSUME NEW m \in Msgs, NEW h \in Hosts, JobBecomes(h, m, Idle) \/ JobsKept(m)
  PROVE  \A g \in Hosts : JobFades(g, m)
BY DEF JobBecomes, JobsKept, JobFades, Idle

(* The end of an operation.                                                *)
LEMMA FinishFades ==
  ASSUME NEW m \in Msgs, NEW h \in Hosts, TypeOK, Traced(m), Routed(m), NEW pid \in Nat,
         NEW o \in {"accepted", "retry_wait", "unknown_after_send", "dead"},
         Finishes(h, m, o, pid)
  PROVE  Fades(m)
<1> DEFINE r == box[m]
           k == Close(r, o, pid)
<1>1. r \in Row /\ WireKept(m) /\ Answers(h, m, o, pid) /\ \A g \in Hosts : JobFades(g, m)
  BY IdleFades DEF Finishes, TypeOK
<1>2. CASE ~Current(h, m)
  BY <1>1, <1>2, SameRowFades DEF Finishes
<1>3. CASE Current(h, m)
  <2>0. k = Close(r, o, pid)
    OBVIOUS
  <2> HIDE DEF k
  <2>1. /\ k.status = o /\ ~k.open /\ k.sends = r.sends /\ k.recons = r.recons
        /\ k.pid = (IF pid = 0 THEN r.pid ELSE pid)
        /\ (k.doubt <=> r.doubt \/ o \in {"accepted", "unknown_after_send"})
    <3>1. Closed(r, o, pid, k)
      BY <1>1, <2>0, CloseFields
    <3> QED BY <3>1 DEF Closed
  <2>2. box'[m] = k /\ Held(h, m)
    BY <1>3, <2>0 DEF Finishes, Current, Held
  <2>3. AttemptCount(k) >= AttemptCount(r) /\ k.status \notin {"absent", "attempting"}
    <3>1. AttemptCount(k) = AttemptCount(r) /\ AttemptCount(r) \in Nat
      BY <1>1, <2>1 DEF AttemptCount, Row
    <3> QED BY <2>1, <3>1
  <2>4. pid # 0 => pid \in landed[m]
    BY <1>1 DEF Answers
  <2>5. k.pid # 0 => k.pid \in landed[m]
    BY <2>1, <2>4 DEF Traced
  <2>6. Known(k) => k.pid # 0
    <3>1. o = "accepted" => pid # 0
      <4>1. o = "accepted" => pid = job[h][m].token /\ pid \in landed[m]
        BY <1>1 DEF Answers
      <4>2. \A a \in landed[m] : 0 < a
        BY DEF Traced, Wired
      <4> QED BY <4>1, <4>2
    <3> QED BY <2>1, <3>1 DEF Known
  <2>7. RowFades(r, k)
    BY <2>1, <2>3, <2>6 DEF RowFades
  <2>8. ASSUME m \in Routes, o \in {"retry_wait", "dead"}, ~r.doubt PROVE Wired(m) = {}
    <3> DEFINE j == job[h][m]
    <3>1. j \in Job /\ (j.phase # "idle" /\ j.mode = "reconcile" => r.doubt)
      BY <2>2 DEF Traced, TypeOK
    <3>2. j.phase \in {"claimed", "calling"} /\ j.mode = "send"
      BY <1>1, <2>8, <3>1 DEF Answers, Job
    <3>3. j.phase = "calling" => j.token \notin Wired(m)
      BY <1>1, <2>8, <3>2 DEF Answers
    <3> QED BY <2>2, <2>8, <3>2, <3>3 DEF Routed
  <2>9. m \in Routes /\ Wired(m) # {} => k.doubt
    BY <2>1, <2>8
  <2> QED BY <1>1, <2>2, <2>5, <2>7, <2>9, FadeParts
<1> QED BY <1>2, <1>3

(* A reconcile that found a copy.                                          *)
LEMMA FindsFades ==
  ASSUME NEW m \in Msgs, NEW h \in Hosts, TypeOK, Traced(m), Routed(m), NEW pid \in Nat,
         NEW s \in {"accepted", "delivered", "read"}, Finds(h, m, pid, s)
  PROVE  Fades(m)
<1> DEFINE r == box[m]
           c == Close(r, "accepted", pid)
           k == Raise(c, s)
<1>1. /\ r \in Row /\ WireKept(m) /\ pid \in landed[m] /\ 0 < pid
      /\ \A g \in Hosts : JobFades(g, m)
  BY IdleFades DEF Finds, TypeOK, Traced, Wired
<1>2. CASE ~Current(h, m)
  BY <1>1, <1>2, SameRowFades DEF Finds
<1>3. CASE Current(h, m)
  <2>0. c = Close(r, "accepted", pid) /\ k = Raise(c, s)
    OBVIOUS
  <2> HIDE DEF c, k
  <2>1. /\ c \in Row /\ c.status = "accepted" /\ c.pid = pid /\ c.doubt
        /\ c.sends = r.sends /\ c.recons = r.recons
    <3>1. Closed(r, "accepted", pid, c)
      BY <1>1, <2>0, CloseFields
    <3> QED BY <1>1, <3>1 DEF Closed
  <2>2. /\ k.status \in {s, c.status} /\ k.doubt = c.doubt /\ k.pid = c.pid
        /\ k.sends = c.sends /\ k.recons = c.recons
    BY <2>0, <2>1, RaiseFields
  <2>3. box'[m] = k
    BY <1>3, <2>0 DEF Finds
  <2>4. AttemptCount(k) >= AttemptCount(r)
    <3>1. AttemptCount(k) = AttemptCount(r) /\ AttemptCount(r) \in Nat
      BY <1>1, <2>1, <2>2 DEF AttemptCount, Row
    <3> QED BY <3>1
  <2>5. RowFades(r, k)
    BY <1>1, <2>1, <2>2, <2>4 DEF RowFades
  <2> QED BY <1>1, <2>1, <2>2, <2>3, <2>5, FadeParts
<1> QED BY <1>2, <1>3

(* A tick that sweeps the row and claims nothing of it.                    *)
LEMMA TickFades ==
  ASSUME NEW m \in Msgs, NEW h \in Hosts, TypeOK, Traced(m), Routed(m), Ticks(h, m)
  PROVE  Fades(m) \/ TickClaims(h, m)
<1>1. PICK k \in Row :
       /\ Swept(box[m], k)
       /\ \/ box'[m] = k /\ JobsKept(m)
          \/ /\ job[h][m].phase = "idle" /\ Eligible(m, k)
             /\ box'[m] = Claim(k, h)
             /\ JobBecomes(h, m, [phase |-> "claimed", mode |-> Mode(k),
                                  token |-> AttemptCount(k) + 1])
  BY DEF Ticks
<1>2. CASE box'[m] = k /\ JobsKept(m)
  <2>1. /\ RowFades(box[m], k) /\ k.pid = box[m].pid
        /\ box[m].open \/ box[m].doubt => k.open \/ k.doubt
    BY <1>1, SweptFades
  <2>2. \A g \in Hosts : JobFades(g, m)
    BY <1>2, IdleFades
  <2>3. k.pid # 0 => k.pid \in landed[m]
    BY <2>1 DEF Traced
  <2>4. m \in Routes /\ Wired(m) # {} => k.open \/ k.doubt
    BY <2>1 DEF Routed
  <2> QED BY <1>2, <2>1, <2>2, <2>3, <2>4, FadeParts DEF Ticks
<1>3. CASE ~(box'[m] = k /\ JobsKept(m))
  BY <1>1, <1>3 DEF Ticks, TickClaims
<1> QED BY <1>2, <1>3

(* A step of time, a producer, the operator or a receipt.                  *)
LEMMA RowStepFades ==
  ASSUME NEW m \in Msgs, TypeOK, RowOK(box[m]), Traced(m), Routed(m), RowMove(m)
  PROVE  Fades(m)
<1> DEFINE r == box[m]
           k == box'[m]
<1>1. r \in Row /\ AttemptCount(r) \in Nat /\ AttemptCount(r) >= AttemptCount(r)
  <2>1. r \in Row /\ AttemptCount(r) \in Nat
    BY DEF TypeOK, Row, AttemptCount
  <2> QED BY <2>1
<1>2. /\ Known(r) => r.pid # 0
      /\ r.status = "absent" => AttemptCount(r) = 0
      /\ r.status = "unknown_after_send" => r.doubt
      /\ r.pid # 0 => r.pid \in landed[m]
      /\ m \in Routes /\ Wired(m) # {} => r.open \/ r.doubt
  BY DEF Traced, Routed
<1>3. ASSUME JobsKept(m), WireKept(m), k.sends = r.sends, k.recons = r.recons,
             k.open = r.open, k.doubt = r.doubt, k.pid = r.pid,
             \/ k.status = r.status /\ k.claimedBy = r.claimedBy /\ k.token = r.token
             \/ Known(k) /\ r.pid # 0
             \/ k.status = "pending"
      PROVE  Fades(m)
  <2>1. \A g \in Hosts : JobFades(g, m)
    BY <1>3 DEF JobsKept, JobFades
  <2> HIDE DEF r, k
  <2>2. AttemptCount(k) = AttemptCount(r)
    BY <1>3 DEF AttemptCount
  <2>3. RowFades(r, k)
    <3>1. CASE k.status = r.status /\ k.claimedBy = r.claimedBy /\ k.token = r.token
      BY <1>1, <1>2, <1>3, <2>2, <3>1 DEF RowFades, Known
    <3>2. CASE Known(k) /\ r.pid # 0
      BY <1>1, <1>3, <2>2, <3>2 DEF RowFades, Known
    <3>3. CASE k.status = "pending"
      BY <1>1, <1>3, <2>2, <3>3 DEF RowFades, Known
    <3> QED BY <1>3, <3>1, <3>2, <3>3
  <2> QED BY <1>2, <1>3, <2>1, <2>3, FadeParts DEF r, k
<1>4. CASE Relabels(m)
  BY <1>3, <1>4 DEF Relabels, Alike
<1>5. CASE Lapses(m)
  <2>1. /\ k.status = r.status /\ k.claimedBy = r.claimedBy /\ k.token = r.token
        /\ k.sends = r.sends /\ k.recons = r.recons
        /\ k.open = r.open /\ k.doubt = r.doubt /\ k.pid = r.pid
    BY <1>1, <1>5 DEF Lapses, Row
  <2> QED BY <1>3, <1>5, <2>1 DEF Lapses
<1>6. CASE \E s \in {"accepted", "delivered", "read"} : Receives(m, s)
  <2>1. PICK s \in {"accepted", "delivered", "read"} : Receives(m, s)
    BY <1>6
  <2>2. k = Raise(r, s) /\ r.pid # 0 /\ JobsKept(m) /\ WireKept(m)
    BY <2>1 DEF Receives
  <2>3. /\ k.open = r.open /\ k.doubt = r.doubt /\ k.pid = r.pid
        /\ k.sends = r.sends /\ k.recons = r.recons
        /\ Known(k) \/ k = r
    BY <1>1, <2>2, RaiseFields DEF Known
  <2> HIDE DEF r, k
  <2> QED BY <1>3, <2>2, <2>3
<1>7. CASE Revives(m)
  <2>1. /\ k.status = "pending" /\ k.sends = r.sends /\ k.recons = r.recons
        /\ k.open = r.open /\ k.doubt = r.doubt /\ k.pid = r.pid
    BY <1>1, <1>7 DEF Revives, Row
  <2> QED BY <1>3, <1>7, <2>1 DEF Revives
<1>8. CASE Enqueues(m)
  <2> DEFINE a == [Absent EXCEPT !.status = "pending"]
  <2>1. /\ a.status = "pending" /\ a.sends = 0 /\ a.recons = 0 /\ a.pid = 0
    BY DEF Absent
  <2>2. Alike(a, k) /\ r.status = "absent" /\ JobsKept(m) /\ WireKept(m)
    BY <1>8 DEF Enqueues
  <2> HIDE DEF a, k
  <2>3. k.status = "pending" /\ AttemptCount(k) = 0 /\ k.pid = 0
    BY <2>1, <2>2 DEF Alike, AttemptCount
  <2>4. AttemptCount(r) = 0
    BY <1>2, <2>2
  <2>5. Wired(m) = {}
    <3>1. \A c \in Wired(m) : c \in Nat /\ 0 < c /\ c <= 0
      BY <2>4 DEF Traced, TypeOK, Wired
    <3> QED BY <3>1
  <2>6. RowFades(r, k)
    BY <2>3, <2>4 DEF RowFades, Known
  <2>7. \A g \in Hosts : JobFades(g, m)
    BY <2>2 DEF JobsKept, JobFades
  <2> QED BY <2>2, <2>3, <2>5, <2>6, <2>7, FadeParts DEF k
<1>9. CASE Travels(m)
  <2>1. PICK a \in wire[m] :
          /\ wire'[m] = wire[m] \ {a}
          /\ landed'[m] = landed[m] \/ landed'[m] = landed[m] \cup {a}
    BY <1>9 DEF Travels
  <2>2. Wired(m)' \subseteq Wired(m) /\ landed[m] \subseteq landed'[m]
    BY <2>1 DEF Wired
  <2>3. wire'[m] \cap landed'[m] = {}
    BY <2>1 DEF Traced
  <2>4. k = r /\ \A g \in Hosts : JobFades(g, m)
    BY <1>9 DEF Travels, JobsKept, JobFades
  <2>5. RowFades(r, k)
    BY <1>1, <1>2, <2>4 DEF RowFades
  <2>6. k.pid # 0 => k.pid \in landed'[m]
    BY <1>2, <2>2, <2>4
  <2>7. m \in Routes /\ Wired(m)' # {} => k.open \/ k.doubt
    BY <1>2, <2>2, <2>4
  <2> QED BY <2>2, <2>3, <2>4, <2>5, <2>6, <2>7 DEF Fades
<1> QED BY <1>4, <1>5, <1>6, <1>7, <1>8, <1>9 DEF RowMove

(* So every step keeps the invariants of every message.                    *)
LEMMA MoveKeeps ==
  ASSUME IInv, IInv', NEW m \in Msgs, Traced(m), Routed(m), Move(m)
  PROVE  Traced(m)' /\ Routed(m)'
<1>1. TypeOK /\ TypeOK' /\ RowOK(box[m])
  BY DEF IInv
<1>2. ASSUME NEW h \in Hosts, HostMove(h, m)
      PROVE  Fades(m) \/ Calls(h, m) \/ TickClaims(h, m)
  <2>1. CASE Forgets(h, m)
    BY <1>1, <2>1, ForgetFades
  <2>2. CASE Ticks(h, m)
    BY <1>1, <2>2, TickFades
  <2>3. CASE \E o \in {"accepted", "retry_wait", "unknown_after_send", "dead"},
                pid \in Nat : Finishes(h, m, o, pid)
    BY <1>1, <2>3, FinishFades
  <2>4. CASE \E s \in {"accepted", "delivered", "read"}, pid \in Nat : Finds(h, m, pid, s)
    BY <1>1, <2>4, FindsFades
  <2> QED BY <1>2, <2>1, <2>2, <2>3, <2>4 DEF HostMove
<1>3. Fades(m) \/ \E h \in Hosts : Calls(h, m) \/ TickClaims(h, m)
  BY <1>1, <1>2, ForgetFades, RowStepFades DEF Move
<1> QED BY <1>1, <1>3, FadesKeeps, CallsKeeps, ClaimsKeeps

(* Nothing is on the wire at first.                                        *)
LEMMA InitWire == Init => WireInv
<1> SUFFICES ASSUME Init, NEW m \in Msgs PROVE Traced(m) /\ Routed(m)
  BY DEF WireInv
<1>1. /\ box[m] = Absent /\ wire[m] = {} /\ landed[m] = {}
      /\ \A h \in Hosts : job[h][m].phase = "idle"
  BY DEF Init, Idle
<1>2. /\ Absent.pid = 0 /\ Absent.status = "absent" /\ AttemptCount(Absent) = 0
  BY DEF Absent, AttemptCount
<1> QED BY <1>1, <1>2 DEF Traced, Routed, Known, Wired

(* The invariants of the messages are inductive.                           *)
LEMMA NextWire == IInv /\ IInv' /\ WireInv /\ [Next]_vars => WireInv'
<1> SUFFICES ASSUME IInv, IInv', WireInv, [Next]_vars, NEW m \in Msgs
             PROVE  Traced(m)' /\ Routed(m)'
  BY DEF WireInv
<1> QED BY EveryMove, MoveKeeps DEF WireInv

(* Rows, operations and copies are related as Traced and Routed say.       *)
THEOREM WiresTraced == Spec => []WireInv
BY InitWire, NextWire, InitIInv, NextIInv, PTL DEF Spec

(* A row that claims acceptance names a copy the provider really accepted, *)
(* whatever receipts, reconciles, stale answers and crashes did.           *)
THEOREM AcceptedAreReal == Spec => []AcceptedIsReal
<1>1. WireInv => AcceptedIsReal
  BY DEF WireInv, Traced, Known, AcceptedIsReal
<1> QED BY <1>1, WiresTraced, PTL

(* A set whose elements are all equal has at most one.                     *)
LEMMA AtMostOne ==
  ASSUME NEW S, \A a, b \in S : a = b
  PROVE  Cardinality(S) <= 1
<1>1. CASE S = {}
  BY <1>1, FS_EmptySet
<1>2. CASE S # {}
  <2>1. PICK a \in S : TRUE
    BY <1>2
  <2>2. S = {a}
    BY <2>1
  <2> QED BY <2>2, FS_Singleton
<1> QED BY <1>1, <1>2

(* An owner route is put on the wire once, for any number of Hosts, even   *)
(* when they stall, when the provider reconciles too early and when an     *)
(* operator retries the dead row.                                          *)
THEOREM RoutesSentOnce == Spec => []RouteAtMostOnce
<1>1. WireInv => RouteAtMostOnce
  <2> SUFFICES ASSUME WireInv, NEW m \in Routes
               PROVE  Cardinality(wire[m] \cup landed[m]) <= 1
    BY DEF RouteAtMostOnce
  <2>1. Routed(m)
    BY OutboxAssumption DEF WireInv
  <2>2. \A a, b \in wire[m] \cup landed[m] : a = b
    BY <2>1 DEF Routed, Wired
  <2> QED BY <2>2, AtMostOne
<1> QED BY <1>1, WiresTraced, PTL

-----------------------------------------------------------------------------
(* No more copies than sends were claimed.                                 *)

\* The Hosts about to call the adapter for m, and every copy of m that is on
\* its way, has landed, or is still to be handed over by one of them.
Senders(m) == {h \in Hosts : job[h][m].phase = "claimed" /\ job[h][m].mode = "send"}
Copies(m) == Wired(m) \cup {job[h][m].token : h \in Senders(m)}
Counted(m) == IsFiniteSet(Copies(m)) /\ Cardinality(Copies(m)) <= box[m].sends

\* A step adds no copy, or one, for which it counts a send.
Counts(m) ==
  \/ Copies(m)' \subseteq Copies(m) /\ box'[m].sends >= box[m].sends
  \/ \E t \in Nat : /\ Copies(m)' \subseteq Copies(m) \cup {t}
                    /\ box'[m].sends >= box[m].sends + 1

(* A step that starts no operation and puts nothing new on the wire adds   *)
(* no copy.                                                                *)
LEMMA CopiesStay ==
  ASSUME NEW m \in Msgs, Wired(m)' \subseteq Copies(m),
         \A h \in Senders(m)' : h \in Senders(m) /\ job'[h][m] = job[h][m]
  PROVE  Copies(m)' \subseteq Copies(m)
BY DEF Copies, Senders

(* A claim to send counts one, and no other step adds a copy: not a stall, *)
(* a crash, a reconcile that answers too early, or an operator retry.      *)
LEMMA MoveCounts ==
  ASSUME IInv, NEW m \in Msgs, Traced(m), Move(m)
  PROVE  Counts(m)
<1> DEFINE r == box[m]
           n == box'[m]
<1>1. r \in Row /\ RowOK(r) /\ r.sends \in Nat
  BY DEF IInv, RowOK, Row
<1>2. \A h \in Hosts : job[h][m] \in Job
  BY DEF IInv, TypeOK
<1>3. Wired(m) \subseteq Copies(m)
  BY DEF Copies
<1>4. WireKept(m) => Wired(m)' = Wired(m)
  BY DEF WireKept, Wired
<1>5. ASSUME JobsKept(m), Wired(m)' \subseteq Copies(m) PROVE Copies(m)' \subseteq Copies(m)
  <2>1. \A h \in Senders(m)' : h \in Senders(m) /\ job'[h][m] = job[h][m]
    BY <1>5 DEF JobsKept, Senders
  <2> QED BY <1>5, <2>1, CopiesStay
<1>6. ASSUME NEW h \in Hosts, NEW j, JobBecomes(h, m, j), j.phase # "claimed",
             Wired(m)' \subseteq Copies(m)
      PROVE  Copies(m)' \subseteq Copies(m)
  <2>1. \A g \in Senders(m)' : g \in Senders(m) /\ job'[g][m] = job[g][m]
    BY <1>6 DEF JobBecomes, Senders
  <2> QED BY <1>6, <2>1, CopiesStay
<1>7. Idle.phase # "claimed"
  BY DEF Idle
<1>8. ASSUME NEW h \in Hosts, Forgets(h, m) PROVE Counts(m)
  <2>1. [job[h][m] EXCEPT !.phase = "dropped"].phase # "claimed"
    BY <1>2 DEF Job
  <2>2. Copies(m)' \subseteq Copies(m)
    BY <1>3, <1>4, <1>6, <1>7, <1>8, <2>1 DEF Forgets
  <2> QED BY <1>1, <1>8, <2>2 DEF Forgets, Counts
<1>9. ASSUME NEW h \in Hosts, Calls(h, m) PROVE Counts(m)
  <2>1. [job[h][m] EXCEPT !.phase = "calling"].phase # "claimed"
    BY <1>2 DEF Job
  <2>2. Wired(m)' \subseteq Copies(m)
    BY <1>9 DEF Calls, Wired, Copies, Senders
  <2>3. Copies(m)' \subseteq Copies(m)
    BY <1>6, <1>9, <2>1, <2>2 DEF Calls
  <2> QED BY <1>1, <1>9, <2>3 DEF Calls, Counts
<1>10. ASSUME NEW h \in Hosts, Ticks(h, m) PROVE Counts(m)
  <2>1. PICK k \in Row :
          /\ Swept(r, k)
          /\ \/ n = k /\ JobsKept(m)
             \/ /\ n = Claim(k, h)
                /\ JobBecomes(h, m, [phase |-> "claimed", mode |-> Mode(k),
                                     token |-> AttemptCount(k) + 1])
    BY <1>10 DEF Ticks
  <2>2. k.sends >= r.sends /\ k.sends \in Nat /\ k.recons \in Nat /\ WireKept(m)
    BY <1>10, <2>1 DEF Swept, Row, Ticks
  <2>3. CASE n = k /\ JobsKept(m)
    BY <1>3, <1>4, <1>5, <2>2, <2>3 DEF Counts
  <2>4. CASE /\ n = Claim(k, h)
             /\ JobBecomes(h, m, [phase |-> "claimed", mode |-> Mode(k),
                                  token |-> AttemptCount(k) + 1])
    <3> DEFINE t == AttemptCount(k) + 1
               j == [phase |-> "claimed", mode |-> Mode(k), token |-> t]
    <3>1. t \in Nat
      BY <2>2 DEF AttemptCount
    <3>2. n.sends = k.sends + (IF Mode(k) = "send" THEN 1 ELSE 0)
      BY <2>4 DEF Claim, Row
    <3>3. j.phase = "claimed" /\ j.mode = Mode(k) /\ j.token = t
      OBVIOUS
    <3> HIDE DEF t, j, n
    <3>4. CASE Mode(k) = "send"
      <4>1. \A g \in Senders(m)' :
              job'[g][m].token = t \/ (g \in Senders(m) /\ job'[g][m] = job[g][m])
        BY <2>4, <3>3 DEF JobBecomes, Senders, j, t
      <4>2. Copies(m)' \subseteq Copies(m) \cup {t}
        BY <1>3, <1>4, <2>2, <4>1 DEF Copies, Senders
      <4>3. n.sends >= r.sends + 1
        BY <1>1, <2>2, <3>2, <3>4
      <4> QED BY <3>1, <4>2, <4>3 DEF Counts, n
    <3>5. CASE Mode(k) # "send"
      <4>1. \A g \in Senders(m)' : g \in Senders(m) /\ job'[g][m] = job[g][m]
        BY <2>4, <3>3, <3>5 DEF JobBecomes, Senders, j, t
      <4>2. Copies(m)' \subseteq Copies(m)
        BY <1>3, <1>4, <2>2, <4>1, CopiesStay
      <4>3. n.sends >= r.sends
        BY <1>1, <2>2, <3>2, <3>5
      <4> QED BY <4>2, <4>3 DEF Counts, n
    <3> QED BY <3>4, <3>5
  <2> QED BY <2>1, <2>3, <2>4
<1>11. ASSUME NEW h \in Hosts, JobBecomes(h, m, Idle), WireKept(m), n.sends = r.sends
       PROVE  Counts(m)
  BY <1>1, <1>3, <1>4, <1>6, <1>7, <1>11 DEF Counts
<1>12. ASSUME NEW h \in Hosts, NEW o \in {"accepted", "retry_wait", "unknown_after_send", "dead"},
              NEW pid \in Nat, Finishes(h, m, o, pid)
       PROVE  Counts(m)
  <2>1. Closed(r, o, pid, Close(r, o, pid))
    BY <1>1, CloseFields
  <2>2. n.sends = r.sends
    BY <1>12, <2>1 DEF Finishes, Closed
  <2> QED BY <1>11, <1>12, <2>2 DEF Finishes
<1>13. ASSUME NEW h \in Hosts, NEW s \in {"accepted", "delivered", "read"}, NEW pid \in Nat,
              Finds(h, m, pid, s)
       PROVE  Counts(m)
  <2> DEFINE b == Close(r, "accepted", pid)
  <2>1. b \in Row /\ b.sends = r.sends
    <3>1. Closed(r, "accepted", pid, b)
      BY <1>1, CloseFields
    <3> HIDE DEF b
    <3> QED BY <3>1 DEF Closed
  <2> HIDE DEF b
  <2>2. Raise(b, s).sends = b.sends
    BY <2>1, RaiseFields
  <2>3. n.sends = r.sends
    BY <1>13, <2>1, <2>2 DEF Finds, b
  <2> QED BY <1>11, <1>13, <2>3 DEF Finds
<1>14. ASSUME JobsKept(m), WireKept(m), n.sends >= r.sends PROVE Counts(m)
  BY <1>3, <1>4, <1>5, <1>14 DEF Counts
<1>15. CASE Rests(m) \/ Relabels(m) \/ Lapses(m) \/ Enqueues(m) \/ Revives(m)
  <2>1. n.sends >= r.sends
    <3>1. CASE Rests(m) \/ Relabels(m)
      BY <1>1, <3>1 DEF Rests, Relabels, Alike
    <3>2. CASE Lapses(m) \/ Revives(m)
      <4>1. n.sends = r.sends
        BY <1>1, <3>2 DEF Lapses, Revives, Row
      <4> QED BY <1>1, <4>1
    <3>3. CASE Enqueues(m)
      <4>1. n.sends = 0
        BY <3>3 DEF Enqueues, Alike, Absent
      <4>2. r.sends = 0
        BY <1>1, <3>3 DEF Enqueues, Traced, AttemptCount, Row
      <4> QED BY <4>1, <4>2
    <3> QED BY <1>15, <3>1, <3>2, <3>3
  <2> QED BY <1>14, <1>15, <2>1 DEF Rests, Relabels, Lapses, Enqueues, Revives
<1>16. CASE Travels(m)
  <2>1. Wired(m)' \subseteq Wired(m)
    BY <1>16 DEF Travels, Wired
  <2> QED BY <1>1, <1>3, <1>5, <1>16, <2>1 DEF Travels, Counts
<1>17. ASSUME NEW s \in {"accepted", "delivered", "read"}, Receives(m, s) PROVE Counts(m)
  <2>1. n.sends = r.sends
    BY <1>1, <1>17, RaiseFields DEF Receives
  <2> QED BY <1>1, <1>14, <1>17, <2>1 DEF Receives
<1> QED BY <1>8, <1>9, <1>10, <1>12, <1>13, <1>15, <1>16, <1>17 DEF Move, HostMove, RowMove

(* So the copies never outnumber the sends.                                *)
LEMMA KeepsCounted ==
  ASSUME IInv, IInv', NEW m \in Msgs, Counts(m), Counted(m)
  PROVE  Counted(m)'
<1> DEFINE C == Copies(m)
           D == Copies(m)'
           a == box[m].sends
           b == box'[m].sends
<1>1. a \in Nat /\ b \in Nat /\ IsFiniteSet(C) /\ Cardinality(C) <= a
  BY DEF IInv, RowOK, Row, Counted
<1>2. Cardinality(C) \in Nat
  BY <1>1, FS_CardinalityType
<1>3. (D \subseteq C /\ b >= a) \/ \E t \in Nat : D \subseteq C \cup {t} /\ b >= a + 1
  BY DEF Counts
<1> SUFFICES IsFiniteSet(D) /\ Cardinality(D) <= b
  BY DEF Counted
<1> HIDE DEF C, D, a, b
<1>4. CASE D \subseteq C /\ b >= a
  <2>1. IsFiniteSet(D) /\ Cardinality(D) <= Cardinality(C) /\ Cardinality(D) \in Nat
    BY <1>1, <1>4, FS_Subset, FS_CardinalityType
  <2> QED BY <1>1, <1>2, <1>4, <2>1
<1>5. ASSUME NEW t \in Nat, D \subseteq C \cup {t}, b >= a + 1
      PROVE  IsFiniteSet(D) /\ Cardinality(D) <= b
  <2>1. IsFiniteSet(C \cup {t}) /\ Cardinality(C \cup {t}) <= Cardinality(C) + 1
    BY <1>1, <1>2, FS_AddElement
  <2>2. IsFiniteSet(D) /\ Cardinality(D) <= Cardinality(C \cup {t})
        /\ Cardinality(D) \in Nat /\ Cardinality(C \cup {t}) \in Nat
    BY <1>5, <2>1, FS_Subset, FS_CardinalityType
  <2> QED BY <1>1, <1>2, <1>5, <2>1, <2>2
<1> QED BY <1>3, <1>4, <1>5

(* Whatever Hosts stall and reconciles race, no more copies get on their   *)
(* way than sends were claimed, and those stay within MaxAttempts and one  *)
(* per operator retry; reconciles stay within MaxAttempts.                 *)
THEOREM AttemptsAreBounded == Spec => []AttemptsBounded
<1> DEFINE J == \A m \in Msgs : Counted(m)
<1>1. Init => J
  <2> SUFFICES ASSUME Init, NEW m \in Msgs PROVE Counted(m)
    OBVIOUS
  <2>1. Copies(m) = {}
    BY DEF Init, Idle, Copies, Senders, Wired
  <2>2. box[m].sends = 0
    BY DEF Init, Absent
  <2> QED BY <2>1, <2>2, FS_EmptySet DEF Counted
<1>2. IInv /\ IInv' /\ WireInv /\ J /\ [Next]_vars => J'
  <2> SUFFICES ASSUME IInv, IInv', WireInv, J, [Next]_vars, NEW m \in Msgs PROVE Counted(m)'
    OBVIOUS
  <2>1. Counts(m)
    BY EveryMove, MoveCounts DEF WireInv
  <2> QED BY <2>1, KeepsCounted
<1>3. IInv /\ J => AttemptsBounded
  <2> SUFFICES ASSUME IInv, J, NEW m \in Msgs
               PROVE  Cardinality(wire[m] \cup landed[m]) <= box[m].sends
    BY DEF IInv, RowOK, Bounded, AttemptsBounded
  <2>1. Wired(m) \subseteq Copies(m) /\ Counted(m) /\ box[m].sends \in Nat
    BY DEF Copies, IInv, RowOK, Row
  <2>2. Cardinality(Wired(m)) <= Cardinality(Copies(m))
        /\ IsFiniteSet(Wired(m)) /\ IsFiniteSet(Copies(m))
    BY <2>1, FS_Subset DEF Counted
  <2>3. Cardinality(Wired(m)) \in Nat /\ Cardinality(Copies(m)) \in Nat
    BY <2>2, FS_CardinalityType
  <2> QED BY <2>1, <2>2, <2>3 DEF Counted, Wired
<1> HIDE DEF J
<1> QED BY <1>1, <1>2, <1>3, Inductive, WiresTraced, PTL DEF Spec

-----------------------------------------------------------------------------
(* What a step may never do.                                               *)

Improves(r, k) ==
  /\ Rank(r.status) <= Rank(k.status)
  /\ Rank(r.status) > 0 => k.pid = r.pid
  /\ r.status = "dead" /\ k.status # "dead" =>
       \/ Rank(k.status) > 0
       \/ k.status = "pending" /\ k.retries = r.retries + 1
Settled(m) ==
  LET r == box[m] IN
  \/ /\ r.live
     /\ \E h \in Hosts : /\ r.claimedBy = h /\ job[h][m].token = r.token
                         /\ job'[h][m] = Idle
  \/ ~r.live /\ box'[m].doubt
  \/ r.pid # 0 /\ box'[m].status \in {"accepted", "delivered", "read"}
Unsettled(m) == box'[m].status = "attempting" /\ box'[m].token = box[m].token
Starts(m) == box'[m].status = "attempting" /\ box[m].status # "attempting"
Fenced(m) ==
  draining /\ m \notin Maintenance =>
    /\ ~Starts(m)
    /\ box[m].status = "pending" =>
         box'[m].status \in {"pending", "accepted", "delivered", "read"}
Lawful(m) ==
  /\ Improves(box[m], box'[m])
  /\ box[m].status = "attempting" => Unsettled(m) \/ Settled(m)
  /\ Fenced(m)

(* Ranks tell the outcomes from the rest.                                  *)
LEMMA Ranks ==
  ASSUME NEW s \in Statuses
  PROVE  /\ Rank(s) \in Nat
         /\ Rank(s) > 0 <=> s \in {"accepted", "delivered", "read"}
         /\ s \notin {"accepted", "delivered", "read"} => Rank(s) = 0
BY DEF Rank, Statuses

(* A row that keeps its status, token and provider id is treated lawfully. *)
LEMMA SameLawful ==
  ASSUME NEW m \in Msgs, TypeOK, box'[m].status = box[m].status,
         box'[m].token = box[m].token, box'[m].pid = box[m].pid
  PROVE  Lawful(m)
<1>1. Rank(box[m].status) \in Nat
  BY Ranks DEF TypeOK, Row
<1>2. Rank(box[m].status) <= Rank(box'[m].status)
  BY <1>1
<1> QED BY <1>2 DEF Lawful, Improves, Unsettled, Fenced, Starts

(* Lawful are the answers of the Host that holds the claim, ...            *)
LEMMA AnswerLawful ==
  ASSUME NEW m \in Msgs, NEW h \in Hosts, TypeOK, Current(h, m), job'[h][m] = Idle,
         box'[m].status \in Statuses \ {"attempting"}
  PROVE  Lawful(m)
<1>1. /\ box[m].status = "attempting" /\ box[m].claimedBy = h
      /\ box[m].token = job[h][m].token /\ box[m].live
  BY DEF Current
<1>2. Rank(box[m].status) = 0 /\ Rank(box'[m].status) \in Nat
  BY <1>1, Ranks DEF Rank
<1>3. Improves(box[m], box'[m])
  BY <1>1, <1>2 DEF Improves
<1>4. Settled(m) /\ ~Starts(m)
  BY <1>1 DEF Settled, Starts
<1> QED BY <1>1, <1>3, <1>4 DEF Lawful, Fenced

(* ... and what a tick does.                                               *)
LEMMA TickLawful ==
  ASSUME NEW m \in Msgs, NEW h \in Hosts, TypeOK, Ticks(h, m)
  PROVE  Lawful(m)
<1> DEFINE r == box[m]
           n == box'[m]
<1>1. PICK k \in Row :
       /\ Swept(r, k)
       /\ draining /\ r.status = "pending" => k = r
       /\ \/ n = k /\ JobsKept(m)
          \/ Eligible(m, k) /\ n = Claim(k, h)
  BY DEF Ticks
<1>2. r \in Row /\ r.status \in Statuses /\ k.status \in Statuses
  BY <1>1 DEF TypeOK, Row
<1>3. \/ n = k
      \/ /\ n.status = "attempting" /\ n.doubt = k.doubt
         /\ k.status \in {"pending", "retry_wait", "unknown_after_send"}
         /\ draining => m \in Maintenance
  BY <1>1 DEF Claim, Eligible, Row
<1>4. CASE r.status \in Terminal \cup {"absent"}
  <2>1. n = r
    BY <1>1, <1>3, <1>4 DEF Swept, Terminal
  <2> QED BY <2>1, SameLawful
<1>5. CASE r.status = "attempting" /\ r.live
  <2>1. n = r
    BY <1>1, <1>3, <1>5 DEF Swept
  <2> QED BY <2>1, SameLawful
<1>6. CASE r.status = "attempting" /\ ~r.live
  <2>1. k.doubt /\ k.status \in {"unknown_after_send", "dead"}
    BY <1>1, <1>6 DEF Swept
  <2>2. n.doubt /\ n.status \in {"unknown_after_send", "dead", "attempting"}
    BY <1>3, <2>1
  <2>3. Rank(r.status) = 0 /\ Rank(n.status) = 0
    BY <1>6, <2>2 DEF Rank
  <2>4. Improves(r, n)
    BY <1>6, <2>3 DEF Improves
  <2>5. Settled(m) /\ Fenced(m)
    BY <1>6, <2>2 DEF Settled, Fenced, Starts
  <2> QED BY <2>4, <2>5 DEF Lawful
<1>7. CASE r.status \in {"pending", "retry_wait", "unknown_after_send"}
  <2>1. k.status \in {"pending", "retry_wait", "unknown_after_send", "dead"}
    BY <1>1, <1>7 DEF Swept
  <2>2. n.status \in {"pending", "retry_wait", "unknown_after_send", "dead", "attempting"}
    BY <1>3, <2>1
  <2>3. Rank(r.status) = 0 /\ Rank(n.status) = 0
    BY <1>7, <2>2 DEF Rank
  <2>4. Improves(r, n)
    BY <1>7, <2>3 DEF Improves
  <2>5. Fenced(m)
    BY <1>1, <1>3, <1>7, <2>1 DEF Fenced, Starts
  <2> QED BY <1>7, <2>4, <2>5 DEF Lawful
<1> QED BY <1>2, <1>4, <1>5, <1>6, <1>7 DEF Statuses, Terminal

(* Every step treats every message lawfully.                               *)
LEMMA MoveLawful ==
  ASSUME IInv, NEW m \in Msgs, Move(m)
  PROVE  Lawful(m)
<1> DEFINE r == box[m]
           n == box'[m]
<1>1. TypeOK /\ r \in Row /\ r.status \in Statuses
  BY DEF IInv, TypeOK, Row
<1>2. CASE \/ Rests(m) \/ Relabels(m) \/ Travels(m)
           \/ \E h \in Hosts : Forgets(h, m) \/ Calls(h, m)
  <2>1. n.status = r.status /\ n.token = r.token /\ n.pid = r.pid
    BY <1>2 DEF Rests, Relabels, Alike, Travels, Forgets, Calls
  <2> QED BY <1>1, <2>1, SameLawful
<1>3. ASSUME NEW h \in Hosts, Ticks(h, m) PROVE Lawful(m)
  BY <1>1, <1>3, TickLawful
<1>4. ASSUME NEW h \in Hosts, NEW pid \in Nat,
             NEW o \in {"accepted", "retry_wait", "unknown_after_send", "dead"},
             Finishes(h, m, o, pid)
      PROVE  Lawful(m)
  <2>1. CASE Current(h, m)
    <3>1. Closed(r, o, pid, n) /\ job'[h][m] = Idle
      BY <1>1, <1>4, <2>1, CloseFields DEF Finishes, JobBecomes
    <3>2. n.status \in Statuses \ {"attempting"}
      BY <3>1 DEF Closed, Statuses
    <3> QED BY <1>1, <2>1, <3>1, <3>2, AnswerLawful
  <2>2. CASE ~Current(h, m)
    BY <1>1, <1>4, <2>2, SameLawful DEF Finishes
  <2> QED BY <2>1, <2>2
<1>5. ASSUME NEW h \in Hosts, NEW pid \in Nat,
             NEW s \in {"accepted", "delivered", "read"}, Finds(h, m, pid, s)
      PROVE  Lawful(m)
  <2>1. CASE Current(h, m)
    <3> DEFINE c == Close(r, "accepted", pid)
    <3>1. Closed(r, "accepted", pid, c)
      BY <1>1, CloseFields
    <3>2. n = Raise(c, s) /\ job'[h][m] = Idle
      BY <1>5, <2>1 DEF Finds, JobBecomes
    <3> HIDE DEF c
    <3>3. c \in Row /\ c.status = "accepted"
      BY <3>1 DEF Closed
    <3>4. n.status \in {s, c.status}
      BY <3>2, <3>3, RaiseFields
    <3>5. n.status \in Statuses \ {"attempting"}
      BY <3>3, <3>4 DEF Statuses
    <3> QED BY <1>1, <2>1, <3>2, <3>5, AnswerLawful
  <2>2. CASE ~Current(h, m)
    BY <1>1, <1>5, <2>2, SameLawful DEF Finds
  <2> QED BY <2>1, <2>2
<1>6. CASE Lapses(m)
  <2>1. n.status = r.status /\ n.token = r.token /\ n.pid = r.pid
    BY <1>1, <1>6 DEF Lapses, Row
  <2> QED BY <1>1, <2>1, SameLawful
<1>7. ASSUME NEW s \in {"accepted", "delivered", "read"}, Receives(m, s) PROVE Lawful(m)
  <2>1. n = Raise(r, s) /\ r.pid # 0
    BY <1>7 DEF Receives
  <2>2. /\ n.status \in {s, r.status} /\ n.pid = r.pid
        /\ n.status \notin {"accepted", "delivered", "read"} => n = r
        /\ Rank(r.status) <= Rank(n.status) /\ 0 < Rank(n.status)
    BY <1>1, <2>1, RaiseFields
  <2>3. n.status \in {"accepted", "delivered", "read"}
    BY <1>1, <2>2, Ranks
  <2>4. Rank(n.status) \in Nat
    BY <2>3, Ranks DEF Statuses
  <2>5. Improves(r, n)
    BY <2>2, <2>4 DEF Improves
  <2>6. Settled(m) /\ Fenced(m)
    BY <2>1, <2>3 DEF Settled, Fenced, Starts
  <2> QED BY <2>5, <2>6 DEF Lawful
<1>8. CASE Revives(m)
  <2>1. /\ n.status = "pending" /\ n.retries = r.retries + 1
        /\ r.status \in {"dead", "unknown_after_send"}
    BY <1>1, <1>8 DEF Revives, Row
  <2>2. Rank(r.status) = 0 /\ Rank(n.status) = 0
    BY <2>1 DEF Rank
  <2> QED BY <2>1, <2>2 DEF Lawful, Improves, Fenced, Starts
<1>9. CASE Enqueues(m)
  <2>1. n.status = "pending" /\ r.status = "absent"
    BY <1>9 DEF Enqueues, Alike, Absent
  <2>2. Rank(r.status) = 0 /\ Rank(n.status) = 0
    BY <2>1 DEF Rank
  <2> QED BY <2>1, <2>2 DEF Lawful, Improves, Fenced, Starts
<1> QED BY <1>2, <1>3, <1>4, <1>5, <1>6, <1>7, <1>8, <1>9 DEF Move, HostMove, RowMove

(* Only the current holder of an unexpired claim settles it; otherwise it  *)
(* expired and is remembered as in doubt, or a receipt settled it.         *)
THEOREM HoldersSettle == Spec => OnlyHolderSettles
<1>1. ASSUME IInv, [Next]_vars, NEW m \in Msgs PROVE Lawful(m)
  BY <1>1, EveryMove, MoveLawful
<1>2. IInv /\ [Next]_vars =>
        [\A m \in Msgs :
           /\ box[m].status = "attempting"
           /\ box'[m].status # "attempting" \/ box'[m].token # box[m].token
           => \/ /\ box[m].live
                 /\ \E h \in Hosts : /\ box[m].claimedBy = h
                                     /\ job[h][m].token = box[m].token
                                     /\ job'[h][m] = Idle
              \/ ~box[m].live /\ box'[m].doubt
              \/ box[m].pid # 0 /\ box'[m].status \in {"accepted", "delivered", "read"}
        ]_vars
  BY <1>1 DEF Lawful, Unsettled, Settled
<1> QED BY <1>2, Inductive, PTL DEF Spec, OnlyHolderSettles

(* Receipts only raise what is known of a message, and a dead letter comes *)
(* back only through an operator or the provider.                          *)
THEOREM OutcomesImprove == Spec => OutcomeMonotone
<1>1. ASSUME IInv, [Next]_vars, NEW m \in Msgs PROVE Lawful(m)
  BY <1>1, EveryMove, MoveLawful
<1>2. IInv /\ [Next]_vars =>
        [\A m \in Msgs :
           /\ Rank(box[m].status) <= Rank(box'[m].status)
           /\ Rank(box[m].status) > 0 => box'[m].pid = box[m].pid
           /\ box[m].status = "dead" /\ box'[m].status # "dead" =>
                \/ Rank(box'[m].status) > 0
                \/ box'[m].status = "pending" /\ box'[m].retries = box[m].retries + 1
        ]_vars
  BY <1>1 DEF Lawful, Improves
<1> QED BY <1>2, Inductive, PTL DEF Spec, OutcomeMonotone

(* While the restart fence is up no ordinary message starts an attempt and *)
(* none that waits is dead-lettered.                                       *)
THEOREM DrainHolds == Spec => DrainStartsNothing
<1>1. ASSUME IInv, [Next]_vars, NEW m \in Msgs PROVE Lawful(m)
  BY <1>1, EveryMove, MoveLawful
<1>2. IInv /\ [Next]_vars =>
        [draining => \A m \in Msgs \ Maintenance :
           /\ box'[m].status = "attempting" => box[m].status = "attempting"
           /\ box[m].status = "pending" =>
                box'[m].status \in {"pending", "accepted", "delivered", "read"}
        ]_vars
  BY <1>1 DEF Lawful, Fenced, Starts
<1> QED BY <1>2, Inductive, PTL DEF Spec, DrainStartsNothing

-----------------------------------------------------------------------------
(* Order in a lane.                                                        *)

Busy(m) ==
  \/ box[m].status = "attempting" \/ Wired(m) # {}
  \/ \E h \in Hosts : job[h][m].phase = "claimed"

\* Rows are filled in order, and what is busy has nothing unsettled before it.
Ordered(e, m) ==
  e < m =>
    /\ box[m].status # "absent" => box[e].status # "absent"
    /\ LaneOf[e] = LaneOf[m] /\ m \notin Maintenance /\ Busy(m) /\ box[e].retries = 0
       => Quiet(box[e])

OrderInv == \A e, m \in Msgs : Ordered(e, m)

(* What is busy is a row.                                                  *)
LEMMA BusyPresent ==
  ASSUME TypeOK, NEW m \in Msgs, Traced(m), Busy(m)
  PROVE  box[m].status # "absent"
<1>1. \A a \in Wired(m) : a \in Nat
  BY DEF TypeOK, Wired
<1>2. \A h \in Hosts : job[h][m].token \in Nat
  BY DEF TypeOK, Job
<1> QED BY <1>1, <1>2 DEF Traced, Busy

(* A row never vanishes, and stays quiet until an operator revives it.     *)
LEMMA MoveQuiet ==
  ASSUME IInv, NEW m \in Msgs, Move(m), box[m].status # "absent"
  PROVE  /\ box'[m].status # "absent"
         /\ box'[m].retries = 0 =>
              box[m].retries = 0 /\ (Quiet(box[m]) => Quiet(box'[m]))
<1> DEFINE r == box[m]
           n == box'[m]
           Goal == /\ n.status # "absent"
                   /\ n.retries = 0 => r.retries = 0 /\ (Quiet(r) => Quiet(n))
<1> SUFFICES Goal
  OBVIOUS
<1>1. TypeOK /\ r \in Row /\ r.status \in Statuses /\ r.retries \in Nat
  BY DEF IInv, TypeOK, Row
<1>2. CASE \/ Rests(m) \/ Relabels(m) \/ Travels(m)
           \/ \E h \in Hosts : Forgets(h, m) \/ Calls(h, m)
  BY <1>2 DEF Rests, Relabels, Alike, Travels, Forgets, Calls
<1>3. ASSUME NEW h \in Hosts, Ticks(h, m) PROVE Goal
  <2>1. PICK k \in Row :
         /\ Swept(r, k)
         /\ n = k \/ (Eligible(m, k) /\ n = Claim(k, h))
    BY <1>3 DEF Ticks
  <2>2. /\ k.retries = r.retries /\ (Quiet(r) => Quiet(k))
        /\ k.status = "absent" => k = r
    <3>1. r.status \in Terminal \cup {"absent"} => k = r
      BY <2>1 DEF Swept
    <3>2. r.status = "attempting" => k = r \/ k.status \in {"unknown_after_send", "dead"}
      BY <2>1 DEF Swept
    <3>3. r.status \in {"pending", "retry_wait", "unknown_after_send"} =>
            k.status \in {r.status, "dead", "retry_wait"}
      BY <2>1 DEF Swept
    <3> QED BY <1>1, <2>1, <3>1, <3>2, <3>3 DEF Swept, Statuses, Terminal
  <2>3. CASE n = k
    BY <2>2, <2>3
  <2>4. CASE Eligible(m, k) /\ n = Claim(k, h)
    <3>1. n.status = "attempting" /\ n.retries = k.retries
      BY <2>4 DEF Claim, Row
    <3>2. ~Quiet(k)
      BY <2>4 DEF Eligible, Quiet, Terminal
    <3> QED BY <2>2, <3>1, <3>2
  <2> QED BY <2>1, <2>3, <2>4
<1>4. ASSUME NEW pid \in Nat, NEW k, k = Close(r, "accepted", pid)
             \/ \E o \in {"retry_wait", "unknown_after_send", "dead"} : k = Close(r, o, pid)
      PROVE  /\ k \in Row /\ k.status \in {"accepted", "retry_wait", "unknown_after_send", "dead"}
             /\ k.retries = r.retries
             /\ r.status = "attempting" => (Quiet(r) => Quiet(k))
  <2>1. PICK o \in {"accepted", "retry_wait", "unknown_after_send", "dead"} :
          k = Close(r, o, pid)
    BY <1>4
  <2>2. Closed(r, o, pid, k)
    BY <1>1, <2>1, CloseFields
  <2>3. k.decision = r.decision
    <3> DEFINE b == ClearClaim(r)
    <3>1. b \in Row /\ b.decision = r.decision
      BY <1>1, OutboxAssumption DEF ClearClaim, Row
    <3> HIDE DEF b
    <3>2. k.decision = b.decision
      BY <2>1, <3>1 DEF Close, b, Row
    <3> QED BY <3>1, <3>2
  <2> QED BY <2>2, <2>3 DEF Closed, Quiet, Cancelled, Terminal
<1>5. ASSUME NEW h \in Hosts, NEW pid \in Nat,
             NEW o \in {"accepted", "retry_wait", "unknown_after_send", "dead"},
             Finishes(h, m, o, pid)
      PROVE  Goal
  <2>1. CASE Current(h, m)
    <3>1. n = Close(r, o, pid) /\ r.status = "attempting"
      BY <1>5, <2>1 DEF Finishes, Current
    <3> HIDE DEF r, n
    <3> QED BY <1>4, <3>1
  <2>2. CASE ~Current(h, m)
    BY <1>5, <2>2 DEF Finishes
  <2> QED BY <2>1, <2>2
<1>6. ASSUME NEW k \in Row, NEW s \in {"accepted", "delivered", "read"}, n = Raise(k, s),
             k.status # "absent"
      PROVE  n.status # "absent" /\ n.retries = k.retries /\ (Quiet(k) => Quiet(n))
  <2>1. /\ n.status \in {s, k.status} /\ n.retries = k.retries
        /\ n.status \notin {"accepted", "delivered", "read"} => n = k
    BY <1>6, RaiseFields
  <2> QED BY <1>6, <2>1 DEF Quiet, Terminal
<1>7. ASSUME NEW h \in Hosts, NEW pid \in Nat,
             NEW s \in {"accepted", "delivered", "read"}, Finds(h, m, pid, s)
      PROVE  Goal
  <2>1. CASE Current(h, m)
    <3> DEFINE c == Close(r, "accepted", pid)
    <3>1. n = Raise(c, s) /\ r.status = "attempting"
      BY <1>7, <2>1 DEF Finds, Current
    <3>2. /\ c \in Row /\ c.status # "absent" /\ c.retries = r.retries
          /\ Quiet(r) => Quiet(c)
      BY <1>4, <3>1
    <3> HIDE DEF r, n, c
    <3> QED BY <1>6, <3>1, <3>2
  <2>2. CASE ~Current(h, m)
    BY <1>7, <2>2 DEF Finds
  <2> QED BY <2>1, <2>2
<1>8. CASE Lapses(m)
  <2>1. n.status = r.status /\ n.retries = r.retries /\ n.decision = r.decision
    BY <1>1, <1>8 DEF Lapses, Row
  <2> QED BY <2>1 DEF Quiet, Cancelled
<1>9. ASSUME NEW s \in {"accepted", "delivered", "read"}, Receives(m, s) PROVE Goal
  <2>1. n = Raise(r, s)
    BY <1>9 DEF Receives
  <2> HIDE DEF r, n
  <2> QED BY <1>1, <1>6, <2>1 DEF r
<1>10. CASE Revives(m)
  <2>1. n.status = "pending" /\ n.retries = r.retries + 1
    BY <1>1, <1>10 DEF Revives, Row
  <2> QED BY <1>1, <2>1
<1>11. CASE Enqueues(m)
  BY <1>11 DEF Enqueues
<1> QED BY <1>2, <1>3, <1>5, <1>7, <1>8, <1>9, <1>10, <1>11 DEF Move, HostMove, RowMove

(* A row appears only after all before it.                                 *)
LEMMA MoveAppears ==
  ASSUME IInv, NEW m \in Msgs, Traced(m), Move(m), box[m].status = "absent"
  PROVE  \/ box'[m].status = "absent"
         \/ \A a \in 1..(m - 1) : box[a].status # "absent"
<1>1. TypeOK /\ box[m].pid = 0
  <2>1. TypeOK /\ \A a \in landed[m] : a \in Nat /\ 0 < a /\ a <= 0
    BY DEF IInv, TypeOK, Traced, Wired
  <2> QED BY <2>1 DEF Traced
<1>2. ASSUME NEW h \in Hosts, HostMove(h, m) PROVE box'[m].status = "absent"
  <2>1. ~Current(h, m)
    BY DEF Current
  <2>2. CASE Ticks(h, m)
    BY <2>2 DEF Ticks, Swept, Eligible
  <2> QED BY <1>2, <2>1, <2>2 DEF HostMove, Forgets, Calls, Finishes, Finds
<1>3. CASE RowMove(m)
  BY <1>1, <1>3 DEF RowMove, Relabels, Alike, Lapses, Enqueues, Revives, Travels, Receives
<1> QED BY <1>2, <1>3 DEF Move, Rests

(* A message becomes busy when it is claimed, as the foremost of its lane. *)
LEMMA MoveBusy ==
  ASSUME IInv, NEW m \in Msgs, Move(m), Busy(m)'
  PROVE  Busy(m) \/ Foremost(m)
<1>1. TypeOK /\ box[m] \in Row
  BY DEF IInv, TypeOK
<1>2. ASSUME \A h \in Hosts : JobFades(h, m), Wired(m)' \subseteq Wired(m),
             box'[m].status = "attempting" => box[m].status = "attempting"
      PROVE  Busy(m)
  BY <1>2 DEF Busy, JobFades
<1>3. WireKept(m) => Wired(m)' \subseteq Wired(m)
  BY DEF WireKept, Wired
<1>4. ASSUME NEW h \in Hosts, HostMove(h, m) PROVE Busy(m) \/ Foremost(m)
  <2>1. CASE Forgets(h, m)
    <3>1. \A g \in Hosts : JobFades(g, m)
      <4>1. ASSUME NEW g \in Hosts PROVE JobFades(g, m)
        <5> DEFINE j == [job[h][m] EXCEPT !.phase = "dropped"]
        <5>1. /\ j.phase = "dropped" /\ j.token = job[h][m].token
              /\ j.mode = job[h][m].mode
          BY <1>1 DEF TypeOK, Job
        <5>2. \/ JobBecomes(h, m, Idle)
              \/ JobBecomes(h, m, j) /\ job[h][m].phase = "calling"
          BY <2>1 DEF Forgets
        <5> HIDE DEF j
        <5> QED BY <5>1, <5>2, IdleFades DEF JobBecomes, JobFades
      <4> QED BY <4>1
    <3> QED BY <1>2, <1>3, <2>1, <3>1 DEF Forgets
  <2>2. CASE Calls(h, m)
    BY <2>2 DEF Calls, Busy
  <2>3. CASE Ticks(h, m)
    <3>1. PICK k \in Row :
           /\ Swept(box[m], k)
           /\ (box'[m] = k /\ JobsKept(m)) \/ Foremost(m)
      BY <2>3 DEF Ticks
    <3>2. k.status = "attempting" => box[m].status = "attempting"
      BY <1>1, <3>1 DEF Swept, Row, Statuses, Terminal
    <3>3. CASE box'[m] = k /\ JobsKept(m)
      BY <1>2, <1>3, <2>3, <3>2, <3>3, IdleFades DEF Ticks
    <3> QED BY <3>1, <3>3
  <2>4. ASSUME NEW o \in {"accepted", "retry_wait", "unknown_after_send", "dead"},
               NEW pid \in Nat, Finishes(h, m, o, pid)
        PROVE  Busy(m)
    <3>1. CASE Current(h, m)
      BY <3>1 DEF Current, Busy
    <3>2. CASE ~Current(h, m)
      BY <1>2, <1>3, <2>4, <3>2, IdleFades DEF Finishes
    <3> QED BY <3>1, <3>2
  <2>5. ASSUME NEW s \in {"accepted", "delivered", "read"}, NEW pid \in Nat,
               Finds(h, m, pid, s)
        PROVE  Busy(m)
    <3>1. CASE Current(h, m)
      BY <3>1 DEF Current, Busy
    <3>2. CASE ~Current(h, m)
      BY <1>2, <1>3, <2>5, <3>2, IdleFades DEF Finds
    <3> QED BY <3>1, <3>2
  <2> QED BY <1>4, <2>1, <2>2, <2>3, <2>4, <2>5 DEF HostMove
<1>5. CASE Rests(m) \/ RowMove(m)
  <2>1. \A h \in Hosts : JobFades(h, m)
    BY <1>5 DEF Rests, RowMove, Relabels, Lapses, Enqueues, Revives, Travels, Receives,
       JobsKept, JobFades
  <2>2. Wired(m)' \subseteq Wired(m)
    <3>1. CASE Travels(m)
      BY <3>1 DEF Travels, Wired
    <3>2. CASE ~Travels(m)
      BY <1>3, <1>5, <3>2 DEF Rests, RowMove, Relabels, Lapses, Enqueues, Revives, Receives
    <3> QED BY <3>1, <3>2
  <2>3. box'[m].status = "attempting" => box[m].status = "attempting"
    <3>1. CASE Rests(m) \/ Relabels(m) \/ Travels(m) \/ Lapses(m)
      BY <3>1 DEF Rests, Relabels, Alike, Travels, Lapses
    <3>2. CASE Enqueues(m)
      BY <3>2 DEF Enqueues, Alike, Absent
    <3>3. CASE Revives(m)
      BY <1>1, <3>3 DEF Revives, Row
    <3>4. CASE \E s \in {"accepted", "delivered", "read"} : Receives(m, s)
      BY <1>1, <3>4, RaiseFields DEF Receives
    <3> QED BY <1>5, <3>1, <3>2, <3>3, <3>4 DEF RowMove
  <2> QED BY <1>2, <2>1, <2>2, <2>3
<1> QED BY <1>4, <1>5 DEF Move

(* The order of the rows is inductive.                                     *)
LEMMA NextOrder == IInv /\ WireInv /\ OrderInv /\ [Next]_vars => OrderInv'
<1> SUFFICES ASSUME IInv, WireInv, OrderInv, [Next]_vars,
                    NEW e \in Msgs, NEW m \in Msgs, e < m
             PROVE  Ordered(e, m)'
  BY DEF OrderInv, Ordered
<1>1. /\ Traced(e) /\ Traced(m) /\ Ordered(e, m) /\ Move(e) /\ Move(m) /\ TypeOK
      /\ e \in 1..(m - 1)
  BY EveryMove, OutboxAssumption DEF WireInv, OrderInv, IInv, Msgs
<1>2. box[e].status # "absent" => box'[e].status # "absent"
  BY <1>1, MoveQuiet
<1>3. box'[m].status # "absent" => box[e].status # "absent"
  BY <1>1, MoveAppears DEF Ordered
<1>4. ASSUME LaneOf[e] = LaneOf[m], m \notin Maintenance, Busy(m)', box'[e].retries = 0
      PROVE  Quiet(box'[e])
  <2>1. CASE Foremost(m)
    BY <1>1, <1>4, <2>1 DEF Foremost
  <2>2. CASE Busy(m)
    <3>1. box[e].status # "absent"
      BY <1>1, <2>2, BusyPresent DEF Ordered
    <3>2. box[e].retries = 0 /\ (Quiet(box[e]) => Quiet(box'[e]))
      BY <1>1, <1>4, <3>1, MoveQuiet
    <3> QED BY <1>1, <1>4, <2>2, <3>2 DEF Ordered
  <2> QED BY <1>1, <1>4, <2>1, <2>2, MoveBusy
<1> QED BY <1>2, <1>3, <1>4 DEF Ordered

(* Nothing is queued at first.                                             *)
LEMMA InitOrder == Init => OrderInv
BY DEF Init, OrderInv, Ordered, Busy, Wired, Idle, Absent

(* A message is not attempted, let alone on its way to the provider,       *)
(* before everything queued earlier in its lane has settled or was         *)
(* cancelled, for any number of Hosts, crashes and lost leases.            *)
THEOREM LanesOrdered == Spec => []InOrder
<1>1. OrderInv => InOrder
  BY DEF OrderInv, Ordered, InOrder, Started, Busy, Wired
<1>2. Spec => []OrderInv
  BY InitIInv, NextIInv, InitWire, NextWire, InitOrder, NextOrder, PTL DEF Spec
<1> QED BY <1>1, <1>2, PTL
=============================================================================
