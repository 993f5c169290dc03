------------------------- MODULE SessionLeaseProofs -------------------------
(***************************************************************************)
(* The safety of SessionLease for any number of processes, identities,     *)
(* tokens and operations.                                                  *)
(***************************************************************************)
EXTENDS SessionLeasePromise, TLAPS

(* What holds of one lease object: work needs a dispatched lease, a        *)
(* construction counts as an operation, a load given up is remembered, and *)
(* a released lease was closed and quiescent.                              *)
LeaseInv(l) ==
  /\ l.phase # "dispatched" => ~Working(l) /\ l.building = "no"
  /\ l.building # "no" => l.pending > 0
  /\ l.late => l.unobserved
  /\ l.released => l.closed /\ Quiescent(l)

(* How the row and the lease of its token relate.                          *)
RowInv ==
  /\ row.token \in 0..MaxToken
  /\ row.state = "none" <=> row.token = 0
  /\ row.state = "prepared" => lease[row.token].phase \in {"opened", "gone"}
  /\ row.state = "released" =>
       lease[row.token].released \/ lease[row.token].phase = "gone"
  /\ \A t \in Tokens : t > row.token =>
       lease[t].phase = "none" /\ lease[t].proc = Nobody

IInv == TypeOK /\ RowInv /\ Exclusive /\ \A t \in Tokens : LeaseInv(lease[t])

-----------------------------------------------------------------------------
(* A released lease has nothing left running: this is what makes a         *)
(* 'released' row safe to grant again (finishSessionLease, #settle).       *)
LEMMA QuiescentStopped ==
  ASSUME NEW l \in Lease, LeaseInv(l), Quiescent(l)
  PROVE  ~Working(l)
BY DEF Lease, LeaseInv, Quiescent, Working

(* A lease whose assert() passes after its dispatch owns a dispatched row. *)
LEMMA AssertedIsDispatched ==
  ASSUME IInv, NEW t \in Tokens, assert(t), lease[t].phase = "dispatched"
  PROVE  row.token = t /\ row.state = "dispatched"
BY DEF IInv, RowInv, assert, Valid

(* Only a dispatched lease has work, and its token is the row's.           *)
LEMMA WorkingIsCurrent ==
  ASSUME IInv, NEW t \in Tokens, Working(lease[t])
  PROVE  /\ lease[t].phase = "dispatched"
         /\ row.token = t /\ row.state \in {"dispatched", "unknown"}
BY DEF IInv, LeaseInv, Exclusive

(* An update of one lease that leaves the row and the other leases alone   *)
(* keeps the invariant when it starts no work of its own.                  *)
LEMMA UpdateKeeps ==
  ASSUME IInv, NEW t \in Tokens, NEW l \in Lease, LeaseInv(l),
         lease' = [lease EXCEPT ![t] = l], UNCHANGED <<row, auth>>,
         l.phase = lease[t].phase, l.proc = lease[t].proc,
         l.released = lease[t].released, Working(l) => Working(lease[t])
  PROVE  IInv'
<1> USE DEF IInv
<1>1. TypeOK'
  BY DEF TypeOK
<1>2. \A u \in Tokens : lease'[u] = IF u = t THEN l ELSE lease[u]
  BY DEF TypeOK
<1>3. RowInv'
  <2>1. lease'[row.token].phase = lease[row.token].phase /\
        lease'[row.token].released = lease[row.token].released
    <3>1. CASE row.token \in Tokens
      BY <1>2, <3>1
    <3>2. CASE row.token \notin Tokens
      BY <3>2 DEF TypeOK
    <3> QED BY <3>1, <3>2
  <2> QED BY <1>2, <2>1 DEF RowInv
<1>4. Exclusive'
  BY <1>2 DEF Exclusive, Working
<1>5. \A u \in Tokens : LeaseInv(lease'[u])
  BY <1>2
<1> QED BY <1>1, <1>3, <1>4, <1>5

(* Settling a lease (#settle with finishSessionLease) keeps the invariant  *)
(* and never moves the row to another token or identity.                   *)
LEMMA SettleKeeps ==
  ASSUME IInv, NEW t \in Tokens, NEW l \in Lease, LeaseInv(l),
         Settle(t, l), UNCHANGED auth,
         l.phase = lease[t].phase, l.proc = lease[t].proc,
         l.released = lease[t].released, Working(l) => Working(lease[t])
  PROVE  IInv'
<1> USE DEF IInv
<1>1. PICK stored \in BOOLEAN :
        LET tries == l.closed /\ ~l.released
            hit == /\ stored /\ tries /\ row.token = t
                   /\ row.state \in {"prepared", "dispatched", "unknown"}
        IN /\ row' = IF hit
                     THEN [row EXCEPT !.state = IF Quiescent(l) THEN "released" ELSE "unknown"]
                     ELSE row
           /\ lease' = [lease EXCEPT ![t] =
                          [l EXCEPT !.released = @ \/ (hit /\ Quiescent(l)),
                                    !.unsaved = tries /\ Quiescent(l) /\ ~stored]]
  BY DEF Settle, SessionLeaseAssumption
<1> DEFINE tries == l.closed /\ ~l.released
           hit == /\ stored /\ tries /\ row.token = t
                  /\ row.state \in {"prepared", "dispatched", "unknown"}
           after == [l EXCEPT !.released = @ \/ (hit /\ Quiescent(l)),
                              !.unsaved = tries /\ Quiescent(l) /\ ~stored]
<1>2. CASE ~hit
  <2>1. /\ after \in Lease /\ after.released = l.released
        /\ after.phase = l.phase /\ after.proc = l.proc
        /\ Working(after) = Working(l) /\ LeaseInv(after)
    BY <1>2 DEF Lease, LeaseInv, Working, Quiescent
  <2>2. lease' = [lease EXCEPT ![t] = after] /\ UNCHANGED <<row, auth>>
    BY <1>1, <1>2
  <2> HIDE DEF after, hit, tries
  <2> QED BY <2>1, <2>2, UpdateKeeps
<1>3. CASE hit
  <2>1. row' = [row EXCEPT !.state = IF Quiescent(l) THEN "released" ELSE "unknown"]
    BY <1>1, <1>3
  <2>2. row'.state = (IF Quiescent(l) THEN "released" ELSE "unknown")
        /\ row'.token = t /\ row.token = t /\ row' \in Row
    BY <2>1, <1>3 DEF TypeOK, Row, States
  <2>3. lease' = [lease EXCEPT ![t] = after]
    BY <1>1
  <2>4. /\ after \in Lease
        /\ after.released = (l.released \/ Quiescent(l))
        /\ after.phase = l.phase /\ after.proc = l.proc
        /\ Working(after) = Working(l) /\ LeaseInv(after)
    BY <1>3 DEF Lease, LeaseInv, Working, Quiescent
  <2>5. \A u \in Tokens : lease'[u] = IF u = t THEN after ELSE lease[u]
    BY <2>3 DEF TypeOK
  <2>6. TypeOK'
    BY <2>2, <2>3, <2>4 DEF TypeOK
  <2>7. RowInv'
    <3>1. row'.token = row.token /\ row'.state \in {"released", "unknown"}
      BY <2>2
    <3>2. row'.state = "released" => lease'[row'.token].released
      BY <2>2, <2>4, <2>5
    <3>3. \A u \in Tokens : lease'[u].phase = lease[u].phase
                             /\ lease'[u].proc = lease[u].proc
      BY <2>4, <2>5
    <3>4. row.state # "none"
      BY <1>3
    <3> QED BY <3>1, <3>2, <3>3, <3>4 DEF RowInv
  <2>8. Exclusive'
    BY <2>2, <2>4, <2>5, QuiescentStopped DEF Exclusive
  <2>9. \A u \in Tokens : LeaseInv(lease'[u])
    BY <2>4, <2>5
  <2> QED BY <2>6, <2>7, <2>8, <2>9
<1> QED BY <1>2, <1>3

-----------------------------------------------------------------------------
(* The empty database satisfies the invariant.                             *)
LEMMA InitIInv == Init => IInv
<1> SUFFICES ASSUME Init PROVE IInv
  OBVIOUS
<1>1. lease = [t \in Tokens |-> [Fresh(Nobody) EXCEPT !.phase = "none"]]
  BY DEF Init
<1>2. [Fresh(Nobody) EXCEPT !.phase = "none"] \in Lease
  BY DEF Fresh, Lease
<1>3. \A t \in Tokens : /\ lease[t].phase = "none" /\ lease[t].proc = Nobody
                        /\ ~Working(lease[t]) /\ LeaseInv(lease[t])
  BY <1>1 DEF Fresh, Working, LeaseInv
<1>4. TypeOK
  BY <1>1, <1>2 DEF Init, TypeOK, Row, States
<1>5. RowInv
  BY <1>3, SessionLeaseAssumption DEF Init, RowInv
<1> QED BY <1>3, <1>4, <1>5 DEF IInv, Exclusive

(* A grant (claimSessionLease) keeps the invariant: the rows it takes have *)
(* no work left, whoever held them.                                        *)
LEMMA OpenKeeps ==
  ASSUME IInv, NEW p \in Procs, NEW i \in Identities, open(p, i)
  PROVE  IInv'
<1> USE DEF IInv
<1> DEFINE n == row.token + 1
<1>1. n \in Tokens /\ n > row.token /\ row.token \in Nat
  BY SessionLeaseAssumption DEF open, RowInv, Tokens
<1>2. \A u \in Tokens : ~Working(lease[u])
  BY DEF open, Grantable, Exclusive
<1>3. Fresh(p) \in Lease /\ ~Working(Fresh(p)) /\ LeaseInv(Fresh(p))
  BY DEF Fresh, Lease, Working, LeaseInv
<1>4. \A u \in Tokens : lease'[u] = IF u = n THEN Fresh(p) ELSE lease[u]
  BY DEF open, TypeOK
<1>5. TypeOK'
  BY <1>1, <1>3 DEF open, TypeOK, Row, States
<1>6. row'.token = n /\ row'.state = "prepared"
  BY DEF open
<1>7. RowInv'
  BY <1>1, <1>4, <1>6 DEF RowInv, Fresh, Tokens
<1>8. Exclusive' /\ \A u \in Tokens : LeaseInv(lease'[u])
  BY <1>2, <1>3, <1>4 DEF Exclusive
<1> QED BY <1>5, <1>7, <1>8

(* The invariant is inductive.                                             *)
LEMMA NextIInv == IInv /\ [Next]_vars => IInv'
<1> SUFFICES ASSUME IInv, [Next]_vars PROVE IInv'
  OBVIOUS
<1> USE DEF IInv
<1>1. CASE \E p \in Procs, i \in Identities : open(p, i)
  BY <1>1, OpenKeeps
<1>2. CASE \E i \in Identities : claimFindsExpired(i)
  <2>1. row.state = "dispatched" /\ row' = [row EXCEPT !.state = "unknown"]
        /\ UNCHANGED <<auth, lease>>
    BY <1>2 DEF claimFindsExpired
  <2>2. row'.state = "unknown" /\ row'.token = row.token /\ row' \in Row
    BY <2>1 DEF TypeOK, Row, States
  <2> QED BY <2>1, <2>2 DEF TypeOK, RowInv, Exclusive
<1>3. CASE \E i \in Identities : changeAuthority(i)
  <2>1. UNCHANGED <<row, lease>>
    BY <1>3 DEF changeAuthority
  <2>2. auth' \in [Identities -> [active : BOOLEAN, version : Nat]]
    BY <1>3 DEF changeAuthority, TypeOK
  <2> QED BY <2>1, <2>2 DEF TypeOK, RowInv, Exclusive
<1>4. ASSUME NEW t \in Tokens, LeaseStep(t) PROVE IInv'
  <2> DEFINE l == lease[t]
  <2>a. l \in Lease /\ LeaseInv(l)
    BY DEF TypeOK
  <2>1. CASE dispatch(t)
    <3> DEFINE k == [l EXCEPT !.phase = "dispatched"]
    <3>1. /\ row.token = t /\ l.phase = "opened" /\ row.state = "prepared"
          /\ row' = [row EXCEPT !.state = "dispatched"] /\ auth' = auth
          /\ lease' = [lease EXCEPT ![t] = k]
      BY <2>1 DEF dispatch, assert, Valid
    <3>2. row'.state = "dispatched" /\ row'.token = t /\ row' \in Row
      BY <3>1 DEF TypeOK, Row, States
    <3>3. k \in Lease /\ LeaseInv(k) /\ ~Working(k)
      BY <2>a, <3>1 DEF Lease, LeaseInv, Working, Quiescent
    <3>4. \A u \in Tokens : lease'[u] = IF u = t THEN k ELSE lease[u]
      BY <3>1 DEF TypeOK
    <3>5. TypeOK'
      BY <3>1, <3>2, <3>3 DEF TypeOK
    <3>6. RowInv'
      BY <3>1, <3>2, <3>4 DEF RowInv
    <3>7. Exclusive' /\ \A u \in Tokens : LeaseInv(lease'[u])
      BY <3>1, <3>3, <3>4 DEF Exclusive
    <3> QED BY <3>5, <3>6, <3>7
  <2>2. CASE construct(t)
    <3> DEFINE k == [l EXCEPT !.building = "loading", !.pending = @ + 1]
    <3>1. /\ lease' = [lease EXCEPT ![t] = k] /\ UNCHANGED <<row, auth>>
          /\ l.phase = "dispatched" /\ assert(t)
      BY <2>2 DEF construct
    <3>2. row.token = t /\ row.state = "dispatched"
      BY <3>1, AssertedIsDispatched
    <3>i. l.pending \in Nat /\ l.pending + 1 \in Nat /\ l.pending + 1 > 0
      BY <2>a DEF Lease
    <3>k. k \in Lease /\ k.phase = l.phase /\ k.pending > 0
          /\ k.late = l.late /\ k.unobserved = l.unobserved /\ k.released = l.released
      BY <2>a, <3>i DEF Lease
    <3>3. k \in Lease /\ LeaseInv(k) /\ k.phase = l.phase
      BY <2>a, <3>1, <3>k DEF LeaseInv, assert
    <3>4. \A u \in Tokens : lease'[u] = IF u = t THEN k ELSE lease[u]
      BY <3>1 DEF TypeOK
    <3>5. TypeOK'
      BY <3>1, <3>3 DEF TypeOK
    <3>6. RowInv'
      BY <3>1, <3>2, <3>3, <3>4 DEF RowInv
    <3>7. Exclusive' /\ \A u \in Tokens : LeaseInv(lease'[u])
      BY <3>1, <3>2, <3>3, <3>4 DEF Exclusive
    <3> QED BY <3>5, <3>6, <3>7
  <2>3. CASE attach(t)
    <3> DEFINE k == [l EXCEPT !.building = "prepared", !.agent = TRUE]
    <3>1. /\ lease' = [lease EXCEPT ![t] = k] /\ UNCHANGED <<row, auth>>
          /\ l.building = "loading"
      BY <2>3 DEF attach
    <3>k. /\ k \in Lease /\ k.phase = l.phase /\ k.proc = l.proc
          /\ k.released = l.released /\ k.pending = l.pending
          /\ k.late = l.late /\ k.unobserved = l.unobserved
      BY <2>a DEF Lease
    <3>2. l.phase = "dispatched" /\ l.pending > 0 /\ Working(l) /\ ~l.released
      BY <2>a, <3>1 DEF LeaseInv, Working, Quiescent
    <3>3. LeaseInv(k)
      BY <2>a, <3>k, <3>2 DEF LeaseInv
    <3> QED BY <3>1, <3>k, <3>2, <3>3, UpdateKeeps
  <2>4. CASE publish(t)
    <3> DEFINE k == [l EXCEPT !.building = "over"]
    <3>1. /\ lease' = [lease EXCEPT ![t] = k] /\ UNCHANGED <<row, auth>>
          /\ l.building = "prepared"
      BY <2>4 DEF publish
    <3>2. k \in Lease /\ LeaseInv(k) /\ (Working(k) => Working(l))
          /\ k.phase = l.phase /\ k.proc = l.proc /\ k.released = l.released
      BY <2>a, <3>1 DEF Lease, LeaseInv, Working, Quiescent
    <3> QED BY <3>1, <3>2, UpdateKeeps
  <2>5. CASE rollBack(t)
    <3> DEFINE k == [l EXCEPT !.building = "over", !.agent = FALSE]
    <3>1. Settle(t, k) /\ auth' = auth /\ l.building = "prepared"
      BY <2>5 DEF rollBack
    <3>2. k \in Lease /\ LeaseInv(k) /\ (Working(k) => Working(l))
          /\ k.phase = l.phase /\ k.proc = l.proc /\ k.released = l.released
      BY <2>a, <3>1 DEF Lease, LeaseInv, Working, Quiescent
    <3> QED BY <3>1, <3>2, SettleKeeps
  <2>6. CASE loadFails(t)
    <3> DEFINE k == [l EXCEPT !.building = "over"]
    <3>1. /\ lease' = [lease EXCEPT ![t] = k] /\ UNCHANGED <<row, auth>>
          /\ l.building = "loading"
      BY <2>6 DEF loadFails
    <3>2. k \in Lease /\ LeaseInv(k) /\ (Working(k) => Working(l))
          /\ k.phase = l.phase /\ k.proc = l.proc /\ k.released = l.released
      BY <2>a, <3>1 DEF Lease, LeaseInv, Working, Quiescent
    <3> QED BY <3>1, <3>2, UpdateKeeps
  <2>7. CASE abandonConstruction(t)
    <3>1. PICK running \in BOOLEAN :
            LET k == [l EXCEPT !.building = "over", !.unobserved = TRUE,
                        !.aborted = TRUE, !.closed = TRUE, !.late = running]
            IN IF l.closed
               THEN lease' = [lease EXCEPT ![t] = k] /\ UNCHANGED row
               ELSE Settle(t, k)
      BY <2>7 DEF abandonConstruction
    <3> DEFINE k == [l EXCEPT !.building = "over", !.unobserved = TRUE,
                       !.aborted = TRUE, !.closed = TRUE, !.late = running]
    <3>2. /\ auth' = auth /\ l.building = "loading"
          /\ Settle(t, k) \/ (lease' = [lease EXCEPT ![t] = k] /\ UNCHANGED row)
      BY <2>7, <3>1 DEF abandonConstruction
    <3>k. /\ k \in Lease /\ k.phase = l.phase /\ k.proc = l.proc
          /\ k.released = l.released /\ k.pending = l.pending /\ k.unobserved
      BY <2>a DEF Lease
    <3>3. l.phase = "dispatched" /\ l.pending > 0 /\ Working(l) /\ ~l.released
      BY <2>a, <3>2 DEF LeaseInv, Working, Quiescent
    <3>4. LeaseInv(k)
      BY <3>k, <3>3 DEF LeaseInv
    <3> QED BY <3>2, <3>k, <3>3, <3>4, SettleKeeps, UpdateKeeps
  <2>8. CASE finishConstruction(t)
    <3> DEFINE k == [l EXCEPT !.building = "no", !.pending = @ - 1]
    <3>1. Settle(t, k) /\ auth' = auth /\ l.building = "over"
      BY <2>8 DEF finishConstruction
    <3>2. l.phase = "dispatched" /\ l.pending > 0 /\ Working(l) /\ ~l.released
      BY <2>a, <3>1 DEF LeaseInv, Working, Quiescent
    <3>3. /\ k \in Lease /\ k.phase = l.phase /\ k.proc = l.proc
          /\ k.released = l.released /\ k.building = "no"
          /\ k.late = l.late /\ k.unobserved = l.unobserved
      <4>1. l.pending \in Nat /\ l.pending - 1 \in Nat
        BY <2>a, <3>2 DEF Lease
      <4> QED BY <2>a, <4>1 DEF Lease
    <3>4. LeaseInv(k)
      BY <2>a, <3>2, <3>3 DEF LeaseInv
    <3> QED BY <3>1, <3>2, <3>3, <3>4, SettleKeeps
  <2>9. CASE lateLoadEnds(t)
    <3> DEFINE k == [l EXCEPT !.late = FALSE]
    <3>1. /\ lease' = [lease EXCEPT ![t] = k] /\ UNCHANGED <<row, auth>>
      BY <2>9 DEF lateLoadEnds
    <3>2. k \in Lease /\ LeaseInv(k) /\ (Working(k) => Working(l))
          /\ k.phase = l.phase /\ k.proc = l.proc /\ k.released = l.released
      BY <2>a DEF Lease, LeaseInv, Working, Quiescent
    <3> QED BY <3>1, <3>2, UpdateKeeps
  <2>10. CASE enter(t)
    <3> DEFINE k == [l EXCEPT !.pending = @ + 1]
    <3>1. /\ lease' = [lease EXCEPT ![t] = k] /\ UNCHANGED <<row, auth>>
          /\ l.agent /\ ~l.closed
      BY <2>10 DEF enter, assert
    <3>2. k \in Lease /\ LeaseInv(k) /\ Working(l)
          /\ k.phase = l.phase /\ k.proc = l.proc /\ k.released = l.released
      BY <2>a, <3>1 DEF Lease, LeaseInv, Working, Quiescent
    <3> QED BY <3>1, <3>2, UpdateKeeps
  <2>11. CASE leave(t)
    <3> DEFINE k == [l EXCEPT !.pending = @ - 1]
    <3>1. Settle(t, k) /\ auth' = auth
          /\ l.pending > (IF l.building = "no" THEN 0 ELSE 1)
      BY <2>11 DEF leave
    <3>2. k \in Lease /\ LeaseInv(k) /\ Working(l)
          /\ k.phase = l.phase /\ k.proc = l.proc /\ k.released = l.released
      BY <2>a, <3>1 DEF Lease, LeaseInv, Working, Quiescent
    <3> QED BY <3>1, <3>2, SettleKeeps
  <2>12. CASE disposed(t)
    <3> DEFINE k == [l EXCEPT !.agent = FALSE]
    <3>1. Settle(t, k) /\ auth' = auth
      BY <2>12 DEF disposed
    <3>2. k \in Lease /\ LeaseInv(k) /\ (Working(k) => Working(l))
          /\ k.phase = l.phase /\ k.proc = l.proc /\ k.released = l.released
      BY <2>a DEF Lease, LeaseInv, Working, Quiescent
    <3> QED BY <3>1, <3>2, SettleKeeps
  <2>13. CASE cancel(t)
    <3> DEFINE k == [l EXCEPT !.aborted = TRUE]
    <3>1. /\ lease' = [lease EXCEPT ![t] = k] /\ UNCHANGED <<row, auth>>
      BY <2>13 DEF cancel
    <3>2. k \in Lease /\ LeaseInv(k) /\ (Working(k) => Working(l))
          /\ k.phase = l.phase /\ k.proc = l.proc /\ k.released = l.released
      BY <2>a DEF Lease, LeaseInv, Working, Quiescent
    <3> QED BY <3>1, <3>2, UpdateKeeps
  <2>14. CASE close(t)
    <3> DEFINE k == [l EXCEPT !.closed = TRUE]
    <3>1. Settle(t, k) /\ auth' = auth
      BY <2>14 DEF close
    <3>2. k \in Lease /\ LeaseInv(k) /\ (Working(k) => Working(l))
          /\ k.phase = l.phase /\ k.proc = l.proc /\ k.released = l.released
      BY <2>a DEF Lease, LeaseInv, Working, Quiescent
    <3> QED BY <3>1, <3>2, SettleKeeps
  <2> QED BY <1>4, <2>1, <2>2, <2>3, <2>4, <2>5, <2>6, <2>7, <2>8, <2>9,
             <2>10, <2>11, <2>12, <2>13, <2>14 DEF LeaseStep
<1>5. ASSUME NEW p \in Procs, crash(p) PROVE IInv'
  <2> DEFINE k == [Fresh(p) EXCEPT !.phase = "gone", !.aborted = TRUE, !.closed = TRUE]
  <2>f. /\ k \in Lease /\ k.phase = "gone" /\ k.building = "no" /\ k.pending = 0
        /\ ~k.agent /\ ~k.late /\ ~k.released
    BY DEF Fresh, Lease
  <2>1. k \in Lease /\ LeaseInv(k) /\ ~Working(k) /\ k.phase = "gone"
    BY <2>f DEF LeaseInv, Working
  <2>2. UNCHANGED <<row, auth>>
        /\ lease' = [t \in Tokens |-> IF lease[t].proc = p THEN k ELSE lease[t]]
    BY <1>5 DEF crash
  <2>3. \A u \in Tokens : lease'[u] = IF lease[u].proc = p THEN k ELSE lease[u]
    BY <2>2
  <2>4. TypeOK'
    BY <2>1, <2>2 DEF TypeOK
  <2>5. p # Nobody
    BY SessionLeaseAssumption
  <2>6. row.state # "none" => row.token \in Tokens
    BY SessionLeaseAssumption DEF RowInv, Tokens
  <2>7. RowInv'
    BY <2>1, <2>2, <2>3, <2>5, <2>6 DEF RowInv
  <2>8. Exclusive' /\ \A u \in Tokens : LeaseInv(lease'[u])
    BY <2>1, <2>2, <2>3 DEF Exclusive
  <2> QED BY <2>4, <2>7, <2>8
<1>6. CASE lapse
  <2>1. row' = [row EXCEPT !.live = FALSE] /\ UNCHANGED <<auth, lease>>
    BY <1>6 DEF lapse
  <2>2. row'.state = row.state /\ row'.token = row.token /\ row' \in Row
    BY <2>1 DEF TypeOK, Row, States
  <2> QED BY <2>1, <2>2 DEF TypeOK, RowInv, Exclusive
<1>7. CASE UNCHANGED vars
  BY <1>7 DEF vars, TypeOK, RowInv, Exclusive
<1> QED BY <1>1, <1>2, <1>3, <1>4, <1>5, <1>6, <1>7 DEF Next

(* The strengthened invariant holds of every reachable state.              *)
THEOREM Inductive == Spec => []IInv
BY InitIInv, NextIInv, PTL DEF Spec

(* Every row, authority and lease object is well formed, for any number of *)
(* processes, identities, tokens and operations.                           *)
THEOREM TypeCorrect == Spec => []TypeOK
<1>1. IInv => TypeOK
  BY DEF IInv
<1> QED BY <1>1, Inductive, PTL

(* Two holders never execute the Session at once: whatever still runs, a   *)
(* load that was given up included, runs under the row's own token.        *)
THEOREM ExecutionExclusive == Spec => []Exclusive
<1>1. IInv => Exclusive
  BY DEF IInv
<1> QED BY <1>1, Inductive, PTL

-----------------------------------------------------------------------------
(* Only a grant moves the row to another token or identity: every other    *)
(* update of the row is a single column.                                   *)
LEMMA OnlyOpenMoves ==
  ASSUME IInv, [Next]_vars,
         ~\E p \in Procs, i \in Identities : open(p, i)
  PROVE  row'.token = row.token /\ row'.identity = row.identity
<1> USE DEF IInv
<1>1. row \in Row
  BY DEF TypeOK
<1>2. ASSUME NEW t \in Tokens, NEW l, Settle(t, l)
      PROVE  row'.token = row.token /\ row'.identity = row.identity
  BY <1>1, <1>2 DEF Settle, Row
<1>3. ASSUME NEW t \in Tokens, LeaseStep(t)
      PROVE  row'.token = row.token /\ row'.identity = row.identity
  <2>1. CASE dispatch(t)
    BY <1>1, <2>1 DEF dispatch, Row
  <2>2. CASE construct(t) \/ attach(t) \/ publish(t) \/ loadFails(t)
             \/ lateLoadEnds(t) \/ enter(t) \/ cancel(t)
    BY <2>2 DEF construct, attach, publish, loadFails, lateLoadEnds, enter, cancel
  <2>3. CASE rollBack(t) \/ finishConstruction(t) \/ leave(t) \/ disposed(t) \/ close(t)
    BY <1>2, <2>3 DEF rollBack, finishConstruction, leave, disposed, close
  <2>4. CASE abandonConstruction(t)
    BY <1>2, <2>4 DEF abandonConstruction
  <2> QED BY <1>3, <2>1, <2>2, <2>3, <2>4 DEF LeaseStep
<1>4. CASE \E i \in Identities : claimFindsExpired(i) \/ changeAuthority(i)
  BY <1>1, <1>4 DEF claimFindsExpired, changeAuthority, Row
<1>5. CASE \E p \in Procs : crash(p)
  BY <1>5 DEF crash
<1>6. CASE lapse
  BY <1>1, <1>6 DEF lapse, Row
<1>7. CASE UNCHANGED vars
  BY <1>7 DEF vars
<1> QED BY <1>3, <1>4, <1>5, <1>6, <1>7 DEF Next

(* A new token is granted only once the old holder provably stopped: it    *)
(* was released after quiescence, its process died with the row released,  *)
(* or the row expired before anything was dispatched.                      *)
THEOREM TakeoverSafe == Spec => TakeoverIsProven
<1> DEFINE Proven ==
      \/ row.state = "none"
      \/ row.state = "prepared" /\ lease[row.token].phase # "dispatched"
      \/ /\ row.state = "released" /\ lease[row.token].released
         /\ ~Working(lease[row.token])
      \/ row.state = "released" /\ lease[row.token].phase = "gone"
<1>1. ASSUME IInv, [Next]_vars PROVE [row'.token # row.token => Proven]_vars
  <2>1. CASE \E p \in Procs, i \in Identities : open(p, i)
    <3>1. row.state \in {"none", "released", "prepared"}
      BY <2>1 DEF open, Grantable
    <3>2. row.state # "none" => row.token \in Tokens
      BY <1>1, SessionLeaseAssumption DEF IInv, RowInv, Tokens
    <3>3. CASE row.state = "released" /\ lease[row.token].released
      <4>1. ~Working(lease[row.token])
        BY <1>1, <3>2, <3>3, QuiescentStopped DEF IInv, TypeOK, LeaseInv
      <4> QED BY <3>3, <4>1
    <3>4. CASE row.state = "released" /\ ~lease[row.token].released
      BY <1>1, <3>4 DEF IInv, RowInv
    <3>5. CASE row.state = "prepared"
      BY <1>1, <3>5 DEF IInv, RowInv
    <3> QED BY <3>1, <3>3, <3>4, <3>5
  <2>2. CASE ~\E p \in Procs, i \in Identities : open(p, i)
    BY <1>1, <2>2, OnlyOpenMoves
  <2> QED BY <2>1, <2>2
<1> QED BY <1>1, Inductive, PTL DEF Spec, TakeoverIsProven

-----------------------------------------------------------------------------
(* The refinement of SessionPromise.                                       *)

\* A Session nobody claimed belongs to nobody.
Unclaimed == row.state = "none" => row.identity = Nobody

\* The turns something still runs for, as SessionPromise sees them.
Turns == {t \in Tokens : Working(lease[t])}

\* Only the latest turn ever works.
Latest == Turns = {} \/ (row.token > 0 /\ Turns = {row.token})

(* That is what Exclusive says of the row's token.                         *)
LEMMA TurnsAreLatest ==
  ASSUME IInv
  PROVE  Latest
<1>1. \A t \in Turns : t = row.token
  BY DEF IInv, Exclusive, Turns
<1>2. \A t \in Turns : t > 0
  BY SessionLeaseAssumption DEF Turns, Tokens
<1> QED BY <1>1, <1>2 DEF Latest

(* A grant takes a turn: nothing works for the old token (Exclusive), the  *)
(* new one has not begun, and the identity is the one the row names.       *)
LEMMA OpenTakes ==
  ASSUME IInv, Unclaimed, NEW p \in Procs, NEW i \in Identities, open(p, i)
  PROVE  Promise!Take(i) /\ row'.state # "none"
<1> DEFINE n == row.token + 1
<1>1. row.state \in {"none", "released", "prepared"}
      /\ row.identity \in {Nobody, i}
  BY DEF open, Grantable, Unclaimed
<1>2. \A t \in Tokens : ~Working(lease[t])
  BY <1>1 DEF IInv, Exclusive
<1>3. n \in Tokens
  BY SessionLeaseAssumption DEF open, IInv, RowInv, Tokens
<1>4. \A t \in Tokens : lease'[t] = IF t = n THEN Fresh(p) ELSE lease[t]
  BY <1>3 DEF open, IInv, TypeOK
<1>5. \A t \in Tokens : ~Working(lease'[t])
  BY <1>2, <1>4 DEF Fresh, Working
<1>6. row'.identity = i /\ row'.token = n /\ row'.state = "prepared"
  BY DEF open
<1>7. Turns = {} /\ Turns' = {}
  BY <1>2, <1>5 DEF Turns
<1> QED BY <1>1, <1>6, <1>7 DEF Promise!Take, Turns

(* Every other step works, rests, or is not seen.                          *)
LEMMA OthersWork ==
  ASSUME IInv, Latest', [Next]_vars,
         ~\E p \in Procs, i \in Identities : open(p, i)
  PROVE  Promise!Work \/ Promise!Rest
<1>1. row'.token = row.token /\ row'.identity = row.identity
  BY OnlyOpenMoves
<1>2. Turns' = {} \/ (row'.token > 0 /\ Turns' = {row'.token})
  BY DEF Latest
<1> QED BY <1>1, <1>2 DEF Promise!Work, Promise!Rest, Turns

(* The row never goes back to nobody's.                                    *)
LEMMA NextUnclaimed ==
  ASSUME IInv, Unclaimed, [Next]_vars
  PROVE  Unclaimed'
<1>1. CASE \E p \in Procs, i \in Identities : open(p, i)
  BY <1>1 DEF open, Unclaimed
<1>2. CASE ~\E p \in Procs, i \in Identities : open(p, i)
  <2>1. row'.token = row.token /\ row'.identity = row.identity
    BY <1>2, OnlyOpenMoves
  <2>2. row'.state = "none" => row'.token = 0
    BY NextIInv DEF IInv, RowInv
  <2> QED BY <2>1, <2>2 DEF IInv, RowInv, Unclaimed
<1> QED BY <1>1, <1>2

(* The durable lease and the objects that hold its tokens implement turns  *)
(* taken one after the other by one identity, through expiry, crashes,     *)
(* abandoned loads, failing stores and changing authority.                 *)
THEOREM Refines == Spec => KeepsPromise
<1>1. Init => Unclaimed
  BY DEF Init, Unclaimed
<1>2. Init => Promise!Init
  BY DEF Init, Fresh, Working, Promise!Init
<1>3. IInv /\ Unclaimed /\ [Next]_vars => Unclaimed'
  BY NextUnclaimed
<1>4. IInv => Latest
  BY TurnsAreLatest
<1>5. IInv /\ Latest' /\ Unclaimed /\ [Next]_vars => [Promise!Next]_(Promise!vars)
  <2> SUFFICES ASSUME IInv, Latest', Unclaimed, [Next]_vars PROVE Promise!Next
    OBVIOUS
  <2>1. CASE \E p \in Procs, i \in Identities : open(p, i)
    BY <2>1, OpenTakes DEF Promise!Next
  <2>2. CASE ~\E p \in Procs, i \in Identities : open(p, i)
    BY <2>2, OthersWork DEF Promise!Next
  <2> QED BY <2>1, <2>2
<1> QED BY <1>1, <1>2, <1>3, <1>4, <1>5, Inductive, PTL DEF Spec, KeepsPromise, Promise!Spec

=============================================================================
