---------------------------- MODULE BrokerProofs ----------------------------
(***************************************************************************)
(* The broker ledger for any number of daemons, actions, grants, quotas,   *)
(* revisions and epochs (Broker.tla): what it stores stays readable, two   *)
(* writes in doubt never share a target, quotas hold, no write leaves a    *)
(* daemon without authority, and it keeps EffectPromise.                   *)
(***************************************************************************)
EXTENDS BrokerPromise, FiniteSetTheorems, TLAPS

(* Fences are never reused: two daemons never hold the same one, and a     *)
(* daemon that is down has nothing pending.                                *)
Fenced ==
  /\ \A p \in Procs : core[p].phase # "down" => core[p].fence <= meta.gen
  /\ \A p, q \in Procs :
       core[p].phase # "down" /\ core[q].phase # "down" /\ core[p].fence = core[q].fence => p = q
  /\ \A p \in Procs, a \in Actions : core[p].phase = "down" => job[p][a].phase = "idle"

(* A write is on the wire at most once: the one operation that may put it  *)
(* there has its dispatch recorded and has not sent it yet.                *)
Tracked ==
  /\ \A a \in Actions : /\ sends[a] <= 1 /\ (sends[a] = 1 => row[a].sent)
                        /\ row[a].status = "succeeded" => sends[a] = 1
  /\ \A p \in Procs, a \in Actions :
       /\ job[p][a].phase = "calling" => row[a].sent /\ sends[a] = 0
       /\ job[p][a].phase = "sent" => sends[a] = 1
  /\ \A p, q \in Procs, a \in Actions :
       job[p][a].phase = "calling" /\ job[q][a].phase = "calling" => p = q

(* An operation about to call GitHub, not aborted, of the daemon that has  *)
(* the controller: its row, its grant and the switch still allow it.       *)
Authorized ==
  \A p \in Procs, a \in Actions :
    job[p][a].phase = "calling" /\ ~job[p][a].aborted /\ Holds(p) =>
      row[a].status = "dispatched" /\ ~meta.stopped /\ Granted(ask[a].grant, row[a].rev)

(* DoubtExclusive with the prepared rows: only they make it inductive.     *)
Open(a) == Active(a) \/ row[a].status = "unknown"
Taken(a) == Open(a) \/ row[a].status = "succeeded"
Apart ==
  \A a, b \in Actions :
    a # b /\ ask[a].op = ask[b].op =>
      /\ ask[a].op = "commit" /\ ask[a].head = ask[b].head => ~(InDoubt(a) /\ InDoubt(b))
      /\ ask[a].op = "pull-request" => ~(Open(a) /\ Open(b))
      /\ ask[a].op = "pull-request" /\ ask[a].head = ask[b].head => ~(Taken(a) /\ Taken(b))

Counted == \A g \in Grants : Cardinality(Used(g)) <= quota[g]

IInv == TypeOK /\ LedgerReadable /\ Fenced /\ Tracked /\ Authorized /\ Apart /\ Counted

-----------------------------------------------------------------------------
(* The rows of a step other than prepare and dispatch stay or end.         *)
Ends(a, from, to, after) ==
  /\ row[a].status = from /\ row'[a] = [row[a] EXCEPT !.status = to]
  /\ lease'[a] \in after
Moves(a) ==
  \/ row'[a] = row[a] /\ lease'[a] = lease[a]
  \/ Ends(a, "prepared", "failed", {lease[a]})
  \/ Ends(a, "dispatched", "unknown", {"failed", "revoked"})
  \/ Ends(a, "dispatched", "succeeded", {"completed"})

(* #terminalize of any set of rows moves them to an end.                   *)
LEMMA TerminalizeMoves ==
  ASSUME TypeOK, LedgerReadable, NEW S, Terminalize(S), NEW a \in Actions
  PROVE  Moves(a)
<1>1. row[a] \in Row
  BY DEF TypeOK
<1>2. CASE a \in S /\ row[a].status = "prepared"
  BY <1>1, <1>2 DEF Terminalize, Moves, Ends, Active, LedgerReadable
<1>3. CASE a \in S /\ row[a].status = "dispatched"
  BY <1>1, <1>3 DEF Terminalize, Moves, Ends, Active, LedgerReadable
<1>4. CASE ~(a \in S /\ Active(a))
  BY <1>1, <1>4 DEF Terminalize, Moves, Active, LedgerReadable
<1> QED BY <1>2, <1>3, <1>4 DEF Active

(* Every step is a prepare, a dispatch, or moves every row as above.       *)
LEMMA RowsMove ==
  ASSUME TypeOK, LedgerReadable, [Next]_vars
  PROVE  \/ \E p \in Procs, a \in Actions : prepare(p, a)
         \/ \E p \in Procs, a \in Actions : dispatch(p, a)
         \/ \A a \in Actions : Moves(a)
<1>1. ASSUME NEW p \in Procs, CoreStep(p)
      PROVE  \A a \in Actions : Moves(a)
  <2>1. CASE start(p) \/ startFails(p)
    BY <2>1, TerminalizeMoves DEF start, startFails, Claim
  <2>2. CASE drain(p) \/ close(p)
    BY <2>2, TerminalizeMoves DEF drain, close, AbortAll, Moves
  <2>3. CASE \E stopped \in BOOLEAN : setStopped(p, stopped)
    BY <2>3, TerminalizeMoves DEF setStopped
  <2>4. CASE \E g \in Grants : revoke(p, g)
    BY <2>4, TerminalizeMoves DEF revoke
  <2>5. CASE beginDrain(p) \/ releaseController(p) \/ crash(p) \/ renewFails(p)
    BY <2>5 DEF beginDrain, releaseController, crash, renewFails, Stop, ledger, Moves
  <2> QED BY <1>1, <2>1, <2>2, <2>3, <2>4, <2>5 DEF CoreStep
<1>2. ASSUME NEW p \in Procs, NEW a \in Actions, ActionStep(p, a),
             ~prepare(p, a), ~dispatch(p, a)
      PROVE  \A b \in Actions : Moves(b)
  <2> SUFFICES ASSUME NEW b \in Actions PROVE Moves(b)
    OBVIOUS
  <2>1. row[a] \in Row /\ row \in [Actions -> Row] /\ lease[b] = lease[b]
        /\ DOMAIN lease = Actions
    BY DEF TypeOK
  <2>2. CASE failPrepared(p, a)
    BY <2>1, <2>2 DEF failPrepared, Moves, Ends
  <2>3. CASE settle(p, a)
    <3>1. PICK ok \in BOOLEAN :
            IF Holds(p) /\ row[a].status = "dispatched"
            THEN /\ row' = [row EXCEPT ![a].status = Settled(ok)]
                 /\ lease' = [lease EXCEPT ![a] = IF ok THEN "completed" ELSE "failed"]
            ELSE UNCHANGED <<row, lease>>
      BY <2>3 DEF settle
    <3> QED BY <2>1, <3>1 DEF Moves, Ends, Settled
  <2>4. CASE send(p, a) \/ abort(p, a)
    BY <2>4 DEF send, abort, ledger, Moves
  <2> QED BY <1>2, <2>2, <2>3, <2>4 DEF ActionStep
<1>3. CASE (\E a \in Actions : land(a) \/ lose(a)) \/ expire \/ UNCHANGED vars
  BY <1>3 DEF land, lose, expire, vars, ledger, Moves
<1> QED BY <1>1, <1>2, <1>3 DEF Next

-----------------------------------------------------------------------------
(* The initial state.                                                      *)
LEMMA InitIInv == Init => IInv
<1> SUFFICES ASSUME Init PROVE IInv
  OBVIOUS
<1>1. TypeOK
  BY BrokerAssumption DEF Init, TypeOK, Meta, Head, Row, Absent, Core, Down, Job, Idle
<1>2. LedgerReadable /\ Fenced /\ Tracked /\ Authorized /\ Apart
  BY DEF Init, LedgerReadable, Fenced, Tracked, Authorized, Apart, Absent, Down, Idle,
     InDoubt, Open, Taken, Active, Holds
<1>3. Counted
  <2> SUFFICES ASSUME NEW g \in Grants PROVE Cardinality(Used(g)) <= quota[g]
    BY DEF Counted
  <2>1. Used(g) = {} /\ quota[g] \in Nat
    BY <1>1 DEF Init, Used, OfGrant, Absent, TypeOK
  <2> QED BY <2>1, FS_EmptySet
<1> QED BY <1>1, <1>2, <1>3 DEF IInv

-----------------------------------------------------------------------------
(* Types.                                                                  *)

(* #terminalize of any set of rows keeps the tables well formed.           *)
LEMMA TerminalizeTyped ==
  ASSUME TypeOK, NEW S, Terminalize(S)
  PROVE  /\ row' \in [Actions -> Row]
         /\ lease' \in [Actions -> {"none", "active", "completed", "failed", "revoked"}]
BY DEF TypeOK, Terminalize, Row, Active

(* An aborted operation is the same operation with its flag set.           *)
LEMMA AbortedJob ==
  ASSUME NEW j \in Job
  PROVE  LET k == [j EXCEPT !.aborted = TRUE] IN k \in Job /\ k.phase = j.phase /\ k.aborted
BY DEF Job

(* Aborting any of a daemon's operations keeps them well formed and only   *)
(* sets their aborted flag.                                                *)
LEMMA AbortJobsTyped ==
  ASSUME TypeOK, NEW p \in Procs, NEW S, AbortJobs(p, S)
  PROVE  /\ job' \in [Procs -> [Actions -> Job]]
         /\ \A q \in Procs, a \in Actions :
              /\ job'[q][a].phase = job[q][a].phase
              /\ job[q][a].aborted => job'[q][a].aborted
              /\ q = p /\ a \in S /\ job[q][a].phase # "idle" => job'[q][a].aborted
<1>1. \A q \in Procs, a \in Actions : job[q][a] \in Job
  BY DEF TypeOK
<1>2. \A q \in Procs : job'[q] =
        IF q = p THEN [a \in Actions |-> IF a \in S /\ job[p][a].phase # "idle"
                                         THEN [job[p][a] EXCEPT !.aborted = TRUE] ELSE job[p][a]]
        ELSE job[q]
  BY DEF AbortJobs, TypeOK
<1>3. ASSUME NEW q \in Procs, NEW a \in Actions
      PROVE  \/ /\ q = p /\ a \in S /\ job[q][a].phase # "idle"
                /\ job'[q][a] = [job[q][a] EXCEPT !.aborted = TRUE]
             \/ /\ ~(q = p /\ a \in S /\ job[q][a].phase # "idle")
                /\ job'[q][a] = job[q][a]
  <2>1. CASE q = p
    BY <1>2, <2>1, Zenon
  <2>2. CASE q # p
    BY <1>2, <2>2, Zenon
  <2> QED BY <2>1, <2>2
<1>4. \A q \in Procs, a \in Actions : job'[q][a] \in Job
  <2> SUFFICES ASSUME NEW q \in Procs, NEW a \in Actions PROVE job'[q][a] \in Job
    OBVIOUS
  <2>1. job[q][a] \in Job /\ [job[q][a] EXCEPT !.aborted = TRUE] \in Job
    BY <1>1, AbortedJob
  <2> QED BY <1>3, <2>1, Zenon
<1>5. job' \in [Procs -> [Actions -> Job]]
  <2>1. \A q \in Procs : job'[q] \in [Actions -> Job]
    BY <1>2, <1>4 DEF TypeOK
  <2> QED BY <2>1 DEF AbortJobs, TypeOK
<1>6. ASSUME NEW q \in Procs, NEW a \in Actions
      PROVE  /\ job'[q][a].phase = job[q][a].phase
             /\ job[q][a].aborted => job'[q][a].aborted
             /\ q = p /\ a \in S /\ job[q][a].phase # "idle" => job'[q][a].aborted
  <2> DEFINE k == [job[q][a] EXCEPT !.aborted = TRUE]
  <2>1. k.phase = job[q][a].phase /\ k.aborted
    BY <1>1, AbortedJob
  <2>2. \/ job'[q][a] = k
        \/ job'[q][a] = job[q][a] /\ ~(q = p /\ a \in S /\ job[q][a].phase # "idle")
    BY <1>3, Zenon
  <2> QED BY <2>1, <2>2, Zenon
<1> QED BY <1>5, <1>6

(* Records built by the actions are well formed.                           *)
LEMMA RecordsTyped ==
  /\ Idle \in Job /\ Down \in Core
  /\ \A j \in Job, x \in {"idle", "reading", "calling", "sent"} : [j EXCEPT !.phase = x] \in Job
  /\ \A m \in Meta, n \in Nat, e \in Nat :
       [m EXCEPT !.gen = n, !.draining = FALSE, !.policy = e] \in Meta
  /\ \A m \in Meta, n \in Nat : [m EXCEPT !.gen = n, !.draining = FALSE] \in Meta
  /\ \A m \in Meta, n \in Nat, b \in BOOLEAN : [m EXCEPT !.stopped = b, !.emergency = n] \in Meta
  /\ \A h \in Head : [h EXCEPT !.revoked = TRUE] \in Head
  /\ \A r, n \in Nat :
       [status |-> "prepared", rev |-> r, gen |-> n, sent |-> FALSE] \in Row
<1>1. Idle \in Job /\ Down \in Core
  BY DEF Idle, Job, Down, Core
<1>2. ASSUME NEW j \in Job, NEW x \in {"idle", "reading", "calling", "sent"}
      PROVE  [j EXCEPT !.phase = x] \in Job
  BY DEF Job
<1>3. ASSUME NEW m \in Meta, NEW n \in Nat, NEW e \in Nat
      PROVE  [m EXCEPT !.gen = n, !.draining = FALSE, !.policy = e] \in Meta
  BY DEF Meta
<1>4. ASSUME NEW m \in Meta, NEW n \in Nat
      PROVE  [m EXCEPT !.gen = n, !.draining = FALSE] \in Meta
  BY DEF Meta
<1>5. ASSUME NEW m \in Meta, NEW n \in Nat, NEW b \in BOOLEAN
      PROVE  [m EXCEPT !.stopped = b, !.emergency = n] \in Meta
  BY DEF Meta
<1>6. ASSUME NEW h \in Head PROVE [h EXCEPT !.revoked = TRUE] \in Head
  BY DEF Head
<1>7. ASSUME NEW r \in Nat, NEW n \in Nat
      PROVE  [status |-> "prepared", rev |-> r, gen |-> n, sent |-> FALSE] \in Row
  BY DEF Row
<1> QED BY <1>1, <1>2, <1>3, <1>4, <1>5, <1>6, <1>7

(* A step keeps every table, daemon and operation well formed.             *)
LEMMA NextTyped == TypeOK /\ [Next]_vars => TypeOK'
<1> SUFFICES ASSUME TypeOK, [Next]_vars PROVE TypeOK'
  OBVIOUS
<1> USE BrokerAssumption
<1>1. ASSUME NEW p \in Procs, CoreStep(p) PROVE TypeOK'
  <2>1. CASE start(p)
    <3>1. PICK policy \in meta.policy..MaxEpoch, pick \in [Grants -> {"same", "next", "none"}] :
            /\ grant' = [g \in Grants |-> Synced(g, pick[g], policy)]
            /\ meta' = [meta EXCEPT !.gen = @ + 1, !.draining = FALSE, !.policy = policy]
      BY <2>1 DEF start
    <3>2. policy \in Nat /\ meta \in Meta /\ meta.gen + 1 \in Nat /\ meta.emergency \in Nat
      BY DEF TypeOK, Meta
    <3>3. ASSUME NEW g \in Grants PROVE Synced(g, pick[g], policy) \in Head
      <4>1. grant[g] \in Head /\ grant[g].rev + 1 \in Nat
        BY DEF TypeOK, Head
      <4>2. CASE pick[g] = "same"
        BY <4>1, <4>2 DEF Synced
      <4>3. CASE pick[g] = "next"
        BY <3>2, <4>1, <4>3 DEF Synced, Head
      <4>4. CASE pick[g] = "none"
        BY <4>1, <4>4, RecordsTyped DEF Synced
      <4> QED BY <4>2, <4>3, <4>4
    <3>4. meta' \in Meta
      BY <3>1, <3>2, RecordsTyped
    <3>5. core' \in [Procs -> Core]
      <4>1. [fence |-> meta.gen + 1, phase |-> "serving"] \in Core
        BY <3>2 DEF Core
      <4> QED BY <2>1, <4>1 DEF start, TypeOK
    <3> QED BY <2>1, <3>1, <3>3, <3>4, <3>5, TerminalizeTyped
        DEF start, Claim, TypeOK, world
  <2>2. CASE startFails(p)
    <3>1. meta' \in Meta
      <4>1. meta \in Meta /\ meta.gen + 1 \in Nat
        BY DEF TypeOK, Meta
      <4> QED BY <2>2, <4>1, RecordsTyped DEF startFails
    <3> QED BY <2>2, <3>1, TerminalizeTyped DEF startFails, Claim, TypeOK, world
  <2>3. CASE beginDrain(p)
    BY <2>3 DEF beginDrain, TypeOK, Meta, world
  <2>4. CASE drain(p) \/ close(p)
    <3>1. row' \in [Actions -> Row]
          /\ lease' \in [Actions -> {"none", "active", "completed", "failed", "revoked"}]
      BY <2>4, TerminalizeTyped DEF drain, close, AbortAll, TypeOK
    <3>2. job' \in [Procs -> [Actions -> Job]]
      BY <2>4, AbortJobsTyped DEF drain, close, AbortAll
    <3>3. core' \in [Procs -> Core]
      BY <2>4 DEF drain, close, TypeOK, Core
    <3> QED BY <2>4, <3>1, <3>2, <3>3 DEF drain, close, AbortAll, TypeOK, world
  <2>5. CASE releaseController(p) \/ crash(p)
    <3>1. job' \in [Procs -> [Actions -> Job]] /\ core' \in [Procs -> Core]
      <4>1. job' = [job EXCEPT ![p] = [a \in Actions |-> Idle]] /\ core' = [core EXCEPT ![p] = Down]
        BY <2>5 DEF releaseController, crash, Stop
      <4>2. [a \in Actions |-> Idle] \in [Actions -> Job]
        BY RecordsTyped
      <4> QED BY <4>1, <4>2, RecordsTyped DEF TypeOK
    <3>2. held' \in BOOLEAN
      BY <2>5 DEF releaseController, crash, TypeOK
    <3> QED BY <2>5, <3>1, <3>2 DEF releaseController, crash, Stop, TypeOK, world
  <2>6. CASE renewFails(p)
    BY <2>6, AbortJobsTyped DEF renewFails, TypeOK, Core, ledger, world
  <2>7. ASSUME NEW stopped \in BOOLEAN, setStopped(p, stopped) PROVE TypeOK'
    <3>1. meta' \in Meta
      <4>1. meta \in Meta /\ meta.emergency + 1 \in Nat
        BY DEF TypeOK, Meta
      <4> QED BY <2>7, <4>1, RecordsTyped DEF setStopped
    <3> QED BY <2>7, <3>1, TerminalizeTyped, AbortJobsTyped DEF setStopped, TypeOK, world
  <2>8. ASSUME NEW g \in Grants, revoke(p, g) PROVE TypeOK'
    <3>1. grant' \in [Grants -> Head]
      BY <2>8, RecordsTyped DEF revoke, TypeOK
    <3> QED BY <2>8, <3>1, TerminalizeTyped, AbortJobsTyped DEF revoke, TypeOK, world
  <2> QED BY <1>1, <2>1, <2>2, <2>3, <2>4, <2>5, <2>6, <2>7, <2>8 DEF CoreStep
<1>2. ASSUME NEW p \in Procs, NEW a \in Actions, ActionStep(p, a) PROVE TypeOK'
  <2>1. job[p][a] \in Job /\ row[a] \in Row
    BY DEF TypeOK
  <2>2. CASE prepare(p, a)
    <3>1. job' \in [Procs -> [Actions -> Job]]
      BY <2>1, <2>2 DEF prepare, TypeOK, Job
    <3>2. grant[ask[a].grant].rev \in Nat /\ meta.gen \in Nat
      BY DEF TypeOK, Ask, Head, Meta
    <3>3. row' \in [Actions -> Row]
      BY <2>2, <3>2, RecordsTyped DEF prepare, TypeOK
    <3> QED BY <2>2, <3>1, <3>3 DEF prepare, TypeOK, world
  <2>3. CASE failPrepared(p, a)
    <3>1. row' \in [Actions -> Row] /\ job' \in [Procs -> [Actions -> Job]]
      BY <2>1, <2>3 DEF failPrepared, TypeOK, Row, Job, Idle
    <3> QED BY <2>3, <3>1 DEF failPrepared, TypeOK, world
  <2>4. CASE dispatch(p, a)
    <3>1. row' \in [Actions -> Row] /\ job' \in [Procs -> [Actions -> Job]]
      BY <2>1, <2>4 DEF dispatch, TypeOK, Row, Job
    <3> QED BY <2>4, <3>1 DEF dispatch, TypeOK, world
  <2>5. CASE send(p, a)
    <3>1. job' \in [Procs -> [Actions -> Job]]
      BY <2>1, <2>5 DEF send, TypeOK, Job
    <3> QED BY <2>5, <3>1 DEF send, TypeOK, ledger
  <2>6. CASE settle(p, a)
    <3>1. job' \in [Procs -> [Actions -> Job]]
      BY <2>6 DEF settle, TypeOK, Job, Idle
    <3>2. /\ row' \in [Actions -> Row]
          /\ lease' \in [Actions -> {"none", "active", "completed", "failed", "revoked"}]
      <4>1. PICK ok \in BOOLEAN :
              IF Holds(p) /\ row[a].status = "dispatched"
              THEN /\ row' = [row EXCEPT ![a].status = Settled(ok)]
                   /\ lease' = [lease EXCEPT ![a] = IF ok THEN "completed" ELSE "failed"]
              ELSE UNCHANGED <<row, lease>>
        BY <2>6 DEF settle
      <4>2. [row[a] EXCEPT !.status = Settled(ok)] \in Row
        BY <2>1 DEF Settled, Row
      <4> QED BY <4>1, <4>2 DEF TypeOK
    <3> QED BY <2>6, <3>1, <3>2 DEF settle, TypeOK, world
  <2>7. CASE abort(p, a)
    BY <2>7, AbortJobsTyped DEF abort, TypeOK, ledger, world
  <2> QED BY <1>2, <2>2, <2>3, <2>4, <2>5, <2>6, <2>7 DEF ActionStep
<1>3. CASE (\E a \in Actions : land(a) \/ lose(a)) \/ expire \/ UNCHANGED vars
  BY <1>3 DEF land, lose, expire, vars, ledger, world, TypeOK
<1> QED BY <1>1, <1>2, <1>3 DEF Next

-----------------------------------------------------------------------------
(* The ledger.                                                             *)

(* What validateStored demands of one row and its lease.                   *)
Readable(r, l) ==
  /\ l = "active" <=> r.status = "dispatched"
  /\ l = "completed" <=> r.status = "succeeded"
  /\ r.status \in {"dispatched", "succeeded", "unknown"} <=> r.sent

(* A row that stays or ends remains readable.                              *)
LEMMA MovesReadable ==
  ASSUME TypeOK, LedgerReadable, NEW a \in Actions, Moves(a)
  PROVE  Readable(row'[a], lease'[a])
<1>1. row[a] \in Row /\ Readable(row[a], lease[a])
  BY DEF TypeOK, LedgerReadable, Readable
<1>2. ASSUME NEW from, NEW to, NEW after, Ends(a, from, to, after)
      PROVE  row'[a].status = to /\ (row'[a].sent <=> row[a].sent) /\ row[a].status = from
             /\ lease'[a] \in after
  BY <1>1, <1>2 DEF Ends, Row
<1>3. CASE row'[a] = row[a] /\ lease'[a] = lease[a]
  BY <1>1, <1>3
<1>4. CASE Ends(a, "prepared", "failed", {lease[a]})
  <2>1. /\ row'[a].status = "failed" /\ (row'[a].sent <=> row[a].sent)
        /\ row[a].status = "prepared" /\ lease'[a] = lease[a]
    BY <1>2, <1>4
  <2> QED BY <1>1, <2>1 DEF Readable
<1>5. CASE Ends(a, "dispatched", "unknown", {"failed", "revoked"})
  <2>1. /\ row'[a].status = "unknown" /\ (row'[a].sent <=> row[a].sent)
        /\ row[a].status = "dispatched" /\ lease'[a] \in {"failed", "revoked"}
    BY <1>2, <1>5
  <2> QED BY <1>1, <2>1 DEF Readable
<1>6. CASE Ends(a, "dispatched", "succeeded", {"completed"})
  <2>1. /\ row'[a].status = "succeeded" /\ (row'[a].sent <=> row[a].sent)
        /\ row[a].status = "dispatched" /\ lease'[a] = "completed"
    BY <1>2, <1>6
  <2> QED BY <1>1, <2>1 DEF Readable
<1> QED BY <1>3, <1>4, <1>5, <1>6 DEF Moves

(* A step keeps the ledger readable.                                       *)
LEMMA NextReadable ==
  ASSUME TypeOK, LedgerReadable, [Next]_vars
  PROVE  LedgerReadable'
<1> SUFFICES ASSUME NEW b \in Actions PROVE Readable(row'[b], lease'[b])
  BY DEF LedgerReadable, Readable
<1>1. row[b] \in Row /\ Readable(row[b], lease[b]) /\ row \in [Actions -> Row]
      /\ DOMAIN lease = Actions
  BY DEF TypeOK, LedgerReadable, Readable
<1>2. ASSUME NEW p \in Procs, NEW a \in Actions, prepare(p, a)
      PROVE  Readable(row'[b], lease'[b])
  <2>1. CASE a = b
    <3>1. lease'[b] = lease[b] /\ row[b].status = "absent"
          /\ row'[b].status = "prepared" /\ ~row'[b].sent
      BY <1>1, <1>2, <2>1 DEF prepare
    <3> QED BY <1>1, <3>1 DEF Readable
  <2>2. CASE a # b
    <3>1. row'[b] = row[b] /\ lease'[b] = lease[b]
      BY <1>1, <1>2, <2>2 DEF prepare
    <3> QED BY <1>1, <3>1
  <2> QED BY <2>1, <2>2
<1>3. ASSUME NEW p \in Procs, NEW a \in Actions, dispatch(p, a)
      PROVE  Readable(row'[b], lease'[b])
  <2>1. CASE a = b
    <3>1. lease'[b] = "active" /\ row'[b].status = "dispatched" /\ row'[b].sent
      BY <1>1, <1>3, <2>1 DEF dispatch, Row
    <3> QED BY <3>1 DEF Readable
  <2>2. CASE a # b
    <3>1. row'[b] = row[b] /\ lease'[b] = lease[b]
      BY <1>1, <1>3, <2>2 DEF dispatch
    <3> QED BY <1>1, <3>1
  <2> QED BY <2>1, <2>2
<1> QED BY <1>2, <1>3, RowsMove, MovesReadable

-----------------------------------------------------------------------------
(* Targets and quotas.                                                     *)

(* No step changes what is asked for or allowed.                           *)
LEMMA AsksKept == ASSUME [Next]_vars PROVE ask' = ask /\ quota' = quota
<1>1. ASSUME NEW p \in Procs, CoreStep(p) PROVE ask' = ask /\ quota' = quota
  <2>1. CASE \/ start(p) \/ startFails(p) \/ beginDrain(p) \/ drain(p) \/ close(p)
    BY <2>1 DEF start, startFails, Claim, beginDrain, drain, close, AbortAll
  <2>2. CASE releaseController(p) \/ crash(p) \/ renewFails(p)
    BY <2>2 DEF releaseController, crash, renewFails, Stop
  <2>3. CASE (\E stopped \in BOOLEAN : setStopped(p, stopped)) \/ \E g \in Grants : revoke(p, g)
    BY <2>3 DEF setStopped, revoke
  <2> QED BY <1>1, <2>1, <2>2, <2>3 DEF CoreStep
<1>2. ASSUME NEW p \in Procs, NEW a \in Actions, ActionStep(p, a)
      PROVE  ask' = ask /\ quota' = quota
  BY <1>2 DEF ActionStep, prepare, failPrepared, dispatch, send, settle, abort
<1>3. CASE (\E a \in Actions : land(a) \/ lose(a)) \/ expire \/ UNCHANGED vars
  BY <1>3 DEF land, lose, expire, vars
<1> QED BY <1>1, <1>2, <1>3 DEF Next

(* A row that stays or ends takes no target it had not taken.              *)
LEMMA MovesTakeNothing ==
  ASSUME TypeOK, NEW a \in Actions, Moves(a)
  PROVE  /\ InDoubt(a)' => InDoubt(a)
         /\ Open(a)' => Open(a)
         /\ Taken(a)' => Taken(a)
         /\ row'[a].status = "prepared" \/ row'[a].sent
              => row[a].status = "prepared" \/ row[a].sent
BY DEF TypeOK, Moves, Ends, InDoubt, Open, Taken, Active, Row

(* A step keeps the writes in doubt apart.                                 *)
LEMMA NextApart ==
  ASSUME TypeOK, LedgerReadable, Apart, [Next]_vars
  PROVE  Apart'
<1>1. ask' = ask
  BY AsksKept
<1>2. ASSUME NEW c \in Actions, \A b \in Actions \ {c} : row'[b] = row[b]
      PROVE  \A b \in Actions \ {c} :
               /\ InDoubt(b)' <=> InDoubt(b)
               /\ Open(b)' <=> Open(b)
               /\ Taken(b)' <=> Taken(b)
  BY <1>2 DEF InDoubt, Open, Taken, Active
<1>3. ASSUME NEW p \in Procs, NEW c \in Actions, prepare(p, c)
      PROVE  Apart'
  <2>1. /\ \A b \in Actions \ {c} : row'[b] = row[b]
        /\ row'[c].status = "prepared" /\ ~PullOccupied(c)
    BY <1>3 DEF prepare, TypeOK
  <2>2. ~InDoubt(c)'
    BY <2>1 DEF InDoubt
  <2>3. \A b \in Actions \ {c} :
          ask[b].op = "pull-request" /\ ask[c].op = "pull-request" =>
            ~Open(b) /\ (ask[b].head = ask[c].head => ~Taken(b))
    BY <2>1 DEF PullOccupied, Open, Taken
  <2> QED BY <1>1, <1>2, <2>1, <2>2, <2>3 DEF Apart
<1>4. ASSUME NEW p \in Procs, NEW c \in Actions, dispatch(p, c)
      PROVE  Apart'
  <2>1. /\ \A b \in Actions \ {c} : row'[b] = row[b]
        /\ row[c].status = "prepared" /\ ~CommitOccupied(c)
    BY <1>4 DEF dispatch, Dispatchable, TypeOK
  <2>2. \A b \in Actions \ {c} :
          ask[b].op = "commit" /\ ask[c].op = "commit" /\ ask[b].head = ask[c].head => ~InDoubt(b)
    BY <2>1 DEF CommitOccupied
  <2>3. Open(c) /\ Taken(c)
    BY <2>1 DEF Open, Taken, Active
  <2> QED BY <1>1, <1>2, <2>1, <2>2, <2>3 DEF Apart
<1>5. ASSUME \A b \in Actions : Moves(b)
      PROVE  Apart'
  BY <1>1, <1>5, MovesTakeNothing DEF Apart
<1> QED BY <1>3, <1>4, <1>5, RowsMove

(* What counts against a grant is a finite set of actions.                 *)
LEMMA UsedFinite ==
  ASSUME NEW g
  PROVE  IsFiniteSet(Used(g)) /\ Cardinality(Used(g)) \in Nat
<1>1. Used(g) \subseteq Actions
  BY DEF Used, OfGrant
<1> QED BY <1>1, BrokerAssumption, FS_Subset, FS_CardinalityType

(* A step keeps every grant within its quota.                              *)
LEMMA NextCounted ==
  ASSUME TypeOK, LedgerReadable, Counted, [Next]_vars
  PROVE  Counted'
<1>1. ask' = ask /\ quota' = quota
  BY AsksKept
<1> SUFFICES ASSUME NEW g \in Grants PROVE Cardinality(Used(g)') <= quota[g]
  BY <1>1 DEF Counted
<1>2. /\ Cardinality(Used(g)) <= quota[g] /\ quota[g] \in Nat
      /\ IsFiniteSet(Used(g)) /\ Cardinality(Used(g)) \in Nat
  BY UsedFinite DEF Counted, TypeOK
<1>3. ASSUME Used(g)' \subseteq Used(g)
      PROVE  Cardinality(Used(g)') <= quota[g]
  <2>1. IsFiniteSet(Used(g)') /\ Cardinality(Used(g)') <= Cardinality(Used(g))
    BY <1>2, <1>3, FS_Subset
  <2>2. Cardinality(Used(g)') \in Nat
    BY <2>1, FS_CardinalityType
  <2> QED BY <1>2, <2>1, <2>2
<1>4. ASSUME NEW p \in Procs, NEW c \in Actions, prepare(p, c)
      PROVE  Cardinality(Used(g)') <= quota[g]
  <2>1. /\ \A b \in Actions \ {c} : row'[b] = row[b]
        /\ row[c].status = "absent"
        /\ Cardinality(Used(ask[c].grant)) + 1 <= quota[ask[c].grant]
    BY <1>4 DEF prepare, TypeOK
  <2>2. CASE ask[c].grant = g
    <3>1. Used(g)' \subseteq Used(g) \cup {c}
      BY <1>1, <2>1 DEF Used, OfGrant
    <3>2. /\ IsFiniteSet(Used(g) \cup {c})
          /\ Cardinality(Used(g) \cup {c}) <= Cardinality(Used(g)) + 1
      BY <1>2, FS_AddElement
    <3>3. IsFiniteSet(Used(g)') /\ Cardinality(Used(g)') <= Cardinality(Used(g) \cup {c})
      BY <3>1, <3>2, FS_Subset
    <3>4. Cardinality(Used(g)') \in Nat /\ Cardinality(Used(g) \cup {c}) \in Nat
      BY <3>2, <3>3, FS_CardinalityType
    <3> QED BY <1>2, <2>1, <2>2, <3>2, <3>3, <3>4
  <2>3. CASE ask[c].grant # g
    <3>1. Used(g)' \subseteq Used(g)
      BY <1>1, <2>1, <2>3 DEF Used, OfGrant
    <3> QED BY <1>3, <3>1
  <2> QED BY <2>2, <2>3
<1>5. ASSUME NEW p \in Procs, NEW c \in Actions, dispatch(p, c)
      PROVE  Used(g)' \subseteq Used(g)
  <2>1. (\A b \in Actions \ {c} : row'[b] = row[b]) /\ row[c].status = "prepared"
    BY <1>5 DEF dispatch, Dispatchable, TypeOK
  <2> QED BY <1>1, <2>1 DEF Used, OfGrant
<1>6. ASSUME \A b \in Actions : Moves(b)
      PROVE  Used(g)' \subseteq Used(g)
  BY <1>1, <1>6, MovesTakeNothing DEF Used, OfGrant
<1> QED BY <1>3, <1>4, <1>5, <1>6, RowsMove

-----------------------------------------------------------------------------
(* Daemons and the wire.                                                   *)

(* A step of one operation touches no other one.                           *)
Others(p, a) == \A q \in Procs, b \in Actions : q # p \/ b # a => job'[q][b] = job[q][b]
LEMMA PhaseJob ==
  ASSUME TypeOK, NEW p \in Procs, NEW a \in Actions, NEW x,
         job' = [job EXCEPT ![p][a].phase = x]
  PROVE  job'[p][a].phase = x /\ Others(p, a)
BY DEF TypeOK, Job, Others

(* An operation that ends is idle.                                         *)
LEMMA IdleJob ==
  ASSUME TypeOK, NEW p \in Procs, NEW a \in Actions, job' = [job EXCEPT ![p][a] = Idle]
  PROVE  job'[p][a].phase = "idle" /\ Others(p, a)
BY DEF TypeOK, Idle, Others

(* How a step changes daemons: the fences of those that are up stay.       *)
LEMMA NextFenced ==
  ASSUME TypeOK, Fenced, [Next]_vars
  PROVE  Fenced'
<1>1. meta.gen \in Nat /\ \A q \in Procs : core[q] \in Core
  BY DEF TypeOK, Meta
<1>2. ASSUME NEW p \in Procs, CoreStep(p) PROVE Fenced'
  <2>1. CASE start(p)
    <3>1. meta'.gen = meta.gen + 1 /\ job' = job
      BY <2>1 DEF start, Claim, TypeOK, Meta
    <3>2. /\ core'[p].fence = meta.gen + 1 /\ core'[p].phase = "serving"
          /\ \A q \in Procs \ {p} : core'[q] = core[q]
      BY <2>1 DEF start, TypeOK
    <3>3. \A q \in Procs : core[q].fence \in Nat
      BY <1>1 DEF Core
    <3> QED BY <1>1, <3>1, <3>2, <3>3 DEF Fenced
  <2>2. CASE startFails(p)
    <3>1. meta'.gen = meta.gen + 1 /\ job' = job /\ core' = core
      BY <2>2 DEF startFails, Claim, TypeOK, Meta
    <3>2. \A q \in Procs : core[q].fence \in Nat
      BY <1>1 DEF Core
    <3> QED BY <1>1, <3>1, <3>2 DEF Fenced
  <2>3. CASE beginDrain(p)
    <3>1. meta'.gen = meta.gen /\ job' = job /\ core' = core
      BY <2>3 DEF beginDrain, TypeOK, Meta
    <3> QED BY <3>1 DEF Fenced
  <2>4. ASSUME meta'.gen = meta.gen, NEW S, AbortJobs(p, S),
               \A q \in Procs : /\ core'[q].fence = core[q].fence
                                /\ core'[q].phase = "down" <=> core[q].phase = "down"
        PROVE  Fenced'
    <3>1. \A q \in Procs, a \in Actions : job'[q][a].phase = job[q][a].phase
      BY <2>4, AbortJobsTyped
    <3> QED BY <2>4, <3>1 DEF Fenced
  <2>5. CASE drain(p) \/ close(p) \/ renewFails(p)
    <3>1. meta' = meta /\ AbortJobs(p, Actions)
      BY <2>5 DEF drain, close, renewFails, AbortAll, ledger
    <3>2. \A q \in Procs : /\ core'[q].fence = core[q].fence
                           /\ core'[q].phase = "down" <=> core[q].phase = "down"
      BY <1>1, <2>5 DEF drain, close, renewFails, TypeOK, Core
    <3> QED BY <2>4, <3>1, <3>2
  <2>6. ASSUME NEW stopped \in BOOLEAN, setStopped(p, stopped) PROVE Fenced'
    <3>1. meta'.gen = meta.gen /\ core' = core /\ AbortJobs(p, InFlight(Actions))
      BY <2>6 DEF setStopped, TypeOK, Meta
    <3> QED BY <2>4, <3>1
  <2>7. ASSUME NEW g \in Grants, revoke(p, g) PROVE Fenced'
    <3>1. meta' = meta /\ core' = core /\ AbortJobs(p, InFlight(OfGrant(g)))
      BY <2>7 DEF revoke
    <3> QED BY <2>4, <3>1
  <2>8. CASE releaseController(p) \/ crash(p)
    <3>1. /\ meta' = meta /\ core'[p].phase = "down"
          /\ \A q \in Procs \ {p} : core'[q] = core[q] /\ job'[q] = job[q]
          /\ \A a \in Actions : job'[p][a].phase = "idle"
      BY <2>8 DEF releaseController, crash, Stop, TypeOK, Down, Idle
    <3> QED BY <3>1 DEF Fenced
  <2> QED BY <1>2, <2>1, <2>2, <2>3, <2>5, <2>6, <2>7, <2>8 DEF CoreStep
<1>3. ASSUME NEW p \in Procs, NEW a \in Actions, ActionStep(p, a) PROVE Fenced'
  <2>1. meta' = meta /\ core' = core
    BY <1>3 DEF ActionStep, prepare, failPrepared, dispatch, send, settle, abort, ledger
  <2>2. \A q \in Procs, b \in Actions :
          job[q][b].phase = "idle" /\ core[q].phase = "down" => job'[q][b].phase = "idle"
    <3>1. CASE abort(p, a)
      BY <3>1, AbortJobsTyped DEF abort
    <3>2. CASE prepare(p, a)
      <4>1. core[p].phase # "down" /\ Others(p, a)
        BY <3>2, PhaseJob DEF prepare
      <4> QED BY <4>1 DEF Others
    <3>3. CASE failPrepared(p, a) \/ settle(p, a)
      <4>1. job'[p][a].phase = "idle" /\ Others(p, a)
        BY <3>3, IdleJob DEF failPrepared, settle
      <4> QED BY <4>1 DEF Others
    <3>4. CASE dispatch(p, a) \/ send(p, a)
      <4>1. job[p][a].phase # "idle" /\ Others(p, a)
        BY <3>4, PhaseJob DEF dispatch, send
      <4> QED BY <4>1 DEF Others
    <3> QED BY <1>3, <3>1, <3>2, <3>3, <3>4 DEF ActionStep
  <2> QED BY <2>1, <2>2 DEF Fenced
<1>4. CASE (\E a \in Actions : land(a) \/ lose(a)) \/ expire \/ UNCHANGED vars
  BY <1>4 DEF land, lose, expire, vars, ledger, Fenced
<1> QED BY <1>2, <1>3, <1>4 DEF Next

(* #terminalize neither sends nor completes anything.                      *)
LEMMA TerminalizeSends ==
  ASSUME TypeOK, NEW S, Terminalize(S), NEW a \in Actions
  PROVE  /\ row'[a].sent <=> row[a].sent
         /\ row'[a].status = "succeeded" => row[a].status = "succeeded"
         /\ row'[a].rev = row[a].rev
BY DEF TypeOK, Row, Terminalize, Active

(* A step that sends nothing, completes nothing and starts no call keeps   *)
(* the track.                                                              *)
Quiet ==
  /\ sends' = sends
  /\ \A a \in Actions : /\ row'[a].sent <=> row[a].sent
                        /\ row'[a].status = "succeeded" => row[a].status = "succeeded"
  /\ \A p \in Procs, a \in Actions :
       job'[p][a].phase \in {"calling", "sent"} => job'[p][a].phase = job[p][a].phase
LEMMA QuietTracked ==
  ASSUME Tracked, Quiet
  PROVE  Tracked'
BY DEF Tracked, Quiet

(* A step keeps the track of every write.                                  *)
LEMMA NextTracked ==
  ASSUME TypeOK, LedgerReadable, Tracked, [Next]_vars
  PROVE  Tracked'
<1>1. \A a \in Actions : row[a] \in Row /\ sends[a] \in Nat
  BY DEF TypeOK
<1>2. ASSUME NEW p \in Procs, CoreStep(p) PROVE Quiet
  <2>1. sends' = sends
    <3>1. CASE start(p) \/ startFails(p) \/ beginDrain(p) \/ drain(p) \/ close(p)
      BY <3>1 DEF start, startFails, Claim, beginDrain, drain, close, AbortAll, world
    <3>2. CASE releaseController(p) \/ crash(p) \/ renewFails(p)
      BY <3>2 DEF releaseController, crash, renewFails, Stop, world
    <3>3. CASE \/ \E stopped \in BOOLEAN : setStopped(p, stopped)
               \/ \E g \in Grants : revoke(p, g)
      BY <3>3 DEF setStopped, revoke, world
    <3> QED BY <1>2, <3>1, <3>2, <3>3 DEF CoreStep
  <2>2. (\E S : Terminalize(S)) \/ row' = row
    <3>1. CASE start(p) \/ startFails(p) \/ beginDrain(p) \/ drain(p) \/ close(p)
      BY <3>1 DEF start, startFails, Claim, beginDrain, drain, close, AbortAll
    <3>2. CASE releaseController(p) \/ crash(p) \/ renewFails(p)
      BY <3>2 DEF releaseController, crash, renewFails, Stop, ledger
    <3>3. CASE \/ \E stopped \in BOOLEAN : setStopped(p, stopped)
               \/ \E g \in Grants : revoke(p, g)
      BY <3>3 DEF setStopped, revoke
    <3> QED BY <1>2, <3>1, <3>2, <3>3 DEF CoreStep
  <2>3. \/ \E S : AbortJobs(p, S)
        \/ job' = job
        \/ job' = [job EXCEPT ![p] = [a \in Actions |-> Idle]]
    <3>1. CASE start(p) \/ startFails(p) \/ beginDrain(p) \/ drain(p) \/ close(p)
      BY <3>1 DEF start, startFails, Claim, beginDrain, drain, close, AbortAll
    <3>2. CASE releaseController(p) \/ crash(p) \/ renewFails(p)
      BY <3>2 DEF releaseController, crash, renewFails, Stop
    <3>3. CASE \/ \E stopped \in BOOLEAN : setStopped(p, stopped)
               \/ \E g \in Grants : revoke(p, g)
      BY <3>3 DEF setStopped, revoke
    <3> QED BY <1>2, <3>1, <3>2, <3>3 DEF CoreStep
  <2>4. \A a \in Actions : /\ row'[a].sent <=> row[a].sent
                           /\ row'[a].status = "succeeded" => row[a].status = "succeeded"
    BY <2>2, TerminalizeSends
  <2>5. \A q \in Procs, a \in Actions :
          job'[q][a].phase \in {"calling", "sent"} => job'[q][a].phase = job[q][a].phase
    <3>1. CASE \E S : AbortJobs(p, S)
      BY <3>1, AbortJobsTyped
    <3>2. CASE job' = [job EXCEPT ![p] = [a \in Actions |-> Idle]]
      BY <3>2 DEF TypeOK, Idle
    <3> QED BY <2>3, <3>1, <3>2
  <2> QED BY <2>1, <2>4, <2>5 DEF Quiet
<1>3. ASSUME NEW p \in Procs, NEW a \in Actions, ActionStep(p, a) PROVE Tracked'
  <2>1. CASE prepare(p, a)
    <3>1. job'[p][a].phase = "reading" /\ Others(p, a) /\ sends' = sends
      BY <2>1, PhaseJob DEF prepare, world
    <3>2. /\ row[a].status = "absent" /\ row'[a].status = "prepared" /\ ~row'[a].sent
          /\ \A b \in Actions \ {a} : row'[b] = row[b]
      BY <2>1 DEF prepare, TypeOK
    <3>3. ~row[a].sent
      BY <1>1, <3>2 DEF LedgerReadable
    <3> QED BY <3>1, <3>2, <3>3, QuietTracked DEF Quiet, Others
  <2>2. CASE failPrepared(p, a)
    <3>1. job'[p][a].phase = "idle" /\ Others(p, a) /\ sends' = sends
      BY <2>2, IdleJob DEF failPrepared, world
    <3>2. \A b \in Actions : /\ row'[b].sent <=> row[b].sent
                             /\ row'[b].status = "succeeded" => row[b].status = "succeeded"
      BY <2>2 DEF failPrepared, TypeOK, Row
    <3> QED BY <3>1, <3>2, QuietTracked DEF Quiet, Others
  <2>3. CASE dispatch(p, a)
    <3>1. job'[p][a].phase = "calling" /\ Others(p, a) /\ sends' = sends
      BY <2>3, PhaseJob DEF dispatch, world
    <3>2. /\ row[a].status = "prepared" /\ row'[a].status = "dispatched" /\ row'[a].sent
          /\ \A b \in Actions \ {a} : row'[b] = row[b]
      BY <2>3 DEF dispatch, Dispatchable, TypeOK, Row
    <3>3. ~row[a].sent
      BY <3>2 DEF LedgerReadable
    <3>4. sends[a] = 0 /\ \A q \in Procs : job[q][a].phase # "calling"
      BY <1>1, <3>3 DEF Tracked
    <3> QED BY <3>1, <3>2, <3>4 DEF Tracked, Others
  <2>4. CASE send(p, a)
    <3>1. job'[p][a].phase = "sent" /\ Others(p, a) /\ row' = row
      BY <2>4, PhaseJob DEF send, ledger
    <3>2. /\ job[p][a].phase = "calling" /\ sends'[a] = sends[a] + 1
          /\ \A b \in Actions \ {a} : sends'[b] = sends[b]
      BY <2>4 DEF send, TypeOK
    <3>3. sends'[a] = 1 /\ row[a].sent
      BY <3>2 DEF Tracked
    <3> QED BY <3>1, <3>2, <3>3 DEF Tracked, Others
  <2>5. CASE settle(p, a)
    <3>1. job'[p][a].phase = "idle" /\ Others(p, a) /\ sends' = sends
      BY <2>5, IdleJob DEF settle, world
    <3>2. PICK ok \in BOOLEAN :
            /\ ok => job[p][a].phase = "sent"
            /\ row' = [row EXCEPT ![a].status = Settled(ok)] \/ row' = row
      BY <2>5 DEF settle
    <3>3. \A b \in Actions : /\ row'[b].sent <=> row[b].sent
                             /\ row'[b].status = "succeeded" =>
                                  row[b].status = "succeeded" \/ (ok /\ b = a)
      BY <3>2 DEF TypeOK, Row, Settled
    <3>4. ok => sends[a] = 1
      BY <3>2 DEF Tracked
    <3> QED BY <3>1, <3>3, <3>4 DEF Tracked, Others
  <2>6. CASE abort(p, a)
    <3>1. AbortJobs(p, {a}) /\ row' = row /\ sends' = sends
      BY <2>6 DEF abort, ledger, world
    <3> QED BY <3>1, AbortJobsTyped, QuietTracked DEF Quiet
  <2> QED BY <1>3, <2>1, <2>2, <2>3, <2>4, <2>5, <2>6 DEF ActionStep
<1>4. CASE (\E a \in Actions : land(a) \/ lose(a)) \/ expire \/ UNCHANGED vars
  <2>1. row' = row /\ job' = job /\ sends' = sends
    BY <1>4 DEF land, lose, expire, vars, ledger, world
  <2> QED BY <2>1, QuietTracked DEF Quiet
<1> QED BY <1>2, <1>3, <1>4, QuietTracked DEF Next

-----------------------------------------------------------------------------
(* Authority.                                                              *)

(* What the daemon that holds the controller may put on the wire.          *)
MaySend(p, a) == job[p][a].phase = "calling" /\ ~job[p][a].aborted /\ Holds(p)
Allowed(a) ==
  row[a].status = "dispatched" /\ ~meta.stopped /\ Granted(ask[a].grant, row[a].rev)

(* Only one daemon holds the controller.                                   *)
LEMMA OneHolder ==
  ASSUME Fenced, NEW p \in Procs, NEW q \in Procs, Holds(p), Holds(q)
  PROVE  p = q
BY DEF Fenced, Holds

(* What was allowed stays so while its row, its grant and the epochs do.   *)
LEMMA AllowedStays ==
  ASSUME Authorized, NEW p \in Procs, NEW a \in Actions, MaySend(p, a),
         row'[a] = row[a], ask' = ask, grant'[ask[a].grant] = grant[ask[a].grant],
         meta'.stopped <=> meta.stopped, meta'.policy = meta.policy,
         meta'.emergency = meta.emergency
  PROVE  Allowed(a)'
<1>1. Allowed(a)
  BY DEF Authorized, MaySend, Allowed
<1> QED BY <1>1 DEF Allowed, Granted

(* A step of a daemon leaves no operation of the holder that may send      *)
(* something it is not allowed to: what it ends or forbids, it aborts.     *)
LEMMA CoreAuthorized ==
  ASSUME TypeOK, Fenced, Authorized, NEW p \in Procs, CoreStep(p), [Next]_vars,
         NEW q \in Procs, NEW b \in Actions, MaySend(q, b)'
  PROVE  Allowed(b)'
<1>1. /\ ask' = ask /\ meta.gen \in Nat /\ meta \in Meta
      /\ \A r \in Procs : core[r] \in Core /\ core[r].fence \in Nat
  BY AsksKept DEF TypeOK, Meta, Core
<1>2. CASE start(p) \/ startFails(p)
  <2>1. /\ meta'.gen = meta.gen + 1 /\ job' = job
        /\ \A r \in Procs \ {p} : core'[r] = core[r]
        /\ core[p].phase = "down"
    BY <1>1, <1>2 DEF start, startFails, Claim, TypeOK, Meta
  <2>2. q # p
    BY <2>1 DEF MaySend, Fenced
  <2>3. core[q].phase # "down" /\ core[q].fence = meta.gen + 1
    BY <2>1, <2>2 DEF MaySend, Holds
  <2> QED BY <1>1, <2>3 DEF Fenced
<1>3. CASE beginDrain(p)
  <2>1. /\ job' = job /\ core' = core /\ held' = held /\ row' = row /\ grant' = grant
        /\ meta'.gen = meta.gen /\ meta'.policy = meta.policy
        /\ meta'.emergency = meta.emergency /\ (meta'.stopped <=> meta.stopped)
    BY <1>1, <1>3 DEF beginDrain, Meta
  <2>2. MaySend(q, b)
    BY <2>1 DEF MaySend, Holds
  <2> QED BY <1>1, <2>1, <2>2, AllowedStays
<1>4. CASE drain(p) \/ close(p) \/ renewFails(p)
  <2>1. /\ AbortJobs(p, Actions) /\ meta' = meta /\ held' = held /\ grant' = grant
        /\ \A r \in Procs \ {p} : core'[r] = core[r]
        /\ Holds(p) \/ row' = row
    BY <1>4 DEF drain, close, renewFails, AbortAll, TypeOK, ledger
  <2>2. q # p
    BY <2>1, AbortJobsTyped DEF MaySend
  <2>3. MaySend(q, b)
    BY <2>1, <2>2, AbortJobsTyped DEF MaySend, Holds
  <2>4. row' = row
    BY <2>1, <2>2, <2>3, OneHolder DEF MaySend
  <2> QED BY <1>1, <2>1, <2>3, <2>4, AllowedStays
<1>5. CASE releaseController(p) \/ crash(p)
  <2>1. /\ meta' = meta /\ grant' = grant /\ row' = row /\ (held' => held)
        /\ \A r \in Procs \ {p} : core'[r] = core[r] /\ job'[r] = job[r]
        /\ job'[p][b].phase = "idle"
    BY <1>5 DEF releaseController, crash, Stop, TypeOK, Idle
  <2>2. q # p
    BY <2>1 DEF MaySend
  <2>3. MaySend(q, b)
    BY <2>1, <2>2 DEF MaySend, Holds
  <2> QED BY <1>1, <2>1, <2>3, AllowedStays
<1>6. ASSUME NEW stopped \in BOOLEAN, setStopped(p, stopped) PROVE Allowed(b)'
  <2>1. /\ AbortJobs(p, InFlight(Actions)) /\ meta'.gen = meta.gen
        /\ held' = held /\ core' = core /\ Holds(p)
    BY <1>1, <1>6 DEF setStopped, Meta
  <2>2. MaySend(q, b)
    BY <2>1, AbortJobsTyped DEF MaySend, Holds
  <2>3. q = p /\ b \in InFlight(Actions)
    BY <2>1, <2>2, OneHolder DEF MaySend, Authorized, InFlight
  <2> QED BY <2>1, <2>2, <2>3, AbortJobsTyped DEF MaySend
<1>7. ASSUME NEW g \in Grants, revoke(p, g) PROVE Allowed(b)'
  <2>1. /\ AbortJobs(p, InFlight(OfGrant(g))) /\ meta' = meta
        /\ held' = held /\ core' = core /\ Holds(p) /\ Terminalize(OfGrant(g))
        /\ \A h \in Grants \ {g} : grant'[h] = grant[h]
    BY <1>7 DEF revoke, TypeOK
  <2>2. MaySend(q, b)
    BY <2>1, AbortJobsTyped DEF MaySend, Holds
  <2>3. q = p /\ row[b].status = "dispatched"
    BY <2>1, <2>2, OneHolder DEF MaySend, Authorized
  <2>4. b \notin OfGrant(g)
    BY <2>1, <2>2, <2>3, AbortJobsTyped DEF MaySend, InFlight, OfGrant
  <2>5. ask[b].grant \in Grants \ {g} /\ row'[b] = row[b]
    BY <2>1, <2>4 DEF OfGrant, Terminalize, TypeOK, Ask
  <2> QED BY <1>1, <2>1, <2>2, <2>5, AllowedStays
<1> QED BY <1>2, <1>3, <1>4, <1>5, <1>6, <1>7 DEF CoreStep

(* Neither does a step of an operation.                                    *)
LEMMA ActionAuthorized ==
  ASSUME TypeOK, Fenced, Authorized, NEW p \in Procs, NEW a \in Actions, ActionStep(p, a),
         [Next]_vars, NEW q \in Procs, NEW b \in Actions, MaySend(q, b)'
  PROVE  Allowed(b)'
<1>1. ask' = ask /\ meta' = meta /\ held' = held /\ grant' = grant /\ core' = core
  BY DEF ActionStep, prepare, failPrepared, dispatch, send, settle, abort, ledger
<1>2. Holds(q)
  BY <1>1 DEF MaySend, Holds
<1>3. ASSUME MaySend(q, b), row'[b] = row[b] PROVE Allowed(b)'
  BY <1>1, <1>3, AllowedStays
<1>4. ASSUME MaySend(q, b) PROVE row[b].status = "dispatched"
  BY <1>4 DEF MaySend, Authorized
<1>5. ASSUME Others(p, a), q # p \/ b # a PROVE MaySend(q, b)
  BY <1>1, <1>5 DEF MaySend, Others, Holds
<1>6. CASE prepare(p, a)
  <2>1. /\ job'[p][a].phase = "reading" /\ Others(p, a) /\ row[a].status = "absent"
        /\ \A c \in Actions \ {a} : row'[c] = row[c]
    BY <1>6, PhaseJob DEF prepare, TypeOK
  <2>2. q # p \/ b # a
    BY <2>1 DEF MaySend
  <2> QED BY <1>3, <1>4, <1>5, <2>1, <2>2
<1>7. CASE failPrepared(p, a)
  <2>1. /\ job'[p][a].phase = "idle" /\ Others(p, a)
        /\ row[a].status = "prepared" \/ row' = row
        /\ \A c \in Actions \ {a} : row'[c] = row[c]
    BY <1>7, IdleJob DEF failPrepared, TypeOK
  <2>2. q # p \/ b # a
    BY <2>1 DEF MaySend
  <2> QED BY <1>3, <1>4, <1>5, <2>1, <2>2
<1>8. CASE dispatch(p, a)
  <2>1. /\ Others(p, a) /\ Holds(p) /\ ~meta.stopped /\ Granted(ask[a].grant, row[a].rev)
        /\ row'[a].status = "dispatched" /\ row'[a].rev = row[a].rev
        /\ \A c \in Actions \ {a} : row'[c] = row[c]
    <3>1. Others(p, a) /\ Dispatchable(p, a)
      BY <1>8, PhaseJob DEF dispatch
    <3>2. /\ row'[a].status = "dispatched" /\ row'[a].rev = row[a].rev
          /\ \A c \in Actions \ {a} : row'[c] = row[c]
      BY <1>8 DEF dispatch, TypeOK, Row
    <3> QED BY <3>1, <3>2 DEF Dispatchable, Admitting
  <2>2. q = p
    BY <1>2, <2>1, OneHolder
  <2>3. CASE b = a
    BY <1>1, <2>1, <2>3 DEF Allowed, Granted
  <2>4. CASE b # a
    BY <1>3, <1>5, <2>1, <2>4
  <2> QED BY <2>3, <2>4
<1>9. CASE send(p, a)
  <2>1. job'[p][a].phase = "sent" /\ Others(p, a) /\ row' = row
    BY <1>9, PhaseJob DEF send, ledger
  <2>2. q # p \/ b # a
    BY <2>1 DEF MaySend
  <2> QED BY <1>3, <1>5, <2>1, <2>2
<1>10. CASE settle(p, a)
  <2>1. /\ job'[p][a].phase = "idle" /\ Others(p, a)
        /\ Holds(p) \/ row' = row
        /\ \A c \in Actions \ {a} : row'[c] = row[c]
    BY <1>10, IdleJob DEF settle, TypeOK
  <2>2. q # p \/ b # a
    BY <2>1 DEF MaySend
  <2>3. CASE q = p
    BY <1>3, <1>5, <2>1, <2>2, <2>3
  <2>4. CASE q # p
    BY <1>2, <1>3, <1>5, <2>1, <2>4, OneHolder
  <2> QED BY <2>3, <2>4
<1>11. CASE abort(p, a)
  <2>1. AbortJobs(p, {a}) /\ row' = row
    BY <1>11 DEF abort, ledger
  <2>2. MaySend(q, b)
    BY <1>1, <2>1, AbortJobsTyped DEF MaySend, Holds
  <2> QED BY <1>3, <2>1, <2>2
<1> QED BY <1>6, <1>7, <1>8, <1>9, <1>10, <1>11 DEF ActionStep

(* A step keeps every operation that may send authorized.                  *)
LEMMA NextAuthorized ==
  ASSUME TypeOK, Fenced, Authorized, [Next]_vars
  PROVE  Authorized'
<1> SUFFICES ASSUME NEW q \in Procs, NEW b \in Actions, MaySend(q, b)'
             PROVE  Allowed(b)'
  BY DEF Authorized, MaySend, Allowed
<1>1. CASE (\E a \in Actions : land(a) \/ lose(a)) \/ UNCHANGED vars
  <2>1. /\ row' = row /\ job' = job /\ ask' = ask /\ grant' = grant /\ meta' = meta
        /\ core' = core /\ held' = held
    BY <1>1 DEF land, lose, vars, ledger
  <2>2. MaySend(q, b)
    BY <2>1 DEF MaySend, Holds
  <2> QED BY <2>1, <2>2, AllowedStays
<1>2. CASE expire
  BY <1>2 DEF expire, MaySend, Holds
<1> QED BY <1>1, <1>2, CoreAuthorized, ActionAuthorized DEF Next

-----------------------------------------------------------------------------
(* The strengthened invariant.                                             *)
LEMMA NextIInv == IInv /\ [Next]_vars => IInv'
BY NextTyped, NextReadable, NextFenced, NextTracked, NextAuthorized, NextApart, NextCounted
   DEF IInv

(* It holds of every reachable state.                                      *)
THEOREM Inductive == Spec => []IInv
BY InitIInv, NextIInv, PTL DEF Spec

(* Every table, daemon and operation is well formed.                       *)
THEOREM TypeCorrect == Spec => []TypeOK
<1>1. IInv => TypeOK
  BY DEF IInv
<1> QED BY <1>1, Inductive, PTL

(* Whatever crashes, hand-overs and stops happen, the next daemon can open *)
(* the ledger.                                                             *)
THEOREM AlwaysReadable == Spec => []LedgerReadable
<1>1. IInv => LedgerReadable
  BY DEF IInv
<1> QED BY <1>1, Inductive, PTL

(* For any number of daemons, actions and grants, two writes in doubt      *)
(* never share a target.                                                   *)
THEOREM DoubtIsExclusive == Spec => []DoubtExclusive
<1>1. Apart => DoubtExclusive
  BY DEF Apart, DoubtExclusive, Open, Taken, InDoubt, Active
<1> QED BY <1>1, Inductive, PTL DEF IInv

(* No grant is exceeded, under any sequence of revisions and outcomes.     *)
THEOREM QuotaHolds == Spec => []WithinQuota
<1>1. IInv => WithinQuota
  <2> SUFFICES ASSUME IInv, NEW g \in Grants
               PROVE  Cardinality({a \in OfGrant(g) : row[a].status = "prepared" \/ sends[a] > 0})
                        <= quota[g]
    BY DEF WithinQuota
  <2> DEFINE out == {a \in OfGrant(g) : row[a].status = "prepared" \/ sends[a] > 0}
  <2>1. out \subseteq Used(g)
    <3>1. \A a \in Actions : sends[a] > 0 => row[a].sent
      BY DEF IInv, TypeOK, Tracked
    <3> QED BY <3>1 DEF Used, OfGrant
  <2>2. IsFiniteSet(Used(g)) /\ Cardinality(Used(g)) \in Nat
    BY UsedFinite
  <2>3. IsFiniteSet(out) /\ Cardinality(out) <= Cardinality(Used(g))
    BY <2>1, <2>2, FS_Subset
  <2>4. Cardinality(out) \in Nat /\ quota[g] \in Nat /\ Cardinality(Used(g)) <= quota[g]
    BY <2>3, FS_CardinalityType DEF IInv, TypeOK, Counted
  <2> QED BY <2>2, <2>3, <2>4
<1> QED BY <1>1, Inductive, PTL

(* A stop or a revocation reaches operations already past their dispatch:  *)
(* a daemon with authority sends only what is allowed at that moment.      *)
THEOREM SendsAreAuthorized == Spec => SendIsAuthorized
<1>1. IInv /\ [Next]_vars =>
        [\A a \in Actions, p \in Procs :
           send(p, a) /\ Holds(p) =>
             /\ row[a].status = "dispatched" /\ ~meta.stopped
             /\ Granted(ask[a].grant, row[a].rev)]_vars
  BY DEF IInv, Authorized, send
<1> QED BY <1>1, Inductive, PTL DEF Spec, SendIsAuthorized

-----------------------------------------------------------------------------
(* The refinement.                                                         *)

(* The broker starts where EffectPromise does.                             *)
LEMMA PromiseInit == Init => Promise!Init
BY DEF Init, Promise!Init, Outcome, Absent

(* How a row that stays or ends is read as an outcome.                     *)
LEMMA MovesDecide ==
  ASSUME TypeOK, LedgerReadable, Tracked, Tracked', NEW a \in Actions, Moves(a), sends' = sends
  PROVE  Outcome(a)' = Outcome(a) \/ (Outcome(a) = "open" /\ Promise!Decided(a, Outcome(a)'))
<1>1. row[a] \in Row /\ sends[a] \in Nat
  BY DEF TypeOK
<1>2. CASE row'[a] = row[a]
  BY <1>2 DEF Outcome
<1>3. CASE row[a].status = "prepared" /\ row'[a].status = "failed"
  <2>1. ~row[a].sent
    BY <1>3 DEF LedgerReadable
  <2>2. sends[a] = 0
    BY <1>1, <2>1 DEF Tracked
  <2> QED BY <1>3, <2>2 DEF Outcome, Promise!Decided
<1>4. CASE row[a].status = "dispatched" /\ row'[a].status = "unknown"
  BY <1>4 DEF Outcome, Promise!Decided
<1>5. CASE row[a].status = "dispatched" /\ row'[a].status = "succeeded"
  <2>1. sends[a] = 1
    BY <1>5 DEF Tracked
  <2> QED BY <1>5, <2>1 DEF Outcome, Promise!Decided
<1> QED BY <1>1, <1>2, <1>3, <1>4, <1>5 DEF Moves, Ends, Row

(* Every step but a send leaves the sends alone.                           *)
LEMMA SendsKept ==
  ASSUME [Next]_vars, \A p \in Procs, a \in Actions : ~send(p, a)
  PROVE  sends' = sends
<1>1. ASSUME NEW p \in Procs, CoreStep(p) PROVE sends' = sends
  <2>1. CASE start(p) \/ startFails(p) \/ beginDrain(p) \/ drain(p) \/ close(p)
    BY <2>1 DEF start, startFails, Claim, beginDrain, drain, close, AbortAll, world
  <2>2. CASE releaseController(p) \/ crash(p) \/ renewFails(p)
    BY <2>2 DEF releaseController, crash, renewFails, Stop, world
  <2>3. CASE \/ \E stopped \in BOOLEAN : setStopped(p, stopped)
             \/ \E g \in Grants : revoke(p, g)
    BY <2>3 DEF setStopped, revoke, world
  <2> QED BY <1>1, <2>1, <2>2, <2>3 DEF CoreStep
<1>2. ASSUME NEW p \in Procs, NEW a \in Actions, ActionStep(p, a) PROVE sends' = sends
  BY <1>2 DEF ActionStep, prepare, failPrepared, dispatch, settle, abort, world
<1>3. CASE (\E a \in Actions : land(a) \/ lose(a)) \/ expire \/ UNCHANGED vars
  BY <1>3 DEF land, lose, expire, vars, world
<1> QED BY <1>1, <1>2, <1>3 DEF Next

(* Every step of the broker is a step of EffectPromise or a stutter.       *)
LEMMA PromiseStep ==
  ASSUME IInv, IInv', [Next]_vars
  PROVE  [Promise!Next]_<<[a \in Actions |-> Outcome(a)], sends>>
<1> DEFINE out == [a \in Actions |-> Outcome(a)]
<1>1. CASE \E p \in Procs, a \in Actions : send(p, a)
  <2>1. PICK p \in Procs, a \in Actions : send(p, a)
    BY <1>1
  <2>2. row' = row /\ sends' = [sends EXCEPT ![a] = sends[a] + 1] /\ sends[a] = 0
    BY <2>1 DEF send, ledger, IInv, Tracked
  <2>3. row[a].status \in {"dispatched", "unknown", "succeeded"} /\ row[a].status # "succeeded"
    BY <2>1, <2>2 DEF send, IInv, Tracked, LedgerReadable
  <2>4. out[a] \in {"open", "unknown"} /\ out' = out
    BY <2>2, <2>3 DEF Outcome
  <2>5. Promise!Send(a)
    BY <2>2, <2>4 DEF Promise!Send
  <2> QED BY <2>5 DEF Promise!Next
<1>2. CASE ~\E p \in Procs, a \in Actions : send(p, a)
  <2>1. sends' = sends
    BY <1>2, SendsKept
  <2>2. \A a \in Actions :
          out'[a] = out[a] \/ (out[a] = "open" /\ Promise!Decided(a, out'[a]))
    <3>1. ASSUME NEW p \in Procs, NEW c \in Actions, prepare(p, c)
          PROVE  \A a \in Actions : out'[a] = out[a]
      <4>1. /\ \A b \in Actions \ {c} : row'[b] = row[b]
            /\ row[c].status = "absent" /\ row'[c].status = "prepared"
        BY <3>1 DEF prepare, IInv, TypeOK
      <4> QED BY <4>1 DEF Outcome
    <3>2. ASSUME NEW p \in Procs, NEW c \in Actions, dispatch(p, c)
          PROVE  \A a \in Actions : out'[a] = out[a]
      <4>1. /\ \A b \in Actions \ {c} : row'[b] = row[b]
            /\ row[c].status = "prepared" /\ row'[c].status = "dispatched"
        BY <3>2 DEF dispatch, Dispatchable, IInv, TypeOK, Row
      <4> QED BY <4>1 DEF Outcome
    <3>3. ASSUME \A a \in Actions : Moves(a), NEW a \in Actions
          PROVE  out'[a] = out[a] \/ (out[a] = "open" /\ Promise!Decided(a, out'[a]))
      BY <2>1, <3>3, MovesDecide DEF IInv
    <3> QED BY <3>1, <3>2, <3>3, RowsMove DEF IInv
  <2>3. out' \in [Actions -> {"open", "done", "refused", "unknown"}]
    BY DEF Outcome
  <2>4. Promise!Decide
    BY <2>1, <2>2, <2>3 DEF Promise!Decide
  <2> QED BY <2>4 DEF Promise!Next
<1> QED BY <1>1, <1>2

(* Through every crash, hand-over, stall, stop and abort, a write is sent  *)
(* at most once, its recorded outcome is final, and one recorded as failed *)
(* never reached the wire and never will.                                  *)
THEOREM Refines == Spec => KeepsPromise
<1>1. Init => Promise!Init
  BY PromiseInit
<1>2. IInv /\ IInv' /\ [Next]_vars =>
        [Promise!Next]_<<[a \in Actions |-> Outcome(a)], sends>>
  BY PromiseStep
<1> QED BY <1>1, <1>2, Inductive, PTL DEF Spec, KeepsPromise, Promise!Spec

=============================================================================
