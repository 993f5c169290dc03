-------------------------- MODULE AutomationsProofs --------------------------
(***************************************************************************)
(* The automations ledger for any number of coordinators, definitions,     *)
(* occurrences, policies and retry budgets (Automations.tla): its tables   *)
(* agree, occurrences of one lane never overlap, and each occurrence is    *)
(* kept its JobPromise.                                                    *)
(***************************************************************************)
EXTENDS AutomationsPromise, SequenceTheorems, TLAPS

(* LedgerAgrees, occurrence by occurrence.                                 *)
Agrees(o) ==
  /\ Active(o) \/ task[o].status = "scheduled" <=> occ[o] = "pending"
  /\ Active(o) => Attempts(o) > 0 /\ attempt[o][Attempts(o)] = task[o].status
  /\ \A n \in 1..Attempts(o) :
       n < Attempts(o) \/ ~Active(o) => attempt[o][n] \notin {"claimed", "running"}
  /\ run[o] # "none" => run[o] = task[o].status /\ run[o] = occ[o]
  /\ task[o].status \in {"ended", "unknown"} => run[o] = task[o].status

(* Every execution has an attempt of its own, an open task may be executed *)
(* once more, and what has never been claimed was never executed.          *)
Counted(o) ==
  /\ occ[o] = "absent" => task[o].status = "absent"
  /\ task[o].status = "absent" => attempt[o] = <<>>
  /\ runs[o] <= Attempts(o)
  /\ task[o].status = "claimed" => runs[o] < Attempts(o)
  /\ task[o].status \in {"scheduled", "claimed"} => runs[o] <= Retries(o)
  /\ task[o].status = "running" => runs[o] > 0
  /\ \A j \in jobs : j.occ = o => runs[o] > 0

Launching == \A p \in Procs : proc[p].phase = "launch" => proc[p].todo \in Occs

IInv ==
  /\ TypeOK /\ Launching /\ OverlapExclusive
  /\ \A o \in Occs : Agrees(o) /\ Counted(o)

-----------------------------------------------------------------------------
(* What a step does to an occurrence.                                      *)
Outcomes == {"claimed", "running", "lost"} \cup Ended
Replaced(o, s) == attempt'[o] = [attempt[o] EXCEPT ![Attempts(o)] = s]
Unrun(o) == run'[o] = run[o] /\ runs'[o] = runs[o]

Stays(o) ==
  /\ occ'[o] = occ[o] /\ task'[o].status = task[o].status
  /\ attempt'[o] = attempt[o] /\ Unrun(o)
Appears(o) ==
  /\ occ[o] = "absent" /\ occ'[o] = "pending" /\ task'[o].status = "scheduled"
  /\ attempt'[o] = attempt[o] /\ Unrun(o)
Misses(o) ==
  /\ occ[o] = "absent" /\ occ'[o] = "skipped" /\ task'[o].status = task[o].status
  /\ attempt'[o] = attempt[o] /\ Unrun(o)
Drops(o) ==
  /\ task[o].status = "scheduled" /\ task'[o].status = "cancelled"
  /\ occ'[o] \in {"skipped", "cancelled"}
  /\ attempt'[o] = attempt[o] /\ Unrun(o)
Claims(o) ==
  /\ task[o].status = "scheduled" /\ task'[o].status = "claimed" /\ ~Busy(o)
  /\ attempt'[o] = Append(attempt[o], "claimed")
  /\ occ'[o] = occ[o] /\ Unrun(o)
Starts(o) ==
  /\ task[o].status = "claimed" /\ task'[o].status = "running"
  /\ Replaced(o, "running")
  /\ occ'[o] = occ[o] /\ run'[o] = run[o] /\ runs'[o] = runs[o] + 1
Requeues(o) ==
  /\ Active(o) /\ (task[o].status = "claimed" \/ Repeatable(o))
  /\ task'[o].status = "scheduled"
  /\ \E s \in {"lost", "unknown"} : Replaced(o, s)
  /\ occ'[o] = occ[o] /\ Unrun(o)
Ends(o) ==
  /\ Active(o) /\ runs[o] > 0
  /\ \E s \in Ended : /\ task'[o].status = s /\ occ'[o] = s /\ run'[o] = s
                      /\ Replaced(o, s)
  /\ runs'[o] = runs[o]

RowStep(o) ==
  \/ Stays(o) \/ Appears(o) \/ Misses(o) \/ Drops(o)
  \/ Claims(o) \/ Starts(o) \/ Requeues(o) \/ Ends(o)

(* The rest of TypeOK, and what else a step does.                          *)
Framed ==
  /\ setup \in Setups /\ enabled \in [Autos -> BOOLEAN]
  /\ duty \in [token : Nat, live : BOOLEAN]
  /\ occ \in [Occs -> {"absent", "pending", "skipped"} \cup Ended]
  /\ task \in [Occs -> Task] /\ run \in [Occs -> {"none"} \cup Ended]
  /\ proc \in [Procs -> Proc] /\ slot \in [Procs -> SUBSET Occs] /\ jobs \subseteq Job
Total(f) == f = [o \in Occs |-> f[o]]

Good ==
  /\ Framed' /\ setup' = setup /\ Total(attempt)' /\ Total(runs)' /\ Launching'
  /\ \A o \in Occs : RowStep(o)
  /\ \A o, r \in Occs : Claims(o) /\ Claims(r) => o = r
  /\ \A j \in jobs' : j \in jobs \/ runs'[j.occ] > 0

(* The last attempt of a task is replaced, the others are kept.            *)
LEMMA LastReplaced ==
  ASSUME NEW S, NEW s \in Seq(S), Len(s) > 0, NEW v \in S,
         NEW t, t = [s EXCEPT ![Len(s)] = v]
  PROVE  /\ t \in Seq(S) /\ Len(t) = Len(s) /\ t[Len(s)] = v
         /\ \A n \in 1..Len(s) : n < Len(s) => t[n] = s[n]
<1>1. Len(s) \in Nat /\ Len(s) \in 1..Len(s)
  BY LenProperties
<1>2. /\ [s EXCEPT ![Len(s)] = v] \in Seq(S)
      /\ Len([s EXCEPT ![Len(s)] = v]) = Len(s)
      /\ \A j \in 1..Len(s) : [s EXCEPT ![Len(s)] = v][j] = IF j = Len(s) THEN v ELSE s[j]
  BY <1>1, ExceptSeq
<1>3. ASSUME NEW n \in 1..Len(s), n < Len(s)
      PROVE  t[n] = s[n]
  <2>1. n # Len(s)
    BY <1>1, <1>3
  <2> QED BY <1>2, <2>1, Zenon
<1> QED BY <1>1, <1>2, <1>3

-----------------------------------------------------------------------------
(* A step of a row keeps the tables in agreement and the executions        *)
(* counted.                                                                *)
LEMMA RowKeeps ==
  ASSUME TypeOK, NEW o \in Occs, Agrees(o), Counted(o), RowStep(o), setup' = setup,
         \A j \in jobs' : j.occ = o => j \in jobs \/ runs'[o] > 0
  PROVE  /\ Agrees(o)' /\ Counted(o)'
         /\ attempt'[o] \in Seq(Outcomes) /\ runs'[o] \in Nat /\ runs'[o] >= runs[o]
<1> USE DEF Attempts, Active, Retries
<1>1. /\ attempt[o] \in Seq(Outcomes) /\ Len(attempt[o]) \in Nat /\ runs[o] \in Nat
      /\ task[o].status \in {"absent", "scheduled", "claimed", "running"} \cup Ended
      /\ occ[o] \in {"absent", "pending", "skipped"} \cup Ended
      /\ run[o] \in {"none"} \cup Ended
      /\ setup'.retries[setup'.auto[o]] = setup.retries[setup.auto[o]]
      /\ setup.retries[setup.auto[o]] \in Nat
  <2>1. /\ attempt[o] \in Seq(Outcomes) /\ runs[o] \in Nat
        /\ occ[o] \in {"absent", "pending", "skipped"} \cup Ended
        /\ run[o] \in {"none"} \cup Ended
    BY DEF TypeOK, Outcomes
  <2>2. task[o].status \in {"absent", "scheduled", "claimed", "running"} \cup Ended
    BY DEF TypeOK, Task
  <2>3. setup \in Setup
    BY AutomationsAssumption DEF TypeOK
  <2>4. setup.retries[setup.auto[o]] \in Nat
    BY <2>3 DEF Setup
  <2> QED BY <2>1, <2>2, <2>4, LenProperties
<1>2. CASE attempt'[o] = attempt[o] /\ Unrun(o) /\ (Stays(o) \/ Appears(o) \/ Misses(o) \/ Drops(o))
  BY <1>1, <1>2 DEF Agrees, Counted, Unrun, Stays, Appears, Misses, Drops, Ended
<1>3. CASE Claims(o)
  <2>1. /\ attempt'[o] \in Seq(Outcomes) /\ Len(attempt'[o]) = Len(attempt[o]) + 1
        /\ attempt'[o][Len(attempt[o]) + 1] = "claimed"
        /\ \A n \in 1..Len(attempt[o]) : attempt'[o][n] = attempt[o][n]
    BY <1>1, <1>3, AppendProperties DEF Claims, Outcomes
  <2> QED BY <1>1, <1>3, <2>1 DEF Agrees, Counted, Unrun, Claims, Ended
<1>4. ASSUME NEW v \in Outcomes, Replaced(o, v), Active(o)
      PROVE  /\ attempt'[o] \in Seq(Outcomes) /\ Len(attempt'[o]) = Len(attempt[o])
             /\ Len(attempt[o]) > 0 /\ attempt'[o][Len(attempt[o])] = v
             /\ \A n \in 1..Len(attempt[o]) : n < Len(attempt[o]) => attempt'[o][n] = attempt[o][n]
  <2>1. Len(attempt[o]) > 0
    BY <1>4 DEF Agrees
  <2> QED BY <1>1, <1>4, <2>1, LastReplaced DEF Replaced
<1>5. CASE Starts(o)
  <2>1. "running" \in Outcomes /\ Replaced(o, "running") /\ Active(o)
    BY <1>5 DEF Starts, Outcomes
  <2> QED BY <1>1, <1>4, <1>5, <2>1 DEF Agrees, Counted, Starts, Ended
<1>6. CASE Requeues(o)
  <2>1. PICK v \in {"lost", "unknown"} : Replaced(o, v)
    BY <1>6 DEF Requeues
  <2>2. v \in Outcomes /\ Active(o)
    BY <1>6 DEF Requeues, Outcomes, Ended
  <2> QED BY <1>1, <1>4, <1>6, <2>1, <2>2 DEF Agrees, Counted, Requeues, Repeatable, Unrun, Ended
<1>7. CASE Ends(o)
  <2>1. PICK v \in Ended : /\ task'[o].status = v /\ occ'[o] = v /\ run'[o] = v
                           /\ Replaced(o, v)
    BY <1>7 DEF Ends
  <2>2. v \in Outcomes /\ Active(o)
    BY <1>7 DEF Ends, Outcomes
  <2> QED BY <1>1, <1>4, <1>7, <2>1, <2>2 DEF Agrees, Counted, Ends, Ended
<1> QED BY <1>2, <1>3, <1>5, <1>6, <1>7 DEF RowStep, Stays, Appears, Misses, Drops
-----------------------------------------------------------------------------
(* What the definitions and occurrences are, in any state.                 *)
LEMMA SetupType ==
  ASSUME TypeOK
  PROVE  /\ setup \in Setup
         /\ \A o \in Occs : setup.auto[o] \in Autos /\ Retries(o) \in Nat
<1>1. setup \in Setup
  BY AutomationsAssumption DEF TypeOK
<1> QED BY <1>1 DEF Setup, Retries

(* Steps that touch no row: pausing, leases, stopping, crashing.           *)
LEMMA QuietStep ==
  ASSUME IInv, setup' = setup, UNCHANGED <<occ, task, attempt, run, runs>>, Framed',
         jobs' \subseteq jobs, Launching'
  PROVE  Good
<1>1. \A o \in Occs : Stays(o)
  BY DEF Stays, Unrun
<1>2. \A o \in Occs : ~Claims(o)
  BY DEF Claims
<1>3. Total(attempt)' /\ Total(runs)'
  BY DEF IInv, TypeOK, Total
<1> QED BY <1>1, <1>2, <1>3 DEF Good, RowStep

LEMMA QuietSteps ==
  ASSUME IInv, \/ \E p \in Procs : tick(p) \/ stop(p) \/ releaseDuty(p) \/ crash(p)
               \/ \E a \in Autos : changeApproved(a)
               \/ expire
  PROVE  Good
<1>1. /\ duty \in [token : Nat, live : BOOLEAN] /\ proc \in [Procs -> Proc]
      /\ slot \in [Procs -> SUBSET Occs] /\ enabled \in [Autos -> BOOLEAN]
      /\ Launching
  BY DEF IInv, TypeOK
<1>2. ASSUME UNCHANGED <<setup, occ, task, attempt, run, runs>>,
             jobs' \subseteq jobs, Launching',
             duty' \in [token : Nat, live : BOOLEAN], proc' \in [Procs -> Proc],
             slot' \in [Procs -> SUBSET Occs], enabled' \in [Autos -> BOOLEAN]
      PROVE  Good
  <2>1. Framed'
    BY <1>2 DEF IInv, TypeOK, Framed
  <2> QED BY <1>2, <2>1, QuietStep
<1>3. ASSUME NEW p \in Procs, tick(p) PROVE Good
  <2>1. \/ duty' = duty /\ proc' = [proc EXCEPT ![p].phase = "scan"]
        \/ /\ duty' = [token |-> duty.token + 1, live |-> TRUE]
           /\ proc' = [proc EXCEPT ![p].phase = "scan", ![p].token = duty.token + 1]
        \/ duty' = duty /\ proc' = [proc EXCEPT ![p].token = 0]
    BY <1>3 DEF tick, Go
  <2>2. duty.token + 1 \in Nat
    BY <1>1
  <2>3. duty' \in [token : Nat, live : BOOLEAN]
    <3>1. duty' = duty \/ duty' = [token |-> duty.token + 1, live |-> TRUE]
      BY <2>1
    <3>2. [token |-> duty.token + 1, live |-> TRUE] \in [token : Nat, live : BOOLEAN]
      BY <2>2
    <3> QED BY <1>1, <3>1, <3>2
  <2>4. proc' \in [Procs -> Proc]
    <3>1. [proc EXCEPT ![p].phase = "scan"] \in [Procs -> Proc]
      BY <1>1 DEF Proc
    <3>2. [proc EXCEPT ![p].phase = "scan", ![p].token = duty.token + 1] \in [Procs -> Proc]
      BY <1>1, <2>2 DEF Proc
    <3>3. [proc EXCEPT ![p].token = 0] \in [Procs -> Proc]
      BY <1>1 DEF Proc
    <3> QED BY <2>1, <3>1, <3>2, <3>3
  <2>5. Launching'
    <3> SUFFICES ASSUME NEW q \in Procs, proc'[q].phase = "launch"
                 PROVE  proc'[q].todo \in Occs
      BY DEF Launching
    <3>1. proc[q].phase = "launch" /\ proc'[q].todo = proc[q].todo
      BY <1>1, <1>3, <2>1 DEF tick, Proc
    <3> QED BY <1>1, <3>1 DEF Launching
  <2> QED BY <1>1, <1>2, <1>3, <2>3, <2>4, <2>5 DEF tick, ledger, local
<1>4. ASSUME NEW p \in Procs, stop(p) PROVE Good
  BY <1>1, <1>2, <1>4 DEF stop, Go, Proc, Launching, ledger, local
<1>5. ASSUME NEW p \in Procs, releaseDuty(p) PROVE Good
  BY <1>1, <1>2, <1>5 DEF releaseDuty, Go, Proc, Launching, ledger, local
<1>6. ASSUME NEW p \in Procs, crash(p) PROVE Good
  <2>1. proc' \in [Procs -> Proc] /\ Launching'
    BY <1>1, <1>6 DEF crash, Proc, Launching
  <2>2. slot' \in [Procs -> SUBSET Occs] /\ jobs' \subseteq jobs
    BY <1>1, <1>6 DEF crash
  <2> QED BY <1>1, <1>2, <1>6, <2>1, <2>2 DEF crash, ledger
<1>7. ASSUME NEW a \in Autos, changeApproved(a) PROVE Good
  BY <1>1, <1>2, <1>7 DEF changeApproved, Launching, ledger, local
<1>8. ASSUME expire PROVE Good
  BY <1>1, <1>2, <1>8 DEF expire, Launching, ledger, local
<1> QED BY <1>3, <1>4, <1>5, <1>6, <1>7, <1>8

(* Steps of the tables in which nothing is claimed.                        *)
LEMMA TableStep ==
  ASSUME IInv, UNCHANGED <<setup, enabled, duty, local>>, Launching',
         proc' \in [Procs -> Proc], task' \in [Occs -> Task],
         occ' \in [Occs -> {"absent", "pending", "skipped"} \cup Ended],
         run' \in [Occs -> {"none"} \cup Ended], Total(attempt)',
         \A o \in Occs : RowStep(o),
         \A o, r \in Occs : Claims(o) /\ Claims(r) => o = r
  PROVE  Good
<1>1. Framed'
  BY DEF IInv, TypeOK, Framed, local
<1>2. Total(runs)'
  BY DEF IInv, TypeOK, Total, local
<1> QED BY <1>1, <1>2 DEF Good, local

(* A tick goes on to a phase in which it has no claim at hand.             *)
LEMMA GoStep ==
  ASSUME IInv, NEW p \in Procs, NEW phase \in {"idle", "scan", "sweep", "claim", "stopping", "gone"},
         Go(p, phase)
  PROVE  proc' \in [Procs -> Proc] /\ Launching'
<1>1. proc \in [Procs -> Proc] /\ Launching
  BY DEF IInv, TypeOK
<1> QED BY <1>1 DEF Go, Proc, Launching

(* Steps that touch one row from outside a tick.                           *)
LEMMA OutsideSteps ==
  ASSUME IInv, NEW o \in Occs, trigger(o) \/ cancel(o) \/ lapse(o)
  PROVE  Good
<1>1. /\ task \in [Occs -> Task] /\ run \in [Occs -> {"none"} \cup Ended]
      /\ occ \in [Occs -> {"absent", "pending", "skipped"} \cup Ended]
      /\ Total(attempt) /\ proc \in [Procs -> Proc] /\ Launching
  BY DEF IInv, TypeOK, Total
<1>2. CASE trigger(o)
  <2>1. task' \in [Occs -> Task]
    BY <1>1, <1>2 DEF trigger, Task
  <2>2. occ' \in [Occs -> {"absent", "pending", "skipped"} \cup Ended]
    BY <1>1, <1>2 DEF trigger
  <2>3. \A r \in Occs : RowStep(r) /\ ~Claims(r)
    <3>1. Appears(o) /\ task'[o].status # "claimed"
      BY <1>1, <1>2 DEF trigger, Appears, Unrun, Task, local
    <3>2. \A r \in Occs \ {o} : Stays(r)
      BY <1>1, <1>2 DEF trigger, Stays, Unrun, local
    <3> QED BY <3>1, <3>2 DEF RowStep, Claims, Stays
  <2> QED BY <1>1, <1>2, <2>1, <2>2, <2>3, TableStep DEF trigger, Launching, Total
<1>3. CASE cancel(o)
  <2>1. task' \in [Occs -> Task]
    <3>1. \/ task' = [task EXCEPT ![o].cancel = TRUE]
          \/ task' = [task EXCEPT ![o].status = "cancelled", ![o].cancel = TRUE]
      BY <1>3 DEF cancel
    <3>2. [task EXCEPT ![o].cancel = TRUE] \in [Occs -> Task]
      BY <1>1 DEF Task
    <3>3. [task EXCEPT ![o].status = "cancelled", ![o].cancel = TRUE] \in [Occs -> Task]
      BY <1>1 DEF Task, Ended
    <3> QED BY <3>1, <3>2, <3>3
  <2>2. occ' \in [Occs -> {"absent", "pending", "skipped"} \cup Ended]
    BY <1>1, <1>3 DEF cancel, Ended
  <2>3. \A r \in Occs : RowStep(r) /\ ~Claims(r)
    <3>1. (Stays(o) \/ Drops(o)) /\ (task'[o].status = "claimed" => task[o].status = "claimed")
      BY <1>1, <1>3 DEF cancel, Stays, Drops, Unrun, Task, local, Active
    <3>2. \A r \in Occs \ {o} : Stays(r)
      BY <1>1, <1>3 DEF cancel, Stays, Unrun, local
    <3> QED BY <3>1, <3>2 DEF RowStep, Claims, Stays
  <2> QED BY <1>1, <1>3, <2>1, <2>2, <2>3, TableStep DEF cancel, Launching, Total
<1>4. CASE lapse(o)
  <2>1. task' \in [Occs -> Task]
    BY <1>1, <1>4 DEF lapse, Task
  <2>2. \A r \in Occs : Stays(r)
    BY <1>1, <1>4 DEF lapse, Stays, Unrun, local, Task
  <2> QED BY <1>1, <1>4, <2>1, <2>2, TableStep DEF lapse, Launching, Total, RowStep, Claims, Stays
<1> QED BY <1>2, <1>3, <1>4

(* A tick recovers what expired and materializes what is due.              *)
LEMMA ScanStep ==
  ASSUME IInv, NEW p \in Procs, scan(p)
  PROVE  Good
<1>1. /\ task \in [Occs -> Task] /\ run \in [Occs -> {"none"} \cup Ended]
      /\ occ \in [Occs -> {"absent", "pending", "skipped"} \cup Ended]
      /\ \A o \in Occs : Agrees(o) /\ Counted(o)
  BY DEF IInv, TypeOK
<1>2. PICK kept \in SUBSET Due, skipped \in SUBSET Due :
        /\ task' = [o \in Occs |-> IF o \in Expired THEN Recovered(o)
                                  ELSE IF o \in kept THEN [Absent EXCEPT !.status = "scheduled"]
                                  ELSE task[o]]
        /\ occ' = [o \in Occs |-> IF o \in Expired /\ Lost(o) THEN "unknown"
                                 ELSE IF o \in kept THEN "pending"
                                 ELSE IF o \in skipped THEN "skipped" ELSE occ[o]]
  BY DEF scan
<1>3. /\ run' = [o \in Occs |-> IF o \in Expired /\ Lost(o) THEN "unknown" ELSE run[o]]
      /\ attempt' = [o \in Occs |->
           IF o \in Expired
           THEN [attempt[o] EXCEPT ![Attempts(o)] = IF @ = "claimed" THEN "lost" ELSE "unknown"]
           ELSE attempt[o]]
      /\ runs' = runs /\ Go(p, "sweep") /\ UNCHANGED <<setup, enabled, duty, local>>
  BY DEF scan, CloseAttempts, local
<1>4. \A o \in Occs : /\ o \in Expired => Active(o)
                      /\ o \in Due => occ[o] = "absent" /\ task[o].status = "absent" /\ o \notin Expired
  BY <1>1 DEF Expired, Due, Scheduled, Counted, Active
<1>5. task' \in [Occs -> Task]
  <2>1. \A o \in Occs : Recovered(o) \in Task
    BY <1>1 DEF Recovered, Task, Ended
  <2>2. [Absent EXCEPT !.status = "scheduled"] \in Task
    BY DEF Absent, Task
  <2> QED BY <1>1, <1>2, <2>1, <2>2
<1>6. /\ occ' \in [Occs -> {"absent", "pending", "skipped"} \cup Ended]
      /\ run' \in [Occs -> {"none"} \cup Ended] /\ Total(attempt)'
  BY <1>1, <1>2, <1>3 DEF Ended, Total
<1>7. ASSUME NEW o \in Occs PROVE RowStep(o) /\ ~Claims(o)
  <2>1. CASE o \in Expired
    <3>1. PICK s \in {"lost", "unknown"} :
            /\ attempt'[o] = [attempt[o] EXCEPT ![Attempts(o)] = s]
            /\ attempt[o][Attempts(o)] # "claimed" => s = "unknown"
      BY <1>3, <2>1
    <3>2. Active(o) /\ attempt[o][Attempts(o)] = task[o].status /\ o \notin Due
      BY <1>1, <1>4, <2>1 DEF Agrees
    <3>3. task'[o].status = IF Lost(o) THEN "unknown" ELSE "scheduled"
      BY <1>1, <1>2, <2>1 DEF Recovered, Task
    <3>4. CASE Lost(o)
      <4>1. s = "unknown" /\ runs[o] > 0
        BY <1>1, <3>1, <3>2, <3>4 DEF Lost, Counted
      <4>2. occ'[o] = "unknown" /\ run'[o] = "unknown" /\ runs'[o] = runs[o]
        BY <1>2, <1>3, <2>1, <3>4
      <4> QED BY <3>1, <3>2, <3>3, <3>4, <4>1, <4>2 DEF RowStep, Ends, Replaced, Ended, Claims
    <3>5. CASE ~Lost(o)
      <4>1. occ'[o] = occ[o] /\ Unrun(o)
        BY <1>2, <1>3, <2>1, <3>2, <3>5 DEF Unrun
      <4>2. task[o].status = "claimed" \/ Repeatable(o)
        BY <3>2, <3>5 DEF Lost, Active
      <4> QED BY <3>1, <3>2, <3>3, <3>5, <4>1, <4>2 DEF RowStep, Requeues, Replaced, Claims
    <3> QED BY <3>4, <3>5
  <2>2. CASE o \notin Expired /\ o \in kept
    <3>1. task'[o].status = "scheduled"
      BY <1>2, <2>2 DEF Absent
    <3> QED BY <1>2, <1>3, <1>4, <2>2, <3>1 DEF RowStep, Appears, Unrun, Claims
  <2>3. CASE o \notin Expired /\ o \notin kept /\ o \in skipped
    BY <1>2, <1>3, <1>4, <2>3 DEF RowStep, Misses, Unrun, Claims
  <2>4. CASE o \notin Expired /\ o \notin kept /\ o \notin skipped
    BY <1>2, <1>3, <1>4, <2>4 DEF RowStep, Stays, Unrun, Claims
  <2> QED BY <2>1, <2>2, <2>3, <2>4
<1>8. proc' \in [Procs -> Proc] /\ Launching'
  BY <1>3, GoStep
<1> QED BY <1>3, <1>5, <1>6, <1>7, <1>8, TableStep

(* Marking keeps a task well formed, and its status unless it is dropped.  *)
LEMMA MarkedType ==
  ASSUME TypeOK, NEW S, NEW C, NEW o \in Occs
  PROVE  /\ Marked(S, C, o) \in Task
         /\ Marked(S, C, o).status = IF o \in S THEN "cancelled" ELSE task[o].status
<1>1. task[o] \in Task
  BY DEF TypeOK
<1> QED BY <1>1 DEF Marked, Task, Ended

(* A tick sweeps: what it drops was scheduled.                             *)
LEMMA SweepStep ==
  ASSUME IInv, NEW p \in Procs, sweep(p)
  PROVE  Good
<1>1. /\ task \in [Occs -> Task] /\ run \in [Occs -> {"none"} \cup Ended]
      /\ occ \in [Occs -> {"absent", "pending", "skipped"} \cup Ended]
      /\ Total(attempt) /\ TypeOK
  BY DEF IInv, TypeOK, Total
<1>2. UNCHANGED <<setup, enabled, duty, attempt, run, local>> /\ runs' = runs
  BY DEF sweep, local
<1>3. proc' \in [Procs -> Proc] /\ Launching'
  BY GoStep DEF sweep
<1>4. /\ task' \in [Occs -> Task] /\ occ' \in [Occs -> {"absent", "pending", "skipped"} \cup Ended]
      /\ \A o \in Occs : (Stays(o) \/ Drops(o)) /\ ~Claims(o)
  <2>1. CASE Holds(proc[p].token)
    <3> DEFINE S == {r \in Occs : Overtaken(r) /\ Busy(r) /\ Enabled(r) /\ Overlap(r) = "queue-one"}
               C == {r \in Occs : \E o \in Occs : Supersedes(o, r) /\ Enabled(o)
                                                  /\ Overlap(o) = "cancel-previous"}
    <3>1. occ' = Dropped(S) /\ task' = [o \in Occs |-> Marked(S, C, o)]
      BY <2>1 DEF sweep
    <3>2. \A o \in S : task[o].status = "scheduled"
      BY DEF Overtaken, Fresh
    <3> HIDE DEF S, C
    <3>3. \A o \in Occs : Marked(S, C, o) \in Task
      BY <1>1, MarkedType
    <3>4. \A o \in Occs : task'[o].status = IF o \in S THEN "cancelled" ELSE task[o].status
      BY <1>1, <3>1, MarkedType
    <3>5. \A o \in Occs : occ'[o] = IF o \in S THEN "skipped" ELSE occ[o]
      BY <3>1 DEF Dropped
    <3>6. task' \in [Occs -> Task] /\ occ' \in [Occs -> {"absent", "pending", "skipped"} \cup Ended]
      BY <1>1, <3>1, <3>3 DEF Dropped
    <3> QED BY <1>2, <3>2, <3>4, <3>5, <3>6 DEF Stays, Drops, Claims, Unrun
  <2>2. CASE ~Holds(proc[p].token)
    BY <1>1, <1>2, <2>2 DEF sweep, Stays, Claims, Unrun
  <2> QED BY <2>1, <2>2
<1>5. \A o \in Occs : RowStep(o)
  BY <1>4 DEF RowStep
<1> QED BY <1>1, <1>2, <1>3, <1>4, <1>5, TableStep DEF Total

(* What passing the candidates does to a row; the lane of a candidate that *)
(* is claimed has no active task, so nothing of it is dropped.             *)
LEMMA PassRows ==
  ASSUME IInv, NEW p \in Procs, NEW seen \in SUBSET Occs, NEW taken \in SUBSET Candidates,
         Pass(p, seen, taken)
  PROVE  /\ task' \in [Occs -> Task]
         /\ occ' \in [Occs -> {"absent", "pending", "skipped"} \cup Ended]
         /\ \A r \in Occs :
              \/ /\ r \in taken /\ ~Busy(r) /\ task[r].status = "scheduled"
                 /\ task'[r].status = "claimed" /\ occ'[r] = occ[r]
              \/ /\ r \notin taken \/ Busy(r)
                 /\ task'[r].status = task[r].status /\ occ'[r] = occ[r]
              \/ /\ r \notin taken \/ Busy(r)
                 /\ task[r].status = "scheduled" /\ task'[r].status = "cancelled"
                 /\ occ'[r] = "skipped"
<1> DEFINE S == PassDrops(seen, taken)
           C == PassAsks(seen)
<1>1. /\ occ' = Dropped(S)
      /\ task' = [r \in Occs |->
           IF r \in taken /\ ~Busy(r) THEN Claimed(p, r) ELSE Marked(S, C, r)]
  BY DEF Pass
<1>2. \A r \in S \cup taken : task[r].status = "scheduled"
  BY DEF PassDrops, Overtaken, Fresh, Candidates
<1>3. ASSUME NEW r \in taken, ~Busy(r) PROVE r \notin S
  <2>1. r \in Occs /\ ~Active(r)
    BY <1>2 DEF Candidates, Active
  <2>2. \A c \in Occs : SameLane(c, r) /\ Busy(c) => Busy(r)
    BY <2>1 DEF Busy, SameLane
  <2> QED BY <1>3, <2>2 DEF PassDrops
<1> HIDE DEF S, C
<1>4. /\ TypeOK /\ task \in [Occs -> Task] /\ proc[p].token \in Nat
      /\ occ \in [Occs -> {"absent", "pending", "skipped"} \cup Ended]
  BY DEF IInv, TypeOK, Proc
<1>5. \A r \in Occs : /\ Marked(S, C, r) \in Task
                      /\ Marked(S, C, r).status = IF r \in S THEN "cancelled" ELSE task[r].status
  BY <1>4, MarkedType
<1>6. ASSUME NEW r \in Occs PROVE Claimed(p, r) \in Task /\ Claimed(p, r).status = "claimed"
  <2>1. task[r].cancel \in BOOLEAN
    BY <1>4 DEF Task
  <2> QED BY <1>4, <2>1 DEF Claimed, Task
<1>7. \A r \in Occs : occ'[r] = IF r \in S THEN "skipped" ELSE occ[r]
  BY <1>1 DEF Dropped
<1>8. task' \in [Occs -> Task]
  BY <1>1, <1>5, <1>6
<1>9. occ' \in [Occs -> {"absent", "pending", "skipped"} \cup Ended]
  BY <1>1, <1>4 DEF Dropped
<1> QED
  <2> SUFFICES ASSUME NEW r \in Occs
               PROVE  \/ /\ r \in taken /\ ~Busy(r) /\ task[r].status = "scheduled"
                         /\ task'[r].status = "claimed" /\ occ'[r] = occ[r]
                      \/ /\ r \notin taken \/ Busy(r)
                         /\ task'[r].status = task[r].status /\ occ'[r] = occ[r]
                      \/ /\ r \notin taken \/ Busy(r)
                         /\ task[r].status = "scheduled" /\ task'[r].status = "cancelled"
                         /\ occ'[r] = "skipped"
    BY <1>8, <1>9
  <2>1. CASE r \in taken /\ ~Busy(r)
    BY <1>1, <1>2, <1>3, <1>6, <1>7, <2>1
  <2>2. CASE ~(r \in taken /\ ~Busy(r))
    <3>1. task'[r] = Marked(S, C, r)
      BY <1>1, <2>2
    <3> QED BY <1>2, <1>5, <1>7, <2>2, <3>1
  <2> QED BY <2>1, <2>2

(* A tick claims a task, or drops some and goes on.                        *)
LEMMA ClaimStep ==
  ASSUME IInv, NEW p \in Procs, claimNext(p) \/ claimNone(p)
  PROVE  Good
<1>1. /\ task \in [Occs -> Task] /\ run \in [Occs -> {"none"} \cup Ended]
      /\ occ \in [Occs -> {"absent", "pending", "skipped"} \cup Ended]
      /\ Total(attempt) /\ proc \in [Procs -> Proc] /\ Launching
  BY DEF IInv, TypeOK, Total
<1>2. CASE claimNext(p)
  <2>1. PICK o \in Candidates :
          /\ Pass(p, {c \in Candidates : c <= o}, {o})
          /\ IF Busy(o)
             THEN UNCHANGED <<attempt, proc>>
             ELSE /\ attempt' = [attempt EXCEPT ![o] = Append(@, "claimed")]
                  /\ proc' = [proc EXCEPT ![p].phase = "launch", ![p].todo = o]
    BY <1>2 DEF claimNext
  <2>2. UNCHANGED <<setup, enabled, duty, run, local>> /\ runs' = runs
    BY <1>2 DEF claimNext, local
  <2>3. o \in Occs
    BY DEF Candidates
  <2>4. /\ task' \in [Occs -> Task]
        /\ occ' \in [Occs -> {"absent", "pending", "skipped"} \cup Ended]
        /\ \A r \in Occs :
             \/ /\ r = o /\ ~Busy(r) /\ task[r].status = "scheduled"
                /\ task'[r].status = "claimed" /\ occ'[r] = occ[r]
             \/ /\ r # o \/ Busy(r)
                /\ task'[r].status = task[r].status /\ occ'[r] = occ[r]
             \/ /\ r # o \/ Busy(r)
                /\ task[r].status = "scheduled" /\ task'[r].status = "cancelled"
                /\ occ'[r] = "skipped"
    <3> DEFINE seen == {c \in Candidates : c <= o}
    <3>1. seen \in SUBSET Occs /\ {o} \in SUBSET Candidates /\ Pass(p, seen, {o})
      BY <2>1 DEF Candidates
    <3> HIDE DEF seen
    <3>2. /\ task' \in [Occs -> Task]
          /\ occ' \in [Occs -> {"absent", "pending", "skipped"} \cup Ended]
          /\ \A r \in Occs :
               \/ /\ r \in {o} /\ ~Busy(r) /\ task[r].status = "scheduled"
                  /\ task'[r].status = "claimed" /\ occ'[r] = occ[r]
               \/ /\ r \notin {o} \/ Busy(r)
                  /\ task'[r].status = task[r].status /\ occ'[r] = occ[r]
               \/ /\ r \notin {o} \/ Busy(r)
                  /\ task[r].status = "scheduled" /\ task'[r].status = "cancelled"
                  /\ occ'[r] = "skipped"
      BY <3>1, PassRows
    <3> QED BY <3>2
  <2>5. /\ Total(attempt)'
        /\ \A r \in Occs : attempt'[r] = IF r = o /\ ~Busy(o) THEN Append(attempt[r], "claimed")
                                          ELSE attempt[r]
    BY <1>1, <2>1, <2>3 DEF Total
  <2>6. \A r \in Occs : RowStep(r) /\ (Claims(r) => r = o)
    BY <2>2, <2>4, <2>5 DEF RowStep, Claims, Stays, Drops, Unrun
  <2>7. proc' \in [Procs -> Proc] /\ Launching'
    <3>1. CASE Busy(o)
      BY <1>1, <2>1, <3>1 DEF Launching
    <3>2. CASE ~Busy(o)
      <4>1. proc' = [proc EXCEPT ![p].phase = "launch", ![p].todo = o]
        BY <2>1, <3>2
      <4>2. o \in 0..NOcc
        BY <2>3, AutomationsAssumption DEF Occs
      <4>3. [proc EXCEPT ![p].phase = "launch", ![p].todo = o] \in [Procs -> Proc]
        BY <1>1, <4>2 DEF Proc
      <4>4. Launching'
        BY <1>1, <2>3, <4>1 DEF Launching, Proc
      <4> QED BY <4>1, <4>3, <4>4
    <3> QED BY <3>1, <3>2
  <2> QED BY <1>1, <2>2, <2>4, <2>5, <2>6, <2>7, TableStep
<1>3. CASE claimNone(p)
  <2>1. UNCHANGED <<setup, enabled, duty, attempt, run, local>> /\ runs' = runs
    BY <1>3 DEF claimNone, local
  <2>2. proc' \in [Procs -> Proc] /\ Launching'
    BY <1>3, GoStep DEF claimNone
  <2>3. /\ task' \in [Occs -> Task]
        /\ occ' \in [Occs -> {"absent", "pending", "skipped"} \cup Ended]
        /\ \A r \in Occs :
             \/ task'[r].status = task[r].status /\ occ'[r] = occ[r]
             \/ /\ task[r].status = "scheduled" /\ task'[r].status = "cancelled"
                /\ occ'[r] = "skipped"
    <3>1. CASE Pass(p, Candidates, {})
      <4>1. Candidates \in SUBSET Occs /\ {} \in SUBSET Candidates
        BY DEF Candidates
      <4> QED BY <3>1, <4>1, PassRows
    <3>2. CASE UNCHANGED <<occ, task>>
      BY <1>1, <3>2
    <3> QED BY <1>3, <3>1, <3>2 DEF claimNone
  <2>4. \A r \in Occs : RowStep(r) /\ ~Claims(r)
    BY <2>1, <2>3 DEF RowStep, Claims, Stays, Drops, Unrun
  <2> QED BY <1>1, <2>1, <2>2, <2>3, <2>4, TableStep DEF Total
<1> QED BY <1>2, <1>3

(* A claimed task is started, or refused.                                  *)
LEMMA LaunchStep ==
  ASSUME IInv, NEW p \in Procs, launch(p)
  PROVE  Good
<1> DEFINE o == proc[p].todo
           job == [by |-> p, occ |-> o, attempt |-> Attempts(o), token |-> proc[p].token]
<1>1. /\ TypeOK /\ proc \in [Procs -> Proc] /\ Launching
      /\ task \in [Occs -> Task] /\ slot \in [Procs -> SUBSET Occs]
  BY DEF IInv, TypeOK
<1>2. o \in Occs
  BY <1>1 DEF launch, Launching
<1>3. proc' = [proc EXCEPT ![p].phase = "claim", ![p].todo = 0]
  BY DEF launch
<1>4. proc' \in [Procs -> Proc]
  <2>1. 0 \in 0..NOcc
    BY AutomationsAssumption
  <2>2. [proc EXCEPT ![p].phase = "claim", ![p].todo = 0] \in [Procs -> Proc]
    BY <1>1, <2>1 DEF Proc
  <2> QED BY <1>3, <2>2
<1>5. Launching'
  BY <1>1, <1>3 DEF Launching, Proc
<1>6. CASE Mutable(o, proc[p].token) /\ task[o].status = "claimed"
  <2>1. /\ task' = [task EXCEPT ![o].status = "running", ![o].live = TRUE]
        /\ attempt' = [attempt EXCEPT ![o][Attempts(o)] = "running"]
        /\ jobs' = jobs \cup {job}
        /\ slot' = [slot EXCEPT ![p] = @ \cup {o}]
        /\ runs' = [runs EXCEPT ![o] = @ + 1]
        /\ UNCHANGED <<setup, enabled, duty, occ, run>>
    BY <1>6 DEF launch
  <2>2. task' \in [Occs -> Task]
    <3>1. [task EXCEPT ![o].status = "running", ![o].live = TRUE] \in [Occs -> Task]
      BY <1>1, <1>2 DEF Task
    <3> QED BY <2>1, <3>1
  <2>3. jobs' \subseteq Job
    <3>1. Attempts(o) \in Nat /\ proc[p].token \in Nat
      BY <1>1, <1>2, LenProperties DEF TypeOK, Attempts, Proc
    <3>2. job \in Job
      BY <1>2, <3>1 DEF Job
    <3> QED BY <1>1, <2>1, <3>2 DEF TypeOK
  <2>4. slot' \in [Procs -> SUBSET Occs]
    BY <1>1, <1>2, <2>1
  <2>5. Framed'
    BY <1>1, <1>4, <2>1, <2>2, <2>3, <2>4 DEF Framed, TypeOK
  <2>6. /\ runs[o] \in Nat /\ runs'[o] = runs[o] + 1
        /\ \A r \in Occs \ {o} : runs'[r] = runs[r]
        /\ attempt'[o] = [attempt[o] EXCEPT ![Attempts(o)] = "running"]
        /\ \A r \in Occs \ {o} : attempt'[r] = attempt[r]
        /\ Total(attempt)' /\ Total(runs)'
    BY <1>1, <1>2, <2>1 DEF TypeOK, Total
  <2>7. /\ task'[o].status = "running"
        /\ \A r \in Occs \ {o} : task'[r] = task[r]
    BY <1>1, <1>2, <2>1 DEF Task
  <2>8. \A r \in Occs : RowStep(r) /\ ~Claims(r)
    <3>1. Starts(o)
      BY <1>6, <2>1, <2>6, <2>7 DEF Starts, Replaced
    <3>2. \A r \in Occs \ {o} : Stays(r)
      BY <2>1, <2>6, <2>7 DEF Stays, Unrun
    <3> QED BY <3>1, <3>2 DEF RowStep, Claims, Starts, Stays
  <2>9. \A j \in jobs' : j \in jobs \/ runs'[j.occ] > 0
    BY <2>1, <2>6
  <2> QED BY <1>5, <2>1, <2>5, <2>6, <2>8, <2>9 DEF Good
<1>7. CASE ~(Mutable(o, proc[p].token) /\ task[o].status = "claimed")
  <2>1. /\ slot' = [slot EXCEPT ![p] = @ \ {o}]
        /\ UNCHANGED <<setup, enabled, duty, occ, task, attempt, run, jobs, runs>>
    BY <1>7 DEF launch
  <2>2. slot' \in [Procs -> SUBSET Occs]
    BY <1>1, <2>1
  <2>3. Framed'
    BY <1>1, <1>4, <2>1, <2>2 DEF Framed, TypeOK
  <2> QED BY <1>5, <2>1, <2>3, QuietStep
<1> QED BY <1>6, <1>7

(* An execution ends, with its outcome recorded or refused.                *)
LEMMA CompleteStep ==
  ASSUME IInv, NEW j \in jobs, completeTask(j)
  PROVE  Good
<1> DEFINE o == j.occ
<1>1. /\ TypeOK /\ task \in [Occs -> Task] /\ slot \in [Procs -> SUBSET Occs] /\ Launching
      /\ j.by \in Procs /\ o \in Occs /\ Counted(o)
  BY DEF IInv, TypeOK, Job
<1>2. /\ jobs' = jobs \ {j} /\ slot' = [slot EXCEPT ![j.by] = @ \ {o}]
      /\ UNCHANGED <<setup, enabled, duty, proc, runs>>
  BY DEF completeTask
<1>3. slot' \in [Procs -> SUBSET Occs] /\ Launching'
  BY <1>1, <1>2 DEF Launching
<1>4. CASE Mutable(o, j.token)
  <2>1. PICK out \in {"ended", "cancelled"} :
          /\ task' = [task EXCEPT ![o].status = out, ![o].live = FALSE]
          /\ attempt' = [attempt EXCEPT ![o][Attempts(o)] = out]
          /\ run' = [run EXCEPT ![o] = out]
          /\ occ' = [occ EXCEPT ![o] = out]
    BY <1>4 DEF completeTask
  <2>2. task' \in [Occs -> Task]
    <3>1. [task EXCEPT ![o].status = out, ![o].live = FALSE] \in [Occs -> Task]
      BY <1>1 DEF Task, Ended
    <3> QED BY <2>1, <3>1
  <2>3. Framed'
    BY <1>1, <1>2, <1>3, <2>1, <2>2 DEF Framed, TypeOK, Ended
  <2>4. /\ attempt'[o] = [attempt[o] EXCEPT ![Attempts(o)] = out]
        /\ \A r \in Occs \ {o} : attempt'[r] = attempt[r]
        /\ Total(attempt)' /\ Total(runs)'
        /\ run'[o] = out /\ \A r \in Occs \ {o} : run'[r] = run[r]
        /\ occ'[o] = out /\ \A r \in Occs \ {o} : occ'[r] = occ[r]
    BY <1>1, <1>2, <2>1 DEF TypeOK, Total
  <2>5. /\ task'[o].status = out
        /\ \A r \in Occs \ {o} : task'[r] = task[r]
    BY <1>1, <2>1 DEF Task
  <2>6. \A r \in Occs : RowStep(r) /\ ~Claims(r)
    <3>1. Active(o) /\ runs[o] > 0 /\ out \in Ended
      BY <1>1, <1>4 DEF Mutable, Counted, Ended
    <3>2. Ends(o)
      BY <1>2, <2>4, <2>5, <3>1 DEF Ends, Replaced
    <3>3. \A r \in Occs \ {o} : Stays(r)
      BY <1>2, <2>4, <2>5 DEF Stays, Unrun
    <3>4. ~Claims(o)
      BY <3>1 DEF Claims, Active
    <3> QED BY <3>2, <3>3, <3>4 DEF RowStep, Claims, Stays
  <2> QED BY <1>2, <1>3, <2>3, <2>4, <2>6 DEF Good
<1>5. CASE ~Mutable(o, j.token)
  <2>1. UNCHANGED <<occ, task, attempt, run>>
    BY <1>5 DEF completeTask, ledger
  <2>2. Framed'
    BY <1>1, <1>2, <1>3, <2>1 DEF Framed, TypeOK
  <2> QED BY <1>2, <1>3, <2>1, <2>2, QuietStep
<1> QED BY <1>4, <1>5

-----------------------------------------------------------------------------
(* Every step does to each row what a row may go through.                  *)
LEMMA EveryStep ==
  ASSUME IInv, [Next]_vars
  PROVE  Good
<1>1. CASE Next
  <2>1. ASSUME NEW p \in Procs, ProcStep(p) PROVE Good
    BY <2>1, QuietSteps, ScanStep, SweepStep, ClaimStep, LaunchStep DEF ProcStep, Tick
  <2>2. ASSUME NEW o \in Occs, trigger(o) \/ cancel(o) \/ lapse(o) PROVE Good
    BY <2>2, OutsideSteps
  <2> QED BY <1>1, <2>1, <2>2, QuietSteps, CompleteStep DEF Next
<1>2. CASE UNCHANGED vars
  <2>1. UNCHANGED <<setup, enabled, duty, occ, task, attempt, run, proc, slot, jobs, runs>>
    BY <1>2 DEF vars, ledger, local
  <2>2. Framed' /\ Launching'
    BY <2>1 DEF IInv, TypeOK, Framed, Launching
  <2> QED BY <2>1, <2>2, QuietStep
<1> QED BY <1>1, <1>2

(* The invariant holds at the start.                                       *)
LEMMA InitInv == Init => IInv
<1> SUFFICES ASSUME Init PROVE IInv
  OBVIOUS
<1>1. TypeOK
  <2>1. Absent \in Task /\ [phase |-> "idle", token |-> 0, todo |-> 0] \in Proc
    BY AutomationsAssumption DEF Absent, Task, Proc
  <2>2. <<>> \in Seq({"claimed", "running", "lost"} \cup Ended)
    OBVIOUS
  <2> QED BY <2>1, <2>2 DEF Init, TypeOK
<1>2. ASSUME NEW o \in Occs PROVE Agrees(o) /\ Counted(o) /\ ~Active(o)
  <2>1. /\ task[o].status = "absent" /\ occ[o] = "absent" /\ run[o] = "none"
        /\ attempt[o] = <<>> /\ runs[o] = 0 /\ jobs = {}
    BY DEF Init, Absent
  <2> QED BY <2>1 DEF Agrees, Counted, Active, Attempts, Ended
<1>3. Launching
  BY DEF Init, Launching
<1> QED BY <1>1, <1>2, <1>3 DEF IInv, OverlapExclusive

(* No step breaks the invariant.                                           *)
LEMMA NextInv == IInv /\ [Next]_vars => IInv'
<1> SUFFICES ASSUME IInv, [Next]_vars PROVE IInv'
  OBVIOUS
<1>1. Good /\ setup' = setup
  BY EveryStep DEF Good
<1>2. ASSUME NEW o \in Occs
      PROVE  /\ Agrees(o)' /\ Counted(o)'
             /\ attempt'[o] \in Seq(Outcomes) /\ runs'[o] \in Nat
  <2>1. TypeOK /\ Agrees(o) /\ Counted(o)
    BY DEF IInv
  <2>2. RowStep(o) /\ \A j \in jobs' : j.occ = o => j \in jobs \/ runs'[o] > 0
    BY <1>1 DEF Good
  <2> QED BY <1>1, <2>1, <2>2, RowKeeps
<1>3. TypeOK'
  <2>1. attempt' \in [Occs -> Seq({"claimed", "running", "lost"} \cup Ended)]
    BY <1>1, <1>2, Zenon DEF Good, Total, Outcomes
  <2>2. runs' \in [Occs -> Nat]
    BY <1>1, <1>2, Zenon DEF Good, Total
  <2> QED BY <1>1, <2>1, <2>2 DEF Good, Framed, TypeOK
<1>4. OverlapExclusive'
  <2> SUFFICES ASSUME NEW o \in Occs, NEW r \in Occs, o # r, SameLane(o, r), SameLane(r, o),
                      Active(o)', Active(r)'
               PROVE  FALSE
    BY <1>1 DEF OverlapExclusive, SameLane
  <2>1. \A q \in {o, r} : Active(q) \/ Claims(q)
    <3>1. \A q \in {o, r} : RowStep(q) /\ Active(q)'
      BY <1>1 DEF Good
    <3> QED BY <3>1 DEF RowStep, Active, Stays, Appears, Misses, Drops, Starts, Requeues, Ends,
                        Ended, IInv, Counted
  <2>2. ~(Active(o) /\ Active(r)) /\ ~(Claims(o) /\ Claims(r))
    BY <1>1 DEF IInv, OverlapExclusive, Good
  <2>3. ~(Claims(o) /\ Active(r)) /\ ~(Claims(r) /\ Active(o))
    BY DEF Claims, Busy
  <2> QED BY <2>1, <2>2, <2>3
<1> QED BY <1>1, <1>2, <1>3, <1>4 DEF Good, IInv

(* The invariant holds in every reachable state.                           *)
THEOREM Inductive == Spec => []IInv
BY InitInv, NextInv, PTL DEF Spec

(* Every row, coordinator and execution is well formed.                    *)
THEOREM TypeCorrect == Spec => []TypeOK
<1>1. IInv => TypeOK
  BY DEF IInv
<1> QED BY <1>1, Inductive, PTL

(* The tables of the ledger agree in every reachable state.                *)
THEOREM LedgersAgree == Spec => []LedgerAgrees
<1>1. IInv => LedgerAgrees
  BY DEF IInv, LedgerAgrees, Agrees
<1> QED BY <1>1, Inductive, PTL

(* Occurrences of one automation and mode are never claimed or running     *)
(* together.                                                               *)
THEOREM LanesExclusive == Spec => []OverlapExclusive
<1>1. IInv => OverlapExclusive
  BY DEF IInv
<1> QED BY <1>1, Inductive, PTL

-----------------------------------------------------------------------------
(* A row starts where JobPromise does.                                     *)
LEMMA PromiseInit == Init => \A o \in Occs : Promise(o)!Init
<1> SUFFICES ASSUME Init, NEW o \in Occs PROVE Promise(o)!Init
  OBVIOUS
<1>1. TypeOK
  BY InitInv DEF IInv
<1> QED BY <1>1, SetupType DEF Init, Promise!Init, Outcome

(* What a row goes through is a step of JobPromise or a stutter.           *)
LEMMA PromiseStep ==
  ASSUME IInv, [Next]_vars, NEW o \in Occs
  PROVE  [Promise(o)!Next]_(Promise(o)!vars)
<1>1. /\ TypeOK /\ Agrees(o) /\ Counted(o) /\ RowStep(o) /\ Retries(o)' = Retries(o)
      /\ setup' = setup
  BY EveryStep DEF IInv, Good, Retries
<1>2. /\ task[o].status \in {"absent", "scheduled", "claimed", "running"} \cup Ended
      /\ run[o] \in {"none"} \cup Ended /\ runs[o] \in Nat /\ Retries(o) \in Nat
      /\ Attempts(o) \in Nat
  BY <1>1, SetupType, LenProperties DEF TypeOK, Task, Attempts
<1>3. Active(o) \/ task[o].status = "scheduled" => occ[o] = "pending" /\ Outcome(o) = "open"
  BY <1>1 DEF Agrees, Outcome
<1>4. CASE occ'[o] = occ[o] /\ Unrun(o)
  BY <1>1, <1>4 DEF Unrun, Outcome, Promise!vars
<1>5. CASE Appears(o)
  BY <1>1, <1>5 DEF Appears, Unrun, Outcome, Promise!vars
<1>6. CASE Misses(o)
  <2>1. Outcome(o) = "open" /\ Outcome(o)' = "dropped" /\ runs'[o] = runs[o]
    BY <1>6 DEF Misses, Unrun, Outcome
  <2>2. runs[o] = 0
    BY <1>1, <1>2, <1>6 DEF Misses, Counted, Attempts
  <2> QED BY <1>1, <2>1, <2>2 DEF Promise!Next, Promise!Drop
<1>7. CASE Drops(o)
  <2>1. run[o] = "none"
    BY <1>1, <1>2, <1>7 DEF Drops, Agrees, Ended
  <2>2. Outcome(o) = "open" /\ Outcome(o)' = "dropped" /\ runs'[o] = runs[o]
    BY <1>3, <1>7, <2>1 DEF Drops, Unrun, Outcome
  <2>3. runs[o] = 0 \/ Retries(o) > 0
    BY <1>1, <1>2, <1>7 DEF Drops, Counted
  <2> QED BY <1>1, <2>2, <2>3 DEF Promise!Next, Promise!Drop
<1>8. CASE Starts(o)
  <2>1. Outcome(o) = "open" /\ Outcome(o)' = "open" /\ runs'[o] = runs[o] + 1
    BY <1>3, <1>8 DEF Starts, Active, Outcome
  <2>2. runs[o] <= Retries(o)
    BY <1>1, <1>8 DEF Starts, Counted
  <2> QED BY <1>1, <2>1, <2>2 DEF Promise!Next, Promise!Execute
<1>9. CASE Ends(o)
  <2>1. PICK s \in Ended : occ'[o] = s /\ run'[o] = s
    BY <1>9 DEF Ends
  <2>2. Outcome(o) = "open" /\ Outcome(o)' = s /\ runs'[o] = runs[o] /\ runs[o] > 0
    BY <1>3, <1>9, <2>1 DEF Ends, Outcome, Ended
  <2> QED BY <1>1, <2>1, <2>2 DEF Promise!Next, Promise!End, Ended
<1> QED BY <1>1, <1>4, <1>5, <1>6, <1>7, <1>8, <1>9 DEF RowStep, Stays, Claims, Requeues

(* The ledger keeps JobPromise to every occurrence, through crashes,       *)
(* stalls, hand-overs, retries and every overlap policy: one outcome, and  *)
(* executions only while it is open and within the retry budget.           *)
THEOREM Refines == Spec => KeepsPromise
<1>1. IInv /\ [Next]_vars => \A o \in Occs : [Promise(o)!Next]_(Promise(o)!vars)
  BY PromiseStep
<1> QED BY <1>1, PromiseInit, Inductive, PTL DEF Spec, KeepsPromise
=============================================================================
