----------------------------- MODULE Automations -----------------------------
(***************************************************************************)
(* Assistant automations: occurrences of timed and triggered jobs, durable *)
(* in SQLite (store.ts), and the coordinators (coordinator.ts) of the      *)
(* processes that share the database.  One process at a time has the duty  *)
(* lease; its fencing token names it, a token never returns to another.    *)
(*                                                                         *)
(* An occurrence is its place in the claim order (scheduled_at,            *)
(* trigger_key, id).  A lease is kept as live: lease_until > now.  A tick  *)
(* is synchronous, so a process does nothing else before it ends, but each *)
(* of its store calls is a transaction of its own, and other processes     *)
(* come between.  What no property tells apart is one value: "ended" is    *)
(* any outcome a coordinator records that is not "cancelled", and a        *)
(* deleted definition is a paused one that is never resumed.  An abort     *)
(* only hastens the return of an execution, whose outcome may then be any. *)
(* Circuits, incidents, Host executor availability and the delivery and    *)
(* evaluation of a result are left out: an execution that a circuit or a   *)
(* broken snapshot stops counts as a run.  Refused calls are no steps.     *)
(*                                                                         *)
(* A name with a Bug suffix is a plausible defect of the operator that     *)
(* follows it; no specification uses it.                                   *)
(***************************************************************************)
EXTENDS Integers, FiniteSets, Sequences

CONSTANTS
  Procs,           \* incarnations of the plugin, each with its own ownerId
  NOcc,            \* how many occurrences there may ever be
  Autos,           \* automation definitions
  Setups,          \* what the definitions and the occurrences may be
  MaxConcurrency

Occs == 1..NOcc

Setup == [auto : [Occs -> Autos],      \* automation of each occurrence
          at : [Occs -> Nat],          \* scheduled_at
          preview : [Occs -> BOOLEAN], \* dry_run
          trigger : [Occs -> {"schedule", "event", "never"}],
          overlap : [Autos -> {"skip", "queue-one", "cancel-previous"}],
          retries : [Autos -> Nat],    \* maxRetries; 0 for retrySafety never
          calls : SUBSET {"change", "cancel"}, \* bound: what callers may ask
          maxToken : Nat,                     \* bound: duty tokens below it may be lost to a stall
          maxLapse : Nat]                     \* bound: attempts up to it may lose their lease to one

ASSUME AutomationsAssumption ==
  /\ NOcc \in Nat /\ MaxConcurrency \in Nat \ {0}
  /\ Setups \subseteq Setup
  /\ \A s \in Setups, o, r \in Occs : o < r => s.at[o] <= s.at[r]

VARIABLES
  setup,    \* the setup; never changes
  enabled,  \* whether each definition is active
  duty,     \* the duty_lease row
  occ,      \* automation_occurrences: status
  task,     \* automation_tasks
  attempt,  \* automation_attempts: the statuses of a task's attempts
  run,      \* automation_runs: status of a task's run
  proc,     \* the coordinators
  slot,     \* active of each coordinator: the tasks entered in it
  jobs,     \* calls of execute that have not returned
  runs      \* history: how often each occurrence was executed

ledger == <<occ, task, attempt, run>>
local == <<slot, jobs, runs>>
vars == <<setup, enabled, duty, ledger, proc, local>>

Ended == {"ended", "cancelled", "unknown"}
Task == [status : {"absent", "scheduled", "claimed", "running"} \cup Ended,
         token : Nat, live : BOOLEAN, cancel : BOOLEAN]
Absent == [status |-> "absent", token |-> 0, live |-> FALSE, cancel |-> FALSE]
Proc == [phase : {"idle", "scan", "sweep", "claim", "launch", "stopping", "gone"},
         token : Nat, todo : 0..NOcc]
Job == [by : Procs, occ : Occs, attempt : Nat, token : Nat]

Attempts(o) == Len(attempt[o])
Active(o) == task[o].status \in {"claimed", "running"}
Enabled(o) == enabled[setup.auto[o]]
Overlap(o) == setup.overlap[setup.auto[o]]
Retries(o) == setup.retries[setup.auto[o]]

(* A lane is an automation in one mode, production or preview.             *)
SameLane(o, r) == setup.auto[o] = setup.auto[r] /\ setup.preview[o] = setup.preview[r]
BusyBugForgetsClaimed(o) ==
  \E r \in Occs \ {o} : SameLane(o, r) /\ task[r].status = "running"
Busy(o) == \E r \in Occs \ {o} : SameLane(o, r) /\ Active(r)

Fresh(o) == task[o].status = "scheduled" /\ Attempts(o) = 0
Supersedes(o, r) == Fresh(o) /\ Active(r) /\ SameLane(o, r) /\ setup.at[r] < setup.at[o]
Overtaken(r) == Fresh(r) /\ \E o \in Occs : o > r /\ SameLane(o, r) /\ Fresh(o)

(* requireDuty and requireMutableTask.                                     *)
Holds(token) == duty.live /\ duty.token = token
Mutable(o, token) ==
  /\ Holds(token)
  /\ Active(o) /\ task[o].token = token /\ task[o].live

-----------------------------------------------------------------------------
(* ingestExternal, createManual.                                           *)
trigger(o) ==
  /\ setup.trigger[o] = "event" /\ occ[o] = "absent" /\ Enabled(o)
  /\ occ' = [occ EXCEPT ![o] = "pending"]
  /\ task' = [task EXCEPT ![o].status = "scheduled"]
  /\ UNCHANGED <<setup, enabled, duty, attempt, run, proc, local>>

(* Pause, resume or delete a definition.                                   *)
changeApproved(a) ==
  /\ "change" \in setup.calls
  /\ enabled' = [enabled EXCEPT ![a] = ~@]
  /\ UNCHANGED <<setup, duty, ledger, proc, local>>

-----------------------------------------------------------------------------
(* A tick.  ensureDuty renews the duty lease, or acquires it if it is free.*)
Go(p, phase) == proc' = [proc EXCEPT ![p].phase = phase]

tick(p) ==
  /\ proc[p].phase = "idle"
  /\ \/ Holds(proc[p].token) /\ Go(p, "scan") /\ UNCHANGED duty
     \/ /\ ~duty.live
        /\ duty' = [token |-> duty.token + 1, live |-> TRUE]
        /\ proc' = [proc EXCEPT ![p].phase = "scan", ![p].token = duty'.token]
     \/ /\ duty.live /\ proc[p].token \notin {0, duty.token}
        /\ proc' = [proc EXCEPT ![p].token = 0] /\ UNCHANGED duty
  /\ UNCHANGED <<setup, enabled, ledger, local>>

(* recoverExpiredTasks: what never started is put back, what may have run  *)
(* is unknown unless it may be repeated.                                   *)
ExpiredBugRunningOnly == {o \in Occs : task[o].status = "running" /\ ~task[o].live}
Expired == {o \in Occs : Active(o) /\ ~task[o].live}
RepeatableBugNoLimit(o) == Retries(o) > 0
Repeatable(o) == Attempts(o) <= Retries(o)
Lost(o) == task[o].status = "running" /\ ~Repeatable(o)
CloseAttemptsBugUnmarked(S) == UNCHANGED attempt
CloseAttempts(S) ==
  attempt' = [o \in Occs |->
    IF o \in S
    THEN [attempt[o] EXCEPT ![Attempts(o)] = IF @ = "claimed" THEN "lost" ELSE "unknown"]
    ELSE attempt[o]]
RecoveredBugPending(o) == [Absent EXCEPT !.status = IF Lost(o) THEN "unknown" ELSE "pending"]
Recovered(o) == [task[o] EXCEPT !.status = IF Lost(o) THEN "unknown" ELSE "scheduled",
                                !.token = 0, !.live = FALSE]

(* materializeDue: of the times that are due some are kept, or one is      *)
(* recorded as skipped, and the rest never come back: next_run_at moves on.*)
Scheduled == {o \in Occs : setup.trigger[o] = "schedule"}
Due == {o \in Scheduled : /\ occ[o] = "absent" /\ Enabled(o)
                          /\ \A r \in Scheduled : r > o /\ setup.auto[r] = setup.auto[o]
                                                  => occ[r] = "absent"}
Materialized(kept, skipped) ==
  \A o \in skipped, r \in kept \cup skipped :
    setup.auto[o] = setup.auto[r] => o = r /\ r \notin kept

(* The two, one after the other, on different rows; neither asks for the   *)
(* fence, and what is due or expired in between may as well be later.      *)
scan(p) ==
  /\ proc[p].phase = "scan"
  /\ CloseAttempts(Expired)
  /\ \E kept \in SUBSET Due, skipped \in SUBSET Due :
       /\ Materialized(kept, skipped)
       /\ task' = [o \in Occs |-> IF o \in Expired THEN Recovered(o)
                                  ELSE IF o \in kept THEN [Absent EXCEPT !.status = "scheduled"]
                                  ELSE task[o]]
       /\ occ' = [o \in Occs |-> IF o \in Expired /\ Lost(o) THEN "unknown"
                                 ELSE IF o \in kept THEN "pending"
                                 ELSE IF o \in skipped THEN "skipped" ELSE occ[o]]
  /\ run' = [o \in Occs |-> IF o \in Expired /\ Lost(o) THEN "unknown" ELSE run[o]]
  /\ Go(p, "sweep")
  /\ UNCHANGED <<setup, enabled, duty, local>>

(* Tasks in S are dropped before they were claimed, those in C are asked   *)
(* to cancel.                                                              *)
Dropped(S) == [o \in Occs |-> IF o \in S THEN "skipped" ELSE occ[o]]
Marked(S, C, o) ==
  IF o \in S THEN [task[o] EXCEPT !.status = "cancelled", !.cancel = TRUE]
  ELSE [task[o] EXCEPT !.cancel = @ \/ o \in C]

(* requestCancellationForSupersededTasks and coalesceQueuedTasks, both     *)
(* fenced: without the duty the tick ends here.  The requests of the first *)
(* do not matter to the second, so the two are one step.                   *)
sweep(p) ==
  /\ proc[p].phase = "sweep"
  /\ IF Holds(proc[p].token)
     THEN LET S == {r \in Occs : Overtaken(r) /\ Busy(r) /\ Enabled(r) /\ Overlap(r) = "queue-one"}
              C == {r \in Occs : \E o \in Occs : Supersedes(o, r) /\ Enabled(o)
                                                 /\ Overlap(o) = "cancel-previous"}
          IN /\ occ' = Dropped(S) /\ task' = [o \in Occs |-> Marked(S, C, o)]
             /\ Go(p, "claim")
     ELSE Go(p, "idle") /\ UNCHANGED <<occ, task>>
  /\ UNCHANGED <<setup, enabled, duty, attempt, run, local>>

-----------------------------------------------------------------------------
(* claimNextTask passes the candidates it cannot claim yet, asking what    *)
(* they replace to cancel and dropping what they overtake, until it claims *)
(* one or drops it.  A dropped one is no claim, and the loop goes on (as   *)
(* it does when an earlier candidate of the same transaction dropped it).  *)
Candidates == {o \in Occs : task[o].status = "scheduled" /\ Enabled(o)}
Free(p) == Cardinality(slot[p]) < MaxConcurrency
Waits(o) == Busy(o) /\ \/ Overlap(o) = "cancel-previous"
                       \/ Overlap(o) = "queue-one" /\ ~Overtaken(o)
Claimed(p, o) ==
  [status |-> "claimed", token |-> proc[p].token, live |-> TRUE, cancel |-> task[o].cancel]

\* Passing the candidates in seen, the last of them taken, drops some tasks
\* and asks others to cancel.
PassDrops(seen, taken) ==
  {r \in Occs : \/ /\ Overtaken(r)
                   /\ \E c \in seen : SameLane(c, r) /\ Busy(c) /\ Overlap(c) = "queue-one"
                \/ r \in taken /\ Busy(r) /\ Overlap(r) = "skip"}
PassAsks(seen) ==
  {r \in Occs : \E c \in seen : Supersedes(c, r) /\ Overlap(c) = "cancel-previous"}
Pass(p, seen, taken) ==
  /\ occ' = Dropped(PassDrops(seen, taken))
  /\ task' = [r \in Occs |->
       IF r \in taken /\ ~Busy(r) THEN Claimed(p, r)
       ELSE Marked(PassDrops(seen, taken), PassAsks(seen), r)]

claimNext(p) ==
  /\ proc[p].phase = "claim" /\ Free(p) /\ Holds(proc[p].token)
  /\ \E o \in Candidates :
       /\ ~Waits(o) /\ \A c \in Candidates : c < o => Waits(c)
       /\ Pass(p, {c \in Candidates : c <= o}, {o})
       /\ IF Busy(o)
          THEN UNCHANGED <<attempt, proc>>
          ELSE /\ attempt' = [attempt EXCEPT ![o] = Append(@, "claimed")]
               /\ proc' = [proc EXCEPT ![p].phase = "launch", ![p].todo = o]
  /\ UNCHANGED <<setup, enabled, duty, run, local>>

claimNone(p) ==
  /\ proc[p].phase = "claim"
  /\ IF Free(p) /\ Holds(proc[p].token)
     THEN (\A c \in Candidates : Waits(c)) /\ Pass(p, Candidates, {})
     ELSE UNCHANGED <<occ, task>>
  /\ Go(p, "idle")
  /\ UNCHANGED <<setup, enabled, duty, attempt, run, local>>

(* launch: the entry in active is set whether or not startTask succeeds;   *)
(* an execution deletes the entry of its task when it ends or fails, which *)
(* may be one of an earlier or a later attempt.                            *)
launch(p) ==
  LET o == proc[p].todo
      job == [by |-> p, occ |-> o, attempt |-> Attempts(o), token |-> proc[p].token]
  IN
  /\ proc[p].phase = "launch"
  /\ IF Mutable(o, proc[p].token) /\ task[o].status = "claimed"
     THEN /\ task' = [task EXCEPT ![o].status = "running", ![o].live = TRUE]
          /\ attempt' = [attempt EXCEPT ![o][Attempts(o)] = "running"]
          /\ jobs' = jobs \cup {job}
          /\ slot' = [slot EXCEPT ![p] = @ \cup {o}]
          /\ runs' = [runs EXCEPT ![o] = @ + 1]
     ELSE /\ slot' = [slot EXCEPT ![p] = @ \ {o}]
          /\ UNCHANGED <<task, attempt, jobs, runs>>
  /\ proc' = [proc EXCEPT ![p].phase = "claim", ![p].todo = 0]
  /\ UNCHANGED <<setup, enabled, duty, occ, run>>

-----------------------------------------------------------------------------
(* Between ticks: the runner of a job returns, or its signal is aborted,   *)
(* by a timeout, a failed heartbeat or a request, and it is waited for no  *)
(* longer.  completeTask writes the outcome to the latest attempt, or      *)
(* refuses; the entry in active is deleted either way.                     *)
Idle(p) == proc[p].phase \in {"idle", "stopping", "gone"}

completeTask(j) ==
  /\ Idle(j.by)
  /\ \E out \in {"ended", "cancelled"} :
       IF Mutable(j.occ, j.token)
       THEN /\ task' = [task EXCEPT ![j.occ].status = out, ![j.occ].live = FALSE]
            /\ attempt' = [attempt EXCEPT ![j.occ][Attempts(j.occ)] = out]
            /\ run' = [run EXCEPT ![j.occ] = out]
            /\ occ' = [occ EXCEPT ![j.occ] = out]
       ELSE UNCHANGED ledger
  /\ jobs' = jobs \ {j}
  /\ slot' = [slot EXCEPT ![j.by] = @ \ {j.occ}]
  /\ UNCHANGED <<setup, enabled, duty, proc, runs>>

(* A caller asks to cancel a task.                                         *)
cancel(o) ==
  /\ "cancel" \in setup.calls
  /\ ~task[o].cancel
  /\ Active(o) \/ task[o].status = "scheduled"
  /\ IF Active(o)
     THEN task' = [task EXCEPT ![o].cancel = TRUE] /\ UNCHANGED occ
     ELSE /\ task' = [task EXCEPT ![o].status = "cancelled", ![o].cancel = TRUE]
          /\ occ' = [occ EXCEPT ![o] = "cancelled"]
  /\ UNCHANGED <<setup, enabled, duty, attempt, run, proc, local>>

(* stop aborts what active lists and waits for it before it gives the duty *)
(* back.  The last process neither stops nor crashes.                      *)
Serving(p) == proc[p].phase \notin {"stopping", "gone"}
Relieved(p) == \E q \in Procs \ {p} : Serving(q)
stop(p) ==
  /\ proc[p].phase = "idle" /\ Relieved(p)
  /\ Go(p, "stopping")
  /\ UNCHANGED <<setup, enabled, duty, ledger, local>>
releaseDuty(p) ==
  /\ proc[p].phase = "stopping" /\ slot[p] = {}
  /\ duty' = IF duty.token = proc[p].token THEN [duty EXCEPT !.live = FALSE] ELSE duty
  /\ Go(p, "gone")
  /\ UNCHANGED <<setup, enabled, ledger, local>>

crash(p) ==
  /\ proc[p].phase # "gone" /\ (Serving(p) => Relieved(p))
  /\ proc' = [proc EXCEPT ![p].phase = "gone", ![p].todo = 0]
  /\ jobs' = {j \in jobs : j.by # p}
  /\ slot' = [slot EXCEPT ![p] = {}]
  /\ UNCHANGED <<setup, enabled, duty, ledger, runs>>

-----------------------------------------------------------------------------
(* Leases run out when nobody renews them, or when a process stalls.       *)
Ownerless == \A p \in Procs : proc[p].token = duty.token => ~Serving(p)
expire ==
  /\ duty.live /\ (Ownerless \/ duty.token < setup.maxToken)
  /\ duty' = [duty EXCEPT !.live = FALSE]
  /\ UNCHANGED <<setup, enabled, ledger, proc, local>>

Attended(o) ==
  \/ \E j \in jobs : j.occ = o /\ j.token = task[o].token /\ Holds(j.token)
  \/ \E p \in Procs : proc[p].todo = o /\ proc[p].token = task[o].token
lapse(o) ==
  /\ Active(o) /\ task[o].live
  /\ ~Attended(o) \/ Attempts(o) <= setup.maxLapse
  /\ task' = [task EXCEPT ![o].live = FALSE]
  /\ UNCHANGED <<setup, enabled, duty, occ, attempt, run, proc, local>>

-----------------------------------------------------------------------------
Init ==
  /\ setup \in Setups
  /\ enabled = [a \in Autos |-> TRUE]
  /\ duty = [token |-> 0, live |-> FALSE]
  /\ occ = [o \in Occs |-> "absent"] /\ task = [o \in Occs |-> Absent]
  /\ attempt = [o \in Occs |-> <<>>] /\ run = [o \in Occs |-> "none"]
  /\ proc = [p \in Procs |-> [phase |-> "idle", token |-> 0, todo |-> 0]]
  /\ slot = [p \in Procs |-> {}] /\ jobs = {}
  /\ runs = [o \in Occs |-> 0]

Tick(p) ==
  \/ tick(p) \/ scan(p) \/ sweep(p)
  \/ claimNext(p) \/ claimNone(p) \/ launch(p)
ProcStep(p) ==
  \/ Tick(p) \/ stop(p) \/ releaseDuty(p) \/ crash(p)

Next ==
  \/ \E p \in Procs : ProcStep(p)
  \/ \E j \in jobs : completeTask(j)
  \/ \E o \in Occs : trigger(o) \/ cancel(o) \/ lapse(o)
  \/ \E a \in Autos : changeApproved(a)
  \/ expire

Spec == Init /\ [][Next]_vars

(* Timers fire, runners return or time out and are heard between two       *)
(* ticks, and leases that nobody renews run out.                           *)
Fairness ==
  /\ \A p \in Procs : /\ WF_vars(Tick(p)) /\ WF_vars(releaseDuty(p))
                      /\ SF_vars(\E j \in jobs : j.by = p /\ completeTask(j))
  /\ \A o \in Occs : WF_vars(~Attended(o) /\ lapse(o))
  /\ WF_vars(Ownerless /\ expire)

FairSpec == Spec /\ Fairness

-----------------------------------------------------------------------------
(* Every row, coordinator and execution is well formed.                    *)
TypeOK ==
  /\ setup \in Setups
  /\ enabled \in [Autos -> BOOLEAN]
  /\ duty \in [token : Nat, live : BOOLEAN]
  /\ occ \in [Occs -> {"absent", "pending", "skipped"} \cup Ended]
  /\ task \in [Occs -> Task]
  /\ attempt \in [Occs -> Seq({"claimed", "running", "lost"} \cup Ended)]
  /\ run \in [Occs -> {"none"} \cup Ended]
  /\ proc \in [Procs -> Proc] /\ slot \in [Procs -> SUBSET Occs]
  /\ jobs \subseteq Job /\ runs \in [Occs -> Nat]

(* The four tables tell one story, whoever wrote last: recovery finds the  *)
(* attempt of every expired task and never a run that is there already,    *)
(* or it would throw and no tick would get past it again.                  *)
LedgerAgrees ==
  \A o \in Occs :
    /\ Active(o) \/ task[o].status = "scheduled" <=> occ[o] = "pending"
    /\ Active(o) => Attempts(o) > 0 /\ attempt[o][Attempts(o)] = task[o].status
    /\ \A n \in 1..Attempts(o) :
         n < Attempts(o) \/ ~Active(o) => attempt[o][n] \notin {"claimed", "running"}
    /\ run[o] # "none" => run[o] = task[o].status /\ run[o] = occ[o]
    /\ task[o].status \in {"ended", "unknown"} => run[o] = task[o].status

(* Two occurrences of one automation and mode are never both claimed or    *)
(* running, within a process or across processes: whatever the overlap     *)
(* policy, and through recovery, retries, stalls and hand-over.            *)
OverlapExclusive ==
  \A o, r \in Occs : o # r /\ SameLane(o, r) => ~(Active(o) /\ Active(r))

(* Every occurrence of a definition that stays active reaches an outcome,  *)
(* through crashes, hand-overs, lost leases and its overlap policy.        *)
Settles ==
  \A o \in Occs : <>[]Enabled(o) => (occ[o] = "pending" ~> occ[o] # "pending")

(* A coordinator that lists nothing as active executes nothing: "in-memory *)
(* runners must join before Host restart" (isRunnerQuiescent, whenIdle).   *)
QuiescentIsIdle ==
  \A j \in jobs : slot[j.by] # {}
=============================================================================
