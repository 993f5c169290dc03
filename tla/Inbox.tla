------------------------------- MODULE Inbox -------------------------------
(***************************************************************************)
(* The Delivery Inbox of one owner: durable rows in SQLite (store.ts), the *)
(* admission of inbound messages and the /stop and /new boundaries         *)
(* (service.ts), the coordinator that claims a row and drives it to its    *)
(* dispatch (coordinator.ts, agent-runtime.ts), and input typed into the   *)
(* native web session (native-web-owner.ts).  Several Hosts share one      *)
(* database.                                                               *)
(*                                                                         *)
(* A message is its admission sequence, 1..NMsg; all of them belong to one *)
(* scope (workspace, preset, principal), which is what claimInbox          *)
(* serialises.  A binding of a conversation is its generation, and stands  *)
(* for the Session it names.  Of failure_code the row keeps what the code  *)
(* asks of it: none, started (dispatch-started), recovery (the markers of  *)
(* an interrupted permission command), native (native-admission and        *)
(* native-dispatch-started) or other.  live is lease_until > now, due is   *)
(* next_attempt_at <= now or NULL.  Whether the execution lease of the     *)
(* Session is busy or unknown is left open here: module SessionLease.      *)
(*                                                                         *)
(* A name with a Bug suffix is a plausible defect of the operator that     *)
(* follows it; no specification uses it.                                   *)
(***************************************************************************)
EXTENDS Integers, FiniteSets

CONSTANTS
  Hosts,           \* plugin incarnations (ownerId) sharing the database
  NoHost,          \* claimed_by IS NULL
  NMsg,            \* how many messages are ever admitted
  Convs, ConvOf,   \* conversations; a message's conversation
  KindOf,          \* what a message is, see Kinds
  MaxAttempts, MaxConcurrency,
  MaxRetries,      \* bound: operator retries of each message
  MaxDefers,       \* bound: times a busy Session puts a message off
  MaxClaims,       \* bound: claims of a permission command
  MayDrain,        \* whether a restart fence is ever raised
  MayStall,        \* whether a Host may stall past its lease
  MayRevoke        \* whether the principal may be revoked

Msgs == 1..NMsg

(* permission stands for every command with a recovery marker of its own   *)
(* (feedback, learning and workflow take the same path).                   *)
Kinds == {"turn", "permission", "stop", "new", "native"}

ASSUME InboxAssumption ==
  /\ NMsg \in Nat /\ MaxAttempts \in Nat \ {0} /\ MaxConcurrency \in Nat \ {0}
  /\ MaxRetries \in [Msgs -> Nat] /\ MaxDefers \in Nat /\ MaxClaims \in Nat
  /\ NoHost \notin Hosts
  /\ ConvOf \in [Msgs -> Convs] /\ KindOf \in [Msgs -> Kinds]
  /\ {MayDrain, MayStall, MayRevoke} \subseteq BOOLEAN

VARIABLES
  inbox,       \* inbox_messages with attempts, resolutions and foreground rows
  gen,         \* generation of each conversation's active binding
  authorized,  \* whether the principal, and so every binding, is active
  draining,    \* delivery_restart_fence holds a row
  ops,         \* operations running in the Hosts
  trans        \* the /stop or /new each Host holds a conversation for

vars == <<inbox, gen, authorized, draining, ops, trans>>

Statuses == {"absent", "received", "queued", "claimed", "retry_wait",
             "processed", "dead_letter"}
Finished == {"processed", "dead_letter"}
Codes == {"none", "started", "recovery", "native", "other"}

\* fg: a delivery_foreground_executions row exists; replied: the terminal
\* Outbox reply of a permission command exists; decided: one more than the
\* attempt count of the latest operator decision; runs: dispatches from the
\* message's own text.
Row == [status : Statuses, code : Codes, gen : Nat, claimedBy : Hosts \cup {NoHost},
        token : Nat, live : BOOLEAN, due : BOOLEAN, attempts : Nat, fence : Nat,
        open : BOOLEAN, fg : BOOLEAN, replied : BOOLEAN, decided : Nat,
        retries : Nat, runs : Nat]

\* prep: preparing; open: holds its Session; begun: foreground row written;
\* run: dispatch marker written; safe: cancelled, will reply no more.
Phases == {"prep", "open", "begun", "run", "safe"}
Op == [msg : Msgs, token : Nat, host : Hosts, gen : Nat, phase : Phases,
       aborted : BOOLEAN, stopped : BOOLEAN, victim : BOOLEAN, tracked : BOOLEAN]

Absent == [status |-> "absent", code |-> "none", gen |-> 0, claimedBy |-> NoHost,
           token |-> 0, live |-> FALSE, due |-> TRUE, attempts |-> 0, fence |-> 0,
           open |-> FALSE, fg |-> FALSE, replied |-> FALSE, decided |-> 0,
           retries |-> 0, runs |-> 0]
NoTransition == [msg |-> 0, gen |-> 0]

Unfinished(m) == inbox[m].status \notin Finished \cup {"absent"}
Command(m) == KindOf[m] \in {"stop", "new"}
BindingActive(m, g) == authorized /\ gen[ConvOf[m]] = g

-----------------------------------------------------------------------------
(* Row updates.                                                            *)

ClearClaimBugLeavesAttempt(r) == [r EXCEPT !.claimedBy = NoHost, !.token = 0, !.live = FALSE]
ClearClaim(r) ==
  [r EXCEPT !.claimedBy = NoHost, !.token = 0, !.live = FALSE, !.open = FALSE]
Dead(r) == [ClearClaim(r) EXCEPT !.status = "dead_letter", !.code = "other", !.due = TRUE]

Exhausted(r) == r.attempts >= MaxAttempts /\ r.code # "recovery"

AmbiguousBugForgetsMarker(m, r) == r.fg \/ r.code = "native"
(* A lost claim that may have been dispatched, and is no permission        *)
(* command that can reconcile itself.                                      *)
Ambiguous(m, r) ==
  r.fg \/ r.code = "native" \/ (r.code = "started" /\ KindOf[m] # "permission")

Interrupted(m, r) == KindOf[m] = "permission" /\ r.code \in {"started", "recovery"}

recoverInbox(m, r) ==
  IF r.status # "claimed" \/ r.live THEN r
  ELSE IF Interrupted(m, r) /\ r.replied
       THEN [ClearClaim(r) EXCEPT !.status = "processed", !.code = "none"]
  ELSE IF Ambiguous(m, r) \/ (r.attempts >= MaxAttempts /\ ~Interrupted(m, r))
       THEN Dead(r)
       ELSE [ClearClaim(r) EXCEPT !.status = "retry_wait", !.due = TRUE,
               !.code = IF Interrupted(m, r) THEN "recovery" ELSE "other"]

ExhaustBugOffByOne(r) ==
  IF r.status = "retry_wait" /\ r.due /\ r.attempts > MaxAttempts /\ r.code # "recovery"
  THEN Dead(r) ELSE r
(* The first statement of claimInbox dead-letters what no query may claim. *)
Exhaust(r) ==
  IF r.status = "retry_wait" /\ r.due /\ Exhausted(r) THEN Dead(r) ELSE r

LaneFreeBugUnchecked(rows) == TRUE
LaneFree(rows) == \A a \in Msgs : rows[a].status # "claimed"

EarlierBoundBugSkipsRetryWait(rows, m) ==
  {e \in 1..(m - 1) : rows[e].gen # 0 /\ rows[e].status \in {"queued", "claimed"}}
EarlierBound(rows, m) ==
  {e \in 1..(m - 1) : rows[e].gen # 0 /\ rows[e].status \notin Finished}

(* The candidate query of claimInbox.                                      *)
Claimable(rows, m) ==
  LET r == rows[m] IN
  /\ r.status \in {"queued", "retry_wait"} /\ r.due /\ r.gen # 0
  /\ r.status = "retry_wait" => ~Exhausted(r)
  /\ EarlierBound(rows, m) = {} /\ LaneFree(rows)
  /\ KindOf[m] = "permission" => r.fence < MaxClaims

(* The fencing token is one more than any in the attempts ledger; the      *)
(* failure code is cleared unless it is a recovery marker.                 *)
Claim(r, h) ==
  [r EXCEPT !.status = "claimed", !.claimedBy = h, !.token = r.fence + 1,
            !.fence = @ + 1, !.live = TRUE, !.due = TRUE, !.attempts = @ + 1,
            !.open = TRUE, !.code = IF @ = "recovery" THEN @ ELSE "none"]

(* The claim an operation works on is still its own and unexpired (the     *)
(* WHERE of finishInbox and markInboxDispatching).                         *)
CurrentBugAnyToken(o) ==
  inbox[o.msg].status = "claimed" /\ inbox[o.msg].live
Current(o) ==
  LET r == inbox[o.msg] IN
  r.status = "claimed" /\ r.claimedBy = o.host /\ r.token = o.token /\ r.live

finishInbox(o, status, code) ==
  IF Current(o)
  THEN [inbox EXCEPT ![o.msg] =
          [ClearClaim(@) EXCEPT !.status = status, !.code = code,
                                !.due = (status # "retry_wait")]]
  ELSE inbox

deferInboxForSessionLeaseBugTwice(o) ==
  [inbox EXCEPT ![o.msg] =
     [ClearClaim(@) EXCEPT !.token = o.token, !.status = "retry_wait",
                           !.code = "other", !.due = FALSE,
                           !.attempts = inbox[o.msg].attempts - 2]]
deferInboxForSessionLease(o) ==
  [inbox EXCEPT ![o.msg] =
     [ClearClaim(@) EXCEPT !.token = o.token, !.status = "retry_wait",
                           !.code = "other", !.due = FALSE,
                           !.attempts = inbox[o.msg].attempts - 1]]

-----------------------------------------------------------------------------
(* Admission.                                                              *)

\* Messages are admitted in the order of their sequence.
Admits(m) ==
  inbox[m].status = "absent" /\ \A e \in 1..(m - 1) : inbox[e].status # "absent"

acceptInbound(m) ==
  /\ Admits(m) /\ KindOf[m] # "native"
  /\ inbox' = [inbox EXCEPT ![m] = [Absent EXCEPT !.status = "received"]]
  /\ UNCHANGED <<gen, authorized, draining, ops, trans>>

\* Between the foreground row and the marker, and all through the admission
\* of native input, a Host's event loop runs nothing else.
Busy(h) ==
  \E o \in ops : /\ o.host = h
                 /\ o.phase = "begun" \/ (KindOf[o.msg] = "native" /\ o.phase = "open")

Pending(m) == {e \in 1..(m - 1) : ConvOf[e] = ConvOf[m] /\ inbox[e].status = "received"}

DrivesBugOutOfOrder(h, m) ==
  inbox[m].status = "received" /\ trans[h][ConvOf[m]] = NoTransition /\ ~Busy(h)
(* A Host drives the oldest received row of a conversation, holding the    *)
(* conversation's transition lock.                                         *)
Drives(h, m) ==
  /\ inbox[m].status = "received" /\ Pending(m) = {}
  /\ trans[h][ConvOf[m]] = NoTransition /\ ~Busy(h)

(* The principal is not authorized, or Policy denies the ingest.           *)
reject(h, m) ==
  /\ Drives(h, m)
  /\ inbox' = [inbox EXCEPT ![m] = Dead(@)]
  /\ UNCHANGED <<gen, authorized, draining, ops, trans>>

queueInbox(h, m) ==
  /\ Drives(h, m) /\ authorized /\ ~Command(m)
  /\ inbox' = [inbox EXCEPT ![m].status = "queued", ![m].gen = gen[ConvOf[m]]]
  /\ UNCHANGED <<gen, authorized, draining, ops, trans>>

\* Earlier rows of the conversation no claim of which was dispatched.
UndispatchedBugSkipsClaimed(m) ==
  {e \in 1..(m - 1) : ConvOf[e] = ConvOf[m]
                      /\ inbox[e].status \in {"received", "queued", "retry_wait"}}
Undispatched(m) ==
  {e \in 1..(m - 1) :
     /\ ConvOf[e] = ConvOf[m]
     /\ \/ inbox[e].status \in {"received", "queued", "retry_wait"}
        \/ inbox[e].status = "claimed" /\ inbox[e].code = "none"}

\* The runtime has a session control for the operation.
Controlled(o) ==
  KindOf[o.msg] \in {"turn", "permission"} /\ o.phase \in {"open", "begun", "run"}

(* cancelUndispatchedInboxBefore, then cancelActive: earlier undispatched  *)
(* rows are dead-lettered, an interrupted permission command is marked for *)
(* recovery, and the Host's own operations on them are to end.             *)
fence(h, m) ==
  /\ Drives(h, m) /\ authorized /\ Command(m)
  /\ inbox' = [e \in Msgs |->
       IF e \in Undispatched(m) THEN Dead(inbox[e])
       ELSE IF /\ e < m /\ ConvOf[e] = ConvOf[m] /\ KindOf[e] = "permission"
               /\ inbox[e].status = "claimed" /\ inbox[e].code = "started"
            THEN [inbox[e] EXCEPT !.code = "recovery"] ELSE inbox[e]]
  /\ ops' = {[o EXCEPT !.stopped = @ \/ /\ o.host = h /\ Controlled(o)
                                        /\ ConvOf[o.msg] = ConvOf[m]
                                        /\ o.gen = gen[ConvOf[m]],
                       !.victim = @ \/ /\ o.host = h /\ o.tracked
                                       /\ inbox[o.msg].status = "claimed"
                                       /\ o.msg \in Undispatched(m)] : o \in ops}
  /\ trans' = [trans EXCEPT ![h][ConvOf[m]] = [msg |-> m, gen |-> gen[ConvOf[m]]]]
  /\ UNCHANGED <<gen, authorized, draining>>

DrainedBugNoWait(h, c) == TRUE
(* The cancelled turn will reply no more, and the cancelled claims ended.  *)
Drained(h, c) ==
  \A o \in ops : o.host = h /\ ConvOf[o.msg] = c =>
                   (o.stopped => o.phase = "safe") /\ ~o.victim

(* queueInbox for /stop, rotateBindingAndQueueCommand for /new; either     *)
(* fails when another Host was faster or the principal was revoked.        *)
commit(h, c) ==
  LET t == trans[h][c] IN
  /\ t.msg # 0 /\ Drained(h, c) /\ ~Busy(h)
  /\ trans' = [trans EXCEPT ![h][c] = NoTransition]
  /\ IF inbox[t.msg].status = "received" /\ BindingActive(t.msg, t.gen)
     THEN /\ gen' = [gen EXCEPT ![c] = @ + IF KindOf[t.msg] = "new" THEN 1 ELSE 0]
          /\ inbox' = [inbox EXCEPT ![t.msg].status = "queued", ![t.msg].gen = gen'[c]]
     ELSE UNCHANGED <<inbox, gen>>
  /\ UNCHANGED <<authorized, draining, ops>>

(* createSession fails; the command stays received and is driven again.    *)
transitionFails(h, c) ==
  /\ trans[h][c].msg # 0 /\ KindOf[trans[h][c].msg] = "new" /\ Drained(h, c)
  /\ trans' = [trans EXCEPT ![h][c] = NoTransition]
  /\ UNCHANGED <<inbox, gen, authorized, draining, ops>>

-----------------------------------------------------------------------------
(* The coordinator and the runtime.                                        *)

NewOp(m, h, phase) ==
  [msg |-> m, token |-> inbox[m].fence + 1, host |-> h, gen |-> inbox[m].gen,
   phase |-> phase, aborted |-> FALSE, stopped |-> FALSE, victim |-> FALSE,
   tracked |-> (phase = "prep")]

Active(h) == {o.msg : o \in {p \in ops : p.host = h /\ p.tracked}}

(* InboundCoordinator.tick: recoverInbox, then, with capacity left,        *)
(* claimInbox.  The map of active operations is keyed by message: a new    *)
(* claim takes the place of an operation that lost the previous one.       *)
Tick(h) ==
  /\ ~Busy(h)
  /\ LET recovered == [m \in Msgs |-> recoverInbox(m, inbox[m])]
         rows == [m \in Msgs |-> Exhaust(recovered[m])]
         taken == {m \in Msgs : Claimable(rows, m)}
     IN IF draining \/ Cardinality(Active(h)) >= MaxConcurrency
        THEN inbox' = recovered /\ UNCHANGED ops
        ELSE /\ inbox' = [m \in Msgs |-> IF m \in taken THEN Claim(rows[m], h) ELSE rows[m]]
             /\ ops' = {IF o.host = h /\ o.msg \in taken
                        THEN [o EXCEPT !.tracked = FALSE] ELSE o : o \in ops}
                       \cup {NewOp(m, h, "prep") : m \in taken}
  /\ UNCHANGED <<gen, authorized, draining, trans>>

Update(o, p) == ops' = (ops \ {o}) \cup {p}

(* The Session is nobody else's.                                           *)
SessionFree(o) ==
  \A p \in ops : /\ p # o /\ ConvOf[p.msg] = ConvOf[o.msg] /\ p.gen = o.gen
                 /\ KindOf[p.msg] \in {"turn", "permission"}
                 => p.phase = "prep"

(* prepare returned; the binding is checked again and process takes the    *)
(* execution lease of the Session.                                         *)
Open(o) ==
  /\ o.phase = "prep" /\ ~o.aborted /\ ~Busy(o.host) /\ ~Command(o.msg)
  /\ BindingActive(o.msg, o.gen) /\ SessionFree(o)
  /\ Update(o, [o EXCEPT !.phase = "open"])
  /\ UNCHANGED <<inbox, gen, authorized, draining, trans>>

(* The Session is held by another execution: the claim is returned without *)
(* counting an attempt, or as an ordinary retry once the lease is gone or  *)
(* the row carries a marker.                                               *)
SessionBusy(o) ==
  /\ o.phase = "prep" /\ ~o.aborted /\ ~Busy(o.host) /\ ~Command(o.msg)
  /\ BindingActive(o.msg, o.gen)
  /\ ops' = ops \ {o}
  /\ \/ /\ Current(o) /\ inbox[o.msg].code = "none"
        /\ inbox[o.msg].fence - inbox[o.msg].attempts < MaxDefers
        /\ inbox' = deferInboxForSessionLease(o)
     \/ inbox' = finishInbox(o, "retry_wait", "other")
  /\ UNCHANGED <<gen, authorized, draining, trans>>

(* The operation ends before its dispatch: preparation or a check failed,  *)
(* the binding or the principal is gone, the execution lease is unknown,   *)
(* the runtime cannot resume the Session, or it answered without a turn.   *)
(* A failed recovery keeps its marker only once the runtime runs it.       *)
Refuse(o) ==
  /\ o.phase \in {"prep", "open", "begun"} /\ ~o.aborted
  /\ o.phase = "begun" \/ KindOf[o.msg] = "native" \/ ~Busy(o.host)
  /\ ops' = ops \ {o}
  /\ \/ inbox' = finishInbox(o, "dead_letter", "other")
     \/ /\ KindOf[o.msg] # "native"
        /\ inbox' = finishInbox(o, "retry_wait",
             IF o.phase = "open" /\ inbox[o.msg].code = "recovery"
             THEN "recovery" ELSE "other")
     \/ /\ KindOf[o.msg] = "turn" /\ o.phase = "open"
        /\ inbox' = finishInbox(o, "processed", "none")
  /\ UNCHANGED <<gen, authorized, draining, trans>>

(* The foreground row of an owner turn can be written.                     *)
bindForegroundTaskExecution(o) ==
  /\ ~inbox[o.msg].fg
  /\ inbox[o.msg].status = "claimed" /\ inbox[o.msg].gen = o.gen
  /\ BindingActive(o.msg, o.gen)

Begin(o) ==
  /\ o.phase = "open" /\ KindOf[o.msg] \in {"turn", "native"}
  /\ ~o.aborted /\ ~o.stopped /\ (KindOf[o.msg] = "native" \/ ~Busy(o.host))
  /\ bindForegroundTaskExecution(o)
  /\ inbox' = [inbox EXCEPT ![o.msg].fg = TRUE]
  /\ Update(o, [o EXCEPT !.phase = "begun"])
  /\ UNCHANGED <<gen, authorized, draining, trans>>

Markable(o) == Current(o) /\ BindingActive(o.msg, o.gen)

\* A /stop or /new is answered without a Session.
MarksFrom(m) == CASE KindOf[m] \in {"turn", "native"} -> "begun"
                  [] KindOf[m] = "permission" -> "open"
                  [] OTHER -> "prep"

(* markInboxDispatching, and the dispatch it admits.                       *)
Mark(o) ==
  /\ o.phase = MarksFrom(o.msg)
  /\ ~o.aborted /\ ~o.stopped /\ (o.phase = "begun" \/ ~Busy(o.host))
  /\ Markable(o)
  /\ inbox' = [inbox EXCEPT ![o.msg].code = IF @ \in {"native", "recovery"} THEN @ ELSE "started",
                            ![o.msg].runs = @ + IF inbox[o.msg].code = "recovery" THEN 0 ELSE 1]
  /\ Update(o, [o EXCEPT !.phase = "run"])
  /\ UNCHANGED <<gen, authorized, draining, trans>>

(* A permission command queues its terminal reply.                         *)
Reply(o) ==
  /\ o.phase = "run" /\ KindOf[o.msg] = "permission" /\ ~o.aborted /\ ~o.stopped
  /\ ~Busy(o.host) /\ ~inbox[o.msg].replied
  /\ inbox' = [inbox EXCEPT ![o.msg].replied = TRUE]
  /\ UNCHANGED <<gen, authorized, draining, ops, trans>>

(* A cancelled operation reaches its reply boundary; its Session is still  *)
(* being torn down.                                                        *)
ReplySafe(o) ==
  /\ o.stopped /\ o.phase \in {"open", "run"} /\ ~Busy(o.host)
  /\ Update(o, [o EXCEPT !.phase = "safe"])
  /\ UNCHANGED <<inbox, gen, authorized, draining, trans>>

(* process returns after the dispatch: processed, or never to be repeated, *)
(* except for a permission command, which is retried under its marker.     *)
Return(o) ==
  /\ o.phase \in {"run", "safe"} /\ ~o.aborted /\ ~Busy(o.host)
  /\ ops' = ops \ {o}
  /\ \/ /\ KindOf[o.msg] = "permission" => inbox[o.msg].replied
        /\ inbox' = finishInbox(o, "processed", "none")
     \/ inbox' = finishInbox(o, "dead_letter", "other")
     \/ /\ KindOf[o.msg] = "permission" /\ ~inbox[o.msg].replied
        /\ inbox' = finishInbox(o, "retry_wait", "recovery")
  /\ UNCHANGED <<gen, authorized, draining, trans>>

(* The heartbeat finds the claim lost, or a fence or stop aborts it.       *)
Abort(o) ==
  /\ ~o.aborted /\ ~Busy(o.host)
  /\ Update(o, [o EXCEPT !.aborted = TRUE])
  /\ UNCHANGED <<inbox, gen, authorized, draining, trans>>

(* An aborted operation ends; its result is dropped.                       *)
AbortedReturns(o) ==
  /\ o.aborted /\ ~Busy(o.host)
  /\ ops' = ops \ {o}
  /\ UNCHANGED <<inbox, gen, authorized, draining, trans>>

(* NativeWebOwner.prompt: the row is admitted and claimed at once, unless  *)
(* the lane is taken.  It does not look at the restart fence.              *)
claimNativeInbox(h, m) ==
  /\ Admits(m) /\ KindOf[m] = "native" /\ authorized /\ ~Busy(h)
  /\ \A e \in Msgs : Unfinished(e) =>
       inbox[e].gen = 0 /\ ConvOf[e] # ConvOf[m]
  /\ LET r == [Absent EXCEPT !.gen = gen[ConvOf[m]]] IN
     /\ inbox' = [inbox EXCEPT ![m] = [Claim(r, h) EXCEPT !.code = "native"]]
     /\ ops' = ops \cup {[NewOp(m, h, "open") EXCEPT !.gen = r.gen]}
  /\ UNCHANGED <<gen, authorized, draining, trans>>

(* A crash, or stop and a new start.                                       *)
Crash(h) ==
  /\ \/ \E o \in ops : o.host = h
     \/ \E c \in Convs : trans[h][c] # NoTransition
  /\ ops' = {o \in ops : o.host # h}
  /\ trans' = [trans EXCEPT ![h] = [c \in Convs |-> NoTransition]]
  /\ UNCHANGED <<inbox, gen, authorized, draining>>

-----------------------------------------------------------------------------
(* Time, the operator and the principal.                                   *)

Attended(m) == \E o \in ops : o.msg = m /\ Current(o) /\ ~o.aborted

Lapse(m) ==
  /\ inbox[m].status = "claimed" /\ inbox[m].live
  /\ inbox' = [inbox EXCEPT ![m].live = FALSE]
  /\ UNCHANGED <<gen, authorized, draining, ops, trans>>

(* A claim runs out while no operation renews it ...                       *)
LapseUnattended(m) == ~Attended(m) /\ Lapse(m)
(* ... or while the Host that should renew it is stalled.                  *)
LapseStalled(m) == MayStall /\ Attended(m) /\ Lapse(m)

BackoffElapses(m) ==
  /\ ~inbox[m].due
  /\ inbox' = [inbox EXCEPT ![m].due = TRUE]
  /\ UNCHANGED <<gen, authorized, draining, ops, trans>>

(* resolveInbox: one decision per (message, attempt_count) of a dead row.  *)
Resolvable(m) ==
  inbox[m].status = "dead_letter" /\ inbox[m].decided # inbox[m].attempts + 1

OperatorCancel(m) ==
  /\ Resolvable(m) /\ inbox[m].retries < MaxRetries[m]
  /\ inbox' = [inbox EXCEPT ![m].decided = inbox[m].attempts + 1]
  /\ UNCHANGED <<gen, authorized, draining, ops, trans>>

OperatorRetry(m) ==
  /\ Resolvable(m) /\ inbox[m].retries < MaxRetries[m]
  /\ BindingActive(m, inbox[m].gen)
  /\ inbox' = [inbox EXCEPT ![m].status = "queued", ![m].code = "none",
                            ![m].decided = inbox[m].attempts + 1, ![m].retries = @ + 1]
  /\ UNCHANGED <<gen, authorized, draining, ops, trans>>

revokePrincipal ==
  /\ MayRevoke /\ authorized /\ authorized' = FALSE
  /\ UNCHANGED <<inbox, gen, draining, ops, trans>>

setRestartFence ==
  /\ MayDrain /\ ~draining /\ draining' = TRUE
  /\ UNCHANGED <<inbox, gen, authorized, ops, trans>>

clearRestartFence ==
  /\ draining /\ draining' = FALSE
  /\ UNCHANGED <<inbox, gen, authorized, ops, trans>>

-----------------------------------------------------------------------------
Init ==
  /\ inbox = [m \in Msgs |-> Absent]
  /\ gen = [c \in Convs |-> 1]
  /\ authorized = TRUE /\ draining = FALSE
  /\ ops = {}
  /\ trans = [h \in Hosts |-> [c \in Convs |-> NoTransition]]

Progress(o) ==
  \/ Open(o) \/ SessionBusy(o) \/ Refuse(o) \/ Begin(o) \/ Mark(o)
  \/ Return(o) \/ AbortedReturns(o)

Drive(h, m) == reject(h, m) \/ queueInbox(h, m) \/ fence(h, m)

Next ==
  \/ \E o \in ops : Progress(o) \/ Reply(o) \/ ReplySafe(o) \/ Abort(o)
  \/ \E h \in Hosts :
       \/ Tick(h) \/ Crash(h)
       \/ \E m \in Msgs : Drive(h, m) \/ claimNativeInbox(h, m)
       \/ \E c \in Convs : commit(h, c) \/ transitionFails(h, c)
  \/ \E m \in Msgs : \/ acceptInbound(m)
                     \/ LapseUnattended(m) \/ LapseStalled(m) \/ BackoffElapses(m)
                     \/ OperatorCancel(m) \/ OperatorRetry(m)
  \/ revokePrincipal \/ setRestartFence \/ clearRestartFence

Spec == Init /\ [][Next]_vars

(* The tick timer, which now and then finds no restart fence and capacity  *)
(* left, with its recovery of admissions; operations that end (the runtime *)
(* bounds them by agentTaskTimeoutMs); leases and backoffs that elapse; a  *)
(* restart fence that is lifted; and a Host that now and then stays up,    *)
(* and creates the Session, for a whole transition.                        *)
Fairness ==
  /\ \A h \in Hosts :
       /\ SF_vars(Tick(h))
       /\ \A m \in Msgs :
            /\ WF_vars(Drive(h, m))
            /\ WF_vars(\E o \in ops : o.host = h /\ o.msg = m /\ Progress(o))
       /\ \A c \in Convs : SF_vars(commit(h, c))
  /\ \A m \in Msgs : WF_vars(LapseUnattended(m)) /\ WF_vars(BackoffElapses(m))
  /\ WF_vars(clearRestartFence)

FairSpec == Spec /\ Fairness

-----------------------------------------------------------------------------
(* Every row, operation and transition is well formed.                     *)
TypeOK ==
  /\ inbox \in [Msgs -> Row]
  /\ gen \in [Convs -> Nat \ {0}]
  /\ authorized \in BOOLEAN /\ draining \in BOOLEAN
  /\ ops \subseteq Op
  /\ trans \in [Hosts -> [Convs -> [msg : Nat, gen : Nat]]]

(* The claim columns and the attempts ledger agree: a row has an owner     *)
(* exactly while it is claimed, under its newest fencing token, with that  *)
(* attempt open in the ledger; a claimed row is bound; no counted attempt  *)
(* lacks a ledger row.                                                     *)
ClaimMatchesLedger ==
  \A m \in Msgs : LET r == inbox[m] IN
    /\ r.attempts <= r.fence
    /\ IF r.status = "claimed"
       THEN r.claimedBy \in Hosts /\ r.token = r.fence /\ r.open /\ r.gen # 0
       ELSE r.claimedBy = NoHost /\ ~r.live /\ ~r.open

(* The owner's scope never has two claimed rows, whatever conversations,   *)
(* Hosts, native input and operator retries do.                            *)
LaneExclusive ==
  \A m, n \in Msgs : inbox[m].status = "claimed" /\ inbox[n].status = "claimed" => m = n

(* A message is not claimed before every earlier one of its conversation   *)
(* has finished, unless an operator revived the earlier one.               *)
InOrder ==
  \A e, m \in Msgs :
    /\ e < m /\ ConvOf[e] = ConvOf[m] /\ inbox[m].fence > 0 /\ inbox[e].retries = 0
    => inbox[e].status \in Finished

(* A /stop or /new that was queued is a boundary: no earlier turn of the   *)
(* conversation starts after it, unless an operator revived that turn.     *)
FenceHolds ==
  [][\A e, m \in Msgs :
       /\ e < m /\ ConvOf[e] = ConvOf[m] /\ Command(m) /\ inbox[m].gen # 0
       /\ KindOf[e] = "turn" /\ inbox[e].retries = 0
       => inbox'[e].runs = inbox[e].runs]_vars

(* A live claim is settled only by the operation that holds it, or by a    *)
(* /stop or /new before it was dispatched; an expired worker cannot commit *)
(* over the claim of its successor.                                        *)
OnlyHolderSettles ==
  [][\A m \in Msgs :
       /\ inbox[m].status = "claimed" /\ inbox[m].live
       /\ inbox'[m].status # "claimed"
       => \/ \E o \in ops \ ops' : /\ o.msg = m /\ o.host = inbox[m].claimedBy
                                   /\ o.token = inbox[m].token
          \/ inbox[m].code = "none" /\ inbox'[m].status = "dead_letter"
             /\ \E h \in Hosts : trans'[h][ConvOf[m]].msg > m]_vars

(* Rotation is last, so no fresh generation executes beside the old        *)
(* (service.ts): in one Host, while a dispatched turn of an old generation *)
(* has not reached its reply boundary, nothing of a newer one has begun,   *)
(* unless an operator revived that turn in the middle of the /new.  It is  *)
(* checked and proved for one Host, as a /new does not wait for another    *)
(* Host's turns, and of turns: a /new that is waiting for its turn to      *)
(* commit does not see a permission command that starts to reconcile.      *)
NoFreshBesideOld ==
  \A o, p \in ops :
    /\ o.host = p.host /\ ConvOf[o.msg] = ConvOf[p.msg] /\ o.gen < p.gen
    /\ KindOf[o.msg] = "turn" /\ o.phase = "run" /\ inbox[o.msg].retries = 0
    => p.phase = "prep"

(* A permission command whose dispatch was interrupted is reconciled under *)
(* its recovery marker; its text is not run a second time.                 *)
ElevationOnce ==
  \A m \in Msgs : KindOf[m] = "permission" => inbox[m].runs <= 1 + inbox[m].retries

(* A turn an operator retries can cross its dispatch boundary.             *)
RetryAdmitted ==
  \A o \in ops :
    /\ KindOf[o.msg] = "turn" /\ inbox[o.msg].retries > 0
    /\ o.phase = "open" /\ Current(o) /\ BindingActive(o.msg, o.gen)
    => bindForegroundTaskExecution(o)

(* Every message that was received is processed or dead-lettered, through  *)
(* crashes, lost claims, busy Sessions and transitions that are cut short. *)
Settles == \A m \in Msgs : inbox[m].status = "received" ~> inbox[m].status \in Finished

=============================================================================
