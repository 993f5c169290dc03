# A TLA+ model of the durable core of dsh-enhanced

dsh-enhanced is a TypeScript monorepo of plugins that turn an Agent host (DSH,
built on Cordis services) into a personal assistant. Messages come in from
channels, become Agent turns in durable Sessions, and answers, notices and
approval cards go out again. Nearly everything that must survive a restart is
a row of a SQLite database in WAL mode, changed in `BEGIN IMMEDIATE`
transactions; everything else is a promise or a timer of one Node process. A
plugin that is reloaded overlaps its predecessor for a while, so two Hosts can
work on one database. The modules here model that shape: durable rows,
in-memory operations that refer to them by token, and whatever may happen in
between.

## 1. Inventory

All paths are under `src/plugins/` unless they say otherwise.

### Delivery Outbox (`assistant-delivery/src/store.ts`, `coordinator.ts`)

- *State*: `outbox_messages` (status, claim, lease, attempt count, binding
  generation, provider message id), `outbox_attempts` (one row per send or
  reconcile), `outbox_resolutions` (operator decisions), the Host's `active`
  map of operations, and what is on its way to the provider.
- *Operations*: enqueue, `tick` (recover, maintain, claim, dispatch), the
  adapter's `send` and `reconcileUnknownSend`, the lease heartbeat, `finish`,
  receipts, operator cancel and retry, binding rotation and revocation, the
  restart fence.
- *Hard*: a crash or a lost lease between "claimed" and "the provider
  answered"; answers that come after the row moved on; two Hosts; order in a
  conversation lane across retries; budgets; authority that changes while a
  message waits; receipts in any order.
- *Correct when*: no message is delivered more often than it was permitted,
  none is sent before its predecessors settled, what the row says about the
  outcome is true and never goes back, retries are bounded, every message
  settles or waits for an operator.

### Delivery Session leases (`store.ts`, `session-lease-runtime.ts`)

- *State*: one row of `delivery_session_leases` per Session (state, claim
  token, expiry, owner); per claim an in-memory `SessionExecutionLease` with
  its pending operations, Agent, abort signal and close flag.
- *Operations*: claim, dispatch, construct an Agent (load, attach, publish,
  roll back, abandon), enter and leave (tool calls, model streams), dispose,
  cancel, close, settle, renew or lapse, crash, change of authority.
- *Hard*: three kinds of work end in any order and each of them settles; a
  cold load that was given up may still be running; a stalled process does not
  know that it lost its lease.
- *Correct when*: nothing of an old holder runs when a new one is admitted, a
  Session never changes hands between identities, a closed lease is given back.

### Delivery Inbox (`store.ts`, `coordinator.ts`, `service.ts`, `agent-runtime.ts`, `native-web-owner.ts`)

- *State*: `inbox_messages` (status, binding, claim, lease, attempt count,
  failure code), `inbox_attempts`, `delivery_foreground_executions`,
  `dead_letter_resolutions`; the Host's `active` map, its session controls and
  the conversation transitions it is in the middle of.
- *Operations*: accept, drive to the queue in order, the `/stop` and `/new`
  boundaries (cancel, wait, queue or rotate), `tick` (recover, claim), prepare,
  take the Session, the foreground row, the dispatch marker, finish, defer,
  the heartbeat, native input, operator cancel and retry, revocation, the
  restart fence.
- *Hard*: a claim lost around its dispatch marker; work cancelled while it is
  on its way to the dispatch, possibly in another Host; a generation rotated
  under a turn that is still ending; order across backoff, deferral and
  revived dead letters; markers that must survive from claim to claim.
- *Correct when*: a message is dispatched at most once by itself, in the order
  of its conversation, never after a `/stop` that covers it, one claim at a
  time per owner, and every message ends.

### Assistant actions broker (`assistant-actions/src/broker-core.ts`, `broker-ledger.ts`)

- *State*: the `meta` row (controller generation, policy and emergency epochs,
  stopped, draining), the controller row with its expiry, grants and their
  revisions, `requests`, `credential_leases`; per daemon its fence, its phase
  and its pending operations with their abort signals.
- *Operations*: start (claim the controller, recover, sync the grants),
  execute (prepare, read credentials, dispatch, transport, settle), stop,
  resume, revoke, drain, close, release, renewal of the controller.
- *Hard*: a daemon that dies or stalls between the durable intent and the
  answer; administration while a write is between its dispatch and its
  transport; two requests for one target, each checked when it was prepared;
  quotas across revisions and outcomes; late settles.
- *Correct when*: a write is sent at most once, an outcome is final and never
  claims more than is known, no two writes in doubt share a target, no grant
  is overdrawn, nothing leaves under a revoked grant, and the next daemon can
  read what the last one left.

### Assistant automations (`assistant-automations/src/store.ts`, `coordinator.ts`)

- *State*: `duty_lease`, definitions, `automation_occurrences`, `_tasks`,
  `_attempts`, `_runs`; per coordinator its token, its `active` map and the
  executions it started.
- *Operations*: tick (duty, recover, materialize, supersede, coalesce, claim,
  start), completion, heartbeat, triggers, cancellation, pause and resume,
  stop and release, crash.
- *Hard*: an execution that outlives its lease, in the same process or after a
  hand-over; retries that compete with later occurrences of their automation
  under three overlap policies; four tables that must tell one story after
  every failure, since recovery throws on a ledger that does not.
- *Correct when*: occurrences of one automation and mode never overlap, each is
  executed within its budget and has one outcome, and each gets one.

### The rest

| Component | State | What is hard about it | Status |
|---|---|---|---|
| Bindings and principals (`store.ts`) | binding generation, principal record version | generations rotate under queued work | as far as Outbox, Inbox and leases depend on them |
| Restart fence and supervisor (`restart-*.ts`) | fence row, restart request | fence raised while work is under way; supervisor crash | fence modelled with Inbox and Outbox, supervisor not |
| Agent runtime and service (`agent-runtime.ts`, `service.ts`) | live Agents | abort and disposal in any order | its use of leases is modelled |
| Approvals, pickers, presentations | approval settlement operations | a decision applied twice | not modelled |
| `assistant-actions` client, embedded backend | sockets, an embedded ledger | the same ledger without a daemon | not modelled |
| `assistant-policy` | proposals, decisions | settlement races | its answer only |
| `assistant-isolation` | sandbox ledger | reconcile after crash | not modelled |
| `assistant-goals` | budgets, executions | reservation against settlement | not modelled |
| `event-triggers` | observation cursors | missed and repeated events | not modelled |
| `plugin-control-plane`, `assistant-recovery` | adoption records, recovery actions | handoff between revisions | not modelled |
| growth, evolution, evaluation, skills, verifier | review pipelines over model output | little concurrent state of their own | not modelled |
| memory, wiki, preferences | content stores | projection barrier | not modelled |
| channels and providers (Lark, web owner, ACP, ...) | connections | wire protocols | abstracted as the provider of the Outbox |
| heartbeat, health, proactive, budgets | schedules | they only enqueue messages | not modelled |
| credentials, packages, CLI, scripts | files and keychain | operating-system I/O | not modelled |

### How the components interact

```
channel -> Inbox -> Agent turn (under a Session lease) -> Outbox -> channel
                        |                                   ^
              actions, policy, goals             automations, heartbeat, approvals
```

The Outbox asks Policy again before it sends an owner route; `/new` rotates the
binding under queued messages; `rotate` and `revoke` end the authority of
leases and messages alike; the restart fence stops Inbox and Outbox except for
maintenance acknowledgements. The broker and the automations each have a
database and a single active process of their own; an Agent asks the broker for
writes, an automation starts an Agent turn and queues its result in the Outbox.

## 2. Modules

| Module | Models |
|---|---|
| `Inbox` | admission, `/stop` and `/new`, claims, dispatch, recovery, operator |
| `DispatchPromise` | the abstract promise about one message that came in |
| `InboxPromise` | the refinement mapping and `KeepsPromise` |
| `MCInbox` | instances for TLC |
| `InboxProofs` | theorems about `Inbox` |
| `Outbox` | rows, Hosts, provider, operator, bindings, fence |
| `DeliveryPromise` | the abstract promise about one message that goes out |
| `OutboxPromise` | the refinement mapping and `KeepsPromise` |
| `MCOutbox` | instances for TLC |
| `OutboxProofs` | theorems about `Outbox`: types, ledger, lanes, budgets |
| `OutboxMoves` | lemmas: what one step may do to one message |
| `OutboxWireProofs` | theorems: rows and the copies that travel, order, the fence |
| `OutboxPromiseProofs` | theorems: one copy per permission, the refinement |
| `SessionLease` | one Session's row and the leases of its claims |
| `SessionPromise` | the abstract promise about one Session's turns |
| `SessionLeasePromise` | the refinement mapping and `KeepsPromise` |
| `MCSessionLease` | instances for TLC |
| `SessionLeaseProofs` | theorems about `SessionLease` |
| `Broker` | broker daemons, their ledger, the writes on their way |
| `EffectPromise` | the abstract promise about external writes |
| `BrokerPromise` | the refinement mapping and `KeepsPromise` |
| `MCBroker` | instances for TLC |
| `BrokerProofs` | theorems about `Broker` |
| `Automations` | duty, occurrences, tasks, attempts, coordinators |
| `JobPromise` | the abstract promise about one occurrence |
| `AutomationsPromise` | the refinement mapping and `KeepsPromise` |
| `MCAutomations` | instances for TLC |
| `AutomationsProofs` | theorems about `Automations` |

### Outbox and the code

A message is its rowid. The row keeps of the ledger what the code asks of it:
`sends` and `recons` (their sum is `attempt_count`, which is also the fencing
token), `open` (an attempts row still `attempting`) and `doubt` (one closed as
accepted or unknown). Times are the comparisons made with them: `live` is
`lease_until > now`, `due` is `next_attempt_at <= now` or NULL.

`Tick` is `DeliveryCoordinator.tick`: `recoverOutbox`, then `claimOutbox`. They
are two transactions, but nothing runs between them in one process and each
row condition is rechecked by the second, so they are one step. Inside
`claimOutbox` the order of the code is kept: bulk dead-lettering (`Doomed`,
computed from the recovered rows), owner routes inspected, deferred, rebound or
dead-lettered (`MaintainRoute`), candidates (`Claimable`), claims (`Claim`,
with the mode taken before the status is overwritten). `process` runs
synchronously up to the adapter's promise, so the claims of a tick are
dispatched in order (`Turn`) before anything else of that Host: `Refuse`, or
`CallAdapter`, and then `SendReturns`, `ReconcileReturns`, or `Abort` followed
by `AbortedReturns`. `finishOutbox` applies to the row only while the fence
holds.

The provider is external: a send is on the `wire`, may `Land` or be lost
(`Lose`), long after the Host forgot it. `stop` waits for its calls for a
bounded time; what it leaves behind is what a crash leaves, so `Crash` stands
for both.

Left out: rows beyond a batch limit, presentation edits, payloads, deduplication
of enqueue and receipts (a replay returns the row it finds and changes
nothing), and the retry and poll delays themselves.

### SessionLease and the code

A lease is named by its token, each claim getting a fresh one.
`Settle` is `#settle`: it does nothing unless closed and not yet released, asks
whether the lease is quiescent, and calls `finishSessionLease`, which writes
`released` or `unknown` only on a row with this token. `late` is history: a
cold load given up while still running; the code cannot see it and remembers
`unobserved` instead, which forbids release for good.
`open` is `claimSessionLease` with its cases in order; a dispatched row found
expired is only marked `unknown` (`claimFindsExpired`).

Left out: `/new` replacing the Session (a new Session has a new row) and a
native `dispose` that throws.

### Inbox and the code

A message is its admission sequence. All messages belong to one scope
(workspace, preset, owner), since that is what `claimInbox` serialises;
conversations are what `/stop`, `/new` and admission order are about. A binding
is its generation and stands for its Session. `failure_code` is reduced to what
the code asks of it (`none`, `started`, `recovery`, `native`, `other`); `runs`
is history, the dispatches from a message's own text.

Admission: `acceptInbound` commits the `received` row. Everything after it -
authorization, Policy, binding, queueing - is the same in
`recoverPendingInbound` and is done for the oldest received row of the
conversation under the Host's transition lock: `reject`, `queueInbox`, or, for
`/stop` and `/new`, `fence` (the transaction of `cancelUndispatchedInboxBefore`
with the synchronous start of `cancelActive`), a wait (`Drained`), and `commit`
or `transitionFails`. Several Hosts may be in the same transition; the second
commit finds the row queued or the generation changed and does nothing.

A claim is an operation with a phase: `Open` (prepared, binding rechecked,
Session taken), `Begin` (foreground row of an owner turn or native input),
`Mark` (the dispatch marker under the fence and the binding, followed by the
dispatch), `Return`. `Begin` and `Mark` are separate transactions of one
synchronous piece of code: a crash may fall between them, other Hosts may act
between them, the same Host does nothing else (`Busy`). `Refuse` is every
return before the marker. `/stop` and `/new` rows need no Session and are
answered from `prep`. `permission` stands for the commands that recover under
a marker of their own.

Left open: the Session lease answers nondeterministically (`Open` only if no
other operation holds the Session, `SessionBusy` and `Refuse` at any time); its
own behaviour is `SessionLease`. Left out: restart continuations, a principal
paired again after its revocation, how each command reconciles itself, and
duplicates of a provider event, which `acceptInbound` answers from the row.

### Broker and the code

A daemon's authority is its fence: `claimController` raises the fence and the
generation together, so one number stands for both; `held` says that the
controller row exists and has not expired. Row versions are left out, because a
row never returns to an earlier status. A request is an action id with what it
asks (a commit, a pull request or an inspection, its head and grant), and
`Settled` maps anything but a success to `unknown`, as `settle` does.

`start` is `claimController` (which recovers, `Terminalize`) and `syncGrants`,
`startFails` a start that ends between them. `prepare`, `dispatch` or
`failPrepared`, `send` and `settle` are the steps of `executePrepared`: between
two of them the code awaits, and anything may happen. `setStopped` and `revoke`
end the rows and abort the operations in one synchronous piece of code, which
`SendIsAuthorized` rests on. `land` and `lose` are GitHub's.

Left out: credential contents and their checks, payload validation, the nonces
and signatures of administration, the audit chain. Calls that are refused are
no steps.

### Automations and the code

An occurrence is its place in the claim order (`scheduled_at`, `trigger_key`,
id); a lease is `live`, which stands for `lease_until > now`. A tick is
synchronous, but each of its store calls is a transaction of its own: the
phases of `Proc` are the places where other processes come between. `scan` is
`recoverExpiredTasks` and `materializeDue`, `sweep` the requests to cancel and
the coalescing, `claimNext` and `claimNone` one call of `claimNextTask` with the
candidates it passes (`Pass`), `launch` is `startTask` and the entry in
`active`. `slot` keeps that map as the code does, keyed by task, and `jobs` the
executions that are really under way.

Left out: Host executor availability, the paused admission of Growth tasks,
circuits and incidents, accepted tasks, definition updates, `dispatchPaused`
and the outboxes of evidence, evaluation and delivery. What a circuit or a
broken snapshot stops counts as a run. An abort only hastens the return of an
execution. Three facts about the code show in the model: an occurrence that
already ran may still be dropped when its retry meets an overlap policy (`Drop`
in `JobPromise`), a claim that was lost before it started uses up the retry
budget, and the scheduled tasks of a paused automation stay scheduled (`Settles`
asks for a definition that stays active).

## 3. Runs

Every property has a defect in the code's terms that TLC finds with the run's
own bounds (operators with the suffix `Bug`).

| Run | Shows | Bounds |
|---|---|---|
| `outbox_contract` | the life of one plain message: ledger, copies, outcome, budgets, fencing, refinement of `DeliveryPromise` | 2 Hosts, 2 attempts, 1 operator retry, 2 generations |
| `outbox_lane` | an owner route and a plain message of one lane, with stalled Hosts and a racy reconcile: exclusion and order in the lane, one copy of the route on the wire, ever | 2 Hosts, 1 attempt, a retry of the route, all Policy answers |
| `outbox_drain` | what the restart fence admits; every message settles or waits for the operator | an ordinary message and a later maintenance acknowledgement, 1 Host, fair |
| `outbox_undecidable` | a disagreement between the plugin's README and the code (section 6) | 1 message |
| `lease_safety` | exclusive execution, proven takeover, refinement of `SessionPromise`; a closed lease is given back | 2 processes, 2 identities, 2 claims, 2 operations at once, a store that may fail, fair |
| `inbox_safety` | ledger, exclusion and order of claims, tries, executions and outcomes (refinement of `DispatchPromise`), the `/stop` boundary, fencing | a turn, a permission command, a `/stop`; 2 Hosts, 2 attempts, stalls, revocation |
| `inbox_live` | every message ends; a new generation waits for the old | a turn, a `/new`, native input; 1 Host with 2 operations at once, 1 attempt, 1 deferral, 1 operator retry, restart fence, fair |
| `inbox_replay` | a lost recovery marker (section 6) | 1 permission command, 3 attempts |
| `inbox_retry` | a retry that cannot dispatch (section 6) | 1 turn |
| `broker` | at most one send, final and true outcomes, no doubt shared, quotas, authority, a readable ledger, every action settles | 2 daemons, 2 writes of one grant in 3 setups, 2 generations, 2 revisions, 1 change of each epoch, stalls, fair |
| `automations` | no overlap, one story in four tables, budgets and outcomes (refinement of `JobPromise`), every occurrence ends | 2 coordinators with 2 executions each, 5 setups of up to 3 occurrences, fair |
| `automations_join` | an execution that its coordinator lost sight of (section 6) | 1 coordinator, 1 occurrence |

Why the bounds are enough for the question: every check in the code looks at
one row, the rows of its lane and one claim; two Hosts give every race between
a holder and a successor, two attempts a first and a last one, one operator
retry everything that depends on one having happened, two claims of a Session a
holder and a successor. In the Inbox a boundary has something
dispatched and something undispatched before it, which takes three messages.
For the broker two actions give every conflict of targets and a quota to exceed,
and two generations a daemon and the one that takes over. An automation needs
two occurrences for an overlap and three for a backlog to coalesce; each setup
of `MCAutomations` is made for one policy and one way to lose a lease.
The proofs of section 5 have no bounds.

Bounds of what the code leaves unbounded: `MaxRetries` (operator retries, per
message), `MaxDefers` (a busy Session), `MaxClaims` (a permission command that
keeps recovering), `MaxGen` (bindings of the Outbox; controller claims of the
broker, whose last daemon does not fail), `MaxRev` and `MaxEpoch` of the broker,
`MaxToken`, `MaxPending` and `MaxVersion` of the leases, and in a setup of the
automations `calls` (which callers there are), `maxToken` and `maxLapse` (which
duties and attempts may be lost to a stall) besides `NOcc`.

`CHECK_DEADLOCK FALSE` is set for the lease, Inbox, broker and automations runs:
there the tokens, versions, messages, controller claims or processes of the
bounded model run out and everything may really be over. The Outbox always has an enabled step, since a tick may find nothing to do.

### Assumptions of the runs

- `StalledDispatch = FALSE` for plain messages: between committing a claim and
  calling the adapter a Host runs only synchronous code, so its lease (tens of
  seconds) does not run out there. Nothing in the code enforces it: a process
  suspended at this point sends after its lease expired. Owner routes are
  checked with `StalledDispatch = TRUE`. What remains for plain messages is
  `AttemptsBounded`: no more copies than sends claimed, which `AttemptsAreBounded`
  proves with such stalls and with racy reconciles, while the run
  `outbox_contract`, which shares its constants, checks it without.
- `RacyReconcile = FALSE` for plain messages: an adapter that reconciles to
  "not sent" is trusted that no earlier send is still under way. Owner routes are
  checked without this trust.
- The write that ends a lease may fail (`StoreFails = TRUE`); the code has no
  retry, so `ClosedIsReleased` excuses exactly the lease whose last settle failed,
  and the Session stays taken until `/new`.
- `NoFreshBesideOld` is checked and proved with one Host, and speaks of turns: a
  `/new` that waits for a cancelled turn does not see a permission command that
  starts to reconcile meanwhile, and leaves it to run. The `/new` of a Host waits for the
  operations of its own process only (`service.ts:4566`, "Rotation is last, so no
  fresh generation can execute beside the old"); it has no way to wait for
  those of another. With two Hosts TLC finds the old turn aborted but still
  running on one, the other rotating, recovery ending the claim that lapsed, and a
  message of the new generation begun beside it.
- The last broker daemon and the last coordinator do not fail: `Settles` speaks
  of a system that somebody keeps running.

## 4. Fairness

`Outbox`: the tick timer of every Host fires (`setInterval`), claims are
dispatched in the same turn of the event loop, adapter calls return (channels
use request timeouts), the lease of a claim nobody renews passes, and
backoffs elapse. There is no fairness on the provider's answers, on crashes, on
stalled leases, on operators or on bindings: `Settles` holds although every
reconcile may stay inconclusive, because its budget ends it. A call that never
returns keeps its claim renewed forever and is outside the property.

`Inbox`: the tick timer of a Host fires, and now and then it finds neither the
restart fence nor its own concurrency in the way (strong fairness of `Tick`: a
fence belongs to one restart request and is lifted when that ends);
received rows are driven (`runInboundAdmissionRecovery`, every tick);
operations end (`agentTaskTimeoutMs` bounds a turn); leases nobody renews and
backoffs pass. `commit` is strongly fair: a Host may crash in the middle of a
transition, or fail to create the Session of a `/new`, any number of times, but
not for ever. There is no fairness on operators, crashes or deferrals. In
`inbox_live` a claim lapses when its operation is aborted or its Host crashes,
not under a stalled Host (`inbox_safety` has those).

`SessionLease`: constructions, operations and disposals that were begun end.
Nothing obliges a user to close a lease, so `ClosedIsReleased` starts from the
close.

`Broker`: the controller row of a daemon that is gone expires, a supervisor
starts a daemon and in the end its configuration is accepted, a daemon that lost
its authority notices at its next renewal and a closing one releases, credential
reads end (`failPrepared` or `dispatch`), and transports return or time out
(`settle`). There is no fairness on sends, on GitHub, on administration, on
drains or on stalls.

`Automations`: the timers of a process fire (`Tick`) and a stopping one gives
its duty back; the continuation of an execution runs between two synchronous
ticks, so it is strongly fair (a tick disables it, again and again, without
ever starving it); leases nobody renews run out. Runners return because
`agentTaskTimeoutMs` aborts them. There is no fairness on callers, stops, crashes
or stalls.

## 5. Proofs

Assumptions: `OutboxAssumption`, `InboxAssumption`, `SessionLeaseAssumption`,
`BrokerAssumption` and `AutomationsAssumption`, which only type the constants (at least one attempt, at
least one concurrent operation, routes and maintenance messages disjoint, "no
owner" not a Host, finitely many actions, occurrences numbered in the order of
their times). TLC evaluates them on every run.

`OutboxProofs`, for any number of Hosts, lanes and messages, any budgets, with
stalls and racy reconciles allowed:

- `TypeCorrect`, `LedgerAgrees` (`ClaimMatchesLedger`), `OneAttemptPerLane`
  (`LaneExclusive`).
- The inductive invariant is `IInv`: type, and per row (`RowOK`) the row's type,
  the agreement of claim and ledger, and the budgets, together with lane
  exclusion. The bound of the sends alone is not inductive: nothing in the candidate
  query bounds the sends of a *pending* row, and it is safe only because a
  pending row has a send left - it was never tried, or an operator just granted
  one. That is the strengthening in `Bounded`. Lane exclusion needs that
  recovery and maintenance never produce a running attempt (`RecoverKeeps`,
  `MaintainKeeps`) and that two candidates of one tick are never in one lane,
  for which the earlier one must be quiet; under the fence the earlier one may
  be skipped only if it is not itself admitted.
- A lemma per kind of step carries one row through it; the proof of `NextIInv`
  has a step per action.

`OutboxMoves` and `OutboxWireProofs`, under the same assumptions and no others:

- `AcceptedAreReal` (`AcceptedIsReal`), `RoutesSentOnce` (`RouteAtMostOnce`),
  `AttemptsAreBounded` (`AttemptsBounded`), `LanesOrdered` (`InOrder`), and the steps `HoldersSettle`
  (`OnlyHolderSettles`), `OutcomesImprove` (`OutcomeMonotone`) and `DrainHolds`
  (`DrainStartsNothing`).
- `EveryMove` reduces every step of every actor to what it does to one message:
  nothing, a claim forgotten, called or finished, a copy found, a sweep with or
  without a claim, a lease lapsed, a receipt, a row queued, revived or
  relabelled, a copy that travels. All that follows is by cases on these.
- `Traced` ties rows and operations to copies: attempt numbers are positive,
  never above the row's count and never used twice, a claim not yet called has no
  copy, and what is unknown is remembered as in doubt. `Routed` adds for an owner
  route that a copy leaves its ledger open or in doubt; with the check that a
  route is provably unsent, no second claim can follow, not even after a stall.
- `Counted` strengthens the bound of the copies by those a Host is still about to
  hand over: a claim to send counts one and adds one, and no other step adds any,
  neither a stall nor a reconcile that answers early (`MoveCounts`).
- `Ordered` strengthens `InOrder` by claims not yet called and by "rows are filled
  in order": a message queued late can never turn out to be the earlier one.

`OutboxPromiseProofs`, under the premises `~StalledDispatch` and `~RacyReconcile`
that the code leaves open (section 3 says where):

- `OneCopyPerGrant` (`AtMostOncePerGrant`), `WaitingIsFree` (`WaitingIsUnsent`)
  and `Refines`: every message implements `DeliveryPromise` (`KeepsPromise`).
- `Granted` is the strengthening: a waiting message, and a send claimed but not
  called, has a permission left; so has the holder of a call, not counting the
  copy it sent; and a claim not yet called is unique, and current unless a
  receipt settled its row. Without the last a second Host could call beside it.

`InboxProofs`, for any number of Hosts, messages, conversations and attempts,
with stalled Hosts, revocation, crashes and operator retries:

- `TypeCorrect`, `LedgerAgrees` (`ClaimMatchesLedger`), `OneClaim`
  (`LaneExclusive`), `ClaimedInOrder` (`InOrder`), the steps `BoundaryHolds`
  (`FenceHolds`) and `HolderSettles` (`OnlyHolderSettles`), `Refines`: every
  message but a permission command implements `DispatchPromise` (`KeepsPromise`),
  and for one Host `RotationIsLast` (`NoFreshBesideOld`).
- The refinement needs `Budgets`. At most one execution per grant: a dispatch is
  spent only with its marker on the row, and an operation that has not dispatched
  and still holds its claim has one left and no marker yet (`Unspent`). This
  rests on `OpsOK`: a token is given out once, so a stalled operation never meets
  the claim of its successor. That nothing started waits again, and that a command
  or native input is processed only after its execution, needs the converse: an
  operation that dispatched and holds its claim has its marker there (`Spent`), and
  these operations are never cancelled (`Unstopped`). Tries stay within the budget
  because a row that is queued has one left (`TriesOK`): it was just admitted, or
  an operator just granted one.
- The boundary needs `Seals` and `NoGaps`: messages are admitted in order, and
  when a message is bound to a generation everything received before it in the
  conversation was driven. So nothing earlier can still appear, and `Boundaries`
  says of every earlier turn that it is finished, or claimed with its marker,
  once the fence of a `/stop` or `/new` is raised.
- `RotationIsLast` needs `Rotation`: generations only grow, what runs belongs to the
  newest, and while a `/stop` or `/new` holds the conversation it stays received and
  every unretried turn that runs is told to end. Then `Drained` says that none runs
  when the generation changes. That no turn slips in after the fence is `Boundaries`
  for the turns before the command and `Seals` for those behind it (`HeldMarks`).
  The premise `OneHost` is the one section 3 explains; it is used exactly where
  the operations of the rotating Host must be all there are.
- `EveryMove`, `EveryOps` and `EveryTrans` reduce each step to what it does to one
  row, to the operations and to the transitions; the rest is by cases on these.

`SessionLeaseProofs`, for any number of processes, identities and claims:

- `TypeCorrect`, `ExecutionExclusive` (`Exclusive`), `TakeoverSafe`
  (`TakeoverIsProven`) and `Refines`: the row and the lease objects implement
  `SessionPromise` (`KeepsPromise`), turns taken one after the other by one
  identity, of which only the latest ever works.
- The invariant relates each lease to its phase: work only under a dispatched
  phase, an operation counted for a construction in progress, a late load only
  together with `unobserved`, `released` only after quiescence, tokens above the
  row's never used. Without the last, a fresh claim might find work under its
  own token; without the third, a release might leave a load running. The
  refinement adds that a row nobody claimed names nobody (`Unclaimed`), so the
  first claim fixes the identity and no later one can change it.

`BrokerProofs`, for any number of daemons, actions, grants and generations:

- `TypeCorrect`, `AlwaysReadable` (`LedgerReadable`), `DoubtIsExclusive`
  (`DoubtExclusive`), `QuotaHolds` (`WithinQuota`), `SendsAreAuthorized`
  (`SendIsAuthorized`) and `Refines`: the broker implements `EffectPromise`
  (`KeepsPromise`).
- The inductive invariant adds to the ledger's consistency: `Fenced` (no daemon
  has a fence above the generation, and no two have the same), `Tracked` (what a
  daemon does with an action bounds its row and how often it was sent),
  `Authorized` (an operation that may still send is dispatched under a grant in
  force, unless it was aborted or its daemon lost its authority), `Apart` (targets
  of pending and doubtful writes) and `Counted` (what uses up a quota). At most
  one send is not inductive alone: it needs that a row once dispatched is never
  prepared again, whichever daemon holds it.
- `TerminalizeMoves` and `RowsMove` reduce every action to the few ways a row can
  move; the invariants are carried over those.

`AutomationsProofs`, for any number of coordinators, occurrences and definitions:

- `TypeCorrect`, `LedgersAgree` (`LedgerAgrees`), `LanesExclusive`
  (`OverlapExclusive`) and `Refines`: each occurrence implements `JobPromise`
  (`KeepsPromise`).
- The inductive invariant adds that a coordinator about to launch has a task
  (`Launching`) and, per occurrence, `Counted`: it was not executed more often
  than attempts were made, an open task has not been executed beyond its
  retries, and what never had an attempt never ran. Without it recovery could
  put a task back once too often and no table would show it.
- Every action does one of eight things to each row (`RowStep`): it stays,
  appears, is missed, dropped, claimed, started, requeued or ended. `RowKeeps`
  carries a row through each; a lemma per action says which it does.

Model-checked only: the runs of section 6, whose properties do not hold, and
the liveness properties `Settles` (of all four) and `ClosedIsReleased`. Liveness
under fairness, `ENABLED`, induction over data and recursive operators are out of
the prover's reach and stay with TLC.

## 6. Disagreements between document and code

`plugins/assistant-delivery/README.md:376` says that an operator's retry settles
the old attempt only and that a new failure becomes actionable again, because
the next claim raises the attempt count. `outbox_undecidable` shows a failure
without a next claim: a dead message is retried, `/new` rotates its binding, and
the bulk update of `claimOutbox` (`store.ts:6143`) makes it dead again at the
same attempt count. `health` counts it as actionable; `resolveOutbox`
(`store.ts:6546`) refuses any decision, since that attempt count has one. Owner
routes are not affected: their dead-lettering raises the count.

`agent-runtime.ts:2539` and `README.md:382` of the plugin say that an interrupted
permission command is reconciled under a recovery marker and its text never run
again. `inbox_replay` shows the marker lost between two claims: a claim under
recovery that fails before the runtime runs it (`processor-unavailable`,
`prepare-threw`, a busy Session) is finished with that ordinary code
(`store.ts:4291`), and the next claim clears it (`store.ts:4245`) and applies the
text as if for the first time.

`README.md:375` and `:380` say that a turn left ambiguous by a crash can be
retried by the owner and then gets a new claim. `inbox_retry` shows that the new
claim of an owner turn cannot dispatch: its row in
`delivery_foreground_executions` is still there and `bindForegroundTaskExecution`
(`store.ts:4658`) refuses a second one.

`coordinator.ts:331` of the automations says that in-memory runners must join
before a Host restart, and `service.ts:1807` calls the check a conservative proof.
`automations_join` shows a runner that is not joined: a coordinator that stalls
past the lease of its own idempotent task recovers and claims it again before
the first execution notices, the second entry of `active` replaces the first
under the same key (`coordinator.ts:399`), and the first that returns deletes it.
It takes `maxConcurrency` of two; with the default of one the entry of the first
execution keeps the coordinator from claiming.

## 7. Not modelled, and what would come next

- The Inbox composed with the Session leases (the answers left open here would
  become those of the lease), restart continuations, and the markers of single
  commands.
- The automations' incidents and circuits, the Growth admission, and the three
  outboxes of results; with them an execution could be followed into the
  evaluation ledger.
- The embedded backend of the actions, isolation, goal budgets, policy
  settlement, event cursors, control-plane adoption and recovery: each has a
  small ledger with a crash window of its own and would get a module like
  `Broker`.
- Content stores, review pipelines, channels, installers and scripts: nothing
  about them is concurrent or durable beyond the ledgers above, and they are most
  of the repository's lines.
- Proofs: what the composition of Inbox and leases would add, and a bound on the
  executions of a permission command, which has its own recovery.
