# openclaw: TLA+ models, checks and proofs

openclaw is a personal-assistant gateway: it receives messages from chat
channels, runs agents on them and delivers the answers through channel adapters.
Several processes on one host share one state directory with a SQLite database,
and most of the concurrency inside a process is an event loop with worker
threads. This directory models nine of its parts, chosen because each is a small
protocol whose failures are hard to provoke in a test:

- between processes: the **outbound delivery queue** (is a message that may
  already be on the platform sent again?), the **shared-state lease** (who may
  write?), and the **OAuth refresh fence** (who may spend a refresh token?);
- between the gateway and its SQLite worker threads: **worker admission** (what
  may the host publish about a transaction?) and **worker turn authority** (what
  may the host believe about the claim of a session's turn?);
- on one event loop: the **worker task pool**, the **swarm scheduler**, the
  **inbound debouncer** and the **draft stream loop**.

Paths below are relative to `src/src/` unless they start with `src/`.

## Inventory

| component | state | operations | hard behaviour | correct when |
|---|---|---|---|---|
| Outbound delivery queue (`infra/outbound/deliver-queue*.ts`, `delivery-queue-*.ts`, `infra/delivery-queue.worker.ts`) | row: status, recovery state, claim, attempt, lease, counters; completion owner in the session store; per-activity lease and outcomes | enqueue, claim, renew, start, dispatch, outcome-unknown, ack, fail, stage/finalize, reserve/restore, drain | another process recovering the row, crashes between send and marker, failing writes that may have committed, late timers, cancellation | nothing is sent twice, what ended stays ended, the completion owner is told the truth, every published row ends |
| Shared-state lease (`state/openclaw-state-lease*.ts`) | row owner/createdAt/expiresAt; shared memory status, expiry, fence flag | acquire, heartbeat, fence, fenced renewal, release, crash reclaim | main thread and heartbeat thread of one owner contend for one writer lock; expiry while a transaction is open | authority is exclusive, a checked write commits under its grant |
| OAuth refresh fence (`agents/auth-profiles/oauth-refresh-fence.ts`) | stored credential, pending or failed fence | read, claim, publish, exchange, settle, mark failed, observe | two processes with one expired credential; logins during a refresh; crashes and storage errors | a token is spent once, a newer login survives, fences are settled |
| SQLite worker admission (`infra/sqlite-worker-operation-admission.ts`, `-settlement.ts`, `sqlite-store.worker.ts`, `state/user-profile-writes.ts`) | decision cell, port, receipts, settlement, publications | request, grant, refuse, time out, commit, receipt, settle, publish, reconcile, invalidate | deadline against grant, thread death between COMMIT and receipt | readers are fenced before COMMIT and told only what is true |
| Worker turn authority (`gateway/worker-environments/placement-turn-*.ts`) | durable claim, tools, result; staged and published changes; prepared authorities | claim, release, record and release a result, set tools, commit, roll back, invalidate, prepare, observe | outcomes that arrive late, reordered or never; identical claim bytes admitted again | an authority that answers "current" matches the row |
| Worker task pool (`infra/worker-task-pool.ts`) | queue, slots, charges | run, dispatch, cancel, time out, retire, rotate, close | abort against dispatch, results before receipts, dying workers, failing termination | charges match tasks, buffers are not shared, every promise settles |
| Swarm scheduler (`agents/subagents/swarm/swarm-scheduler.ts`) | lane (limit, active, queue), run locations, reservations | reserve, hold, prepare, activate, pump, release, cancel, close | cancellation during a launch, stale snapshots, reused run ids | one place per run, FIFO within the limit, cleanup after launch |
| Inbound debounce (`auto-reply/inbound-debounce.ts`) | buffers, key chains, generations, completions | enqueue, timer, flushKey, cancelKey, drain | released work behind an active flush when its key is cancelled; a full map | each message once and in order, or cancelled; drain returns |
| Draft stream loop (`channels/draft-stream-loop.ts`) | pending text, in-flight promise, timer | update, flush, stop, reset, take | a value that arrives during a send; promise jobs between a send's end and its continuation | one edit outstanding, accepted drafts are served |
| Worker session placement (`gateway/worker-environments/placement-store.ts` and others) | placement row, generations, environment | dispatch, reclaim, fail | gateway restart with a claim in the row | no turn on a placement that is being torn down (not modelled) |
| Gateway restart (`infra/gateway-active-work.ts`, `infra/restart-coordinator.ts`) | active work, pending restart | request, defer, force | work that starts while restart is pending | restart happens after work or by its deadline (not modelled) |
| Cron, process supervisor, question manager, ticket store, configuration mutation, and the rest | see `PROJECT.json` | | | |

How they interact. A channel message enters through the debouncer, an agent runs
on it (child runs through the swarm scheduler, CPU-heavy helpers through the task
pool), the answer is drafted through the stream loop and becomes a delivery
(`deliver-queue.ts`); its completion is recorded in the session store through
`delivery-completion.ts`, and the gateway drains pending rows at startup and
whenever a channel reconnects. Model calls use OAuth credentials. Session, OAuth
and worker code runs critical sections under the shared-state lease. Writes go to
SQLite worker threads under worker admission; turn authority is one owner of such
writes, user profiles another. Short SQLite write transactions are the atomic
steps of all models.

`PROJECT.json` lists every component and every hazard with the property that
watches it.

## Modules

| module | models | runs | proofs |
|---|---|---|---|
| `DeliveryRow`, `DeliveryQueue` | the row and its storage operations; producer, sender, cancellation, settlement and recovery over it | `MCDeliveryQueue`, `MCQueue*.cfg` | `DeliveryQueueProofs` |
| `OutboundDelivery` | what the queue promises for one delivery; `DeliveryQueue` implements it | as a property of `queue_two_processes` | `DeliveryPromiseProofs` |
| `LeaseState`, `StateLease` | one lease row, its competitors and their heartbeats; the operations on them | `MCStateLease` | `StoredRowProofs` |
| `OAuthRefresh` | one stored credential, its refreshers and logins | `MCOAuthRefresh`, `MCOAuth.cfg` | `StoredRowProofs` |
| `WorkerAdmission` | one operation on a SQLite worker and its host | `MCWorkerAdmission`, `MCAdmission.cfg` | `WorkerAdmissionProofs` |
| `CommitPublication` | what an owner of worker transactions promises its readers; `WorkerAdmission` implements it | as a property of `worker_admission` | `WorkerAdmissionProofs` |
| `TurnAuthority` | the host's memory of one session's turn beside the durable row | `MCTurnAuthority`, `MCAuthority.cfg` | `TurnAuthorityProofs` |
| `TaskPool` | the pool, its worker threads and its callers | `MCTaskPool`, `MCPool.cfg` | `TaskPoolProofs` |
| `SwarmScheduler` | one group's lane and its reservations | `MCSwarmScheduler`, `MCSwarm.cfg` | `SwarmSchedulerProofs` |
| `InboundDebounce` | keyed messages, buffers, chains and completions | `MCInboundDebounce`, `MCDebounce.cfg` | `ChannelProofs` |
| `DraftState`, `DraftStream` | the loop's state; its operations with overlapping flushes | `MCDraftStream`, `MCDraft*.cfg` | `ChannelProofs` |

The `MC` modules only add symmetry sets where a run uses them. A mutant is an operator with the
comment "Mutant of"; no definition uses it, and `PROJECT.json` names the property
it breaks when it takes the place of the original.

### DeliveryRow, DeliveryQueue and OutboundDelivery

The row has a `status` and a recovery state `rs` (`claimed` is
`producer_claimed`, `started` is `send_attempt_started`, `unknown` is
`unknown_after_send`), the two owner fields `claim` (`producerClaimId`) and
`attempt` (`platformSendAttemptId`), the remaining lease `ttl`
(`availableAt - now`, because the code only compares `availableAt` with the time)
and the two counters. `DeliveryRow` has one guard and one update per storage
operation.

`ledger` is the state of the pending-final delivery in the session store,
`visible` counts how often the recipient got each payload, and `proc[p]` is what
process `p` is doing: its program counter, claim, confirmed lease, whether the
lease's signal was aborted (`lost`), the caller's abort and the cancellation it
starts, the states of the pre-send and post-send markers, and the set of payload
outcomes. A process works on the delivery at most once at a time, because live
sends and recovery run inside `withActiveDeliveryClaim`. What runs between two
awaits is one step. `pc` names follow the code: `start`/`startAck` are
`persistQueuedPreSendState`, `dispatch` is `onPlatformSendDispatch`,
`postMark`/`postAck`/`postFail` are the three fallbacks of
`persistQueuedPostSendState`, `returned`, `failures`, `ledger`, `ack`, `thrown*`
are the ends of `deliver-queue-execute.ts`, `stage`/`settle`/`finalize` are
`settleQueuedFailure`, and the `rec*` names are `drainQueuedEntry`.

Faults: a write reports an error before or after it committed; a process
crashes at any step; recovery is told to stop before its first dispatch. These
use up `MaxTrouble`. Without using it up, leases run out, timers fire late
(`TimersOnTime = FALSE`), the adapter rejects, refuses, answers without identity
or ambiguously, and callers with an
abort signal (`Cancellable`) cancel.

Abstractions and assumptions:

- The claim kernel imported by `delivery-queue.worker.ts`
  (`delivery-queue-sqlite-claim.kernel`) is not in the repository. `Owned`,
  `Claimable`, `Renewable`, `Promotable`, `Dispatchable` and their updates are
  taken from its use and from `infra/delivery-queue-sqlite.test.ts` 639-1015 and are
  marked external.
- The delivery has a pending-final completion and a completion receipt, so it
  always needs a producer claim.
- The handoff and the platform's acceptance are one step, and a reconciling
  adapter tells the truth or says that it does not know.
- `sentBeforeError` of an outbound error is true for sent, ambiguous and
  identityless outcomes (`infra/outbound/deliver.test.ts` 2864-2917).
- Claim ids are random in the code; the model takes the smallest id that is
  referenced nowhere, which keeps the state space finite. The retry count
  saturates at `MaxRetries`, the only value it is compared with.
- The code stops the producer lease of a replay when the delivery returns
  (`deliver-queue.ts` 233-235), before `drainQueuedEntry` settles the row; the model
  keeps its heartbeat and its `lost` flag through the settlement
  (`RecReturned` to `RecAck`). A replay can thus hear of a lost lease, or renew, a
  little later than the code does; what it may write to the row is decided by
  its claim either way.
- `platformSendStartedAt` is set and cleared with the attempt id and left out;
  loading the row and checking for an active owner is one step of recovery.

`OutboundDelivery` knows neither rows, claims, leases nor processes. A delivery is
open, tried (a send may have begun), in doubt (one may have succeeded), closing
(given up, its completion owner still to be told) or over. It is opened again only
when nothing of it arrived; it is in doubt only after it was tried; a payload
arrives once and never of an open delivery; what is over stays over; and the
completion owner is told once, and of a delivery only when something arrived. The
refinement mapping (`ImplementsDelivery`) takes the stage from the row (`StageOf`: a
pending row is open until its start marker, tried with it, in doubt with
`unknown`; a staged row is closing), the arrivals from `visible` and what the
completion owner was told from the final states of `ledger` (`ToldOf`). Claims,
heartbeats, reconciliation and the writes to the other store stutter. A row that
is sent without being kept goes from none to over: that is the best-effort send
without an intent, whose payloads then arrive of a delivery that is over.

### LeaseState and StateLease

An element of `Owners` is one invocation of `runStateLeaseOwnerInScope` with its
fresh owner token. `phase` is its main thread, `status`, `seen` and `ownerFence`
are the words of the shared memory between main thread and heartbeat worker.
Store transactions are single steps that need `LockFree`; a transaction under a
write fence spans `BeginTx`, `HoldFence`, `AssertOwned`, `FenceRenew` and
`Commit` or `Rollback`, so that expiry, crashes and heartbeats fall between them.
`seen` is what the process believes, `lease` what the database says; the safety
property is about the two together. `lastRenewedAt` is reported and never decides
anything. One clock serves all processes: they run on one host.

The heartbeat is a thread of its own, so each of its accesses to the database or
to shared memory is a step, and any step of the main thread may fall between two
of them. A renewal (`renewInWorker`) commits (`Beat`) or meets a locked writer
(`BeatContended`); then it loads the fence word (`LoadFence`) and either waits for
the fence or reads the committed row (`ReadExpiry`). The expiry it has in hand
(`found`) is stored (`Observe`) and judged (`Judge`). `beat` says where it stands.
`Verify` is a verify request of the main thread; an explicit renew takes the steps
of a renewal. Only SQLite's error for a database that cannot be read at all
(`BeatFails`) ends it otherwise. `overtaken` is a ghost: the main thread raised
the fence while a renewal had already looked at it, or was past the need to look.

### OAuthRefresh

`store` is the stored profile: a credential, a pending fence, a failed fence or
nothing. Generations number the credentials in the order providers issued them.
A call goes `idle` -> `checking` (`canRefresh`, the claim) -> `claimed` (the claim
is durable, its publication may throw) -> `refreshing` (the token is spent at the
provider) -> `settling` or `failing`; one that finds a fence is `observing`. The
lock of the store covers single reads and compare-and-swaps, which are the steps.
`Login`, `Logout` and `Expire` happen at any time; storage errors and crashes use
up `trouble`. The manager that chooses a profile is left out, and an unavailable
credential simply yields no call.

### WorkerAdmission and CommitPublication

`worker`, `txn`, `stage` and `cell` are the worker thread: it opens a transaction,
asks on entry and again before COMMIT, and blocks on the shared decision cell.
`port` is the FIFO of its messages. `host` is what the host does with the current
request: `admitting`, then, once the owner has staged its publication,
`granting`. Host and worker change `cell` by compare-and-exchange, so a grant and
a timeout exclude each other. After COMMIT the worker posts a receipt, in the end
a settlement; it can die anywhere (`Die`), and a COMMIT can throw with an unknown
result (`uncertain`). `entry[t]` is the owner's publication of transaction `t` in
`user-profile-writes.ts`: staged, granted, published on a receipt, and at the end
reconciled, invalidated or dropped.

`CommitPublication` knows neither cells nor ports: a transaction commits only
while readers are fenced, a view is published only when the transaction is in
the database, reverted only when it is not and cannot be any more, and is final
once it is published, reverted or given up as unknown. The refinement mapping is
`db <- commits`, `view <- ViewOf(entry)`, `over <-` the worker has settled or died.

### TurnAuthority

`row` is the durable row with a ghost incarnation number that grows with every
newly admitted claim; `pending`, `published`, `placement`, `tools` and `results`
are the fields of the in-memory owner. An operation of `placement-turn-claims.ts`
stages its change (`Stage`), its transaction lands or is undone, and later, in
any order with other outcomes, the host learns of it (`Commit`,
`Rollback`, `Invalidate`). A prepared authority or an observer of the
workspace result takes a snapshot, waits for older writes and consults memory
afterwards. `setting` fixes for a behaviour whether the owner is a worker or
local and which of three kinds of reader it has. `reordered` is a ghost.

`placement` has two writers. A published change of the claim replaces the entry if
it brings a placement (`hasPlacement`; the parameter `workspacePlacement` is
optional), leaves it alone if it does not, and removes it if the change is
indeterminate (`NextPlacement`). A read that fills the replica
(`capturePlacementReplicaRead`) is three steps: `CaptureReplica` remembers the
number of the newest staged change, `ReplicaReads` is the reader's snapshot and
`ReplicaReturns` compares and stores (`Fills`). Two ghosts say which
entries hold what their number promises. A read is `calm` if no change that its
number counts was open when it took its snapshot, and no newer claim change was
published after the snapshot without leaving a placement. An entry is `exact` if
a change published it or a calm read filled it, until a later claim change is
published without a placement.

### TaskPool

The pool lives on one event loop, so a call, a message, a timer or a promise job
is one step with everything it calls; those calls are operators from pool state
to pool state (`Dispatch`, `Finish`, `Close`, ...). The worker thread has its own
state, `exec` (the task it executes) and `reads` (the buffers it may still touch).
A task has an input factory, one request to its host, and a receipt of
consumption. Workers fault and exit, `terminate()` may fail, slots idle out,
`rotate` retires all of them.

`Dispatch` is the loop of `dispatch` (`Turns`) and what it does before it returns
with tasks left over: one host-waiting owner per queued task is asked to
checkpoint (`Pressed`), in slot order. The `Set` of slots is in order of creation;
the model numbers the slots, reuses the least number that is free and lets the
numbers stand for that order. `Unqueued` is `splice(indexOf(task), 1)`, so that a
task that is not queued would take the last one with it.

### SwarmScheduler

An item is one `QueuedSwarmRun`. Its fields are the launch, the hold, the
preparation, what its start or failure handling is doing (`pend`) and its
removal. `loc` is `runLocations`, `lane` the group's lane, `pump` the scheduled
microtask. Run ids and items are used again without bound. `snapshot` is the list
of active runs that a caller of `ensureLane` read earlier and may be stale.

### InboundDebounce

The promise chain of a key is a sequence of tasks; the one of the open buffer is
its last and is not `ready`. `gen` is the generation the cancellation of a key
increments, `completions` the flushes that were admitted and still run. Time is
a countdown per buffer (`due`, and `left` until the window's end). Keyless
messages are left out: they share no state.

### DraftState and DraftStream

An element of `Flushes` is a running call of `flush`. What it does between two
awaits is one step. `JobsBetween` says that other promise jobs may run between
the `finally` callback that clears `inFlightPromise` and the continuation of
`await current`; in the code they can, because these are different jobs. The owner
may lower its stop flag (`Unstop`) and call `resetThrottleWindow`, which cancels
the timer, at any moment (`ResetThrottleWindow`).

`owed` is a ghost: what became of a `pendingValue` that came from `update`. It is
`due` until the draft is sent, replaced or dropped. It is `cancelled` when
`resetThrottleWindow` cancels its timer. When a flush fails with a newer draft
pending and nothing is left that would serve that draft (`Abandons`: no timer,
and no other flush that goes on), it is `failed` if the flush reports a
rejection, and `stranded` if its send returned false, because then nobody is told.
A failed value that is put back is not owed: it had its attempt.

## Runs

| run | instance | properties | shows |
|---|---|---|---|
| `state_lease` | 3 owners, lease 2, clock up to 4 | `GuardedWriteIsOwned` `AtMostOneAuthority` `LiveGrantIsStable` `FenceDefersLoss` | exclusive authority across expiry, fences, contention and crash reclaim; a renewal that meets the raised fence does not judge |
| `queue_two_processes` | 2 processes, 1 payload, 2 attempts, cancellation, 1 disturbance | `AtMostOnce` `ImplementsDelivery` | no double send over two replays by competing processes, with a queue policy that may drop the intent before the send; the queue refines the abstract delivery, so that no stale owner reopens a finished row |
| `queue_late_timers` | 2 processes, exact reconciliation, late timers, 1 disturbance | `HandoffIsFenced` `UnknownNeverReplayed` | within its confirmed lease a sender owns a marked row; evidence of a send survives |
| `queue_restart` | 1 process, 2 payloads best effort, 2 retries, 3 disturbances, fair | `LedgerTruth` `FailedIsSettled` `EventuallySettled` | what the completion owner is told, over repeated failures and restarts; every published row ends |
| `oauth_refresh` | 2 processes, 2 accounts, 3 generations, 1 disturbance, fair | `SpentOnce` `NewestSurvives` `HandedOutIsStored` `PendingIsSettled` | a token is spent once, a newer login survives, callers get what is stored, fences are settled |
| `worker_admission` | 4 transactions with deadlines, fair | `SettlementIsComplete` `DecisionIsFinal` `ImplementsPublication` `FencesAreLifted` `WorkerIsAnswered` | the admission protocol refines the abstract publication, answers every request and lifts every fence |
| `turn_authority` | 2 claims, 1 authority, 4 writes, 3 beside result observers and replica reads, outcomes lost and reordered, worker and local owners | `AuthorityIsSound` `ToolsAreSound` `PublishedIsSound` | memory that says yes agrees with the row: prepared authorities and the claim of a tool call always, the tools, the workspace result and the exact published claim while outcomes keep their order |
| `task_pool` | 3 tasks, 1 worker, 2 pending tasks or 3 bytes, 1 fault, 1 rotation, with and without restart, fair | `ChargesAreExact` `OneTaskPerWorker` `ReleasedIsUnread` `QueueIsJustified` `EveryCallSettles` | exact charges, private buffers, no forgotten queue, every call settles |
| `swarm_scheduler` | 2 run ids, 2 reservations at a time, limits 1 and 2, fair | `OnePlace` `CleanupAfterLaunch` `StartsAreRight` `EveryRunIsServed` `RemovalReturns` | one place per run, FIFO starts within the limit, cleanup after launch, everything ends |
| `inbound_debounce` | 2 keys, a map that tracks 1, 3 messages, 2 cancellations, both serialization modes, fair | `ExactlyOnce` `WindowIsBounded` `InOrder` `CancelIsEffective` `DrainReturns` | each message once and in order, or cancelled, within the window; drain returns |
| `draft_stream` | 3 flushes, 3 updates, with and without coalescing, fair | `OneEditOutstanding` `OwedIsServed` | one edit at a time; an accepted draft is served, but for the named exceptions: a timer its owner cancelled, and a failing flush with nothing else left to serve it |
| `draft_retry` | the same, coalescing | `NeverBackwards`, **violated** | a failed draft can be put back after a newer one went out |

The finding of `draft_retry`: `retainUnsentValue` (`draft-stream-loop.ts` 41-48)
looks at `pendingValue` when the flush resumes after `await current`, some promise
jobs after `finally` made the loop free. An update in between starts the send of
a newer draft and leaves `pendingValue` empty, so the failed draft is put back and
sent after the newer one, although the comment there says "never retry the
failed/rejected value". The recipient sees the text go backwards until the next
update. With `JobsBetween = FALSE` it cannot happen.

Type invariants: in the lease, admission, OAuth and queue proofs `TypeOK` is a
theorem of its own; in the other modules it is the first conjunct of the module's
main invariant, so the run checks it with that, and a theorem about that
invariant proves it.

All passing runs but `swarm_scheduler` and `draft_stream` set
`CHECK_DEADLOCK FALSE`: a delivery that has ended, leases and pools that were
closed, an operation that has settled and a debouncer that is drained are
legitimate final states, and the bounds on messages, changes and generations end
the others. The two loops always have a next step.

Every property has a mutant of the code in `PROJECT.json` that violates it.

### Bounds

- Queue: `Lease = 2` distinguishes a lease that is fresh, about to end and over.
  With two processes the state space allows one disturbance beside two replays
  or late timers. The one-process run allows three, which is what it
  takes to fail a marker, its fallback and then crash. Two payloads are needed for a batch in
  which one is sent and the next fails. `MaxRetries` 1 and 2 reach the exhausted
  budget. `MaxClaims = 8` is more than can be referenced at once.
- Lease: with three owners and a clock from 1 to 4, ownership changes once by expiry
  and once more by release or crash, with a stale owner still running.
- OAuth: three generations are the first credential, its refresh and a login
  between, or two refreshes in a row; two accounts, because a settlement for
  another account is refused. The theorems hold for any numbers.
- Admission: the four transactions are independent of each other after two; the
  theorems hold for any number.
- Authority: four writes are a claim, its release, its readmission with identical
  bytes and a change after it, which is what the fence against stale authorities
  is for. `Consulted` splits the readers: authorities, result observers and replica
  reads do not influence each other or the writes. With result observers and
  replica reads a claim change may lack its placement (`Supplied`), so
  three writes are checked there (`MaxObserved`): a result is recorded, a turn is
  claimed or released and a third outcome is lost or late; the theorem holds for any
  number.
- Pool: one worker and three tasks reach a full queue with a task waiting behind
  a slot that is retiring; two of the tasks are big, so both limits bind. One
  identity more than the workers allowed exists, so that the limit is the code's.
  `Asking` bounds the host exchanges.
- Swarm: two reservations alive at a time, reused without end; a head that is
  held and one behind it; limits that go up and down. One restored run (`MaxRestored`)
  is enough to meet a live reservation of the same run id.
- Debounce: three messages over two keys with a map of one reach an open buffer,
  an immediate message behind it and a saturated key; debounce 2 and window 4
  allow a buffer to be extended and then cut off.
- Draft: three flushes are one that sends, one that waits and one started by the
  timer; three updates allow a failed one, a newer one and one after it.

Symmetry is used on interchangeable processes, owners and claims, in safety runs only.

`AtMostOnce` and `ImplementsDelivery` take the expiry timer to fire no later than the lease ends
(`TimersOnTime`): the last check before the adapter is called reads an abort
signal, not the clock, so an event loop stalled for a whole lease could send
while another process replays. With late timers the runs check what the
row guarantees, `HandoffIsFenced`. `ImplementsDelivery` fails there for the same
reason: a sender that outlived its lease can deliver after recovery learned from
the adapter that nothing was sent, and recovery then takes the row anew.

### Fairness

Always weak, and never about users, callers' aborts, crashes or errors.

- Queue: `Advance(p)` (storage and platform calls settle), `Tick` (leases run
  out), `Recover(p)` (the gateway drains at startup and at every reconnect,
  `delivery-queue-recovery.ts` 1135-1232).
- OAuth: `Advance(p)`: store and provider answer a call that has claimed.
- Admission: `HostNext` and `WorkerNext`: both threads run. No deadline is
  assumed to pass and no thread to die.
- Pool: `Internal`: input factories and host handlers settle, worker threads
  reply or have exited, `terminate()` settles, promise jobs run.
- Swarm: microtasks run, launches, preparations and cleanups settle. It also
  assumes of the callers that holders let go, active runs end and every
  reservation is activated or removed, without which a FIFO queue cannot move. That
  includes a run whose launch failed without the failure being recorded: the code
  keeps its slot until shutdown or recovery (`swarm-scheduler.ts` 185-186), and
  `EveryRunIsServed` holds only if such a slot is released in the end.
- Debounce: promise jobs run, timers fire, flushes settle, time passes.
- Draft: sends settle, promise jobs run, timers fire. No update, flush, reset or
  change of the stop flag is assumed.

## Theorems

All are checked by TLAPS for every value of the constants.

- `LeaseTypes`: `Spec => []TypeOK` of the lease. `StoredRowProofs` holds the proofs
  about the two rows that processes own in turn, the lease and the OAuth
  credential; it shares the state of the lease and its properties (`LeaseState`) and
  takes its operations as the instance `Lease`.
- `LeaseSafety`: `Spec => []AtMostOneAuthority`, and `GuardedWritesAreOwned`:
  `Spec => []GuardedWriteIsOwned`. Neither
  is inductive. The invariant adds that the writer lock belongs to the owner
  inside a transaction (`WriterInv`), that only an invocation between acquisition
  and cleanup has a running heartbeat (`WorkerInv`), that the row records the grant
  its owner got (`GrantInv`), and the facts that carry the argument: an expiry
  a heartbeat has in hand or a process has observed is never beyond the row's
  (`FoundInv`, `SeenInv`), and one staged under a
  fence is at least the row's before the commit and covered by it afterwards
  (`StagedInv`). Two authorities would then own the same row.
- `LeaseStability`: `Spec => LiveGrantIsStable`, from the same invariant.
- `FenceDefersTheVerdict`: `Spec => FenceDefersLoss`. While the transaction is open
  its writer lock lets no renewal commit, and a contended one that loads the raised
  fence waits; so a heartbeat that is about to read the row, or has found none, stood
  there when the fence went up (`OvertakenInv`).
- `RowInvariant` and `DeliveryEndIsFinal`: `Spec => EndIsFinal`. Every step of
  the queue is shown to be one of four row steps: no change, a birth of an absent
  row, a change of a pending row, or `staged` to `failed`. The invariant says
  that only a pending row has a lease, or time itself would change a finished row.
  No run checks `EndIsFinal` by itself: `ImplementsDelivery` fails when a
  finished row is reopened.
- `DeliveryTypes`: `Spec => []TypeOK` of the queue; `DeliveryHandoffIsFenced`:
  `Spec => []HandoffIsFenced`; `DeliveryUnknownNeverReplayed`:
  `Spec => UnknownNeverReplayed`; `DeliveryAtMostOnce`:
  `TimersOnTime /\ Spec => []AtMostOnce`. The hypothesis of the last is the
  policy constant explained under Bounds; the others need none. The method is
  described below.
- `DeliveryImplementsPromise`: `TimersOnTime /\ Spec => ImplementsDelivery`, for any
  number of processes: every step of the queue is a step of `OutboundDelivery`
  or none. The hypothesis is that of `DeliveryAtMostOnce`.
- `DeliveredIsSent`: `Spec => [](ledger = "delivered" => Sent)`, for any number of
  processes and timers on time or late: the half of `LedgerTruth` that survives
  competing processes. `DeliveryFailedIsSettled`:
  `(\E p : Procs = {p}) /\ Spec => []FailedIsSettled`, and `DeliveryLedgerTruth`:
  `(\E p : Procs = {p}) /\ TimersOnTime /\ Spec => []LedgerTruth`. One process that
  crashes and restarts without end is the case in which the code keeps these two;
  the first observation below says what happens with a second one.
- `AdmissionTypes`, `AdmissionSafety`:
  `Spec => [](CommitIsFenced /\ PublicationIsTrue /\ SettlementIsComplete)`. The
  invariant relates the worker's place to its commits and receipts (`PhaseInv`), a
  COMMIT to a grant of its own request (`CellInv`), keeps at most one request on
  its way or being decided (`RequestInv`), bounds the receipts in the port
  (`PortInv`), orders the ends of worker and host (`EndInv`), and says which
  entries are granted before the settlement (`EntryInv`).
- `AdmissionDecisionIsFinal`: `Spec => DecisionIsFinal`.
- `AdmissionImplementsPublication`: `Spec => ImplementsPublication`. The initial
  states map to the initial state; under the invariant `NativeCommit` and an
  uncertain COMMIT that happened map to `Commit`, staging, refusing, granting and
  settling publications to `Show`, the worker's end to `Stop`, everything else
  stutters.
- `OAuthTypes`, `RefreshTokenSpentOnce` (`Spec => []SpentOnce`),
  `StoreNeverGoesBack` (`Spec => NewestSurvives`), `CallersGetWhatIsStored`
  (`Spec => HandedOutIsStored`). `SpentInv` says that a stored credential has its
  token, that a claimed one is not stored any more, and that no two calls hold the
  same unspent token; `FreshInv` that a credential on its way from the provider is
  known to nobody else; `CallInv` what a call has read or claimed.

- `AuthoritySafety`: `Spec => []AuthorityIsSound`, `ToolSafety`:
  `Spec => []ToolsAreSound`, `PublicationSafety`: `Spec => []PublishedIsSound`. The
  row runs ahead of the host's memory, and all three arguments have the same form:
  either the row still agrees with what the memory says, or a change that has
  landed and is still pending explains the difference, and a pending change of
  that kind fences every check. The base (`TypeInv`, `SeqInv`, `PostInv`) numbers
  the changes; on it stand `LatestInv` and `AuthInv` for the authorities,
  `ToolClaimInv` and `ToolRowInv` for the tools and `ResultsInv` for the published
  result; `ToolRowInv` and `ResultsInv` use `OrderInv`: while outcomes keep their order, what is
  published of the claim, the result and the tools is older than everything
  pending. For the published claim `PlacedInv` says of an exact entry that it is the
  row's claim unless a newer pending change has taken that away (`PlacementInv`), and
  the same of what a pending change will publish (`PendingInv`) and of the snapshot of
  a calm read (`ReadInv`).
- `ChargesAlwaysExact`, `WorkersRunOneTask`, `BuffersReleasedUnread` and
  `QueueAlwaysJustified`: `Spec => []` of `ChargesAreExact`, `OneTaskPerWorker`,
  `ReleasedIsUnread` and `QueueIsJustified`, from `PoolInvariant`, for any number
  of tasks and workers, any limits and `restartOnError` either way.
- `DraftOneEditOutstanding`: `Draft!Spec => []OneEditOutstanding`, inductive
  as it stands, for any number of overlapping flushes and with `JobsBetween` either
  way. `ChannelProofs` holds the proofs of both channel loops; it shares the state
  of the draft loop (`DraftState`) and takes its operations as the instance `Draft`.
- `DebounceExactlyOnce`, `DebounceInOrder`, `DebounceWindow` and `DebounceCancel`:
  `ExactlyOnce`, `InOrder`, `WindowIsBounded` and `CancelIsEffective`, from one
  invariant (`DebounceInvariant`) about the places of the messages, where
  `Held(k, m, x)` says that message `x` is in the task at position `m` of the
  chain of `k`. Messages are held in the order of their arrival and in one place
  each (`PlaceInv`); whoever waits is newer than what the key has flushed, and
  every waiting message has a place (`WaitInv`); a task of the current generation
  was made after the last cancellation (`FreshInv`), which is what makes
  `cancelKey` effective; the running task is the first, the buffer's the last, and
  no key with work is untracked (`LaneInv`); the age of a buffer and what is left
  of it make up the window (`WindowInv`).
- `SwarmOnePlace`, `SwarmCleanupAfterLaunch` and `SwarmStartsAreRight`:
  `OnePlace`, `CleanupAfterLaunch` and the action property `StartsAreRight`, from
  `SwarmInvariant`. Queue, slots and locations agree and no item is queued twice
  (`LaneInv`); what is queued was never admitted and is not being removed
  (`FreshInv`); a cleanup that waits for no launch has none, and one that has begun
  has none any more (`CleanInv`); only finitely many runs are active
  (`FiniteInv`), so that the pump can count them. The lemmas about the queue
  (`WithoutFacts`, `AdmittedFacts`) say what is left of it and what is taken.

How the queue is proved. Its dozens of steps differ in detail and not in kind, so
the theorems are not proved step by step. First, what every constructor of a
row and of an activity changes. Then the *edges*: every step of a process moves
its own activity along an `Edge`, whatever the others do, so that what it knows by
itself (`Local`) is an invariant. Then the *fates*: what a step does to the row,
and what row and activity learn together. Every step is of one of the `Kinds` these
classify, and the invariants are preserved kind by kind:

- `FenceInv` for the handoff: a confirmed lease is never longer than the row's;
  an id in two processes or in a loaded snapshot is recorded only on a row whose
  lease is over; at the handoff a row that is still recorded for the process is
  marked.
- `EvidenceInv` for the action property: claims in use are different, a process
  whose row has evidence of a send has outcomes that tell so, and none that is
  about to record "nothing was sent" holds such a row.
- `HoldInv`, `ShowInv` and `SoleInv` for at most once: who can still reach the
  adapter holds its row or the row is over; what was sent shows in the row or in
  the outcomes of its owner; and there is one sender, with everything it has not
  reached unsent. This is where timers on time are needed: `LeaseSound` says that
  a sender that may still continue has a row with a lease.
- What the completion owner holds depends on the outcomes a process knows, which
  edges and fates leave open, so every operation is also shown to be `Honest`:
  what the activity goes on with follows from what it knew (most steps are `Plain`
  and learn nothing) or from what the row, the adapter or the completion owner
  just answered. `Tale` and `RowTale` say who tells the completion owner what, and
  who stages and ends the row. From these: `TruthInv`, whoever has a result to
  report has sent; `CourseInv`, whoever finalizes has settled, and whoever may move
  the ledger to queued has a pending row; `SnapInv`, no pending row carries a
  settlement; `WayInv`, nothing on the way to a send has a staged row or a
  suppressed ledger; `CleanInv`, what is or will be recorded as suppressed was not
  sent. The last uses `ShowInv`, hence the timers.
- The refinement (`DeliveryPromiseProofs`) starts from the invariants of at most once (an arrival is a first
  one; a row that is taken anew has nothing sent) and from `TruthInv` (who reports a
  delivery has sent). They say nothing of the row that evidence of a send is
  written to, so one more is needed, `BackedInv`: a process with a marker, or
  about to record a possible send, is recorded only on a row that is marked too
  (`Backed`), and no snapshot of a recovering process shows that row as not yet
  marked (`Echo`), or its later claim would take the marker back. It is kept because every operation is
  `Firm`: an activity gets a marker only with the row's or with the row's end, and
  records a possible send only when it had one. Then every kind of step is mapped.

How the pool is proved. Its handlers are compositions of a dozen operators from
pool state to pool state, so the invariant is stated about such a state and
carried through one operator at a time:

- `PoolInvariant` says of a slot what its task, its thread and its pending
  completions may be (`SlotInv`); of a task that it is called, queued, in its slot
  and done in this order, and what it still owns (`TaskInv`); that the queue holds
  admitted tasks without a slot, each once (`QueueInv`); that the counters are what
  they count and within their limits (`CountInv`); that a rotation that waits will
  retire slots with nothing else on them (`RotInv`); that a task that has asked its
  host has a worker (`HostInv`); and that a queue is justified (`Justified`).
- Everything but the last two holds between any two operators (`Good`). A worker's
  error clears the slot's worker before the slot's task is failed, so `HostInv`
  and, until the closing `dispatch`, `Justified` hold only at the ends of a
  handler and travel as hypotheses.
- The operators fall into a few kinds, each with a lemma: a step of one task that
  leaves the slots alone and is `Harmless`; a step of a slot with its tasks
  (`SlotStep`); a turn of the dispatch loop; pressing; a change of the queue; the
  removal of a slot. A handler that does not end in `dispatch` keeps `Justified`
  because it is `Calm`: no slot becomes free, and no task starts to wait for its
  host. Every action is then a composition of these.
- The counters are cardinalities, so that each kind only has to say which
  tasks or slots enter or leave; a charge of bytes is that of a task plus that of
  a big one.

Assumptions on the constants: `NoOwner` is not an owner, there is an account,
lease durations are positive, the retry, claim, batch, generation, transaction,
message and trouble bounds are natural numbers, the limits of a lane are positive,
the policies are Booleans, and the model values that stand for "none" are none of
the values they stand beside. The number of restored runs of the scheduler and
the number of tasks of the pool are finite; the pool's limits are positive.

Only model-checked: the liveness properties, which are out of the prover's reach.
Every safety property a run checks is a theorem.

## Known limits and observations

Queue and lease:

- The completion owner is not fenced by the queue claim. A recoverer that loaded
  the row before another process finalized it calls `markDurableDeliveryQueued`
  (`delivery-completion.ts` 310) and moves the ledger from unknown to queued. So
  `LedgerTruth` and `FailedIsSettled` are stated for one restarting process.
- If the outcome marker of a live send without identity cannot be written,
  `persistQueuedPostSendState` (`deliver-queue-state.ts` 316-323) acknowledges the
  row with a completion receipt. No property about receipts is claimed.
- With two processes and a clock that outruns them, claims can expire between
  claim and reservation again and again (`delivery-queue-recovery.ts` 696).
  Liveness across processes would need a bound on step times that the code does
  not state.
- Not modelled: payloads sent in several chunks, retry backoff, session
  generations, conversation completions, rows from before producer claims, reuse
  of a pending intent, stable preparation, media spool files and migrations; in
  the lease the timer heartbeat without a worker and the Postgres backend.

The others:

- OAuth: a crash between claim and settlement leaves a pending fence until the
  next login or logout, as the code intends (the token may have been spent);
  `PendingIsSettled` excepts it.
- Authority: `PublishedIsSound` holds as long as outcomes arrive in the order of
  their changes. When identical claim bytes are admitted again, a late outcome can
  leave a result published that is gone; when a newer outcome is published
  first and an older one is lost, the published claim is no longer the row's.
  Tools have the same limit: a withdrawal of the tools of one claim
  that arrives while those of another are still published is ignored
  (`placement-turn-authority.ts` 100-104), so when the grant it revokes is
  published later, the host authorizes tools the row no longer has. That a tool
  call's claim is the row's, and the prepared authorities, are sound in these
  cases too.
- Authority: of the published claim (`isPublishedPlacementTurnClaimCurrent`,
  433-445) the property speaks only while the entry is `Exact`. The code leaves
  three ways out of that, and the model takes all of them. The first is
  a replica read: `capturePlacementReplicaRead` remembers `owner.sequence` (408),
  which counts a change from the moment it is staged. A read that begins then and
  takes its snapshot before the change commits sees the old row; when the change is
  published meanwhile, its number is not above the remembered one, and the
  comparison at 415 lets the old row replace it. The comment at 405 says that a
  read can "never overwrite a newer committed postimage". The second is an entry
  that an indeterminate change removed: such a read fills it again. The third is a
  claim change without `workspacePlacement`, which leaves the older entry in place
  (78-83). In each the answer is that of an old row until the next publication with a
  placement. No caller of `capturePlacementReplicaRead` is part of the repository; the
  model lets its reader take a snapshot while a change is staged.
- Swarm: raising the limit in `ensureLane` does not pump by itself; the next
  activation, release or removal does, which is why `EveryRunIsServed` holds.
- Draft: `OwedIsServed` says nothing of a draft whose timer `resetThrottleWindow`
  cancelled (its caller in `dispatch-progress.ts` of the Slack extension calls
  `update` and `flush` afterwards), nor of one that a failing flush left pending with
  nothing else to serve it. In the loud half of the latter the rejection that is
  reported is that of the older value. The silent half (`owed = "stranded"`): with
  `coalesceInFlight` an update during a send sets no timer (`draft-stream-loop.ts`
  121-126); if the send belongs to a flush that was called from outside and returns
  false, `retainUnsentValue` leaves the newer draft pending and schedules nothing
  (44), and the flush returns normally (80-82). Nobody is told, and without another
  update or flush the draft is never sent, though the option is documented (14) to
  keep such updates "in the next throttle window". It needs neither `JobsBetween`
  nor the owner's operations.
- Lease: `FenceDefersLoss` excepts a renewal that the fence overtook. It got
  SQLITE_BUSY, loads the fence word (`heartbeat.worker.ts` 258), reads the committed
  expiry (275) and stores what it found (77-80), in separate steps beside the main
  thread. If that thread has begun its transaction but raises the fence (`lease.ts`
  636) and passes its check only after the load, and the grant runs out before the
  read, the worker stores 0 and declares the lease lost while the fence is up and
  checked, although the comment at 259 says that the committed expiry "cannot
  establish loss until that transaction settles". The model reaches this. The
  transaction still commits under its grant (`GuardedWriteIsOwned`), but the
  invocation is over although its fenced renewal may have extended the grant.
- Pool: with two or more workers `dispatch` presses one owner per queued task and
  returns. If the owner it chose is failed later and its slot retires, or its
  thread cannot be terminated, other host-waiting tasks stay unpressed until
  the next `dispatch`. `QueueIsJustified` therefore accepts a slot that is
  retiring or could not be retired in place of a pressed owner; free slots beside
  a queue it never accepts.
- Pool: shared compute capacity, native sections, temporary artifacts and
  diagnostics are left out. Admission: the database-admission relay, schema
  maintenance, attachments and source reservations. Swarm: capacity-wait
  publication, metrics, owner revisions, work scopes. Debounce: how the interval is
  resolved. Authority: placement states and generations, journal changes,
  projections, waiting for a release.

Not modelled: the placement state machine and its generations, gateway restart
and active work, cron, the process supervisor, the question manager, the ticket
store, configuration mutation, the gateway's transport and dispatch, agents and
model providers, plugins, channel extensions, CLI, control UI and apps.
`PROJECT.json` gives the reason for each. The repository is very large, and most of
it is adapters, presentation, tooling and data handling without a protocol of its
own.

## Plan

1. *Done*: the modules, runs and theorems above.
2. The placement state machine under `TurnAuthority`, with gateway restarts.
3. Stable preparation and reuse of a pending intent in `DeliveryQueue`; gateway
   restart; cron's run queue.
