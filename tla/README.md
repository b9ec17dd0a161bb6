# TLA+ specifications of ntm

ntm runs coding agents in tmux panes, gives them work items ("beads") of an issue tracker, and
watches what becomes of them. Many ntm processes work on one session at the same time: the
interactive CLI, `ntm assign --watch` loops, the `serve` daemon with its coordinator, robot
commands that other agents call. They share no memory. What keeps them from sending one bead
twice, from giving one pane to two beads, or from losing the end of an assignment is the
assignment core: a durable ledger (`internal/assignment/store.go`), the executor that claims,
reserves and dispatches (`AtomicCoordinator` in `internal/assignment/atomic.go`), and the
completion outbox (`internal/completion` with the watch loop of `internal/cli/assign.go`).
The specifications are about that core, and about four parts around it that have concurrency of
their own: webhook delivery with its bus bridge, the two-person approval of gated commands, the
supervisor of daemon processes, and the executor of pipelines.

Contents: [1 the system](#1-the-system), [2 the modules](#2-the-modules),
[3 properties and runs](#3-properties-and-runs), [4 bounds](#4-bounds-and-abstractions),
[5 fairness](#5-fairness), [6 proofs](#6-proofs), [7 findings](#7-what-the-code-does-differently-from-what-it-says),
[8 not modelled](#8-what-is-not-modelled), [9 plan](#9-plan).

To check: `tlc -config <run>.cfg <module>` for the rows of the table in section 3, and
`tlapm` for `LedgerStoreProofs.tla`, `CompletionOutboxProofs.tla`, `AtomicAssignmentProofs.tla`,
`BeadHandoffProofs.tla`, `ApprovalProofs.tla`, `SupervisorProofs.tla`, `PipelineRunProofs.tla` and
`WebhookDeliveryProofs.tla`.

## 1. The system

### 1.1 The assignment core

| part | state | operations | what is hard | correct when |
|---|---|---|---|---|
| ledger (`assignment/store.go`, `store_lock*.go`) | a primary and a backup JSON file, a file lock, per-bead operation and cleanup lock files; in every process a copy of the rows, the baseline it was read from, the set of rows to replace as a whole | load, strict load, save (merge, publish backup, publish primary), status changes, assign, reassign, remove, clear, begin and end of a terminal barrier | several processes with stale copies; a crash or an I/O error between any two steps of a save, which leaves the edit in memory | the two files are always readable; a save is atomic; a stale writer takes nothing back; an event that was announced is on disk |
| atomic execution (`assignment/atomic.go`) | in a row: idempotency key, claim, reservation, dispatch and clear state, terminal barrier; lock files of beads and panes | `Execute` (new attempt, recovery, replacement), its `RecordAtomic*` recorders, clear, terminal reconciliation | effects in the tracker, Agent Mail and a terminal that cannot be rolled back and whose outcome may be unknown | a prompt goes out once at most and only when everything behind it holds; one bead per pane; no lease or claim without a row that knows of it |
| completion outbox (`assignment/store.go`, `completion/detector.go`, `cli/assign.go`) | in a row: barrier, event, consumer token, lease; in a process: queue, dedup window, handled set | scan, begin and reconcile an end, claim, queue, renew, handle, acknowledge | leases that lapse while the event is queued or handled, dead consumers, saves that report an error after they were applied | an event is handled before it is gone, and is always gone in the end; no row is written that the ledger's validation refuses |
| coordinator (`coordinator/assign.go`) | none that matters: it polls | recovery of pending rows, retirement of ended ones | a second, independent driver of the same rows | as above |
| tracker adapter (`bv/bv.go`) | none; SQL transactions on the Beads database | claim, release | the answer may be lost | the claim named by a row is the one in the tracker |

Interactions. `Execute` holds the operation lock and the cleanup lock of its bead, then the
operation lock of its pane, and saves the row through the ledger before and after each external
call. Detectors, the coordinator and `ntm assign --clear` take the same cleanup lock, one at a
time, and end rows in steps: barrier, leases released, claim released, final status. The event
written with the barrier stays in the row until a watch loop has acknowledged it. Everything two
processes tell each other goes through the ledger files; every lock is an advisory file lock that
the kernel drops when its process dies.

### 1.2 Around the core

| part | state | operations | what is hard | correct when |
|---|---|---|---|---|
| webhook delivery (`webhook`, fed by the event bus of `events`) | a bounded queue, a retry list with a condition variable, dead letters, a counter of pending work, lifecycle flags | dispatch, send, schedule a retry, retry, start, stop, close | workers, the retry goroutine, bus handlers and Stop at once; a full queue whose room changes hands; a stop with work in flight | a delivery is in one place until it is settled and is settled in the end; Stop leaves behind only what it says, and ends its goroutines |
| approval engine (`approval`, `state/store.go`, gate in `cli/force_release_gate.go`) | rows of one SQLite table | request, approve, deny, check, list, consume, expire; look-up by operation key | every command is a process: it reads a row, decides, and writes when the row may be another | decisions are final and by a second person; one grant, one execution; one request per operation |
| supervisor (`supervisor`) | a map of launch records, their processes, PID files, a stopped flag | start, probe, wait for exit, handle failure, relaunch, shut down | two goroutines of a launch report one exit; a relaunch races a shutdown that holds the lock it needs | nothing outlives the shutdown; the restart budget holds; an exit is answered |
| pipeline executor (`pipeline`) | a state file per run; in the process the state, the dependency graph, one goroutine per step in flight, background processes | run, resume, cancel, dispatch, work, retry, skip, settle, drain, save | all goroutines save the whole state; a failure cuts the others off; a process dies anywhere and another one resumes from the file | dependencies first; what is finished stays finished and is done once; a completed run has done everything; every run ends |

Not modelled yet: rate limiting (`ratelimit`),
resilience monitor (`resilience`), history and log of the event bus, websocket hub and job registry (`serve`), account rotation (`swarm`), dispatch queue (`dispatch`),
backpressure (`backpressure`, `pressure`), and what section 8 lists.

### 1.3 What is hard to test here

`PROJECT.json` lists the hazards with their source lines. In short: a process dies or sees an error
between the two renames of a save; a save merges a dirty or stale copy; an external call did or did
not take effect and nobody knows; a process dies on either side of the prompt it types; a detector
acts on a scan older than another one's whole delivery; a lease lapses in the hands of a living
consumer; a clear, a retirement and a recovery of one row overtake each other; two beads reach for
one pane; an end of an assignment is never offered again. Around the core: a wake-up that falls
between a test and a wait; a retry that is decided before a stop and scheduled after it; a decision
on a record that has been decided since it was read; a relaunch that comes out of its backoff during
a shutdown; one exit that is reported twice, or an exit that everybody takes for noise; a save with
an older copy of a run; a run that dies between a step's work and its record.

## 2. The modules

| module | what it is |
|---|---|
| `AssignmentStatus` | statuses of a row and the merge rule for them (`shouldApplyAssignmentStatusDelta`), used by the three below |
| `DurableLedger` | abstract specification: one ledger that is replaced as a whole |
| `LedgerStore` | the ledger: files, memories, saves; implements `DurableLedger` |
| `CompletionOutbox` | the life of a completion event |
| `BeadHandoff` | abstract specification: what `Execute` and the cleanups promise of beads and prompts |
| `AtomicAssignment` | `Execute`, recovery, replacement, clear and retirement; implements `BeadHandoff` |
| `WebhookDelivery` | from a published event to its settled deliveries, with Close |
| `ApprovalGrant` | abstract specification: what the workflow promises of each request |
| `ApprovalGate` | the commands and the table; implements `ApprovalGrant` |
| `Supervisor` | launches, failure handling, shutdown |
| `PipelineRun` | a run of a workflow: scheduler, steps, saves, crash and resume |
| `LedgerStoreProofs`, `CompletionOutboxProofs`, `AtomicAssignmentProofs`, `ApprovalProofs`, `SupervisorProofs`, `PipelineRunProofs`, `WebhookDeliveryProofs` | theorems about `LedgerStore`, `CompletionOutbox`, `AtomicAssignment`, `ApprovalGate`, `Supervisor`, `PipelineRun`, `WebhookDelivery` |
| `BeadHandoffProofs` | extends `AtomicAssignmentProofs`: that `AtomicAssignment` implements `BeadHandoff` |
| `MC...` | symmetry sets and small functions for TLC |

How they compose. `LedgerStore` is the bottom layer, with a save in its steps. Its result, that a
save is atomic for every reader who loads strictly (`SavesAreAtomic`, proved), is what lets the two
upper modules make a locked "strict reload, check, save" one step on one durable `row`. They share
the barrier, cleanup and clear fields of a row but look at two different questions, and each leaves
out the other's: `AtomicAssignment` has no events, `CompletionOutbox` has no claims and prompts.
Webhooks, approvals, daemons and pipeline runs share no state with the assignments or with each other, so their
modules stand alone; `WebhookDelivery` composes the bus, the bridge and the manager.

### 2.1 LedgerStore

| state | code |
|---|---|
| `primary`, `backup` | the two JSON files: persistence generation, rows, cleared generations |
| `mem[p]`, `base[p]`, `repl[p]` | `Assignments`, `baseline` and `replacements` of the store in process p |
| `pc[p]` | `saving`: an operation has edited the memory; `published`: the backup is renamed, the file lock held |
| `undo[p]`, `want[p]` | what the operation restores if its save fails (some restore nothing); the event it emits if it succeeds |
| `opLock[b]`, `sending[b]` | holder of the bead's operation lock; whether that holder wrote the dispatch barrier |

`Load` is `Load`/`LoadStrict`. `Assign`, `UpdateStatus`, `Update`, `Reassign`, `Remove`,
`CompleteClear`, `TransitionIfCurrent`, `RecordAtomicIntent`, `RecordAtomicClaim`,
`RecordAtomicDispatchStarted`, `RecordAtomicDispatchSent` and `Save` are the operations of the
same name; operations under a bead's lock reload first, the others start from what the process
has. They end in `saveLocked`, whose steps are `PublishBackup` and `PublishPrimary`, or
`SaveConflict`, or `SaveFails`; `Crash` can come between any two. `Merge`, `Conflict` and
`ShouldApplyStatusDelta` are the three-way merge.

### 2.2 CompletionOutbox

`row[b]` is the durable row with barrier (`clear`, `pending`, `claimFree`) and outbox fields
(`event`, `token`, `lease` in ticks). `seen`, `recent`, `claimed` belong to a detector: the
assignment its scan saw, its dedup window, the event it holds a lease for. `queue` is the channel
to its watch loop; `phase`, `current`, `handled` are the watch loop's. `created` and `done` are
history variables: all events ever written, and for each one who finished handling it (or that a
replacement erased it). Actions follow one
attempt: `BeginAttempt`, `ReplaceWorking`; `Scan`, the barrier with its event (`BeginTerminal`),
the cleanup in steps under the cleanup lock; `ClaimEvent`, `Enqueue`, `TakeNew`/`TakeHandled`,
renewal, `HandlerSucceeds`/`HandlerFails`, `Acknowledge`; `Tick` lets leases run down; `Crash`
kills a process, its queue and its dedup window.

### 2.3 AtomicAssignment

`row[b]` has the attempt (idempotency key), the claim actor, the pane, and the claim,
reservation, dispatch, clear and terminal states of the code; the terminal statuses are one,
`ended`. `tracker`, `leases` and `delivered` are the world outside: who holds a bead in Beads, what
Agent Mail holds for an attempt, how often the prompt of an attempt reached a pane (history).
`cleanup` and `target` are the locks; `job`, `pc`, `answer` say what a process does, where it is,
and what the last external call answered.

| actions | code |
|---|---|
| `RequestAttempt`, `RequestRecovery`, `RequestClear`, `RequestRetirement` | the callers: `ntm assign`, robot and `serve` assignment; recovery by key; `ntm assign --clear`; coordinator and detector |
| `LockBead`, `Admit` | `AcquireExternalCleanupLock` with `acquireAtomicBeadOperationLock`; the target lock, with recovery, succession and occupancy decided by the row |
| `Authorize`, `RecordIntent` | authorisation against the tracker; `RecordAtomicIntent` |
| `StartClaim`, `Claim`, `RecordClaim` | barrier, call, record |
| `UseReservation`, `ReconcileReservation`, `StartReservation`, `Reserve`, `RecordReservation` | the reservation, a recorded one reused or reconciled first |
| `StartDispatch`, `Dispatch`, `RecordDispatch` | barrier, prompt, receipt |
| `BeginCleanup`, `ReleaseLeases`, `RecordLeasesReleased`, `ReleaseClaim`, `RecordTerminalClaimReleased`, `Complete` | clear, retirement and, up to the release of the leases, replacement |
| `MarkWorking`, `DetectEnd` | status changes by the watch loops; the terminal barrier |
| `Stop` | kill, cancellation, or an error that ends the operation, at any program point |
| `TrackerMove`, `LeaseLapses` | other users of the tracker; leases run out |

The decision to take an old row up again (`MayResume`) is the heart of the code: it must say no to
a row that is ended, being cleared, refused, or behind an unanswered dispatch barrier.

`BeadHandoff` says what all this amounts to for somebody who sees the rows and the prompts only. A
bead is handed over under a key that was never used, in a pane that no other bead occupies (`Hand`).
Before the prompt the ledger commits to it (`Commit`); the prompt is typed once at most, and only
behind the commitment (`Prompt`); the ledger says that it was typed only if it was (`Confirm`), and
takes the commitment back only if it was not (`Retract`). An end that has begun (`BeginEnd`) leads to
the end (`End`), to oblivion (`Drop`), or to the next key, never back. The mapping: `Stage` of a row
is `ended` if its status is terminal, else `ending` behind a barrier, else `preparing`, `sending` or
`working` by its dispatch state; a key that was handed out is spent once no process holds it for an
intent still to be written (`SpentKeys`). Claims, reservations, locks, and processes that stop after
their intent are stutters.

### 2.4 WebhookDelivery

| state | code |
|---|---|
| `handler[e]` | the goroutine that the bus runs for the bridge's subscription: called, in the loop over webhooks, in the middle of a send to a full queue |
| `queue`, `retryQueue`, `deadLetters`, `pending` | the fields of `WebhookManager` |
| `sender[s]` | a worker, or the retry processor: idle, sending, about to schedule; for the processor also `deciding` (holds the mutex between loop test and `Wait`), `waiting`, `asleep` (timer) |
| `ready`, `abandoned` | local slices of `retryProcessor` and `abandonPendingRetries` |
| `subscribed`, `started`, `stopping`, `canceled`, `stop` | lifecycle flags and the place in `Stop` |
| `fate`, `late`, `overran` | history: how a delivery ended, which were queued after Stop had begun, whether Stop gave up waiting |

`Publish` is the bus, `DispatchBegins`, `Enqueue`, `DropOldest`, `EnqueueAgain` are `Dispatch`
with its three channel operations; `WorkerTakes` to `ScheduleRetry` are `processDelivery`;
`FindsNothing` to `ProcessorExits` are `retryProcessor`; `Unsubscribe` to `StopReturns` are `Close`
and `Stop`.

### 2.5 ApprovalGate

A record is numbered by its `created_at`, which `Stamp` reads and `Insert` writes later. `status`,
`requestedBy`, `approvedBy` are columns; `inWindow` says whether `expires_at` is ahead;
`command[u]` is the command that a person runs, with the record it has read and where it is;
`allowed` counts the gated executions a record let pass (history). A command is a read (`LookUp`,
`ReadRecord`, `ReadGrant`), and later a guarded update (`Spend`, `Decide`, `ExpireRecord`) or an
insertion. An engine's mutex is not modelled: it serialises nothing between processes.

### 2.6 Supervisor

A launch of a daemon is a record; `last[d]` is the one in the map. `state`, `restarts`, `done` are
its fields, `alive` its process, `pc` its two goroutines, `shutdown` the place in `Shutdown`, which
holds `lifecycleMu` until it has returned (`LockIsFree`). `Start` and `Restart` are `Start` called
by the program and by `handleDaemonFailure`; `Reap`, `Tick`, `ProbeEnds`, `HandleFailure`,
`BackoffCut`, `BackoffEnds` the goroutines; `Shutdown` to `ShutdownReturns` the shutdown. A monitor
goroutine that has returned is one that does not tick again. `replaced` (history) collects
processes that a Start pushed out of the map while their record was unhealthy.

### 2.7 PipelineRun

| state | code |
|---|---|
| `file` | the run's JSON file, replaced as a whole by `SaveState` |
| `state` | `e.state`: status, results of steps, steps in flight, output variables |
| `saving[t]` | the copy that goroutine t has made in `persistState` and is writing, under `persistMu` |
| `executed`, `failed` | the dependency graph |
| `phase`, `receiving`, `fatal`, `cancelled`, `cut` | the goroutine of `Run` or `Resume`: where it is, the step that `finishStep` folds in, `fatalErr`, the context of the run, the context of its steps |
| `pc[s]`, `result[s]`, `attempts[s]` | the goroutine of a step in `executeStep` |
| `sidecar[s]`, `killed` | the process that a step with `wait: none` leaves running, and its watcher; those that were killed (history) |

`Dispatch`, `CutOff`, `Receive`, `StoreOutput`, `Settle`, `Finish`, `Return` are `executeWorkflow`
with its `waitOne` and `finishStep`, and the end of `Run`; `markStepInFlight` to `BeCancelled` are
`executeStep`; `SidecarKilled`, `markFireAndForgetCancelled` and `GiveUp` the watchers: one that finds
no record of its step may at any moment be past its two seconds, and ends without a mark
(`unmarked`). Each goroutine saves in two steps, `snapshotState` and `SaveState`, and goes on whether or not the file could be written.
`Crash` ends the process anywhere; `Resume` is `applyResumeState`, in a process with an empty graph.
What a step does is a choice: it completes, fails, is skipped or cancelled. A result is `relaunch`
when it is completed with `RerunOnResume`, and `dependency` when it is a skip for a failed
dependency; the variables hold the name of the step whose output they carry.

## 3. Properties and runs

| run (`.cfg`, module) | checks | what it shows |
|---|---|---|
| `LedgerStore`, `MCLedgerStore` | `TypeOK`, `StrictLoadNeverFails`, `ConfirmedEventIsDurable`, `SavesAreAtomic`, `StaleWriterKeepsTerminal`, `StaleWriterKeepsBarrier` | two processes with stale copies, dying at any step, through four saves and two attempts of a bead |
| `OutboxRows`, `MCCompletionOutbox` | `TypeOK`, `RowsAreAcceptable`, `EventIsHandledOrReplaced` | two watch loops, the coordinator, manual clears, replacements, a crash, lapsing leases, failing saves: no row that `validateCompletionOutboxAssignment` refuses, which would close the session's whole ledger; and an event stays in the outbox until it was handled, unless a replacement took its row over |
| `OutboxDrains`, `MCCompletionOutbox` | `OutboxDrains` | a watch loop may die with the event leased, queued or handled, saves may fail: every event leaves the outbox |
| `OutboxReplaced`, `MCCompletionOutbox` | `EventIsHandledBeforeItIsGone` (violated) | finding 1: the same without the exception |
| `AtomicOneBead`, `MCAtomicAssignment` | `TypeOK`, `AtMostOneDelivery`, `NoOrphanLease`, `NoOrphanClaim`, `PromptIsBacked`, `RetiredClaimIsReleased` | two processes assign, recover, replace, clear and retire one bead over three attempts; stops anywhere, lost answers, a tracker that others change, leases that run out |
| `AtomicReturns`, `MCAtomicAssignment` | `PaneExclusion`, `ClaimIsHeld`, `BeadsAreHandedOver`, `RequestsReturn` | two beads compete for one pane: rows and prompts are those of `BeadHandoff`, and the two locks never block for good |
| `AtomicBlockedClaim`, `MCAtomicAssignment` | `RetiredClaimIsReleased` (violated) | finding 2 |
| `WebhookDelivery`, `MCWebhookDelivery` | `TypeOK`, `EachDeliveryIsInOnePlace`, `PatientStopSettlesAll`, `OpenDeliveriesEnd` | three deliveries of two events through a queue of one, retries and one dead letter, with Close at any moment |
| `WebhookLostWakeup`, `MCWebhookDelivery` | `CanceledGoroutinesExit` (violated) | finding 3 |
| `ApprovalGate`, `MCApprovalGate` | `TypeOK`, `OneRequestIsLive`, `DecisionsAreFinal` | three people's commands interleave on two records whose windows close at any moment: the gate implements `ApprovalGrant` |
| `Supervisor`, `MCSupervisor` | `TypeOK`, `NothingOutlivesShutdown`, `RestartsAreBounded`, `RecordsDoNotRevive`, `ExitIsAnswered`, `ShutdownEnds` | a probed daemon and one without a probe, started once or twice, crash, back off and are relaunched, with a shutdown at any moment |
| `PipelineRun`, `MCPipelineRun` | `TypeOK`, `DependenciesFirst`, `InputsAreThere`, `CompletedMeansDone`, `SidecarsAreMarked`, `FinishedStaysFinished`, `RunEnds` | a diamond of four steps with each failure policy, a condition, a recovery and a background process, two at a time, cancelled or dying at any moment and resumed once |

Every property of a passing run is paired in `PROJECT.json` with a plausible bug of the code
(a *mutation*, defined beside the operator it changes) that violates it under the same configuration.

Some properties are narrower than their names suggest:

- `StaleWriterKeepsTerminal` and `StaleWriterKeepsBarrier` are checked and proved for
  `DiskErrors = FALSE`.
  With failing saves both fail: the operation's edit stays in memory when an operation such as
  `RecordAtomicDispatchStarted` restores nothing, and goes out with the process's next save
  (section 7). For the terminal status the sequence needs a failed `Remove` or `CompleteClear`
  followed by `Assign` in one process, and no production code calls `Assign`; so it is no finding.
- `ConfirmedEventIsDurable` is about the events of `confirmPersistedStatusLocked`.
  `RecordAtomicDispatchSent` announces the row of its memory instead; that this can differ from the
  disk needs an unlocked `UpdateStatus` or `MarkFailed` at the same time, which only tests issue.
- `PaneExclusion` counts a row as working while it is live or its prompt is on the way. The code's
  own occupancy check (`InUse`) also counts an ended row that is being cleared.
- `ClaimIsHeld` and `NoOrphanClaim` hold while nobody blocks the bead (`NoOrphanClaim`) or takes it
  (`ClaimIsHeld`). After `ntm assign --clear` of a blocked bead the tracker keeps ntm's actor, for
  the reason of finding 2.
- `PatientStopSettlesAll` exempts a Stop whose ten seconds ran out, and deliveries of handlers that
  had read the started flag before Stop lowered it.
- `NothingOutlivesShutdown` exempts the process of an unhealthy daemon for which the program called
  Start again, `RestartsAreBounded` is about daemons started once, and `ExitIsAnswered` takes a
  relaunch whose Start failed for an answer (section 7).
- `OneRequestIsLive` is about histories in which no two requests were filed at once.
- `InputsAreThere` exempts a variable that two steps write (section 7), `FinishedStaysFinished` is
  about what reached the file: a step that completed and whose save failed is done again after a
  crash.
- `SidecarsAreMarked` exempts a process whose watcher gave up before the scheduler had recorded the
  step (section 7, gaps), and says that this happens only in runs that fail or are cancelled: in one
  that completes the cut comes after the last record, so each killed process is marked.
- `ClaimIsHeld`, `PaneExclusion` and `BeadsAreHandedOver` are checked without moves of others in the
  tracker; the theorems have them for any moves (`ClaimIsHeld` for all but taking a bead). No run
  checks `EndingIsFinal`: `BeadsAreHandedOver` says it of the stages, and the theorem of the rows.
- `BeadHandoff` has no liveness: a bead may stay behind its barrier for good (section 7, gaps).

## 4. Bounds and abstractions

`CHECK_DEADLOCK FALSE` in all but `AtomicOneBead`: the counters of the models
(generations, attempts, crashes, events, requests, launches) are bounded and then nothing is left to
do; a manager, and a supervisor, that was closed really stops.

| bound | value | why it is enough |
|---|---|---|
| `Store`, `Consumer`, `Process` | 2 | a stale writer and a fresh one; an owner of a lease and the one who takes it over; every race in the code is between two. Theorems hold for any number of stores and processes |
| `Bead` | 1 in ledger and outbox, 1 or 2 in assignment | rows of the ledger are merged one by one; only a pane is shared between beads |
| `MaxGeneration` | 4 | two saves of each process, interleaved; the bound is the code's own (2^64 - 1), reached here so that the refusal is exercised |
| `MaxAttempt` (keys) | 2 or 3 | an attempt, its successor, and a third that overtakes both |
| `MaxRetries` | 1 | one plain field that merges independently |
| `Lease` | 1 tick | a lease is alive or lapsed; renewal resets it |
| `QueueSize` | 1 (100 in the code) | full and not full |
| `MaxCrashes` | 0 or 1 | one consumer dies, the other must go on |
| `Outcome` | 1 or 2 values | two, where two detectors may disagree |
| `Event`, `Webhook`, `Worker` | 2, 2, 1; three deliveries | the queue of one is full when a second delivery comes, its room is taken by a third; a worker and the retry processor send at the same time |
| `QueueSize`, `DeadLetterLimit`, `MaxRetries` of a webhook | 1, 1, 3 and 1 | full queue, full list, a webhook with retries and one without |
| `User`, `MaxRequests` | 3, 2 | a requester, an approver and a third who races both; a request and its twin or successor. The theorems hold for any number |
| `MaxRestarts`, `MaxLaunches`, `Plans` | 1, 3, one call of Start for each daemon or two for one | a relaunch and a budget that is spent; `MaxLaunches` lets a second call launch after a relaunch, and a Start beyond it is refused like one whose binary is gone. The theorems hold for any number |
| `Step`, `DependsOn` | 4; b needs a, c needs b and d | two branches that join: a step that waits for a slow and a fast one, a cascade of skips of length two, a step that is in flight when another one fails |
| `MaxParallel`, `RetryCount`, `MaxRuns` | 2, 1, 2 | steps at once and one that has to wait; a retry; a run and its resume, which has a file of every kind to start from |
| `TrackerMoves`, `LeasesLapse` | subsets | `AtomicOneBead`: close, reopen, take, lapsing leases. `AtomicReturns`: none. `AtomicBlockedClaim`: block. Each run has what its properties can be hurt by |

Abstractions, common to all modules: bead content, prompts, paths, timestamps and digests are
absent; an idempotency key is a number in order of creation; a file lock is a variable, and a lock
is dropped when its process dies. In `AtomicAssignment` moreover:

- `Stop` stands for a killed process, a cancelled context and every error that ends the operation,
  after the effects of the failed call, if any, have taken place. An effect that happens after its
  call has returned an error is not modelled.
- A key that is used again after its row was cleared (`robot/spawn.go`, `robot/bulk_assign.go`
  without a recovered intent) is a new attempt.
- A file reservation is always asked for, and the reservation port can reconcile, as the one in
  production does; no claimer in production can reconcile claims.
- Where the model allows more than the code: a new attempt over an ended row whose event is still
  pending, and a clear of a row that ended since it was observed. The two tracker reads of a
  replacement are one step.

In the other modules: time is a choice (a retry of the list may be due, a window close, a probe's
time-out have passed, ten or two seconds be over at any moment); a request or a probe succeeds or
fails. `Start` of the supervisor reads the state of the old record without the record's lock; the
model takes such a read as atomic.

In `PipelineRun` the workflow has passed validation, so the graph has no cycle and a step is ready
while not all are executed (the branch "no steps ready" is left out).

In `CompletionOutbox` the way a detector recognises an end is a choice of `Outcome`, and the handler
of a watch loop finishes, fails or is cancelled.

## 5. Fairness

`OutboxDrains` is checked under `FairSpec`. Watch loops and detectors poll for ever (every five
seconds), which gives weak fairness to the steps that stay possible (`Enqueue`, `DropTaken`,
`Acknowledge`, `EndCleanup`, `ForgetRecent`), and strong fairness to those that another process or
an error interrupts again and again (`ClaimEvent`, `TakeHandled`/`TakeNew`, `BeginCleanup`, the
success of a handler, of a cleanup step and of an acknowledgement): a step that is retried does not
fail every time. Time passes, so the lease of a dead process lapses. The lease of a living one is
thirty seconds, six polls, renewed every third of its length; it may lapse any number of times but
ceases to (`<>[][~LivingLeaseLapses]_vars`); otherwise two processes could take the event from each
other for ever. Crashes are not fair and bounded.

`RequestsReturn`: external calls have deadlines, so a process that is not stopped takes its next
step; file locks are polled without a queue, so a waiting process gets a lock that is free again and
again. One strong fairness per process, of `LockBead`, `Admit` or `Work`, says both: a process waits
for one lock at a time or works, and work stays possible until it is done or the process stops.
Nothing makes a process `Stop`.

`OpenDeliveriesEnd` and `CanceledGoroutinesExit`: goroutines run and HTTP requests have time-outs
(`WF` of every handler, sender, the retry processor and Stop); a delivery that keeps waiting for its
retry becomes due, because its time is fixed when it is scheduled (`SF` of taking it). Nothing makes
anybody call `Close`.

`ExitIsAnswered` and `ShutdownEnds`: a dead process is reaped, failure handlers run, their backoff
is bounded, and Shutdown goes on (`WF`). No fairness makes a process die, and none makes a probe
succeed: `ShutdownEnds` relies on `ForceKill`, not on SIGTERM. The relaunch needs the lock that
Shutdown holds; as Shutdown ends, weak fairness suffices.

`RunEnds`: the goroutines of a run go on (`WF` of the scheduler, of each step and of each watcher):
every step has a time-out, an attempt ends, a process killed with its context is reaped, and its
watcher finds the record or gives up. A background process need not exit by itself: the end of the
workflow cuts it off.

## 6. Proofs

The theorems hold for all values of the constants: any stores and beads, with or without disk
errors; any beads, watch loops and attempts, with leases and channels of any length; any beads,
panes, processes and attempts; any people and records; any daemons and restart
budgets; any workflow with any policies, parallelism and number of resumes; any events, webhooks,
workers, retries and limits of the queue and of the dead letters. Their assumptions are the named
`ASSUME`s of the modules only; where the table says "if", the theorem has that hypothesis about
`TrackerMoves`, what other users of the tracker do, about `Replacing`, or about `DiskErrors`.

| theorem | states |
|---|---|
| `LedgerInvariant` | `Spec => []LedgerInv`, the inductive invariant |
| `TypeCorrect` | `Spec => []TypeOK` |
| `StrictLoads` | `Spec => []StrictLoadNeverFails` |
| `ConfirmedEvents` | `Spec => []ConfirmedEventIsDurable` |
| `AtomicSaves` | `Spec => SavesAreAtomic`: `LedgerStore` implements `DurableLedger` |
| `WritersKnowTheirRows` | `Spec => []MergeInv`, if no save fails: the inductive invariant for stale writers |
| `TerminalKept` | `Spec => StaleWriterKeepsTerminal`, if no save fails |
| `BarrierKept` | `Spec => StaleWriterKeepsBarrier`, if no save fails |
| `Invariance` | `Spec => []IInv`, the inductive invariant of `CompletionOutbox` |
| `TypeCorrect` | `Spec => []TypeOK` |
| `RowsAreAccepted` | `Spec => []RowsAreAcceptable` |
| `EventsAreHandled` | `Spec => []EventIsHandledOrReplaced` |
| `EventsAreHandledFirst` | `Spec => []EventIsHandledBeforeItIsGone`, if no working row is replaced |
| `Invariance` | `Spec => []IInv`, the inductive invariant of `AtomicAssignment` |
| `TypeCorrect` | `Spec => []TypeOK` |
| `DeliveredOnce` | `Spec => []AtMostOneDelivery` |
| `OneBeadPerPane` | `Spec => []PaneExclusion` |
| `LeasesAreKnown` | `Spec => []NoOrphanLease` |
| `ClaimsAreKnown` | `Spec => []NoOrphanClaim`, if nobody blocks beads |
| `ClaimsAreHeld` | `Spec => []ClaimIsHeld`, if nobody takes beads |
| `PromptsAreBacked` | `Spec => PromptIsBacked` |
| `EndsAreFinal` | `Spec => EndingIsFinal`: once its end has begun, an attempt only ends |
| `RetirementReleases` | `Spec => RetiredClaimIsReleased`, if nobody blocks beads |
| `HandInvariance` | `Spec => []HandInv`: `IInv` with what the refinement needs besides |
| `HandedOver` | `Spec => BeadsAreHandedOver`: `AtomicAssignment` implements `BeadHandoff` |
| `SentWasTyped` | a live row that says "sent" is right: the prompt of its key was typed once |
| `RecordsInvariant` | `Spec => []RecordInv`, the inductive invariant of `ApprovalGate` |
| `ApprovalTypes` | `Spec => []TypeOK` |
| `DecisionsFinal` | `Spec => DecisionsAreFinal`: `ApprovalGate` implements `ApprovalGrant` |
| `OneLiveRequest` | `Spec => []OneRequestIsLive` |
| `LaunchesInvariant` | `Spec => []IInv`, the inductive invariant of `Supervisor` |
| `SupervisorTypes` | `Spec => []TypeOK` |
| `NothingOutlives` | `Spec => []NothingOutlivesShutdown` |
| `BoundedRestarts` | `Spec => []RestartsAreBounded` |
| `NoRevival` | `Spec => RecordsDoNotRevive` |
| `Invariance` | `Spec => []IInv`, the inductive invariant of `PipelineRun` |
| `TypeCorrect` | `Spec => []TypeOK` |
| `StepsFollowDependencies` | `Spec => []DependenciesFirst` |
| `StepsFindTheirInputs` | `Spec => []InputsAreThere` |
| `CompletedFileIsDone` | `Spec => []CompletedMeansDone` |
| `KilledSidecarsAreMarked` | `Spec => []SidecarsAreMarked` |
| `FinishedWorkIsKept` | `Spec => FinishedStaysFinished` |
| `Invariance` | `Spec => []IInv`, the inductive invariant of `WebhookDelivery` |
| `TypeCorrect` | `Spec => []TypeOK` |
| `NeitherLostNorDoubled` | `Spec => []EachDeliveryIsInOnePlace` |
| `PatientStop` | `Spec => []PatientStopSettlesAll` |
| `FinalEnds` | `Spec => EndsAreFinal`: an ended delivery keeps its end and is not sent again |

The ledger. `StrictLoadNeverFails` is not inductive: whether a save may publish depends on what
an earlier one left behind. `FilesInv` says what that can be: the backup is the primary or its
immediate successor; without a primary it is the first version. From it the durable version (what
strict readers see) changes only when `PublishBackup` renames the backup: recovery, the primary's
rename, failures and crashes leave it as it is (`StepPreserves`, with `RecoveryKeepsDurable` for the
steps that read). That is the refinement, up to the promise of `DurableLedger` that a row never
returns to an earlier attempt. For it `AttemptsInv` relates the memories: what a process means to
save has no attempt earlier than its baseline (`Follows`), and none that was not yet created
(`Created`); `MergeKeepsAttempts` then shows that a merge without conflict follows the newest
version. The step proof has a lemma for each kind of action (`BeginSavePreserves` for the twelve
operations, `SettlePreserves` for the steps that end one).

Stale writers. That a merge does not take back what the writer has not seen depends on what a writer
can mean to save. `WriterInv` says it: a process at rest has nothing unsaved (`CleanInv`); what a
save writes over a row that it read is of the same attempt, and changes its dispatch state or
replaces it as a whole only under the bead's operation lock (`ChangeInv`); an attempt that a save
brings is known to nobody else (`FreshInv`); and who holds the lock knows the dispatch state on disk
of the attempt it read (`HolderInv`), because taking the lock reads the ledger. `MergeOrigin` then
says where a published row comes from: from the disk, with a dispatch state that only the lock
holder changed, or from a writer that brought the attempt or holds the lock; `StaleMerge` says the
same from the side of the row that a stale writer meets. After the last generation (a bound of
the code, `MaxGeneration`) nothing is published, so the invariant ends there. The hypothesis that no
save fails is needed: after a failed save the edit may stay in memory (section 7), so that `CleanInv`
is false, and with it both properties.

The outbox. An event outlives its row's status, its lease and its watch loop: what keeps it is that
every save of a row either carries the event on or comes from one who finished it (`KeepsEvent`,
`SaveKeeps`, `SaveCreates`). An acknowledgement finishes the event for its consumer only because a
watch loop acknowledges nothing else than what it handled, first or from its handled set; `LoopInv`
says so. That a written row is acceptable follows from the guards of the step that writes it, with
the types of the row; each action has its lemma. Only a replacement finishes an event without a
handler, so that without replacements the full promise holds, which finding 1 refutes with them.

Atomic assignment. None of its properties is inductive: a step of `Execute` acts on what an earlier
step of the same process found. `IInv` says, for each program point, what that still is. Of a
process: it runs under its locks and for the requests that reach the point (`LockInv`, `JobInv`); a
new key is known to it alone until `RecordIntent` (`FreshInv`); the row is as admission left it
(`AdmittedInv`), as its own last step left it (`ExecuteInv`), or behind its barrier (`CleanupInv`);
an answer it has not yet recorded is what the world did (`CallInv`); the bead is its actor's
(`ClaimInv`); and nobody moved into the pane since admission (`PaneInv`). Of a bead: what its row
promises of Agent Mail, the panes and the tracker (`RowInv`, `TrackerInv`); of a key, that a prompt
or a lease has a row that knows of it (`AttemptInv`); of two beads, that their rows have different
keys and live in different panes (`UniqueInv`, `PaneExclusion`). The argument is in the frame lemmas:
two processes past their locks hold different beads and panes (`LocksDiffer`), so a step touches no row,
tracker entry, lease or pane that another process or another row was promised
(`OthersKeep`, `OtherRowsKeep`, `RowsStayApart`), and with `StepPreserves` each action answers only
for its own bead and the next step of its own process. `ExecuteFrame`, `ReservationStep` and
`CleanupFrame` are that for the three families of actions, `DetectorPreserves` for the watch loops,
which hold the cleanup lock for one step. The action properties then follow from the row that each
action may write (`RowStep`) and from the invariant at `Dispatch` (`DeliveryStep`).

The hand-over. Each action of `AtomicAssignment` is one of `BeadHandoff` or shows nothing (the lemmas
`...Shows`, put together in `HandStep`). Most of it follows from `IInv`: that a key is new when its
row is written from `FreshInv`, that the pane is nobody else's from `PaneInv`, that the commitment is
the row's own and its prompt not yet typed from `ExecuteInv` and `CallInv`. Two facts are missing
there, because no safety property needed them. A new attempt past admission has a bead without a live
row (`AssignInv`): it was so at admission, and until the intent is written only the holder of the
bead's lock writes a row that is free (`FreeBeadStays`). And who reports its prompt as sent has typed
it (`SentInv`). `HandInv` adds them to `IInv`, and is inductive. Which keys are spent changes in three
places only (`NothingSpent`, `KeySpent`): a request that ends early wastes its key, the intent uses it, and a
new request brings one that is not spent. `SentWasTyped` is then proved of the hand-over
(`WorkIsPrompted`) and carried back to the rows; it is not in `IInv`.

The approvals. A guarded update is safe whatever its command read, except in what the guard does not
say: who asked for the record, and whether it exists at all. `CommandsKnowTheirRecord` says that a
command about to write has a record of the table, and that one about to approve is not its
requester; `StampsAreFresh` that a stamp belongs to one command and is not in the table before that
command inserts it. Each step is then one of `ApprovalGrant` or changes nothing it sees
(`GrantStep`). For `OneRequestIsLive` two more facts are needed: a gate that is about to stamp or
insert has seen a newest record that is dead and stays dead (`GateKnowsLatest`), and while nobody
inserted past a record unseen only the newest record is live (`LiveIsNewest`).

The supervisor. A shutdown is safe because whoever could launch again is held back by its record:
`WithinBudget` and `Reaped` say that a goroutine in backoff or before its Start belongs to a launch
that is dead, reaped and not monitored; `ShutdownInv` that a daemon of the map is still to be
stopped, being stopped, or reaped with its PID file gone; `ToStopInv` that what is still to be
stopped was not stopped before. For the budget, `ChainInv` describes a daemon that is started once:
its launches form a chain, all but the last are dead and none of them is relaunching, at most one
goroutine of a launch is, and the restarts of the last record count the chain. `RecordStep` carries
all of this over a step that changes one record, so that the step lemmas speak of that record only.

Pipeline runs. Everything a step relies on was settled before it started: `InFlightInv` says that
the dependencies of a step in flight are executed, none is the one just being folded in, and none
was cancelled. So no step of the scheduler changes what a step in flight reads, and a step that
leaves the records alone keeps the invariant by one lemma (`LocalStep`). `RecordInv` relates the
record of a step to the graph, the variables and `fatalErr`, with the exception of the step that
`finishStep` is folding in; a run without a fatal error whose graph is executed has therefore done
everything. For the file, `FileInv` orders three versions of the state: the file is behind the copy
being written and the copy behind the state, where a later version keeps what is completed or
skipped (`Keeps`); a single copy at a time is what makes that order last. `Sound` says that a copy
has no result for a step in flight, so that a resume retains exactly the steps that it marks as
executed. `SidecarInv` ties a killed background process to a record that its watcher will mark,
unless the watcher gives up; `CutInv`, an invariant beside the first, says in which runs it can. Until
a run is at its end, only a fatal error or a cancellation cuts its steps off, and where the record is
missing the result is still on its way, so the run is not at its end: it cannot complete any more.

Webhooks. `EachDeliveryIsInOnePlace` counts places; the proof works with sets instead. A delivery can
be in the queue, in the hands of a bus handler or of a sending goroutine, in the retry list, among
the due ones or among the abandoned ones. `PlacesInv` says that these sets are disjoint, that the
queue and the hands hold nothing twice, and that together they are exactly the deliveries without an
end; `CountInv` that the counter `pending` is their number. Each step takes a delivery out of one
place and puts it into one other, or ends it, and each place has lemmas on what taking and putting do
to it (`Cur` and `Distinct` for hands, the sequence lemmas for the queue). That a put delivery is
nowhere else needs to know that a handler queues a delivery that was never queued (`HandlerInv`);
that an attempt stays within its limit, that a delivery is only retried when it has attempts left
(`AttemptInv`, `SenderInv`). `OnePlace` turns the sets back into the count. A stop that waited until
the counter was zero leaves nothing open but what a handler queues behind its back, by `CountInv`.

Model-checked only: the liveness properties (`OutboxDrains`, `RequestsReturn`, `OpenDeliveriesEnd`,
`ExitIsAnswered`, `ShutdownEnds`, `RunEnds`). Liveness under fairness, `ENABLED`, and induction over
data are out of the reach of the proof system; nothing here needs recursion.

## 7. What the code does differently from what it says

1. **A replacement loses an event** (`OutboxReplaced`). A working row may carry a terminal barrier
   with its event. A replacement takes the row over and `RecordAtomicIntent` erases the event,
   which it would protect in a terminal row.
2. **A blocked bead keeps its assignee** (`AtomicBlockedClaim`). `releaseBeadClaimTransaction`
   commits nothing and returns no error for a status it does not list; the row is retired as if
   the claim had been released.
3. **A wake-up is lost** (`WebhookLostWakeup`). Stop of the webhook manager cancels the context and
   broadcasts without the mutex under which the retry goroutine tests the context and waits. Between
   the two the broadcast reaches nobody: the goroutine sleeps for good, Stop times out, and the
   channel that the next Start or Stop waits for is never closed.

`PROJECT.json` quotes the lines. Other divergences, met while modelling and kept without a run:

- *A failed barrier comes back.* `RecordAtomicDispatchStarted` leaves `sending` in memory when its
  save fails; a later save by the same process merges it over the receipt that another process has
  recorded meanwhile, against the comment of `mergeAssignmentDelta` (`assignment/store.go:929`).
  `StaleWriterKeepsBarrier` fails with `DiskErrors = TRUE` and `MaxGeneration = 5`.
- *An event is handled twice without a restart.* A detector acting on a scan older than another's
  whole delivery backfills the acknowledged event (`assignment/store.go:1281`); the handled set
  catches this within one process only, though the outbox comment allows repetition "after a
  restart" (`assignment/store.go:1684`).
- *A retry ends with no Stop.* A retry decided before the stopping flag and scheduled after
  `abandonPendingRetries` stays in the list when it is not due in the ten seconds of Stop, against
  "Retries that have not started yet cannot outlive shutdown" (`webhook/manager.go:464`).
- *A denial is passed by its twin.* Two gates that look up the same dead record file two requests;
  one may be denied and the other granted and spent, against "A denial stands for the record's
  original validity window" (`cli/force_release_gate.go:102`). And a consumer that read a grant in
  its window may spend it when the window has closed: `ConsumeApproval` guards the status only.
- *A process outlives Shutdown.* The guard of Start tests for running and starting only, so a Start
  for an unhealthy daemon launches a second process, and the first one is in no map when "Shutdown
  stops all owned daemons" (`supervisor/supervisor.go:317`). No production caller calls Start twice.
  Likewise a Start for a failed daemon in its backoff begins a budget of its own.

- *A resumed run has no end.* `Run` runs `post_pipeline_steps` and checks the declared outputs, "after
  the main step graph completes regardless of outcome" (`pipeline/executor.go:326`); `Resume` does
  neither.
- *A variable of two writers is restored by chance.* After a resume, a variable that two retained
  steps write holds the output of either, in the order of a Go map, against "preserving
  deterministic variable interpolation" (`pipeline/executor.go:698`); a step that was skipped by its
  condition may overwrite the other's output with nothing.

Gaps that contradict no text: a clear or a replacement that dies behind its clear barrier (no
terminal status pending) is skipped by the detector and the coordinator, and goes on only with the
next `--clear` or replacement; `MarkFailedIfCurrent` accepts a claimed row whose prompt is on its
way, which no production caller uses; a relaunch of a daemon whose Start fails is not tried again,
and its record stays "restarting"; the watcher of a killed background process gives up when the step
is not recorded within two seconds (`pipeline/executor.go:3714`), with a warning that it is not
flagged, and when the scheduler then records it as completed a resume does not relaunch it; nothing
keeps a run from being resumed while the process that
runs it is alive, and then both do its steps.

## 8. What is not modelled

In the core: corrupt JSON and the fallback of the non-strict load, idle events, Windows locks, rows
of versions without keys, prompt preflight and intent digests, assignments without reservations,
late effects of calls that have already failed. Around it: a webhook manager that is started again
after a stop, retry delays, templates and signatures; the waiters and notifications of approvals
(they end with the process) and requests without a second person; ports, logs and probe protocols of
daemons; what is inside a pipeline step (prompts, commands, parallel groups, loops, branches), steps
that run after a success, a cancellation or the pipeline, resume options and start-from; the history
ring, synchronous publication and inline handlers of the event bus. Elsewhere: configuration,
rendering, matching, parsing of pane output, adapters of external programs, and libraries (no state
or one process's own); SQLite operations of `state` (each is one statement or transaction); tmux,
git and the tracker themselves, which are external and appear only as the outcomes of calls.

## 9. Plan

Done: the ledger with its abstract specification and proofs; the outbox with its proofs; atomic
assignment with its abstract specification (`BeadHandoff`) and proofs; webhook delivery with its
proofs; approvals with their abstract specification and proofs; the supervisor with its proofs;
pipeline runs with their proofs.

What would come next, most important first:

1. **Further components with concurrency of their own**, one module each: `JobRegistry` and the
   websocket hub, the resilience monitor.
2. **Numeric ones**: rate limits and pressure, as pure operators over bounded inputs beside a small
   state machine (delay within its limits, hysteresis).

The suite is kept at a dozen runs of a few minutes: where a theorem covers a run, or two questions
fit one configuration, the run makes room for a new component.
