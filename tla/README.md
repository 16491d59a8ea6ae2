# Caelis: a TLA+ model of the execution, durability and admission core

Caelis runs Agent Sessions. A long-lived *Host* process owns a store of Sessions,
admits *Turns* (one prompt and everything the model and its tools do with it), keeps
every Session in files, and serves several clients at once. This directory models the
parts of it whose correctness depends on the order in which things happen: who may
write a Session, what a crash leaves behind, when a Turn has really ended, and what a
repeated command does.

The sources are under `src/`; every path below is relative to it. `PROJECT.json` maps
each definition to the lines it translates and lists the runs, their mutants, the
hazards, the findings and the theorems.

## 1. Inventory

| Part | State | Operations that change it | Hard behaviour | Module |
| --- | --- | --- | --- | --- |
| Session fence and mutation guard (`agent-sdk/session`, `session/file/fence.go`) | fence, fence epoch, event log, Session state | acquire, take over, release, guarded append and update | a producer that lost its fence and does not know it; a late release; a Host that dies | `SessionFence` |
| Idle compaction window (`session/idle_compaction.go`) | epoch, window, grant | handoff, grant, append, revoke, recover | lost answers, retries, a source that changes underneath | `SessionFence` |
| Fenced runtime (`internal/controlplane/fence_*.go`) | guard, registry of executions | run, stop, finish, release loop, recover a lost run | four goroutines per execution | `FencedRuntime` |
| Session file store (`agent-sdk/session/file`) | WAL, log, document, index, marker | every file operation of a transaction, and recovery | crash and power failure between any two | `FileTransaction` |
| Turn admission (`internal/kernel`, `agent-sdk/runtime/runner.go`, `app/gatewayapp/hosted_child_input.go`) | active Turn, admission blocks, handle, runner, queue | begin, prompt, submit, cancel, recover, block, reconcile, quiesce | closing edges, missed wake-ups | `GatewayTurns` |
| Approval queue (`internal/kernel/approval_queue.go`) | queue, active cohort, settlements | enqueue, submit, resolve, release, abandon, steer | cohorts, persistence failures, steering | `ApprovalQueue` |
| Runner submission dispatcher (`agent-sdk/runtime/runner_submission.go`) | bounded queue, request flags | submit, dispatch, reject, close | a caller gives up while it is being served | `RunnerSubmission` |
| Operation ledger (`control/appserver`) | receipts, execution gates, retention | execute, recover, complete, sweep | retries, crashes between effect and receipt | `OperationLedger` |
| Session feed, Session Runtime registry, execution journal, subagent tasks, task streams, spool, collaboration, profiles, service manager | | | | planned, section 9 |
| Models, tools, sandbox, policy, prompts, projection, wire schema, Surfaces | | | | not modelled, section 8 |

How the modelled parts interact: `GatewayTurns` admits a Turn, whose runner is a
producer of `FencedRuntime`; that acquires and releases the fence of `SessionFence`;
every transaction of `SessionFence` is one write of `FileTransaction`. A command of a
client passes the `OperationLedger` before it reaches the Gateway; a tool call of a
Turn may wait in the `ApprovalQueue`; input for a running controller or participant
passes the `RunnerSubmission` dispatcher. `FencedRuntime` and `SessionFence` are
composed in TLA+: `FencedRuntime` extends `SessionFence` and conjoins its actions, so that
every step of the composition is by construction a step of the store or leaves it alone.
The others meet at interfaces that each side models as a choice.

## 2. The modules and the code

One MC module per component supplies the constants. Definitions keep the names of the
code where TLA+ allows it. A definition that a comment calls a *mutant* is a plausible
wrong version of the definition after it; no specification uses it.

### SessionFence

One action is one transaction of the store, which serialises transactions under its
root lock. `fence`, `fenceEpoch`, `idleEpoch`, `window`, `log` and `state` are the
document; `alive`, `started`, `authority` are the Host processes and the authority
lock; `claim`, `source`, `phase` are what the callers keep in memory.

* `AuthorizeMutationGuard` is translated case by case. The guards that callers present
  (`Guards`) are their own claims, current or stale, fences they only observed (without
  the bearer claim), Control guards for each purpose with and without a fence, and the
  unmarked guard.
* Fence ids and claims are random in the code. A producer is one acquisition, so its
  name serves as id and as claim. A Host draws a fresh owner id when it starts; a Host
  of the model starts once.
* `CheckpointSourceStamp` is a digest of the Session state, its configuration and its
  visible events. Positions in the append-only log stand for the events, one value for
  the rest.
* Answers can be lost: every release has a parameter that says whether the caller heard
  of it.
* The append of a checkpoint also compares a Session revision that its caller has just
  read. A stale revision only makes the append fail, so it is left out.

### FencedRuntime

Per execution: the producer, the finisher (`finishAfterProducer`, `finish`), the
release loop with its retries, and, per Host, one `RecoverLostRun` call. Registration,
`completeFencedExecution` and `releaseFencedExecution` are separate steps because they
take the mutex separately. A Host may die, shut down, or lose the authority lock.
`exec[p].given` records that the prepared idle handoff was completed with the window
that the release, or its read-back after a lost answer, returned.

### FileTransaction

`fs` is what processes see and `disk` is the set of states that a power failure can
leave. Creating, renaming and removing names of a directory reach the disk in order and
are certain after a directory sync; log lines are certain after a file sync. Every
operation can fail. `proc` is the place of a process in a transaction or in recovery;
the steps are those of `writeRecoverableDocumentTransaction`: mark, WAL, log, document,
index, remove the WAL, remove the marker. A failure after the rename of the WAL is a
`CommittedError`, one before it an ordinary error. `hist` and `report` record what was
started and what each caller was told. A torn last line of the log is truncated before
the missing events are appended again, and what recovery accepts as already written is
decided by the tail of the log it can read and the last sequence of the document.
Creation of parent directories, which the code does not sync, is outside the model.

A transaction wraps its errors (`wraps`) when its caller goes through
`writeDocument`. `writeDocumentWithEvents` without events writes the document directly
and returns the error of the rename or of the sync as it is; `BindController` reaches it
that way. There an ordinary error may follow a change that is on the disk, which
elsewhere a `CommittedError` (`session.go:90-93`) would report.
`FailedLeavesNoTrace` is stated for the transactions that wrap, and names the exception.

### ApprovalQueue

One action per operation under the coordinator's mutex. Callers
(`resolveApprovalRequest`), Turns, clients, watchers and the admission barrier of a
model step interleave. Persistence of a settlement can fail. What a reviewer or a user
decides does not matter to the queue and is not represented; that a decision was sent,
or the done channel closed, is counted. A Turn can be cancelled, closed and finished, in
any order and each of them once (`ended`); each one abandons the queue entries of the
Turn in a step of its own (`abandons`), which other operations may precede. `Ends` bounds
the ends that an instance contains. A caller leaves in three ways that the code treats
differently: its context ends, its review fails, or its Turn has ended.

A steering submission voids the reviews under way when the handle takes the input,
before the runner does (`handle.go:171-174`). A review that is enqueued between the two
belongs to the old intent and is not voided; `SteeringVoidsReviews` says nothing of it.

### OperationLedger

One ledger address (principal, operation ID), several callers, the Host that can die,
a wall clock, and the sweep. A request is plain, recoverable, or transactional (its
effect and its receipt are one SQLite transaction). Reading a row and the
compare-and-set on it are separate steps. Rows may be inherited from an earlier version
(`ver`): a row without retention gets it when it is first read, a permanent one is never
reclaimed. A completion whose timeout has passed can only fail.

`CompletionTimeout` is assumed to be less than every retention. The code does not
enforce it: it accepts any positive retention (`operation_store_retention.go:56-63`), and
the completion timeout is 5 seconds. Without the assumption `ReceiptIsTrue` fails: a
transactional receipt expires, is swept and its address is admitted again while the call
that wrote it still holds its result. The same would follow from a wall clock that jumps
by a retention within those seconds.

### GatewayTurns

One Session. A Turn goes through `BeginTurn`, `runTurn`, `WaitCompletion`,
`releaseActive`, `finish` and `publishFinalTerminal`; its runner through `boot`,
`live`, `quiet`, `done` and the release of its fence, which can fail and is then
retried in the background. Callers are inputs of a hosted child (with the routing loop
of `routeHostedChildInputToParent`), participant prompts, reconciliation of external
Agents, interrupts, and `Quiesce`. A Turn that is already cancelled is not cancelled
again: an interrupt then reports that no run is active, the others wait. A start can fail
before the fence is acquired or after it, when the fence has to be given back. The
terminal of a Turn is the one its producer reported, unless the Turn was cancelled or
failed. `Faults` names the choices of the environment that an instance contains, and
`Scenarios` the sets of callers that come together. A bound on Turns acts as a Session that can no
longer be read, an error the code handles, so that it never starves anybody.

Deadlines of `Quiesce` and `CancelActiveTurnAndWait` are not modelled: their callers
wait as long as it takes. That of a recovery is (`RecoverFails`). `runWithFence` also
handles a Run without a handle and a runner that cannot be waited for; the Run, the
controller Turn and the participant Turn of this Runtime
(`agent-sdk/runtime/runtime.go:298`, `controlplane.go:104`,
`controlplane_participant.go:434`) return neither. `pendingSubmissions` of the handle is not modelled: with
`allowPendingSubmissions` a submission always waits for the runner, so the buffer is
never filled.

### RunnerSubmission

The two selects of `submit`, the select of `run`, `close` in its two parts (under the
lock, and the cancel after it), and contexts that end at any time. Go's `select` picks
any ready case. The queue outlives the goroutine.

## 3. Runs

Each run asks one question. States are distinct states.

| Run | Config | Question | States |
| --- | --- | --- | --- |
| `session_fence` | SessionFence.cfg | may a superseded producer write, may a window or checkpoint miss its source | 0.67 M |
| `fenced_runtime` | FencedRuntime.cfg | two executions on two Hosts, takeovers, crashes, recovery of lost runs | 0.85 M |
| `runtime_live` | FencedRuntimeLive.cfg | handoffs complete once and get the window also after a lost answer, a guard whose producer stopped ends | 48 k |
| `file_transaction` | FileTransaction.cfg | two processes, two documents, failures, crashes and a power failure | 0.76 M |
| `file_recovered` | FileRecovered.cfg | violation, see section 7 | |
| `approval_queue` | ApprovalQueue.cfg | three requests of two Turns, a cohort, a subagent; one Turn cancelled, the other closed | 0.30 M |
| `approval_live` | ApprovalLive.cfg | a queued request reaches the head; steering voids the reviews under way | 17 k |
| `operation_ledger` | OperationLedger.cfg | two callers, three requests, rows of an earlier version, restart, expiry, sweep | 1.4 M |
| `gateway_turns` | GatewayTurns.cfg | two inputs and a shutdown, a prompt with two overlapping reconciliations and an interruption; lost and failed runs | 1.1 M |
| `gateway_live` | GatewayLive.cfg | every call returns: inputs, prompts, a reconciliation and a shutdown, with lost runs | 0.10 M |
| `gateway_fence` | GatewayFence.cfg | violation, see section 7 | |
| `runner_submission` | RunnerSubmission.cfg | two callers, a queue of one, stop and give-up; a stop answers everybody | 15 k |

Each property of each passing run is broken by a mutant of a mapped definition under
the run's own config.

### Bounds

Every bound is a constant that a guard names. Two Hosts and two producers are enough for
a takeover and a late writer. Two documents are enough for an index that lists one of
them; one power failure suffices because nothing in memory survives it. A cohort of two,
a third request behind it and two Turns cover every branch of `activateNextLocked`; the
third request is always a question to the user, and in `approval_live` the first one
always a review (`Modes`). One Turn is cancelled and the other closed, and in
`approval_live` one finishes (`Ends`); a Turn that is cancelled and then finishes, next to
one that is closed, was checked once as well and holds. Two callers and two intents cover reuse of an operation ID
after the sweep. Two Turns cover "the next Turn". `gateway_live` has two inputs with a
shutdown, and each pair of an input, a prompt and a reconciliation; of the faults it has
only the lost fence, which a recovery waits for. With more callers at once the liveness
check takes longer than its state space suggests. Two callers and a queue of one cover a
full queue and a submission behind it. Symmetry is declared only where no property or
constant tells the members apart.

### Fairness

* Goroutines that are ready run: weak fairness of the steps of each caller, Turn,
  finisher, loop, watcher and dispatcher. The failure of a recovery is not among them, so
  that no call returns only because it may give up.
* A cancelled producer or handler stops (it observes its context); an uncancelled one
  may run for ever.
* A release that is retried eventually commits, unless the Host dies or shuts down.
* Users, reviewers and clients are fair only where a property is conditional on their
  answer (`QueuedEventuallyActive`).

## 4. What the properties say

Some invariants are checked together as one conjunction, named here with its parts.

*Fencing.* `StaleProducerNeverWrites`: tokens in the log never go back.
`FenceLeavesOnlyByItsOwner`. `OneAuthorizedProducer` is proved and has no run.
*Idle compaction.* `CurrentWindowExcludesFence`, `CurrentWindowIsFresh`,
`CheckpointCoversSource`, `OneCheckpointPerJob`, `HandoffCompletedOnce`,
`WindowReachesJob`.
`GrantNeverRenewed` is proved and has no run.
*Executions.* `RuntimeInv` (`ProducerHasFence`, `LossIsReal`, `LossReachesRunner`),
`ExecutionTracked`, `RecoveredMeansQuiet`, `GuardEventuallyEnds`.
*Durability.* `StoreInv` (`RecoveryNeverConflicts`), `AckedIsDurable`,
`CommittedIsThere`, `FailedLeavesNoTrace`, `OpenIsConsistent`. Power failures are
included in `AckedIsDurable`, `FailedLeavesNoTrace` and the index; the others are about
process crashes, and the first finding shows why consistency cannot include both.
*Commands.* `LedgerInv` (`OwnReceiptOnly`, `GateIsLive`), `AtMostOnce`,
`ReceiptIsTrue`, `AnswerIsReceipt`, `LedgerNeverForgets`.
*Turns.* `TurnInv` (`ProducerIsActive`), `ReconcileIsAlone`, `QuiescedIsFinal`,
`InputAtMostOnce`, `AcceptedInputRuns`, `CallReturns`.
*Approvals.* `QueueInv` (`FirstComeFirstServed`, `QueueNeverStalls`), `OneHead`,
`OneOutcome`, `DecisionIsDurable`, `SteeringVoidsReviews`, `QueuedEventuallyActive`.
*Submissions.* `AnswerIsTrue` (`RefusedIsNotHandled`, `OkIsHandled`),
`CloseReachesHandler`, `StopAnswersAll`.

Each is stated in words, with the code behaviour it is about, where it is defined.

## 5. What is proved

`SessionFenceProofs` proves, for any sets of Hosts, producers, purposes and candidates,
any bounds and any lifetimes, all the properties that `session_fence` checks, and
`OneAuthorizedProducer` and `GrantNeverRenewed` besides. The assumptions are those of the module: the empty value is not a producer, Host
or candidate, and lifetimes are naturals.

* `TypeCorrect`. Typing of the record-valued document is proved action by action; it is
  the base of everything else.
* `ClaimsAreExact` (`FenceInv`). A claim belongs to one acquisition, its token is at
  most the epoch, and the held fence is the claim of a producer that has not finished
  releasing and carries the newest token. It is inductive together with typing.
* `FencingOrder`. `StaleProducerNeverWrites` is not inductive: it needs that no event
  carries a token not yet issued (`TokensIssued`) and, from `FenceInv`, that whoever is
  authorized with a token carries the newest one.
* `OneWriter` follows from `FenceInv`: authorization compares ids, and ids are unique.
* `WindowExcludesFence`, `WindowIsFresh`. Each acquisition and each guarded write
  advances the idle epoch in its own transaction; a replayed handoff finds the window
  current and therefore the fence free.
* `CheckpointsAreUnique`, `CheckpointsCoverTheirSource`. They rest on `JobInv`: a job
  that had a window has given up its fence for good, so that it cannot hand off again,
  and one that has written its checkpoint has consumed its window.
* `ExactRelease`, `GrantsAreFixed`. Action properties, from the same invariants.

A step of `Next` is first classified by its effect (a lemma per kind), so that each
invariant is preserved by a handful of cases and not once for each action.

## 6. What is only model-checked

All other modules, and all liveness: fairness and `ENABLED` are beyond the prover.

## 7. Findings

* **Recovery does not sync the log** (`file_recovered`, `RecoveredIsSynced`). When a
  process dies after the event lines are written and before they are synced, recovery
  finds no event missing and returns without a sync
  (`agent-sdk/session/file/transaction.go:366-368`), writes and syncs the document, and
  removes the WAL. Until something else syncs the log, a power failure would leave a
  document whose events are in neither the log nor a WAL. `doc.go:1-4` of the package
  promises durable compound updates.
* **`CancelActiveTurnAndWait` does not wait for the durable fence** (`gateway_fence`,
  `CancelWaitsForFence`). The comment at `internal/kernel/gateway_active.go:156-157`
  says that it waits until the producer releases the durable execution fence. It waits
  for the Turn to leave the Gateway, which happens after the first attempt to release,
  also a failed one; the retry is in the background. No modelled property depends on
  it: an admission that meets the old fence fails and leaves nothing behind.

## 8. What is not modelled

Models and providers, tools, sandbox, policy, skills, prompt parsing, projection to
Envelopes, the wire schema, HTTP and SSE transport, configuration lookups, and all
Surfaces: they transform data, present it, or call out; they have no protocol of their
own between actors. The bodies of prompts, events and summaries are abstract values
throughout. Logging, diagnostics and wording of errors are left out. Schema migration
of the file store and of SQLite is left out.

## 9. Plan

Built, in this order: `SessionFence` and its proofs; `FencedRuntime`, composed with it;
`ApprovalQueue`; `FileTransaction`; `OperationLedger`; `GatewayTurns`;
`RunnerSubmission`.

Next, in order of what their hazards are worth:

1. `FeedBroker`: publication, bounded history, subscribers, reconnect; that a client
   that resumes sees each durable event once and in order.
2. `SessionRuntimeRegistry`: activation, use, retirement and reconfiguration of a
   Session Runtime; that nobody uses a retired one and that closing ends.
3. `ExecutionJournal`: tool calls begun and finished, and what recovery makes of one
   that was neither.
4. `CompactionReceipts`: attempts, staged receipts, recovery; each attempt is accounted
   once.
5. `TaskSaga`: a subagent started, adopted, cancelled and recovered.
6. `StreamSpool`, `Collaboration`, `SessionProfile`, `ServiceLifecycle`.

An abstract one-writer log, which `SessionFence` implements, and an atomic store, which
`FileTransaction` implements, are the refinements to add. Theorems to add: the safety of `ApprovalQueue`, `OperationLedger` and
`RunnerSubmission`, whose invariants are close to inductive.
