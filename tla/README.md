# Formal models of Diomedes

TLA+ modules of the parts of Diomedes (the local desktop service under `server/`,
its shared types under `shared/`) whose correctness rests on the order of
events: callers that overlap, leases that are taken over, processes that die
between two writes, answers that arrive late. TLC checks the modules on small
instances, and TLAPS proves the safety properties for every value of the
constants.

## The system

A person works in a React client (`client/`) that an Electron shell
(`desktop/`) starts together with one local HTTP service (`server/`). The
service owns one data folder. All durable state is JSON files in it; there is no
database, and nothing holds two files together but the code.

| Component | State it keeps | Operations | What is hard | What makes it correct |
|---|---|---|---|---|
| Data folder lock, `server/lock.ts` | `service.lock`: pid, start time and port | claim, release | every file-system call is separate; starters overlap; crashes leave locks | one owner; a dead owner never locks the folder for good |
| Harness run service, `server/harness/run-service.ts` | one record per run: state, lease (owner, fence, expiry), steps with attempts and effect records, approvals, budget used; in memory: per-run queues, abort controllers | start, claim, step, decide, cancel, reconcileEffect, complete, fail, recover, reconcileInterrupted, fork, transcripts, checkpoints | a step is admitted in one transaction, runs outside the queue, and commits in another; takeover, cancel, denial and crash fall in between | an effect whose outcome is unknown is never repeated on a guess; settled steps stay settled; a completed run has nothing running or unknown |
| Tool host, `server/harness/tools.ts` | registry | a contained call (timeout, output contract), reconcile | timeouts race late answers; a reconciler's answer may be about an older attempt | each ending of a call is reported as what it is |
| Run store, `server/harness/run-store.ts` | run files, a gate per file | create, read, has, write, list | readers and replacements of one file; rename retries | a write is one atomic replacement |
| Project store, `server/store.ts` | project states in memory and on disk, a write journal | locked actions, journalled writes, recovery, approval decisions | crash between journal, files and state; outside edits | an approved write is applied once or refused, never half |
| Job caps and exposure, `server/job-caps.ts`, `spend-exposure.ts` | a record per job, holds | raise, stop, hold, settle | two file writes for one decision; late settlements | a stop raises one later job; exposure stays under the cap |
| Inventory stock, `server/inventory/` | stock document, receipts, journal | versioned commands, recovery | document and History are two files; renames whose failure is uncertain; edits by other programs; replays | a receipt has its History entry or a journal that owes it; callers are told what happened |
| Ready scheduler, `server/ready-scheduler.ts` | claims per project | claim, admit, settle | a crash between claim, start and settlement | a task starts once for each time it becomes Ready; consent and limits are kept; planned work gets its pass |
| Scope grants, remembered approvals, `server/trust/` | grants with generation and budget | issue, revoke, match, check at apply | revocation between match and apply | a revoked grant authorises nothing new |
| Work control, durable controls, handoff ledger, automations, updates | sessions, receipts, ledgers | admit, stop, replay | they rest on the project store's queue and journal | a command has one effect |
| Drivers (`harness/bridge.ts`, `host.ts`, `native-loop.ts`, `text-route.ts`, sessions) | none durable of their own beyond sessions | drive runs through the run service | several drivers and HTTP handlers on one run | - |
| Gateway, accounts, relay, supervision, sandbox, engines, control plane, client | remote or process state | - | network and operating system | out of scope, see below |

How they interact: `desktop` starts `server/index.ts`, which claims the folder,
recovers the store, then the harness (`host.ts` `init`), and only then serves
requests. Drivers call the run service with a lease owner of their own; HTTP
handlers call `decide`, `cancel` and `reconcileEffect` without a lease. The run
service calls the policy and the tool handlers back, outside its queue.

`PROJECT.json` lists every component, and under `hazards` every place where this
code can go wrong in a way a test would hardly reach, with the properties that
would show it.

## Modules

| Module | Role |
|---|---|
| `StepLedger` | abstract: what the harness promises of the steps of a run |
| `RunService` | one run record, its lease, its step calls, crash and startup |
| `MCRunService` | step kinds and budgets for TLC |
| `RunServiceProofs` | the theorems about `RunService`, and that it implements `StepLedger` |
| `DataFolderLock` | claim and release of a data folder, one action per file-system call |
| `MCDataFolderLock` | symmetry for TLC |
| `DataFolderLockProofs` | the theorems about `DataFolderLock` |
| `ApprovalLedger` | abstract: what a project promises of its proposals |
| `ProjectStore` | one project's image, files, journals and proposals; the locked queue, recovery and launch |
| `MCProjectStore` | targets for TLC |
| `ProjectStoreProofs` | the theorems about `ProjectStore`, and that it implements `ApprovalLedger` |
| `RunStoreGate` | reads and replacements of one run file |
| `MCRunStoreGate` | instances for TLC |
| `RunStoreGateProofs` | what is proved of it |
| `ReadyScheduler` | the Ready queues of several projects: passes, claims, starts |
| `MCReadyScheduler` | projects and tasks for TLC |
| `ReadySchedulerProofs` | the inductive invariant of `ReadyScheduler` and the theorems that follow from it |
| `ReadyLimitProofs` | that automatic start keeps the limit |
| `InventoryStock` | one stock document, its History and journal; calls, commit, recovery |
| `MCInventoryStock` | commands and balances for TLC |
| `InventoryStockProofs` | the theorems about `InventoryStock` |

`DataFolderLock` establishes, and the others assume, that one process at a time
works on the folder. `RunStoreGate` establishes what `RunService` assumes of
`store.write`: a write that reports success is the record, one that reports a
failure left it as it was, and writes land in the order they were asked for.
`ReadyScheduler` assumes of `Store.locked` and `persist` what `ProjectStore`
shows: actions one at a time, and memory reloaded from the saved image after one
that threw. `InventoryStock` assumes the same.

### RunService and the code

One action is one durable transaction. `RunService.serialize` queues the
transactions of a run and `store.write` replaces the record in one rename, so
nothing falls inside one; everything that may fall between two is an action of
its own.

| Variable | In the code |
|---|---|
| `runState`, `owner`, `fence` | `run.state`, `run.owner`, `run.fence` |
| `lease` | whether `leaseExpiresAt` has passed |
| `state`, `attempt`, `leaseFence` | the step record's fields; `"absent"` before `ensure` adds it |
| `effect` | the status of the step's last `EffectRecord` |
| `approval` | the saved approval of the step: identity generation, and whether it still counts |
| `used` | `run.used` |
| `process` | down, in exclusive startup, or serving |
| `controller` | the run's entry in the `controllers` map |
| `call` | the `step` calls past admission: where each stands, whose fence and attempt it carries, its abort signal, how its handler ended |
| `generation` | the identity's current approval generation |
| `open` | history, read by properties only: attempts that may have changed the world and of which nobody has said whether they did |
| `answered` | history: those of them whose handler finished its work, so that only what came after it was refused |
| `unsaved` | history: the attempt whose failure the store refused to save |

| Code | Actions |
|---|---|
| `claim` (run-service.ts:731) | `RenewLease`, `TakeLease`; time passing is `ExpireLease` |
| `step`, admission (815) | `AdmitParks`, `AdmitWaits`, `AdmitBlocks`, `AdmitStarts` |
| `step`, second policy check and handler (1043) | `RefuseDispatch`, `EnterHandler`, `HandlerReturns` |
| `step`, commit (1059) | `CommitSuccess`, `CommitLost` |
| `step`, failure (1090) | `RecordFailure`, `DropFailure` |
| `decide` (1172) | `Approve`, `Deny`; `ExpireApproval` and `RotateIdentity` are the environment's |
| `cancel`, `reconcileEffect` (1250, 1296) | `Cancel`, `ReconcileEffect` |
| `complete`, `fail` (1343, 1369) | `Complete`, `FailRun` |
| process death | `Crash` |
| `recover`, `reconcileInterrupted`, end of startup (641, 682, host.ts `init`) | `Recover`, `ReconcileInterrupted`, `Open` |

Abstractions, and why they lose nothing the properties see:

- A step's intent is a constant: the code refuses a call whose intent differs
  from the recorded one (`intent_mismatch`).
- Label, egress and authority checks only refuse. Before admission a refusal
  changes nothing; after it, it is `RefuseDispatch`. Result-phase refusals are the
  `"lost"` outcome.
- The principal's identity generation is read before the admission transaction,
  so `AdmitWaits`, `AdmitBlocks` and `AdmitStarts` take any `g` up to the current
  one.
- The handler's time is not modelled: a timeout is one of the `Outcomes`
  (`"unknown"`) whether or not the effect goes on.
- A failed store write (`WritesFail`) writes nothing. `decide` aborts the controller
  before its write (1236), so `Deny` may leave a stopped call under a run that is not
  cancelled; an attempt admitted under such a controller enters no handler.
- Events, transcripts, outputs and error texts are not modelled.

Not modelled of this file: `fork` (a second record), `recordTranscript`,
`saveNativeCheckpoint`, `publishPreview` and `fence` (they change nothing above),
`join` (callers of one immutable write share a promise).

### DataFolderLock and the code

`file` is the lock file (who created it, and whether it holds their record yet),
`pc` where each program stands, `seen` what it read; `overlapped` is history: a
claim began while another was under way. `ReadLock`, `Refuse`, `FindStale`,
`Remove`, `Create`, `CreateRefused`, `WriteRecord` follow `claimDataFolder` line
by line, `Held` is `inspectLock`, `Release` its `release`, `Listen` the port of
`server/index.ts`. A file is known by its creator, so writing through a handle of
an unlinked file reaches no reader, as in POSIX. A process is one life of a
program: pids are not reused, so `start-time-mismatch` and the tolerance on start
times do not arise.

### ProjectStore and the code

Everything that changes a project runs under `Store.locked`, one action at a
time; `op` says where the current one stands, and every `await` at which another
program, a failure or a crash matters ends a step.

| Variable | In the code |
|---|---|
| `disk`, `mem` | `state.json` and `states.get(id)`: each proposal's `state`, who decided it, its `execution`, and whether the task scope is revoked |
| `pending` | the journals in `pending/` |
| `file` | the text of each project file, known by who wrote it, and whether another program put it there before or after the last look |
| `base` | the texts a proposal was made from (`approval.sources`, `expected`) |
| `run` | `NativeWork.runs` for the project, while a proposal is open |
| `lease` | the scope is issued by this process and has not expired (`inactiveReason`) |
| `latch` | `recoveryRequired` |
| `wrote`, `late` | history: files replaced in a proposal's name; replacements under a scope that had ended |

| Code | Actions |
|---|---|
| `NativeWork` propose, resolve, authorizeAndWrite, fail, stop | `Propose`, `Approve`, `ApproveByScope`, `Decline`, `EndRun` |
| a person's save, `documents/write` | `SaveFile` |
| revoke route, `ScopeGrants.revoke` | `Revoke`; expiry is `ScopeExpires` |
| `writeRecorded` (store.ts:1403) | `Prepare`, `Look`, `Replace`, `SaveOutcome`, `Unlink` |
| `recover` (1638) | `Scan`, `Examine`, `Replace`, `SaveRecovered`, `Unlink` |
| `recoverAndReload`, `interruptUnpreparedApprovals` (578, 756) | `Reload`, `Interrupt` |
| `locked`, its catch and its latch (601) | `Free`, `Throws`, `Repair` |
| `init` (496) | `Launch` |
| a read or a durable write that fails | `Fault`, and the failing half of `Save` |

A recovery has one of three callers, and what a failure in it leads to differs:
the `catch` of `writeRecorded` (`"rescue"`) rethrows into `locked`, which sets the
latch and recovers again (`"call"`); a recovery that throws there leaves the latch
for the next call; and one that throws during a launch ends it.

Abstractions: the first read of a file and the last check before its rename are
one look (`Look`), since nothing is done between them; the files of a write are
taken in any order; a save by the person is made from the text the file holds
(a stale one is refused before anything is written, like a stale proposal); a
proposal is for texts, so creation and deletion of files are not told apart; one
task scope without a budget; remembered approvals go through the same check and
are not modelled; proposals of the harness are settled by the harness
(`need.harness`) and left out; several projects share the queue and nothing else.
`Interrupt` at launch also expires what was open, as `init` does after it. Of recover's
check of a journal, `Consistent` leaves out the validation of the receipts and grants in
its image (store.ts:1648-1652) and the comparison of its writes with the History entry
of the decision (1673-1678): `Journal` builds both from one set of files, and texts are
not stored twice here.

### RunStoreGate and the code

`gate` holds the gate objects, `current` the one in the `gates` map, `held` the one
each call entered. `drained` is the list of sleeping replacements, `awaits` the
promise a call awaits, known by the replacement that will release it, and `entered`
and `landed` are history. One action is what the code does between two awaits:
`StartRead`, `ResumeRead`, `OpenFile`, `EndRead` for `reading`; `StartReplace`,
`ResumeReplace`, `Rename`, `EndReplace` for `replacing` and the retried rename;
`Access` for the question `create` asks first. A call of `has` is a read. The
temporary file is written before the gate is entered and nobody else sees it, so
it is part of `StartReplace`. A rename is refused while any program has the file
open (Windows; elsewhere `Foreign` simply never matters).

### ReadyScheduler and the code

| Variable | In the code |
|---|---|
| `mem`, `disk` | per project: `readyQueue` (auto start, pause, claims), sessions with the command on their receipt, and since when each task is Ready (0: it is not) |
| `runs` | what `deps.running` sees: `NativeWork.runs` and `WorkService.runs`; the run of a task in the work loop (`Looped`) is a record of the harness and not here |
| `allPaused` | `ready-queue.json` |
| `pass`, `again`, `op` | `this.pass`, `this.again`, and where `run` stands |
| `missed`, `halfway` | history, for the two exceptions the properties name |

`Plans` is `planReadyQueue` for the limits the code ships, one run per project,
with ties left open. `kick` is part of every save, as the store's `change` event
is. `BeginPass`, `Replay`, `Claim`, `AdmitFromReceipt`, `AdmitRefused`,
`AdmitStarts`, `AdmitFails`, `AdmitThrows`, `Settle`, `EndPass` follow `run` and `admit`;
`PersonStarts`, `Ends`, `Decides`, `Reopen`, `Configure`, `ConfigureAll` are the
other locked actions that matter; `Launch` is `init` of store and scheduler.

`Decides` stands apart from `Ends` for the order of two statements: `fail` and
`stop` forget the run and then save, `resolve` saves and then forgets the run.
Refusals of the start path are nondeterministic (`AdmitRefused`). Its many checks may
save what they chose for the task (`automaticWork`, app.ts:3192-3194), which the queue
never reads, and change nothing else the model has. A start makes more than one write.
When the one of its session fails, `AdmitFails`; when a later one does, `AdmitThrows`:
the note on hand-off files that are gone (`started`, app.ts:3089-3095), the loop's run
and lease, or what the loop was asked (native-loop-routes.ts:1039). The start throws,
and the work goes on unless the loop failed its session. At a launch the store ends the
sessions that were active but those of the loop, which the harness takes up again.
A session the queue starts carries the moment of its claim, not of the
task as it is now, and `Admits` looks for consent again before it starts, as `admit`
does for a claim a restart replays. Holds other than a missing confirmation only keep a task out of
the line. Deleted tasks, workflow phases and `close` are not modelled.

### InventoryStock and the code

| Variable | In the code |
|---|---|
| `stock` | the stock document: who wrote its bytes, and its receipts |
| `pending`, `hist` | the journals of `inventory-pending/`; the `inventory-stock` entries of the saved History |
| `access` | what the authorizer of the host answers, with the generation of that authority |
| `call` | the one locked call: where it stands, what it was admitted under, its journal, the error its handler is working on |
| `plan`, `answer` | of the callers: the versions each command expects, and what they were last told |
| `landed` | history: the receipts that were put into the document |

| Code | Actions |
|---|---|
| `view`, `status`, `execute` up to recovery | `View`, `Status`, `Execute` |
| `recover`, `recordRecoveredHistory` | `Recovered`, `Examine`, `Record`, `Drop`; `Launch` is `init` |
| the rest of `view` and `status` | `AnswerView`, `AnswerStatus`, `ReadBroken`, `ReadUnreadable` |
| `apply` | `Replay`, `Conflict`, `PrepareRefuses`, `Prepare` |
| `commit` | `WriteJournal`, `Guard`, `Replace`, `Persist`, `Finish`; its handler of errors is `Catch` and `Undo` |

A document is known by its receipts and by who wrote the bytes, which is what hashes
tell apart: `"ours"` is as the service writes it, `"other"` the same content saved by
another program. The version of a balance is the last receipt that touched it, so a
transfer has two. Quantities are not modelled: any command may be refused by its
validation. A command is the same each time it is sent; another intent under a used
identifier is refused and changes nothing. Every durable write and removal may be
reported failed whether or not it was done. Of the rename the code knows two kinds
of failure: one it tries again (Windows, the file is open), which has not happened,
and any other, which may have. Other programs may save the document as it is, spoil
it, make it too large or put the first one back; they do not write receipts.

## Runs

| Run | Instance | Asks | Distinct states |
|---|---|---|---|
| `RunServiceSteps` | a recorded idempotent write and an external model request a hook may hold for an approval, two drivers, two calls, 2 fences, one identity rotation, writes may fail | whether anything is repeated on a guess; whether late commits, late failures or lost writes undo what is settled; whether a fence can have two owners; whether a step is left without a call, or a run stuck parked; whether the record keeps the ledger's moves | 1.5 million |
| `DataFolderLockClaims` | three programs, start times reported | one owner while claims do not overlap; no stranded folder; every claim ends | 9 thousand |
| `ProjectStoreWrites` | a proposal for two files and a save by the person; two outside edits, three failures, a crash, a scope that expires or is revoked | whether the saved decision tells what became of the files; whether recovery can undo newer state, refuse its own journal or lose outside text; whether decisions settle | 1.1 million |
| `RunStoreGateCalls` | two reads, a write and two creations; another program opens the file once; two attempts per rename | whether a gate is lost, a wake-up is lost, or writes land out of order | 0.4 million |
| `ReadySchedulerPasses` | two projects, three tasks, one sent to a service and one in the work loop, a limit of one run; a failed save, a crash, a change of settings | whether a task is started twice, without consent, or beyond the limit; whether claims settle and planned work gets its pass | 0.9 million |
| `InventoryStockCalls` | a receipt and a transfer, two calls of `execute`; two failures, a crash, an edit by another program, a change of access | whether a receipt can be without its History entry or the other way round; whether anybody is told what is not so; whether whoever was told to check the status learns it | 1.0 million |

Bounds. `MaxFence` bounds takeovers and restarts together: 2 lets a step be started,
lost, parked or started again, and finished late under the older fence; `maxAttempts`
is 2 so the attempts run out. A third owner, a local wait and an effect that is sent
are left to the proofs, which hold for any of them: the request to an external model
is under the same rule as a send (`NeedsReconciliation`) and costs a smaller instance.
Two calls are what it takes for one to be late; a
third would only repeat a role. Two drivers are what a takeover needs. Two steps
are what it takes for one to be settled while another runs. `MaxGeneration` 1 is
one rotation, which is what separates a valid approval from a stale one. For the
lock, three programs are an owner, a starter and a third that meets what the two
left; each program starts once, so a restart is another program. The proofs
cover what these bounds leave out.

In `ProjectStoreWrites` two files are what it takes for a write to be half done,
two edits for one to fall before and one after a look (or to change a text and
change it back), and three failures for the write, its rescue and the recovery
after it to fail in a row, which is what leaves the latch set with a journal
pending. In `RunStoreGateCalls` two readers let a drained gate fill again, and
three replacements make a chain in which the first has ended while the last
sleeps; two gate objects are enough because a second one only arises when one is
dropped. `GlobalLimit` is 1 for two projects, where the code has 2 for any number:
what matters is that the limit binds before the projects run out. `MaxClock` 5
gives four identifiers: a person's start, a claim and its session, and one more
of either. In `InventoryStockCalls` two calls are two commands, or one that is sent
again after an error; two failures leave a journal and fail its recovery. `Room` and
`Legible` are equal there, and apart in `InventoryStockSize`.

Deadlock is not checked: a run that has ended, a budget that is spent and
programs that have all stopped, calls that have returned and a clock at its bound
are proper ends of these systems.

Every property is checked together with a mutant: an alternative body of one
definition, kept beside it in the module ("Mutant of ..."), under which TLC finds
the property violated. They are plausible slips of the code: a renewed expired
lease, a parked effect taken for a read, a cancelled attempt relabelled.

### What the code does and its comments do not say

Six runs expect a violation. Each checks what a comment or a document of the
repository says, and TLC shows the code doing otherwise.

| Run | The repository says | The code |
|---|---|---|
| `RunServiceCancelledRun` | a run becomes queued again unless it was cancelled (run-service.ts:1293) | after a denial, the failure of a step still in flight overwrites `cancelled` (1148), and its reconciliation queues the run |
| `RunServiceLostResult` | `failed` means that the handler reported it (shared/harness.ts:323); a recorded write is never executed again on a guess (run-service.ts:218) | the failure path writes `failed` for an idempotent write that finished and whose result was then refused (1137), and the next call executes it again |
| `DataFolderLockOverlap` | one Diomedes service owns a data folder (run-store.ts:9) | overlapping starters remove each other's lock (lock.ts:257) |
| `ReadySchedulerDecision` | a task that is `starting' has its admission under way (shared/ready-queue.ts:115); as slots free every waiting project reaches the front | the end of a decided run is announced before the run leaves memory (native-work.ts:1513), so the plan made on the announcement finds the project busy and no other is made |
| `ReadySchedulerRefusal` | a refusal is recorded with no work begun (ready-scheduler.ts:11-12) | a start that throws after its session was saved is settled as a refusal (380) while the session runs |
| `InventoryStockSize` | the check of the size matches the store's ceiling for a text (ledger.ts:71) | it measures compact JSON (75) and the document is written with indentation (stock-service.ts:400): one between the two sizes is answered as applied and never read again |

Beside the two of the run service, its central promise stands as far as it can: an
attempt starts while an earlier one is open only if the handler of that one finished
its work (`NeverOnAGuess`), never for an effect that needs reconciliation, and
`ImplementsLedger` holds.

Two more disagreements have no run. `fail` looks at the run and not at its steps: a
step admitted while the run is parked for another makes the run running again (928), and
`fail` then ends it with a step still parked, where run-service.ts:1368 says a parked run
keeps that state. And `recover` skips a parked run whole (645), so a second step that
was in flight stays `running` until the lease lapses, where the comment (636) has a
restart invalidate the dead lease.

Two exceptions of properties are the cases of runs above (`overlapped` of the lock,
`missed` of the queue). Six more properties name one, and each is something to know
about the code.

- `NeverOnAGuess` excepts attempts whose handler finished (`answered`), for idempotent
  local writes: what the code does with those is `RunServiceLostResult`.
- `InFlightHasACall` excepts the attempt whose failure could not be saved (`unsaved`):
  the step stays `running` and answers `already in flight` until the lease moves on.
- `ClaimsTellTheTruth` excepts claims whose start threw after its session was made
  (`halfway`); `RefusalsBeginNothing` is the same without the exception. There are two
  ways. `admit` catches the error of the start, so `locked` does not reload: when the
  save of the session fails, the sample worker has put an active session with the
  claim's command into the image in memory (work.ts:107), and the settlement saves it,
  although nothing runs it; native work ends such a session itself. When a later write
  of the start fails, the session is saved and its work under way. In both the claim
  says refused beside an active session.
- `OutsideEditsAreKept` excepts a text that arrives between the last read and the
  rename, and one that is exactly the text the write was made from. The second is
  what recovery cannot see: a person who puts the old text back while a journal is
  pending finds it replaced, since a text is all recovery compares.
- `UncertaintyEnds` excepts a journal that cannot be reconciled (`Blocked`), and the
  whole inventory of the project waits for a person then. One way there: a crash
  before the rename leaves the journal, and another program saves the document,
  even with the content it had. The other: the first document is put back, the same
  operation is made again and interrupted; the commit would have added a second
  History entry with its label, the recovery refuses it (stock-repository.ts:261).
  A caller that has lost its access, or asks for what it may not name, is told so, and
  that counts as an answer (`denied`, `invalid`): the code owes it no more.
- `ScopeEndStopsWrites` allows the one replacement that was past its last look.

## Fairness

`RunService` states none, and no liveness: its drivers may stop calling at any
time, a person may never decide, and the code has no timer that would finish a
run. What a step that is stuck would break is stated as safety instead
(`InFlightHasACall`, `ParkedRunHasParkedStep`).

`DataFolderLock` assumes weak fairness of the steps of a claim already begun: the
calls are awaited one after the other in one async function, so they go on unless
the process dies, which `Die` allows at every point. Nothing assumes that anyone
starts, listens or releases. `StaleLockYields` and `ClaimsEnd` rest on it.

`ProjectStore` assumes weak fairness of `Work`: an action that was entered goes on
(one `await` after another in one queue), a stopped service is started again, and
somebody calls `locked` again after a recovery that failed, which every read of a
project does. It assumes nothing of persons, runs, other programs or the scope.
`DecisionsSettle` rests on it; failures are bounded, as they must be for anything
to settle.

`RunStoreGate` assumes weak fairness of each call's next step: the event loop runs
what is ready. Another program that never closes the file is allowed, and the
bounded retry is why `EveryCallReturns` holds all the same.

`ReadyScheduler` assumes weak fairness of `Serve`: a pass that is due gets its turn
in the queue of the store, and goes on, and a stopped service is started again. It
assumes nothing of persons and runs, so `PlannedWorkIsServed` asks only for work
that may start now.

`InventoryStock` assumes weak fairness of `Work`: a call that was entered goes on, and
a stopped service is started again. It assumes that whoever is told to check the
status does so, and strong fairness of that call: `locked` is a queue, first come,
first served. Nothing is assumed of the other callers.

## Proofs

`tlapm M.tla` checks each of `RunServiceProofs`, `DataFolderLockProofs`,
`RunStoreGateProofs`, `ProjectStoreProofs`, `InventoryStockProofs`,
`ReadySchedulerProofs` and `ReadyLimitProofs`. The assumptions are those the modules
state of their constants, and TLC evaluates them on every run:

| Assumption | What it asks |
|---|---|
| `IntentAssumption`, `BoundAssumption` | what `intentOf` accepts; the bounds are numbers |
| `LockAssumption` | start times are reported or not; no lock is a lock file |
| `GateAssumption` | the kinds of call are apart, a rename is tried at least once |
| `StoreAssumption` | a proposal has files; a proposal is told from the other texts a file may hold; the bounds are numbers |
| `StockAssumption` | a command touches at least one balance; the bounds are numbers |
| `QueueAssumption` | finitely many projects, each task in one; at least one moment |

Nothing is assumed of the number of steps, owners, calls, programs, gates, proposals,
commands, tasks or projects (but that the last are finite, since they are counted); the
bounds are arbitrary numbers.

| Theorem | Property |
|---|---|
| `TypeCorrect` | `TypeOK` |
| `OneOwnerPerFence` | `FenceNamesOneOwner` |
| `AttemptsAreCalledOnce` | `OneCallPerAttempt` |
| `ParkedIsUncertain` | `ParkedEffectIsUncertain`, which no run checks |
| `CompletedIsComplete` | `CompletedHoldsNothing` |
| `ParkedCanBeReconciled` | `ParkedRunHasParkedStep` |
| `AttemptsAreNeverGuesses` | `NeverOnAGuess` |
| `SettledStepsStay` | `StepsSettleOnce` |
| `NoStepIsAbandoned` | `InFlightHasACall` |
| `RunServiceImplementsLedger` | `ImplementsLedger` |
| `FolderHasOneOwner` (where start times are reported) | `OneOwnerInTurn` |
| `FolderNamesItsOwner` (same) | `OwnerIsNamed` |
| `GateTypes` | `TypeOK` of `RunStoreGate` |
| `CallsMeetInOneGate` | `CallsShareOneGate` |
| `RenameMeetsNobody` | `RenameIsAlone` |
| `ReplacementsLandInOrder` | `LandInOrder` |
| `ReplacementsReportTruly` | `ReportsAreTrue` |
| `LockTypeCorrect` | `LockTypeOK` |
| `StoreTypeCorrect` | `TypeOK` of `ProjectStore` |
| `EffectsAreAccounted` | `EffectIsAccounted` |
| `OutcomesAreTrue` | `SettledTruthfully` |
| `JournalsAreNotOvertaken` | `NothingOvertakesAJournal` |
| `RecoveryIsNotBlocked` | `RecoveryAcceptsItsJournals` |
| `EndedScopeWritesOnce` | `ScopeEndStopsWrites` |
| `OutsideTextsAreKept` | `OutsideEditsAreKept` |
| `StoreImplementsApprovals` | `ImplementsApprovals` |
| `StockTypeCorrect` | `TypeOK` of `InventoryStock` |
| `ReceiptsHaveEvidence` | `EvidenceIsOwed` |
| `CallersAreToldTheTruth` | `AnswersAreTrue` |
| `QueueTypeCorrect` | `TypeOK` of `ReadyScheduler` |
| `TasksStartOncePerMoment` | `OneStartPerMoment` |
| `ClaimsAreAnswered` | `ClaimsTellTheTruth` |
| `ConsentComesFirst` | `ConsentIsGiven` |
| `LimitHolds` | `LimitIsKept` |

The invariant of `RunServiceProofs` is `IInv`. The properties are not inductive by
themselves. That nothing is repeated on a guess needs to know what each recorded
state says of the step's open attempts (`StepSafe`, for every step: a recorded
write in flight has its intent recorded, a parked one is uncertain, a step ready
again with something open may be repeated and the handlers of what is open have
finished, and of an effect that needs reconciliation only the last attempt can be
open), and what each call in flight knows of its own attempt (`CallsAreHonest`: a
handler that said nothing was done has closed it, one that returned has finished).
One call per attempt needs that a call's attempt is at most the record's
(`CallsAreNumbered`). `RunAgrees` ties the run's state to its steps. Each
conjunct is preserved by every action, one lemma per conjunct and one step per
action. `NeverOnAGuess`, `StepsSettleOnce` and the refinement are then facts about
one step from a state where `IInv` holds: `LineMoves` is the ledger's move of one
step, and `LinesStep` shows that every action makes one for each.
`NoStepIsAbandoned` has an invariant of its own, `CallInv`, with store writes that may
fail, which adds to `IInv` that a call whose signal says it was taken over carries an older fence
(`StaleIsFenced`), that a step's attempt was started under a fence at most the
current one (`FencesBound`), and how a call's fence and its step's agree
(`AttemptHasFence`).

`LockInv` says, while claims have not overlapped: at most one program claims
(`OneClaimant`), the owner's record is the file's (`OwnerNamed`), an inspected
lock is the file as it still is (`InspectsFile`) and a program past the
inspection has no live owner beside it (`ClaimantIsAlone`).

`GateInv` says why one gate is enough although the map forgets it: whoever is
inside is inside the map's gate, and that gate's sets name exactly those inside
(`GatesFit`); if a replacement has its turn, all that entered before it are over,
and one that waits awaits its predecessor (`TurnsFit`); the gate's writer is the
last that entered until it is over (`WriterIsLast`), so a new read or replacement
that sees no writer finds nobody to wait for; a replacement past its wait meets no
read (`ReadsAreOver`); what landed is what was renamed (`LandedFit`). Dropping a gate
early breaks `GatesFit`, which the other conjuncts rest on. `LandInOrder` needs
`TurnsFit`: the one that lands is behind all that landed.

`StoreInv` says what may be pending, and who may be at work meanwhile. There is one
journal at a time, and while one is left nobody begins anything (`PendingFits`), so
memory is the saved image except until the reload that a failed save owes
(`MemoryFits`). The journal's image and the saved one differ in its own proposal only
(`JournalsFit`): this is what makes recovery safe, and why it never refuses what it
finds. `TodoFits` and `TextsFit` say which files are replaced and which are still to
be, at every point of a write or of its recovery; `SettledTruthfully` is inductive
with them and not without. `LookedAt` says that a file about to be replaced holds what
the write was made from or a text that came after the look, which is `OutsideEditsAreKept`
one step before it matters, and `ScopeFits` that a scope that has ended stays so, which
is why one late replacement is the last. The refinement is `RecordsStep`: for each
proposal a decision's save is the ledger's `Decides`, a replacement its `Touches`, the
save of an outcome or of a recovery its `Closes`, an interruption one of the first and
the last, and every other step leaves it as it was.

`StockInv` follows a receipt from the journal to the History. The journal tells two
documents apart: one whose receipts all have entries, and the same with one receipt
more (`JournalsFit`). A receipt in the document has its entry or is the journal's
(`ReceiptsFit`). `ProgressFits` says for each stage of a commit, of its error handler
and of a recovery what is certain about the replacement: not done, done, or either.
`UntouchedFits` is what holds as long as no other program has changed the document; the
answers that except such a change need it. `ReceiptsAreNumbered` ties a receipt to the
call that drew it, so that a refusal can speak of this call and not of an earlier one
for the same operation. `AnswersAreTrue` is then a fact about the step that answers.

`QueueInv` is about images, in memory and saved: every image a save or a crash can leave
is one that `ImageFits` describes. In it a task has one claim for each moment
(`ClaimsAreOne`), every session of the queue is of a claim and carries its moment
(`SessionsAreClaimed`), and a command has one session (`CommandsAreOne`), so two
sessions for one moment would be of one claim. A task that is Ready became so after all
its sessions (`ReadyIsLater`): a moment that was started does not come back. Claims change by saves only
(`ClaimsAreSaved`), even where a failed save leaves memory and disk with different
sessions. What was planned stays in line while the pass works on other projects
(`PlanFits`), and the answer to be settled is that of the claim at work (`ClaimFits`).
An earlier form of the model did not survive the proof: it gave a session the moment the
task had when it was admitted, so that a replayed claim could start under no moment at
all. The code passes the claim, and so does the model now.

`LimitInv` adds that memory is what is saved, but for one session whose save failed just
now (`MemoryIsSaved`), and that there is room for all that is planned (`RoomIsKept`). A
plan leaves room because what is under way is at most what the planner counts
(`RunningCountsWork`); after that only a claim adds to it, and takes one from the plan,
while a start and a settlement put one thing in the place of another.

The largest of a bounded set exists by a least counterexample among the numbers
(`MaxIsMember`), where one would expect an induction: the induction theorems of the
library take an operator as a parameter, which the provers cannot instantiate.

With this every safety property that a run checks has its theorem. Only model-checked
are the liveness properties (`StaleLockYields`, `ClaimsEnd`, `DecisionsSettle`,
`EveryCallReturns`, `ClaimsSettle`, `PlannedWorkIsServed`, `UncertaintyEnds`), since
fairness needs `ENABLED`, and the six disagreements, which are counterexamples.

## Plan, and what is not modelled

Everything `PROJECT.json` marks `not_modelled` is left out so far. What remains, most
important first, each with the promise it is to keep:

1. `JobCaps` - raises over two commits (`server/job-caps.ts`). Promise: a stop
   raises one later job.
2. `HarnessDriver` - a driver loop (claim, step, retry, complete or fail) over
   `RunService`, for liveness under the fairness of one driver; a slot for the
   tool reconciler, whose answer may land on a later attempt; `HarnessFork`, with
   two creations of one run id.
3. Budgets and reviewer decisions of task scopes, and remembered approvals, over
   `ProjectStore`.

Out of scope: the client and the Electron shell (no durable state of their own),
the control plane (a separate worker over SQL transactions), the gateway,
accounts and relay (protocols with services outside the repository), and
supervision, sandbox and engines (child processes and the text they print).
