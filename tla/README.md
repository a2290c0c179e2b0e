# TLA+ specifications of Maister

Maister runs coding agents.  A *manager* (`src/web`, a Next.js process with a
PostgreSQL database) decides what runs and when; an *execution host*
(`src/supervisor`, one Node process with a SQLite file) owns the agent
processes, their workspaces and the files they produce.  The two talk over HTTP
that may lose, delay or repeat anything, and either may die at any moment while
the agents, which are detached process groups, run on.  What the product
promises about a run (an agent is not started twice, a superseded run stops
writing before its successor starts, a turn is applied once, no event is lost or
reordered, a queued run starts) rests on a few protocols between and inside the
two.  They are modelled here, from the code.

| module | what it is |
| --- | --- |
| `RunOwner` | abstract specification: what the host promises about one run |
| `SessionOwnership` | the host: fence, receipts, gated start, obligations, crash and boot |
| `CommandLedger` | the manager: ledger, deliverer, recovery pass, steer messages |
| `PromptTurn` | one prompt on the manager: dispatch, evidence, settlement, application to its owner |
| `OrderedLog` | abstract specification: what the event plane promises of one stream |
| `EventPlane` | the host's outbox, the leased consumers, ingest, acknowledgement, health pass |
| `Projection` | a projector over many runs: claims, batches, failures, poison, repair |
| `Scheduler` | admission to the flow pool: launch intents, queues, parked runs, host pressure |
| `OwnedCreate` | the session of a flow node: leased drivers, assignments, retained creates, its binding |
| `*_proofs` | theorems and proofs of the seven components |
| `MC*.tla`, `MC*.cfg` | instances for TLC; `PROJECT.json` lists the runs |

## 1. Inventory

### The host (`src/supervisor/src`)

| component | state | operations | what makes it correct |
| --- | --- | --- | --- |
| execution fence (`execution-fence.ts`) | per run a durable pair (epoch, assignment) | `applyFence`, eviction of the sessions of lower epochs, termination of a process group with its time limit | a command below the high-water is refused; a higher epoch executes only when the older agents are gone |
| command receipts (`command-receipts.ts`, `host-state.ts`) | durable receipt per command id (`accepted`, `completed`, `rejected`, body), in-flight map in memory | `execute`, `executeAsync`, `runFresh`, `writeReceipt`, replay, "turn lost" settlement | a command id executes at most once; an outcome stands, but for a turn settled as lost that ends after all |
| session processes (`spawn.ts`, `session-process-ownership.ts`, `session-process-gate.mjs`, `runtime/process-group.ts`) | durable obligation per process group, registry in memory, the OS processes | gate, registration, authorisation, reconciliation for a run, recovery at boot | every agent is covered by an obligation; an obligation is released only when the whole group is gone |
| create outcomes (`session-create-outcome.ts`) | unsettled receipts, a one-shot observer each | settlement of a create whose exit was unconfirmed | a receipt proves quiescence only if it is true, and every retired create is settled |
| host routes (`http-api.ts`) | handlers suspended at their awaits | `POST /sessions`, prompt, `DELETE /sessions/:id`, workspace commands, `GET /commands/:id` | what a handler checked before an await still holds when it acts |
| event plane, host side (`host-state.ts`, `runtime-event-subscribers.ts`) | durable outbox with sequence numbers, acknowledged watermark, replay floor | append, stream, acknowledge, prune | no gap or reorder, nothing unsettled is dropped |
| outbox budget (`outbox-*.ts`, `producer-*.ts`) | wallets: capacity reservations | reserve, charge, return | reservations are returned |
| runtime objects, import, permissions, checkpoint, shutdown | files and their rows | upload, delete, retain, import | see section 12 |

### The manager (`src/web/lib`)

| component | state | operations | what makes it correct |
| --- | --- | --- | --- |
| command ledger (`execution-host/commands.ts`, `ledger.ts`) | row per command: state, attempts, stamps | insert, claim, requeue, succeed, fail, fence; each a compare-and-swap | a closed row stays closed; success is the host's |
| deliverer (`deliverer.ts`) | an attempt number held across the send and the backoff | `deliverCommand`, `startAsyncPrompt` | the budget holds; late answers change nothing |
| recovery pass (`recovery.ts`) | a page of row copies held across network calls | redeliver, orphan, fold a receipt, replay a prompt | every open row is closed in the end; live drivers are left alone |
| steer settlement, create acknowledgement (`steer-settlement.ts`, `create-ack.ts`) | the steer's message; the session binding | applied, converted; bound | the domain row and the ledger row agree |
| prompts (`prompt-evidence.ts`, `prompt-reconciliation.ts`, `prompt-output.ts`, `events/prompt-projector.ts`) | transport state, receipt, terminal event, where the settlement came from | dispatch, look up, deposit, bind, reduce, quarantine, rearm | the verdict is the host's, whichever evidence comes first |
| prompt owners (`prompt-owner-application.ts`, `prompt-application-recovery.ts`, `runs/crash-recover.ts`) | application state, claim token, lease, failures | claim, prepare, commit, fail, give back, hand off, rearm | an outcome is applied to its owner at most once, and in the end |
| event consumers (`events/consumer.ts`, `ingest.ts`, `batching.ts`, `stream-health.ts`) | lease, watermark, confirmed acknowledgement, verdict and run sequence per event | claim, read, ingest, split, quarantine, acknowledge, give up | each position is settled once and in order, before the host drops it |
| projection (`events/projector.ts`, `projection-worker.ts`) | per run a cursor, claim, failure record | seed, backfill, claim, prepare, apply, record failure, rearm | what is applied is exactly the events up to the cursor; no run starves |
| scheduler and launch intents (`scheduler.ts`, `tasks/launch-*.ts`, `runs/resume.ts`, ...) | run status, intent state, stamps, the pool's cap | accept, claim, bind, start, park, answer, resume, promote | the gate keeps the cap; a launch holds one slot; what is queued starts |
| assignments and placement (`assignments.ts`, ...) | active assignment and epoch per run | mint, supersede, release | epochs grow; one active assignment |
| owned creates (`owned-session-create.ts`, `create-intent.ts`, `create-ack.ts`) | per assignment a chain of create rows with their retained request and receipt; the binding of the logical session | admit, look up, fold, requeue, send, record a refusal, bind | one agent at a time, whoever sends; what was made is bound |
| driver claims (`flows/graph/driver-claim.ts`) | traversal token and lease per run | claim, renew, assert, release | what a driver did under a lost lease harms nobody |
| run lifecycle, scheduled launches, promotion of results, reconciliation | run status, leases | transitions, claims, sweeps | users of the above |

How they interact: a launch takes a slot (`Scheduler`); the manager inserts a
ledger row, claims it and sends the command with its fence (`CommandLedger`,
`PromptTurn`); the host checks the fence, retires older owners, writes the
receipt, executes, completes the receipt and answers (`SessionOwnership`).  What
a session does reaches the manager as events (`EventPlane`), which projectors
turn into domain state (`Projection`) and, for a prompt's terminal event, into
evidence (`PromptTurn`).  An answer that does not arrive leaves the outcome
unknown: the driver sends the same command id again, the recovery pass asks the
host for the receipt.  Host and manager share nothing but commands, receipts and
events.  Each module abstracts its neighbours to what the neighbour's own module
establishes: `PromptTurn` has a host that executes a command id once
(`AtMostOnce`), which may settle a prompt in flight as lost and replace that
receipt by the turn's own end and otherwise keeps an outcome (`OutcomeStands`),
and events that arrive once and in order (`InOrderOnce`); `Projection` has events numbered
without gaps (`RunOrder`); `OwnedCreate` has a host that admits a command once
under its fence and retires older epochs first (`ExecutesAfterRetirement`) and
whose stamp on a refusal is true (`ProofMeansGone`).

Where it is hard: handlers suspended between a check and its use; duplicate
deliveries; a supervisor that dies while its agents live; processes that ignore
signals or leave descendants; recovery passes and appliers working on copies or
under leases that ran out; evidence of one fact arriving by four feeds in any
order; a manager that dies between claim and answer, or between ingest and
acknowledgement; a failure recorded after the work it is about was done.
`PROJECT.json` lists each of these at its line under `hazards`.

## 2. Plan

Done, each with its proofs: `SessionOwnership` with `RunOwner`, `CommandLedger`,
`EventPlane` with `OrderedLog`, `Projection`, `Scheduler`, `PromptTurn`,
`OwnedCreate` (with the assignments that produce its epochs).  Left, in this
order:

1. The other owners of a create (scratch message, agent run, gate) and its
   continuations in `OwnedCreate`.
2. `session.input` with `permission_ack_superseded`.
3. `OutboxBudget`: the wallets of receipts and frames, in place of the choices
   `AdmissionRefused` (`SessionOwnership`) and `PressureRises` (`Scheduler`).
4. `CommandPlane`: `CommandLedger` with the host replaced by `SessionOwnership`
   (one command), to discharge the receipt abstraction described in section 4.
5. The agent and assistant pools of the scheduler, and scheduled launches.

## 3. `SessionOwnership`: the host

One run.  A *command* is a command id with a kind, an epoch, an assignment and
(prompt, delete) a target session; a *request* is one HTTP delivery of it.
Several requests may carry one command.  A session is named by the create that
spawns it.  The supervisor is a single event loop, so an action is the code
between two awaits at which another request can get in; `pc` is where a
request's handler is suspended, `stage` where the execution it started is.

| variables | code |
| --- | --- |
| `fence` | `run_fences` row |
| `phase`, `body` | `command_receipts` row: phase, and what its body tells the manager |
| `obligation` | `session_process_obligations` row: registered, unproven (an owner without a process group, seeded at boot), released |
| `proc` | the OS group: gate waiting, authorised, adapter running, leader gone but descendants left (`orphans`), dead |
| `registry`, `stopping`, `evicted` | `SessionRegistry` entries, `intentionalShutdown`, `fencedByEpoch` |
| `observer` | `observeUnsettledSessionCreate` |
| `execs` | history variable: how often a command began |

`Arrive` is `runCommand` up to its first await: known session, fence (raised
durably), and the choice of what to evict.  `Evict*` is
`evictLowerEpochSessions`, `Reconcile*` is `reconcileRunSessionProcesses`,
`Replay`/`TurnLost`/`RunFresh`/`AdmissionRefused` is `receipts.execute`.
`CreateUnstarted` to `TeardownTimeout`, with the errors on the way
(`SpawnUnregistered`, `SpawnAborts`, `CreateAborts`), follow `spawnSession` and `POST
/sessions`; `Spawn` reads the fence in the call stack that spawns, `Authorize`
again before the gate is told to execute.  `Delete*`, `PromptEnds` and
`WorkEnds` are the other executions, `Lookup` is `GET /commands/:id` with the
settlement it performs, `Crash`, `OsReboot` and `Boot` lose the memory, end the
processes, and run `seedMissingSessionProcesses`,
`recoverSessionProcessesOnBoot` and `recoverAcceptedPromptReceipts`.

A create that left a receipt but no obligation may own a process nobody knows:
the next boot seeds an *unproven* owner for it.  It has no group to inspect, so
every reconciliation of the run is refused until an OS reboot releases it.

Abstractions.  Only one run, so the fence's run binding does not appear.
Process identity (pid, start time, boot id) is reduced to the group's state;
the release of the owners of a prior OS boot, the first thing the next boot
does, is part of `OsReboot`.  A boot recovers any subset of the obligations that
can be proved retired: it looks at 32 of them and stops at an unconfirmed one.
The exit of a session and the publication of its terminal event are one step.
Of the wallets of the outbox only this is kept: a prompt's end is written over
whatever the receipt says (`completeAsync` does not look), a failure without a
wallet, a success only while the session's wallet is open, which the prompt's own
accepted receipt or a delete at work sees to (`WalletOpen`); where the write
fails it is logged and the receipt stands (`PromptEnds`).  A partial failure while several obligations
are reconciled (`Lookup`) is any subset of them.  Steer, input, cancel,
checkpoint and the object routes execute like `work`: one receipt, no effect on
processes.  Restartable uploads are not modelled.

### Checked

| run | instance | what it shows |
| --- | --- | --- |
| `takeover` | two creates, epochs 1 and 2, the second delivered twice, or two creates and a workspace command of one epoch; one crash or reboot | `AtMostOnce`, `OneOwningEpoch`, `ProofMeansGone`, `AgentIsObliged`, `ReleasedIsGone`, `ExecutesAfterRetirement`, and `RefinesRunOwner` |
| `turns` | a session, two prompts, a delete, and a takeover by a workspace command, one crash | `IInv`, the invariant of the proofs, and `OutcomeStands`: a completed receipt stays completed, and a rejected one becomes completed only for a turn settled as lost in flight, whose process is gone, while a delete of its session is at work |
| `lost` | a session with a prompt and a takeover, two crashes, with fairness | `LostWorkSettles`, which holds unless an owner of the run stays unconfirmed |

Two epochs are enough for every pair of older and newer owner.  The two prompts
of `turns` and the two creates of epoch 1 in `takeover` are interchangeable and
are treated as symmetries; the constraint of `takeover` keeps a behaviour to one
of its two sets of requests.  Two deliveries of one
command give every race of a duplicate.  Two sessions of one epoch are what lets
a reconciliation meet a live owner it must pass over beside one it must settle.
Two crashes in `lost` let a process retire while the supervisor is down for the
second time.

Fairness (`LiveSpec`): an accepted request is handled to its end, because every
await of a handler or a create is bounded by a timer; a turn ends when its
session's output ends; the supervisor is restarted; the manager keeps asking
about open commands (its periodic pass).  Nothing is assumed of the processes:
they need not exit.

## 4. `CommandLedger`: the manager's commands

Commands have a class instead of a kind: `create` (without a retained intent),
`driverless` (`session.delete`, `workspace.release`), `steer`, and `driven`
(`workspace.adopt`, `session.cancel`, `session.checkpoint`).  Prompts are in
`PromptTurn`.

| variables | code |
| --- | --- |
| `row`, `attempts` | `execution_commands` |
| `msg` | the message of a steer: dispatched, applied, converted |
| `bound` | the result-derived write of an acknowledgement |
| `driver`, `try` | where `deliverCommand` is, and its own attempt number |
| `pass`, `page`, `at`, `step`, `seen` | `recoverExecutionCommands`: the copies it loaded, the row in hand, the receipt it read |
| `wire`, `conn`, `host` | requests under way, requests the host will answer, the host's receipt |

Each ledger write is one transaction with its compare-and-swap.  `Issue`,
`FenceLocally`, `Deliver`, `NotClaimable`, `Acknowledge`, `Rejected`, `Refused`,
`Unknown` and `Deferred` are `issueCommand` and the branches of
`deliverCommand`; `TooFresh` to `RedeliveryEnds` are the branches of
`recoverRow` and `foldReceipt`.  The host is what the manager can see of it: a
first request executes, a later one joins or is answered from the receipt, a
request may be refused before any receipt or never arrive, and a restart leaves
the receipts of what was running accepted with nobody executing them (`lost`).

Abstractions.  Time appears only in `Aged`.  The grace of the periodic pass is
60 s and the age is computed from the copy; sends of all kinds but
`session.create` (60 s) time out earlier, so a live driver and the pass meet
only if the driver has gone on to a later attempt than the copy shows, or the
command is a create.  At startup the grace is 0 and no driver of this process
exists.  The page of 500 rows is one page.  A `Deferred` create raises the
row's own `maxAttempts`, which has no effect because no driver is left.  A
missing host row is not modelled.

### Checked

| run | instance | what it shows |
| --- | --- | --- |
| `ledger` | a steer with a driverless command, or a create; two attempts, one manager crash, one host restart | `MessageFollowsLedger`, `AttemptBudget`, `ClosedStays`, and `LedgerInv`, the invariant of the proofs (with `SuccessIsHosts`: a success is the host's) |
| `ledger_live` | a steer and a driverless command, one attempt, one crash, one host restart, with fairness | `LedgerCloses`, except for a create the host keeps unsettled |

Two attempts are the least that let an answer of one race the claim of the
next; a crash or a restart can interrupt every step of delivery and recovery.
The driverless command is the one the pass delivers again itself, from a page
that may be stale, so it is what `AttemptBudget` needs: a manager that dies in
the middle of a send leaves its attempt counted.
Commands interact only through the pass, which works on one at a
time, so two of them are enough and the create is taken alone.  Fairness: a send has a timeout and the driver
then proceeds; the pass is scheduled for ever; the host ends what it runs,
but nothing makes it settle a create it lost, whose process may live on (that
is the exception in `LedgerCloses`); a row nobody touches ages
past the grace, and the host is reachable again and again, so taking up a row
and getting its lookup answered are strongly fair though any one try may be
skipped or fail.

## 5. `PromptTurn`: one prompt, from dispatch to its owner

A prompt outlives its HTTP request: the host answers that it was admitted and
runs the turn.  What became of it reaches the manager as a receipt (looked up by
the driver, a waiter, the recovery pass or the projector), as a terminal event,
or, when the event is not ingested yet, as the host's own span of events.  The
row is settled when receipt and terminal agree, and the outcome is then applied
to its owner (a flow node, an agent run, a scratch message) by a worker under a
lease.

| variables | code |
| --- | --- |
| `host`, `turn` | the host's receipt as first settled; whether that was the turn's own end, or the turn was settled as lost and may still end, and the end that then replaced it |
| `signals`, `wire` | whether the turn's span has consumer signals, requests still on their way |
| `log`, `skipped`, `cursor` | the command's events ingested (accepted, terminal, second terminal), those in the skip ledger, the prompt projector's progress |
| `state`, `attempts`, `budget`, `transport` | `execution_commands`: `state`, `attempts`, `max_attempts`, `transport_state` |
| `timer`, `due` | `next_attempt_at`, as a claim of a reader or a mere delay |
| `receipt`, `bound`, `settled`, `conflict` | `receipt_evidence`, `terminal_event_id`, `settled_from`, the conflict recorded in `application_error` |
| `local` | why the manager itself failed the row: never sent, or refused |
| `app`, `owner`, `leased`, `failures` | `application_state`, claim owner, expiry, attempts |
| `caller`, `applier` | where each driver, waiter, pass and applier is, and what it has read |
| `sends`, `applied` | history variables: dispatches, domain applications |

`ReadRow` to `Unknown` are `startAsyncPrompt`, `LookStored` to `LastLook`
`reconcilePromptCommand`, `PassLeavesUnknown` and `PassReplays` the prompt
branch of `recoverRow`; `Deposit`, `Reduce`, `ReconcileStored`, `SettleSpan` and
`Quarantine` are the transactions of `prompt-evidence.ts`, which all of them
share; `Project*` is the projector.  `ClaimOwner` to `Defer` are
`prompt-owner-application.ts`; `HandOff` is the evidence-first part of a crash
recovery, `RearmAdmission` and `RearmApplication` the operator's repairs.

The host ends a turn (`HostEnds`), or settles it as lost when its process was
released or the host restarted (`HostLoses`).  A turn that is settled as lost
while it is still in flight ends later all the same: its end replaces the
receipt and appends a second terminal event (`HostReplaces`, `PromptEnds` of
`SessionOwnership`).  The replaced row keeps the position of its first terminal
(`host-state.ts:3207`), so one that became a success contradicts its own output
reference (`runtime/command-evidence.ts:428`) and a look-up of it is answered
with an error (`Readable`).

Abstractions.  `reconcileStoredPromptEvidence` reads the row, searches the
event and then reduces under the row's lock, where everything it read is looked
at again: the search and the locked transaction are one step.  Delays are `due`,
a choice of time.  The host is honest, so the protocol errors of a receipt or
an event with another identity are left out; the one disagreement it can cause
is a replaced receipt.  What an owner's adapter writes is one application; an owner
of another generation (superseded) is a choice.  `MaxEvents` bounds faults and
repairs together.

### Checked

Run `prompt`: a driver, a recovery pass, two appliers, one attempt and one more
opened by a repair, one fault or repair (863,341 states).

| property | what it says |
| --- | --- |
| `SettledIsHosts` | a settlement has the outcome the host published first and its receipt, and is not on top of a failure of the manager's own; a replaced receipt neither settles nor undoes one |
| `UnsentNeverRan` | a prompt failed as never sent is unknown to the host and not on its way |
| `AppliedOnce` | an outcome is applied at most once and the row says so |
| `ConflictWarranted` | evidence is quarantined only after a skipped terminal, a refusal that was overtaken by an admission, or a receipt the host replaced |
| `VerdictStands` | a closed row, a settlement and an application are final |
| `TurnIsApplied` | an ended turn is applied, superseded or poisoned in the end, unless the manager had failed it on a refusal, or the host replaced the receipt and cannot serve the new one or had both terminals skipped |
| `PromptInv` | the invariant of the proofs, with `SentPerAttempt`: every dispatch is an attempt of its own, within the budget |

One pass beside the driver is what makes two dispatchers of one row; a waiter
takes the same steps as a pass but for the replay.  A second attempt, of the
pass or of a rearm, is needed for `UnsentNeverRan`; two appliers for a lost
lease with a successor.  The theorems have no such bounds.

Fairness: calls that have begun go on, because network calls have timeouts;
passes are scheduled for ever; the event plane and the projector deliver
(`EventsArrive`, `EventsProject`); the owner worker polls; leases and delays run
out.  Nothing obliges the network to deliver a request, the host to end a turn,
a waiter to look, or an operator to repair.

## 6. `EventPlane` and `OrderedLog`: one host's event stream

| variables | code |
| --- | --- |
| `emitted`, `floor`, `acknowledged` | the host's outbox: rows, `replay_floor_sequence`, `acknowledged_through` |
| `state`, `contiguous`, `confirmed`, `repairing` | `execution_event_streams`: state, watermark, confirmed acknowledgement, the attempted stall repair |
| `owner`, `leased` | the stream's claim |
| `verdict`, `runSequence`, `nextSequence` | `execution_events` and the skip ledger; the run's next sequence |
| `epoch` | the run's active assignment |
| `pass` | where each consumer loop is: its cursor, what it buffered, the batch being split, what it will acknowledge |

`StartPass` to `RecordFailure` follow `consumeRuntimeEventStreamOnce`: claim,
catch up on acknowledgements, open, read, ingest, claim after the first ingest,
acknowledge, record.  `Ingest` is one transaction: classify, walk the contiguous
prefix, give verdicts and run sequences, move the watermark, renew the lease.  A
batch with an unstorable payload is undone and taken frame by frame (`SplitBatch`,
`IngestOne`), the bad one going to the skip ledger.  `ExpireLease`,
`PauseHolder`, `CrashConsumer`, `StopConsumer`, `BreakLink`, `LoseAck`,
`RepairStream` and `DegradeStream` are the ways it goes wrong.

Abstractions.  Bytes: a batch is cut by rows.  One stream; a host that comes
back with another stream id is refused and not modelled, nor are envelopes that
break the schema or contradict a stored one.

Run `events`: two consumers, two positions, batches and buffer of two rows, an
assignment that is superseded, an unstorable payload, an event of an unknown run,
one fault.  It checks `NothingLost` (the host
acknowledges and prunes only what the manager has settled, and the manager
believes no acknowledgement the host does not have),
`RunOrder`, `PlaneInv` (with `SettledPrefix`: up to the watermark every position is
settled, beyond it none), the refinement `InOrderOnce` (positions are settled in
order, once, and keep their verdict: `OrderedLog`), and `EventsArrive`: whatever
is emitted is settled, unless the health pass gives the stream up for good.  Two
consumers and two positions are enough for a holder that lost its lease to
overlap with its successor in every step of a batch and its acknowledgement.
Fairness: each loop goes on while its process lives, and leases run out; nothing
makes the host emit or prune.

## 7. `Projection`: projectors over the accepted events

Every run has a consumer row per projector: cursor, state (`ready`, `retrying`,
`poisoned`), attempts, backoff, claim, last error with its generation.  Slots of
the workers take the least recently served run with work (`ClaimNext`); a reader
that needs a view up to date helps with a quantum (`Look`, `ClaimAsked`).  A batch
is prepared outside any transaction and applied in one with the cursor
(`Prepare`, `Apply`, `ApplyStale`); a failure is recorded in a second one
(`FailEvent`, `RecordFailure`), which a commit reported as failed can overtake
(`CommitPastDeadline`).  Rows of runs from before the projector existed are
seeded by a paged scan (`Backfill`).  An operator repairs the failure they looked
at (`Observe`, `Rearm`).  `view` is a history variable: what the handler applied.
Two claim transactions that meet (`SKIP LOCKED`) choose as if one came after the
other.

Run `projection`: one slot and one reader, two runs of two events, of which
one cannot load its content and the other is from before the projector existed,
so that it is backfilled, and has an event its handler refuses; pages of one, two attempts, one fault, one repair.  It checks
`ViewFollowsCursor` (what was applied is exactly the events up to the cursor, in
order, once), `PoisonNeedsRepair` (a poisoned run moves only by a repair of the
failure the operator saw), `ProjectionInv` (with `FailureIsAhead`: a recorded
failure is about an event not applied), and `EventsProject`: every accepted
event is applied or its run is poisoned, and a run whose content cannot be loaded
starves nobody.  Slot and reader are two claimants of one row, which is what a
lost lease needs.  Fairness: claimants go on, slots poll, leases and backoffs run
out, the backfill goes on; nothing makes a reader ask or an operator look.

## 8. `Scheduler`: the flow pool

Every admission is a transaction under one advisory lock, so each is one action.

| variables | code |
| --- | --- |
| `children` | the runs with a `parent_run_id`: one of the `Families`, chosen once |
| `status` | `runs.status` |
| `launch`, `leased` | `task_launch_intents.state`, the live leases of preparing ones |
| `asks` | `resume_requested_at` stamps, in their order |
| `owed` | answered questions not yet delivered |
| `line` | the order of `started_at` (or `accepted_at`) |
| `stranded`, `pressured` | parked runs whose host was retired; the host's pressure record |

`Accept`, `ClaimIntent`, `Bind`, `PreparationFails`, `LoseLease`, `ComeDue`,
`Hold`, `Cancel` and `TryStartRun` are the life of an intent;
`PromoteNextPending` is `promoteNextPending`: one admission per call, of the
first candidate of all queues by criticality, resumes before launches, and age.
`Ask` to `ResumeCrashedRun` are the transitions of a run that take, keep or give
back its slot.  The recover of a crashed run and the start of a scratch run read
the pool by themselves, without reservations or pressure; the model has them as
they are, and `AdmitsWithinCap` excepts them.  A claim of rework compares
the pool, reservations included, with the plain cap in its route
(`web/app/api/runs/[runId]/rework-claim/claim/route.ts:211`), which reads no
pressure (`ReworkClaim`).  `Crash` takes a run from the statuses the reconciler
does, an orphaned child also from its park or its review (`CrashesFrom`).

Run `scheduler`: two launches of different weight, both of users or both
delegated by an orchestrator that allows one active child, and a scratch run in a
pool of two, two parks, one fault (301,646 states).  It checks `OneSlotPerLaunch` (a launch holds one claim on the pool until
its run is Running and none when it is over, wherever it is stopped),
`AdmitsWithinCap` (an admission of queued or parked work leaves the pool within
its effective cap, a rework claim within its cap), `SchedulerInv`, and `QueuedStarts`.  Three runs
and two slots make the pool full with one waiting; the children cap of one makes
a candidate that must be passed over.  Fairness: the gate is called again by the
launch worker and every sweep; preparations are driven on; pressure falls; every
holder of a slot, the human included, ends its turn at last.

Left out: the agent, librarian and assistant pools and their reserve, claims of
backlog tasks, a paused queue, the upgrade fence, `SKIP LOCKED`, the rollback of
a scratch respawn, the writer guard of a shared worktree, and the wait of a
delegating run for its fan-out.

Deadlock is checked in no run but `prompt`: the other instances have finitely
many requests, events, creates or runs, and the system may stop when they are
done.

## 9. `OwnedCreate`: the session of a flow node

A flow node that needs an agent keeps the request of its create with the ledger
row, so that any driver of the run can go on with it.  The creates of one
assignment are a chain of generations: the next one is admitted only when the
host has refused the newest and has stamped the refusal as proof that no process
is left of it.  Drivers are traversals of the graph, each under a lease on the
run; a driver whose lease ran out is not stopped, and goes on with what it read.

| variables | code |
| --- | --- |
| `epoch`, `owner` | the run's assignment; whether its node visit runs, waits for an answer, or the assignment is released |
| `token` | `runs.flow_driver_token` while its lease lasts |
| `row`, `attempts` | `execution_commands`, with a failed row split by what its details and `receipt_evidence` allow |
| `bound`, `ended` | the session of the logical run session; incarnations that are over |
| `request`, `process`, `announced`, `fence` | the host as this code sees it: receipt, agent process, `session.created` events not projected, newest epoch |
| `work` | where each driver is, and the attempt it read |

`Read`, `Admit`, `Probe` to `Record`, `Requeue` and `ApplyAgain` are the
transactions of `createOwnedSessionFromIntent`; `Send` to `Unknown` the branches
of `deliverCommand` for a retained intent, which looks at neither lease nor
owner; `PassCompletes` and `PassRejects` the retained branch of the recovery pass;
`ProjectCreated` and `ProjectExit` the lifecycle projector; `Mint` and
`OwnerMoves` the assignments and the visit.  `Apply` is `applyCreateAck`, which
the driver, the pass and the projector share: the owner and the row are locked,
and only the newest create of the active assignment, not ended, is bound.

Abstractions.  The look-up of a final receipt and the transaction that stores it
are one step: what the host has settled does not change.  A driver lets go of
its token after its create though the traversal would go on under it, which lets
others in earlier.  The preparation of the payload, the time of a retry (an open
row may always be left alone) and the owner kinds other than a node are left
out.  The host raises its fence when it admits a command; that it settles older
processes first is `SessionOwnership`'s part.  Two creates of different
assignments never share a chain, and a resumed session is a new create.

Run `owned`: two drivers, two assignments, a chain of two generations, two
creates in all, one fault (crash, late renewal or lost reply): 2.8 million
states.

| property | what it says |
| --- | --- |
| `SingleAgent` | the node's session never has two agent processes |
| `LiveSessionKept` | a live session whose visit still owns it, running or waiting, is not given up |
| `SettledIsBound` | a create the ledger calls succeeded, alive and still owned, is the bound session |
| `BindingAdvances` | the binding moves only to the newest create of the active assignment, never back |
| `OwnedInv` | the invariant of the proofs |

A second driver with the lease while the first still sends needs one fault, and
so does a command sent twice; two creates are the least for a replacement, and
for a create of each assignment.  One branch needs two faults: that
`persistCreateRejection` reloads a row which is not failed any more.  The same
instance with two faults (8.4 million states) was checked too and takes about five
minutes; the theorems have no such bounds.  Only safety is stated: a create whose
refusal is without a proof stays pending for good, by design.

## 10. Where the code and its documentation disagree

Two runs expect a violation.  Each states what a comment says, and TLC shows a
behaviour of the model of the code that does otherwise.

* `steer_once` (`ConvertedNotInjected`): the startup pass reads a missing
  receipt as proof that the host never saw the steer, but the request may still
  be on its way; the message is converted and injected.
* `stale_stamp` (`StampMeansAnswered`): an answer at a full pool stamps the run;
  answered again at a free slot, the run is resumed by a path that leaves the
  stamp, and parks on its next question as if that were answered.

Met while modelling and kept in the models as the code has them:

* The fence is checked, the retirement of older owners awaited, and a workspace
  command then executes without a second check although a higher epoch may have
  raised the high-water meanwhile.  Creates do check again (`OneOwningEpoch`).
* A lookup settles the receipt of a create still tearing down as lost, and the
  handler's own outcome replaces it; both are rejections (`OutcomeStands`).
* A prompt is settled as `turn_lost` when its session's process is released,
  although its turn may still be sealing output (`http-api.ts:1789`) or waiting
  for the exit (`http-api.ts:1719`).  Its end then overwrites the receipt
  (`command-receipts.ts:385`) and appends a second terminal event, so that the
  manager quarantines a turn nothing was wrong with (`event_replacement`,
  `prompt-evidence.ts:603`; `receipt_replacement`, `:763`).  While a delete of the
  session is at work the overwriting end may even be a success, and that receipt
  cannot be read back any more.  `OutcomeStands`, `SettledIsHosts` and
  `ConflictWarranted` say how far this goes.
* The recovery pass judges a row's age by the copy it loaded and closes it
  without an attempt number, so a slow pass fails a row whose driver has gone on.
* The domain write of an acknowledgement is made also when the ledger write
  changed nothing (`deliverer.ts:662`), so a session can be bound for a row that
  says failed.
* A stream that was given up is not claimed again (`consumer.ts:435`) unless a
  new event revives it; a batch of duplicates does not (`EventsArrive` excepts it).
* `recordConsumerFailure` expires the stream's claim whoever holds it, and a
  quarantine renews no lease, so a consumer that lost its lease may still
  acknowledge; what it acknowledges is settled (`NothingLost`).
* The comment at `scheduler.ts:191` calls the effective cap the one every
  admission reads; scratch starts, `runs/recover.ts:137` and the claim of rework
  (`rework-claim/claim/route.ts:211`) do not.
* A refused create is proof only with the receipt's stamp on record, which one
  look-up of `persistCreateRejection` stores.  If that look-up fails, or the
  recovery pass folds the refusal first (`recovery.ts` keeps code and reason
  only), the evidence is never stored and the chain stays pending though the
  host has the stamp; a refused workspace handle loses its details in the pass
  and is final.  No second agent can come of it (`SingleAgent`).
* The pass binds the session of a completed create also when a driver has put
  the row back to queued meanwhile; the row stays open until a driver folds the
  receipt (`PassCompletes`).
* A prompt refused under pressure whose receipt is then missing is failed as not
  admitted, though an earlier, delayed request of it may still be; the
  disagreement is quarantined (`ConflictWarranted`).

## 11. What is proved

TLAPS checks every theorem of the `_proofs` modules for every value of the
constants that satisfies the module's assumption (any number of commands,
deliveries, epochs, callers, consumers, runs, attempts and faults).  Type
correctness is a part of each inductive invariant, and `Spec => []Inv` follows
from `Init => Inv`, one step lemma per action or group of actions, and PTL.

`SessionOwnership_proofs`.  The properties are not inductive by themselves: that
no older agent is left when a command begins depends on what its suspended
handler has established while others ran.  `IInv` adds this.  `ReceiptInv` ties
receipts to the stages of their executions, so that whoever writes a receipt
knows what it said before.  `OwnershipInv` ties processes to obligations: an
agent is registered (`AgentIsObliged`), a released obligation is about a dead
group (`ReleasedIsGone`).  `TakeoverInv`
is the heart: the agents of lower epochs are among those a handler has still to
retire (`HandlerInv`), once a command has a receipt there are none
(`OwnerInv`), and none can start because the fence never falls and an agent
starts only at the fence (`FenceInv`).  `LostTurnInv` is what `OutcomesStand`
needs: a turn settled in flight was settled as lost, on the release of its
process.  From `IInv` follow `ExecutesAtMostOnce`,
`ExclusiveEpoch`, `OwnershipEvidence`, `AgentsAreObliged`, `ReleasesAreFinal`,
`BeginsAfterRetirement`, `OutcomesStand`,
and `ImplementsRunOwner`: initial states map to initial states, and each step to
a begin, a start, an end of agents, a settlement, or a stutter.  In the
refinement a create whose exit is unconfirmed has already failed, though its
receipt is still accepted, and a turn settled in flight is `lost`: of all
commands `RunOwner` allows only a prompt to be settled once more after that.

`CommandLedger_proofs`.  `LedgerInv` adds to the three invariants that a receipt
in the pass's hand is still true (`FoldInv`), and `BudgetInv`: a driverless row
has one deliverer at a time, a page copy never lags that deliverer by more than
the attempt under way, and only the pass delivers during startup.  `LateSignals`
(`ClosedStays`) follows step by step from the type invariant.

`PromptTurn_proofs`.  `PromptInv` adds to its properties that a stored receipt is
one the host published, its first or the one that replaced it, and a closed row
was closed for a reason (`EvidenceInv`),
that a request on its way is that of an attempt and the host ran another
(`WireInv`), and what each caller believes (`CallerInv`): the receipt it read is
one the host published, its attempt is within the budget, and a first attempt that
preflight refused is the only one unless a later one was claimed.  The last is
what `UnsentIsUnknown` needs: between the refusal and the write that fails the
row, a pass may have sent the prompt, and the attempt number tells.  An action
touches the dispatch, the application, the row and the callers, and each part
has lemmas of its own.  `VerdictIsFinal` follows from the invariant step by step.

`EventPlane_proofs`.  `PlaneInv` adds `PassBounds`: a pass never reads beyond the
host's log, leaves no hole behind its cursor, acknowledges nothing beyond the
watermark and records nothing the host did not acknowledge.  Without it a stale
consumer's batch or acknowledgement could break `NothingLost` or `SettledPrefix`.
`SettlesInOrderOnce` is the refinement of `OrderedLog`: a promotion extends the
settled prefix and every other step leaves it.

`Projection_proofs`.  `ProjectionInv` bounds cursors, batches and failures by the
accepted events, and says that a failure is on record exactly while the run is
not ready and that a poisoned run has no claim; then a late `Apply` or
`RecordFailure` finds its token gone.  `PoisonRests` needs the last.

`Scheduler_proofs`.  `SchedulerInv` adds to `OneSlotPerLaunch` the statuses a
scratch run never takes.  `GateKeepsCap` is about the cardinality of the pool
before and after each action: a start turns a reservation into a live run, a
rework claim adds one below the cap, every other admission at most one below the
effective cap.

`OwnedCreate_proofs`.  `SingleAgent` says nothing about a request that is still
on its way to the host, or a driver about to admit a create it decided on before
its lease ran out, so it is not inductive.  `OwnedInv` adds three things.
`ChainProven`: below the newest generation every row is a proven refusal, so two
live processes of one epoch would need two rows of which one is proven.
`HostFollows`: a proof is the host's stamp, a stamped refusal has no process and
gets none, a live process is of the host's newest epoch, and whatever the host
or the projector knows of a create has its row; the last keeps a generation that
is admitted now from having a process already.  `DriversFollow`: what a driver
between two transactions relies on still holds, because rows leave `proven` and
`succeeded` never.  `LiveSessionKept` and `SettledIsBound` are parts of the
induction, since each needs the other: a current create that is alive is not
ended, so an acknowledgement binds it.  `OneAgent`, `LiveSessionsKept`,
`SettledAreBound` and `BindingOnlyAdvances` follow; the last needs `ChainProven`
for a binding within one epoch and `HostFollows` between epochs.

Only model-checked: the liveness properties `LostWorkSettles`, `LedgerCloses`,
`TurnIsApplied`, `EventsArrive`, `EventsProject` and `QueuedStarts` (fairness and
`ENABLED` are beyond the prover), and the two violations.  No module declares a
recursive operator.

## 12. Not modelled yet, or not to be modelled

The other owners of retained creates, permission input and the outbox budget are
planned (section 2).  Workspaces, runtime objects and their import are file I/O
behind the modelled commands; the ACP client is protocol I/O whose outcomes the
model keeps.  The flow engine (an interpreter of graphs), agents, the
orchestrator, scratch runs, evaluations, webhooks, promotion of results, garbage
collection, the web application, the MCP server and the sites are users of the
modelled protocols or unrelated to them; most of the repository's lines are
there, in routes, user interface, tests and data access.  `PROJECT.json` lists
them with a reason each.

## 13. Running

    tlc -workers 2 -config MCTakeover.cfg MCTakeover
    tlapm SessionOwnership_proofs.tla

The other runs are in `PROJECT.json`.  The mutants named there are definitions
marked `Mutant` in the modules: a plausible bug of the code each, which the
property beside it catches.  They are used by no action.
