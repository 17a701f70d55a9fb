# Formal models of the TradeJournal MT5 cloud worker

TLA+ specifications, TLC configurations and TLAPS proofs for the worker in this
repository. Paths below are relative to the repository root.

## 1. The system

A *bridge EA* runs inside each customer's MT5 terminal and publishes files; a
*Windows agent* reads them and posts events to an ingestion API. A control plane
hands the agent jobs (provision, history, live sync, deprovision) under a lease.

| Component | State it keeps | Operations | What makes it correct |
|---|---|---|---|
| Bridge EA (`mt5/experts/TradeJournalBridge.mq5`) | `cursor.json` (sequence), `events/event-N.json`, the snapshot bundle, an in-memory retry queue | `OnTradeTransaction`, `OnTimer`, `OnInit`, `OnDeinit` | a number is never reused; a committed bundle is one instant; no deal is silently dropped |
| File reader (`windows_agent/worker/mql5_file_adapter.py`) | event checkpoint, bundle checkpoint | `snapshot`, `pending_events`, `acknowledge_events` | deletes only what is durable elsewhere; never combines two bundles |
| Live sync (`windows_agent/worker/live_sync.py`, `dedup.py`) | snapshot store, dedup store, excursion store | `poll_once` | every change reported, once, in order, under a stable `event_id` |
| Merge and identity (`live_sync.py`, `worker/event_detector.py`, `worker/event_normalizer.py`) | none (pure) | diff, replay, echo filter, `build_event_id` | each deal classified as the broker executed it |
| Outbox and sender (`worker/event_outbox.py`, `worker/event_sender.py`) | pending list, dead letters | `enqueue_many`, `drain`, `send` | open → modify → close is never reordered; a rejection blocks its successors |
| Supervisor (`windows_agent/event_supervisor.py`) | per-connection locks | `poll_once` over connections | never touches an account a job is changing |
| Job runner (`windows_agent/job_runner.py`, `api_client.py`, `agent_daemon.py`) | local job state, lease keeper thread | `run_once` | no end recorded that the control plane does not hold; a lease is kept while the handler runs |
| Job handlers (`windows_agent/real_handlers.py`) | instance directory, `job_progress.json`, archives, handoff files, secrets | provision, historical_sync, live_sync, deprovision | an active account survives failed attempts; history and live neither overlap nor leave a hole |
| Instance pool (`windows_agent/provisioning/mt5_instance_pool.py`) | building / ready / claimed directories, reservations | `maintain_once`, `build_one`, `claim`, `recover_incomplete` | a slot has one owner and is anonymous until it is bound |
| Instance and expert (`provisioning/mt5_instance.py`, `worker/atomic_file.py`) | the expert, its rollback and upgrade copies, `instance.json` | `rotate_managed_expert`, `install_expert`, `seal_runtime_assets` | a sound expert is always on disk and is what runs |
| Terminal runtime (`worker/native_mt5_runtime.py`) | start configuration, scheduled task, readiness files, journal checkpoint | `start`, `resume`, `stop` | an expert runs only on an account proved to be investor; no password stays |
| Endpoint registry (`broker_endpoint_registry.py`, `broker_endpoint_resolver.py`, `mtapi_search.py`) | `verified-endpoints.json`, artifacts, manifest | resolve, observe, publish, invalidate | what is verified can be resolved, with evidence, and is the broker's |
| Broker wizard (`broker_wizard.py`, `broker_wizard_ui.py`) and Wine discovery (`worker/*_broker_discovery.py`) | request and result files, the prefix lock; the dialog is another process | census, `discover` | what is reported was read from one broker; nothing is left running |
| Algorithms (`worker/history_balance.py`, `worker/excursion_tracker.py`) | none, or one file | reconstruction, running extrema | agree with the broker's own account; nothing estimated, nothing lost |
| Laboratory worker host (`lab/mt5_direct_endpoint/tools/worker_host.py`, `worker_supervisor.py`, `account_worker.py`, `account_onboarding.py`) | `worker.json`, pid file, stop file | `start-worker`, `stop-worker`, `worker-host` | one host in charge of an account, bounded restarts, final states final |

Components talk through files (EA → reader), durable stores (poll → next poll),
HTTP (outbox → API, runner ↔ control plane) and an in-process lock per
connection (supervisor ↔ jobs). What is hard: three processes (terminal, agent,
API) without a common clock; a poll that makes five separate durable writes; a
bundle and a stream published at different moments; requests that are lost or
arrive late; leases that expire under a running handler; directories and files
that several threads, or an agent and its predecessor, move about; graphical
dialogs that change under their driver. `PROJECT.json` lists every component
with its status, and every hazard at its line.

## 2. Modules

| Module | Models | Proved / checked |
|---|---|---|
| `CausalChannel` | abstract: published transactions reach the journal, each one only after all earlier ones | refined by `LiveDelivery` |
| `LiveDelivery` | EA publication, `poll_once`, outbox, sender, network | TLC and TLAPS |
| `LiveDeliveryProofs` | theorems about `LiveDelivery` | TLAPS |
| `BridgeBundle` | the snapshot files, `cursor.json`, the ledger anchor, terminal crashes, `resume`, `switch_to_new_only`, the reader's sequence check | TLC and TLAPS |
| `EventMerge` | diff, replay, echo filter and `event_id`, as pure operators | TLC and TLAPS, through `LiveJournal` |
| `LiveJournal` | broker, EA callbacks, bundle and stream, `poll_once` around `EventMerge`: what the journal says about positions | TLC and TLAPS |
| `LiveJournalProofs` | theorems about `EventMerge` and `LiveJournal` | TLAPS |
| `Excursion` | the extrema of a position, sampled, persisted and attached to its close | TLC and TLAPS |
| `HistoryBalance` | the ledger, its reconstruction and its report against the broker's account | TLC and TLAPS |
| `HistoryHandoff` | `historical_sync`: archive, import, baseline, checkpoint, activation, switch; supervisor beside it | TLC and TLAPS |
| `JobLease` | control plane, agents, lease keeper, requests with retries | TLC and TLAPS |
| `AccountLifecycle` | the four job handlers, what they leave on disk, the supervisor | TLC and TLAPS |
| `InstancePool` | maintenance, claims, recovery | TLC and TLAPS |
| `InstancePoolProofs` | theorems about `InstancePool` | TLAPS |
| `ManagedExpert` | rotation, installation and sealing of the expert | TLC and TLAPS |
| `NativeRuntime` | `start` and `resume` against the terminal they launch | TLC and TLAPS |
| `BrokerEndpoint` | choice, observation, publication and invalidation of endpoints | TLC and TLAPS |
| `BrokerWizard` | the census through the agent's helper and MT5's dialog | TLC and TLAPS |
| `WineDiscovery` | the prepared discovery under Wine: launcher, helper, first-start wizard | TLC and TLAPS |
| `LabWorker` | the laboratory's commands, hosts, launchers and their files | TLC and TLAPS |
| `LabWorkerProofs` | theorems about `LabWorker` | TLAPS |
| `MCAccounts` | runs `AccountLifecycle` and `LabWorker` | - |
| `MCAccountsProofs` | theorems about `AccountLifecycle` and `MCAccounts` | TLAPS |
| `MCNetwork` | runs `LiveDelivery` and `JobLease` | - |
| `MCTerminal` | runs `BridgeBundle` and `ManagedExpert` | - |
| `MCTerminalProofs` | theorems about `BridgeBundle`, `ManagedExpert` and `MCTerminal` | TLAPS |
| `MCAgent` | runs `HistoryHandoff`, `HistoryBalance`, `Excursion`, `JobLease` and `NativeRuntime` | - |
| `MCAgentProofs` | theorems about `HistoryHandoff`, `JobLease`, `NativeRuntime`, `Excursion`, `HistoryBalance` and `MCAgent` | TLAPS |
| `MCDiscovery` | runs `BrokerWizard`, `WineDiscovery` and `BrokerEndpoint` | - |
| `MCDiscoveryProofs` | theorems about `BrokerEndpoint`, `WineDiscovery`, `BrokerWizard` and `MCDiscovery` | TLAPS |
| `MCLiveJournal` | `LiveJournal` with its symmetry | - |

The modules meet at stated seams: an event's delivery is `LiveDelivery`'s, a
bundle's files `BridgeBundle`'s, and `LiveJournal`, `Excursion` and
`HistoryHandoff` take both as one step; `AccountLifecycle` contains the account's
jobs and leaves the inside of a history import to `HistoryHandoff`, of a terminal
start to `NativeRuntime`, of an endpoint to `BrokerEndpoint`, of the copy of an
instance to `InstancePool` and `ManagedExpert`, and the lease to `JobLease`.

### LiveDelivery

One connection. An event is its bridge sequence number: the payload of a
`DEAL_ADD` file carries its native deal ticket, so its `event_id` is a function
of the file. `Reserve` / `PublishEvent` / `LeaveGap` are the durable cursor
write in `BuildEventJson`, the rename in `WriteEventAtomic` and a failure in
between. `BeginPoll`, `ReadEvents`, `Enqueue`, `Acknowledge`, `PruneFile`,
`Remember` and `EndPoll` follow `LiveSync.poll_once` line by line; each durable
write is a step, and `Interrupt` may fall between any two. `Post`, `Retry`,
`AnswerSent`, `AnswerRejected`, `GiveUp`, `PopSent` and `StoreDeadLetter` are
`EventSender.send` inside `EventOutbox.drain`. `wire` holds requests the API may
still receive: a timed-out attempt stays there and may be applied during a later
poll. The API deduplicates by `event_id`, so `ledger` records first applications.
`GiveUp` covers both exhausted retries and a 401/403, which stops at once; it may
therefore happen after any attempt.

### BridgeBundle

One connection and the files its terminal leaves. The EA's callbacks run one at
a time, so `pc` says where in `OnInit` or `OnTimer` it stands; every file
operation is a step and a kill may fall before any of them. `WriteAllSnapshots`
takes the next number; `CaptureLedger` and `CertifyLedger` are `BuildDealsJson`;
`WriteFile`, `RevalidateLedger` and `Commit` write the files, compare the anchor
again and publish the heartbeat; `SaveCursor` is the last statement of
`OnTimer`, and `OnInit` has none. `EmitEvent` is `BuildEventJson` with its
durable reservation. A failed operation leaves the old file. `Kill` covers a
crash and `NativeMt5Runtime.stop`, whose `terminate` gives `OnDeinit` no chance.
`Resume` deletes the readiness files, ignoring errors, and starts a terminal;
`BeginSwitch` / `SeeSwitch` / `SwitchTimeout` are `switch_to_new_only`.
`BeginRead`, `ReadFile` and `EndRead` read the files of `snapshot()` or of the
history readers one by one, at any moment.

Left to history variables: which bundle an envelope was written by (`bundle`),
and whether a file survived `resume` under a number the EA forgot (`leftover`).
`OneBundle` and `CertifiedLedger` exclude the latter: it takes a kill before the
cursor was saved *and* a failing unlink, and they do fail then. Other
simplifications: `history_orders.json` and the candles are written between the
modelled files under the same rules; the republished heartbeat of an immutable
history differs only in its time; a read does not outlive a restart, since a
missing file is retried for 2.6 seconds and a terminal needs longer to log in;
`resume` does not run while `switch_to_new_only` waits, both being steps of one
job; `cursor.json`, once written, can be read.

### EventMerge and LiveJournal

`EventMerge` keeps what the classification depends on: volumes, the stop, the
entry, which snapshots hold the position. `LiveJournal` adds the broker's truth.
A deal changes `book` at once; the terminal runs its callback later, and the
timer writes the bundle independently, so a bundle may be older *or* newer than
the stream. `OnTimer` first republishes queued deals, newest first, as
`RetryPendingDealEvents` does. In `poll_once` the in-memory work between reading
the stream and `enqueue_many` is one step, because a crash inside it leaves no
trace; the two drains, the outbox, the checkpoint and the snapshot are separate.
`QueuePendingDealEvent` drops a deal when the queue is full, and `RestartExpert`
drops queue and callbacks, which are memory of the EA's process.
Three history variables are not in the program: `misaligned` (some poll merged a
bundle and a stream of different instants), `torn` (some poll ended between the
event checkpoint and the snapshot store) and the bundle's `whole`.
In the code `snapshot()` and `pending_events()` both expose the bridge sequence,
so the comparison the first one makes is one the program could make.

### HistoryHandoff

One account's `historical_sync` job (`pc`), the EA it restarts and switches, and
the supervisor beside it. The broker's deals are numbered in order of execution,
so a ledger is a number. `CommitPending` is the boundary file, `Stage` and the
promotion the archive, `Deliver` the import at the control plane, then baseline,
`Acknowledge` (the event checkpoint), `Activate` (the handoff file with the
archive's tickets), the switch to `new_only` and `Completed`; an exception or a
crash may end the attempt before any of them, and the next attempt finds the
files. The supervisor lists the account first and takes the lock later, as
`event_supervisor.py` does. `leaked` and `live` are history variables: rows that
left through the live route as history and as stream events. `silent` deals are
those whose `DEAL_ADD` callback never runs (executed while the terminal is down). The
`live_sync` job, which reaches `connected` without a history and so without a handoff,
is in `AccountLifecycle` only.

### JobLease

One job, the control plane's lease with a clock of ten-second ticks, and agents
with two threads: `run_once` (`pc`, `call`) and `_LeaseKeeper` (`keeper`). Every
request is posted up to `MaxPosts` times; a post stays in `wire` and may be
served after the caller gave up. `HandlerEnds` leaves the handler at any time,
having returned, raised, or met an uncertain or a lost lease. Computation
between two requests takes no ticks. The control plane is outside the
repository: `Serve` is what `api_client.py` and its tests assume of it (a lease
is renewed or refused by its number, a transition is refused without one).

### AccountLifecycle

The four handlers as one program counter over what they leave on disk: instance
directory, `job_progress.json`, secrets, terminal, profile, seal, registry entry.
`try` is what `_provision` keeps in memory (payload, plan of candidates,
`protected_at_start`); `error` the exception in flight, with `masked` a lost lease
that a `try` has turned into a failure. Milestones are the statuses in the order
of `_start_file_bridge_and_sync_locked`. `List`, `Read`, `Open` and the poll's end
are the supervisor's. A failure, a lost lease, a dead terminal or a crash may fall
on any step. `activated` is a history variable.

### InstancePool

Directories are what the threads share and a move between them is atomic, the
removal of a tree is not (`partial`). The maintenance thread judges and retires
outdated slots and builds one at a time; a claim looks at what is published,
retires what is incomplete, reserves, takes, checks, binds, publishes, confirms,
and releases the reservation in its `finally`; a caller that was returned `None` copies
the template itself. A file operation may raise in each of these steps (`Refuse`,
`ReserveFails`, `ClaimFails`, `ConfirmFails`, `ReleaseFails`, `RemoveFails`, `BuildFails`).
When it does between the creation of the reservation and the `try`, or in the `finally`
before the unlink, the reservation stays although no claim is in flight: the history
variable `orphaned` marks it, and `ReservedIsHeld` says that this is the only way. A
durable replacement happens or does not, as it is on Windows; that on POSIX the
synchronisation of the directory may raise after the rename is left out, and so is a
validation that cannot read its files outside of a claim. `Crash` loses both threads,
`Recover` is `recover_incomplete`. `NewTemplate`, `Spoil` and `Discard` are the environment: a
release replaced on disk, an instance damaged, an account deprovisioned.

### ManagedExpert

The files of a rotation (`target`, `upgrade`, `rollback`), the pins of
`instance.json`, and the expert the terminal has loaded. Each file operation is a
step that may fail or be the last before a crash; `worker` holds what
`rotate_managed_expert` remembers, which a crash forgets. Three paths write the
expert: rotation, `install_expert` during a provision, and the undoing. A copy may
be torn, a durable replacement may not (`worker/atomic_file.py`). `good` is a
history variable: the expert last known to be sound.

### NativeRuntime

A call of `start` or `resume` and the terminal it launches through a scheduled
task, which know each other by files only: the journal (`journal`, read from a
checkpoint on), the start configuration with the password, and what the script
and the expert publish (`account`, `heartbeat`, `discovered`, `handoff`), each
carrying the session that wrote it - a number the program does not have and the
properties compare. The terminal writes its lines one at a time, in its own order.
A task starts its terminal once; one left by a crash is due again, as its time of day
is still to come, and one that `stop` does not know by name loses its launcher, so
that it starts nothing.
MetaTrader is outside the repository; its actions are what the worker's patterns
and waits expect of it, the wrong rights and the wrong server included.

### BrokerEndpoint

One server name. A provision chooses an address (registry, MTAPI, wizard), logs
in, observes the terminal's connections and publishes artifact, provenance,
manifest and registry in this order, with the undoing of a failure; a crash
may fall on any step. A login that used the endpoint and could not connect (`Unreachable`)
invalidates it. The broker may move and the host may be offline, and the agent takes both
for the same: `OnlyUnreachable` is what the code does, `OnlyDisproved`, that the broker
was not there, what it promises (section 4). `Reconnects = FALSE` assumes
that the broker's connection appears in every sample of an observation; section 4
says what happens otherwise.

### BrokerWizard and WineDiscovery

Two drivers of MT5's dialogs. In both the dialog is another process: a row
is known by its position and the list may be rebuilt between reading a label and
clicking. `BrokerWizard` has the agent's service (request, scheduled task, poll,
deadline, cancellation, cleanup) and the helper with its retries. `WineDiscovery`
has the Linux launcher with the lock of the prefix, its deadline and the kill of
the process group, and the helper, one pair for every call. The searches' results
are chosen in the initial state, any list of distinct brokers for every query. The
census keeps the rows it has still to open as a set of positions and takes the least,
which is the order of the list it walks. What the
helpers click and what a dialog then shows is taken from their waits and checks.

### HistoryBalance and Excursion

Algorithms against the truth. In `HistoryBalance` the broker's account lives
through any short sequence of deposits, credits, charges, cancellations, trades,
reversals and close-bys (a close-by is canceled as a whole or not at all, and the models
leave it alone: section 4) and keeps the answers (`before`, `charged`, `held`); the
operators below are `reconstruct_trade_deals` and
`build_balance_backfill_report`, and every reachable ledger is compared. Rows are
amounts and costs in whole numbers; what the code accumulates row by row is a sum over
a column of the rows (`Effects`, `Costings`, `Amounts`, `Volumes`). In `Excursion` a price moves, bundle and
stream show it at different moments, and every poll loads, observes, enriches,
persists and discards as `poll_once` does, possibly interrupted; `path` and
`sampled` are history.

### LabWorker

One account of the laboratory: commands, detached hosts, launchers, and
`worker.json`, the pid file and the stop file, which nothing locks. Each process
reads `worker.json` once and writes it whole from memory. `start-worker` reads the record
(`StartWorker`) and later the pid file (`StartSpawn`), and a host may fail and clean up
between the two. A step ends at a file
write, a process start or a wait. `Reuse` gives a finished host's process number to
a foreign program. `world.disturbed` is set by what the undisturbed properties
exclude: a signal sent to a host, reused numbers, a host that outlives a command's
deadline. That commands do not overlap is a constant, `Clis` with one operator.

### The modules that run several

`MCNetwork`, `MCTerminal`, `MCAgent`, `MCAccounts` and `MCDiscovery` check modules that
share no state in one run. `part` is chosen in the initial state and only that module's
actions are enabled, the others stay in an initial state, so the state graph is
the disjoint union of theirs and every property speaks about its own part.
Fairness is stated for the actions of the moving part. They are no composition:
the interactions between components are inside the modules, where section 2's
seams put them. `MCDiscovery` also takes one list of each set of lists
that differ only in names (`Canonical`), and lets two calls under Wine meet only
where the second query is empty; both are bounds.

## 3. Runs

Each run checks its modules' properties together. Where a module promises several
things of a state, one invariant gathers them (`CallsAreSound`, `HandoffIsWhole`,
and so on), a conjunction of named parts with the module's type invariant; it is
evaluated where that module is the one that moves.

| Run | Instance | States | Shows |
|---|---|---|---|
| `network` | 3 events, 2 POSTs per send, 2 crashes; 1 agent, 3 leases of 5 ticks, 1 fault, 1 crash | 139 k | `CausalPrefix`, `RememberedIsApplied`, `SettledStaysSettled`, `DeadLetterBlocks`, `ImplementsChannel`, `EventuallyApplied`, the inductive invariant; `JobEnds` |
| `terminal` | 2 sequence numbers, 1 ledger movement, 1 kill, 1 failed operation; 3 releases, 4 jobs, 4 faults | 4.1 M | `OneBundle`, `CertifiedLedger`, `AnchorSeparates`, `SwitchedMeansLive`, the inductive invariant; `RotationIsSound` |
| `journal` | 1 position, 3 deals, 1 stop change, 2 waiting transactions, a retry queue of 1, 3 deals, changes and restarts of the EA together, 1 interruption | 2.5 M | `AcknowledgedDealsAreReported`, `SavedChangesAreReported`, `JournalIsExact` |
| `agent` | 3 deals (1 old), 2 jobs, 2 failures; 5 ledger rows, 2 positions; 2 price moves, 3 polls, 1 interruption; 2 agents, 2 leases, 1 fault, 1 crash; 2 calls, 3 terminals, 1 crash or host fault, 2 servers | 1.3 M | `HandoffIsWhole`, `NeverTwice`; `ReconstructionIsExact`; `ExtremaAreKept`, `RemovedOnlyWhenReported`; `RecordedIsTrue`, `KeepsLease`; `CallsAreSound` |
| `accounts` | 2 logins, 2 candidates, 4 jobs, 2 failures; 1 operator, 2 hosts, 3 commands, 2 incidents, 1 restart | 363 k | `AccountIsWhole`, `ConnectedIsKept`, `HandlerEnds`; `HostsAreSound`, `FailedIsAbsorbing`, `CommandsEnd` |
| `pool` | 3 slots, 1 connection, 2 claimers, 2 releases, 2 claims, 2 events | 1.8 M | `OnePlace`, `ReservedIsHeld`, `PoolKeepsItsSize`, the inductive invariant |
| `discovery` | 2 brokers, 2 terms, 1 fault, 1 rebuild; 2 calls, 2 queries, 1 incident; 2 hosts, 2 provisions, 1 fault, 1 crash, 1 change | 1.1 M | `CensusIsSound`; `FoundIsExact`; `EndpointIsSound`, `OnlyUnreachable`; `CallsReturn` |
| `journal_echo` | 3 deals, no fault | - | violation of `NoSecondReduction` |
| `handoff_leak` | 2 deals, 2 jobs, 1 failure | - | violation of `NoHistoryInLive` |
| `lifecycle_reprovision` | 3 jobs, 1 failure | - | violation of `ActivatedSurvives` |
| `lifecycle_doubt` | 3 jobs, 1 failure | - | violation of `UncertainLeaseKeeps` |
| `endpoint_offline` | 2 hosts, 2 provisions, 1 change | - | violation of `OnlyDisproved` |

**Bounds.** Every bound is a constant with `bound:` in its comment. `MaxSeq`,
`MaxAttempts` and `MaxInterrupts` of `LiveDelivery`: three events are one in the
API, one in flight and one on disk, or a gap between two files; two attempts are a
first and a repeated request; two crashes let the second hit the recovery of the
first. In `BridgeBundle` two numbers give two bundles, or a bundle and an event,
with distinct numbers, and with one kill two bundles with the same one. The theorems
remove these bounds and those of `InstancePool`. In `LiveJournal` three deals
are the shortest history with a partial close and a following deal, two waiting
transactions the shortest batch that can be reversed, a queue of one the smallest
that overflows; one interruption is enough because a poll starts from durable
state only, and a restart of the EA is one of the three orders. Two jobs of the handoff are a first import and its repetition, two
failures let a retry fail as well. Five rows are the shortest ledger with
an opening, a partial close, a commission, a cancellation and its compensation.
Five ticks with an interval of two, or one, are the ratio of the real lease (60 s)
to its heartbeat (20 s) rounded so that a late renewal and an expiry are both
possible. Four jobs of an account are provision, failure, re-provision and
another, two failures an attempt and its retry; three releases of the expert let a rotation be interrupted and overtaken
by the next release. Three slots are one published, one ready and one in work, and two
claimers compete for one connection. A price above, at or below the opening gives a
second sample that is and one that is not a new extreme. Two
hosts are a leaving one and its successor, three commands a start, its stop and the next
start; two incidents are a launcher that dies and its restart that dies, which fails the
worker (`HostsAreSound` and the inductive invariant also hold with three). Two events of
the pool are a failing operation and the failure or crash after it. Two brokers are the row one wants and
the row one gets. Two calls of `NativeRuntime` are a start and a resume, with as many
terminals as they launch; a resume of an interrupted resume takes a third, which
`CallsSound` covers.

**Deadlock.** `journal` checks it: the supervisor always has a next poll.
The others stop when their bounded jobs, calls, events or faults are used up, a
state in which the real system waits for the next, so the check is off.

**Fairness.**
- `LiveDelivery`: `WF(Drain \/ Poll)`, as `Mt5EventSupervisor.run` polls for
  ever and survives every exception; `SF` of `Apply` and of `AnswerSent`, the least
  that "the network recovers" can mean. A permanent rejection blocks the channel by
  design, so `EventuallyApplied` allows for it.
- `JobLease`: `WF` of each agent's steps, of a time-out and of the network; `SF`
  of `HandlerEnds` (a handler has finitely many checkpoints) and of `Tick`. With
  finitely many faults and crashes the job then ends.
- `AccountLifecycle`: `WF` of handler and supervisor; `SF` of the steps that need
  `connection_sync_lock`: a poll holds it for a bounded time, and the handler's
  thread waits for it.
- `InstancePool`: `WF` of the maintenance thread and of `Recover` (the service
  manager restarts the agent). Claims have none.
- `LabWorker`: `WF` of every process; nobody has to issue a command and
  nothing has to fail. `CommandsEnd` is about undisturbed accounts.
- `BrokerWizard`: `WF` of helper and service. `WineDiscovery`: `WF` of the launcher
  only; the helper may hang, which is what the deadline is for.
No fairness is assumed of crashes, failures, losses, the broker or the terminal.

## 4. Findings

Checked by runs that expect a violation:

1. `journal_echo` - `poll_once` reads the bundle, then the stream, and never
   compares their sequence numbers. A close whose record is newer than the bundle
   is reported from the record, and again by the next comparison of bundles,
   although the comment at `windows_agent/worker/live_sync.py:402` says the
   comparison "must not reduce the volume a second time": the echo filter lives
   for one poll only. This needs no failure.
2. `handoff_leak` - the supervisor reads the accounts' status before it takes
   the connection's lock and does not read it again. A poll that waited for a
   history job runs after that job failed with the EA still in history mode, and
   sends rows of the history through the live route, against
   `event_supervisor.py:89`.
3. `lifecycle_reprovision` - protection is derived from `job_progress.json` alone.
   A failed re-provision of an activated account leaves a failed status; the
   next provision finds the account unprotected and discards it, against
   `real_handlers.py:1411`.
4. `lifecycle_doubt` - `LeaseLost`, raised inside the `try` of
   `_start_file_bridge_and_sync_locked`, becomes `LiveSyncFailed`, and the provision
   discards the instance although "lease uncertainty is not authority to destroy
   local state" (`real_handlers.py:1406`).
5. `endpoint_offline` - a login that meets no connection leaves lines in the terminal's
   journal from which `native_mt5_runtime.py:844-854` concludes
   `endpoint_connection_failed`, and `_endpoint_failure_reason` takes this for a proof
   against the endpoint (`real_handlers.py:382`). MT5 writes them too when the host itself
   has no network: the verified endpoint, which every account of the broker shares, is
   invalidated although the broker has not moved, against `real_handlers.py:393` ("an
   unhealthy VPS cannot invalidate a shared verified endpoint") and
   `broker_endpoint_registry.py:899`.

*Further observations*, made with these models and not kept as runs. Each is a
behaviour a property of section 3 excludes by a condition it names, or does not
speak of.

- Journal: a crash between `acknowledge_events` and `snapshot_store.save` makes
  the next poll report an opening under a second `event_id` or lose a close
  (`torn`); a stop moved a→b, b→a, a→b repeats the first `event_id`
  (`event_normalizer.py:55`); a restart of the EA in `new_only` mode forgets
  queued deals; a `POSITION` notification may echo an increase.
- Lease: a keeper whose posts all time out notices the loss after more than sixty
  seconds (`job_runner.py:40`), so two handlers can overlap; a transport error of
  the main thread's own heartbeat is reported as a failed job (`:106`).
- Handoff: a retry after a supervisor poll saves an older baseline before the
  checkpoint refuses to go back (`real_handlers.py:2458`); a retry that restarts
  the terminal in import mode keeps the old boundary (`:665`).
- Lifecycle: a poll that has read the secrets can create the directory of a
  deprovisioned account again (`:1557`); `candidate_endpoint_rejected` counts as
  protected (`:1082`); the registry is not asked first when the request names its
  broker (`:746`).
- Pool: a second claim of one connection may retire what the first published
  (`mt5_instance_pool.py:501`). A reservation whose write or synchronisation raises
  (`:445`-`:450`), or whose claim cannot remove its tree (`:574`), stays: every later claim of
  the connection is refused as "in-flight" until the agent restarts, which removes it.
- Expert: a crash between the replacement and the seal leaves an expert no later
  job accepts (`mt5_instance.py:289`); so does a re-provision under a new release
  (`:211`).
- Runtime: a crash of the agent leaves the start configuration
  (`native_mt5_runtime.py:1460`) and the task with its launcher (`:1001`): if its time
  comes between a later `resume`'s look at the processes and its launch, and that
  terminal ends, `resume` takes its lines and files for those of its own
  (`Undisturbed` excepts this). A terminal that cannot be stopped after a failed
  start stays (`:1458`); of a task that could not be run only the name stays, as
  `stop` removes the launcher (`:1543`).
- Endpoint: undoing removes artifacts although the manifest could not be restored,
  when a second operation fails (`broker_endpoint_registry.py:876`); with
  `Reconnects` the one remaining connection may be MetaQuotes' (`:252`).
- Wizard: a list rebuilt between label and click pairs one broker's label with
  another's servers (`broker_wizard_ui.py:733`); so do two failures on a list that
  stands still: the server menu of the right broker cannot be read, the next row does
  not take its click, and Next opens the first broker again (`:733`-`:767`); a row given
  up is not offered again (`:246`); a launcher that cannot be written leaves
  `request.json` (`broker_wizard.py:522`-`:548`). Wine: a killed launcher leaves its helper without the lock
  (`linux_wine_broker_discovery.py:409`).
- Balance: a scale-in is taken for the opening when the opening is archived
  (`history_balance.py:195`). `Cancel` leaves close-by deals alone: were one leg of a close-by
  canceled and not the other, a separate commission that names its order would lead to the
  other position only (`order_positions`, `:143`-`:148`), and `CostsAreExact` would be false. Excursion: an interrupted poll leaves the record of a
  closed position (`live_sync.py:566`).
- Laboratory: overlapping start commands leave two hosts (`worker_host.py:278`); so does one
  start command that has loaded the record (`onboarding_cli.py:161`) before the worker fails and
  reads the pid file (`worker_host.py:344`) after its host has cleaned up: the new host finds
  `FAILED_CLOSED` and ends, but for a moment there are two, against "one worker-host per account,
  ever" (`:336`), which `OneHost` therefore allows in that state;
  a forced stop overwrites `FAILED_CLOSED` (`:422`); a stopped account runs again
  with a terminal onboarding state (`worker_supervisor.py:149`); a reused process
  number is taken for the host (`worker_host.py:139`).

*Hazards not in `PROJECT.json`.* The list there is limited to the ones the
properties are aimed at; where a condition of the property excludes the hazard itself, the
hazard names no property and its note says why. Others met in the code: the unlink of acknowledged files
beside the EA (`mql5_file_adapter.py:506`; `EventuallyApplied`); the order of
retried deals (`TradeJournalBridge.mq5:917`); a directory listing that is not
atomic (`mql5_file_adapter.py:443`); `cursor.json` that cannot be opened (`mq5:334`);
the number of the bundle written by `OnInit` (`mq5:1194`); a snapshot file that
survives `resume` (`native_mt5_runtime.py:962`); `live_sync_running` left by a
failed job (`real_handlers.py:1590`); a provision that dies between `connected`
and the seal (`:2738`); staging directories left by a crash (`mt5_instance.py:60`);
a partial start configuration when the disk fills (`native_mt5_runtime.py:641`);
schtasks `/End` that leaves the helper (`broker_wizard.py:615`).

## 5. What is proved

Every theorem holds for all values of the constants that satisfy the module's named
assumption (natural-number bounds, `None` outside the other sets). Four theorems Four theorems need
more, and say so: `LeaseKept`, the two of one laboratory operator, and `CensusSound`.: `LeaseKept`, the two of one laboratory operator, and `CensusSound`. Each inductive
invariant is in its module, below the properties, as a conjunction of named
parts, and TLC has checked it: that of `LiveDelivery`, `BridgeBundle` and `InstancePool`
in their runs, the others on an instance of their module alone.

### LiveDelivery

`LiveDeliveryProofs`, for every `MaxSeq`, `MaxAttempts > 0` and `MaxInterrupts`
(`DeliveryAssumption`), with TLAPS:

- `Invariance`: `Spec => []IInv`, and from it `TypeCorrect`, `CausalOrder`
  (`CausalPrefix`) and `DedupIsSound` (`RememberedIsApplied`);
- `AcknowledgedIsFinal` (`SettledStaysSettled`) and `DeadLetterIsABarrier`
  (`DeadLetterBlocks`), action properties that follow from `IInv` and one step;
- `DeliveryRefinesChannel`: `LiveDelivery` implements `CausalChannel` with
  `source <- Published` and `journal <- ledger`.

*The argument.* `CausalPrefix` alone is not inductive: nothing in it says why the
head of the outbox is the earliest event the API lacks. `IInv` adds
`NumberingInv` (the number being written is above everything published),
`OutboxInv` (outbox and ledger ascend; the events that reached the outbox are
closed downward among the published ones; the checkpoint covers only those) and
`PollInv` (what each program point implies: no dead letter during a poll, an
empty outbox whenever files are read, `records` still holding every file above
the checkpoint except later arrivals). One lemma per action shows that it keeps
`IInv`. The lemmas at the top of the module are about sequences: the elements of
head, tail, append and of an ascending listing of a set.

### BridgeBundle

`MCTerminalProofs` on the bundle, for every `MaxDeals`, `MaxSeq`, `MaxKills` and
`MaxFailures` (`BundleAssumption`): `Invariance` (`Spec => []IInv`), and from it
`TypeCorrect`, `ReadsOneBundle` (`OneBundle`), `HistoryIsCertified`
(`CertifiedLedger`), `AnchorIsABoundary` (`AnchorSeparates`) and `SwitchIsSeen`
(`SwitchedMeansLive`).

*The argument.* The reader knows only sequence numbers, so `NumberInv` says of
everything on disk or already read (`Seen`) that equal numbers mean the same
bundle, and that no number is above the EA's: on disk nothing exceeds
`cursor.json` when a terminal boots, because `resume` removed the rest.
`LedgerInv` follows one bundle through its writing: no heartbeat of it exists
before the commit, its ledger file shows the anchor, its account a state between
the anchor and now, which the comparison at the end makes equal. `StreamInv`
relates committed numbers and published events to the numbers still to be
given, `SwitchInv` the heartbeat on disk to `previous_sequence` as long as the
EA has not changed its mode. Each part is kept by every step: one lemma per part
(`NumberStep`, `LedgerStep`, `StreamStep`, `SwitchStep`) over lemmas on what an
action adds to `Seen`.

### ManagedExpert

`MCTerminalProofs` on the rotation, for every set of releases and all bounds
(`ExpertAssumption`): `ExpertInvariant` and, of the composition that the run
checks, `RotationSound` (`RotationIsSound`).

*The argument.* `Recoverable` says that the sound expert is the target or the
rollback copy; a step that drops or overwrites one of them needs to know which.
`CopyInv` follows the copy through the rotation: until the replacement
the target is what the job remembers as `prev`, from the copy to the undoing the
rollback is, and the rollback is dropped only where the target is sound or
`keep` is set. `UndoInv` counts: a failure is one fault, so a rotation that still
has something to put back after its own recovery failed has met two. `SealInv` is
what `ReportedIsCurrent` needs before the terminal is started, `JobInv` that the
terminal stands still meanwhile.

### InstancePool

`InstancePoolProofs`, for every set of slots, connections, claimers and releases
and every `TargetSize`, `MaxClaims` and `MaxEvents` (`PoolAssumption`): `Invariant`
(`Spec => []IInv`), and from it `TypeSafe`, `OnePlaceAlways` (`OnePlace`),
`ReservedIsHeldAlways` (`ReservedIsHeld`), `ReadyIsAnonymousAlways`
(`ReadyIsAnonymous`) and `PublishedIsWholeAlways` (`PublishedIsWhole`).

*The argument.* `OnePlace` is not inductive: a move is safe only if the slot
was where the thread believes it. `Nowhere` says that a slot not built yet is in no
directory, `ThreadInv` that the builder's slot is in `building` and that no
thread works while the agent is down, `FlightInv` that a claim in flight holds its
connection's reservation alone and that none is in flight where one is `orphaned` - so two
claims never touch one claimed directory - and `TakenInv` what state the taken slot is in at each step. The
lemmas `TypeStep`, `PlaceStep`, `ThreadStep`, `FlightStep` and `ContentStep` show that
every action keeps each part.

### HistoryHandoff

`MCAgentProofs`, for every number of deals, files, jobs and failures
(`HandoffAssumption`): `HandoffInvariant` (`Spec => []IInv`), `HandoffWhole`
(`HandoffIsWhole`) and `LiveNeverTwice` (`NeverTwice`).

*The argument.* That no deal is lost when the account is connected depends on
every file the job removed before. `StreamInv` says at all times: a published deal
is imported, delivered, or in a file. `Acknowledge` is the step that endangers it;
`BoundaryInv` is why it is safe, a file up to the anchor holds a deal the boundary
covers. `FileInv` keeps bundles above the files of the deals they contain, so that
a boundary read from a bundle is one. `AttemptInv` says what an attempt has on disk at each
step - the archive, the delivery, the handoff file - including attempts that
found the files of an earlier one, `ArchiveInv` that archives are of this job or
older, and `LockInv` that the EA is in history mode until the switch.

### JobLease

`MCAgentProofs`, for every set of agents and all bounds (`LeaseAssumption`):
`Recorded` (`RecordedIsTrue`), and `LeaseKept` (`KeepsLease`) under
`TimingAssumption`: a post is shorter than the interval of the heartbeats, and
interval and two posts shorter than the lease. In the code these are 10, 20 and
60 seconds; the run has 1, 2 and 5 ticks. `RecordedOfAgent` and `KeepsLeaseOfAgent`
state both of the composition.

*The argument.* A request may be served long after its sender has left, so `RecordInv`
speaks of the wire: no message and no agent knows a lease above the current one, and an
acknowledged transition has ended the job under the agent's lease. `ThreadInv`
ties the two threads of an agent together. For `KeepsLease`, `Lasts` gives at each
place of the agent a lower bound of what is left of the lease: the age of the
keeper's sleep, or of its request, plus what remains adds up to a whole lease. It
needs `Alone` (no message of another agent can end or renew this lease) and
`OnItsWay` (a request that has not failed is in the wire).

### AccountLifecycle

`MCAccountsProofs`, for every number of logins, candidates, jobs and failures
(`LifecycleAssumption`), of the composition that the run checks: `AccountWhole` (`AccountIsWhole`) and `ConnectedStays`
(`ConnectedIsKept`).

*The argument.* The status on disk and the instance on disk are written by
different steps. `PlaceInv` says for each step of a provision which of them are
there already, what the plan of candidates can still be, and when a failure may
discard: `ConnectedIsKept` rests on the step that reaches `connected` being past
every discard. `Milestones` are the statuses a step may have left, `TypeStep` needs
`PlaceInv` (a login is read only where one was chosen).

### LabWorker

`LabWorkerProofs`, for every set of hosts and all bounds (`WorkerAssumption`):
`Restrained` for any number of operators (`LaunchersBounded`, `StoppedIsQuiet`: of each
host, not of the account's total, and not of a forced stop); `HostsSound` (`HostsAreSound`) and
`FailedAbsorbs` (`FailedIsAbsorbing`) for one (`OneOperator`). With two the
properties are false: pid file and spawn are not under one lock
(`worker_host.py:278`, section 4).

*The argument.* `RestInv` holds whatever happens: the record a process keeps in
memory never counts fewer restarts than launchers it has started, and a launcher
that runs is the one its host holds. `AloneInv` and `FileInv` hold until something
disturbs the account. Unless it has failed closed, one host runs (`Sole`), the one the
operator's command waits for, and the pid file names it except on its way in and out.
The file is the record of every host that runs. They are needed together: a second host
could be started only while the first is not named, and the file could be stale only if
two wrote it. A start whose record was read before the failure may bring a second host;
`FileInv` says that in `FAILED_CLOSED` hosts are on their way in or out, where they write
nothing that takes the account out of it and start no launcher.

### BrokerEndpoint

`MCDiscoveryProofs`, for every set of brokers and hosts and all bounds
(`EndpointAssumption`): `EndpointInvariant`, and of the composition that the run checks
`OnlyUnreachableHolds` (`OnlyUnreachable`), whatever fails, and `EndpointSound`: `EndpointIsSound`
while at most one file operation has failed and connections do not break
while they are observed. Both conditions are needed (section 4): the undoing of
`publish` passes over a second failure, and without the second the one stable
connection may be MetaQuotes'.

*The argument.* A record is known by the session that published it. `SessionInv` says
that no two records share one and that a provision's own is on no record before
it is saved; so an invalidated record can only be the verified one of before, and
`SnapshotInv` - what is invalid stays so in the snapshot an undoing restores -
excludes the undoing. For `EndpointIsSound`, `BackedInv` follows a publication: manifest
and registry are what the snapshot says until each is written, the files
are there before the manifest lists them, and the manifest lists them before the
registry does; undoing takes this back in an order in which the evidence
outlives the record. `ConfirmHits` shows that a saved record is always found, so
that undoing begins with a failure only. `KnownInv` is what the choice of an address
has established: a broker's name, and that the address was seen.

### WineDiscovery

`MCDiscoveryProofs`, for every set of calls and brokers, every number of queries and
incidents (`DiscoveryAssumption`): `WineInvariant`, and of the composition that the run
checks `FoundSound` (`FoundIsExact`).

*The argument.* The lock of the prefix does not protect the wizard: a killed launcher
releases it and leaves its helper, so two helpers may drive one dialog. What protects a
result is the dialog itself. `PageInv` says that only one helper can have come to the
page of servers that is open, because only the list of brokers leads there, and that a
dialog once closed stays closed and keeps what it showed. So the second reading, made
after the page was accepted, is of the row this helper chose (`Claims`). `LockInv` and
`Orderly` are the rest: the launcher that holds the lock is the only one between its
start and its end, and its helper is gone before it lets go unless someone was killed.
`ExactInv` is for the undisturbed call: what the helper has read so far is, row by row,
what the list holds (`HasRead`), earlier queries showed nothing (`Probed`), and so one
match is the only one. The lemmas `UiForms`, `GoForms` and one `...Effect` per action
say what a step does; the parts of the invariant are proved from these.

### BrokerWizard

`MCDiscoveryProofs`, for every set of brokers, every number of terms, rows, failures and
rebuilds (`WizardAssumption`): `CensusInvariant`, and of the composition that the run
checks `CensusExact` (`EvidenceIsOfOneBroker`, `NotFoundIsExhaustive`) and `CensusSound`:
`CensusIsSound` where `EndKills`, that is where `schtasks /End` takes the helper with it.
Without this `ReturnsQuiet` is false: the helper works on after the call has returned.

*The argument.* A row has three identities: the label read from the list, the row the
dialog has selected, and the broker whose servers it shows. `EvidenceInv` relates each
to the row the helper is at (`IsCurrent`), and counts failures: while none has happened
the selected row is the current one, and what stays selected after a row was left has
not the server; one failure may break the first, so for what is selected or open
afterwards it says only that it is the current row or has not the server. A second
failure breaks that as well, which is how the observation of section 4 was found: the
first form of the property allowed any number of failures, the run has one, and the
invariant it needed was not inductive. `ExhaustInv` is the loop's: a row with the server
is still to come or is the one being opened, and whatever counts as tested without having been
opened is a row of the present term. `RunInv` follows task, helper and result through the
service's steps.

### NativeRuntime

`MCAgentProofs` on the calls, for every set of servers and all bounds
(`RuntimeAssumption`): `RuntimeInvariant`, and of the composition that the run checks
`CallsSound` (`CallsAreSound`).

*The argument.* The worker never sees the terminal's session, only files, so what it
concludes rests on which terminal could have written them. `TaskInv` says when a
task may start one, `OwnTerminal` what holds from there on: before the launch of a
second phase or a resume nothing runs, nothing is due and nothing is published;
between launch and boot no line is newer than the checkpoint; afterwards everything
published and every newer line is from the one terminal booted. It cannot
hold in the first phase of a start after a crash, when the left task may boot beside
the new one, and need not: the phase ends with a stop that `SessionInv` knows to
leave nothing (`At("clear")`). `InvestorInv` is the order of proof and expert: the
handoff, and every step after the proof, presuppose a line only an investor's
terminal writes. `SecretInv` and `CallInv` follow the password through the paths.
The first attempt of this proof failed for a reason: without `Undisturbed` the
invariant is broken by a third call, which the run's two do not reach.

### Excursion

`MCAgentProofs`, for every range of prices, any number of moves, polls and
interruptions (`ExcursionAssumption`): `TrackerInvariant`, and of the composition that
the run checks `ExtremaKept` (`ExtremaAreKept`) and `RemovedReported`
(`RemovedOnlyWhenReported`).

*The argument.* An interrupted poll may leave anything but the file behind, so the
invariant is about the file. `RecordInv`: until a close is durable there is a record
as soon as the checkpoint, the snapshot or a sample has moved on, and it has the
extremes of all samples. Each of the three moves on only behind a write of the record:
the sample in the same step, the checkpoint because an opening that is read is
observed first, the snapshot because a position the bundle shows is. A close is seen
by an acknowledged opening, by one this poll read or by the saved snapshot, so its
record exists, and `TruthIs` shows that extremes of the same samples are equal. After the first
close a record may be stale or begin anew; `RealInv` says that it still tells only of
prices the position had. `PollInv` is what the checkpoint leaves to read, and
`MarketInv` that a deal in the stream means a position that lived.

### HistoryBalance

`MCAgentProofs`, for every set of positions, any volumes and any number of deals
(`BalanceAssumption`): `BalanceInvariant`, and of the composition `ReconstructionExact`
(`ReconstructionIsExact`).

*The argument.* The reconstruction sees exported rows, the answers are kept beside them.
The invariant ties the two by what is not exported: `after`, the volume a deal left.
`ChainInv` says of a position of which nothing is archived that each of its rows follows
from what the one before left (`Follows`, `Was`), that the last left what is held, and,
unless it is irregular, that nothing was reversed or opened again. `BalanceInv`: if all
rows since its first one are explained, the balance before it is the present one less
their effects; a cancellation makes this vacuous for every position that began before
the row it marks. `CostsInv`: while nothing is archived, each separate commission can be
given an owner its row leads to (`Linked`), such that what a position was charged is the
cost of its rows and of the commissions it owns.

From this follows what is published. The first row of a position found nothing, so it
can only be an opening (`FirstOpens`) and the walk back ends where the position began
(`WalkFinds`). The volumes the code accumulates are those the broker had (`VolumeIs`),
so a row closes exactly if it left nothing; a row after it found nothing and would be a
second opening, which the code refuses, so the close is the last row (`SafeIsWhole`),
and a regular position is never refused (`RegularIsSafe`). A commission that leads to
one position only leads to its owner (`TargetIs`). The sums are folds over sets of rows;
that such a sum takes up a row in any order (`SumOneMore`) and does not change when rows
move (`SumMoved`) is proved from the definition of the fold (`TotalsExist`,
`TotalsRemove`), with the principle of the smallest number for the induction. A
cancellation shortens the chain by its last row, and archiving moves every row by one
(`ChainShortens`, `ChainMoved`). TLC agreed with `IInv` on 2 positions and 5 rows before
the proof.

### LiveJournal

`LiveJournalProofs`, for every set of positions and stops and all bounds
(`JournalAssumption`): `VariablesAreTyped` (`TypeOK`), `AcknowledgedDeals`
(`AcknowledgedDealsAreReported`), `SavedChanges` (`SavedChangesAreReported`) and
`JournalExact` (`JournalIsExact`).

*The argument.* The outbox is written before checkpoint and snapshot, so `IInv` says
at each program point what is reported already: up to the checkpoint every deal
(`DealsTold`), from `Enqueue` on every deal of the batch and every change between the
saved snapshot and the one to be saved (`BatchIsReported`). An identity in the dedup
store was reported (`KnownIsReported`), or the filter before the outbox would lose
events. A delivery may replace an event by an earlier one of the same `event_id`; so
what is kept is identities (`Covers`), and `EventIdIs` shows that an identity
determines all that the properties ask of an event: type, position, native ticket and,
of a modification, the new stop. What is left is what the merge returns:
`PollEventsAre` shows for all records and snapshots that every deal keeps an event
with its ticket - the echo filter only removes volume changes that reduce, which no
deal becomes (`DealEventIs`) - and that a difference of the two snapshots which the merge
drops is told by an event of the stream. The lemmas below it say what a sublist, an
ordered set and a function defined by recursion along a list are (`SublistIs`,
`InOrderIs`, `Recursion`); the last of them rests on `Upwards`, which is the principle
of the smallest number.

*The exact journal.* `EInv` adds to `IInv` the broker's account. `Vol(deals, c, p)` is
the volume the first `c` deals leave of a position; `Account` says that every deal
begins with it (`IsLedger`), that the book shows it after the last deal, and that a
`DEAL_ADD` record tells of its deal truly. A snapshot, a prefix of the stream and a
prefix of the deals fit together when they are `Aligned`: the prefix tells of the deals
1 to some `c`, in order, and the snapshot shows what those leave. A whole bundle is
aligned with the records published before it (`SnapshotsMeet`, by `HistoryTold`), and,
as long as nothing was misaligned or torn, the saved snapshot with the checkpoint
(`PollMeets`): the checkpoint moves first and the snapshot follows, and only a poll
interrupted between the two breaks it. From two aligned ends, `PollIsExact` follows the
replay record by record: its volumes are the broker's (`TrackedIsVol`), so every deal
gets the type it had (`ReplayIsExact`); a difference of the snapshots that opens, closes
or reduces is one that a deal of the batch made (`DiffIsOfDeals`), so the merge drops it
and the echo filter what is left. `ReportIsExact` carries this through outbox and
journal: they tell of the deals 1 to some `c`, each once in its turn, however often a
poll was repeated (`BatchIsExact`, `DeliveryIsExact`). That the journal then knows the
open positions is a fact about the account: a volume that leaves zero does so by an
opening, one that returns to zero by a close, and a position closed is not opened again
(`OpensByAnOpening`, `ClosesByAClose`, `ClosedStaysClosed`). TLC agreed with `EInv` on 2
positions and 3 deals before the proof.

### The compositions

`HandoffComposed`, `LeaseComposed`, `RuntimeComposed`, `TrackerComposed`, `BalanceComposed`, `BundleComposed`, `ExpertComposed`,
`AccountComposed`, `EndpointComposed`, `WineComposed` and `CensusComposed`: a behaviour of
`MCAgent`, `MCTerminal`, `MCAccounts` or `MCDiscovery` is one of each of its modules, since the step of another module leaves this one's variables
alone. What is proved of a module is thereby proved of what the run checks.

### Only model-checked

Liveness (`EventuallyApplied`, `JobEnds`, `HandlerEnds`, `PoolKeepsItsSize`,
`CommandsEnd`, `CallsReturn`), which needs fairness and ENABLED.

## 6. Plan

Done: every module of section 2, with the theorems of section 5, which cover every
safety invariant and action property of the passing runs. What could follow is an
abstract handoff - every deal is imported or live, and not both - refined by
`HistoryHandoff`.

## 7. Not modelled

Formatting, prices, money, symbols and times where they do not steer the control;
pending orders (the same diff, without replay); legacy outbox migration and
dry-run; cryptography, configuration, release integrity and service glue
(`security.py`, `runtime_config.py`, `release_manifest.py`, `service/`); the static
broker profiles (`broker_registry.py`, `broker_resolution.py`), a lookup in a
shipped file; and of the laboratory under `lab/` the harness `lab_model.py`, its
verifier `lab_evidence_verifier.py` and `network_summary.py`, which validate and
summarise experiment records. The ingestion API, the control plane, the broker and
MetaTrader are external: the models use of them what the code relies on. The
reader's directory listing is one step; on a file system where a scan can miss an
older file while returning a newer one, the checkpoint could pass over it.
