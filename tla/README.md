# A verification of the codex background task handler

`cbth` runs commands in the background for Codex threads and brings their
results back into the thread as a new turn. One long-lived daemon owns a SQLite
store; CLI commands, the sidecar of a foreground Codex CLI, and the plugin
service talk to it. This directory holds TLA+ modules of its core, TLC
configurations that check them on small instances, and theorems that TLAPS
proves for every instance. File names are those under `src/src/`, documents
those under `src/docs/`.

Contents: 1 Inventory, 2 Modules, 3 Delivery core, 4 Task supervisor,
5 App-servers and hand-off, 6 Plugin service, 7 Desktop bridge, 8 Artifact store,
9 CLI sidecar, 10 Permissions, 11 Runs, 12 Fairness, 13 Proofs, 14 Only
model-checked, 15 Findings and observations, 16 Not modelled, 17 Plan.

## 1. Inventory

| Component | Source | State it keeps | Operations | Hard behaviours |
|---|---|---|---|---|
| Batch queue | `store.rs` | `batches`: state, policy, window, budget, `created_at` | enqueue (job, plugin), close head, hand over to the operator, close by window | callers' clocks are read before the transaction; a close under a delivery in flight |
| CLI delivery attempts | `store.rs` | `delivery_attempts` of adapter `cli` | begin, accept, reject, observe, expire | unanswered sends, late and delayed completions, session lost under a turn |
| App-server delivery attempts | `store.rs` | `delivery_attempts` of adapter `codex_app_server` | begin (also inside the enqueue), accept, reject, abandon as unknown, observe | retries against the budget, the connection failing after the send |
| CLI managed sessions | `store.rs` | `cli_managed_sessions`: state, epoch, proofs | attach/create/replace, retire, note activity, capability and permissions, invalidate, park | a proof used after it is stale; replacement under a delivery |
| Maintenance sweep | `store.rs`, `daemon.rs` | none of its own | expire sends and turns, close windows, in pages of 100 | racing with every answer; starvation by the page limit |
| Task supervisor | `daemon.rs`, `store.rs` | `jobs`, `tasks`, process groups, result files | spawn gate, cancel, wait, recover | cancel racing with the gate; a daemon that dies half-way; reused pids |
| Artifact store | `store.rs`, `artifact.rs` | ingest rows, markers, manifests, files | copy, commit, retain, collect | crash between copy and commit |
| Daemon lifecycle | `daemon.rs` | generation, lock, hand-off files | quiesce, export, adopt, release, roll back | a crash at each stage; one owner per app-server |
| CLI app-server leases | `daemon.rs` | in-memory leases, child processes | ensure, refresh, reap, stop | expiry racing with ensure and refresh |
| CLI sidecar | `cli.rs`, `cli_app_server_client.rs` | connection, proofs with revisions, the attempt under way | connect, prove, poll, begin, turn/start, accept, observe, reconcile, park | calls given up that run later; notifications of other turns; exits and crashes |
| CLI turn permissions | `cli.rs`, `store.rs` | startup, last and effective permissions, drifts | derive, note, compare, cap, override | the thread's permissions change at any time; four forms of the same answer |
| Plugin service | `service.rs`, `plugin_rpc.rs` | connections, registry of leases and their holders, plugin process | ensure, refresh, stop, enqueue, inspect, hand over, shut down | connections that share a lease; the same delivery driven by several of them |
| Desktop bridge | `store.rs`, `cli.rs` | installation, bindings, Desktop attempts, markers, scanner cursors | repair, preflight, arm in two phases, relay by transcript | overlapping scans; repairs between the two phases; markers used twice or passed over |
| Self update, file-system layout, models, entry points | `self_update.rs`, `fs_layout.rs`, `models.rs`, `main.rs`, `lib.rs` | | | no protocol of their own |

**How they interact.** Up to 32 daemon workers, the maintenance thread and
short-lived commands open the same database. Every store method is one
serializable SQLite transaction, so the unit of interleaving in the models is
the transaction; what no transaction protects is what a caller read *before*
its own began (the time, a session's epoch, a batch id), and what it does
outside (the send of `turn/start` between `begin` and `accept`, files, sockets
and processes).

**What makes each part correct.**

- queue: a batch is delivered at most once, one delivery per thread, and a
  batch whose outcome is unknown goes to the operator, with time to act;
- attempts: an attempt that ended stays ended, its outcome is recorded with
  evidence, its budget is charged exactly once, and somebody always ends it;
- sessions: a proof is used for one send, a turn is only followed in the epoch
  it was begun in, strict_safe is re-checked at each step, one session per
  thread;
- tasks: a command runs at most once and never after an acknowledged cancel;
  every task ends exactly once, also across a daemon's death;
- artifacts: no file is collected while its batch is open or its retention runs,
  no directory is lost sight of, and everything else goes in the end;
- hand-off and leases: each app-server has a daemon that will stop it, a redirect
  leads to it, it is not stopped in use, and it is stopped when nobody uses it;
- sidecar: the store holds what the sidecar last saw, an idle proof does not
  outlive its sidecar, and what is recorded of a turn is what became of it;
- permissions: a detached turn gets no more than the session started with and no
  more than the thread has now, and moves are audited in the right direction;
- plugin service: one turn per idempotency key, and a lease lasts as long as it
  is held or its turn is observed;
- Desktop: one attempt at a time, charged once, armed under the binding it was
  pended under, and no envelope skipped.

## 2. Modules

| Module | Models | Composition |
|---|---|---|
| `DeliveryState` | the three delivery tables, the shared guards and `UPDATE` statements | base of the next four |
| `BatchQueue` | what enters and leaves the queue | extends `DeliveryState` |
| `CliSessions` | the session protocol | extends `DeliveryState` |
| `CliDelivery` | CLI attempts | extends `DeliveryState` |
| `AppServerDelivery` | app-server attempts | extends `BatchQueue`, `CliDelivery` |
| `DeliveryStore` | the whole delivery core and the sweep; `Spec`, the properties | extends the above |
| `DeliveryQueue` | the abstract promise: a queue that delivers at most once | refined by `DeliveryStore` |
| `DeliveryProofs` | theorems | extends `DeliveryStore` |
| `TaskStore` | the job and task rows and the transactions that decide them | base of the next |
| `TaskSupervisor` | worker, gates, cancel requests, shutdown, crash, recovery; `Spec`, the properties | extends `TaskStore` |
| `BackgroundTask` | the abstract promise: at most one run, one outcome | refined by `TaskSupervisor` |
| `TaskSafetyProofs` | theorems | extend `TaskSupervisor` |
| `AppServers` | app-servers, leases and registries of several daemons, the daemons' exits | base of the next |
| `AppServerHandoff` | coordinators that move app-servers to a generation; `Spec`, the properties | extends `AppServers` |
| `HandoffProofs` | theorems | extends `AppServerHandoff` |
| `PluginAppServer` | the daemon and app-server as the plugin service sees them | extends `AppServerDelivery` |
| `PluginLeases` | connections, the lease broker, the end of the service | extends `PluginAppServer` |
| `PluginDelivery` | enqueue, replay, inspect, manualize; `PluginSpec`, the properties | extends `DeliveryStore`, `PluginLeases` |
| `PluginProofs` | theorems | extends `PluginDelivery`, `DeliveryProofs` |
| `DesktopArm` | installation, binding, the two transitions of a Desktop attempt | base of the next |
| `DesktopRelay` | preflights, markers, rollouts, scans; `Spec`, the properties | extends `DesktopArm` |
| `DesktopProofs` | theorems | extends `DesktopRelay` |
| `ArtifactStore` | copies, rows, directories, sweeps; `Spec`, the properties | |
| `ArtifactProofs` | theorems | extends `ArtifactStore` |
| `SidecarCalls` | the calls of a sidecar, answered or not, with revisions | extends `DeliveryStore` |
| `CliSidecar` | the sidecar with its connection, turns and user; `SidecarSpec`, the properties | extends `SidecarCalls` |
| `CliSidecarProofs` | theorems | extends `CliSidecar`, `DeliveryProofs` |
| `PermissionScopes` | sandboxes, profiles, selections, and when one is within another | base of the next |
| `TurnPermissions` | derivation, capping, override and drift for one answer | extends `PermissionScopes` |
| `SidecarPermissions` | the permissions of a session over its life; `PermissionSpec`, the properties | extends `TurnPermissions` |
| `PermissionProofs` | theorems | extends `SidecarPermissions` |
| `MC...` | instances for TLC | extend the module of that name |

`PROJECT.json` maps every definition to the lines it stands for. Definitions
introduced as "a slip for the mutation runs" are wrong on purpose: replacing a
definition of the model by its slip must break the property named with it in
`PROJECT.json`. No specification uses a slip.

## 3. Delivery core

**State.** `batches`, `attempts` and `sessions` are the tables `batches` (with
the row of `plugin_delivery_requests` as a flag), `delivery_attempts` (adapters
`cli` and `codex_app_server`) and `cli_managed_sessions`. A row not inserted yet
is a record in state `absent`. `clock` is the wall clock, in ticks.

**Actions.** One action per store method, the whole transaction: its early
refusals are the guard (a refused transaction is rolled back, so it is no step),
and what it does to other tables, such as closing the attempts of a batch it
closes or ending the proof of their session, is part of it. A repetition that
finds its work done returns the row unchanged and is a stuttering step, except
where it still changes something (`RejectCliAgain`, `RejectAppServerAgain`). No
order is imposed on the callers: sidecar, plugin driver, operator commands and
maintenance call any method at any time, which includes all of their retries,
crashes and lost answers. `CliSidecar` and `PluginDelivery` compose the same
actions with callers that behave as the code does.

**Time.** Callers read `now` before their transaction begins (`cli.rs` before
an artifact is copied, then up to SQLite's 30 seconds of busy waiting), so an
action uses any time in `Recent`, the last `Lag` ticks. Batches may therefore
enter out of the order of their `created_at`. (The runs have `Lag` 0, to leave
room for both adapters; the theorems hold for every `Lag`.)

**Identifiers.** Batch ids are numbers in the order of the UUIDv7 ids. Those of
jobs are drawn under the write lock, in the order of insertion; those of
plugins before it, in any order.

**Sweep.** `Oldest` is `ORDER BY ... LIMIT`, with ties in any order. The four
loops of one transaction are one simultaneous update; an attempt is in one of
them only, and no two in-flight attempts share a session.

**Abstractions.** The three permission flags of a session are one; an end of a
turn other than completion (failed, interrupted, replaced) is `turn_failed`;
payloads, summaries and texts are left out, and what the strict_safe test says
of them is the flag `detachable`; an app-server attempt has no session.

**The promise.** `DeliveryQueue` has two variables per batch: its status, and
whether it is *exposed*, that is, whether a send not known to have been refused
was ever made. It forbids to send an exposed batch, and to send while another
batch of the thread is in flight. In the mapping (`Queue` in `DeliveryStore`)
a batch is in flight when an attempt on it is, and exposed when one of its
attempts was not rejected before acceptance.

## 4. Task supervisor

**State.** What survives a daemon: `tasks` (the rows of `jobs` and `tasks` of
one task, and the number of batches its job inserted) and `procs` (the process
group: `gated` behind the exec gate script, `live`, `orphans` when the leader is
gone, `gone`). What dies with it: `controls` (`SupervisedTaskControl`: registry
entry, process state, spawn gate, flags), `workers` (the position of the worker
thread and what it knows), `cancels` (one client request at a time per task, and
the part of a shutdown that cancels the task), `recoveries` (the position of
each recovery, the owners it found and the rows it selected). `daemons` is the
life of each daemon.

**Actions.** One action per step between two points at which another thread,
daemon or process can be noticed: each store transaction, each look at or
signal to the process group, each change of a shared flag or lock. Job and task
are closed in two transactions by worker and recovery (`CloseJob`, `FinishRun`;
`FailLostJob`, `FinishLostTask`) and in one by the error path (`Terminalize`).
A cancel request first records the row (`SaveCancel`), then sets the flags
(`FlagCancel`), then signals (`SignalCancel`), holding an intent throughout.
The worker releases the exec gate (`ReleaseGate`) in one step: intents are begun
under the `exec_release_decision` lock that it holds meanwhile.

**Environment.** The command ends at any time with any code, with or without
descendants that live on; a daemon dies at any point (`Crash`); an operating
system or store error ends a worker's step at any point (`WorkerFails`); the
store stays busy for a request (`CancelNotSaved`) or for good (`GiveUp`); an
operator may end the job of a task (`OperatorEndsJob`).

**Abstractions.** SIGTERM by itself changes nothing (whether a command obeys is
up to the environment), SIGKILL ends the group, and a signal reaches a leader
only with the identity that was recorded, so pids are not modelled. The signals
one recovery sends are one step. Spooling of output, result files and the
summary of the batch are left out. The cleanup of a worker that exits before
its start signal cannot be reached and is not modelled.

**The promise.** `BackgroundTask` has the outcome, the command and the recorded
cancellation of a task. It forbids to run a command twice, or after a
cancellation, to change an outcome, to decide it while the command runs, and to
complete a task that never ran. In the mapping the outcome is that of the job,
and a process group behind its gate is idle.

## 5. App-servers and hand-off

**State.** Each daemon has in memory a registry (`servers`: one entry per managed
session, `owned`, `adopted` or `handed_off` with the socket it redirects to), the
thread `reservations`, the thread/start `bootstraps`, and the proofs its reaper
has taken and not handled (`reaping`). `procs` are the app-server processes,
which outlive a daemon; `modes` is the life of each daemon (up, quiescing for a
hand-off, stopping, down). `clients` are lease ids, that is wrappers and plugin
connections, with the request they are in. `coords` are runs of `daemon ensure`
of a newer binary, each on its way to its generation.

**Actions.** A request that takes a lock twice is two steps, with anything in
between: reserve (`ReserveScan`, `ReserveInsert`), ensure (`EnsureSpawn`,
`EnsureRegister`), stop (`StopLookup`, `StopFinish`), reap (`ReapScan`, `Reap`).
The wrapper starts an app-server in three ways: ensure for a known session
(`ResumeRun`), or a foreground bootstrap that is promoted when the thread is
known, or a bootstrap that asks for the thread itself (`AsksThread`,
`ThreadAnswered`, `ThreadFails`) (`NewThreadRun`); both group the requests and
over-approximate their order. A coordinator quiesces the legacy daemon and gets
its exports, starts its generation, has it adopt, has the legacy daemon release,
asks for the status when that got no answer, and takes back with unadopt and
unquiesce. Each request may be refused, lost, or carried out with the answer lost
(`LostAnswers`); the coordinator may die between any two. A daemon starts for the
default socket (`EnsureDefault`) or for a generation (`EnsureOwnGeneration`), and
exits when stopped, idle, or drained by a hand-off.

**Time.** A lease lasts 60 s (an adopted one at least that), the wrapper refreshes
every 20 s and a request takes at most 5 s. So a lease does not lapse while its
holder's refreshes reach it, or will once the hand-off under way is over
(`Reached`); it may lapse at any time otherwise (`Lapse`).

**Abstractions.** The death of a daemon without an exit, the doctor probe (which
spawns and stops in one request), compatibility gates, readiness probes, startup
locks and stale sockets are left out, as are requests that are executed after
their client gave up. `"release"` is not in the `LostAnswers` of the run: with it,
a coordinator whose status request is lost as well leaves an app-server
without a daemon (section 15).

## 6. Plugin service

**State.** A connection (`conns`) is served by one thread, one request at a time;
`holders` is the registry of shared leases behind its lock; `service` is the life
of the service process and the plugin instance it supervises; `server` and `turns`
are the daemon's entry and the app-server's turns as seen from here. The
delivery tables are those of section 3, with the same actions.

**Actions.** ensure registers the connection as a holder first, asks the daemon,
and follows it or rolls back; stop and the clean-up of a closed connection only
let the daemon stop the app-server when the last holder goes. enqueue and its
replays insert the batch, begin the attempt whose id follows from idempotency
key and ordinal, send `turn/start`, accept, and renew the lease; inspect renews
the lease and records how the turn ended. The service shuts down in three steps
(drain the registry, ask for active deliveries, stop) or crashes, and plugins are
restarted. `GivesUp` stands for an error of the store after any step.

**Abstractions.** One lease id, one managed session. The hello is part of every
connection's first request (`MayAsk`). A refusal by the app-server is one step with
the rejection it leads to, and so is an answer to inspect with its record, for an
end is final. What the shutdown or a rolled-back ensure takes away is told apart
from what the daemon cuts (`undone`, `lost`, `cut`), and so is the end of a lease
that the plugin itself made shorter than the delivery's (`short`, a ghost, and
`lapsed`): `WatchedTurnRuns` is about `cut`. The renewal after an acceptance is a
best effort (`LeaseForTurn`), as in the code. The process supervisor (backoff, health), frames, and the redirect of
endpoints are left out. The operator's close is left out of the composition (it
was checked once with it: 1.6 M states, no violation).

## 7. Desktop bridge

**State.** `DesktopArm` has one source thread: its open `batches`, the `attempts` in
order of creation, its `binding` to a caller automation, the `installation`
singleton and the fingerprint of the installed `helper`. `DesktopRelay` adds the
`markers` with their consumption, the `rollouts` (files that may be replaced), the
`scanners` rows with file and cursor, and the `preflights` and `ticks` (scans) under
way.

**Actions.** A preflight sweeps, then materializes an attempt and issues a marker;
the bridge writes an envelope; a scan reconciles and opens the rollout, lists the
markers, reads up to the limit, and for each marker found looks at the lease and
consumes it together with the transition it asks for (`prepared` to `arm_pending`,
`arm_pending` to armed), then advances the cursor if its row is still the one it
read. Scans overlap and die; operators repair, rebind, replace, upgrade, consume
by hand and call the transitions directly; a CLI sidecar uses the same thread.

**Abstractions.** The arm lease is drawn once per attempt and its TTL is that of
arm-pending, so attempt and deadline stand for it. The initial state is an
installation repaired, a thread bound and a scanner bound. Batches are automatic,
safe for Desktop and not a plugin's. A scan handles one bridge; reconcile, expire
and open are one step at its start; the fingerprint is read once per scan; a
replaced rollout is the next file. `binding_revision` is the flag that a row was
overtaken. Retention of seven days is not reached. Not modelled: several source
threads, pauses, published snapshots, the validation fixture, manual issue of
markers, the marker cap (a no-op in a fixed window).

## 8. Artifact store

**State.** `jobs`, the `rows` of artifacts, the `ingests`, the directories `dirs` with
their marker, payload and manifest, `copies` and `sweeps` under way. Times are
ages: a tick makes all of them older up to where it no longer matters, so that
time may pass for ever and liveness is not cut off by a bound. `tried` and
`updated` are the orders by which sweeps page.

**Actions.** A copy inserts its ingest row, opens the directory with a marker,
refreshes it while it copies, renames the payload, writes the manifest, commits
artifact row, job and batch in one transaction, and removes its marker; each step
may fail and undo, or the process may die. A sweep lists expired artifacts, syncs
manifests, removes directories and deletes rows; and lists old ingests, looks
for the artifact row, then at the marker, and removes what seems dead.

**Constants.** `Grace` 1 h, `PostCloseTtl` 72 h and `MinTtl` 24 h in their order only.
`MaxSilence` < `Grace`: a copy that is alive refreshes its marker every 5 s.
`CommitsMeetSweeps` says whether a commit may fall between two looks of a sweep at
the same artifact, `SyncsFail` whether manifests can fail to be written again and
again; both are FALSE in the run and TRUE in the observations of section 15.

## 9. CLI sidecar

**State.** `car.at` is the function the sidecar thread is in (connecting, re-reading
the thread's status, listening, a call under way, sending, observing, over) with
the proof it believes to have given; `wire` is the websocket and its notifications,
`server` and `turns` the app-server, `user` a turn of the user, `revs` the revisions
of the session's proof, `late` the calls that were given up and may still run.

**Actions.** A call is answered (it runs now), times out and is repeated (it may
have run), or is given up and then runs later or never. `Connects` to `Leaves` are
the outer loop, `Polls` takes up the head batch, `Sends` asks for the turn, whose
answer may be success, refusal, failure or silence, `ObservesMessage`, `Reconciles`
and `ReachesDeadline` follow the turn. The user, the app-server, the daemon's
removal of it, the exit and the kill of the foreground, its next start, and the
sweep come between any two steps.

**Abstractions.** The permissions are on the command line here, so none are
refreshed (section 10 has the refresh). Replayed notifications of the request
window, poll interval, first-poll delay, prompt, audit rows and websocket frames
are left out; two invalidations in a row are one; the kind of a refusal is chosen
freely. A stopped app-server makes requested turns refused and running ones failed.

## 10. Permissions

**State.** `thread` is the answer `thread/resume` would give now, `car` the
permissions the sidecar holds (startup, last, effective, a note under way), `store`
the session's row, `audit` the drifts, `turn` what the last `turn/start` was sent
with, next to the answers it was capped by.

**Actions.** The sidecar reads the answer when it connects and before each turn,
derives approval, network and write permission from whichever of sandbox,
profile and selection it may believe, has the store note them (the first
note pins the startup permissions), compares and audits, caps, and starts the
turn with a selection or a sandbox as override, or not at all. Notes get no
answer, are repeated, or run late; proofs are lost; the foreground starts anew.

**Abstractions.** Paths are a small tree. A scope is a path, a special place or a
glob; `Extent` says, for the properties only, which places it covers. Denials win
over grants nested in them. Legacy roots listed beside a profile of project roots
are project roots (`Coherent`, which `ExtentAssumption` states for the proofs).

## 11. Runs

| Run | Question | Instance | Distinct states |
|---|---|---|---|
| `queue` | Are queue, attempts and session consistent in every order of enqueueing, sending, answering, losing the session, expiring, handing over and closing, and does the store implement the at-most-once queue? | 1 plugin and 1 job batch of a thread, both adapters, 2 attempts, 1 session, 3 clock values | 0.1 M |
| `strict_safe` | Does strict_safe hold at each step while permissions change and sessions replace one another? | 2 batches, 1 attempt, 2 sessions, every permission value | 0.5 M |
| `liveness` | Is an unanswered send or an unobserved turn given up? | a CLI and an app-server thread, a sweep that takes one row at a time | 43 k |
| `task` | Do job, task and command agree, whoever ends the task? | 1 task with timeout, 1 daemon, 2 recoveries at a time, an operator, 1 stop or crash | 1.6 M |
| `task_liveness` | Does a cancellation, and a restart, end the task, and is the supervisor the abstract background task? | 1 task, 1 daemon, 1 recovery, 1 stop or crash | 69 k |
| `handoff` | Has an app-server one daemon that will stop it, also when hand-offs fail half-way, and is it stopped when unused and only then? | 1 app-server, 1 wrapper, the legacy daemon, 2 generations with a coordinator each | 0.4 M |
| `handoff_redirect` | Does the wrapper learn where its app-server went? | the same with 1 generation; a violation, section 15 | 3 k |
| `plugin` | Is there one turn per idempotency key, and does the app-server last as long as a turn is held or observed? | 1 delivery, 2 connections of a plugin instance, 2 attempts, 3 clock values | 1.4 M |
| `desktop` | Is an arm charged once, under the binding it was pended under, and no envelope passed over? | 1 thread, 1 batch with 2 deliveries, 2 callers, 2 overlapping scans, 1 repair of the installation | 1.2 M |
| `artifacts` | Is no file collected that is needed, and everything else in the end? | 2 copies of a job, 1 sweep with a page of one row, 1 death of the daemon | 0.3 M |
| `sidecar` | Does the store hold what the sidecar saw, and what became of the turn? | 1 batch, 2 attempts, 2 connections, 1 turn of the user, 1 call executed late | 1.4 M |
| `permissions` | Does a turn ever get more than the session or the thread has? | 25 answers of `thread/read`, 2 command lines, 1 change, 1 late note, 2 epochs | 0.4 M |

Properties, by what they exclude:

- `OneInFlight`, `AtMostOneDispatch`, `AmbiguityIsManual`, `RefinesQueue`: two
  turns for one batch, or two deliveries at once, by any mixture of retries;
- `ClosedBatchQuiet`, `NoRevival`: attempt and batch that disagree on the end,
  also for answers that come late;
- `BudgetAccounting`: a charge that is missed or made twice between accept,
  reject, its repetition, and the sweep;
- `ProofUsedOnce`, `StrictSafeHonoured`: a proof or a permission that is stale
  when it is used;
- `InFlightOutlivesWindow`: a window that ends under a delivery;
- `OutcomeAgrees`: worker, error path, recoveries and operator that close the two
  rows of a task together and disagree;
- `NoRunAfterCancel`, `RunsOnRecord`, `NoOrphanedCommand`, `KeepsPromise`: a
  command that runs after its cancellation, without a record, after the end of
  its task, or twice;
- `CancelledWasAsked`: an end that nobody asked for;
- `RedirectLeads`, `NoStray`, `KeptServerStays`: an app-server that a half-done
  hand-off, a stop, or a reaper racing an ensure leaves to nobody or takes away;
- `OneTurnPerDelivery`, `WatchedTurnRuns`, `HolderKeepsServer`: a replay that
  starts a second turn, a lease that ends under the turn it was made for, or a
  connection whose end takes the lease of another;
- `OneAttemptInFlight`, `EachArmCountedOnce`, `ArmedAsPended`, `NothingSkipped`: a
  Desktop attempt armed under another installation, or twice, and an envelope
  that a cursor passes because two scans of one rollout overlap;
- `KeptWhileNeeded`, `NoOrphanDir`: a sweep that meets a copy, a commit, or the
  row of a daemon that died;
- `ProofMatches`, `DroppedIsCleared`: a proof of an idle thread that is newer or
  older than what the sidecar saw, or that outlives it;
- `RejectedNeverRan`, `DeliveredMeansCompleted`: an answer or a notification
  that is booked on the wrong turn or is read as more than it says;
- `NeverWider`, `DriftIsAudited`, `StartupKept`: a permission that widens in one
  of four dimensions while it narrows in another, or because the store, the
  sidecar and the thread know different versions of it;
- `AttemptsResolve`, `CancelResolves`, `LostResolves`, `AbandonedIsReaped`,
  `Collected`: something that nobody ever ends.

**Bounds, and why they suffice.** Clocks run for one or two ticks, and windows
and timeouts are as short as their order allows, since only that order matters:
the clock runs long enough for a send to time out, its batch to be handed over
and its manual window to end. Two batches are enough for an overtaking, two
attempts for a retry, two sessions for a replacement, and two epochs or
connections for what is left over from the one before. One stop or crash of the
task supervisor is met by two recoveries, so that each finds what the other left
half done. `SweepLimit` 1 and `PageLimit` 1 make the page limits bite.

- `handoff`: one app-server with one lease is enough for a hand-off against every
  other request. Two coordinators with generations of their own make the second
  one find what a first one left half done. `LostAnswers` names the requests
  whose answer may be lost.
- `plugin`: the turn is observed for one tick, calls take up to one, and the lease
  of a delivery is the sum, as in the code: 240 s of observation, 60 s of headroom,
  300 s of lease (`service.rs` 67-77). The plugin's own leases are shorter
  (`PluginTtls`), as its default of 60 s is. Two connections are enough for a
  replay while the first is under way, and for a shared lease.
- `desktop`: with two bindings TLC explored 0.9 M states once, without a
  violation, but not within the time of a run. The redelivery window is longer
  than the clock runs, so it does not end.
- `artifacts`: one sweep; two at a time, checked once for the two invariants
  (3.0 M states), add nothing. Deadlock is checked here: every file is collected
  at the end or may still be.
- `sidecar`: `LateKinds` names the calls that may be given up and executed later:
  the two that matter, a report of activity and a begin. Larger instances were
  explored once, without a violation: two late calls and two notifications
  under way (4.1 M states), and all of this with the batch closed from outside
  (4.6 M).
- `permissions`: the 25 answers are one for each way an answer can be read. With
  309 answers and 4 command lines (4.7 M states), and with 68 answers and one
  more epoch (3.0 M), nothing else was found.

Elsewhere deadlock is not checked: the clock, identifiers and stops of an
instance are used up at some point, and a task that ended stays so. Attempts,
sessions, bridges, scans and connections are symmetric in the safety runs that
say so; no liveness run uses symmetry. `KeepsPromise` is checked without operator
calls, for `job complete` is accepted while the command still runs.

## 12. Fairness

`DeliveryStore!FairSpec`: weak fairness of `Sweep` and of time. The maintenance
thread of the daemon (`daemon.rs` 3107-3169) sweeps periodically, and a daemon
sweeps when it starts (753-760). No caller is fair: a sidecar or a driver may
have died with everything it knew.

`TaskSupervisor!FairSpec`: weak fairness of the next step of a worker thread, of
a request already begun, of a recovery under way and of the exit of a daemon
that shuts down, whose waits are all bounded by timeouts; a recovery is begun by
the maintenance thread. Strong fairness of getting the spawn gate: other holders
take the mutex for the length of one transaction each, and it is assumed that
the worker is not passed over for ever. Nothing is assumed of commands (which
may ignore SIGTERM for ever), of errors, of requests, or of the start of a
daemon; the liveness properties of tasks therefore end in "or its owner is down".

`AppServerHandoff!FairSpec`: weak fairness of the lapse of a lease that nobody
refreshes, of the reaper's scan and of what it does with what it found, and of
the stop of the app-servers by a daemon that exits. Wrappers and coordinators are
not fair. `AbandonedIsReaped` is about app-servers that a live daemon knows.

`ArtifactStore!FairSpec`: weak fairness of time, of a sweep that was begun and of
the next one, and of a copy under way (which may fail). A daemon that died is
started again only by what runs next.

The other specifications state no fairness and have no liveness properties.

## 13. Proofs

For every value of the constants that satisfies the named assumptions of the
modules proved about (`BatchAssumption`, `NoSessionAssumption`,
`ThreadAssumption`, `TimeAssumption`, `BoundAssumption`, `BudgetAssumption`,
`PluginBatchAssumption`, `InputAssumption`; `NoDaemonAssumption`,
`DaemonAssumption`, `TaskAssumption`; `PathAssumption`,
`SidecarPermissionsAssumption`, `ExtentAssumption`; `ArtifactAssumption`; `AppServersAssumption`,
`HandoffAssumption`; `PluginAssumption`, `ConnAssumption`,
`PluginTimeAssumption`; `ArmAssumption`, `RelayAssumption`; `SidecarAssumption`,
`SidecarBoundAssumption`): these say that the constants have their types, that
`NoSession`, `NoDaemon`, `NoClient` and `NoProc` are none of what they stand in
for, that a coordinator's generation is not the legacy daemon, that the id of a
plugin's attempt names its batch and every batch has a first one, that a sidecar may
begin a `trusted_all` delivery, that a manual window is longer than nothing, and
what scopes stand for: "root" for everything, a path for all below it, and the
roots listed beside a profile of project roots for places of that profile. TLC
evaluates each of them in the runs. Every safety property and both refinements
that the passing runs check are also proved, seven of them under hypotheses that
the code does not ensure by itself; each of these is named in the theorem, and
section 15 says what goes wrong without it.

| Theorem | Property | Argument |
|---|---|---|
| `DeliveryProofs!TypeCorrect` | `TypeOK` | inductive, with one lemma per shared update |
| `DeliveryProofs!OneInFlightHolds`, `ClosedBatchQuietHolds`, `AmbiguityIsManualHolds`, `AtMostOneDispatchHolds` | the four of that name | `TableInv` |
| `DeliveryProofs!StoreRefinesQueue` | `RefinesQueue` | `TableInv`, step by step |
| `DeliveryProofs!FinishedStaysFinished`, `InFlightIsNotSwept` | `NoRevival`, `InFlightOutlivesWindow` | `Quiet`, of each step |
| `DeliveryProofs!ProofUsedOnceHolds`, `BudgetAccountingHolds`, `StrictSafeHolds` | `ProofUsedOnce`, `BudgetAccounting`, `StrictSafeHonoured` | `TableInv` and `Hist` |
| `TaskSafetyProofs!TypeCorrect` | `TypeOK` | `TypeInv` |
| `TaskSafetyProofs!OutcomeAgreesAlways`, `OneBatchPerJobAlways` | the two of that name | `TypeInv` and `CloseInv` |
| `TaskSafetyProofs!EndIsFinal` | rows of an ended task stay as they are | the same |
| `TaskSafetyProofs!RunsOnRecordAlways`, `NeverRunAfterCancel` | `RunsOnRecord`, `NoRunAfterCancel` | `TypeInv` and `RunInv` |
| `TaskSafetyProofs!CancelledWasAskedAlways` | `CancelledWasAsked` | `TypeInv` and `AskedInv` |
| `TaskSafetyProofs!SoleOwnerLeavesNoOrphan` | `NoOrphanedCommand` of tasks whose owner is in `SoleOwner` | `OrphanInv` |
| `TaskSafetyProofs!NoOrphanedCommandAlways` | `NoOrphanedCommand`, if `Daemon \subseteq SoleOwner` | `OrphanInv` |
| `TaskSafetyProofs!KeepsPromiseAlways` | `KeepsPromise`, if `Daemon \subseteq SoleOwner` and `OperatorCalls = {}` | `AskedInv`, `OrphanInv`, `CodeInv`, step by step |
| `ArtifactProofs!TypeCorrect` | types | `TypeInv` |
| `ArtifactProofs!KeptWhileNeededAlways` | `KeptWhileNeeded`, if `~CommitsMeetSweeps` | `TypeInv` and `ArtifactFine` |
| `ArtifactProofs!NoOrphanDirAlways` | `NoOrphanDir`, if `~SyncsFail` | `TypeInv` and `ArtifactFine` |
| `HandoffProofs!TypeCorrect` | `TypeOK` | `TypeInv` |
| `HandoffProofs!KeptServerStaysAlways` | `KeptServerStays` | `TypeInv`: `OneLease` |
| `HandoffProofs!NoStrayAlways` | `NoStray`, if `ReleasesAnswered` and `OneEach` | `TypeInv`, `HandInv`, `NoneStrays` |
| `HandoffProofs!RedirectLeadsAlways` | `RedirectLeads`, if `ReleasesAnswered` and `OneEach` | the same |
| `PluginProofs!PluginUsesStore` | `PluginSpec` implies the store's `Spec` | `PluginType` |
| `PluginProofs!PluginRefinesQueue` | `RefinesQueue`, of `PluginSpec` | the one before, and `StoreRefinesQueue` |
| `PluginProofs!OneTurnPerDeliveryAlways` | `OneTurnPerDelivery` | `PluginInv`: `TurnInv`, `TableInv` |
| `PluginProofs!CutOnlyByExpiryAlways` | `CutOnlyByExpiry` of each step | `PluginInv`: `QuietWhenClosed` |
| `PluginProofs!WatchedTurnRunsAlways` | `WatchedTurnRuns`, if `CallTime + ObservationWindow <= DeliveryTtl` | `PluginInv` and `LeaseInv` |
| `PluginProofs!HolderKeepsServerAlways` | `HolderKeepsServer` | `HolderInv` |
| `DesktopProofs!TypeCorrect` | `TypeOK` | `Inv` |
| `DesktopProofs!OneAttemptInFlightAlways`, `EachArmCountedOnceAlways` | the two of that name | `Inv`: `TableInv` |
| `DesktopProofs!HandedOverOnceAlways` | what was handed to Desktop is not attempted again | `Inv`: `TableInv` |
| `DesktopProofs!ArmedAsPendedAlways` | `ArmedAsPended` | `Inv`: `MarkerInv` |
| `DesktopProofs!NothingSkippedAlways` | `NothingSkipped` | `Inv`: `ScanInv` |
| `CliSidecarProofs!SidecarTypeCorrect` | `SidecarTypeOK` | `SidecarInv`: `Typed` |
| `CliSidecarProofs!SidecarUsesStore` | every step is one of `DeliveryStore!Next` | `Typed` |
| `CliSidecarProofs!SidecarMovesQueue` | every step is one of `DeliveryQueue` | the one before, and `RefinementStep` |
| `CliSidecarProofs!RejectedNeverRanAlways` | `RejectedNeverRan` | `SidecarInv`: `TurnInv`, `TableInv` |
| `CliSidecarProofs!DeliveredMeansCompletedAlways` | `DeliveredMeansCompleted` | `SidecarInv`: `CompletedInv` |
| `CliSidecarProofs!DroppedIsClearedAlways` | `DroppedIsCleared` | `SidecarInv`: `EpochInv`, `DropInv` |
| `CliSidecarProofs!ProofMatchesAlways` | `ProofMatches` | `SidecarInv`: `MatchInv` |
| `PermissionProofs!TypeCorrect` | `PermissionTypeOK` | `TypeInv` |
| `PermissionProofs!StartupKeptAlways` | `StartupKept` | `PinInv` |
| `PermissionProofs!NeverWiderAlways` | `NeverWider` | `CapInv`, `OverridesAreNarrower` |
| `PermissionProofs!DriftIsAuditedAlways` | `DriftIsAudited` | `CapInv`, `DriftFacts` |

**Delivery.** None of the four is inductive alone. A retry may be begun because
the earlier attempts of its batch are not in flight (or the thread would be
taken), not closed (or the batch would be, `ClosedTogether`) and not abandoned
with an unknown outcome (or the batch would not be automatic, `UnknownIsManual`):
so all of them were refused, which is `OneExposure`. `TableInv` joins these with
`Linked`, `QuietWhenClosed` and `OnePerThread`. The proof names the few ways a
step may change the two tables, shows that each keeps `TableInv`, and then that
every action is one of them.

**Delivery, refinement.** The abstract queue moves one batch at a time, except
for maintenance, which hands over or drops any set of them. A transaction of the
store is shown to leave each batch in place, hand it over (`HandsOver`), or be
the one that moves it. A sweep does several of these in one step; they do not
collide, because a batch it hands over stays open for its manual window, and one
with an attempt in flight is not closed. That a send starts from an idle thread
and a batch never exposed is `TableInv` again.

**Delivery, history.** `Quiet` says what a step may close: nothing, or what
closes with its batch because the operator or a completed turn closes it. This
gives `NoRevival` and `InFlightOutlivesWindow` without any invariant. The other
three need one, since a proof used twice is only visible when the second attempt
begins. `Hist` says of a CLI attempt that its session belongs to the thread of
its batch and that, once it is not in flight, the proof it rested on is past:
the session has a later epoch or its proof is gone. So an attempt begun
under the current epoch cannot share its proof with an earlier one, and a
strict_safe attempt in flight still has the session it was checked against. The
budget is kept with it, for the same case distinction serves: each step begins
an attempt, charges one, or does neither (`Step`).

**Tasks, types.** `TypeOK` alone is not inductive: the worker's result must be
one when it closes the job, and a recovery's current task must be one it has
seen as lost. `TypeInv` adds that, and that job and task exist together.

**Tasks, outcome.** Between the two transactions of worker or recovery, anybody
else may come in. `CloseInv` says that a decided job stays what it is, so what
is still to be written to the task row agrees with it (`WorkerCloses`,
`RecoveryCloses`), that rows are good at any time (`RowsFine`), and that a task
not created has no rows (`Fresh`).

**Tasks, cancellation.** The worker does not read the record back before it
opens the gate, so the record must be visible in memory: `CancelKnown` says that
whenever a cancellation is on record and the command may still be let run, the
flag is set, or the request that is about to set it still holds its intent. That needs `Hosted` (a worker
before the release is in the registry of its daemon, so no other daemon records
a cancellation), `HostsUp` (that daemon is alive) and `Recorded` (the pid is
written before the gate opens). `RunInv` joins them.

The other way round, `CancelledWasAsked`: a task that ends as cancelled was asked
to. `AskedInv` follows what is heard of a cancellation (the flag, the intent, the
reason in the worker's hands, what a recovery read in the row) back to a request
or a shutdown that asked for it.

**Tasks, ended commands.** A recovery chooses owners to signal their commands, and
chooses again to write their tasks off. `SoleOwner` are the daemons for which the
two choices cannot differ, because no other daemon recovers for them: the one of
the default socket always, and any whose version is the only one. `OrphanInv` is
about their tasks. A recovery has its own daemon among its owners, and of
`SoleOwner` no other (`OwnersChosen`); what it selected is of its owners
(`OwnersSeen`) and, since it has signalled, what still runs of them is registered
(`Signalled`), so what it writes off is stopped. This survives the end of the
daemon, which forgets its recoveries with its registry, and a late `ReleaseGate`,
for that one is registered. Everybody else who ends a task holds its worker, which
is not waiting any more (`RunsInHand`); so a task is open until its worker waits,
and not ended while its command runs (`NotEndedEarly`). The invariant was checked
by TLC with one daemon, two of one version and two of different versions before
it was proved; tasks of the second daemon of another version are left out of it,
for they can be orphaned.

**Tasks, refinement.** `CodeInv` adds what a worker that reaped its command knows:
the group is gone, and "succeeded" means exit status zero. Then every step is one
of `BackgroundTask` or none. A step that writes rows writes those of one task
(`WritersStep`, `WritesOneRow`) and leaves processes alone, and what it does to
job and cancellation is one of a few things (`TransactionEffects`). A step that
leaves rows alone stops any number of commands (a recovery, `StopAll`), or lets
one run: pending by `NotEndedEarly`, not cancelled by `CancelKnown`.

**Artifacts.** A sweep collects what it found old and unused a while before; a
copy writes its directory before there is a row. `ArtifactFine` says, of one
artifact at a time, what a copy under way and a sweep that has it in hand may
still do: a row with an open batch was never collected, a marker stands for a
directory without a row, and a directory without either belongs to a copy. It is
kept by each step of copies, sweeps, pages and deaths (one lemma per step), with
two cases left out by hypothesis: a commit of a copy older than the grace period
in the hands of a sweep, and a removal that is counted but not synced.

**Hand-off, leases.** `OneLease`: a process is started for one lease, and stays
with it, according to the registries of all daemons, the bootstraps, the clients
and the exports of all coordinators. So nobody stops the server of a holder for
that of somebody else, and `KeptServerStays` follows, without any hypothesis,
for every step.

**Hand-off, custody.** That no server runs on its own, and that redirects lead to
it, is about what a coordinator may still take back. `Settled(d)`: all
coordinators that move servers to `d` have ended. `HandFine`: what a coordinator
exported and still runs is owned by the legacy daemon or has been adopted for
good by another, settled generation; so its own rollback never removes the last
entry. `RedirectFine`: what is handed off has been adopted by a settled
generation. `NoneStrays`: a registry, a bootstrap or a request that is being
served holds every process that runs. Most steps are `Calm`, they leave the
entries of running servers with their daemons, and one lemma covers them; adopt,
release and unadopt have their own. The step of a release needs that its answer
arrives (or the coordinator, unsure, may take back what is given away), and the
step of a rollback that no other coordinator relies on the same generation.

**Desktop, tables and markers.** `TableInv` keeps with the counters that an
attempt which is not yet armed or accepted is not yet charged (`NotYetCharged`)
and that the budget a CLI attempt began with is still there when it is accepted
(`Affordable`: nobody else is busy, and only busy attempts are charged).
`HandedOverOnce` is a property of its own, stated next to its theorem and in no
run: after a hand-over the batch has an attempt in cooldown as long as it is open,
so nothing is begun on it (`StaysHandedOver`); and before it, the attempt to be
armed is the last one of its batch, as an attempt begins only when none is in
flight and one that has ended never is again (`BusyIsLast`).
`MarkerInv`: an arm_accepted marker follows on an arm_pending marker that ended
well, for the same attempt and bound alike (`PendedBefore`). What a marker says
and that it ended well never change (`MarkersAge`), so the binding that the relay
compares when it arms is the one it pended under.

**Desktop, scans.** `ScannerInv`: no marker that can be consumed has a line
between the place a scanner was bound at and its cursor. It stays so while
nobody writes the row, since lines are only added, a line carries a marker that
exists, and a marker that cannot be consumed never can again (`CoveredStays`). A
scan moves the cursor over what it read, so `TickInv` says of a scan under way:
the row it holds is the current one or it has been overtaken, and, once it has
listed the markers, all that can be consumed and has a line in what it reads is
still in `todo`. It takes the time before it lists the markers, so it lists at
least what can be consumed; and it leaves `todo` only with markers that ended.

**Plugin service, turns.** `PluginType` says which attempt a request under way is
about, so each step of the service is one of the store (`PluginUsesStore`) and
`TableInv` is kept. What a step means for turns and lease is one of six things
(`Kinds`): an attempt is begun, its turn started, refused or accepted by the
connection that does so, time passes, or the step goes on around all of them
(`Around`: most of them). `TurnInv`: only plugins' own attempts are there
(`PluginRows`), an attempt has one sender, it may be sent while no turn was started
for it, and an attempt with a turn is never recorded as refused. So no attempt
starts two turns, and two attempts of one batch with a turn would both be
exposed, which `OneExposure` excludes.

**Plugin service, leases.** A step may cut a turn only if no delivery is active or
the lease has run out (`MayCut`); an active attempt's batch is open
(`QuietWhenClosed`), so a delivery that counts is always seen
(`CutOnlyByExpiryAlways`, without any hypothesis). `LeaseInv` adds the times: a
lease that the plugin did not shorten outlasts each request under way by
`DeliveryTtl` from its start, and an observed turn up to its deadline, for the
acceptance comes within `CallTime` of the renewal. The turn of an acceptance
not yet recorded was not cut either (`AcceptingRuns`). The renewal after the
acceptance is not needed for this, and in the code it may fail. `HolderInv`: who
has a lease is in the registry, from before the daemon is asked until it lets go.

**Sidecar, the store under it.** Each call that is answered or executed late, each
report and each step of the daemon is an operation of the store with parameters
of their types, so `SidecarUsesStore` holds and `TableInv` is kept. What such a
step makes of the session of the sidecar is one of three things (`SessionStep`):
its proof, epoch and revisions stay (`Holds`), they are cleared and the epoch has
grown or the session is parked (`Clears`), or one call has advanced them by one
revision (`Carries`). Rows move by the rules of `RowMoves`, where only the call in
question refuses an attempt or delivers a batch.

**Sidecar, turns.** `TurnInv` says when a turn may have been sent: not before the
sidecar has left "sending", and not at all for an attempt it is about to reject or
has asked to reject in a call given up. With at most one attempt per batch that
was not rejected (`OneExposure` of `TableInv`) a batch runs once. `CompletedInv`
follows a completion from the turn over the notification and the report to the
store; notifications name their turn, so those of other turns do not count.

**Sidecar, proofs.** No call of an epoch that was left can be executed, so the
question is what is still to come in the epoch of the session. `EpochInv`: the
sidecar is never ahead of the session, and no call given up is ahead of a sidecar
that runs. `DropInv`: when the sidecar has nothing proved, the store is clear and
every call still to come is of an older epoch, for the invalidation that the
sidecar waited for has raised the epoch or parked the session. `MatchInv`: in the
same epoch, a call still to come is at most one revision ahead of what the sidecar
has had confirmed, and not ahead at all once that kind has been confirmed and the
sidecar listens; so the store takes it only as what it already has, or not at all.

**Permissions.** `StartupKept` compares the pin before and after a step, and a
sidecar that reconnects takes over what the store has. That keeps the pin only
because the two agreed (`Agree`), and because a note under way from a sidecar
that has its startup permissions does not carry any (`NotesOnce`); a late note
from before may, but finds the pin taken. `PinInv` joins both with the types.

`NeverWider` needs two arguments. The first is about the comparisons alone.
`ScopeWithin` accepts a scope only if each name in it is covered, and a covered
name stands for covered places (`WithinIsNarrower`); a sandbox that a profile
falls back to is no wider than the profile, if it reads everything
(`FallbackIsNarrower`: with a restricted access it might read the platform's
defaults, which `CoversReadAccess` does not compare, but no turn can be started
with such a sandbox); a pinned sandbox is no wider than the two it is made from
(`PinnedIsNarrower`); a selection that matches the thread's profile is no wider
than it, nor than the startup's (`SelectedIsNarrower`, which rests on an external
profile never matching a selection, for it lists no scope to read). Together:
`OverridesAreNarrower`, for any two answers that are believed. The second is
`CapInv`, about the steps: when a turn is started, what the sidecar goes by was
derived from the pinned answer and from the one recorded last. The same invariant
says that their difference, if any, was audited when the last one was read, and
`DriftFacts` that a direction other than mixed or changed holds of each dimension.

## 14. Only model-checked

- Liveness, out of this prover's reach: `AttemptsResolve`, `CancelResolves`,
  `LostResolves`, `AbandonedIsReaped`, `Collected`.

What the theorems with a hypothesis leave out is model-checked only in so far as
section 15 says what goes wrong there. In particular `NoOrphanedCommand` and
`KeepsPromise` are checked with one daemon, and proved for any number that do not
recover for each other. An operator who closes the job of a running task decides
its outcome while the command runs, as `cbth job complete` is meant to; this is
why `KeepsPromise` is about supervisors without such calls. `OutcomeAgrees`,
`NoOrphanedCommand` and the other theorems about tasks allow for them.

## 15. Findings and observations

**Finding** (`handoff_redirect`, `daemon.rs` 931). A daemon that quiesces after a
hand-off exits at its next idle poll, for `handoff_drain_is_complete` does not
count `handed_off` entries. The wrapper refreshes every 20 s, does not find it,
ignores that, and asks the same socket for ever; the adopted lease ends after
60 s, and the generation stops an app-server in use.
`plans/DAEMON_UPGRADE_SAFETY.md` 96 says that the record of the redirect stays
for the refresh, and 126 that the foreground survives the hand-off.

**Observations**, met while modelling; each was reproduced with the model as
described, or read in the code, and is not a run of its own.

Delivery and tasks:

- `store.rs` 910: `created_at` is the caller's clock before it copied the
  artifact, so with `Lag` 1 a batch overtakes the head of its thread, also while
  the head is delivered; `SHARED_CORE_ARCHITECTURE.md` 496 promises a FIFO queue.
- `store.rs` 6023: a turn that the sweep had given up is still closed as
  delivered when its completion is reported late. `SHARED_CORE_ARCHITECTURE.md`
  823-825 says that it never is; the sidecar design (line 623) allows it.
- `daemon.rs` 3247: recovery probes for dead owners once for the groups it
  signals and again for the rows it writes off; a generation that dies in between
  leaves a command that runs and that nobody looks for again
  (`plans/DAEMON_UPGRADE_SAFETY.md` 41). With a second daemon of another version
  `NoOrphanedCommand` fails for the tasks of the one that is not the default; for
  all others it is proved.
- `daemon.rs` 755: a starting daemon writes off the task of a generation that
  came back after it was found dead (the same, line 40).
- `daemon.rs` 4242: a cancellation on record before the exit is observed does not
  make the task cancelled, when the command ends before it is signalled
  (`design/CLI_TASK_SUPERVISOR_DESIGN.md` 118).

Hand-off and plugin:

- `daemon.rs` 1489: the rollback assumes that it undoes its own hand-off. With two
  coordinators of one generation, or when the answers to release and to the
  status request after it are both lost, it leaves an app-server that no daemon
  knows: `NoStray` fails.
- `service.rs` 1097: the shutdown asks for the active deliveries before it locks
  the registry, so a delivery enqueued in between loses its lease.
- `daemon.rs` 5713: the daemon accepts a shorter lease from the plugin than the
  observation of its turn takes, and 60 s is the plugin's default (`service.rs`
  74): its own refresh or ensure during the observation ends the app-server, and
  with it the turn, early. The model calls such a turn `lapsed`.
- `service.rs` 67: the headroom of the lease is 60 s. Between the renewal and the
  acceptance the service may connect (10 s), initialize (10 s) and wait for the
  answer to `turn/start` (60 s), and the renewal after the acceptance may fail
  (2662): then the lease ends up to 20 s before the deadline of the turn. This is
  the case that the hypothesis of `WatchedTurnRunsAlways` excludes.

Artifacts and Desktop:

- `store.rs` 4276: a sweep looks at the rows of jobs and then removes the
  directory; a commit in between is not excluded by the store itself, only by how
  long a copy takes (`Grace`). With `CommitsMeetSweeps` `KeptWhileNeeded` fails
  (`SHARED_CORE_ARCHITECTURE.md` 1105).
- `store.rs` 4353: a directory removed but not synced is counted as gone; with
  `SyncsFail` and two sweeps `NoOrphanDir` fails.
- Nothing in the code ends the cooldown of a Desktop attempt, not even the end of
  the delivery window, as the sweep spares batches with an attempt in cooldown
  (`store.rs` 6574). The batch stays the head of its thread until an operator
  closes it. `design/SHARED_CORE_ARCHITECTURE.md` 1189 plans a fresh attempt after
  `cooldown_until`, a column that does not exist. `HandedOverOnce` rests on this.
- Nothing sets `armed_generation_quiesced_at`, so after one arm a thread takes no
  other as fresh; and `already_armed` is asked per batch (`store.rs` 7498), while
  `design/DESKTOP_BRIDGE_FOUNDATION.md` 161 describes it per generation of the
  thread.

Sidecar and permissions:

- `cli.rs` 7740, 8884, 9113: after its proof is invalidated, or a begin is refused,
  the sidecar does not resynchronise; automatic delivery stays off until it
  connects again.
- A begin executed after the clean-up it provoked has failed leaves an attempt
  that was never sent, which the sweep then makes manual. This is safe, but an
  operator has to deliver by hand what was not delivered at all.
- An explicit `--session-allows-network true` lets a pinned sandbox have a network
  that its thread has not (`DESIGN_OVERVIEW.en-GB.md` 69).
- `store.rs` 1545, 1621: `note_permissions` carries no revision of the client, so
  a late note overwrites a newer one. The begin compares with what the sidecar
  last noted, so the delivery is refused, not widened. The same holds when the
  first note is executed but not answered.

Store:

- `store.rs` 4554-5257: the schema is migrated statement by statement outside a
  transaction; two binaries that start at once both find a column missing, and
  only a busy database is retried (174-194).

## 16. Not modelled

- Self update, paths, data types, entry points and command parsing: no state that
  two parties share, or none of their own. The filter of arguments for the
  foreground (`cli.rs` 4209, 4674) is pure parsing.
- The start of a daemon: locks, stale sockets, compatibility gates, the doctor
  probe, readiness.
- The supervisor of plugin processes, the frames of its protocol, and the
  redirect of its endpoint after a hand-off.
- Desktop: several threads at a time, pauses, published snapshots, retention, the
  validation fixture, markers issued by hand.
- The delivery of a job's batch composed with the task that inserts it, task-log
  directories, the import of rows of another generation's store, and the
  migration of the schema.
- `RejectCliAgain` (`store.rs` 5849) and the window in which a reservation is held
  (`daemon.rs` 5480) are in the models without a property of their own.

## 17. Plan

In order of importance:

1. the start of daemons and generations: lock, socket, compatibility and doctor,
   with crashes, composed with `AppServerHandoff`;
2. `TaskSupervisor` composed with `DeliveryStore`: the batch of a job;
3. the supervisor of plugin processes;
4. several threads of one Desktop installation.
