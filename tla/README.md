# PocketStream Desktop: TLA+ models and proofs

PocketStream Desktop is a Tauri application that finds a camera on a wired
adapter, plays its stream and re-streams it over RTSP or SRT.  Its Rust back end
(`src/src-tauri/src`) is a set of long-lived owners that run as async tasks, GLib
threads and native child processes.  These modules describe the parts whose
correctness depends on how those actors interleave, fail and restart.

## 1. Inventory

| Component (source) | State it keeps | Operations | What is hard, and what correct means |
| --- | --- | --- | --- |
| `LocalExecutor` (`network/local_executor.rs`) | phase, retained completion, current worker, shutdown flag, `Notify` | submit, submit_managed, reconcile, finish, acknowledge, wait, shutdown | cancellation, panics, waits under a lock. One native writer at a time; an abandoned or uncertain operation keeps the barrier; nobody sleeps for ever |
| Native scope (`network/native_operations.rs`) | per-transaction `ScopeState` | request, execute, record, finish, startup_reconcile | several native steps, any may fail or be uncertain. Once the machine's state is in doubt nothing but recovery writes |
| Relay health (`streaming/relay.rs`) | one record per generation: state, instance, data generation, deadlines, first fault, attempt | 20 methods called by callbacks, supervisor, service | stale callbacks, deadlines at their boundary. A fault is reported once and never lost |
| `RelayService` (`streaming/relay_service.rs`) | epoch, generation, desired/spec/health/server slot, firewall lease, two gates, event queue | Start, Stop, Apply, Switch, supervisor recovery, topology callback | intents supersede each other between locks. Every listener has somebody who shuts it down, nothing is open without its owner |
| RTSP listener (`streaming/rtsp_server.rs`) | loop thread, sessions, runtime probe | media callbacks, upstream guard, shutdown with a 3 s bound | callbacks on GLib threads, leaked loops. Retired media cannot revive a relay |
| SRT listener, caller registry (`srt_server.rs`, `caller_registry.rs`) | bus thread, stop flag, pending and active callers | start, connecting, added, removed, shutdown | the limit, reservations that expire, a thread that comes up late. Slots are earned; an unasked end is noticed |
| `PlaybackService` (`playback.rs`, `rtsp_client.rs`) | intent/instance epochs, pipeline, recording slot, health | start, stop, retry, record, supervisor step | Stop advances the epoch before it has the state; recording rollback |
| UDP admission (`state.rs`, `udp.rs`) | the common mutex | lock_for_start, guard_relay | two owners want one port |
| `VideoSurface` (`video_surface.rs`) | window handle and generation | create, release, reposition, set_visible | queued main-thread work, reused handles. Destruction hits its own window only |
| Firewall (`network/firewall.rs`) | rule generation | apply, retire | a rule must not outlive its listener |
| Bindings, watcher (`bindings.rs`, `watcher.rs`) | topology revision, dirty flag | observe, poll, retry | an observation that fails must be retried without a further change |
| `NetworkManager` (`network/mod.rs`) | `discovery_op` lifecycle lock | mode, select, start, stop, refresh, cleanup | lock order, five-second bounds |
| `BindingStore`, manual addresses (`binding_store.rs`, `manual_address.rs`) | durable rows, tombstones, temporary addresses, live routes, address pause | reconcile, publish, claim, address_operation | a crash between the native write and the save; one time-out over three locks. No address on an adapter that the file does not answer for |
| `DiscoverySession`, adopt loop (`discovery_session.rs`, `adopt_loop.rs`, `auto_adopt.rs`) | session, adopter, scratch address | start, stop, probe, adopt, hand over | work of an old session acting in a new one |
| `CaptureSession` (`capture_session.rs`, `arp.rs`) | listener, incarnation flag, parked joins, watchdog | ensure, resume, stop, restart | two sessions with one fixed name, threads that wedge |
| `AdapterSelector`, presence (`adapter_selector.rs`, `presence.rs`) | selection, down-hold, proofs | select, observe_link, tick | consumers act on an older adapter |
| `DeviceRegistry`, readiness (`device_registry.rs`, `readiness.rs`) | device records with evidence | merge_*, expire, remember, camera_path_now | a fence checked before the state it protects changes |
| Configuration (`config.rs`) | settings and caches in memory and on disk, key file | narrow writers, commit, load | memory and disk after a failed save; concurrent saves; a secret that outlives its key |
| Host ownership (`host_owner.rs`, `entry.rs`, `native_runner.rs`, `installer/transaction.nsh`) | two named mutexes, guard threads | acquire, drop, run a child, install | processes racing, a thread that answers late |
| Composition (`lib.rs`, `entry.rs`), commands, renderer | none of their own | start-up and exit order | time-outs in the exit sequence |

The parts interact as follows.  Commands call `NetworkManager` and the streaming
services.  Every native write (addresses, modes, firewall rules) goes through the
one `LocalExecutor`.  `RelayService` asks `bindings` for a scope, asks the
executor to open a firewall rule and then builds a listener; the listener's
callbacks write the health record and enqueue events; the supervisor consumes
them and rebuilds; the watcher calls `binding_topology_changed` when the topology
revision moves.  Playback and relay share one state mutex for UDP admission.
Address work, discovery and selection exclude each other by `discovery_op`, write
their intent through `config.rs` and act through the executor.  Frames that the
capture threads see are merged into the registry, which readiness reads before
playback or the relay use a camera's path.

`PROJECT.json` lists every component with its status and every hazard with the
line where it bites.

## 2. Modules

| Module | Models | Extends or instantiates |
| --- | --- | --- |
| `LocalExecutor` | the executor, the native scope, its clients, a drainer, the lifecycle lock | - |
| `RelayHealth` | the health record's methods, as operators from record to record | - |
| `RelayService` | the service: user operations, supervisor, topology callback | `RelayHealth` |
| `RelayMedia` | one generation in depth: media callbacks, watchdog, recovery over several listener instances | `RelayHealth` |
| `RelayMediaProofs` | lemmas about `RelayHealth`, theorems about `RelayMedia` | `RelayMedia` |
| `CallerRegistry` | the SRT caller registry with its clock | - |
| `SrtServer` | the SRT listener: start, bus thread, admission callbacks, shutdown | `CallerRegistry`, `RelayHealth` |
| `RestreamProofs` | theorems about `CallerRegistry`, `SrtServer` and `RelayService` | `SrtServer`, `RelayService` |
| `PlaybackService` | the preview: requests, supervisor step, pipelines and their health record, recording, UDP admission | - |
| `VideoSurface` | window handles, tokens and the main thread's queue | - |
| `PreviewProofs` | theorems about `PlaybackService` and `VideoSurface` | both |
| `AddressLedger` | abstract write-ahead ownership of addresses | - |
| `AddressBindings` | addresses: user operations, reconciliation, automatic adoption, crash and restart | refines `AddressLedger` |
| `AddressBindingsProofs` | theorems about `AddressBindings`, the refinement among them | `AddressBindings` |
| `ConfigStore` | the settings and cache files and their writers | - |
| `ConfigStoreProofs` | theorems about `ConfigStore` | `ConfigStore` |
| `CaptureSession` | capture threads, the operations on them and the watchdog | - |
| `CaptureSessionProofs` | theorems about `CaptureSession` | `CaptureSession` |
| `DevicePresence` | selection, presence, the registry's evidence and the readiness check | - |
| `DevicePresenceProofs` | theorems about `DevicePresence` | `DevicePresence` |
| `HostOwner` | hosts, maintenance process and installer over two mutexes | - |
| `NativeProofs` | theorems about `LocalExecutor` and `HostOwner` | both |
| `MC...` | small instances of the above | |

Three proof modules are about two components.  The second component's
specification then has names of its own (`HostSpec`, `SurfaceSpec`, `SrtSpec`), so
that both can be extended.

Operators whose comment begins "A bug:" are variants with one plausible mistake.
No specification uses them; substituting one for the definition that follows it
must break the property `PROJECT.json` pairs it with.

### LocalExecutor

`phase`, `cur` and `retained` are `State.phase` with the identity and outcome it
carries; `work[i]` is operation *i* with its `ScopeState`; `client`, `drainer`,
`lock` are the requesters, the tasks inside `wait_writer` and `discovery_op`.
`doubt` is the real condition of the machine: some native change may have
happened that no report or observation accounts for.  The code never reads it;
it is what `DoubtFenced` compares the code's own caution with.  It may be true
initially, since a previous process may have died.

A client submits (`Submit`), waits, receives a reply and acknowledges
(`ClientReply`) or is dropped (`ClientAbort`).  The worker checks, dispatches and
records each native step (`StepCheck`, `StepDispatch`, `StepResult`,
`StepRefused`), returns or panics, finishes and replies.  A drain takes the
lifecycle lock, registers with `Notify`, inspects the phase and parks.  A managed
transaction takes the same lock, which is why a drain must not wait for one.
A step killed by its budget whose exact effect is then observed counts as
accounted for.  The maintenance child process is in `HostOwner`.

### RelayService

`slot` holds the fields of `RelayData`; `lease` is the firewall generation lease;
`rule` is what the firewall really has open; `live` is the set of listeners that
really exist, in the slot or being built; `gate` and `lifecycle` are the two async
mutexes; `proc[p]` is where each caller and the supervisor are, with their locals;
`watch` is the topology callback.  One action is one stretch of code under the
state lock, or one awaited effect; a caller re-checks the intent epoch exactly
where the code does.  Resolution, preflight, guard, build, save and firewall
outcomes are nondeterministic within `MaxFailures`, the faults of a listener and the
changes of the interface inventory within `MaxChanges`, and all of these together
within `MaxEvents`.

Abstractions: one camera target; the settings are `enabled`, the protocol and one
section; backoff delays are not timed; the supervisor always re-resolves; faults
found by polling arrive through the queue.  Adjacent short locks are one action
only when the lifecycle gate excludes everyone who could see the state between
them.  Persisted settings are valid, as validation at the writers ensures.
Status publication is left out.

### RelayMedia

One tick is five seconds: the first-buffer deadline (15 s), the stall warning
(5 s), its confirmation (10 s) and the healthy reset (30 s) are 3, 1, 2 and 6
ticks.  `probe[i]` is the runtime probe of listener instance *i*, `media` the
pipelines that may still call back, including those of a loop that `shutdown`
leaked after three seconds.  `flow` and `fatal` are history variables.  The
supervisor polls at least once in a tick when it is idle; time passes while it
retires, waits or builds.  The two locks of the media-constructed callback are
merged: callbacks of the new media are connected only afterwards.  UDP ingest is
exempt from the watchdog, so the timing properties are about RTSP.  A permanent
fault recorded but not yet accepted when another recovery begins a new instance
is cleared by the code; `RetiredStays` is about accepted faults.

### CallerRegistry and SrtServer

`CallerRegistry` has the two maps of the registry, pending reservations with
their age and active callers, and one operator per method.  `RegSpec` lets the
callbacks come in any order; the capacity theorem is about it.  `SrtServer`
puts the listener around it: `srv` is the staged start of one pipeline, `bus` the
bus thread of every instance, `stop` its stop flag, `fault` the instances whose
fault was sent; `peer` and `asked` are the callers' real connections, which the
registry is compared with.  Both ingests are started by it; the passphrase,
capability strings and pad formats are left out.

### PlaybackService

`slot` holds the fields of `PlaybackData`; `health[e]` is the `PlaybackHealth`
record created by epoch *e*; `live` is the set of pipelines that exist, stored or
being built, each with the epoch and attempt it was built for, its mute setting
and whether it plays, is connected and has a recording branch; `proc` holds the
locals of each request and of the supervisor's step, which is one action for
every stretch between two awaits; `net` is the selected adapter, its address and
whether the camera has a path; `relay` is the relay's UDP occupancy seen from
outside; `stopped` is history, the newest Stop that returned.

Abstractions: one camera with two sets of credentials and one UDP port; a retry is
unscheduled, later or due, so the length of a backoff is left out; the network
session that fences a path ends when another adapter is selected; the stall
diagnostic only logs and is left out, as are screenshots and the text of recording
reports.  A request that returns without changing anything need not be taken.
Acquiring the lifecycle lock is joined with the first section under it.

### VideoSurface

`generation` and `current` are `SurfaceState`; `windows[h]` is the incarnation
that really lives behind a handle value, so that Windows may give the same number
out again; `queue` is what commands have queued to the main thread; a command
holds the token it captured in `caller`.  A window may die by itself
(`WindowDies`), and queueing may fail.  Abstractions: handles are reused only by
this program's own windows, and `set_visible` is a move.

### AddressLedger and AddressBindings

`AddressLedger` is the abstract promise: an address is put on an adapter only
after the file answers for it, and the file forgets it only when it is gone or the
user took it over.  `AddressBindings` is the code: `saved` is the file and memory
together (every save writes the file first), `os` what Windows has, `mine` the
part of it that automatic work added, `routes` the live routes of `BindingStore`,
`discovery` and `work` the two locks, `paused` the address pause, `proc` where each
caller and the adoption worker are.  A caller's operation is the whole chain of
the code: take the locks within one budget, stop the session, reconcile temporary
addresses and then rows, look, command, observe, publish, change the mode, start
again.  The adopter reserves a temporary address, binds it, probes, commits a row
and publishes its route, and rolls back when any step fails or the session ends.
A native command may be applied or not and may report success or not,
independently; a save may fail; the process may die between any two steps
(`Crash`), after which `Begin` of the next process reads the file.

Abstractions: the dwell and cool-down rules, known subnets and ghosts only decide
when adoption is attempted, which is nondeterministic; a conflict probe is an
answer; addresses of rows that an old file holds without an owner (`LegacyAddrs`)
are outside the ledger.

### ConfigStore

`memory` and `cache` are the two values behind `AppConfig`'s mutexes, `disk` and
`cacheDisk` the files, `keyFile` the key; `saveLock`, `cacheLock`, `mutex` and
`gate` the locks.  Writers are of three kinds, as in the code: memory first,
persist first, and commit.  A group of fields stands for each kind of writer; a
ciphertext is a plain text under a numbered key.  A write may fail, a crash loses
memory, a restart may find a file damaged or unreadable or the key of another user.

### CaptureSession

`thread[t]` is a capture thread with its shutdown flag, lifecycle flag and
adapter; `slot` the listener handle, `parked` the joins a later start must see end,
`dropped` those whose handle an abort dropped; `op` the lifecycle operation under
`discovery_op`, `dog` the watchdog's task.  A thread may take any time to start or
to exit, or never do so.

### DevicePresence

Time is counted in units of `DOWN_HOLD` (2 s).  `sel` and `hold` are the selection
with its index and link, and its two deadlines; `rec` the registry; `chosen` the
adapter last resolved under `discovery_op`; `link`, `res`, `watch`, `tick`, `job`,
`frame` and `reader` are the tasks between their lock sections.  A fence is
modelled by whether the epoch it captured has moved since; the fence of address
work is `job.paused`.  A merge is two steps, the checks under the registry lock and
the write: the fences and the verification scope are not under that lock.  All
identities claim one address.  `late`, `lost` and `reverted` are history variables.

Abstractions: the merge of a frame, a commit and a readiness check take less than a
unit; a tick consumes the hold and reads the snapshot in one step, so that an update
between those two lock sections, which would only expire records earlier, is left
out; a change of metadata alone does to a link reading what an unchanged reading
does.

### HostOwner

`mutex` is the owner of each named mutex, `thread` the guard thread of each process
and role, `ask` its caller's side, `child` the native child with its job, `install`
where the installer stands.  A wait may time out at any moment, so a thread may
acquire a mutex that nobody waits for any more; processes may die at any moment,
which abandons what they own.  The end of a process abandons its mutexes and closes
its job in one step (`Gone`).  The executor's exclusion inside one process is
`LocalExecutor`'s subject; here a process has one child at most.

## 3. Runs

| Run | Instance | States | Properties | Shows |
| --- | --- | --- | --- | --- |
| `LocalExecutor` | 2 clients, 1 drainer, 3 operations, 2 steps | 14,788 | `SingleWriter DoubtFenced NoLostWakeup EverythingEnds` | exclusion, the doubt fence, and that drain, operation and shutdown end |
| `Relay` | 2 callers, 3 requests of four kinds, a failure, a client | 3,282,185 | `OneListener OpeningsOwned StopCompletes RestartFollowsOwnStop NoOutputLost` | superseding starts, stops and settings transactions |
| `RelayLive` | 2 callers, 3 events among starts, stops, switches, a failure, a topology change or fault, a rebind | 213,629 | `ScopeRepaired RequestsReturn` | no request waits for ever, whether contended, superseded or failed; rebinding |
| `RelayMedia` | 2 media, a trouble, 7 ticks | 520,016 | `SilenceNoticed RetiredStays ResetEarned Recovered` | callbacks, watchdog and recovery |
| `Playback` | 2 callers, 3 requests of five kinds, one fault, failure or change, one wait | 447,615 | `StopIsFinal ClaimsHeld Settles` | Stop, recording, port and recovery of the preview |
| `Addresses` | 1 caller, 2 requests of nine kinds, the adopter, 2 adapters, 3 addresses in 2 subnets, a fault | 1,807,601 | `RoutesTrue PauseOwned OwnershipDurable RemovalFinal` | ownership across crashes, routes, removals, the pause; refines `AddressLedger` |
| `Config` | 2 writers, 2 writes, 2 faults, 2 ports, secrets and identities | 169,510 | `SettingsTrue SecretKept` | concurrent and failing saves, crash, damaged files and keys |
| `Srt` | 3 callers, 2 slots, 2 instances, a trouble, 2 ticks | 836,162 | `Capacity SlotsEarned ContractKept EndNoticed` | admission at the limit and the end of the bus thread |
| `Capture` | 3 threads, 2 adapters, 3 operations, 2 restarts, a change of the wire | 868,505 | `OneSession OneVoice OpReturns` | wedged threads, bounded operations |
| `Devices` | a device, 2 adapters, 2 indexes, 5 events among selections, link readings, units of time and proofs | 2,246,200 | `ReadyTrue LossRemembered SelectionKept` | evidence, losses, fences and selection |
| `Surface` | 2 handles, 2 commands, 3 windows, 3 queued closures | 369,008 | `SurfaceIntact MovesOwn NoWindowLeaks` | reused handles and queued work |
| `HostOwner` | 2 hosts, the maintenance process, the installer | 332,498 | `OneWriter NoHostDuringInstall Answered` | processes racing for the machine, late threads |

The type invariants were checked on the same instances and are not repeated in the
configurations.  The inductive invariants of section 5 contain a typing of the state
and were checked with TLC on these instances before they were proved.

**Bounds.** Relay: three requests are what a supersession needs: one running
output, one request in flight and one that supersedes it; two callers suffice
because the code compares epochs, not callers.  One failure exposes each error
path at every point; the second of two independent failures meets a relay already
failed.  `RelayLive` has any three of its events: within them a switch restarts the output
while a stop waits for the gate it holds, two switches contend for the gate, a failed
start cancels while another request waits, and a supervisor that rebinds holds the
lifecycle a request needs; only a watcher that holds the lifecycle against a request
takes more.  Two media cover "the current
one and a stale one"; seven ticks go beyond the healthy-reset window, the longest
deadline, after a first fault; silence is not bounded by `MaxTrouble`, so recovery
may be followed by another failure.  Executor: three operations let one be
retained, one be refused and one recover.  `Playback`: three requests reach a
recording that is stopped or retired and a Start between two Stops.  `Addresses`:
two requests after a session with adoption, one round of the adopter and one
fault of any kind (a failed save, a native error, an outside change or a crash),
with two addresses of one subnet, an ownerless row of another and two adapters;
one caller suffices because user operations exclude each other, the adopter
running beside them.  `Config`: two writers, each of any kind, and two faults, so
that a failed save may be followed by a crash or a lost key.  `Srt`: three callers
for two slots and an expiry of two ticks.  `Capture`: one thread more than the
ladder's restarts, so that a wedged one, a replacement and a third meet;
`Devices`: any five events: a selection, a proof, a loss and a check with one left
for time to pass, or a proof and the units that exceed the freshness; one device
suffices for the properties of the run (what a proof does to another identity is
`OneIdentity`, which is proved).  `Surface`: three windows over two handles, so that a number is reused
twice.  `HostOwner` has no counters: its state space is finite.  Symmetry is used
only in runs without liveness.  Deadlock checking is off where the bounds let an
instance stop; `HostOwner` checks it.

**Fairness.** Executor: a worker's own steps are weakly fair, because each native
step has a 30 s budget after which it is killed and observed; taking the lifecycle
lock is strongly fair, because a tokio mutex is FIFO; a client that still
waits receives its reply, but submission, cancellation and panics are not fair.  Relay: callers' and supervisor's steps are
strongly fair for the same reason (both gates are FIFO, shutdown gives up after
3 s, native calls after 30 s), and the watcher polls on a timer.  Requests,
faults, failures and topology changes are never fair.  Media: the supervisor's
steps and the client thread's continuation into media-configure are weakly fair.
Playback: requests under way and the supervisor, which ticks every second, are
strongly fair because both wait for a FIFO lock; backoff delays end.  Capture: the
operations' own steps and the end of a watchdog round are weakly fair, since every
wait in them has a time-out; capture threads owe nothing.  Host ownership: the
guard's own steps (opening, the time-limited wait, the report and the release) are
weakly fair for each process; holders are not.

## 4. Limits of what the runs claim

Each item is behaviour of the code that the same modules show outside the
instance or the precise wording of a property.

Relay:

- Two listeners may be alive at once: when a Start has installed its generation and
  a topology change asks for a retry of it before the Start has the lifecycle, the
  supervisor builds that generation beside the older listener
  (`relay_service.rs:2011`).  So `OneListener` does not say "at most one": it says that
  every listener is stored or about to be stored or shut down by the process that
  built it, that no generation has two, and that a Start has only its own.
- "A desired relay has a listener or a recovery" is not claimed: a Start that
  supersedes another in mid-build and then fails preserves the desire without
  asking for a retry (`relay_service.rs:514-541`, `2110-2142`).
- A settings transaction that published its stop and is superseded by a Start that
  fails and clears the intent returns without finishing the stop
  (`relay_service.rs:1241`); the stored listener and its rule remain until the
  next request.
- `UpstreamFenced` has an exception for SRT: `mark_resolution_failed`
  (`relay.rs:491`) or `mark_recovery_in_progress` called late by the watcher or the
  supervisor replaces Stopped by Failed or Recovering, and an SRT upstream is
  guarded by the state alone.  An RTSP upstream also asks `loop_alive_for`, which
  no late mark sets again.
- A client refused between the loop's start and `mark_listener_bound`
  (`relay.rs:436-450`) leaves the relay Listening with its upstream gate closed,
  since `loop_alive` stays false; the queued retry is dropped because the relay looks
  healthy.  It stays deaf until the next client is refused, whose retry is heard.
  `Recovered` counts a relay as serving only with its gate open and names this
  exception (`Deaf`).

Preview:

- `ClaimsHeld` says that a reserved recording is written by a branch of the stored
  pipeline, with two exceptions.  A manual Retry, after a fault, that meets a step
  which has just decided to keep the pipeline makes it build another one over the
  recording (`playback.rs:767`), although "Recording never follows a replacement"
  (`playback.rs:483`).  A detach that fails after it has unlinked the branch leaves
  the slot reserved.  In both `recording` stays true for a pipeline that records
  nothing until a Stop or the next retirement.
- A mute that arrives while the supervisor builds a pipeline from settings it
  copied earlier (`playback.rs:424`) reaches neither the copy nor the pipeline.
- `ClaimsHeld` is about claims, not sockets: a Start that replaces a UDP source
  gives its claim up while the old pipeline still runs, until the next step
  retires it.

Addresses and settings:

- An address can be taken by another program between the second observation and
  the native command; a row without an owner from an old file is not in the ledger.
- A `config.toml` that is unreadable for a moment is replaced by defaults in memory
  without a notice and overwritten by the next save; `SettingsTrue` and
  `SecretKept` exclude this (`ghost.unread`).  Credentials that cannot be decrypted
  because the key cannot be read are cleared and saved empty (`config.rs`, about
  line 1937).
- A `device_cache.toml` that cannot be read for a moment is treated as absent
  (`config.rs:1729-1732`) and overwritten by the next save; the models' restart reads
  the cache or finds it damaged.

Capture:

- `OneSession` excludes threads whose join an abort dropped: stop's five-second
  limit (`discovery_session.rs:256-271`) may drop the watchdog while it holds the
  old join (`538-563`), which is then not parked, and a new start can overlap it,
  against the contract at `capture_session.rs:6-8`.
- A restart whose activation failed leaves its handle in the slot with the flag
  set, and a resume keeps that dead listener (`capture_session.rs`, about 583).

Presence:

- The watcher's refresh writes the adapter it resolved into presence again after it
  has released `discovery_op` (`watcher.rs:107-108`), and that write has no revision
  check: a selection made in between is overwritten, and a readiness answer may be
  on the adapter the user left, until the next resolution.  `SelectionKept` allows
  just this (`reverted`).
- A job that goes stale, or an address pause, between the merge of its proof and
  `remember_verified_at` (`presence.rs:1086`) leaves the deadline counted from the
  merge: the proof is trusted for up to twice `FRESHNESS`.  `ReadyTrue` allows it
  only there.
- A tick that has consumed the hold expires the registry in a later lock section, and
  a readiness check in between may still trust a record of the lost adapter; and
  `update_locked` starts no hold when nothing was selected, so that a selection the
  watcher took away and a resolution gave back forgives the loss.  `LossRemembered`
  names both.
- Selecting an adapter that is down, and comes up within the hold, cancels the
  expiry of the previous adapter's records.

Surface and host:

- `set_visible` while a create is pending does nothing, and the window then shows.
- A killed child may still be ending when the next host acquires ownership;
  `OneWriter` is about children that still run.  The kernel abandons the mutexes of
  a dead process and closes its job in an order of its own; the model joins the two.
- One test of `video_surface.rs` runs queued closures out of order; the queue of the
  main thread is FIFO, and so is the model's.  The set-up task of
  `lib.rs:519-635` runs beside an exit and is not modelled.

## 5. Refinement and proofs

`Addresses` checks `AddressBindings` => `AddressLedger!Spec` under the mapping
`recorded` = the temporary addresses on file and the rows still answered for,
`assigned` = the addresses automatic work has put on an adapter, both without
`LegacyAddrs`.  Every step of a caller, the adopter, Windows or a crash is a ledger
step or a stutter.

The theorems hold for every value of the constants that satisfies the modules'
named assumptions: any number of clients, callers, hosts, devices, addresses,
windows, instances and ticks.  The assumptions are what the models need to be
well-formed: finite sets of callers where something is counted, limits that are
natural numbers, and values for "nobody" and "none" that are no element of the sets
they are compared with.  `PlaybackService` caps its epochs by the number of requests
(`Epochs`), as a guard in the actions, for any such number.

None of the properties is inductive alone; below is what each invariant adds.  Each
proof has one lemma per action or group of actions, and under it one step per
conjunct the action can disturb.

- `NativeProofs`, the executor: `TypeOK`, `SingleWriter`, `DoubtFenced`, `NoLostWakeup`
  and `ShutdownJoins` are invariants of `Spec`, and every step satisfies
  `AbandonedKeepsBarrier`.  `IndInv` adds: the phase names the one operation whose
  worker is unfinished; identifiers beyond `next_id` are unused; the lifecycle lock
  is held by exactly one party and by the one that believes it; an operation's
  accumulated evidence covers its doubt; the machine's doubt implies a phase that
  only recovery may leave; a client waits only for the operation it submitted.
- `RestreamProofs`, SRT: `Capacity` for the registry under any sequence of its own
  operations, and `Capacity`, `SlotsEarned`, `ContractKept` and `EndNoticed` for the
  listener that drives it.  The registry lemmas are about cardinality: pruning only
  releases, admission adds at most one caller and only below the limit, a caller
  that becomes active gives its reservation up.  `SrtInv` adds: the server belongs
  to the newest instance and its flag is down until it is being closed; the record
  has a fault exactly when the supervisor was sent one of this instance; a caller is
  active exactly when it is connected, and a handshake that may still complete has
  its reservation (without this an honest `caller-added` could raise the capability
  fault); without a playing pipeline nobody calls.
- `PreviewProofs`, the window: `SurfaceIntact`, `MovesOwn` and `NoWindowLeaks`.  The
  invariant adds that at the handle of the surface in use lives its own window or
  none (`OwnHandle`), and for the last that incarnations are numbered upwards and
  that of the surface in use lives at no other handle (`Numbered`).
- `NativeProofs`, the host: `OneWriter` and `NoHostDuringInstall`.  `HostInv` adds: a guard
  thread that acquired a mutex is its owner in the kernel, and a guard somebody
  keeps has such a thread, however late it answered; a process past the acquisition
  keeps its guard; a running child is inside its job, so that it ends with its
  process; the installer holds the gate for the whole transaction.
- `DevicePresenceProofs`: `ReadyTrue`, `LossRemembered`, `OneIdentity` and
  `SelectionKept`.  `PresenceInv` adds: an unfenced link reading is about the adapter
  still selected; the age of live evidence and what is left of it add up to `FRESHNESS`
  at most, unless its deadline was or is still to be corrected (`EvidenceBounded`);
  evidence of a lost adapter meets a hold that still runs or a tick about to expire
  it, and a proof on its way to the registry gets there while the hold runs
  (`LossHeld`); after its own tick a readiness check meets no expired record and no
  hold that ran out; the path under check is on the selected adapter, which no hold
  bars, unless its fence says otherwise.
- `PreviewProofs`, the preview: `StopIsFinal` and `ClaimsHeld`.  `PlaybackInv` adds: the
  lifecycle lock is held exactly in its sections; the epoch a Stop claimed is
  nobody's intent, and after its first section any intent is newer; an attempt that
  is begun has another key than the stored pipeline; a pipeline is in the slot, in
  the step that builds it or in the hands of whoever tears it down, and a branch
  that writes is on the stored one or one being torn down.  That a reserved slot
  has its branch is a second invariant, `RecordingInv`, proved on top of it: the
  supervisor's step is the only one that begins an attempt, and while it keeps the
  pipeline of a recording no retry is due that could make it begin one; whoever
  schedules a retry meanwhile meets the exception (`unowned`).
- `AddressBindingsProofs`: `TypeOK`, `PauseOwned`, `RoutesTrue`, `RemovalFinal` and
  the refinement.  `AddressInv` adds: each lock is held exactly in its sections; the
  adopter is off while an operation that stopped the session works; what a plan says
  of its row still holds when it is carried out; rows are filed under their /24 and
  a pending address has no owned row; a route agrees with its row unless a selection
  is retiring the old routes.  `TransactionsImplementLedger` maps every step to one
  of `Record`, `Forget`, `Withdraw`, `Assign`, `Claim` or a stutter; with
  `LedgerCovers`, the ledger's own invariant, it yields `AssignedIsOnFile`: at no
  point of any transaction, crashes included, has an adapter an address of automatic
  work that the file does not answer for.
- `RelayMediaProofs`: `SilenceNoticed`, `RetiredStays` and `ResetEarned`.  It first
  proves of every method of the health record which fields it may touch (a recorded
  fault survives every callback of its instance; a stale instance changes nothing).
  `MediaInv` adds: a listener is the newest instance and there is none while the
  supervisor rebuilds; until a fault is recorded the probe names the record's active
  data, and a client that plays has armed it; an accepted fault leaves no active
  data, and a permanent one ends the generation; while the supervisor is awake the
  healthy window began no earlier than the uninterrupted delivery, and at a poll no
  deadline is overdue.  `ResetIsEarned` is stated for a camera ingest, since a UDP
  ingest is exempt from the stall warning that interrupts the window; the run has a
  camera ingest too.

- `RestreamProofs`, the relay service: `OneListener`, `OpeningsOwned`, and that every
  step satisfies `StopCompletes`, `RestartFollowsOwnStop` and `NoOutputLost`, for
  any number of callers, requests, failures, faults, clients, rebinds and topology
  changes (`Relay` has none of the last two).  `RelayInv` has these parts.
  `Installed` and `Counted`: whatever the shared record, the lease or a listener
  refers to is an installed generation, the current one is the newest, and a request
  installs at most one.  `Accounted` is the ownership of listeners.  `Fenced`: once
  nothing is desired, the record behind the stored listener is shut, for RTSP
  because its loop is marked dead and for SRT because its state is; the proof uses
  that of every method of the health record, and it fails for the SRT
  state alone, hence the exception in `UpstreamFenced`.  `Unshared`: two requests that have
  claimed an epoch never share it; every "am I still current" check rests on it.
  For each process, `Holding` says which lock it has where, `Alone` what a builder
  finds in the slot (a recovery nothing of its own generation, a Start nothing at
  all), `Prevails` that while its epoch is the newest a start keeps the output
  desired and a stop keeps it from coming back, and `OwnStop` that a transaction
  works under the epoch of its own stop and restarts under the next.  `StopCompletes`
  needs `Prevails` with the target a Stop captured; `RestartFollowsOwnStop` needs
  `OwnStop`; `NoOutputLost` needs `Prevails` again, because a restart that returns
  under the newest epoch finds its desire intact.
- `ConfigStoreProofs`: `SettingsTrue`, and that every step satisfies `SecretKept`.
  The argument follows the save lock.  `Candidates`: the clone a save carries agrees
  with memory on the persist-first groups, since only the lock's holder changes them,
  and misses of the memory-first ones only what a save still to come will write.
  `FileAgrees` and `CacheAgrees` relate memory to the two files between saves.
  `KeyAgrees`: while the key file was not taken away, what is stored, what a save
  will store and the key it uses are all of that key, so that an undecryptable
  passphrase carried through an unrelated save stays decryptable.  `PortsApart` is
  inductive only with the check under the lock in `Candidate`.
- `CaptureSessionProofs`: `OneSession` and `OneVoice`.  `OneHand`: of the slot, the
  watchdog and the parked joins only one ever holds a handle, and a living thread
  whose handle was not dropped is the held one, so that a start that has drained the
  parked joins and found the slot empty starts alone.  `Turns` says where operation and watchdog may stand together;
  `OneSpeaker` that a thread with its flag up is the published incarnation, or the
  one in the slot before its confirmation; `OnSelected` that what is
  published or started is the selected adapter.  `OneVoice` needs no exception for
  dropped threads: their flags are down.

What the proofs changed in the models.  `OneListener` used to say that at most one
listener is alive; the attempt to strengthen it led to the rebind of section 4, a
counterexample of 38 states that the bounds of `Relay` exclude, and to the present
statement, which is the stronger about ownership.  A capture thread that fails on its
own (`ThreadFail`) used to stay among the dropped ones.  `OneVoice` lost an exception
it does not need.  `LossRemembered` got its two exceptions from counterexamples TLC
found to the first statement of the invariant.  `RelayAssumption` now says that the names for "nobody" and for the
watcher are no caller's.

Only model-checked: the liveness properties `EverythingEnds`, `ScopeRepaired`,
`RequestsReturn`, `Recovered`, `Settles`, `OpReturns` and `Answered`, which rest on
fairness and are beyond the prover.  Every other property of the runs is stated by a
theorem.

## 6. Plan

What is left, in this order:

1. The exit sequence of `lib.rs` over the services, and the set-up task that runs
   beside it.
2. A refinement of `RelayService`'s intents to an abstract register of desires in
   which a newer intent always wins.
3. A run of `Relay` with topology changes in which the watcher holds the lifecycle
   against a user's request.

## 7. Not modelled

Recorder files and screenshots, the status publisher, the event coalescer, packet
parsing, ARP and ICMP I/O (`arp.rs` beyond its merge, `pktmon.rs`, `ip_conflict.rs`),
scans and pings, interface enumeration and routes beyond their result, text
validation, audio and classification of sources, transport sockets, the PTU HTTP
client, logging, and the renderer.  They are data transformations, operating-system
calls or views; the models take their results as inputs.  Manual nodes, forgetting
a device and the known-device cache appear only as writers of `ConfigStore`.
