# MinimalRouter in TLA+

MinimalRouter is a small router appliance. Two long-running processes share it:
`routerd`, the unprivileged daemon with the web API and the canonical
configuration in SQLite, and `router-applyd`, the privileged helper that writes
artifacts, activates services and keeps its own last-good record. A slot
manager installs signed firmware into A/B slots. This directory models the
parts whose correctness depends on the order of durable writes, on processes
that stop half-way and on messages that outlive their sender.

## The system's parts

| part | state | operations | modules |
|---|---|---|---|
| firmware slots (`mr-core/firmware/slots.rs`) | slot directories, two symlinks, `state.json`, `operation.json`, `installation.json` | stage, activate, rollback, begin_installation, install_baseline, recovery, lock-free `state()` | `FirmwareSlots`, `SlotTable` |
| protocol between daemon and helper (`apply/ipc.rs`) | requests waiting for the helper's lock, the daemon's connection | send, retry, give up, answer | `ApplyProtocol` |
| privileged helper (`mr-applyd`) | `last-good.json`, `pending.json`, `last-transaction.json`, artifacts, what runs | APPLY_ALL, RECONCILE, CONFIRM, COMMIT_CONFIRMED, rollback, start-up, fail-closed | `PrivilegedHelper`, `HelperClients` |
| transaction engine (`mr-services/apply/engine.rs`, `routerd.rs`) | stored revision, engine state, pending change, timer, privileged call | process, first-run setup, confirm, timeout rollback, reconcile, boot | `TransactionEngine` |
| sessions (`auth_persistent.rs`, `config/store.rs`, `api/mod.rs`) | credential and its generation, session rows, the daemon's cache and its mutex | login, setup, validate, logout, password and TOTP changes, clean-up, console resets, restart | `Sessions` |
| login limiter (`auth_persistent.rs`) | cached count, stored bucket, two clocks | allow, clean-up, restart, clock step | `LoginLimiter` |
| daemon and helper together | all of it | power loss, either process stopping, supervision | `Appliance` |
| helper start-up (`mr-applyd/applyd/startup.rs`) | forwarding, rule set, addresses, services, markers | restore or first-run plane, fail-closed, respawn | `HelperStartup` |
| device pauses (`applyd/actions.rs`, `apply/actions.rs`) | committed pauses, undo journal, nft set | pause, resume, status, restore | `DevicePauses` |
| HTTP server (`httpd/server.rs`, `httpd/mod.rs`) | bytes on a connection, framing, replies | heads, bodies, limits, drain, lingering close | `HttpConnection` |
| shutdown (`shutdown.rs`, `httpd/server.rs`, `routerd.rs`) | flag, mutexes, wakers, connections, guard | trigger, sleep, wait, notify, accept, drain, join | `DaemonShutdown` |
| management endpoint (`tlsutil.rs`, `routerd.rs`) | certificate on disk, cache, resolver, handshakes | ensure, refresh, store, serve | `ManagementEndpoint` |
| web update (`api/update.rs`, `release/checker.rs`, `router-update.rs`) | catalogue, operation record, inbox, slots, running services | check, install, upload, stage, activate, roll back, reconcile | `WebUpdate` |
| combined restore (`api/recovery.rs`) | previews, recorded operation, engine and DNS as seen from it | preview, apply, continue, dismiss, reconcile | `RestoreOperation` |
| offline recovery (`recovery/`, `config/offline.rs`) | canonical row, restore points, fence, journal, daemons up | migrate, run again, set-wan, set-lan, restore, reset | `OfflineRecovery` |
| DNS filter (`dnsfilter/`, `applyd/dnsfilter_helper.rs`) | drop-in, marker, operations, list slots | save, refresh, activate, undo, recover, status | `DnsFilter` |
| DNS activity and alerts (`accounting/dns_collector.rs`, `dnsrisk/mod.rs`, `applyd/dnsactivity_helper.rs`) | query log, helper's table, collector, history, alerts | drain, flush, match, clear, switch off | `DnsActivity` |
| DNS risk lists (`dnsrisk/feeds.rs`) | two index files, row, list in memory | download, build, publish, swap, load | `RiskFeeds` |
| gateway monitor (`gateway/monitor.rs`, `api/gateway.rs`) | samples, live summary, observer | collect, poll, restart the uplink | `GatewayMonitor` |
| traffic accounting (`accounting/`) | counters, cursors, totals | sample, fold, clear, firewall counts | `TrafficAccounting` |
| firewall (`services/nftables.rs`, `services/review.rs`) | policy, tracked flow, learned destinations | configure, pass a packet, resolve, explain | `Firewall` |
| access schedules (`config/profiles.rs`, `services/device_profiles.rs`, `services/review.rs`) | schedule, time, shown status | enforce, show, announce | `AccessSchedule` |
| address plan (`config/validation.rs`, `recovery/mod.rs`, `api/lan.rs`) | LAN, pool, reservations, subnets, leases | edit, activate, move, lease, suggest | `AddressPlan` |

`PROJECT.json` gives the source files of every part, and lists the parts that
are not here.

### How the parts interact

The daemon sends one request per connection. The helper runs one request at a
time under a mutex, which is not a queue: any waiting request may be next, and
a request whose client gave up or died still runs. Before a request runs its
intent is journalled; its outcome is journalled afterwards. The daemon's own
operation lock admits one handler at a time.

A routine change goes: APPLY_ALL with `defer_last_good`, SQLite commit,
COMMIT_CONFIRMED (which writes last-good). A disruptive change goes: APPLY_ALL
with `require_confirmation` (both management addresses stay up), a timer, and
then either the administrator's confirmation (SQLite commit, COMMIT_CONFIRMED,
a RECONCILE that drops the old address) or the timeout (APPLY_ALL of the
previous configuration, a bounded number of attempts).

### Behaviours that make it hard

- a durable write reports an error although it took effect;
- a stop between two writes, in either process, or of the machine;
- a deadline passes in the daemon while the helper goes on;
- the confirmation timer passes its cancellation test and then waits for the lock;
- the supervisor respawns the helper, which discards a provisional change;
- activation is differential, against a last-good that may lag the runtime;
- a credential changes between the password check and the insertion of the
  session, also from another process;
- times lose their monotonic reading and their fraction in the database;
- a check made under a mutex, and a wait or a store made after it is released;
- two files, or a file and a row, that must change together and cannot;
- counters that start again while a cursor remembers the old ones.

`PROJECT.json` lists them as hazards, each at its line, with the property that
would notice.

## The modules

**FirmwareSlots.** One variable per file. `op` is the call under the update
lock; its `pc` names the next durable write. `Attempt` gives each write its
three outcomes: done, done but reported as failed, failed. `Crash` drops the
call only. Versions are integers: releases positive, the synthetic baselines
negative with the precedence of 0.0.0, none is 0. The signature and hash checks
of a package happen before `stage` and are its precondition.

**SlotTable** is the abstract specification: running release, previous release
and floor change together, by whole operations. `FirmwareSlots` implements it
under the mapping `Settled`: the journal's old state while an operation can
still be aborted, what `state()` reports otherwise.

**ApplyProtocol.** A configuration is a revision and one value per section. The
constants classify sections as the helper's code does: `Lan` carries the
management address, `Always` sections are activated by every apply,
`Disruptive` ones need confirmation, `Optional` ones may fail to come back
after a rollback, `FileDriven` ones follow the file on disk. `stamped` tells
the re-dated copy that first-run setup stores from the one that was applied.
The `faults` counter limits how many errors, stops and expired deadlines a
behaviour contains; which ones and where is free.

**PrivilegedHelper.** `helper` is the request in execution and `pc` its next
durable effect. `runtime[s]` is the set of values section `s` runs: empty when
down, two for the LAN during a provisional apply. `Mixtures` is an activation
or installation that failed half-way. `FailClosed` is what
`fail_closed_startup` leaves.

**TransactionEngine.** A handler is cut at its privileged calls: `process_locked`
up to the call, `Send`/`ConnectFails`/`ConnectionLost`/`DeadlinePasses` the
transport with its two attempts, `*_answered` the rest. `firing` holds the
timers past their cancellation test: for the change that is pending
("current") or for one that is gone ("outdated").

**Appliance** composes the two and adds `PowerLoss`, `ServiceStart` (the helper
publishes the start-up marker), `Respawn` (it does not) and `FailsClosed` (the
helper stops the daemon). **HelperClients** puts arbitrary clients in the place
of the engine, with repeated and reused IDs and every combination of flags.

**Sessions.** `req[t]` is the request of thread `t`, cut at each store call and
at each taking of the session mutex; `lock` is the mutex where a thread keeps it
across store calls. `cred.gen` is `auth_generation`, which every credential
change raises in the transaction that deletes the rows. `proof` remembers what a
login verified, `gone` the sessions whose logout was answered or that had no row
when routerd restarted. A setup session records the generation read at its
creation and makes no claim about a password, so the properties speak of logins.
The recovery console writes the same database while routerd runs. The clock
only advances here, and the time zone is fixed.

**LoginLimiter** is one source's entry in the limiter: sources share nothing but
the mutex, which `allow` holds throughout. A time is a wall and a monotonic
reading; a stored one is the wall reading in whole seconds. `opened`, `granted`,
`loose` and `lockedSince` are history. Stored times are compared as numbers: the
code compares their text, which agrees while the zone's offset stays the same.

**HelperStartup** follows `startup.rs` command by command. `boot` is the next
step; `ruleset`, `address`, `dnsmasq`, `tunnel` and `uplink` say whose
configuration each service has (none, first-run, last-good). `leaky` remembers
that the last end of the helper was not a complete fail-closed.

**DevicePauses** keeps the committed record, its undo file, the undo in memory
and the nft set apart, because each can be changed without the others.
`promised` holds every set of pauses that the answers given so far allow.

**HttpConnection.** `wire` is the sequence of tokens the client has sent. The
server reads one byte at a time, from `read_head` through both body framings to
the drain of the rest and the lingering close. A handler may read all, part or
none of the body. Time-outs are choices of the environment. The lines after the
last chunk are tokens too (`Trailer`): `read_chunked` skips them in a loop that
looks at no deadline, so `ReadTrailer` has no way out but the empty line, the
end of the stream or a client that falls silent.

**DaemonShutdown** has five threads, and `at` says where each is. A check made
under a mutex and the wait that gives the mutex up are separate steps, which is
where a wake-up could be lost. `runs` counts how often each waker ran.

**ManagementEndpoint.** A handshake locks the cache, reads the configuration,
reads the pending transaction, ensures a certificate, unlocks, and stores the
certificate in the resolver afterwards. `epoch` is the clock as far as
certificates tell: one of an earlier epoch is not valid.

**WebUpdate** takes the slot manager's calls as single steps, which
`FirmwareSlots` justifies. `updateRecord` is the operation in memory and in its
file; they differ after a failed save. `installer` is the thread of an
operation, `updater` the detached root process.

**RestoreOperation** sees the engine and the DNS filter through what it reads
of them. `handler` is the request that holds `recovery_mu`; `reached` remembers
which targets became true while the operation was recorded.

**OfflineRecovery.** `mig` is the migration process, `fence` its `pending.json`,
`leftover` the helper's journals with the revision they started from. The
offline lock is implied by `mig` and `up`.

**DnsFilter** has the service's worker and the helper's activation, each with
its next durable step. A file is the state it records. One category stands for
the five, which share the worker and nothing else.

**DnsActivity** follows each lookup from the log to the history and the alerts.
A place that holds lookups is the set of them, so that a lookup counted twice
or kept after a clear is visible. `collect_query_log` has three outcomes: the
log is read and truncated, it cannot be read, or it is read and cannot be
truncated. After the third, its lines stay and are read again; `queryLog.again`
remembers which. Generation counters are compared for equality
only, so a page or batch says whether its generation is still the current one.

**RiskFeeds** is one list: two index files, the row that names the active one,
the list in memory and the refresh that works in the other file. `Entries` is
the length of each version, which decides whether `refresh_feed` refuses a list
as truncated.

**GatewayMonitor** counts time in polls and keeps capped ages, so behaviours
have no last instant. A step of the wall clock moves only what is stamped with
wall time. Time passes while a decided restart waits for the operation lock and
while the helper carries it out; `sinceAttempt` counts from the decision, as the
observer's `last` does.

**TrafficAccounting** has one device and one direction: each has a cursor and a
total of its own. `carried` is what the device really moved.

**Firewall** renders a configuration into chains, sequences of matches and
verdicts, in the generator's order, and evaluates packets on them with
connection tracking. `explain_firewall_flow` is translated separately and
compared with it. Hosts stand for classes of addresses.

**AccessSchedule** expands a stored schedule into windows, and has the time
rules, the shown status and the announced change as three separate functions
of it. **AddressPlan** translates the arithmetic on addresses with
`AddressBits` bits, the validation, the edits with their lease check, `set_lan`
and the LAN assistant. A check reads a snapshot of the lease file, which may be
incomplete (`Snapshots`); `unchecked` remembers the leases that the change in
force did not see.

**MCNetworkPolicy, MCServices, MCDaemons, MCProgress** are suites: components
that share no state, checked in one run. `focus` picks one of them, only that
one moves, and the others rest in a state of theirs. A behaviour of a suite is
a behaviour of one component, and the states of a suite are the sum, not the
product, of its parts.

## The runs

| run | checks | states | result |
|---|---|---|---|
| `firmware_slots` | `AlwaysBootable`, `MirrorAgrees`, `AtomicOperations` (refinement of `SlotTable`) | 480 thousand | holds |
| `helper_clients` | `ReplayIsTrue`, `ConfirmationGate` | 1.3 million | holds |
| `appliance` | `TypeOK`, `EngineTracksCanonical`, `DurableAgreement`, `ManagementPathKept`, `LastGoodFollowsCanonical` | 1.4 million | holds |
| `appliance_live` | `HandlersReturn`, `ProvisionalResolved` | 174 thousand | holds |
| `sessions` | `RowsProveCredential`, `AcceptedProveCredential` | 1.2 million | holds |
| `sessions_time` | `IdleBound`, `RevokedForGood` | 611 thousand | holds |
| `network_policy` | `FirewallSound`, `ExplanationAgrees`, `UnconfirmedKeepsManagement`, `ScheduleSound`, `PlanSound` | 202 thousand | holds |
| `services` | `FilterSound`, `RestoreSound`, `ActivitySound`, `GatewaySound`, `ServiceSteps` | NSERV | holds |
| `daemons` | `LimiterSound`, `EndpointSound`, `StartupSound`, `FeedSound`, `TrafficSound`, `ShutdownSound`, `RecoverySound`, `HttpSound`, `UpdateSound`, `PauseSound`, `DaemonSteps` | 1.2 million | holds |
| `progress` | `NoWakeupLost`, `WorkEnds`, `Recovers` | NPROG | holds |
| `appliance_restored` | `RolledBackIsRestored` | | violated |
| `appliance_late` | `DurableAgreement` with two waiting requests | | violated |

### What the suites show

What a component of the suites promises is one invariant of its module, called
after the component (`FirewallSound`, `FilterSound`, ...): its type invariant
together with the statements named below. `ServiceSteps` and `DaemonSteps` are
the action properties of the components of their suite, and the three
properties of `progress` group the liveness properties by what they are about.
`FirmwareSlots`, `HelperClients` and `Sessions` have their type invariants
proved and not run. That no operation lowers the version floor is part of
`SlotTable`, and so of `AtomicOperations`.

*Network policy.* What `explain_firewall_flow` says of a flow is what the
chains do with it (`ExplanationAgrees`); only trusted interfaces open
connections to the router or across it (`OnlyTrustedInitiates`); a flow that
the policy no longer allows is cut when its schedule closes
(`EarlierFlowsAreCut`). The time rules admit exactly what is shown as allowed
(`EnforcedAsShown`), and the status next changes when it was announced to
(`ChangeAsAnnounced`). Subnets never overlap (`ZonesDisjoint`), the pool stays
inside the LAN and away from the router (`PoolIsSafe`). A lease contradicts the
router's address or a reservation only if the change it clashes with did not see
it: given between the check and the activation, missing from the file that was
read, or older than a recovery (`LeasesAgree`). The assistant finds a free
address whenever there is one (`SuggestionFound`), and finds no conflict exactly
where validation and the lease check pass, unless another device was seen at the
address, of which only the assistant knows (`AssessmentAgrees`). And a change that needs no
confirmation leaves the management address alone (`UnconfirmedKeepsManagement`).

*Services.* A stop at any step of an activation leaves what recovery needs
(`ActivationRecoverable`); an operation is reported completed or failed only if
it was (`CompletedWasConcluded`, `FailedLeftNothing`); the index an installed
policy was built from is not overwritten (`InstalledIndexKept`); revisions
and outcomes are kept in order (`RevisionsInOrder`, `OutcomesRetained`). A
completed restore reached both targets, the DNS half after the network half
(`CompletedWasReached`, `DnsAfterNetwork`). A cleared lookup does not come
back, and none is counted twice, but for log lines that were read and could not
be truncated (`ClearedStaysCleared`, `CountedOnce`). Two decisions to restart the
uplink are an outage window apart, a restart never runs during a change, and a
reconnect that is reported happened (`RestartsPaced`, `RestartWaitsForChange`,
`ReconnectIsReal`).

*Daemons.* Login attempts stay within the limit and a lockout ends
(`WithinLimit`, `WindowRuns`, `LockoutEnds`); a certificate covers what the
listener admits (`AllowedAreCovered`, `ServedPairMatches`, `AloneIsCovered`);
packets are forwarded only under a loaded rule set, and a failed start closes
everything (`ForwardingGuarded`, `ServesRestored`, `FailsClosed`); lookups use a
whole list (`ActiveIndexWhole`, `ReportedIsServed`); totals never exceed what
was carried unless a round raced an apply (`UsageHonest`, `ClearedIsEmpty`,
`FirewallCountedOnce`); no waker is lost or run twice (`WakersRunOnce`,
`GuardCoversWorkers`); no daemon starts on a half-migrated state
(`StartsOnWholeState`, `FenceCoversState`, `BuiltOnNewest`); requests on a
connection stay in step (`FramingInSync`, `WholeBodyOrError`,
`AnswersInOrder`, `NoVainInvitation`); an update is what was confirmed, alone,
and both services run from one slot (`InstallerHoldsRecord`,
`FailedInstalledNothing`, `NoMixedPair`, `StagesWhatWasConfirmed`); the kernel
blocks what the answers promised (`PauseRecordKept`, `KernelAsAnswered`).

*Progress.* A connection ends unless its client goes on sending trailer lines
(`ConnectionEnds`), a signal stops the daemon (`StopsOnSignal`), a notification
is consumed (`NotificationConsumed`), disabled recording is deleted
(`DisabledForgets`, `DisableDeletes`), a published list arrives if upstream
keeps answering, unless it is refused as truncated (`ListArrives`), the helper
boots or gives up (`Boots`), an uncertain pause settles while requests come
(`PauseSettles`), an outage leads to a restart (`OutageAnswered`), an update ends
(`UpdateEnds`) and a migration that is run again finishes (`RerunFinishes`).

*Handlers.* `HandlersReturn` of `appliance_live` has two parts. A handler of the
engine gives the lock back or ends with its process, whatever fails. And nothing
on disk keeps the daemon from serving again, provided that what stopped is
started again (`StartedAgain`): a helper that failed closed stops routerd and
ends, which OpenRC does not undo by itself.

### What the violated runs show

- `RolledBackIsRestored`: after a provisional apply, last-good is still the
  previous configuration. Applying the previous configuration again finds
  nothing changed against last-good and leaves the differentially activated
  sections on the candidate.
- `DurableAgreement` with `MaxQueue = 2`: a request of a dead daemon runs after
  the restarted daemon's RECONCILE. With one waiting request it cannot, which
  is why the `appliance` run holds; that run is about everything else.

### What else was noticed while modelling

Each of these was seen on a module here, or in the lines it translates, and is
stated as the modules behave. None is kept as a run.

- `slots.rs` `stage`: when the save of the pending marker takes effect and then
  reports an error, the slot that has just been marked pending is removed.
- `confirm_locked` does not look at `recovery_required`: a change still pending
  can be confirmed after a failed reconciliation. It also commits to SQLite
  before any privileged call, so a helper respawned meanwhile runs something
  else until it reconciles.
- A web update whose updater refuses the release's layout stays "activating"
  until routerd restarts. A respawn between "activating" and the move of the
  pointer records "rolled_back" although the updater goes on. A rollback to the
  bootstrap baseline is recorded as "recovery_required", because the record
  names releases and the pointer a slot. An updater that outlives the routerd
  which started it has yet to read which version is pending, and activates what a
  later operation staged: `FailedInstalledNothing` excludes it. A respawn by the supervisor in the
  middle of an activation can pair services of two slots, which is why
  `NoMixedPair` excludes it.
- Two overlapping handshakes can leave the resolver with the older certificate
  while the cache describes the newer one, until the cache is next missed:
  `AloneIsCovered` excludes it.
- The bare host name is admitted as a request's host and is not a name of the
  certificate; `AllowedAreCovered` is about full names and addresses.
- The lease check of an edit reads the leases before the change is activated, so
  a lease given in between can clash with a new reservation until it ends.
- A restore recorded as superseded can still continue with its DNS half. An
  error after the engine's commit is recorded as failed and drops that half.
- A truncated list download that ends at a line break counts as complete. An
  activation left behind by a dead worker, racing a new download, can find its
  index overwritten. A first activation that was undone is recorded as needing
  review.
- When dnsmasq's query log can be read and not truncated, its lines are read again
  at the next collection: they are counted twice, and can come back after a clear.
- The cooldown between restarts of the uplink counts from a time read before the
  wait for the operation lock, so two restarts can be closer than two decisions.
- A risk list that shrinks to under half is refused at every refresh until the
  index in use is lost.
- A client that goes on sending trailer lines keeps its connection's thread.
- `write_private_atomic` of the web update syncs the file and not its directory;
  `WebUpdate` has a record that was saved survive, as it does when a process stops.
- A failed read of the DNS activity settings after a restart counts as "off",
  and the history is deleted.
- A traffic round that reads a new table under the old revision counts bytes
  twice; `UsageHonest` excludes it by `raced`.
- A pause "until resumed" of a device that has left the LAN cannot be settled.
- Rolling back a candidate that disabled a profile creates its destination set
  empty: the profile's service is blocked only after the next lookup.
- After the drain's time-out the daemon guard is dropped although threads of
  connections may still run: `GuardCoversWorkers` is about the workers.

### Bounds

- Two releases and two baselines: enough for an update, a rollback, a
  reinstallation and a floor above the running release.
- Two sections in `appliance`, LAN and one that is activated differentially;
  two values each, so that every configuration differs from some other in one
  section only. `appliance_live` and `helper_clients` have the LAN alone: no
  property they check looks at another section.
- `MaxRevision = 3`: a provisioned appliance (revision 2) makes one more change,
  a factory one makes two.
- `MaxFaults = 2` (`appliance`, `appliance_live`): a failure and a failure of
  the step that handles it. `MaxFaults = 1` in `helper_clients`, where the
  clients are unrestricted.
- `MaxRollbackAttempts = 1` instead of the code's limit: one retry and the
  exhausted case both happen.
- Five IDs: at most five are in use at once, and `FreshId` takes an unused one.
- `helper_clients` treats IDs as interchangeable (`SYMMETRY AnyId`); nothing in
  that module orders them. Its two revisions make configurations that differ
  without a disruptive change.

- `sessions`: two threads, sessions and passwords, one credential change after
  the first (`MaxGeneration = 2`) and no time: a login, the change and a
  validation already interleave in every order. `sessions_time`: one session,
  two threads and seven ticks, with two ticks a second, so that rounding, a
  lagging `last_seen`, both time-outs and a second persistence happen. IDs,
  passwords and threads are interchangeable (`SYMMETRY AnyName`).
- `network_policy`: two settings besides WireGuard may differ from the first
  configuration, so any two features, or a feature and a rule, meet with the tunnel
  on and off; five custom rules, of both directions and
  actions. A day of four units has a window's start, end and the last minute.
  Addresses of five bits hold two LANs of eight addresses and a tunnel subnet;
  three edits allow a move, a reservation and a pool in any order.
- `services`: one saved policy over the default and two revisions, one mishap of
  any kind; two restores, so that one meets the record of the other; three
  lookups in a table of two, pages of one, a flush every round; an outage window
  shorter than the cooldown, two upsets.
- `daemons`: two attempts a window of four ticks, ten ticks and a clock that is
  stepped twice, by less and by more than two windows; two handshakes and two
  changes; three failures of the start-up, so that one can hit the handling of
  another; four versions of a list, two of which are under half of one before them;
  three tables; one connection more than the
  limit; three rows, two restore points and three faults of a migration; two
  pipelined requests with bodies of up to two bytes and limits of one; two
  updates, one of them incompatible, and one fault; two devices, a limit of one
  pause and one failure.
- `progress`: the smallest bounds at which each fault and limit still happens,
  because liveness is checked on the whole graph. A list has three versions, and
  the last is refused after the second and not after the first. The collector
  flushes every second round.

The suites set `CHECK_DEADLOCK FALSE`: a daemon that has shut down, a closed
connection and a component that has used up its bounds have no next step.

### Fairness

`FairSpec` assumes weak fairness of the helper's steps, of the transport with the
continuation of a started handler and of the timer thread: threads that are
runnable run. It assumes strong fairness of an expired timer taking the operation
lock: the lock is free again and again, and a waiter is not passed over for
ever. Nothing is assumed of the administrator or of the supervisor, and failures
are never owed. That a stopped process is started again is a hypothesis of the
second part of `HandlersReturn`, not part of the specification.

`SuiteFairness` does the same for each component of `MCProgress`: weak fairness
of every thread's own steps (the server's connection thread, the collector, the
sampler, the installer, the updater, the boot, the threads of the shutdown).
Beyond that:

- Clients are owed nothing: `ConnectionEnds` rests on the server's deadlines,
  which are part of `ServerStep`. Its exception is exactly the clients that send
  trailer lines for ever; without it the property is violated.
- The timeouts of condition variables are not assumed, so `StopsOnSignal` and
  `NotificationConsumed` show that no wake-up is lost.
- Of a list's refresh only the program's own steps are fair. That upstream answers
  and that not every write fails is the hypothesis `UpstreamAnswers` of
  `ListArrives`, and a list refused as truncated is its exception.
- The rounds of the DNS collector are repeated for as long as routerd runs: strong
  fairness says that one gets through some time.
- Nobody is obliged to open the Devices page: that requests come is the
  hypothesis of `PauseSettles`.
- An operator who finds the fence of a migration stops the daemons and runs it
  again, as the tool's message says.

## What is proved

The proofs hold for every value of the constants, from the named assumptions of
the modules that declare them only. Those assumptions say that counts, limits
and durations are natural numbers (not zero where zero would switch the feature
off), that initial values are among the values, that a list's versions have lengths
and that custom rules have the fields of a rule, and one fact of the code: the outage window of
`GatewayMonitor` is not longer than its cooldown. `XIsSound` proves the
invariant `XSound` of a component, its type invariant included. Almost none of
these invariants is inductive as it stands, because each speaks of a moment at
which an operation is over; the strengthening says what holds in between. Every
proof module makes Zenon its default prover (`USE Zenon`): most leaves are
first-order reasoning about records and steps, and a leaf with arithmetic,
sequences or cardinalities names SMT.

*HelperProofs* (`HelperClients`, `LoginLimiter`, `TrafficAccounting`)

- `TypeCorrect`: `TypeOK`, one lemma per action.
- `GateHolds`: `ConfirmationGate`. The step that writes last-good does not
  repeat the check. `GateInv` carries it there: a request about to persist has
  passed `validate_confirmation_request` (APPLY_ALL) or matches the pending
  marker (COMMIT_CONFIRMED), and neither last-good nor the marker has moved
  since, because the lock is held.
- `ReplayHolds`: `ReplayIsTrue`, which is about the idle helper. `ReplayInv`
  follows a request from its activation to its outcome: which combinations of
  flags can be at which step (`FlagsFit`), and that the outcome about to be
  journalled is true already.
- `LimiterIsSound` and `LimiterWindowRuns`. What a restart or a failed write
  leaves to judge the next attempt counts every grant of the window in force
  (`GrantsCounted`), and the start that judges a refusal is explained by the moment
  the refusals began (`LockExplained`).
- `TrafficIsSound`. The bytes of the live table and of a round under way are still
  to be added; `Ledger` counts them on the right side of the balance, and the
  generation of a cursor tells a recreated table apart (`RevisionsHadTables`).

*ApplianceProofs* (`Appliance`, `OfflineRecovery`)

- `TracksCanonical`: `EngineTracksCanonical`. `Tracking` adds which handlers run
  with a change pending and which without, that an apply in flight carries the
  next revision, and that a timer which fired still has its change.
  `PendingShape` leaves the finalization's ID free, because `FreshId` is an ID
  only while unused ones remain.
- `RecoveryIsSound` and `RecoveryBuildsOnNewest`. The invariant adds which lock
  and which fence hold at each step (`LocksHeld`), what the steps already taken
  have made true whatever the console does meanwhile (`StepsDone`), and that
  nobody holds a row ahead of the store (`CopiesBehind`).

*SystemProofs* (`FirmwareSlots`, `HelperStartup`, `DaemonShutdown`)

- `SlotsTypeCorrect`: `TypeOK`, strengthened (`Typed`) by the calls whose
  argument is a version.
- `SlotsAlwaysBootable` and `SlotsMirrorAgrees`. `Bootable` says for each step of
  a call where it stands: without a journal the symlinks agree with `state.json`
  and name complete slots; with one, it is valid, projectable from the current
  symlink, and the call (or a recovery) is moving towards one of its two states.
- `SlotsAreAtomic`: the refinement `AtomicOperations`. Under the mapping
  `Settled` the initial state is an initial state of `SlotTable`, and every step
  is a step of it or a stutter. What a journal is going to do is fixed when it is
  written (`AtomicInv`), so the step that publishes it is the step of the table,
  and a recovery leaves what the journal says.
- `StartupIsSound`. Every step may rely on the core steps before it
  (`CanonicalSoFar`, `FirstRunSoFar`).
- `ShutdownTypeCorrect`, `ShutdownWakesAll` and `ShutdownGuards`, together
  `ShutdownsSound`. `WakerCount` says at every point how often each waker has run,
  from who holds the wakers' mutex (`LocksHeld`) and from the flag (`FlagSet`).

*SessionProofs* (`Sessions`)

- `SessionsTypeCorrect`: `TypeOK`.
- `RowsProve` and `AcceptedProve`. What a login verified is known only to the
  request that made the check, so `Backed` follows it: any row, cache entry or
  copy held by a request that bears the current generation belongs to a login
  that verified the current credential, and no copy bears a later generation.
  Steps that change no credential only move copies around (`Keep`); steps that do
  delete the rows and outdate every other copy at once (`NewGeneration`).
- `RevokedStay` and `IdleBoundHolds`: `RevokedForGood` and `IdleBound`. What must
  not come back may still be on its way: a copy a request read under the lock, a
  time-stamp saved after the unlock, a session being issued. `Traced` says where
  such copies can be (`LockKept`, `Issued`, `Revoked`) and that none carries a time
  later than the last acceptance (`Timed`).

*ServiceProofs* (`DnsFilter`, `GatewayMonitor`, `RiskFeeds`)

- `FilterIsSound` and `FilterRevisionsInOrder`. Three processes meet in the
  drop-in: the activation in the helper (`InProgress`), the worker that called it
  (`Employed`, `Called`) and a status request that may conclude the operation from
  what it reads (`Watched`). `FilterInv` relates each to the last concluded state.
- `GatewayIsSound`, `GatewayRestartsPaced` and `GatewayReconnectIsReal`. The
  last decision is at least as old as the observer's account of it, or, when
  routerd has restarted and the observer remembers none, as the outage it counts
  (`AttemptsAged`), and whoever still knows the link as down has not counted its
  rise (`RisesKnown`).
- `FeedTypeCorrect`, `FeedIndexWhole` and `FeedReportedIsServed`, together
  `FeedsSound`. `FeedInv` adds that a refresh works in the slot the row does not
  name, that the row's file is whole or gone, and that every tag is that of the
  version it is kept with.

*StoreProofs* (`DnsActivity`, `ManagementEndpoint`)

- `ActivityIsSound`. That a lookup is counted once and that a clearing is final
  needs every place a lookup can be at: the places share nothing but lines that a
  failed truncation left to be read again (`HandedApart`, `CountsApart`), and a
  clearing under way has already taken what it will take (`Bygone`,
  `BygoneRisk`). `CollectFacts` shows it for each outcome of `collect_query_log`.
- `EndpointTypeCorrect`, `EndpointNamesDestinations`, `EndpointServesPairs` and
  `EndpointCovers`, together `EndpointsSound`, for any number of handshakes.
  `CacheDescribes` says that the cache's key describes the certificate in the
  resolver or on its way there; `Steady` carries it through a handshake during
  which nothing changed. Both need `OneAtATime`, which overlapping handshakes
  break.

*OperationProofs* (`WebUpdate`, `DevicePauses`, `RestoreOperation`)

- `UpdateIsSound` and `UpdateStagesConfirmed`. That a failed operation did not
  become the running slot needs that it was not on its way there: `NotInstalled`
  says it of every slot that may still run, `Handed` that an activation under way
  belongs to the recorded operation, `Held` and `Prepared` who owns the record and
  the inbox meanwhile.
- `PauseIsSound`. The invariant follows a request: what was loaded
  (`EarlyRecord`), where the undo is kept (`UndoHeld`) and which side of the change
  the record and the kernel are on (`OneSide`).
- `RestoreIsSound` and `RestoreOutcomesRetained`. The request about to store an
  outcome holds `recovery_mu` on the stored operation and has seen the target true
  (`HolderFollows`, `HolderProved`), and the observer saw every such moment
  (`TargetsObserved`).

*PolicyProofs* (`Firewall`, `AccessSchedule`)

- `FirewallIsSound`, `ManagementOutlivesChanges` and `ExplanationsAgree`:
  `FirewallSound`, `UnconfirmedKeepsManagement` and `ExplanationAgrees`, for every
  set of custom rules and any number of changes. Because the first rule that
  matches decides (`FirstHit`), a chain can be put together piece by piece: each
  piece of `generate_nftables` decides some packets and passes the others on. The
  three chains so become conditions on a packet (`InputAdmits`, `ForwardAdmits`,
  `ForwardCut`, `Isolated`), and the properties compare these. `FirewallInv` adds
  that a tracked flow was let through by some policy when it began (`TrackedFlow`).
- `ScheduleIsSound`, for a day of any length. What is enforced changes only at a
  window's boundary (`ChangesAtBoundaries`) and repeats weekly (`WeeksAreAlike`),
  so a state that changes at all changes within seven days and the nine days of
  boundaries the page looks at hold the first change. The invariant `Announced`
  relates the status still shown to the minutes that passed since it was computed.

### What is only model-checked

- Every property of `progress` and `appliance_live`: liveness under fairness is
  beyond the prover, as is `ENABLED`.
- `DurableAgreement`, `LastGoodFollowsCanonical` and `ManagementPathKept` of
  `Appliance`: false for `MaxQueue = 2` (a reconciliation that waited in the queue
  may finish after the engine's next apply), so there is no theorem for all
  constants.
- `TypeOK` of `Appliance` needs that an unused ID remains for `FreshId`, which is
  a matter of the instance.
- `HttpSound` and `NoVainInvitation`: what the server has read is a prefix of a
  sequence of whole requests, and that a request parses is a statement about
  sequences of any length, proved by induction over data only.
- `PlanSound` is about powers of two, for which the provers have no facts, and a
  loop over the candidate networks, which is induction over data.

## What is not modelled, and why

- *Left out of the modelled parts*: the temporary QoS bypass of the engine, the
  audit log, the read-only helper calls, the WireGuard liveness check made
  before a confirmation (it can only refuse), the memory of used TOTP codes and
  the slot of the password derivation, the text of artifacts, schema migrations
  of the stores. Commands succeed or fail; their deadlines are the failure.
- *Pure functions of one input, without state*: routing, multipart and static
  files, artifact text, syntax of configuration fields, the pfSense import,
  encryption and format of backups, package signatures, the Go-compatible
  parsing and formatting library. A checker would only enumerate inputs of
  formats that the models abstract to "valid" and "invalid".
- *Read-only probes and charts*: telemetry, health, the queries behind the
  usage and quality charts, retention of old rows. They keep no state that
  another part depends on.
- *Front ends*: the console menus, the MCP bridge and the web interface change
  state only through the parts above.
- *Within the network models*: shaping, logging and `trusted_networks` of the
  firewall, several edited sections at once, daylight-saving changes, and the
  first second after a time rule's end, which nft still includes.
