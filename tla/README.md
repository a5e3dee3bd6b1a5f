# Verification of gofro-router

TLA+ models of the gofro router agent, of the scripts it shares the router with
and of the programs on the VPS, TLC runs that check them on small instances, and TLAPS proofs that hold
for every instance. Paths below are relative to the repository root.

## 1. The system

Gofro turns an OpenWrt router into a VPN gateway with split routing. Its parts:

| Part | State | Operations | Interacts through |
|---|---|---|---|
| Controller (`controller.rs`, `controller/*`) | desired configuration, active policy, `routing_degraded` | edits, rollback, full reconcile | apply lock, file, nft, tunnel helpers, FakeDNS |
| Configuration file (`config.rs`) | `/etc/gofro/controller.json` | load, save (write, sync, rename, sync directory) | read by guard script and updater |
| Data plane (`dataplane.rs`) | nft tables `gofro_routing`, `gofro_guard` | apply, install/clear guard, publish exclusions, mappings | controller, FakeDNS, guard script |
| Tunnel (`network.rs`, `libexec/mode`, `libexec/tunnel`, hotplug) | interface, peer, policy routes, relay endpoint | start and select, stop, snapshot, restore | controller, netifd |
| Service scripts (`init.d/gofro-agent`, `init.d/gofro-guard`, `libexec/guard`) | guard, apply lock, agent process | boot, prepare, stop | file, nft, procd |
| FakeDNS (`fake_dns/*`) | leases in memory, SQLite and nft | answer, purge, reclassify | policy lock, nft |
| Routing policy (`routing.rs`, `geodata.rs`) | compiled rules | match a domain or an address | FakeDNS, data plane |
| Authentication, onboarding (`auth.rs`, `onboarding.rs`) | password record, sessions, set-up code, marker | set-up, login, change, logout | files |
| Managed servers (`managed/*`) | host pins, bootstrap job | bootstrap, remote friends and WARP | SSH, controller |
| gofro-server, gofro-relay, WARP | peers of the VPS, relay sessions | add, remove, relay | WireGuard |
| Installer and updater (`install.sh`, `gofro-update`, `libexec/transaction`) | release directories, journal | stage, activate, recover | init scripts |
| Web panel (`web/`) | store of the router's state | poll, edit | HTTP API |

What is hard about it: every edit is a sequence of a dozen external calls, each
of which can fail; the process and the router can die between any two of them;
the file, two kernel tables, the tunnel, conntrack and a lease store have to
agree while LAN traffic flows; and shell scripts of the service manager work on
the same kernel state under a lock that the agent only tries. The correctness
idea is fail-closed: a *forwarding guard* blocks LAN egress whenever the kernel
may not be what the configuration says. The other parts have the same trouble on
a smaller scale: a password, a host key, a friend or a release is known in two
or three places that cannot change at once, and what was answered has to stay
true after a power loss.

`PROJECT.json` lists every part, modelled or not, and the hazards found.

## 2. Modules

| Module | Models |
|---|---|
| `ControllerConfig` | the configuration and the edits, as pure functions: `controller/servers.rs`, `mode.rs`, `routing.rs`, and what a configuration asks of the kernel (`Render`, `NetOf`) |
| `Controller` | `update_config` with rollback and `committed_failure`, `set_auto_update`, start-up, `reconcile_locked`, the service scripts, crash and power loss |
| `Gateway` | the abstract promise: LAN traffic meets exactly the stored policy, or nothing |
| `ControllerGateway` | the refinement mapping from `Controller` to `Gateway` |
| `FakeDns` | leases of fake addresses in SQLite, memory and nftables: DNS workers, cleanup, updates, restart |
| `Routing` | from a routing configuration to the way a packet takes: policy, nftables chain, DNS lookup |
| `GeoIp` | aggregation, search, budget and nftables intervals of a GeoIP list |
| `Auth` | password record, sessions, throttle, onboarding marker and set-up code |
| `Managed` | enrolment of a VPS, pinned host keys, remote writes and their answers |
| `Friends` | the peers of a VPS: interface, boot configuration, store |
| `Relay` | sessions and worker threads of the relay server, restarts of its clients |
| `Update` | the release transaction, its journal, rollback, recovery at boot, finalisation |
| `Installed` | the abstract promise of an update: release, version and settings change in one step, and failures do not show |

The TLAPS proofs are in `ControllerProofs` and `UpdateProofs` (with the refinements),
`FakeDnsProofs`, `AuthProofs`, `RoutingProofs`, `FriendsProofs`, `ManagedProofs` and
`RelayProofs`, each with its inductive invariant (`ControllerInv` and `FakeDnsInv`
hold the two that are modules of their own); `MC*` are the instances for TLC.

### Controller

`pc` is the point that the one running transaction has reached; every
transaction holds `apply.lock` (`lock`), so there is never a second one.

| Variable | Code |
|---|---|
| `mem`, `active`, `dnsVpn`, `degraded` | `AppState.config`, `.routing`, `FakeDns.vpn_enabled`, `.routing_degraded` |
| `next`, `change`, `netFailed` | locals of `update_config` |
| `disk`, `stable` | `controller.json` as read now; the versions that a power loss may leave (two between rename and directory sync) |
| `leases` | the policy that the stored lease targets follow (`commit_targets`) |
| `table`, `guard`, `net` | `gofro_routing`, `gofro_guard` with its exempt devices, tunnel and relay |
| `stale` | devices with a DNS flow that conntrack pinned to the wrong resolver |
| `lc` | how far the service scripts are: boot, stopped, running, stopping, armed |
| `base`, `outcome`, `aborted` | history: configuration at the start of the call, its answer, a stop given up |

One action per external call: `InstallGuard`, `UpdateNetwork`, `UpdatePolicy`,
`CommitTargets`, `SaveConfig` (up to the rename), `SyncDirectory`,
`PublishExclusions`, `CleanupDnsFlows`, `ClearGuard`, the rollback `b…`, the
repair `c…`, start-up and the reconcile `r…`. Each has a success and a failure
disjunct. A tunnel change that fails leaves any mixture (`Torn`). `Crash` ends
the process at any step; `PowerLoss` also loses kernel, lease store and, between
rename and directory sync, possibly the newest file.

Abstractions: names, icons and SSH details of servers; a client's address and
key are one value; a policy is opaque; the server list is unordered, so the
server that takes the place of a deleted active one is any other. Environment
assumptions: nobody else edits the two tables; the boot guard can be armed (the
router has been prepared once, so its guard identity exists); procd's kill ends
the agent.

### FakeDns

A routing rule for a name can only be enforced on packets if the address that
the client uses identifies the name. FakeDNS therefore answers with an address
of 198.18.0.0/15 that it leases to the pair (name, host); nftables translates
the address back and four sets of addresses choose the route. `Controller`
treats the leases as one value (the policy they follow); `FakeDns` is the detail
behind it, and keeps of an update only what it does to the leases.

| Variable | Code |
|---|---|
| `leases` | rows of `fake_dns` and `Store.leases` (one copy: see below) |
| `used`, `next` | `Store.used`, `Store.next` |
| `table`, `dnat`, `marks` | `gofro_routing`, its map `fake_to_real`, its four target sets |
| `worker` | the requests that hold a permit of the worker semaphore and `updates.read()` |
| `holder`, `step`, `batch`, `said` | owner of the `store` mutex, where it is, its local `added` or `expired`, the leases in its answer |
| `upd`, `new`, `policy`, `saved`, `guard` | the update or reconcile that holds `updates.write()`, its policy, `AppState.routing`, the file, the guard |
| `now`, `faults` | wall clock, failing calls so far (bounds) |
| `told` | history: addresses that clients were told, and until when they may use them |
| `lost` | history: addresses given up because a rollback failed too |

A request is `Ask` (take `updates.read()`, copy the policy), `UpstreamAnswers`,
`LockStore`, one `Allocate` per record, `Install` (one nft transaction, then the
answer); `AllocateFails`, `InstallFails` and `RollbackLeases` are its error
paths. The cleanup is `PurgeExpired` (kernel), `PurgeStore`, `PurgeReinstall`.
An update is `BeginUpdate`, `ApplyPolicy` (nft), `CommitPolicy` (SQLite),
`SavePolicy`, `ClearGuard`; a failure leads to the same steps with the old
policy, a failure there to `degraded`. `Start` opens the store; DNS is served
before the reconcile begins. `Crash` may strike between any two steps.

Abstractions: a row and its copy in memory change in one step (memory follows
the committed statement at once, and a crash between loses only memory, which
`Start` rebuilds); DNS messages are sets of hosts; a policy is the three things
FakeDNS asks of it (does the name have a rule, does it have an upstream, the
target of a pair); network parts of an update and `publish_exclusions` are in
`Controller` and appear here as the failures that they cause. The wall clock
does not jump, and an nft child does not outlive the agent that started it. A power
loss clears `told`: the lease store is in /tmp, so the agent cannot know what it told
before, and promises to clients that still cache an address are not followed past it.

### Gateway

Three variables: the policy of the stored configuration, the policies that a
power loss may leave, and what traffic is forwarded by (`Closed` or a policy). A
policy is stored only behind a closed gate; the gate opens only when a power loss
cannot bring back another one. `ControllerGateway` maps a configuration to what it
asks of the kernel, so that renaming a server or setting the auto-update flag has
to be a stuttering step.

### Routing and GeoIp

The same ordered rules are read four times: for a name with an address
(`RoutingPolicy::target`), for an address, for a name whose address is not known
yet (`dns_target`, the most protected path that any answer might need) and as an
nftables chain. `Routing` has one behaviour per configuration: a client asks for
a name or not, the resolver answers with a real or a fake address, and a packet is
marked by the first matching rule of the chain. What a matcher matches is a set
of names or addresses; the policy does not change during a lookup (that is the
subject of `FakeDns`). A CIDR of prefix length 0 is a rule for every address,
the fake ones included, and `normalize_routing` refuses it.

`GeoIp` runs the loop of `aggregate_ipv4` on the vector that it rewrites in place,
and compares the result with the set of addresses that was listed. On the result,
again and again, `matches_ip` is asked for any address (`Lookup`, one `Bisect` per
step of `partition_point`, which is the standard library's) and `append_networks`
writes the intervals (`TakeNetwork` and `Extend` are its two loops). `IntervalCount`
is what `select` counts against the budget. A prefix is its length and its first
address, aligned as `trunc` leaves it.

### Auth

`disk` and `maybe` are the three files and the versions that a power loss may
leave; `req` is the step of each client's request. Set-up, login and password
change share one hashing permit (`permit`); a change also holds the mutex of the
sessions (`inner`). A client may go away while its blocking task runs on
(`gone`). `gofro-setup` is one atomic step; a password is its record, and a
session is its holder and the password it was issued under instead of a token.

### Managed

`op` is the operation that holds `managed_operations`; a second bootstrap is
refused and other requests wait, which changes nothing. What happens under the
configuration lock is one step with every place where it may fail as an outcome.
A pin is a file that is linked, synced and unlinked (`Pin`); a command sent to
the VPS may run, never run, or run after the agent gave up (`late`, at most
`MaxLate`). An error answer (`CommandRefused`) says nothing of the VPS: the command
may have changed everything or nothing, because `gofro-server` can fail after
`wg set` and fail to roll back too (`gofro-server/src/managed.rs:440`). `Executes` is
what such a command does when it is done; its own steps are the subject of `Friends`.
Left out: the management key file.

### Friends

Every command of `gofro-server` holds the server lock, so `op` is the one
command; each call of `wg`, `wg-quick save` and `write_store` is a step. A failed
`wg` call changes nothing, a failed `write_store` may have renamed; the command
may be killed between any two. `Reboot` loads the boot configuration. `Legacy`
gives the states that older releases left. A power loss that tears the boot
configuration itself is not modelled.

### Relay

`session` maps a source to its worker, `worker` are the threads with their
sockets, `now` is what the main thread does. Time is kept as ages in periods of
`RECEIVE_TIMEOUT` up to `Idle`; a blocked receive returns within a period. A client
that fails is restarted with another source address. A session that cannot be
created for want of a socket or a thread ends the server (`SessionFails`). The code
takes the ages from the wall clock (`server.rs:201-212`); the model assumes that
nobody sets it, since a step of the idle time drops every session at once. What
packets hold is left out. `SessionsAreSound` includes that `MaxWorkers` is never needed in full, so
that this bound cuts nothing off.

### Update

`files` is what programs see, `disk` what is synced; a power loss keeps any
combination of the two, field by field. `pc` is the installer (forward, or back in
its trap), `boot` the boot scripts. A command may fail, a signal may come, the
installer may be killed and leave its lock. Settings are the release whose
installer wrote them. Left out: the first installation, the migration of v0.5.15,
failures of `rm` and `ln` after the journal is gone.

The three links that stay with the newest release after a rollback are fields of
their own: `flows`, `guard` and `initd` (`libexec/gofro/dns-flows`, `libexec/gofro/guard`,
`init.d/gofro-guard`), each replaced by a step of its own and without a sync
(`LinkFlows`, `LinkGuard`, `LinkInitd`); only `guard` is looked at by `prune_releases`
and by the refusal of a pinned release. Where a link leads nowhere, the agent's stop
and restart fail (`GuardRuns`, `Startable`), and with them the rollback. `enabled` are
the services' links in rc.d, which a recovery that gives up removes.

A rollback may fail at every command and as often as it likes (`RollbackFails`, not
counted among the faults): the services do not stop, `transaction restore` refuses
because the boot guard's identity is another one (`transaction:119-131`), the firewall
does not reload, a link or file cannot be replaced, the old release is not healthy.
Two history variables name what the code does not repair: `broken` (a prune has
removed a release that a guard link still names) and `down` (a rollback without a
journal gave up after it had stopped the services).

`LateSignals` and `EarlyUpdates` switch on two windows that the code leaves
open; see the findings.

`Update` implements `Installed` under the mapping `AfterBoot`: what the router would
be after a boot that nothing disturbs, which is what the files say without a
journal, and the old release with the settings of the snapshot with one. Of all the
steps only `clear_pending` changes it.

## 3. Runs

| Run | Instance | Checks |
|---|---|---|
| `controller` | 2 servers, 2 policies, 2 devices, exclusion limit 1 | `IInv`, `UnguardedMeansEnforced`, `ExemptDevicesSeeCommittedPolicy`, `NoPinnedDnsFlows`, `IdleMeansCoherent`, `AnswersTellTheTruth`, `ImplementsGateway` |
| `lock` | 1 of each, fair | `LockIsReleased` |
| `fakedns` | 1 worker, 2 names on 2 hosts and a LAN host, pool 2, limit 1, 2 policies, 2 faults, time 3, fair | `LiveFakesAreKept`, `ForwardingIsExact`, `ToldFakesLead`, `ExpiredLeasesGo`, `RequestsAreAnswered` |
| `routing` | every list of up to 3 rules of a pool of 14, every default, 3 addresses, 2 names; beside it every list of up to 4 networks of 3-bit addresses | `TrafficFollowsPolicy`, `LookupsAreSafe`, `NothingSlipsPast`, `AggregationIsExact`, `KernelAgrees` |
| `auth` | 2 clients, 2 passwords, 2 sessions, 3 faults | `LocksAreInUse`, `SessionsFollowPassword`, `ClaimOutlivesPowerLoss`, `WrongPasswordsAreThrottled`, `PasswordReplacedByItsHolder`, `ChangeAnswersAreTrue` |
| `managed` | 1 VPS, new or of an old release, 2 host keys, 2 peers, 3 faults, 1 late command | `TrustIsDurable`, `EnrolledKeepsAccess`, `FirstKeyStays`, `AnswersAreTrue` |
| `friends` | 2 keys, 2 names, 2 addresses, new and 4 old servers, 2 faults | `RoutersAreNoFriends`, `RemovedStaysOut`, `WarpSourcesAreGuarded`, `OthersKeepTheirRoutes`, `ReportsAreTrue` |
| `relay` | 2 clients, 2 sources, room for 1 session, 1 fault, fair | `SessionsAreSound`, `RecentSessionsStay`, `ServiceGoesOn` |
| `update` | 3 releases, 5 faults, fair | `WholeRelease`, `RecoveryIsPossible`, `ImplementsInstalled`, `JournalsEnd` |
| `auto_update` | 1 of each | violation: `MemoryMatchesFile` |
| `update_retry` | 2 releases, 1 fault | violation: `NoOrphanSnapshot` |
| `guard_links` | 3 releases, 1 fault | violation: `GuardLinksLead` |

What the properties say:

- `UnguardedMeansEnforced` is the fail-closed property: guard down means that
  the kernel enforces every version of the file that may survive.
  `ImplementsGateway` says the same of steps: nothing that unguarded traffic meets
  changes except through a closed gate.
- `ExemptDevicesSeeCommittedPolicy`: excluded devices are forwarded while the
  guard is up, so what they meet meanwhile must be the committed policy.
- `NoPinnedDnsFlows`: conntrack flows are cleaned before forwarding resumes.
- `IdleMeansCoherent`: five copies of the configuration agree at rest.
- `LiveFakesAreKept`: an address stays with its name and host as long as a
  client may use it. `ForwardingIsExact`, `ToldFakesLead`: with the guard down, the
  kernel translates nothing stale and everything that clients were told.
- `ExpiredLeasesGo`, `RequestsAreAnswered`, `LockIsReleased`: those who share the
  locks get on.
- `TrafficFollowsPolicy`: a packet is marked as the policy says for its name and
  real address, whether the answer was rewritten or not. `LookupsAreSafe`: a
  lookup leaves on a path as protected as anything the answer might lead to, and
  is refused only when all traffic would be. `NothingSlipsPast`: neither IPv6 nor
  a missing VPN or alias is a way around.
- `AggregationIsExact`: the vector loses no address at any step and ends sorted,
  disjoint and shortest. `KernelAgrees`: the intervals are the list and the budget
  counts them.
- `SessionsFollowPassword`: no session outlives the password it was issued under,
  and no login slips in beside a change. `ClaimOutlivesPowerLoss`: after a login no
  power loss makes the router claimable again.
- `TrustIsDurable`, `FirstKeyStays`: the root password goes to one host key until
  the administrator resets the pin. `EnrolledKeepsAccess`: no rollback and no late
  command removes the peer of a saved server.
- `RoutersAreNoFriends`: a router never looks like a friend that the panel may
  revoke. `RemovedStaysOut`: a confirmed removal is final across reboots.
- `SessionsAreSound`, `RecentSessionsStay`, `ServiceGoesOn`: a session that looks
  usable has a worker, is not lost early, and a full table does not stay full.
- `WholeRelease`, `RecoveryIsPossible`, `ImplementsInstalled`, `JournalsEnd`: when
  nobody is at work, release, version, settings and services belong together; the
  boot always has what it needs, and where the guard's commands are gone nothing was
  switched yet; what a boot leads to changes at the commit only, to a newer release.
  `JournalsEnd` has two parts: whoever works on a journal comes to an end, whatever
  fails; and if updates go on being started and rollbacks do not go on failing, the
  journal goes, unless a killed installer left its lock or a prune broke the guard.
- `AnswersTellTheTruth`, `ChangeAnswersAreTrue`, `AnswersAreTrue`, `ReportsAreTrue`:
  what the caller was told of a change that may have half happened. Of a profile that
  the VPS refused with an error `AnswersAreTrue` of `Managed` claims nothing: see the
  gaps below.

### Bounds

- `Controller` needs no counters. Two devices with a limit of one reach the limit
  and distinguish the device being changed from another; two servers reach
  replacing the active one and deleting the last one; two policies suffice
  because a policy is only compared with another. Endpoints and credentials have
  no variety in this instance; the proofs cover any number.
- `FakeDns`: the time lets a lease expire, run out of its grace, be removed and its
  address be leased again; a limit below the pool size reaches the full store, a
  pool of two the wrap-around; two faults a failing rollback. Seconds are scaled
  (clamp 1..2, grace 1) since only their order matters. One worker competes with
  the cleanup and updates; the proofs cover any number of workers.
- `Routing`: a public address, one of `LAN_RANGES` and one of a subnet outside
  them are the classes that the code distinguishes. Three rules put a rule that
  must not count between or after two that do. The stored order is the reverse of
  the order that counts. The pool leaves out only variations of the matched sets.
- `GeoIp`: eight addresses and four networks are enough for a cascade of merges,
  for a network inside a merged one, and for a list that merges to everything.
- `Auth`: two clients race each other and the second session evicts; three faults
  reach a failing sync followed by a failing repair and a power loss.
- `Managed`: one host, because hosts share only the lock; two keys are a
  reinstalled or another server, two peers a peer that is replaced.
- `Friends`: two keys are a router and a friend; two addresses and two names reach
  an address and a name that are taken.
- `Relay`: two clients for one place reach the full table and the replacement.
- `Update`: a third release reaches an update after a rolled-back one; five faults
  reach a power loss during the recovery from a failed rollback.

Clients and passwords, host keys and peers, servers and devices are symmetric in
`auth`, `managed` and `controller`, which check no liveness. `managed` and `update`
do not check deadlock: the bounded peers and releases run out.

### Fairness

- `Controller`: weak fairness of the agent's own steps once an operation has
  begun, and of a service stop under way. The threads run to the end of an
  operation without waiting for anything but the calls, which the scripts bound.
- `FakeDns`: weak fairness of the steps of a worker, of the cleanup once it has
  begun and of an update, because they wait only for calls that return (the
  upstream within `DNS_TIMEOUT`); strong fairness of `LockStore` and
  `PurgeExpired`, because a mutex is handed on to those who wait and the cleanup
  comes round every minute.
- `Relay`: threads run, time passes and WireGuard is started again by its service
  manager; at least one router goes on (its relay client is restarted when it fails
  and its WireGuard sends keepalives), the others may be switched off at any point.
- `Update`: scripts that are not interrupted run on, and a boot proceeds. Nothing is
  assumed of updates: the updater starts one by itself only with
  `auto_update_enabled` (`libexec/gofro/update:24-26`, `:78`), which is shipped as `false`
  (`defaults/etc/gofro/controller.json:2`), and otherwise waits for a request. With the
  default a journal that a failed recovery or finalisation left stays until someone
  acts. That the journal goes is therefore stated under the condition that updates go
  on being started (the second part of `JournalsEnd`, where `WF_vars(Begin)` is a
  premise of the property).

Faults are finite in every run, except the failures of a rollback in `update`. Nothing is assumed of requests, edits, crashes or
power losses.

### Findings

- `auto_update`: `set_auto_update` treats a published but unsynced save like a
  failed one. The agent stays healthy with the old flag, the file has the new
  one, and the next edit reverts it.
- `update_retry`: a power loss between the snapshot and the journal, or between
  the removal of the journal and of the snapshot, leaves `/etc/gofro/update-VERSION`
  behind, and the snapshot of every later attempt at that version is refused.
- `guard_links`: the guard's three links are replaced one after another and unsynced
  (`install.sh:133-141`), and the prune reads one of them. TLC's trace: the power
  goes while release 2 is installed, between `dns-flows` and `guard`; the boot goes
  back to release 1 and leaves the links, and the update to release 3 prunes release 2. The
  guard has lost `dns-flows`; `link_runtime` dies, and the agent's stop and with it the
  rollback give up.
  `RecoveryIsPossible` says how far it goes: only the prune of a new update does
  this, and when a boot then gives up, nothing had been switched.

Gaps that the models show and that have no run of their own:

- A service stop that gives up after arming leaves its guard to the running
  agent, whose next edit clears it without a full reconcile
  (`NoPinnedDnsFlows` excepts the state after it; cf. `src/deploy/openwrt/README.md:190`).
- A pin publication that is stopped between link and unlink leaves a second link.
  If the host key changes then, set-up refuses the key and the reset refuses the
  pin (`managed/pins.rs:152`, `:225`).
- An error of `create-router-profile` is a plain failure to the agent
  (`managed/ssh.rs:585-586`), but `gofro-server` may have left the new peer on the
  interface when its own rollback failed (`gofro-server/src/managed.rs:440-451`). The
  router does not know the key, so that nothing removes it.
- A signal between `clear_pending` and `ROLLBACK=` (`install.sh:562`) starts a
  rollback without a journal; a power loss during it leaves the new release with old
  settings. TLC shows it for `WholeRelease` with `LateSignals = TRUE`.
- An update that starts while `gofro-finalize` runs rolls back, retries the same
  version and takes a new snapshot under the old name, which `gofro-finalize` then
  removes (`gofro-finalize:69`): a power loss now finds a journal without its
  snapshot. TLC shows it for
  `RecoveryIsPossible` with `EarlyUpdates = TRUE`.

## 4. Proofs

Every safety invariant and every action property that a passing run checks is
also a theorem for all values of the constants (in `Update` with the windows named
there closed). Each proof rests on an inductive
invariant `IInv` with one lemma per action, which TLC checked on small instances
before it was proved.

### Controller

`ControllerProofs` proves, for every set of keys, endpoints, credentials,
policies and devices and every exclusion limit:

- `InvariantHolds`: `Spec => []IInv`;
- `TypeCorrect`, `FailClosed` (`UnguardedMeansEnforced`), `IdleCoherence`
  (`IdleMeansCoherent`), `ActiveServerSafety` (`StoredConfigsAreUsable`);
- `EditsAreGood`: an edit labelled *config* changes nothing that the kernel was
  asked for, one labelled *policy* leaves the tunnel alone, and the result has
  an active server when it needs one.

`UnguardedMeansEnforced` is not inductive: at `uClear` it needs to know what the
steps before established. `IInv` therefore has one conjunct per phase
(`AtRest`, `Updating`, `Finishing`, `RollingBack`, `CommittedButDegraded`,
`Starting`), each saying what memory, file and kernel already agree on at each
`pc`, next to `Control` (who holds the lock, what is loaded), `Stored` (the
configurations are usable) and `Guarding` (where the guard is known to be up).
Because the auto-update flag may differ between memory and file (the finding
above), the file is compared with the memory up to that flag (`SameIntent`). The
proof has one lemma per action and one step per group of conjuncts.

Three more properties need more than the phases.

- `PinnedFlows` (`NoPinnedDnsFlows`) rests on `FlowInv`: before the guard is
  cleared the flows were cleaned up, or interception has not changed since the
  guard went up; a stop under way has a guard of its own.
- `ExemptDevices` (`ExemptDevicesSeeCommittedPolicy`) rests on `ExemptInv`: while
  rules and tunnel change, guard and table exempt the same devices; otherwise the
  rules and the tunnel are those of the file.
- `Answers` (`AnswersTellTheTruth`) is an action property: each step that ends a
  transaction is compared with what its phase says of memory and file.

`Refinement`: `Spec => ImplementsGateway`. Every step of `Controller` has one of
three shapes (`Shape`): it leaves the file alone and changes the kernel only
behind the gate; it writes or syncs the file and touches nothing else; or it is a
power loss. `IInv` gives the rest: where the gate is open the kernel enforces
every version of the file, so that a write behind an open gate cannot change the
policy and an opening gate shows the stored one.

### FakeDns

`FakeDnsProofs` proves, for every set of names, hosts and workers, every pool,
limit, TTL range, grace and set of policies:

- `FakeDnsInvariant` (`IInv`), `FakeDnsTypes`, `LiveFakes`
  (`LiveFakesAreKept`), `StoreCoherence` (`StoreIsCoherent`);
- `KernelInvariant` (`KInv`), `ExactForwarding` (`ForwardingIsExact`),
  `ToldLead` (`ToldFakesLead`).

`IInv` adds to the two store properties who may hold the mutex and beside whom
(`LockInv`), that the leases in the holder's hands are either fresh, so that
nobody was told about them, or expired (`BatchInv`), and that only running
promises are remembered (`ToldInv`). That an expired lease has no running promise
then follows from arithmetic. The search for a free address is proved to end:
fewer leases than addresses leave one free (`PoolHasRoom`), the offsets reach
every address (`ScanReaches`) and a least offset exists (`LeastOffset`, by the
well-foundedness of the naturals).

`KInv` relates the kernel to the leases. With the guard down (`OpenInv`) each
lease is right in the kernel or unknown to it, unknown if it is in the holder's
hands, and there are no strays; workers use the saved policy because no update
has run since they read it. With the guard up the kernel may be anything, except
that a transaction past its apply step has made it exact for the policy it is
about to make active (`TransactionInv`), which is what `ClearGuard` relies on.
Each action has a lemma for `IInv` (`...Step`) and one for `KInv` (`...Kernel`).

### Auth

For any finite set of clients, any passwords and any number of faults: `Locks`,
`Sessions`, `Claim`, `Throttle`, and the action properties `Replacement` and
`ChangeAnswers`. `SessionsFollowPassword` alone is not inductive, because a login
issues its session several steps after it verified the password: `LockInv` says
that every such request holds the one hashing permit, so that no change can come
between. `SetupInv`, `AdminInv`, `LoginInv` and `ChangeInv` say what each request
knows at each step (no record was there; the password presented is the one on the
disk; the marker is durable before the code goes), and `SessionInv` that whoever
is logged in is so on a claimed router (`Claimed`: no version of the files that a
power loss may leave is one to be set up again).

### Routing

For every set of names, addresses and requested configurations with rules in any
number and order: `Traffic`, `Lookups`, `NoWayAround`. The kernel reads the rules
by target and the policy reads them in order; the lemmas show that the first match
of both is the same. `AnswerInv` and `MarkInv` carry that from the lookup to the
packet.

### GeoIp

In `RoutingProofs` too, for every width of the addresses, every list and every
address asked for: `Aggregation` (`AggregationIsExact`) and `KernelIntervals`
(`KernelAgrees`). The lemmas about networks come first: the size of a network
divides that of a larger one (`SizesDivide`, by the least counterexample), hence
two networks are nested or apart (`Nested`, `BeginsTogether`, `NetworkEnds`), and
the siblings that the code merges are the two halves of their parent (`Halves`).
The invariant `GeoInv` then follows the loops. `ListInv` and `ResultInv`: the
result is sorted, disjoint and without siblings side by side, it lies before the
network in hand and is at most everything unread in the order of the list; that
order is what makes comparing with the last result alone sufficient, since a network
not inside it must begin behind it (`NotContained`), and what survives a merge,
because the parent begins where the removed result began. `CoverInv`: result, hand
and unread rest are the list. `SearchInv`: the partition point is between `low`
and `high`. `RenderInv`: the elements and the interval in hand are the networks
taken, apart from each other, and one more than the gaps that `select` counts among
them.

### Update

For any number of releases and faults: `OneRelease` (`WholeRelease`), `Recovery`
(`RecoveryIsPossible`), `WayBackFirst` (the journal of an update that was not
committed is removed only after everything is back) and `Refinement`
(`ImplementsInstalled`). `SyncInv` says which files are never written without a
sync, `JournalInv` that whoever finds a journal can act on it, `BeforeInv`,
`AfterInv`, `BackInv` and `BootInv` what holds at each step of the installer, of a
rollback and of a boot. `LinkInv` says what the guard's links may name at each step
(the current release, the one being installed, or what they named before), so that
outside a prune none of them loses its release unless `broken` holds already; the
lemmas about `GiveUp` show that a rollback that ends early, any number of times,
leaves the journal or nothing to undo.

The refinement is shown by the release to which a boot leads, `Base`: `BaseIsWhole`
(the settings of the snapshot are those of that release), `BaseStep` (no step but
`ClearPending` changes it, since the journal is written while its release is the
current one and removed when it is again, and since link and journal are always
synced), and `CommitStep`, which needs one more invariant, `NewerInv`: the updater
compared the offer with the version file, which without a journal tells the truth,
and offers only grow.

All theorems assume `~EarlyUpdates`, the value of the `update` run: with an update
that starts before the boot has finished the last one, the snapshot may be gone
(section 3). `OneRelease`, `WayBackFirst` and `Refinement` assume `~LateSignals` as
well, because the code does not have these properties with a signal between commit
and disarming. `Recovery` does not: in that window too every power loss finds the
release, snapshot and link that a journal names, and neither the current release nor
the one that `guard` names is removed.
The parts of the invariant that are about contents are therefore conditional on
`~LateSignals`, those about presence are not.

### Friends

For all names, keys, address ranges and older stores: `Routers`, `Removed`,
`WarpSources`, `StoreStaysReadable` (`read_store` accepts whatever was written), and
the action properties `Addresses` (`OthersKeepTheirRoutes`) and `Reports`
(`ReportsAreTrue`). The invariant has a part about the command that runs: which
steps it takes (`PathInv`), which store it found and writes (`StoreInv`), that the
routes it gives are free (`RoutesInv`), and how far the interface is from what it
found (`PeersInv`), which is what the rollback relies on. Older stores are assumed
to be ones that their `read_store` accepted (`LegacyIsReadable`).

### Managed

For all hosts, keys and peers, any number of faults and late commands: `Trust`,
`Access`, and the action properties `FirstKey` and `Answers`. `ShapeInv` says which
remote calls an operation may have left, `BootInv` that an enrolment gives the
password to the pinned key only, `PeerInv` where the peer it created is,
`TrustInv` that a trusted key is durable. `ServerInv` is the strengthening that
`EnrolledKeepsAccess` needs: no command that is still under way, after its caller
gave up, removes a peer of a saved server. `Answers` speaks of the profiles that the
router received: of a command that the VPS answered with an error the proof assumes
nothing, neither that it ran nor that it did not.

### Relay

For any clients, source addresses, table size and idle time of at least two
periods: `Sound` (`SessionsAreSound`), `Recent` (`RecentSessionsStay`) and
`ThreadsSuffice`. That there are never more than twice `MaxClients` threads is the
hard part: a thread may outlive its session by a period, and sessions go in every
period. `CountInv` counts, with the threads that lost their session since the last
clean-up, those that will lose it at the next one: all of them had a session at the
last clean-up (a younger session is not idle yet, hence two periods), so that
together they are no more than `MaxClients`. `PeriodInv` says that every period has
one clean-up; `ThreadInv`, `SessionInv` and `AgeInv` relate thread, session and
silence. `ThreadsSuffice` shows that the bound `MaxWorkers` of the run does not
hide anything: with twice `MaxClients` there is always an identity left for a
session that has room. `Recent` excepts the end of the server, and holds as long as
the clock is not set.

### Assumptions and limits

Assumptions: the markers (`NoKey`, `NoGuard`, ...) differ from the values they
stand beside, the installed configuration is usable with the VPN off, the lease
limit is not above the pool size (32768 and 8192 against 131070), the clamp has
its bounds in order, older stores are readable, the relay's idle time is at least
two of its receive time-outs, and the powers of two double (`SizesDouble`: the
provers have no exponentiation). TLC evaluates them in every run.

Only model-checked: all liveness (`LockIsReleased`, `ExpiredLeasesGo`,
`RequestsAreAnswered`, `ServiceGoesOn`, `JournalsEnd`: fairness and ENABLED are out
of the prover's reach).

## 5. Plan

Done: `Controller`, `FakeDns`, `Auth`, `Routing` with `GeoIp`, `Update`, `Managed`,
`Friends`, `Relay`, and the refinements of `Gateway` by `Controller` and of
`Installed` by `Update`.

Proved: all invariants and action properties of the passing runs (section 4). What
could be proved further: what the contents may be under `LateSignals` (that the
files are present is proved).

Modules that remain: `Tunnel` (the steps inside `start_and_select`, the mode
helper and the hotplug script), the WARP helper and its exit selection, and the
epochs of the web panel's store.

## 6. Not modelled

`PROJECT.json` gives the reason for each part. In short: key derivation, request
parsing and the preview of the panel, device list and statistics,
`wireguard-status` (no state of the router); the encodings of the relay, of DNS
messages and of the geodata files; downloads and signatures of an update; the
server installer and WARP; the panel's components.

The wall clock is never set in any model: in the code a jump can expire leases
(`fake_dns/store.rs`) and relay sessions (`server.rs:201-212`) early, and nothing
defends against it. Hazards that the code accepts or that are known gaps (above) are listed there with a note instead of a property.
