----------------------------- MODULE Controller -----------------------------
(***************************************************************************)
(* The transaction by which gofro-agent moves the router from one          *)
(* configuration to the next (controller.rs), its start-up and full        *)
(* reconcile (main.rs, controller/mode.rs), the crash-safe configuration   *)
(* file (config.rs) and the service scripts that share the apply lock and  *)
(* the forwarding guard with it (init.d/gofro-agent, libexec/guard).       *)
(*                                                                         *)
(* Every call that leaves the process (nft, tunnel helpers, conntrack, the *)
(* file system, SQLite) is a step of its own that may fail, and between    *)
(* any two steps the process may die or the router may lose power.  pc is  *)
(* the point the one running transaction has reached: all of them hold the *)
(* apply lock, which is only ever tried, so there is never a second one.   *)
(*                                                                         *)
(* Assumed of the environment: the boot guard can be armed, nobody else    *)
(* edits the two nftables tables, and procd's kill ends the agent.         *)
(***************************************************************************)
EXTENDS ControllerConfig

CONSTANTS
    DefaultConfig,          \* /etc/gofro/controller.json as installed
    NoConfig, NoTable, NoGuard, NoRouting,
    Torn                    \* a tunnel left half configured

ASSUME DefaultIsWellFormed ==
    DefaultConfig \in Config /\ WellFormed(DefaultConfig) /\ ~DefaultConfig.vpn
ASSUME NoGuardIsFresh == \A S \in SUBSET Macs : NoGuard # S
ASSUME NoConfigIsFresh == \A c \in Config : NoConfig # c
ASSUME NoRoutingIsFresh == NoRouting \notin Routings

VARIABLES
    pc,           \* where the agent is: "off", "idle" or a step of a transaction
    lock,         \* holder of apply.lock: "free", "agent" or "lifecycle"
    mem,          \* AppState.config
    active,       \* AppState.routing, the policy FakeDNS classifies with
    dnsVpn,       \* FakeDns.vpn_enabled
    degraded,     \* AppState.routing_degraded
    base,         \* configuration when the running operation began (history)
    next, change, \* update_config: the edited copy and what it requires
    netFailed,    \* update_config: the network part of the rollback failed
    outcome,      \* answer to the last API call
    disk,         \* controller.json as every process sees it
    stable,       \* the contents a power loss may leave in controller.json
    leases,       \* routing that the stored FakeDNS lease targets follow
    table,        \* nftables table gofro_routing
    guard,        \* nftables table gofro_guard: the devices it lets through
    net,          \* tunnel, peer and relay
    stale,        \* devices with a DNS flow pinned to the wrong resolver
    lc,           \* progress of the service scripts
    aborted       \* a stop was given up since the last reconcile (history)

agentVars  == <<mem, active, dnsVpn, degraded>>
localVars  == <<base, next, change, netFailed>>
diskVars   == <<disk, stable>>
kernelVars == <<table, guard, net, stale>>
vars == <<pc, lock, agentVars, localVars, outcome, diskVars, leases, kernelVars, lc, aborted>>

Startup   == {"lock", "load", "sync0", "publish0", "flows0", "open"}
Reconcile == {"rSync", "rGuard", "rPolicy", "rCommit", "rFlows", "rNet", "rRetire", "rClear"}
Update    == {"uSnap", "uGuard", "uNet", "uPolicy", "uCommit", "uSave", "uDir",
              "uPublish", "uFlows", "uClear"}
Rollback  == {"bNet", "bRestore", "bPolicy", "bCommit", "bClear"}
Committed == {"cSync", "cPublish", "cFlows", "cGuard"}
Plain     == {"kSave", "kDir", "aSave", "aDir"}
Busy      == (Startup \ {"lock"}) \cup Reconcile \cup Update \cup Rollback \cup Committed \cup Plain

Table == [rules : [vpn : BOOLEAN, warp : Cred, routing : Routings],
          excl : SUBSET Macs, dns : BOOLEAN]
ASSUME NoTableIsFresh == \A t \in Table : NoTable # t

Nets  == {Torn, Bypass} \cup [peer : Keys, ep : Endpoints, cred : Cred]

ControlTypes ==
    /\ pc \in {"off", "idle"} \cup Startup \cup Busy
    /\ lock \in {"free", "agent", "lifecycle"}
    /\ lc \in {"boot", "stopped", "running", "stopping", "armed"}
    /\ outcome \in {"none", "ok", "error", "committed"}
    /\ aborted \in BOOLEAN

AgentTypes ==
    /\ mem \in {NoConfig} \cup Config
    /\ active \in {NoRouting} \cup Routings
    /\ dnsVpn \in BOOLEAN
    /\ degraded \in BOOLEAN

LocalTypes ==
    /\ base \in {NoConfig} \cup Config
    /\ next \in {NoConfig} \cup Config
    /\ change \in Changes
    /\ netFailed \in BOOLEAN

StoreTypes ==
    /\ disk \in Config
    /\ stable \in SUBSET Config
    /\ leases \in {NoRouting} \cup Routings

KernelTypes ==
    /\ table \in {NoTable} \cup Table
    /\ guard \in {NoGuard} \cup SUBSET Macs
    /\ net \in Nets
    /\ stale \in SUBSET Macs

TypeOK == ControlTypes /\ AgentTypes /\ LocalTypes /\ StoreTypes /\ KernelTypes

-----------------------------------------------------------------------------
(* The kernel and the disk, as the calls that change them see them.        *)

\* The table redirects the DNS queries of device m to FakeDNS.
Intercepts(t, m) == t # NoTable /\ t.dns /\ m \notin t.excl

\* conntrack keeps the resolver of a flow that was there before the table changed.
PinFlows ==
    stale' = stale \cup {m \in Macs : Intercepts(table, m) # Intercepts(table', m)}

\* dataplane.rs apply: one nft transaction that replaces gofro_routing.
ApplyTable(c, routing, excl) ==
    /\ table' = [rules |-> [Render(c) EXCEPT !.routing = routing],
                 excl |-> excl, dns |-> TRUE]
    /\ PinFlows

\* dataplane.rs publish_exclusions and the guard script's arm: exclusion set of
\* an existing table and guard in one nft transaction.
PublishSet(excl) ==
    /\ guard' = excl
    /\ table' = IF table = NoTable THEN NoTable ELSE [table EXCEPT !.excl = excl]
    /\ PinFlows

\* controller/mode.rs apply_network: several helpers, each of which can fail.
ApplyNetwork(c) == net' = NetOf(c)
TearNetwork(c)  == net' \in {net, Torn, NetOf(c)}

\* config.rs save up to and including the rename; the directory entry is not
\* yet durable.
Rename(c)  == disk' = c /\ stable' = stable \cup {c}
SyncDisk   == stable' = {disk} /\ UNCHANGED disk

Goto(label) == pc' = label /\ UNCHANGED <<lock, outcome, base, next, change, netFailed>>

\* The operation ends: locks are dropped and the caller gets its answer.
Respond(answer) ==
    /\ pc' = "idle" /\ lock' = "free" /\ outcome' = answer
    /\ base' = NoConfig /\ next' = NoConfig /\ change' = "config"
    /\ netFailed' = FALSE

\* What is lost with the process.
LoseMemory ==
    /\ mem' = NoConfig /\ active' = NoRouting /\ dnsVpn' = FALSE /\ degraded' = TRUE
    /\ base' = NoConfig /\ next' = NoConfig /\ change' = "config"
    /\ netFailed' = FALSE /\ outcome' = "none"

Exit == /\ pc' = "off" /\ LoseMemory
        /\ lock' = IF lock = "agent" THEN "free" ELSE lock

-----------------------------------------------------------------------------
(* update_config: every edit of the desired state.                         *)

\* Mutant: edits are accepted while degraded.
BeginUpdateAnyway ==
    /\ pc = "idle" /\ lock = "free"
    /\ \E e \in Edits(mem) :
         /\ next' = e.next /\ change' = e.change
         /\ pc' = CASE e.change = "config"  -> "kSave"
                    [] e.change = "policy"  -> "uGuard"
                    [] e.change = "network" -> "uSnap"
    /\ lock' = "agent" /\ base' = mem /\ outcome' = "none"
    /\ UNCHANGED <<agentVars, netFailed, diskVars, leases, kernelVars, lc, aborted>>

\* The locks are taken, a degraded controller refuses, the edit is tried on a
\* copy.  Refused calls change nothing.
BeginUpdate ==
    /\ pc = "idle" /\ lock = "free" /\ ~degraded
    /\ \E e \in Edits(mem) :
         /\ next' = e.next /\ change' = e.change
         /\ pc' = CASE e.change = "config"  -> "kSave"
                    [] e.change = "policy"  -> "uGuard"
                    [] e.change = "network" -> "uSnap"
    /\ lock' = "agent" /\ base' = mem /\ outcome' = "none"
    /\ UNCHANGED <<agentVars, netFailed, diskVars, leases, kernelVars, lc, aborted>>

\* network.rs Snapshot::capture only reads.
CaptureSnapshot ==
    /\ pc = "uSnap"
    /\ Goto("uGuard") \/ Respond("error")
    /\ UNCHANGED <<agentVars, diskVars, leases, kernelVars, lc, aborted>>

\* An install failure never enters the rollback: nothing was changed yet.
InstallGuard ==
    /\ pc = "uGuard"
    /\ \/ /\ guard' = mem.excl
          /\ Goto(IF change = "network" THEN "uNet" ELSE "uPolicy")
       \/ Respond("error") /\ UNCHANGED guard
    /\ UNCHANGED <<agentVars, diskVars, leases, table, net, stale, lc, aborted>>

RollbackFrom == Goto(IF change = "network" THEN "bNet" ELSE "bPolicy")

UpdateNetwork ==
    /\ pc = "uNet"
    /\ \/ ApplyNetwork(next) /\ Goto("uPolicy")
       \/ TearNetwork(next) /\ RollbackFrom
    /\ UNCHANGED <<agentVars, diskVars, leases, table, guard, stale, lc, aborted>>

\* The new policy keeps the exclusions in force until they are committed.
UpdatePolicy ==
    /\ pc = "uPolicy"
    /\ \/ ApplyTable(next, next.routing, mem.excl) /\ Goto("uCommit")
       \/ RollbackFrom /\ UNCHANGED <<table, stale>>
    /\ UNCHANGED <<agentVars, diskVars, leases, guard, net, lc, aborted>>

CommitTargets ==
    /\ pc = "uCommit"
    /\ \/ leases' = next.routing /\ Goto("uSave")
       \/ RollbackFrom /\ UNCHANGED leases
    /\ UNCHANGED <<agentVars, diskVars, kernelVars, lc, aborted>>

SaveConfig ==
    /\ pc = "uSave"
    /\ \/ Rename(next) /\ Goto("uDir")
       \/ RollbackFrom /\ UNCHANGED diskVars
    /\ UNCHANGED <<agentVars, leases, kernelVars, lc, aborted>>

AdoptNext == mem' = next /\ active' = next.routing /\ dnsVpn' = next.vpn

\* Mutant: changed exclusions are saved but not published.
SyncDirectorySkipsPublish ==
    /\ pc = "uDir" /\ AdoptNext
    /\ \/ SyncDisk /\ Goto("uClear") /\ UNCHANGED degraded
       \/ degraded' = TRUE /\ Goto("cSync") /\ UNCHANGED diskVars
    /\ UNCHANGED <<leases, kernelVars, lc, aborted>>

\* Mutant: a published save whose sync failed is rolled back like any other.
SyncDirectoryRollsBack ==
    /\ pc = "uDir"
    /\ \/ AdoptNext /\ SyncDisk
          /\ Goto(IF mem.excl # next.excl THEN "uPublish" ELSE "uClear")
       \/ RollbackFrom /\ UNCHANGED <<mem, active, dnsVpn, diskVars>>
    /\ UNCHANGED <<degraded, leases, kernelVars, lc, aborted>>

\* The parent directory is synced.  Once renamed, a failure here is a
\* PublishedSaveError: the new configuration stays.
SyncDirectory ==
    /\ pc = "uDir" /\ AdoptNext
    /\ \/ /\ SyncDisk /\ UNCHANGED degraded
          /\ Goto(IF mem.excl # next.excl THEN "uPublish" ELSE "uClear")
       \/ degraded' = TRUE /\ Goto("cSync") /\ UNCHANGED diskVars
    /\ UNCHANGED <<leases, kernelVars, lc, aborted>>

\* Mutant: the guard goes without the flow cleanup.
PublishExclusionsOnly ==
    /\ pc = "uPublish"
    /\ \/ PublishSet(mem.excl) /\ Goto("uClear") /\ UNCHANGED degraded
       \/ degraded' = TRUE /\ Goto("cPublish") /\ UNCHANGED <<table, guard, stale>>
    /\ UNCHANGED <<mem, active, dnsVpn, diskVars, leases, net, lc, aborted>>

PublishExclusions ==
    /\ pc = "uPublish"
    /\ \/ PublishSet(mem.excl) /\ Goto("uFlows") /\ UNCHANGED degraded
       \/ degraded' = TRUE /\ Goto("cPublish") /\ UNCHANGED <<table, guard, stale>>
    /\ UNCHANGED <<mem, active, dnsVpn, diskVars, leases, net, lc, aborted>>

CleanupDnsFlows ==
    /\ pc = "uFlows"
    /\ \/ stale' = {} /\ Goto("uClear") /\ UNCHANGED degraded
       \/ degraded' = TRUE /\ Goto("cPublish") /\ UNCHANGED stale
    /\ UNCHANGED <<mem, active, dnsVpn, diskVars, leases, table, guard, net, lc, aborted>>

ClearGuard ==
    /\ pc = "uClear"
    /\ \/ guard' = NoGuard /\ Respond("ok") /\ UNCHANGED degraded
       \/ degraded' = TRUE /\ Goto("cPublish") /\ UNCHANGED guard
    /\ UNCHANGED <<mem, active, dnsVpn, diskVars, leases, table, net, stale, lc, aborted>>

-----------------------------------------------------------------------------
(* The rollback of an update that was not committed.                       *)

RollbackNetwork ==
    /\ pc = "bNet"
    /\ \/ ApplyNetwork(mem) /\ Goto("bRestore")
       \/ /\ TearNetwork(mem) /\ netFailed' = TRUE /\ pc' = "bPolicy"
          /\ UNCHANGED <<lock, outcome, base, next, change>>
    /\ UNCHANGED <<agentVars, diskVars, leases, table, guard, stale, lc, aborted>>

\* network.rs Snapshot::restore: addresses, saved tunnel, relay endpoint.
RestoreSnapshot ==
    /\ pc = "bRestore"
    /\ \/ Goto("bPolicy") /\ UNCHANGED net
       \/ /\ net' = Torn /\ netFailed' = TRUE /\ pc' = "bPolicy"
          /\ UNCHANGED <<lock, outcome, base, next, change>>
    /\ UNCHANGED <<agentVars, diskVars, leases, table, guard, stale, lc, aborted>>

\* A failed rollback latches degraded and leaves the guard installed.
RollbackFails == Respond("error") /\ degraded' = TRUE

RollbackPolicy ==
    /\ pc = "bPolicy"
    /\ \/ ApplyTable(mem, active, mem.excl) /\ Goto("bCommit") /\ UNCHANGED degraded
       \/ RollbackFails /\ UNCHANGED <<table, stale>>
    /\ UNCHANGED <<mem, active, dnsVpn, diskVars, leases, guard, net, lc, aborted>>

\* Mutant: the failed network part of the rollback is forgotten.
RollbackTargetsForgetsNetwork ==
    /\ pc = "bCommit"
    /\ \/ leases' = active /\ Goto("bClear") /\ UNCHANGED degraded
       \/ RollbackFails /\ UNCHANGED leases
    /\ UNCHANGED <<mem, active, dnsVpn, diskVars, kernelVars, lc, aborted>>

\* Mutant: the lease targets are not rolled back.
RollbackTargetsSkipped ==
    /\ pc = "bCommit"
    /\ IF netFailed THEN RollbackFails ELSE Goto("bClear") /\ UNCHANGED degraded
    /\ UNCHANGED <<mem, active, dnsVpn, diskVars, leases, kernelVars, lc, aborted>>

RollbackTargets ==
    /\ pc = "bCommit"
    /\ \/ /\ leases' = active
          /\ IF netFailed THEN RollbackFails ELSE Goto("bClear") /\ UNCHANGED degraded
       \/ RollbackFails /\ UNCHANGED leases
    /\ UNCHANGED <<mem, active, dnsVpn, diskVars, kernelVars, lc, aborted>>

RollbackClear ==
    /\ pc = "bClear"
    /\ \/ guard' = NoGuard /\ Respond("error") /\ UNCHANGED degraded
       \/ RollbackFails /\ UNCHANGED guard
    /\ UNCHANGED <<mem, active, dnsVpn, diskVars, leases, table, net, stale, lc, aborted>>

-----------------------------------------------------------------------------
(* committed_failure: the configuration is published but not yet enforced. *)

CommittedSync ==
    /\ pc = "cSync"
    /\ \/ SyncDisk /\ Goto("cPublish")
       \/ Goto("cGuard") /\ UNCHANGED diskVars
    /\ UNCHANGED <<agentVars, leases, kernelVars, lc, aborted>>

CommittedPublish ==
    /\ pc = "cPublish"
    /\ \/ PublishSet(mem.excl) /\ Goto("cFlows")
       \/ Goto("cGuard") /\ UNCHANGED <<table, guard, stale>>
    /\ UNCHANGED <<agentVars, diskVars, leases, net, lc, aborted>>

CommittedFlows ==
    /\ pc = "cFlows" /\ Respond("committed")
    /\ stale' = {} \/ UNCHANGED stale
    /\ UNCHANGED <<agentVars, diskVars, leases, table, guard, net, lc, aborted>>

\* The routing set may still exempt removed devices: revoke their forwarding.
CommittedGuard ==
    /\ pc = "cGuard" /\ Respond("committed")
    /\ guard' = mem.excl \/ UNCHANGED guard
    /\ UNCHANGED <<agentVars, diskVars, leases, table, net, stale, lc, aborted>>

-----------------------------------------------------------------------------
(* Edits that only touch the file.                                         *)

SavePlain ==
    /\ pc = "kSave"
    /\ \/ Rename(next) /\ Goto("kDir")
       \/ Respond("error") /\ UNCHANGED diskVars
    /\ UNCHANGED <<agentVars, leases, kernelVars, lc, aborted>>

SyncPlain ==
    /\ pc = "kDir" /\ mem' = next
    /\ \/ SyncDisk /\ Respond("ok") /\ UNCHANGED degraded
       \/ degraded' = TRUE /\ Goto("cSync") /\ UNCHANGED diskVars
    /\ UNCHANGED <<active, dnsVpn, leases, kernelVars, lc, aborted>>

\* controller.rs set_auto_update: not refused while degraded, and a failed
\* save of either kind leaves the memory as it was.
BeginAutoUpdate ==
    /\ pc = "idle" /\ lock = "free"
    /\ \E enabled \in BOOLEAN : next' = [mem EXCEPT !.auto = enabled]
    /\ pc' = "aSave" /\ lock' = "agent" /\ base' = mem /\ outcome' = "none"
    /\ UNCHANGED <<agentVars, change, netFailed, diskVars, leases, kernelVars, lc, aborted>>

SaveAutoUpdate ==
    /\ pc = "aSave"
    /\ \/ Rename(next) /\ Goto("aDir")
       \/ Respond("error") /\ UNCHANGED diskVars
    /\ UNCHANGED <<agentVars, leases, kernelVars, lc, aborted>>

SyncAutoUpdate ==
    /\ pc = "aDir"
    /\ \/ SyncDisk /\ mem' = next /\ Respond("ok")
       \/ Respond("error") /\ UNCHANGED <<mem, diskVars>>
    /\ UNCHANGED <<active, dnsVpn, degraded, leases, kernelVars, lc, aborted>>

-----------------------------------------------------------------------------
(* Start-up: main.rs run, up to the full reconcile.                        *)

\* procd respawns an agent that exited by itself.
Respawn ==
    /\ pc = "off" /\ lc \in {"running", "stopping", "armed"}
    /\ pc' = "lock"
    /\ UNCHANGED <<lock, agentVars, localVars, outcome, diskVars, leases, kernelVars, lc, aborted>>

StartLock ==
    /\ pc = "lock"
    /\ \/ lock = "free" /\ lock' = "agent" /\ pc' = "load"
          /\ UNCHANGED <<agentVars, localVars, outcome>>
       \/ lock # "free" /\ Exit
    /\ UNCHANGED <<diskVars, leases, kernelVars, lc, aborted>>

\* A start-up that cannot go on tries to withdraw every exemption and exits.
ExitClosed == Exit /\ guard' \in {{}, guard}

StartLoad ==
    /\ pc = "load"
    /\ \/ mem' = disk /\ Goto("sync0") /\ UNCHANGED <<active, dnsVpn, degraded, guard>>
       \/ ExitClosed
    /\ UNCHANGED <<diskVars, leases, table, net, stale, lc, aborted>>

StartSync ==
    /\ pc = "sync0"
    /\ \/ SyncDisk /\ Goto("publish0") /\ UNCHANGED <<agentVars, guard>>
       \/ ExitClosed /\ UNCHANGED diskVars
    /\ UNCHANGED <<leases, table, net, stale, lc, aborted>>

\* dataplane.rs synchronize_startup.
StartPublish ==
    /\ pc = "publish0"
    /\ \/ PublishSet(mem.excl) /\ Goto("flows0") /\ UNCHANGED agentVars
       \/ ExitClosed /\ UNCHANGED <<table, stale>>
    /\ UNCHANGED <<diskVars, leases, net, lc, aborted>>

StartFlows ==
    /\ pc = "flows0"
    /\ \/ stale' = {} /\ Goto("open") /\ UNCHANGED agentVars
       \/ Exit /\ UNCHANGED stale
    /\ UNCHANGED <<diskVars, leases, table, guard, net, lc, aborted>>

\* Geodata, policy, lease store, TLS, credentials and listeners.
StartOpen ==
    /\ pc = "open"
    /\ \/ /\ active' = mem.routing /\ dnsVpn' = mem.vpn /\ degraded' = TRUE
          /\ Goto("rSync") /\ UNCHANGED mem
       \/ Exit
    /\ UNCHANGED <<diskVars, leases, kernelVars, lc, aborted>>

-----------------------------------------------------------------------------
(* controller/mode.rs reconcile_locked: degraded stays TRUE until the end; *)
(* a failure leaves the panel up and the guard in place.                   *)

ReconcileFails == Respond("none") /\ UNCHANGED agentVars

ReconcileSync ==
    /\ pc = "rSync"
    /\ \/ SyncDisk /\ Goto("rGuard") /\ UNCHANGED agentVars
       \/ ReconcileFails /\ UNCHANGED diskVars
    /\ UNCHANGED <<leases, kernelVars, lc, aborted>>

ReconcileGuard ==
    /\ pc = "rGuard"
    /\ \/ guard' = mem.excl /\ Goto("rPolicy") /\ UNCHANGED agentVars
       \/ ReconcileFails /\ UNCHANGED guard
    /\ UNCHANGED <<diskVars, leases, table, net, stale, lc, aborted>>

ReconcilePolicy ==
    /\ pc = "rPolicy"
    /\ \/ ApplyTable(mem, mem.routing, mem.excl) /\ Goto("rCommit") /\ UNCHANGED agentVars
       \/ ReconcileFails /\ UNCHANGED <<table, stale>>
    /\ UNCHANGED <<diskVars, leases, guard, net, lc, aborted>>

ReconcileTargets ==
    /\ pc = "rCommit"
    /\ \/ /\ leases' = mem.routing /\ active' = mem.routing /\ dnsVpn' = mem.vpn
          /\ Goto("rFlows") /\ UNCHANGED <<mem, degraded>>
       \/ ReconcileFails /\ UNCHANGED leases
    /\ UNCHANGED <<diskVars, kernelVars, lc, aborted>>

ReconcileFlows ==
    /\ pc = "rFlows"
    /\ \/ stale' = {} /\ Goto("rNet") /\ UNCHANGED agentVars
       \/ ReconcileFails /\ UNCHANGED stale
    /\ UNCHANGED <<diskVars, leases, table, guard, net, lc, aborted>>

ReconcileNetwork ==
    /\ pc = "rNet"
    /\ \/ ApplyNetwork(mem) /\ Goto("rRetire") /\ UNCHANGED agentVars
       \/ TearNetwork(mem) /\ ReconcileFails
    /\ UNCHANGED <<diskVars, leases, table, guard, stale, lc, aborted>>

\* network.rs retire_legacy_routing removes the migration record.
ReconcileRetire ==
    /\ pc = "rRetire"
    /\ \/ Goto("rClear") /\ UNCHANGED agentVars
       \/ ReconcileFails
    /\ UNCHANGED <<diskVars, leases, kernelVars, lc, aborted>>

ReconcileClear ==
    /\ pc = "rClear"
    /\ \/ guard' = NoGuard /\ degraded' = FALSE /\ Respond("none")
          /\ aborted' = FALSE /\ UNCHANGED <<mem, active, dnsVpn>>
       \/ ReconcileFails /\ UNCHANGED <<guard, aborted>>
    /\ UNCHANGED <<diskVars, leases, table, net, stale, lc>>

-----------------------------------------------------------------------------
(* The service scripts.                                                    *)

\* libexec/guard arm: exemptions come from the file, not from the agent.
Arm == PublishSet(disk.excl)

\* START=18, before the network comes up; no table survives a power loss.
BootGuard ==
    /\ lc = "boot" /\ lc' = "stopped"
    /\ Arm
    /\ UNCHANGED <<pc, lock, agentVars, localVars, outcome, diskVars, leases, net, aborted>>

\* The guard script after arm: dns-flows cleanup.
ArmAndCleanup ==
    /\ guard' = disk.excl /\ stale' = {}
    /\ table' = IF table = NoTable THEN NoTable ELSE [table EXCEPT !.excl = disk.excl]

\* init.d/gofro-agent start_service: guard prepare, then the lock is released
\* before procd starts the agent.  A failed check leaves the guard armed.
ServiceStart ==
    /\ lc = "stopped" /\ lock = "free"
    /\ \/ ArmAndCleanup /\ lc' = "running" /\ pc' = "lock"
       \/ Arm /\ UNCHANGED <<lc, pc>>
    /\ UNCHANGED <<lock, agentVars, localVars, outcome, diskVars, leases, net, aborted>>

\* stop_service waits for the apply lock.
ServiceStop ==
    /\ lc = "running" /\ lock = "free" /\ lc' = "stopping" /\ lock' = "lifecycle"
    /\ UNCHANGED <<pc, agentVars, localVars, outcome, diskVars, leases, kernelVars, aborted>>

\* guard stop: arm, take DNS interception out of the table ...
StopInterception ==
    /\ guard' = disk.excl
    /\ table' = IF table = NoTable THEN NoTable
                ELSE [table EXCEPT !.excl = disk.excl, !.dns = FALSE]

\* ... and clean up the flows it leaves behind.
GuardStop ==
    /\ lc = "stopping" /\ lc' = "armed"
    /\ StopInterception /\ stale' = {}
    /\ UNCHANGED <<pc, lock, agentVars, localVars, outcome, diskVars, leases, net, aborted>>

\* Mutant: the failed stop keeps the apply lock.
StopAbortedKeepsLock ==
    /\ lc \in {"stopping", "armed"} /\ lc' = "running"
    /\ aborted' = TRUE
    /\ \/ lc = "stopping" /\ Arm
       \/ lc = "stopping" /\ StopInterception /\ PinFlows
       \/ UNCHANGED <<table, guard, stale>>
    /\ UNCHANGED <<pc, lock, agentVars, localVars, outcome, diskVars, leases, net>>

\* "stop guard failed; not killing agent": the guard script failed before arm,
\* before the DNS chain was removed or at the flow cleanup; or the stop was
\* interrupted.  The lock goes with the script, the agent lives on.
StopAborted ==
    /\ lc \in {"stopping", "armed"} /\ lc' = "running" /\ lock' = "free"
    /\ aborted' = TRUE
    /\ \/ lc = "stopping" /\ Arm
       \/ lc = "stopping" /\ StopInterception /\ PinFlows
       \/ UNCHANGED <<table, guard, stale>>
    /\ UNCHANGED <<pc, agentVars, localVars, outcome, diskVars, leases, net>>

\* procd kills the agent, service_stopped arms the guard again.
AgentKilled ==
    /\ lc = "armed" /\ lc' = "stopped"
    /\ pc' = "off" /\ lock' = "free" /\ LoseMemory
    /\ ArmAndCleanup \/ UNCHANGED <<table, guard, stale>>
    /\ UNCHANGED <<diskVars, leases, net, aborted>>

-----------------------------------------------------------------------------
(* Failures of the process and of the router.                              *)

Crash ==
    /\ pc # "off" /\ Exit
    /\ UNCHANGED <<diskVars, leases, kernelVars, lc, aborted>>

\* Memory, nftables, the tunnel and the lease store in /tmp are gone; the file
\* is one of the versions that may have reached the disk.
PowerLoss ==
    /\ lc # "boot"
    /\ \E c \in stable : disk' = c /\ stable' = {c}
    /\ pc' = "off" /\ lock' = "free" /\ LoseMemory
    /\ leases' = NoRouting /\ table' = NoTable /\ guard' = NoGuard
    /\ net' = Bypass /\ stale' = {} /\ lc' = "boot" /\ aborted' = FALSE

-----------------------------------------------------------------------------
Init ==
    /\ pc = "off" /\ lock = "free"
    /\ mem = NoConfig /\ active = NoRouting /\ dnsVpn = FALSE /\ degraded = TRUE
    /\ base = NoConfig /\ next = NoConfig /\ change = "config" /\ netFailed = FALSE
    /\ outcome = "none"
    /\ disk = DefaultConfig /\ stable = {DefaultConfig}
    /\ leases = NoRouting
    /\ table = NoTable /\ guard = NoGuard /\ net = Bypass /\ stale = {}
    /\ lc = "boot" /\ aborted = FALSE

UpdateStep ==
    \/ BeginUpdate \/ CaptureSnapshot \/ InstallGuard \/ UpdateNetwork
    \/ UpdatePolicy \/ CommitTargets \/ SaveConfig \/ SyncDirectory
    \/ PublishExclusions \/ CleanupDnsFlows \/ ClearGuard
RollbackStep ==
    \/ RollbackNetwork \/ RestoreSnapshot \/ RollbackPolicy
    \/ RollbackTargets \/ RollbackClear
CommittedStep ==
    \/ CommittedSync \/ CommittedPublish \/ CommittedFlows \/ CommittedGuard
PlainStep ==
    \/ SavePlain \/ SyncPlain
    \/ BeginAutoUpdate \/ SaveAutoUpdate \/ SyncAutoUpdate
StartStep ==
    \/ StartLock \/ StartLoad \/ StartSync \/ StartPublish \/ StartFlows \/ StartOpen
ReconcileStep ==
    \/ ReconcileSync \/ ReconcileGuard \/ ReconcilePolicy \/ ReconcileTargets
    \/ ReconcileFlows \/ ReconcileNetwork \/ ReconcileRetire \/ ReconcileClear
ServiceStep ==
    \/ Respawn \/ BootGuard \/ ServiceStart \/ ServiceStop \/ GuardStop
    \/ StopAborted \/ AgentKilled

Next ==
    \/ UpdateStep \/ RollbackStep \/ CommittedStep \/ PlainStep
    \/ StartStep \/ ReconcileStep \/ ServiceStep
    \/ Crash \/ PowerLoss

Spec == Init /\ [][Next]_vars

\* The agent's steps and a stop under way are never abandoned by the scheduler;
\* nothing is assumed of calls, crashes, restarts and the operator.
AgentStep ==
    \/ RollbackStep \/ CommittedStep \/ StartStep \/ ReconcileStep
    \/ UpdateStep /\ pc # "idle"
    \/ PlainStep /\ pc # "idle"
FairSpec == Spec /\ WF_vars(AgentStep) /\ WF_vars(GuardStop \/ AgentKilled)

-----------------------------------------------------------------------------
(* Properties.                                                             *)

\* Equal but for the auto-update flag, which no part of the data plane reads.
SameIntent(c, d) == [c EXCEPT !.auto = d.auto] = d

\* The kernel enforces exactly configuration c.
Enforces(c) ==
    /\ table # NoTable
    /\ table.rules = Render(c) /\ table.excl = c.excl /\ table.dns
    /\ net = NetOf(c)

\* Whenever the LAN is up and the forwarding guard is down, the kernel enforces
\* the configuration on disk, whichever version of it a power loss would leave,
\* with DNS interception in place.
\* (controller.rs update_config and reconcile_locked; main.rs run; libexec/guard)
UnguardedMeansEnforced ==
    lc # "boot" /\ guard = NoGuard => \A c \in stable \cup {disk} : Enforces(c)

\* A device that the guard lets through although the routing table does not
\* bypass it is forwarded by the committed policy and tunnel, never by a half
\* applied one.  (install_guard and publish_exclusions of controller.rs)
ExemptDevicesSeeCommittedPolicy ==
    \A m \in Macs :
        guard # NoGuard /\ m \in guard /\ table # NoTable /\ m \notin table.excl
            => table.rules = Render(disk) /\ net = NetOf(disk)

\* While traffic is forwarded no device has a DNS flow that conntrack pinned to
\* a resolver the current exclusions and DNS chain would not choose, unless a
\* service stop was given up under the running agent.
\* (cleanup_dns_flows between publish_exclusions and clear_guard)
NoPinnedDnsFlows == guard = NoGuard /\ ~aborted => stale = {}

\* An idle controller that is not degraded agrees with the kernel, the lease
\* store, the DNS workers and (but for the auto-update flag) the file.
\* (the success and rollback paths of update_config)
IdleMeansCoherent ==
    pc = "idle" /\ ~degraded =>
        /\ table # NoTable /\ table.rules = Render(mem) /\ table.excl = mem.excl
        /\ net = NetOf(mem)
        /\ active = mem.routing /\ leases = mem.routing /\ dnsVpn = mem.vpn
        /\ SameIntent(disk, mem)

\* No sequence of accepted edits, crashes and half-synced saves leaves a
\* configuration with the VPN on and no stored active server, without an active
\* server while others remain, or with more exclusions than load accepts.
\* (set_mode, insert_server, update_server, delete_server, normalize_exclusions)
StoredConfigsAreUsable ==
    \A c \in stable \cup {disk, mem} : c # NoConfig => WellFormed(c)

\* The answer tells the truth: after "ok" the edit is in memory and synced to
\* disk, after "committed" it is in memory and published and the controller is
\* degraded, and an "error" left the desired state alone in memory and on disk.
\* (update_config, committed_failure, api.rs ApiError)
AnswersTellTheTruth ==
    [][pc \notin {"off", "idle"} /\ pc' = "idle" =>
         CASE outcome' = "ok"        -> mem' = next /\ stable' = {next}
           [] outcome' = "committed" -> mem' = next /\ disk' = next /\ degraded'
           [] outcome' = "error"     -> mem' = base /\ SameIntent(disk', base)
           [] OTHER                  -> TRUE]_vars

\* The apply lock is always given back, so that a service stop that waits for
\* it and a caller that retries get their turn.
\* (lock_apply_path, gofro_apply_lock)
LockIsReleased == lock # "free" ~> lock = "free"

\* controller/tests.rs: once a save is published, the memory is what the file
\* says.
MemoryMatchesFile == pc = "idle" => mem = disk
=============================================================================
