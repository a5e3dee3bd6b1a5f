-------------------------------- MODULE Update --------------------------------
(***************************************************************************)
(* An update of the router (install.sh --update, the transaction helper,   *)
(* and the boot scripts gofro-recover and gofro-finalize).  The installer  *)
(* publishes a release, snapshots the settings it is about to change,      *)
(* writes a journal (update-previous), switches, configures, waits for     *)
(* health, and removes the journal: that is the commit point.  A failure   *)
(* or a signal makes it roll back; after a power loss gofro-recover does,  *)
(* before the network is up, and gofro-finalize removes the journal once   *)
(* the old release is healthy.                                             *)
(*                                                                         *)
(* A release is its version number; 0 stands for none.  What a command     *)
(* wrote is in files; only sync brings it to disk for sure, and a power    *)
(* loss keeps any part of what was not synced.  The settings (UCI sections *)
(* and TLS files) are the release whose installer wrote them.  The         *)
(* migration of v0.5.15 and the first installation are left out.           *)
(***************************************************************************)
EXTENDS Naturals, FiniteSets

CONSTANTS
    Newest,         \* the last release that is published
    MaxFaults,      \* failures, signals and power losses in a behaviour
    LateSignals,    \* a signal may come between clear_pending and ROLLBACK=''
    EarlyUpdates    \* an update may start while gofro-finalize runs

ASSUME NewestIsARelease == Newest \in Nat \ {0}
ASSUME FaultsAreBounded == MaxFaults \in Nat
ASSUME SwitchesAreBoolean == LateSignals \in BOOLEAN /\ EarlyUpdates \in BOOLEAN

Release == 1 .. Newest
Journal == [prev : Release, snap : Release]
NoJournal == [prev |-> 0, snap |-> 0]
Snapshot == [ver : Release, settings : Release]

Files == [current : Release,                    \* the link APP_ROOT/current
          version : Release,                    \* /etc/gofro/version
          journal : Journal \cup {NoJournal},   \* /etc/gofro/update-previous
          restored : Release \cup {0},          \* /etc/gofro/update-restored
          settings : Release,
          snapshots : SUBSET Snapshot,          \* /etc/gofro/update-VERSION
          releases : SUBSET Release,            \* directories of RELEASES
          recover : Release \cup {0},           \* the target of S08gofro-recover; 0: through current
          flows : Release,                      \* the release that libexec/gofro/dns-flows links to
          guard : Release,                      \* libexec/gofro/guard
          initd : Release,                      \* init.d/gofro-guard
          enabled : BOOLEAN]                    \* the agent's and the relay's links in rc.d

VARIABLES
    files, disk,
    pc, job,        \* the installer; cleanup: it is in its EXIT trap
    boot, fin,      \* the boot scripts; the journal that gofro-finalize read
    running,        \* the release of the running agent and relay
    latest,         \* the release that is offered
    locked,         \* LOCK, in /tmp
    broken,         \* history: prune_releases has removed a release that a guard link names
    down,           \* history: a rollback without a journal has given up since the boot
    faults

vars == <<files, disk, pc, job, boot, fin, running, latest, locked, broken, down, faults>>

NoJob == [ver |-> 0, prev |-> 0, snap |-> 0, cleanup |-> FALSE]
Forward == {"publish", "snapshot", "arm", "link", "journal", "flows", "guard", "initd", "stop",
            "switch", "configure", "health", "version", "clear", "disarm", "drop", "prune"}
Back == {"r_begin", "r_stop", "r_restore", "r_switch", "r_version", "r_health", "r_clear",
         "r_drop", "r_link"}
Boot == {"recover", "b_switch", "b_version", "start", "finalize", "f_clear", "f_drop", "f_link", "up"}

\* The journal is gone and ROLLBACK is still set.
Committed == {"disarm", "r_drop", "r_link"}

TypeOK ==
    /\ files \in Files /\ disk \in Files
    /\ pc \in {"off"} \cup Forward \cup Back
    /\ job \in [ver : Release \cup {0}, prev : Release \cup {0}, snap : Release \cup {0},
                cleanup : BOOLEAN]
    /\ boot \in Boot /\ fin \in Journal \cup {NoJournal}
    /\ running \in Release \cup {0} /\ latest \in Release
    /\ locked \in BOOLEAN /\ broken \in BOOLEAN /\ down \in BOOLEAN
    /\ faults \in 0 .. MaxFaults

-----------------------------------------------------------------------------
(* Files.                                                                  *)

Write(g) == files' = g /\ UNCHANGED disk
WriteAndSync(g) == files' = g /\ disk' = g
NoWrite == UNCHANGED <<files, disk>>

HasSnapshot(ver) == \E s \in files.snapshots : s.ver = ver
Saved(ver) == (CHOOSE s \in files.snapshots : s.ver = ver).settings
WithoutSnapshot(ver) == {s \in files.snapshots : s.ver # ver}

\* The agent's start and stop run guard, and guard runs dns-flows; its
\* restart in an update enables gofro-guard, too.
GuardRuns == files.flows \in files.releases /\ files.guard \in files.releases
Startable == GuardRuns /\ files.initd \in files.releases

\* prune_releases looks at one of the three links.
Kept(current) == files.releases \cap {current, files.guard}

\* Any part of what was not synced is on disk.
Survivors ==
    {[f \in DOMAIN files |-> IF f \in K THEN files[f] ELSE disk[f]] :
        K \in SUBSET {f \in DOMAIN files : files[f] # disk[f]}}

\* The updater is started before gofro-finalize, and waits five minutes; the
\* panel's button does not wait.
UpdaterRuns == {"up"} \cup IF EarlyUpdates THEN {"finalize", "f_clear", "f_drop", "f_link"} ELSE {}

Fault == faults < MaxFaults /\ faults' = faults + 1
Quiet == UNCHANGED <<latest, broken, down, faults>>

-----------------------------------------------------------------------------
(* install.sh --update, forwards.                                          *)

Go(from, to) ==
    pc = from /\ pc' = to /\ UNCHANGED <<boot, fin, locked>> /\ Quiet

\* Exit: cleanup without a rollback.
Exit == pc' = "off" /\ job' = NoJob /\ locked' = FALSE

\* cleanup with ROLLBACK set, or without.
Trap ==
    IF job.prev # 0 THEN pc' = "r_begin" /\ job' = [job EXCEPT !.cleanup = TRUE] /\ UNCHANGED locked
    ELSE Exit

\* prune_releases, then the refusal of a release that is in use.
PruneAndPublish ==
    /\ latest > files.version
    /\ Write([files EXCEPT !.releases = Kept(files.current)])
    /\ broken' = (broken \/ ~Startable')
    /\ IF latest \in {files.current, files.guard} THEN UNCHANGED <<pc, job, locked>>
       ELSE pc' = "publish" /\ locked' = TRUE /\ job' = [NoJob EXCEPT !.ver = latest]

\* Mutant: a pending journal is refused.
BeginRefusesPending ==
    /\ pc = "off" /\ ~locked /\ boot = "up" /\ files.journal = NoJournal /\ PruneAndPublish
    /\ UNCHANGED <<boot, fin, running, latest, down, faults>>

\* gofro-update up to the bundle's installer, for the owner's request or, with
\* auto_update_enabled, every six hours.  A pending journal is rolled back
\* first; without one the old releases are pruned, and the release that the
\* boot guard uses is refused.
Begin ==
    /\ pc = "off" /\ ~locked
    /\ boot \in UpdaterRuns
    /\ IF files.journal # NoJournal
       THEN /\ latest >= files.version
            /\ files.journal.prev \in files.releases /\ HasSnapshot(files.journal.snap)
            /\ pc' = "r_begin" /\ locked' = TRUE /\ NoWrite /\ UNCHANGED broken
            /\ job' = [ver |-> latest, prev |-> files.journal.prev, snap |-> files.journal.snap,
                       cleanup |-> FALSE]
       ELSE PruneAndPublish
    /\ UNCHANGED <<boot, fin, running, latest, down, faults>>

Publish ==
    /\ Go("publish", "snapshot") /\ UNCHANGED <<job, running>>
    /\ Write([files EXCEPT !.releases = @ \cup {job.ver}])

\* transaction snapshot.  A directory in the way is refused.
TakeSnapshot ==
    /\ pc = "snapshot" /\ UNCHANGED <<boot, fin, running>> /\ Quiet
    /\ IF HasSnapshot(job.ver) THEN Exit /\ NoWrite
       ELSE /\ pc' = "arm" /\ job' = [job EXCEPT !.snap = job.ver] /\ UNCHANGED locked
            /\ WriteAndSync([files EXCEPT !.snapshots =
                               @ \cup {[ver |-> job.ver, settings |-> files.settings]}])

\* ROLLBACK=$previous
Arm == Go("arm", "link") /\ job' = [job EXCEPT !.prev = files.current] /\ NoWrite /\ UNCHANGED running

LinkRecover ==
    /\ Go("link", "journal") /\ UNCHANGED <<job, running>>
    /\ WriteAndSync([files EXCEPT !.recover = job.ver])

\* write_pending
WritePending ==
    /\ Go("journal", "flows") /\ UNCHANGED <<job, running>>
    /\ WriteAndSync([files EXCEPT !.restored = 0, !.journal = [prev |-> job.prev, snap |-> job.snap]])

\* link_runtime, for one of the guard's links: it moves to the new release and
\* stays there.  A link to a release that is gone is not replaced: die.
Relink(from, to, old, g) ==
    /\ pc = from /\ UNCHANGED <<boot, fin, running>> /\ Quiet
    /\ IF old \in files.releases
       THEN pc' = to /\ UNCHANGED <<job, locked>> /\ Write(g)
       ELSE Trap /\ NoWrite

LinkFlows == Relink("flows", "guard", files.flows, [files EXCEPT !.flows = job.ver])
LinkGuard == Relink("guard", "initd", files.guard, [files EXCEPT !.guard = job.ver])
LinkInitd == Relink("initd", "stop", files.initd, [files EXCEPT !.initd = job.ver])

StopServices == Go("stop", "switch") /\ running' = 0 /\ UNCHANGED job /\ NoWrite

\* switch_current
SwitchCurrent ==
    /\ Go("switch", "configure") /\ UNCHANGED <<job, running>>
    /\ WriteAndSync([files EXCEPT !.current = job.ver])

\* init_security, panel-apply, configure_vpn_zone
Configure ==
    /\ Go("configure", "health") /\ UNCHANGED <<job, running>>
    /\ Write([files EXCEPT !.settings = job.ver])

\* restart_services and healthy
RestartHealthy ==
    /\ Go("health", "version") /\ running' = files.current /\ UNCHANGED job
    /\ Write([files EXCEPT !.enabled = TRUE])

WriteVersion ==
    /\ Go("version", "clear") /\ UNCHANGED <<job, running>>
    /\ WriteAndSync([files EXCEPT !.version = job.ver])

\* clear_pending: the commit point.
ClearPending ==
    /\ Go("clear", "disarm") /\ UNCHANGED <<job, running>>
    /\ WriteAndSync([files EXCEPT !.journal = NoJournal])

\* The assignment ROLLBACK= is a command of its own.
Disarm == Go("disarm", "drop") /\ job' = [job EXCEPT !.prev = 0] /\ NoWrite /\ UNCHANGED running

DropSnapshot ==
    /\ Go("drop", "prune") /\ UNCHANGED <<job, running>>
    /\ Write([files EXCEPT !.snapshots = WithoutSnapshot(job.ver)])

Prune ==
    /\ pc = "prune" /\ Exit /\ UNCHANGED <<boot, fin, running>> /\ Quiet
    /\ Write([files EXCEPT !.releases = Kept(job.ver)])

-----------------------------------------------------------------------------
(* rollback_update, for a journal that was found and in the EXIT trap.     *)

RollbackBegin ==
    /\ Go("r_begin", "r_stop") /\ UNCHANGED <<job, running>>
    /\ Write([files EXCEPT !.restored = 0])

\* A rollback that returns 1: die, and the trap tries once more; in the trap,
\* the end.
GiveUp ==
    IF job.cleanup THEN Exit /\ down' = (down \/ files.journal = NoJournal)
    ELSE /\ pc' = "r_begin" /\ job' = [job EXCEPT !.cleanup = TRUE]
         /\ UNCHANGED <<locked, down>>

\* The agent's stop needs the guard's commands; without them it kills nothing.
RollbackStop ==
    /\ pc = "r_stop" /\ UNCHANGED <<boot, fin, latest, broken, faults>> /\ NoWrite
    /\ IF GuardRuns THEN pc' = "r_restore" /\ running' = 0 /\ UNCHANGED <<job, locked, down>>
       ELSE GiveUp /\ UNCHANGED running

\* Mutant: the settings are not restored.
RollbackRestoreNothing ==
    Go("r_restore", "r_switch") /\ UNCHANGED <<job, running>> /\ NoWrite

\* transaction restore
RollbackRestore ==
    /\ pc = "r_restore" /\ UNCHANGED <<boot, fin, running, latest, broken, faults>>
    /\ IF HasSnapshot(job.snap)
       THEN /\ pc' = "r_switch" /\ UNCHANGED <<job, locked, down>>
            /\ WriteAndSync([files EXCEPT !.settings = Saved(job.snap)])
       ELSE GiveUp /\ NoWrite

RollbackSwitch ==
    /\ Go("r_switch", "r_version") /\ UNCHANGED <<job, running>>
    /\ WriteAndSync([files EXCEPT !.current = job.prev])

\* Mutant: the version file keeps the version that failed.
RollbackVersionForgotten == Go("r_version", "r_health") /\ UNCHANGED <<job, running>> /\ NoWrite

RollbackVersion ==
    /\ Go("r_version", "r_health") /\ UNCHANGED <<job, running>>
    /\ WriteAndSync([files EXCEPT !.version = job.prev])

\* restart_services enables gofro-guard first.
RollbackHealthy ==
    /\ pc = "r_health" /\ UNCHANGED <<boot, fin, latest, broken, faults>>
    /\ IF Startable
       THEN /\ pc' = "r_clear" /\ running' = files.current /\ UNCHANGED <<job, locked, down>>
            /\ Write([files EXCEPT !.enabled = TRUE])
       ELSE GiveUp /\ NoWrite /\ UNCHANGED running

\* Mutant: the snapshot goes before the journal.
RollbackClearSnapshotFirst ==
    /\ Go("r_clear", "r_drop") /\ UNCHANGED <<job, running>>
    /\ WriteAndSync([files EXCEPT !.snapshots = WithoutSnapshot(job.snap)])

RollbackClear ==
    /\ Go("r_clear", "r_drop") /\ UNCHANGED <<job, running>>
    /\ WriteAndSync([files EXCEPT !.journal = NoJournal])

RollbackDrop ==
    /\ Go("r_drop", "r_link") /\ UNCHANGED <<job, running>>
    /\ Write([files EXCEPT !.snapshots = WithoutSnapshot(job.snap)])

RollbackLink ==
    /\ pc = "r_link" /\ Exit /\ UNCHANGED <<boot, fin, running>> /\ Quiet
    /\ WriteAndSync([files EXCEPT !.recover = 0])

-----------------------------------------------------------------------------
(* Faults.                                                                 *)

\* A command fails before it changes anything; the configuration may fail half
\* way, and an unhealthy release is running.
Fail ==
    /\ pc \in Forward \ {"arm", "disarm"} /\ Fault /\ Trap
    /\ \/ NoWrite
       \/ pc = "configure" /\ Write([files EXCEPT !.settings = job.ver])
    /\ running' = IF pc = "health" THEN files.current ELSE running
    /\ UNCHANGED <<boot, fin, latest, broken, down>>

\* A command of the rollback fails, as often as it likes: services do not stop,
\* transaction restore refuses (another boot guard identity) or the firewall does
\* not reload after it, the link or the version cannot be replaced, or the old
\* release is not healthy.
RollbackFails ==
    /\ pc \in Back /\ (pc \in Committed => LateSignals) /\ GiveUp
    /\ \/ NoWrite /\ UNCHANGED running
       \/ pc = "r_stop" /\ NoWrite /\ running' = 0
       \/ /\ pc = "r_restore" /\ HasSnapshot(job.snap) /\ UNCHANGED running
          /\ Write([files EXCEPT !.settings = Saved(job.snap)])
       \/ /\ pc = "r_health" /\ Startable /\ running' = files.current
          /\ Write([files EXCEPT !.enabled = TRUE])
    /\ UNCHANGED <<boot, fin, latest, broken, faults>>

\* HUP, INT, TERM.  The trap takes them once.  Between clear_pending and the
\* assignment that disarms it, it would roll back without a journal, and a power
\* loss or a failure in that rollback leaves a mixture, or stopped services,
\* that no boot script knows of: LateSignals.
Signal ==
    /\ pc # "off" /\ ~job.cleanup /\ (pc \in Committed => LateSignals) /\ Fault /\ Trap
    /\ NoWrite /\ UNCHANGED <<boot, fin, running, latest, broken, down>>

\* KILL, or a signal in the trap: the lock stays until the next boot.
Kill ==
    /\ pc # "off" /\ Fault /\ pc' = "off" /\ job' = NoJob
    /\ NoWrite /\ UNCHANGED <<boot, fin, running, latest, locked, broken, down>>

PowerLoss ==
    /\ Fault /\ \E g \in Survivors : WriteAndSync(g)
    /\ pc' = "off" /\ job' = NoJob /\ locked' = FALSE
    /\ boot' = "recover" /\ fin' = NoJournal /\ running' = 0 /\ down' = FALSE
    /\ UNCHANGED <<latest, broken>>

-----------------------------------------------------------------------------
(* The boot: S08gofro-recover, the services, S99gofro-finalize.            *)

Installer == <<pc, job, locked>>

\* S08gofro-recover is there.
Resolves == (IF files.recover = 0 THEN files.current ELSE files.recover) \in files.releases

Recoverable == files.journal.prev \in files.releases /\ HasSnapshot(files.journal.snap)

\* recover_update failed: the services are disabled.
GiveUpRecovery == boot' = "up" /\ Write([files EXCEPT !.restored = 0, !.enabled = FALSE])

\* recover_update up to the end of transaction restore.
Recover ==
    /\ boot = "recover" /\ UNCHANGED <<fin, running, Installer>> /\ Quiet
    /\ IF files.journal = NoJournal \/ ~Resolves THEN boot' = "start" /\ NoWrite
       ELSE IF Recoverable /\ GuardRuns
       THEN /\ boot' = "b_switch"
            /\ WriteAndSync([files EXCEPT !.restored = 0, !.settings = Saved(files.journal.snap)])
       ELSE GiveUpRecovery

\* A step of gofro-recover fails.
RecoverFails ==
    /\ boot \in {"recover", "b_switch", "b_version"} /\ files.journal # NoJournal /\ Fault
    /\ GiveUpRecovery /\ UNCHANGED <<fin, running, latest, broken, down, Installer>>

RecoverSwitch ==
    /\ boot = "b_switch" /\ boot' = "b_version" /\ UNCHANGED <<fin, running, Installer>> /\ Quiet
    /\ WriteAndSync([files EXCEPT !.current = files.journal.prev])

\* The version, the witness for S99 and the services' links.
RecoverVersion ==
    /\ boot = "b_version" /\ boot' = "start" /\ UNCHANGED <<fin, running, Installer>> /\ Quiet
    /\ WriteAndSync([files EXCEPT !.version = files.journal.prev, !.restored = files.journal.prev,
                                  !.enabled = TRUE])

\* S99gofro-agent and S99gofro-relay.
Serve ==
    /\ boot = "start" /\ boot' = "finalize"
    /\ running' = IF files.enabled /\ GuardRuns THEN files.current ELSE 0
    /\ NoWrite /\ UNCHANGED <<fin, Installer>> /\ Quiet

Witnessed ==
    /\ files.restored = files.journal.prev /\ files.current = files.journal.prev
    /\ HasSnapshot(files.journal.snap)

\* finalize_rollback: the checks, the restart and the health check.
Finalize ==
    /\ boot = "finalize" /\ NoWrite /\ UNCHANGED <<Installer>> /\ Quiet
    /\ IF files.journal = NoJournal \/ ~Witnessed \/ ~GuardRuns
       THEN boot' = "up" /\ UNCHANGED <<fin, running>>
       ELSE boot' = "f_clear" /\ fin' = files.journal /\ running' = files.current

\* The old release does not become healthy: the journal stays.
FinalizeFails ==
    /\ boot \in {"finalize", "f_clear"} /\ files.journal # NoJournal /\ Fault
    /\ boot' = "up" /\ NoWrite /\ UNCHANGED <<fin, running, latest, broken, down, Installer>>

FinalizeClear ==
    /\ boot = "f_clear" /\ boot' = "f_drop" /\ UNCHANGED <<fin, running, Installer>> /\ Quiet
    /\ WriteAndSync([files EXCEPT !.journal = NoJournal, !.restored = 0])

FinalizeDrop ==
    /\ boot = "f_drop" /\ boot' = "f_link" /\ UNCHANGED <<fin, running, Installer>> /\ Quiet
    /\ Write([files EXCEPT !.snapshots = WithoutSnapshot(fin.snap)])

FinalizeLink ==
    /\ boot = "f_link" /\ boot' = "up" /\ UNCHANGED <<fin, running, Installer>> /\ Quiet
    /\ WriteAndSync([files EXCEPT !.recover = 0])

Offer ==
    /\ latest < Newest /\ latest' = latest + 1
    /\ NoWrite /\ UNCHANGED <<boot, fin, running, broken, down, faults, Installer>>

-----------------------------------------------------------------------------
First == [current |-> 1, version |-> 1, journal |-> NoJournal, restored |-> 0, settings |-> 1,
          snapshots |-> {}, releases |-> {1}, recover |-> 0,
          flows |-> 1, guard |-> 1, initd |-> 1, enabled |-> TRUE]

Init ==
    /\ files = First /\ disk = First /\ pc = "off" /\ job = NoJob
    /\ boot = "up" /\ fin = NoJournal /\ running = 1 /\ latest = 1 /\ locked = FALSE
    /\ broken = FALSE /\ down = FALSE /\ faults = 0

Install ==
    \/ Publish \/ TakeSnapshot \/ Arm \/ LinkRecover \/ WritePending \/ LinkFlows \/ LinkGuard
    \/ LinkInitd \/ StopServices \/ SwitchCurrent \/ Configure \/ RestartHealthy \/ WriteVersion \/ ClearPending \/ Disarm
    \/ DropSnapshot \/ Prune

Rollback ==
    \/ RollbackBegin \/ RollbackStop \/ RollbackRestore \/ RollbackSwitch \/ RollbackVersion
    \/ RollbackHealthy \/ RollbackClear \/ RollbackDrop \/ RollbackLink

BootStep ==
    \/ Recover \/ RecoverSwitch \/ RecoverVersion \/ Serve
    \/ Finalize \/ FinalizeClear \/ FinalizeDrop \/ FinalizeLink

Faults == Fail \/ RollbackFails \/ Signal \/ Kill \/ PowerLoss \/ RecoverFails \/ FinalizeFails

Next == Begin \/ Install \/ Rollback \/ BootStep \/ Faults \/ Offer

Spec == Init /\ [][Next]_vars

\* Shell scripts that are not interrupted run on, and the boot goes on.  No
\* update need start: auto_update_enabled is FALSE in the shipped configuration.
LiveSpec ==
    /\ Spec
    /\ WF_vars(Install) /\ WF_vars(Rollback) /\ WF_vars(BootStep)

-----------------------------------------------------------------------------
(* Properties.                                                             *)

\* Nobody is at work, and nobody was killed since the boot.
Settled == pc = "off" /\ ~locked /\ boot = "up" /\ files.journal = NoJournal

\* WholeRelease: once no journal asks for a rollback, the release, the version
\* file and the settings are of one update, whatever was lost or failed on the
\* way, and the services run it, unless a prune has broken the guard's links or
\* a rollback that had no journal yet has given up.
\* ("an interrupted update is rolled back on boot", clear_pending, rollback_update)
WholeRelease ==
    Settled => /\ files.version = files.current /\ files.settings = files.current
               /\ running = files.current \/ broken \/ down

\* Nothing that the journal would undo has been done.
NothingSwitched ==
    /\ files.current = files.journal.prev
    /\ LateSignals \/ (files.version = files.journal.prev /\ files.settings = files.journal.prev)

\* BootCanRecover: a journal that survives a power loss names a release and a
\* snapshot that survived too, the link that runs gofro-recover leads somewhere,
\* and so do the guard commands without which it gives up, or else there is
\* nothing to undo.  (the order of sync in install.sh, prune_releases)
BootCanRecover ==
    boot = "recover" /\ files.journal # NoJournal =>
        Resolves /\ Recoverable /\ (GuardRuns \/ NothingSwitched)

\* ReleasesInUseExist: the current release and the one that guard runs from are
\* never pruned or overwritten, and nothing but the prune of a new update
\* takes away the release of another guard link, whichever of the three links
\* a kill or a power loss leaves behind.
\* (prune_releases, link_runtime, "pinned by the boot guard")
ReleasesInUseExist ==
    /\ files.current \in files.releases /\ files.guard \in files.releases
    /\ pc = "publish" => job.ver \notin {files.current, files.guard}
    /\ Startable \/ broken

\* RecoveryIsPossible: at no moment does a power loss find the boot without the
\* files that it needs.  (install.sh, prune_releases)
RecoveryIsPossible == TypeOK /\ BootCanRecover /\ ReleasesInUseExist

\* OldReleaseFirst: the journal of an update that was not committed is removed
\* only after the old release, its version and its settings are back.
\* (gofro-finalize's witness, rollback_update)
OldReleaseFirst ==
    [][(files.journal # NoJournal /\ files'.journal = NoJournal /\ boot' # "recover") =>
         \/ pc = "clear"
         \/ /\ files.current = files.journal.prev /\ files.version = files.journal.prev
            /\ files.settings = files.journal.prev]_vars

\* NoOrphanSnapshot: an update that was interrupted leaves nothing behind that
\* keeps the same update from being tried again.
\* ("pending update was rolled back; retry the update")
NoOrphanSnapshot == Settled => \A s \in files.snapshots : s.ver =< files.version

\* GuardLinksLead: between updates each of the guard's three links names a
\* release that exists.
\* ("Publish guard dependencies first; all survive rollback to v15")
GuardLinksLead == pc = "off" => Startable

\* The lock that a killed installer left in /tmp refuses updates until a boot.
Stranded == pc = "off" /\ locked

\* JournalsEnd: whatever fails, everyone who works on a journal comes to an end;
\* and where updates go on being started and rollbacks do not go on failing, a
\* journal does not stay: the update is committed or rolled back, unless a kill
\* has left its lock or a prune has broken the guard's links.
\* (gofro-recover, gofro-finalize, and the update that rolls back first)
JournalsEnd ==
    /\ files.journal # NoJournal ~> files.journal = NoJournal \/ (pc = "off" /\ boot = "up")
    /\ WF_vars(Begin) /\ <>[][~RollbackFails]_vars =>
         (files.journal # NoJournal ~> files.journal = NoJournal \/ Stranded \/ broken)

-----------------------------------------------------------------------------
(* What an update promises.                                                *)

\* What the router is after a boot that nothing disturbs: gofro-recover acts on
\* the journal, if there is one.  Where it gives up because the guard's commands
\* are gone, nothing was switched yet and the result is the same (BootCanRecover).
AfterBoot ==
    IF files.journal = NoJournal
    THEN [release |-> files.current, version |-> files.version, settings |-> files.settings]
    ELSE [release |-> files.journal.prev, version |-> files.journal.prev,
          settings |-> Saved(files.journal.snap)]

I == INSTANCE Installed WITH installed <- AfterBoot, offered <- latest

\* ImplementsInstalled: through failing commands, signals, kills and power losses
\* the release, its version and its settings change in one step, clear_pending,
\* and only to a newer release that was offered; no rollback, recovery or
\* finalisation is seen by the next boot.
\* (install.sh's order of commands, rollback_update, gofro-recover, gofro-finalize)
ImplementsInstalled == I!Spec
=============================================================================
