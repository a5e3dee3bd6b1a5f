---------------------------- MODULE UpdateProofs ----------------------------
(***************************************************************************)
(* Proofs about Update for every number of releases and of faults, as long *)
(* as no update starts while gofro-finalize runs.  What is said of the     *)
(* contents of files assumes in addition that no signal comes between      *)
(* clear_pending and the assignment that disarms the rollback; that the    *)
(* files are there does not.                                               *)
(***************************************************************************)
EXTENDS Update, TLAPS

-----------------------------------------------------------------------------
(* The inductive invariant.                                                *)

\* The releases that are there now and would be after a power loss.
Durable == files.releases \cap disk.releases

\* The settings of the snapshot for v are those of release p.
SavedIn(S, v, p) ==
    /\ \E s \in S : s.ver = v
    /\ ~LateSignals => \A s \in S : s.ver = v => s.settings = p

\* A rollback from v to p finds what it needs, now and after a power loss.
Ready(v, p) ==
    /\ SavedIn(files.snapshots, v, p) /\ SavedIn(disk.snapshots, v, p)
    /\ p \in Durable

\* The release, the version file and the settings are those of p.
AllAt(p) ==
    ~LateSignals =>
        /\ files.current = p /\ files.version = p
        /\ files.settings = p /\ disk.settings = p

\* The services run the current release, unless a history says why not.
Serving == ~LateSignals => running = files.current \/ broken \/ down

\* The dns-flows that the guard runs is there, now and after a power loss.
FlowsLead == {files.flows, disk.flows} \subseteq Durable

\* Under the journal nothing has been switched.
NothingDone == files.current = files.journal.prev /\ AllAt(files.journal.prev)

\* The fields that are never written without a sync; the link of guard moves
\* under a journal only, and prune_releases keeps its release.
SyncInv ==
    /\ disk.current = files.current /\ disk.version = files.version
    /\ disk.journal = files.journal /\ disk.recover = files.recover
    /\ files.guard = disk.guard \/ files.journal # NoJournal
    /\ {files.current, files.guard, disk.guard} \subseteq Durable

\* A journal can be acted upon, and a witness that a boot has acted on it is
\* true; without a journal the router is at one release.
JournalInv ==
    /\ files.journal # NoJournal =>
         /\ Ready(files.journal.snap, files.journal.prev)
         /\ files.recover = files.journal.snap /\ files.recover \in Durable
         /\ files.restored # 0 \/ disk.restored # 0 => AllAt(files.journal.prev)
    /\ files.journal = NoJournal => AllAt(files.current)

\* The installer before it has written the journal.
BeforeInv ==
    /\ pc \in {"publish", "snapshot", "arm"} =>
         /\ files.journal = NoJournal /\ Serving
         /\ job.prev = 0 /\ job.ver \in Release
    /\ pc = "publish" => job.ver \notin {files.current, files.guard}
    /\ pc = "snapshot" => job.ver \in files.releases
    /\ pc = "arm" =>
         job.snap = job.ver /\ job.ver \in Durable /\ Ready(job.snap, files.current)
    /\ pc \in {"link", "journal"} =>
         /\ files.journal = NoJournal /\ Serving
         /\ job.prev = files.current /\ job.snap = job.ver /\ job.ver \in Durable
         /\ Ready(job.snap, job.prev)
    /\ pc = "journal" => files.recover = job.ver

\* The steps of the installer between writing the journal and removing it.
Switching == {"flows", "guard", "initd", "stop", "switch", "configure", "health", "version", "clear"}

\* Under the journal, and after the commit.
AfterInv ==
    /\ pc \in Switching =>
         /\ files.journal = [prev |-> job.prev, snap |-> job.snap] /\ job.prev # 0
         /\ job.snap = job.ver /\ files.restored = 0 /\ disk.restored = 0
    /\ pc \in {"configure", "health", "version", "clear"} => files.current = job.ver
    /\ pc \in {"health", "version", "clear"} => files.settings = job.ver
    /\ pc \in {"version", "clear"} => running = job.ver
    /\ pc = "clear" => AllAt(job.ver)
    /\ pc \in {"disarm", "drop", "prune"} =>
         files.journal = NoJournal /\ job.ver = files.current /\ running = files.current
    /\ pc = "disarm" => job.prev \in Durable /\ job.prev # 0
    /\ pc \in {"drop", "prune"} => job.prev = 0

\* The steps of a rollback before the journal is removed.
Undoing == Back \ {"r_drop", "r_link"}

\* A rollback, with the journal or before it was written.
BackInv ==
    /\ pc \in Back => job.prev \in Durable /\ job.prev # 0
    /\ pc \in Undoing =>
         /\ files.journal \in {NoJournal, [prev |-> job.prev, snap |-> job.snap]}
         /\ files.journal # NoJournal \/ ~LateSignals => Ready(job.snap, job.prev)
         /\ files.journal = NoJournal => job.cleanup /\ (~LateSignals => files.current = job.prev)
    /\ pc \in {"r_switch", "r_version", "r_health", "r_clear"} /\ ~LateSignals =>
         files.settings = job.prev /\ disk.settings = job.prev
    /\ pc \in {"r_version", "r_health", "r_clear"} => files.current = job.prev
    /\ pc \in {"r_health", "r_clear"} => files.version = job.prev
    /\ pc \in {"r_clear", "r_drop", "r_link"} => running = files.current
    /\ pc \in {"r_drop", "r_link"} => files.journal = NoJournal

\* The boot scripts run alone.
BootInv ==
    /\ pc # "off" => locked
    /\ boot # "up" => pc = "off" /\ ~locked
    /\ boot \in {"b_switch", "b_version", "f_clear"} => files.journal # NoJournal
    /\ boot \in {"b_switch", "b_version"} /\ ~LateSignals =>
         files.settings = files.journal.prev /\ disk.settings = files.journal.prev
    /\ boot = "b_version" => files.current = files.journal.prev
    /\ boot = "f_clear" => AllAt(files.journal.prev)
    /\ boot = "finalize" => running = files.current \/ broken \/ files.journal # NoJournal
    /\ boot \in {"f_clear", "f_drop", "f_link"} => running = files.current
    /\ boot \in {"f_drop", "f_link"} => files.journal = NoJournal
    /\ boot = "up" /\ pc = "off" /\ ~locked /\ files.journal = NoJournal => Serving

\* The links of dns-flows and init.d/gofro-guard.  The installer moves them one
\* by one, without a sync until it switches, and only if they lead somewhere:
\* a release is switched only under a journal with which the boot can stop the
\* agent.  The services are disabled under a journal only.
LinkInv ==
    /\ broken \/ {files.flows, files.initd, disk.flows, disk.initd} \subseteq Durable
    /\ files.journal = NoJournal =>
         /\ disk.flows = files.flows /\ disk.initd = files.initd
         /\ files.enabled /\ disk.enabled
    /\ files.journal # NoJournal => FlowsLead \/ NothingDone
    /\ pc = "flows" => disk = files
    /\ pc \in {"guard", "initd", "stop", "switch"} => FlowsLead /\ files.flows = job.ver
    /\ pc \in {"initd", "stop", "switch"} => files.guard = job.ver
    /\ pc \in {"stop", "switch"} => files.initd = job.ver
    /\ pc \in {"configure", "health", "version", "clear", "disarm", "drop", "prune"} =>
         /\ files.flows = job.ver /\ files.guard = job.ver /\ files.initd = job.ver
         /\ disk.flows = job.ver /\ disk.guard = job.ver /\ disk.initd = job.ver
    /\ pc \in {"version", "clear", "r_clear"} => files.enabled
    /\ boot \in {"start", "finalize", "f_clear"} => files.enabled

\* The invariant that every step keeps.
IInv == TypeOK /\ SyncInv /\ JournalInv /\ BeforeInv /\ AfterInv /\ BackInv /\ BootInv /\ LinkInv

-----------------------------------------------------------------------------
(* The steps of the installer.                                             *)

\* The fields of the files after a step.
Became(current, version, journal, restored, settings, snapshots, releases, recover) ==
    /\ files' \in Files
    /\ files'.current = current /\ files'.version = version /\ files'.journal = journal
    /\ files'.restored = restored /\ files'.settings = settings /\ files'.snapshots = snapshots
    /\ files'.releases = releases /\ files'.recover = recover

\* The links after it.
Linked(flows, guard, initd, enabled) ==
    /\ files'.flows = flows /\ files'.guard = guard /\ files'.initd = initd
    /\ files'.enabled = enabled
SameLinks == Linked(files.flows, files.guard, files.initd, files.enabled)

\* A journal names two releases, and is not the missing one.
LEMMA JournalType ==
    /\ NoJournal \notin Journal
    /\ \A j \in Journal : j.prev \in Release /\ j.snap \in Release
    /\ \A p, v \in Release : [prev |-> p, snap |-> v] \in Journal /\ [prev |-> p, snap |-> v].prev = p
                                /\ [prev |-> p, snap |-> v].snap = v
    /\ 0 \notin Release
BY NewestIsARelease DEF NoJournal, Journal, Release

\* Under the journal the installer knows its releases.
LEMMA SwitchingJob ==
    ASSUME IInv, pc \in Switching
    PROVE  job.ver \in Release /\ job.prev \in Release /\ job.snap \in Release
<1> DEFINE j == [prev |-> job.prev, snap |-> job.snap]
<1>1. files.journal = j /\ job.prev # 0 /\ job.snap = job.ver  BY DEF IInv, AfterInv
<1>2. j.prev = job.prev /\ j.snap = job.snap /\ NoJournal.prev = 0  BY DEF NoJournal
<1>3. files.journal \in Journal \cup {NoJournal}  BY DEF IInv, TypeOK, Files
<1> HIDE DEF j
<1>4. j \in Journal  BY <1>1, <1>2, <1>3
<1> QED  BY <1>1, <1>2, <1>4, JournalType

\* So does a rollback.
LEMMA UndoingJob ==
    ASSUME IInv, pc \in Undoing
    PROVE  job.prev \in Release /\ (files.journal # NoJournal => job.snap \in Release)
<1>1. files.snapshots \in SUBSET Snapshot /\ files.releases \in SUBSET Release  BY DEF IInv, TypeOK, Files
<1>2. job.prev \in Release  BY <1>1 DEF IInv, BackInv, Undoing, Durable
<1>3. ASSUME files.journal # NoJournal PROVE job.snap \in Release
  <2>1. Ready(job.snap, job.prev)  BY <1>3 DEF IInv, BackInv
  <2> QED  BY <1>1, <2>1 DEF Ready, SavedIn, Snapshot
<1> QED  BY <1>2, <1>3

\* The snapshot that Saved chooses.
LEMMA SavedIsIt ==
    ASSUME NEW v, NEW p, SavedIn(files.snapshots, v, p)
    PROVE  HasSnapshot(v) /\ (~LateSignals => Saved(v) = p)
<1> DEFINE s == CHOOSE t \in files.snapshots : t.ver = v
<1>1. s \in files.snapshots /\ s.ver = v  BY DEF SavedIn
<1>2. Saved(v) = s.settings  BY DEF Saved
<1> HIDE DEF s
<1> QED  BY <1>1, <1>2 DEF SavedIn, HasSnapshot

\* It is a snapshot.
LEMMA SavedType ==
    ASSUME IInv, NEW v, HasSnapshot(v)
    PROVE  Saved(v) \in Release
<1> DEFINE s == CHOOSE t \in files.snapshots : t.ver = v
<1>1. s \in files.snapshots  BY DEF HasSnapshot
<1>2. Saved(v) = s.settings  BY DEF Saved
<1>3. files.snapshots \in SUBSET Snapshot  BY DEF IInv, TypeOK, Files
<1> HIDE DEF s
<1> QED  BY <1>1, <1>2, <1>3 DEF Snapshot

\* The new release is there, perhaps not after a power loss.
LEMMA PublishStep ==
    ASSUME IInv, Publish PROVE IInv'
<1>1. /\ pc = "publish" /\ pc' = "snapshot"
      /\ UNCHANGED <<running, job, boot, fin, locked, latest, broken, down, faults>>
  BY DEF Publish, Go, Quiet
<1>2. job.ver \in Release
  BY <1>1 DEF IInv, BeforeInv
<1>3. /\ Became(files.current, files.version, files.journal, files.restored, files.settings, files.snapshots,
               files.releases \cup {job.ver}, files.recover) /\ SameLinks
      /\ disk' = disk
  BY <1>1, <1>2, JournalType DEF Publish, Write, IInv, TypeOK, Files, Became, SameLinks, Linked
<1>4. TypeOK'
  BY <1>1, <1>2, <1>3 DEF IInv, TypeOK, Became, Forward, Back, Boot
<1>5. SyncInv' /\ JournalInv'
  BY <1>1, <1>2, <1>3, JournalType DEF IInv, TypeOK, Became, SameLinks, Linked, SyncInv, JournalInv, BeforeInv, AfterInv, BackInv, BootInv, Durable, Ready, SavedIn, AllAt, Serving,
     Switching, Undoing, Back
<1>6. BeforeInv' /\ AfterInv' /\ BackInv' /\ BootInv'
  BY <1>1, <1>2, <1>3, JournalType DEF IInv, TypeOK, Became, SameLinks, Linked, SyncInv, JournalInv, BeforeInv, AfterInv, BackInv, BootInv, Durable, Ready, SavedIn, AllAt, Serving,
     Switching, Undoing, Back
<1>7. LinkInv'
  BY <1>1, <1>2, <1>3, JournalType DEF IInv, TypeOK, Became, SameLinks, Linked, SyncInv, JournalInv, LinkInv, BeforeInv, AfterInv,
     BackInv, BootInv, FlowsLead, NothingDone, Durable, AllAt, Switching
<1> QED  BY <1>4, <1>5, <1>6, <1>7 DEF IInv

\* gofro-recover runs from the new release, which is on the disk.
LEMMA LinkRecoverStep ==
    ASSUME IInv, LinkRecover PROVE IInv'
<1>1. /\ pc = "link" /\ pc' = "journal"
      /\ UNCHANGED <<running, job, boot, fin, locked, latest, broken, down, faults>>
  BY DEF LinkRecover, Go, Quiet
<1>2. job.ver \in Release
  BY <1>1 DEF IInv, BeforeInv, Durable, TypeOK, Files
<1>3. /\ Became(files.current, files.version, files.journal, files.restored, files.settings, files.snapshots,
               files.releases, job.ver) /\ SameLinks
      /\ disk' = files'
  BY <1>1, <1>2, JournalType DEF LinkRecover, WriteAndSync, IInv, TypeOK, Files, Became, SameLinks, Linked
<1>4. TypeOK'
  BY <1>1, <1>2, <1>3 DEF IInv, TypeOK, Became, Forward, Back, Boot
<1>5. SyncInv' /\ JournalInv'
  BY <1>1, <1>2, <1>3, JournalType DEF IInv, TypeOK, Became, SameLinks, Linked, SyncInv, JournalInv, BeforeInv, AfterInv, BackInv, BootInv, Durable, Ready, SavedIn, AllAt, Serving,
     Switching, Undoing, Back
<1>6. BeforeInv' /\ AfterInv' /\ BackInv' /\ BootInv'
  BY <1>1, <1>2, <1>3, JournalType DEF IInv, TypeOK, Became, SameLinks, Linked, SyncInv, JournalInv, BeforeInv, AfterInv, BackInv, BootInv, Durable, Ready, SavedIn, AllAt, Serving,
     Switching, Undoing, Back
<1>7. LinkInv'
  BY <1>1, <1>2, <1>3, JournalType DEF IInv, TypeOK, Became, SameLinks, Linked, SyncInv, JournalInv, LinkInv, BeforeInv, AfterInv,
     BackInv, BootInv, FlowsLead, NothingDone, Durable, AllAt, Switching
<1> QED  BY <1>4, <1>5, <1>6, <1>7 DEF IInv

\* The journal names a snapshot and a release that are on the disk.
LEMMA WritePendingStep ==
    ASSUME IInv, WritePending PROVE IInv'
<1>1. /\ pc = "journal" /\ pc' = "flows"
      /\ UNCHANGED <<running, job, boot, fin, locked, latest, broken, down, faults>>
  BY DEF WritePending, Go, Quiet
<1>2. job.ver \in Release /\ job.prev \in Release /\ job.snap \in Release
  BY <1>1 DEF IInv, BeforeInv, Durable, TypeOK, Files
<1>3. /\ Became(files.current, files.version, [prev |-> job.prev, snap |-> job.snap], 0, files.settings,
               files.snapshots, files.releases, files.recover) /\ SameLinks
      /\ disk' = files'
  BY <1>1, <1>2, JournalType DEF WritePending, WriteAndSync, IInv, TypeOK, Files, Became, SameLinks, Linked
<1>4. TypeOK'
  BY <1>1, <1>2, <1>3 DEF IInv, TypeOK, Became, Forward, Back, Boot
<1>5. SyncInv' /\ JournalInv'
  BY <1>1, <1>2, <1>3, JournalType DEF IInv, TypeOK, Became, SameLinks, Linked, SyncInv, JournalInv, BeforeInv, AfterInv, BackInv, BootInv, Durable, Ready, SavedIn, AllAt, Serving,
     Switching, Undoing, Back
<1>6. BeforeInv' /\ AfterInv' /\ BackInv' /\ BootInv'
  BY <1>1, <1>2, <1>3, JournalType DEF IInv, TypeOK, Became, SameLinks, Linked, SyncInv, JournalInv, BeforeInv, AfterInv, BackInv, BootInv, Durable, Ready, SavedIn, AllAt, Serving,
     Switching, Undoing, Back
<1>7. LinkInv'
  BY <1>1, <1>2, <1>3, JournalType DEF IInv, TypeOK, Became, SameLinks, Linked, SyncInv, JournalInv, LinkInv, BeforeInv, AfterInv,
     BackInv, BootInv, FlowsLead, NothingDone, Durable, AllAt, Switching
<1> QED  BY <1>4, <1>5, <1>6, <1>7 DEF IInv

\* The services stop.
LEMMA StopServicesStep ==
    ASSUME IInv, StopServices PROVE IInv'
<1>1. /\ pc = "stop" /\ pc' = "switch"
      /\ running' = 0
      /\ UNCHANGED <<job, boot, fin, locked, latest, broken, down, faults>>
  BY DEF StopServices, Go, Quiet
<1>3. files' = files /\ disk' = disk
  BY DEF StopServices, NoWrite
<1>4. TypeOK'
  BY <1>1, <1>3 DEF IInv, TypeOK, Files, Forward, Back, Boot
<1>5. SyncInv' /\ JournalInv'
  BY <1>1, <1>3 DEF IInv, SyncInv, JournalInv, Durable, Ready, SavedIn, AllAt, Serving
<1>6. BeforeInv' /\ AfterInv' /\ BackInv' /\ BootInv'
  BY <1>1, <1>3, JournalType DEF IInv, TypeOK, SyncInv, JournalInv, BeforeInv, AfterInv, BackInv, BootInv, Durable, Ready, SavedIn, AllAt, Serving,
     Switching, Undoing, Back
<1>7. LinkInv'
  BY <1>1, <1>3, JournalType DEF IInv, TypeOK, Became, SameLinks, Linked, SyncInv, JournalInv, LinkInv, BeforeInv, AfterInv,
     BackInv, BootInv, FlowsLead, NothingDone, Durable, AllAt, Switching
<1> QED  BY <1>4, <1>5, <1>6, <1>7 DEF IInv

\* The link moves to the new release.
LEMMA SwitchCurrentStep ==
    ASSUME IInv, SwitchCurrent PROVE IInv'
<1>1. /\ pc = "switch" /\ pc' = "configure"
      /\ UNCHANGED <<running, job, boot, fin, locked, latest, broken, down, faults>>
  BY DEF SwitchCurrent, Go, Quiet
<1>2. job.ver \in Release /\ job.prev \in Release /\ job.snap \in Release
  BY <1>1, SwitchingJob DEF Switching
<1>3. /\ Became(job.ver, files.version, files.journal, files.restored, files.settings, files.snapshots,
               files.releases, files.recover) /\ SameLinks
      /\ disk' = files'
  BY <1>1, <1>2, JournalType DEF SwitchCurrent, WriteAndSync, IInv, TypeOK, Files, Became, SameLinks, Linked
<1>4. TypeOK'
  BY <1>1, <1>2, <1>3 DEF IInv, TypeOK, Became, Forward, Back, Boot
<1>5. SyncInv' /\ JournalInv'
  BY <1>1, <1>2, <1>3, JournalType DEF IInv, TypeOK, Became, SameLinks, Linked, SyncInv, JournalInv, BeforeInv, AfterInv, BackInv, BootInv, Durable, Ready, SavedIn, AllAt, Serving,
     Switching, Undoing, Back
<1>6. BeforeInv' /\ AfterInv' /\ BackInv' /\ BootInv'
  BY <1>1, <1>2, <1>3, JournalType DEF IInv, TypeOK, Became, SameLinks, Linked, SyncInv, JournalInv, BeforeInv, AfterInv, BackInv, BootInv, Durable, Ready, SavedIn, AllAt, Serving,
     Switching, Undoing, Back
<1>7. LinkInv'
  BY <1>1, <1>2, <1>3, JournalType DEF IInv, TypeOK, Became, SameLinks, Linked, SyncInv, JournalInv, LinkInv, BeforeInv, AfterInv,
     BackInv, BootInv, FlowsLead, NothingDone, Durable, AllAt, Switching
<1> QED  BY <1>4, <1>5, <1>6, <1>7 DEF IInv

\* The settings of the new release.
LEMMA ConfigureStep ==
    ASSUME IInv, Configure PROVE IInv'
<1>1. /\ pc = "configure" /\ pc' = "health"
      /\ UNCHANGED <<running, job, boot, fin, locked, latest, broken, down, faults>>
  BY DEF Configure, Go, Quiet
<1>2. job.ver \in Release /\ job.prev \in Release /\ job.snap \in Release
  BY <1>1, SwitchingJob DEF Switching
<1>3. /\ Became(files.current, files.version, files.journal, files.restored, job.ver, files.snapshots,
               files.releases, files.recover) /\ SameLinks
      /\ disk' = disk
  BY <1>1, <1>2, JournalType DEF Configure, Write, IInv, TypeOK, Files, Became, SameLinks, Linked
<1>4. TypeOK'
  BY <1>1, <1>2, <1>3 DEF IInv, TypeOK, Became, Forward, Back, Boot
<1>5. SyncInv' /\ JournalInv'
  BY <1>1, <1>2, <1>3, JournalType DEF IInv, TypeOK, Became, SameLinks, Linked, SyncInv, JournalInv, BeforeInv, AfterInv, BackInv, BootInv, Durable, Ready, SavedIn, AllAt, Serving,
     Switching, Undoing, Back
<1>6. BeforeInv' /\ AfterInv' /\ BackInv' /\ BootInv'
  BY <1>1, <1>2, <1>3, JournalType DEF IInv, TypeOK, Became, SameLinks, Linked, SyncInv, JournalInv, BeforeInv, AfterInv, BackInv, BootInv, Durable, Ready, SavedIn, AllAt, Serving,
     Switching, Undoing, Back
<1>7. LinkInv'
  BY <1>1, <1>2, <1>3, JournalType DEF IInv, TypeOK, Became, SameLinks, Linked, SyncInv, JournalInv, LinkInv, BeforeInv, AfterInv,
     BackInv, BootInv, FlowsLead, NothingDone, Durable, AllAt, Switching
<1> QED  BY <1>4, <1>5, <1>6, <1>7 DEF IInv

\* The new release runs.
LEMMA RestartHealthyStep ==
    ASSUME IInv, RestartHealthy PROVE IInv'
<1>1. /\ pc = "health" /\ pc' = "version"
      /\ running' = files.current
      /\ UNCHANGED <<job, boot, fin, locked, latest, broken, down, faults>>
  BY DEF RestartHealthy, Go, Quiet
<1>3. /\ Became(files.current, files.version, files.journal, files.restored, files.settings, files.snapshots,
               files.releases, files.recover)
      /\ Linked(files.flows, files.guard, files.initd, TRUE) /\ disk' = disk
  BY DEF RestartHealthy, Write, IInv, TypeOK, Files, Became, Linked
<1>4. TypeOK'
  BY <1>1, <1>3 DEF IInv, TypeOK, Files, Became, Forward, Back, Boot
<1>5. SyncInv' /\ JournalInv'
  BY <1>1, <1>3 DEF IInv, Became, Linked, SyncInv, JournalInv, Durable, Ready, SavedIn, AllAt
<1>6. BeforeInv' /\ AfterInv' /\ BackInv' /\ BootInv'
  BY <1>1, <1>3, JournalType DEF IInv, TypeOK, Became, Linked, SyncInv, JournalInv, BeforeInv, AfterInv, BackInv, BootInv,
     Durable, Ready, SavedIn, AllAt, Serving, Switching, Undoing, Back
<1>7. LinkInv'
  BY <1>1, <1>3 DEF IInv, Became, Linked, SyncInv, AfterInv, BootInv, LinkInv, FlowsLead, NothingDone, AllAt, Durable, Switching
<1> QED  BY <1>4, <1>5, <1>6, <1>7 DEF IInv

\* The version file, and with it the settings, are on the disk.
LEMMA WriteVersionStep ==
    ASSUME IInv, WriteVersion PROVE IInv'
<1>1. /\ pc = "version" /\ pc' = "clear"
      /\ UNCHANGED <<running, job, boot, fin, locked, latest, broken, down, faults>>
  BY DEF WriteVersion, Go, Quiet
<1>2. job.ver \in Release /\ job.prev \in Release /\ job.snap \in Release
  BY <1>1, SwitchingJob DEF Switching
<1>3. /\ Became(files.current, job.ver, files.journal, files.restored, files.settings, files.snapshots,
               files.releases, files.recover) /\ SameLinks
      /\ disk' = files'
  BY <1>1, <1>2, JournalType DEF WriteVersion, WriteAndSync, IInv, TypeOK, Files, Became, SameLinks, Linked
<1>4. TypeOK'
  BY <1>1, <1>2, <1>3 DEF IInv, TypeOK, Became, Forward, Back, Boot
<1>5. SyncInv' /\ JournalInv'
  BY <1>1, <1>2, <1>3, JournalType DEF IInv, TypeOK, Became, SameLinks, Linked, SyncInv, JournalInv, BeforeInv, AfterInv, BackInv, BootInv, Durable, Ready, SavedIn, AllAt, Serving,
     Switching, Undoing, Back
<1>6. BeforeInv' /\ AfterInv' /\ BackInv' /\ BootInv'
  BY <1>1, <1>2, <1>3, JournalType DEF IInv, TypeOK, Became, SameLinks, Linked, SyncInv, JournalInv, BeforeInv, AfterInv, BackInv, BootInv, Durable, Ready, SavedIn, AllAt, Serving,
     Switching, Undoing, Back
<1>7. LinkInv'
  BY <1>1, <1>2, <1>3, JournalType DEF IInv, TypeOK, Became, SameLinks, Linked, SyncInv, JournalInv, LinkInv, BeforeInv, AfterInv,
     BackInv, BootInv, FlowsLead, NothingDone, Durable, AllAt, Switching
<1> QED  BY <1>4, <1>5, <1>6, <1>7 DEF IInv

\* The commit: everything is of the new release.
LEMMA ClearPendingStep ==
    ASSUME IInv, ClearPending PROVE IInv'
<1>1. /\ pc = "clear" /\ pc' = "disarm"
      /\ UNCHANGED <<running, job, boot, fin, locked, latest, broken, down, faults>>
  BY DEF ClearPending, Go, Quiet
<1>2. job.prev \in Durable /\ job.prev # 0
  <2>1. job.prev \in Release /\ files.journal = [prev |-> job.prev, snap |-> job.snap]
    BY <1>1, SwitchingJob DEF IInv, AfterInv, Switching
  <2>2. files.journal # NoJournal /\ files.journal.prev = job.prev /\ job.prev # 0
    BY <2>1, JournalType DEF NoJournal
  <2> QED  BY <2>2 DEF IInv, JournalInv, Ready
<1>3. /\ Became(files.current, files.version, NoJournal, files.restored, files.settings, files.snapshots,
               files.releases, files.recover) /\ SameLinks
      /\ disk' = files'
  BY <1>1, JournalType DEF ClearPending, WriteAndSync, IInv, TypeOK, Files, Became, SameLinks, Linked
<1>4. TypeOK'
  BY <1>1, <1>3 DEF IInv, TypeOK, Became, Forward, Back, Boot
<1>5. SyncInv' /\ JournalInv'
  BY <1>1, <1>3, JournalType DEF IInv, TypeOK, Became, SameLinks, Linked, SyncInv, JournalInv, BeforeInv, AfterInv, BackInv, BootInv, Durable, Ready, SavedIn, AllAt, Serving,
     Switching, Undoing, Back
<1>6. BeforeInv' /\ AfterInv' /\ BackInv' /\ BootInv'
  BY <1>1, <1>2, <1>3, JournalType DEF IInv, TypeOK, Became, SameLinks, Linked, SyncInv, JournalInv, BeforeInv, AfterInv, BackInv, BootInv, Durable, Ready, SavedIn, AllAt, Serving,
     Switching, Undoing, Back
<1>7. LinkInv'
  BY <1>1, <1>3, JournalType DEF IInv, TypeOK, Became, SameLinks, Linked, SyncInv, JournalInv, LinkInv, BeforeInv, AfterInv,
     BackInv, BootInv, FlowsLead, NothingDone, Durable, AllAt, Switching
<1> QED  BY <1>4, <1>5, <1>6, <1>7 DEF IInv

\* The snapshot is of no more use.
LEMMA DropSnapshotStep ==
    ASSUME IInv, DropSnapshot PROVE IInv'
<1>1. /\ pc = "drop" /\ pc' = "prune"
      /\ UNCHANGED <<running, job, boot, fin, locked, latest, broken, down, faults>>
  BY DEF DropSnapshot, Go, Quiet
<1>2. WithoutSnapshot(job.ver) \in SUBSET Snapshot
  BY <1>1 DEF IInv, TypeOK, Files, WithoutSnapshot
<1>3. /\ Became(files.current, files.version, files.journal, files.restored, files.settings,
               WithoutSnapshot(job.ver), files.releases, files.recover) /\ SameLinks
      /\ disk' = disk
  BY <1>1, <1>2, JournalType DEF DropSnapshot, Write, IInv, TypeOK, Files, Became, SameLinks, Linked
<1>4. TypeOK'
  BY <1>1, <1>2, <1>3 DEF IInv, TypeOK, Became, Forward, Back, Boot
<1>5. SyncInv' /\ JournalInv'
  BY <1>1, <1>2, <1>3, JournalType DEF IInv, TypeOK, Became, SameLinks, Linked, SyncInv, JournalInv, BeforeInv, AfterInv, BackInv, BootInv, Durable, Ready, SavedIn, AllAt, Serving,
     Switching, Undoing, Back
<1>6. BeforeInv' /\ AfterInv' /\ BackInv' /\ BootInv'
  BY <1>1, <1>2, <1>3, JournalType DEF IInv, TypeOK, Became, SameLinks, Linked, SyncInv, JournalInv, BeforeInv, AfterInv, BackInv, BootInv, Durable, Ready, SavedIn, AllAt, Serving,
     Switching, Undoing, Back
<1>7. LinkInv'
  BY <1>1, <1>2, <1>3, JournalType DEF IInv, TypeOK, Became, SameLinks, Linked, SyncInv, JournalInv, LinkInv, BeforeInv, AfterInv,
     BackInv, BootInv, FlowsLead, NothingDone, Durable, AllAt, Switching
<1> QED  BY <1>4, <1>5, <1>6, <1>7 DEF IInv

-----------------------------------------------------------------------------
(* The steps of a rollback.                                                *)

\* The witness of an earlier boot goes.
LEMMA RollbackBeginStep ==
    ASSUME IInv, RollbackBegin PROVE IInv'
<1>1. /\ pc = "r_begin" /\ pc' = "r_stop"
      /\ UNCHANGED <<running, job, boot, fin, locked, latest, broken, down, faults>>
  BY DEF RollbackBegin, Go, Quiet
<1>3. /\ Became(files.current, files.version, files.journal, 0, files.settings, files.snapshots,
               files.releases, files.recover) /\ SameLinks
      /\ disk' = disk
  BY <1>1, JournalType DEF RollbackBegin, Write, IInv, TypeOK, Files, Became, SameLinks, Linked
<1>4. TypeOK'
  BY <1>1, <1>3 DEF IInv, TypeOK, Became, Forward, Back, Boot
<1>5. SyncInv' /\ JournalInv'
  BY <1>1, <1>3, JournalType DEF IInv, TypeOK, Became, SameLinks, Linked, SyncInv, JournalInv, BeforeInv, AfterInv, BackInv, BootInv, Durable, Ready, SavedIn, AllAt, Serving,
     Switching, Undoing, Back
<1>6. BeforeInv' /\ AfterInv' /\ BackInv' /\ BootInv'
  BY <1>1, <1>3, JournalType DEF IInv, TypeOK, Became, SameLinks, Linked, SyncInv, JournalInv, BeforeInv, AfterInv, BackInv, BootInv, Durable, Ready, SavedIn, AllAt, Serving,
     Switching, Undoing, Back
<1>7. LinkInv'
  BY <1>1, <1>3, JournalType DEF IInv, TypeOK, Became, SameLinks, Linked, SyncInv, JournalInv, LinkInv, BeforeInv, AfterInv,
     BackInv, BootInv, FlowsLead, NothingDone, Durable, AllAt, Switching
<1> QED  BY <1>4, <1>5, <1>6, <1>7 DEF IInv

\* The link moves back to a release that is there.
LEMMA RollbackSwitchStep ==
    ASSUME IInv, RollbackSwitch PROVE IInv'
<1>1. /\ pc = "r_switch" /\ pc' = "r_version"
      /\ UNCHANGED <<running, job, boot, fin, locked, latest, broken, down, faults>>
  BY DEF RollbackSwitch, Go, Quiet
<1>2. job.prev \in Release
  BY <1>1, UndoingJob DEF Undoing, Back
<1>3. /\ Became(job.prev, files.version, files.journal, files.restored, files.settings, files.snapshots,
               files.releases, files.recover) /\ SameLinks
      /\ disk' = files'
  BY <1>1, <1>2, JournalType DEF RollbackSwitch, WriteAndSync, IInv, TypeOK, Files, Became, SameLinks, Linked
<1>4. TypeOK'
  BY <1>1, <1>2, <1>3 DEF IInv, TypeOK, Became, Forward, Back, Boot
<1>5. SyncInv' /\ JournalInv'
  BY <1>1, <1>2, <1>3, JournalType DEF IInv, TypeOK, Became, SameLinks, Linked, SyncInv, JournalInv, BeforeInv, AfterInv, BackInv, BootInv, Durable, Ready, SavedIn, AllAt, Serving,
     Switching, Undoing, Back
<1>6. BeforeInv' /\ AfterInv' /\ BackInv' /\ BootInv'
  BY <1>1, <1>2, <1>3, JournalType DEF IInv, TypeOK, Became, SameLinks, Linked, SyncInv, JournalInv, BeforeInv, AfterInv, BackInv, BootInv, Durable, Ready, SavedIn, AllAt, Serving,
     Switching, Undoing, Back
<1>7. LinkInv'
  BY <1>1, <1>2, <1>3, JournalType DEF IInv, TypeOK, Became, SameLinks, Linked, SyncInv, JournalInv, LinkInv, BeforeInv, AfterInv,
     BackInv, BootInv, FlowsLead, NothingDone, Durable, AllAt, Switching, Undoing, Back
<1> QED  BY <1>4, <1>5, <1>6, <1>7 DEF IInv

\* The version file is that of the old release.
LEMMA RollbackVersionStep ==
    ASSUME IInv, RollbackVersion PROVE IInv'
<1>1. /\ pc = "r_version" /\ pc' = "r_health"
      /\ UNCHANGED <<running, job, boot, fin, locked, latest, broken, down, faults>>
  BY DEF RollbackVersion, Go, Quiet
<1>2. job.prev \in Release
  BY <1>1, UndoingJob DEF Undoing, Back
<1>3. /\ Became(files.current, job.prev, files.journal, files.restored, files.settings, files.snapshots,
               files.releases, files.recover) /\ SameLinks
      /\ disk' = files'
  BY <1>1, <1>2, JournalType DEF RollbackVersion, WriteAndSync, IInv, TypeOK, Files, Became, SameLinks, Linked
<1>4. TypeOK'
  BY <1>1, <1>2, <1>3 DEF IInv, TypeOK, Became, Forward, Back, Boot
<1>5. SyncInv' /\ JournalInv'
  BY <1>1, <1>2, <1>3, JournalType DEF IInv, TypeOK, Became, SameLinks, Linked, SyncInv, JournalInv, BeforeInv, AfterInv, BackInv, BootInv, Durable, Ready, SavedIn, AllAt, Serving,
     Switching, Undoing, Back
<1>6. BeforeInv' /\ AfterInv' /\ BackInv' /\ BootInv'
  BY <1>1, <1>2, <1>3, JournalType DEF IInv, TypeOK, Became, SameLinks, Linked, SyncInv, JournalInv, BeforeInv, AfterInv, BackInv, BootInv, Durable, Ready, SavedIn, AllAt, Serving,
     Switching, Undoing, Back
<1>7. LinkInv'
  BY <1>1, <1>2, <1>3, JournalType DEF IInv, TypeOK, Became, SameLinks, Linked, SyncInv, JournalInv, LinkInv, BeforeInv, AfterInv,
     BackInv, BootInv, FlowsLead, NothingDone, Durable, AllAt, Switching
<1> QED  BY <1>4, <1>5, <1>6, <1>7 DEF IInv

\* The journal goes when release, version and settings are back.
LEMMA RollbackClearStep ==
    ASSUME IInv, RollbackClear PROVE IInv'
<1>1. /\ pc = "r_clear" /\ pc' = "r_drop"
      /\ UNCHANGED <<running, job, boot, fin, locked, latest, broken, down, faults>>
  BY DEF RollbackClear, Go, Quiet
<1>3. /\ Became(files.current, files.version, NoJournal, files.restored, files.settings, files.snapshots,
               files.releases, files.recover) /\ SameLinks
      /\ disk' = files'
  BY <1>1, JournalType DEF RollbackClear, WriteAndSync, IInv, TypeOK, Files, Became, SameLinks, Linked
<1>4. TypeOK'
  BY <1>1, <1>3 DEF IInv, TypeOK, Became, Forward, Back, Boot
<1>5. SyncInv' /\ JournalInv'
  BY <1>1, <1>3, JournalType DEF IInv, TypeOK, Became, SameLinks, Linked, SyncInv, JournalInv, BeforeInv, AfterInv, BackInv, BootInv, Durable, Ready, SavedIn, AllAt, Serving,
     Switching, Undoing, Back
<1>6. BeforeInv' /\ AfterInv' /\ BackInv' /\ BootInv'
  BY <1>1, <1>3, JournalType DEF IInv, TypeOK, Became, SameLinks, Linked, SyncInv, JournalInv, BeforeInv, AfterInv, BackInv, BootInv, Durable, Ready, SavedIn, AllAt, Serving,
     Switching, Undoing, Back
<1>7. LinkInv'
  BY <1>1, <1>3, JournalType DEF IInv, TypeOK, Became, SameLinks, Linked, SyncInv, JournalInv, LinkInv, BeforeInv, AfterInv,
     BackInv, BootInv, FlowsLead, NothingDone, Durable, AllAt, Switching
<1> QED  BY <1>4, <1>5, <1>6, <1>7 DEF IInv

\* The snapshot is of no more use.
LEMMA RollbackDropStep ==
    ASSUME IInv, RollbackDrop PROVE IInv'
<1>1. /\ pc = "r_drop" /\ pc' = "r_link"
      /\ UNCHANGED <<running, job, boot, fin, locked, latest, broken, down, faults>>
  BY DEF RollbackDrop, Go, Quiet
<1>2. WithoutSnapshot(job.snap) \in SUBSET Snapshot
  BY <1>1 DEF IInv, TypeOK, Files, WithoutSnapshot
<1>3. /\ Became(files.current, files.version, files.journal, files.restored, files.settings,
               WithoutSnapshot(job.snap), files.releases, files.recover) /\ SameLinks
      /\ disk' = disk
  BY <1>1, <1>2, JournalType DEF RollbackDrop, Write, IInv, TypeOK, Files, Became, SameLinks, Linked
<1>4. TypeOK'
  BY <1>1, <1>2, <1>3 DEF IInv, TypeOK, Became, Forward, Back, Boot
<1>5. SyncInv' /\ JournalInv'
  BY <1>1, <1>2, <1>3, JournalType DEF IInv, TypeOK, Became, SameLinks, Linked, SyncInv, JournalInv, BeforeInv, AfterInv, BackInv, BootInv, Durable, Ready, SavedIn, AllAt, Serving,
     Switching, Undoing, Back
<1>6. BeforeInv' /\ AfterInv' /\ BackInv' /\ BootInv'
  BY <1>1, <1>2, <1>3, JournalType DEF IInv, TypeOK, Became, SameLinks, Linked, SyncInv, JournalInv, BeforeInv, AfterInv, BackInv, BootInv, Durable, Ready, SavedIn, AllAt, Serving,
     Switching, Undoing, Back
<1>7. LinkInv'
  BY <1>1, <1>2, <1>3, JournalType DEF IInv, TypeOK, Became, SameLinks, Linked, SyncInv, JournalInv, LinkInv, BeforeInv, AfterInv,
     BackInv, BootInv, FlowsLead, NothingDone, Durable, AllAt, Switching
<1> QED  BY <1>4, <1>5, <1>6, <1>7 DEF IInv
-----------------------------------------------------------------------------
(* The steps of the boot.                                                  *)

\* gofro-recover moves the link back.
LEMMA RecoverSwitchStep ==
    ASSUME IInv, RecoverSwitch PROVE IInv'
<1>1. /\ boot = "b_switch" /\ boot' = "b_version"
      /\ UNCHANGED <<running, fin, pc, job, locked, latest, broken, down, faults>>
  BY DEF RecoverSwitch, Installer, Quiet
<1>2. files.journal \in Journal
  BY <1>1 DEF IInv, BootInv, TypeOK, Files
<1>3. /\ Became(files.journal.prev, files.version, files.journal, files.restored, files.settings,
               files.snapshots, files.releases, files.recover) /\ SameLinks
      /\ disk' = files'
  BY <1>1, <1>2, JournalType DEF RecoverSwitch, WriteAndSync, IInv, TypeOK, Files, Became, SameLinks, Linked
<1>4. TypeOK'
  BY <1>1, <1>2, <1>3 DEF IInv, TypeOK, Became, Forward, Back, Boot
<1>5. SyncInv' /\ JournalInv'
  BY <1>1, <1>2, <1>3, JournalType DEF IInv, TypeOK, Became, SameLinks, Linked, SyncInv, JournalInv, BeforeInv, AfterInv, BackInv, BootInv, Durable, Ready, SavedIn, AllAt, Serving,
     Switching, Undoing, Back
<1>6. BeforeInv' /\ AfterInv' /\ BackInv' /\ BootInv'
  BY <1>1, <1>2, <1>3, JournalType DEF IInv, TypeOK, Became, SameLinks, Linked, SyncInv, JournalInv, BeforeInv, AfterInv, BackInv, BootInv, Durable, Ready, SavedIn, AllAt, Serving,
     Switching, Undoing, Back
<1>7. LinkInv'
  BY <1>1, <1>2, <1>3, JournalType DEF IInv, TypeOK, Became, SameLinks, Linked, SyncInv, JournalInv, LinkInv, BeforeInv, AfterInv,
     BackInv, BootInv, FlowsLead, NothingDone, Durable, AllAt, Switching
<1> QED  BY <1>4, <1>5, <1>6, <1>7 DEF IInv

\* The witness is written when release, version and settings are back.
LEMMA RecoverVersionStep ==
    ASSUME IInv, RecoverVersion PROVE IInv'
<1>1. /\ boot = "b_version" /\ boot' = "start"
      /\ UNCHANGED <<running, fin, pc, job, locked, latest, broken, down, faults>>
  BY DEF RecoverVersion, Installer, Quiet
<1>2. files.journal \in Journal
  BY <1>1 DEF IInv, BootInv, TypeOK, Files
<1>3. /\ Became(files.current, files.journal.prev, files.journal, files.journal.prev, files.settings,
               files.snapshots, files.releases, files.recover)
      /\ Linked(files.flows, files.guard, files.initd, TRUE) /\ disk' = files'
  BY <1>1, <1>2, JournalType DEF RecoverVersion, WriteAndSync, IInv, TypeOK, Files, Became, SameLinks, Linked
<1>4. TypeOK'
  BY <1>1, <1>2, <1>3 DEF IInv, TypeOK, Became, Forward, Back, Boot
<1>5. SyncInv' /\ JournalInv'
  BY <1>1, <1>2, <1>3, JournalType DEF IInv, TypeOK, Became, SameLinks, Linked, SyncInv, JournalInv, BeforeInv, AfterInv, BackInv, BootInv, Durable, Ready, SavedIn, AllAt, Serving,
     Switching, Undoing, Back
<1>6. BeforeInv' /\ AfterInv' /\ BackInv' /\ BootInv'
  BY <1>1, <1>2, <1>3, JournalType DEF IInv, TypeOK, Became, SameLinks, Linked, SyncInv, JournalInv, BeforeInv, AfterInv, BackInv, BootInv, Durable, Ready, SavedIn, AllAt, Serving,
     Switching, Undoing, Back
<1>7. LinkInv'
  BY <1>1, <1>2, <1>3, JournalType DEF IInv, TypeOK, Became, SameLinks, Linked, SyncInv, JournalInv, LinkInv, BeforeInv, AfterInv,
     BackInv, BootInv, FlowsLead, NothingDone, Durable, AllAt, Switching
<1> QED  BY <1>4, <1>5, <1>6, <1>7 DEF IInv

\* The services start.
LEMMA ServeStep ==
    ASSUME IInv, Serve PROVE IInv'
<1>1. /\ boot = "start" /\ boot' = "finalize"
      /\ running' = IF files.enabled /\ GuardRuns THEN files.current ELSE 0
      /\ UNCHANGED <<fin, pc, job, locked, latest, broken, down, faults>>
  BY DEF Serve, Installer, Quiet
<1>3. files' = files /\ disk' = disk
  BY DEF Serve, NoWrite
<1>4. TypeOK'
  BY <1>1, <1>3 DEF IInv, TypeOK, Files, Forward, Back, Boot
<1>5. SyncInv' /\ JournalInv'
  BY <1>1, <1>3 DEF IInv, SyncInv, JournalInv, Durable, Ready, SavedIn, AllAt, Serving
<1>6. BeforeInv' /\ AfterInv' /\ BackInv' /\ BootInv'
  BY <1>1, <1>3, JournalType DEF IInv, GuardRuns, LinkInv, TypeOK, SyncInv, JournalInv, BeforeInv, AfterInv, BackInv, BootInv, Durable, Ready, SavedIn, AllAt, Serving,
     Switching, Undoing, Back
<1>7. LinkInv'
  BY <1>1, <1>3, JournalType DEF IInv, TypeOK, Became, SameLinks, Linked, SyncInv, JournalInv, LinkInv, BeforeInv, AfterInv,
     BackInv, BootInv, FlowsLead, NothingDone, Durable, AllAt, Switching
<1> QED  BY <1>4, <1>5, <1>6, <1>7 DEF IInv

\* gofro-finalize removes the journal of a restored release.
LEMMA FinalizeClearStep ==
    ASSUME IInv, FinalizeClear PROVE IInv'
<1>1. /\ boot = "f_clear" /\ boot' = "f_drop"
      /\ UNCHANGED <<running, fin, pc, job, locked, latest, broken, down, faults>>
  BY DEF FinalizeClear, Installer, Quiet
<1>3. /\ Became(files.current, files.version, NoJournal, 0, files.settings, files.snapshots, files.releases,
               files.recover) /\ SameLinks
      /\ disk' = files'
  BY <1>1, JournalType DEF FinalizeClear, WriteAndSync, IInv, TypeOK, Files, Became, SameLinks, Linked
<1>4. TypeOK'
  BY <1>1, <1>3 DEF IInv, TypeOK, Became, Forward, Back, Boot
<1>5. SyncInv' /\ JournalInv'
  BY <1>1, <1>3, JournalType DEF IInv, TypeOK, Became, SameLinks, Linked, SyncInv, JournalInv, BeforeInv, AfterInv, BackInv, BootInv, Durable, Ready, SavedIn, AllAt, Serving,
     Switching, Undoing, Back
<1>6. BeforeInv' /\ AfterInv' /\ BackInv' /\ BootInv'
  BY <1>1, <1>3, JournalType DEF IInv, TypeOK, Became, SameLinks, Linked, SyncInv, JournalInv, BeforeInv, AfterInv, BackInv, BootInv, Durable, Ready, SavedIn, AllAt, Serving,
     Switching, Undoing, Back
<1>7. LinkInv'
  BY <1>1, <1>3, JournalType DEF IInv, TypeOK, Became, SameLinks, Linked, SyncInv, JournalInv, LinkInv, BeforeInv, AfterInv,
     BackInv, BootInv, FlowsLead, NothingDone, Durable, AllAt, Switching
<1> QED  BY <1>4, <1>5, <1>6, <1>7 DEF IInv

\* The snapshot is of no more use.
LEMMA FinalizeDropStep ==
    ASSUME IInv, FinalizeDrop PROVE IInv'
<1>1. /\ boot = "f_drop" /\ boot' = "f_link"
      /\ UNCHANGED <<running, fin, pc, job, locked, latest, broken, down, faults>>
  BY DEF FinalizeDrop, Installer, Quiet
<1>2. WithoutSnapshot(fin.snap) \in SUBSET Snapshot
  BY <1>1 DEF IInv, TypeOK, Files, WithoutSnapshot
<1>3. /\ Became(files.current, files.version, files.journal, files.restored, files.settings,
               WithoutSnapshot(fin.snap), files.releases, files.recover) /\ SameLinks
      /\ disk' = disk
  BY <1>1, <1>2, JournalType DEF FinalizeDrop, Write, IInv, TypeOK, Files, Became, SameLinks, Linked
<1>4. TypeOK'
  BY <1>1, <1>2, <1>3 DEF IInv, TypeOK, Became, Forward, Back, Boot
<1>5. SyncInv' /\ JournalInv'
  BY <1>1, <1>2, <1>3, JournalType DEF IInv, TypeOK, Became, SameLinks, Linked, SyncInv, JournalInv, BeforeInv, AfterInv, BackInv, BootInv, Durable, Ready, SavedIn, AllAt, Serving,
     Switching, Undoing, Back
<1>6. BeforeInv' /\ AfterInv' /\ BackInv' /\ BootInv'
  BY <1>1, <1>2, <1>3, JournalType DEF IInv, TypeOK, Became, SameLinks, Linked, SyncInv, JournalInv, BeforeInv, AfterInv, BackInv, BootInv, Durable, Ready, SavedIn, AllAt, Serving,
     Switching, Undoing, Back
<1>7. LinkInv'
  BY <1>1, <1>2, <1>3, JournalType DEF IInv, TypeOK, Became, SameLinks, Linked, SyncInv, JournalInv, LinkInv, BeforeInv, AfterInv,
     BackInv, BootInv, FlowsLead, NothingDone, Durable, AllAt, Switching
<1> QED  BY <1>4, <1>5, <1>6, <1>7 DEF IInv

\* The link of gofro-recover goes through current again.
LEMMA FinalizeLinkStep ==
    ASSUME IInv, FinalizeLink PROVE IInv'
<1>1. /\ boot = "f_link" /\ boot' = "up"
      /\ UNCHANGED <<running, fin, pc, job, locked, latest, broken, down, faults>>
  BY DEF FinalizeLink, Installer, Quiet
<1>3. /\ Became(files.current, files.version, files.journal, files.restored, files.settings, files.snapshots,
               files.releases, 0) /\ SameLinks
      /\ disk' = files'
  BY <1>1, JournalType DEF FinalizeLink, WriteAndSync, IInv, TypeOK, Files, Became, SameLinks, Linked
<1>4. TypeOK'
  BY <1>1, <1>3 DEF IInv, TypeOK, Became, Forward, Back, Boot
<1>5. SyncInv' /\ JournalInv'
  BY <1>1, <1>3, JournalType DEF IInv, TypeOK, Became, SameLinks, Linked, SyncInv, JournalInv, BeforeInv, AfterInv, BackInv, BootInv, Durable, Ready, SavedIn, AllAt, Serving,
     Switching, Undoing, Back
<1>6. BeforeInv' /\ AfterInv' /\ BackInv' /\ BootInv'
  BY <1>1, <1>3, JournalType DEF IInv, TypeOK, Became, SameLinks, Linked, SyncInv, JournalInv, BeforeInv, AfterInv, BackInv, BootInv, Durable, Ready, SavedIn, AllAt, Serving,
     Switching, Undoing, Back
<1>7. LinkInv'
  BY <1>1, <1>3, JournalType DEF IInv, TypeOK, Became, SameLinks, Linked, SyncInv, JournalInv, LinkInv, BeforeInv, AfterInv,
     BackInv, BootInv, FlowsLead, NothingDone, Durable, AllAt, Switching
<1> QED  BY <1>4, <1>5, <1>6, <1>7 DEF IInv

-----------------------------------------------------------------------------
(* Steps with several outcomes.                                            *)

\* Settings that a step may leave although the installer ends there or turns
\* back: those of the release to which a rollback leads, or any under a journal
\* with which the boot can stop the agent.
Harmless(s) ==
    \/ s = files.settings
    \/ ~LateSignals => s = IF files.journal = NoJournal THEN files.current ELSE files.journal.prev
    \/ files.journal # NoJournal /\ files.restored = 0 /\ disk.restored = 0 /\ FlowsLead

\* At most the settings change, to harmless ones, and the services are enabled.
Leaves(s, e) ==
    /\ Became(files.current, files.version, files.journal, files.restored, s, files.snapshots,
              files.releases, files.recover)
    /\ Linked(files.flows, files.guard, files.initd, e)
    /\ Harmless(s) /\ e \in {files.enabled, TRUE} /\ disk' = disk

\* In particular, nothing changes.
LEMMA NothingWritten ==
    ASSUME IInv, files' = files, disk' = disk
    PROVE  Leaves(files.settings, files.enabled)
BY DEF Leaves, Became, Linked, Harmless, IInv, TypeOK

\* When the installer ends or turns back the files are in order.
LEMMA LeftInOrder ==
    ASSUME IInv, NEW s, NEW e, Leaves(s, e), broken' = broken, pc' \in {"off", "r_begin"}, boot' = "up"
    PROVE  SyncInv' /\ JournalInv' /\ LinkInv'
<1>1. SyncInv'
  BY DEF IInv, Leaves, Became, Linked, SyncInv, Durable
<1>2. JournalInv'
  BY DEF IInv, Leaves, Harmless, Became, SyncInv, JournalInv, Durable, Ready, SavedIn, AllAt
<1>3. LinkInv'
  <2>1. /\ files'.flows = files.flows /\ files'.initd = files.initd /\ files'.releases = files.releases
        /\ files'.journal = files.journal /\ files'.current = files.current /\ files'.version = files.version
        /\ disk' = disk
    BY DEF Leaves, Became, Linked
  <2>2. files.enabled => files'.enabled
    BY DEF Leaves, Linked
  <2>3. files.journal # NoJournal => (FlowsLead \/ NothingDone)'
    <3>1. FlowsLead => FlowsLead'  BY <2>1 DEF FlowsLead, Durable
    <3>2. ASSUME NothingDone, files.journal # NoJournal, ~FlowsLead PROVE NothingDone'
      BY <2>1, <3>2 DEF Leaves, Harmless, Became, NothingDone, AllAt
    <3> QED  BY <3>1, <3>2 DEF IInv, LinkInv
  <2> QED  BY <2>1, <2>2, <2>3 DEF IInv, LinkInv, Durable
<1> QED  BY <1>1, <1>2, <1>3

\* The installer ends, or is killed.
LEMMA EndStep ==
    ASSUME IInv, pc # "off", pc' = "off", job' = NoJob, locked' \in BOOLEAN, NEW s, NEW e, Leaves(s, e),
           UNCHANGED <<boot, fin, latest, broken>>, down' \in BOOLEAN, faults' \in 0 .. MaxFaults,
           running' \in Release \cup {0},
           ~locked' /\ files.journal = NoJournal /\ ~LateSignals => running' = files.current \/ broken \/ down'
    PROVE  IInv'
<1>1. boot = "up"  BY DEF IInv, BootInv
<1>2. NoJob \in [ver : Release \cup {0}, prev : Release \cup {0}, snap : Release \cup {0}, cleanup : BOOLEAN]
  BY DEF NoJob
<1>3. TypeOK'  BY <1>2 DEF IInv, TypeOK, Leaves, Became
<1>4. SyncInv' /\ JournalInv' /\ LinkInv'  BY <1>1, LeftInOrder
<1>5. BeforeInv' /\ AfterInv' /\ BackInv' /\ BootInv'
  BY <1>1 DEF Leaves, Became, BeforeInv, AfterInv, BackInv, BootInv, Serving, Switching, Undoing, Back
<1> QED  BY <1>3, <1>4, <1>5 DEF IInv

\* The trap starts a rollback of what this installer did.
LEMMA BackStep ==
    ASSUME IInv, pc # "off", pc' = "r_begin", job' = [job EXCEPT !.cleanup = TRUE], locked' = locked,
           job.prev \in Durable, job.prev # 0,
           files.journal # NoJournal \/ ~LateSignals => Ready(job.snap, job.prev),
           files.journal \in {NoJournal, [prev |-> job.prev, snap |-> job.snap]},
           files.journal = NoJournal /\ ~LateSignals => files.current = job.prev,
           NEW s, NEW e, Leaves(s, e),
           UNCHANGED <<boot, fin, latest, broken>>, down' \in BOOLEAN, faults' \in 0 .. MaxFaults,
           running' \in Release \cup {0}
    PROVE  IInv'
<1>1. boot = "up" /\ locked  BY DEF IInv, BootInv
<1>2. /\ job' \in [ver : Release \cup {0}, prev : Release \cup {0}, snap : Release \cup {0}, cleanup : BOOLEAN]
      /\ job'.prev = job.prev /\ job'.snap = job.snap /\ job'.cleanup = TRUE
  BY DEF IInv, TypeOK
<1>3. TypeOK'  BY <1>2 DEF IInv, TypeOK, Back, Leaves, Became
<1>4. SyncInv' /\ JournalInv' /\ LinkInv'  BY <1>1, LeftInOrder
<1>5. BeforeInv' /\ AfterInv' /\ BootInv'
  BY <1>1 DEF BeforeInv, AfterInv, BootInv, Switching
<1>6. BackInv'
  BY <1>2 DEF Leaves, Became, BackInv, Undoing, Back, Ready, SavedIn, Durable
<1> QED  BY <1>3, <1>4, <1>5, <1>6 DEF IInv

\* What the trap finds: without a snapshot taken nothing has been changed, with
\* one the rollback has what it needs.
LEMMA TrapFinds ==
    ASSUME IInv, pc # "off", pc \in Committed => LateSignals
    PROVE  /\ job.prev = 0 => files.journal = NoJournal /\ Serving
           /\ job.prev # 0 => /\ job.prev \in Durable
                              /\ files.journal # NoJournal \/ ~LateSignals => Ready(job.snap, job.prev)
                              /\ files.journal \in {NoJournal, [prev |-> job.prev, snap |-> job.snap]}
                              /\ files.journal = NoJournal /\ ~LateSignals => files.current = job.prev
<1>1. CASE pc \in {"publish", "snapshot", "arm", "drop", "prune"}
  BY <1>1 DEF IInv, BeforeInv, AfterInv, Serving
<1>2. CASE pc \in {"link", "journal"}
  <2>1. job.prev # 0  BY <1>2, JournalType DEF IInv, BeforeInv, TypeOK, Files
  <2> QED  BY <1>2, <2>1 DEF IInv, BeforeInv, Serving, Ready, Undoing, Back
<1>3. CASE pc \in Switching
  <2>1. files.journal = [prev |-> job.prev, snap |-> job.snap] /\ job.prev # 0  BY <1>3 DEF IInv, AfterInv
  <2>2. files.journal # NoJournal
    <3>1. NoJournal.prev = 0  BY DEF NoJournal
    <3> QED  BY <2>1, <3>1
  <2>3. Ready(files.journal.snap, files.journal.prev)  BY <2>2 DEF IInv, JournalInv
  <2>4. Ready(job.snap, job.prev)  BY <2>1, <2>3
  <2> QED  BY <2>1, <2>2, <2>4 DEF Ready
<1>4. CASE pc \in Undoing
  <2>1. job.prev # 0 /\ job.prev \in Durable  BY <1>4 DEF IInv, BackInv, Undoing
  <2> QED  BY <1>4, <2>1 DEF IInv, BackInv
<1>5. CASE pc \in Committed
  <2>1. LateSignals  BY <1>5
  <2>2. job.prev \in Durable /\ job.prev # 0 /\ files.journal = NoJournal
    BY <1>5 DEF IInv, AfterInv, BackInv, Back, Committed
  <2> QED  BY <2>1, <2>2
<1>6. pc \in {"publish", "snapshot", "arm", "drop", "prune", "link", "journal"} \cup Switching \cup Undoing \cup Committed
  BY DEF IInv, TypeOK, Forward, Switching, Undoing, Committed, Back
<1> QED  BY <1>1, <1>2, <1>3, <1>4, <1>5, <1>6

\* A rollback that cannot go on tries once more or ends.
LEMMA GiveUpStep ==
    ASSUME IInv, pc \in Back, pc \in Committed => LateSignals, GiveUp, NEW s, NEW e, Leaves(s, e),
           UNCHANGED <<boot, fin, latest, broken, faults>>, running' \in Release \cup {0}
    PROVE  IInv'
<1>1. pc # "off" /\ faults' \in 0 .. MaxFaults  BY DEF Back, IInv, TypeOK
<1>2. job.prev # 0  BY DEF IInv, BackInv
<1>3. CASE job.cleanup
  <2>1. /\ pc' = "off" /\ job' = NoJob /\ locked' = FALSE
        /\ down' = (down \/ files.journal = NoJournal)
    BY <1>3 DEF GiveUp, Exit
  <2>2. down' \in BOOLEAN  BY <2>1
  <2>3. files.journal = NoJournal => down'  BY <2>1
  <2>4. locked' \in BOOLEAN  BY <2>1
  <2>5. boot' = boot /\ fin' = fin /\ latest' = latest /\ broken' = broken  OBVIOUS
  <2> QED  BY <1>1, <2>1, <2>2, <2>3, <2>4, <2>5, EndStep
<1>4. CASE ~job.cleanup
  <2>1. pc' = "r_begin" /\ job' = [job EXCEPT !.cleanup = TRUE] /\ locked' = locked /\ down' = down
    BY <1>4 DEF GiveUp
  <2>2. down' \in BOOLEAN  BY <2>1 DEF IInv, TypeOK
  <2> QED  BY <1>1, <1>2, <2>1, <2>2, TrapFinds, BackStep
<1> QED  BY <1>3, <1>4

\* The services stop, if the guard's commands are there.
LEMMA RollbackStopStep ==
    ASSUME IInv, RollbackStop PROVE IInv'
<1>1. pc = "r_stop" /\ UNCHANGED <<files, disk, boot, fin, latest, broken, faults>>
  BY DEF RollbackStop, NoWrite
<1>2. CASE pc' = "r_restore" /\ running' = 0 /\ UNCHANGED <<job, locked, down>>
  <2>1. TypeOK'  BY <1>1, <1>2 DEF IInv, TypeOK, Back
  <2>2. SyncInv' /\ JournalInv'  BY <1>1 DEF IInv, SyncInv, JournalInv, Durable, Ready, SavedIn, AllAt
  <2>3. BeforeInv' /\ AfterInv' /\ BackInv' /\ BootInv'
    BY <1>1, <1>2 DEF IInv, BeforeInv, AfterInv, BackInv, BootInv, Switching, Undoing, Back, Ready, SavedIn, Durable
  <2>4. LinkInv'  BY <1>1, <1>2 DEF IInv, BootInv, LinkInv, FlowsLead, NothingDone, AllAt, Durable
  <2> QED  BY <2>1, <2>2, <2>3, <2>4 DEF IInv
<1>3. CASE GiveUp /\ UNCHANGED running
  <2>1. Leaves(files.settings, files.enabled)  BY <1>1, NothingWritten
  <2>2. pc \in Back /\ pc \notin Committed /\ running' \in Release \cup {0}
    BY <1>1, <1>3 DEF Back, Committed, IInv, TypeOK
  <2> QED  BY <1>1, <1>3, <2>1, <2>2, GiveUpStep
<1> QED  BY <1>2, <1>3 DEF RollbackStop

\* The old release runs, if the guard's links are there.
LEMMA RollbackHealthyStep ==
    ASSUME IInv, RollbackHealthy PROVE IInv'
<1>1. pc = "r_health" /\ UNCHANGED <<boot, fin, latest, broken, faults>>
  BY DEF RollbackHealthy
<1>2. CASE /\ pc' = "r_clear" /\ running' = files.current /\ UNCHANGED <<job, locked, down>>
           /\ Write([files EXCEPT !.enabled = TRUE])
  <2>1. /\ Became(files.current, files.version, files.journal, files.restored, files.settings, files.snapshots,
                  files.releases, files.recover)
        /\ Linked(files.flows, files.guard, files.initd, TRUE) /\ disk' = disk
    BY <1>2 DEF Write, IInv, TypeOK, Files, Became, Linked
  <2>2. TypeOK'  BY <1>1, <1>2, <2>1 DEF IInv, TypeOK, Files, Became, Back
  <2>3. SyncInv' /\ JournalInv'
    BY <2>1 DEF IInv, Became, Linked, SyncInv, JournalInv, Durable, Ready, SavedIn, AllAt
  <2>4. BeforeInv' /\ AfterInv' /\ BackInv' /\ BootInv'
    BY <1>1, <1>2, <2>1 DEF IInv, Became, BeforeInv, AfterInv, BackInv, BootInv, Switching, Undoing, Back, Ready, SavedIn,
       Durable
  <2>5. LinkInv'
    BY <1>1, <1>2, <2>1 DEF IInv, Became, Linked, BootInv, LinkInv, FlowsLead, NothingDone, AllAt, Durable
  <2> QED  BY <2>2, <2>3, <2>4, <2>5 DEF IInv
<1>3. CASE GiveUp /\ NoWrite /\ UNCHANGED running
  <2>1. Leaves(files.settings, files.enabled)  BY <1>3, NothingWritten DEF NoWrite
  <2>2. pc \in Back /\ pc \notin Committed /\ running' \in Release \cup {0}
    BY <1>1, <1>3 DEF Back, Committed, IInv, TypeOK
  <2> QED  BY <1>1, <1>3, <2>1, <2>2, GiveUpStep
<1> QED  BY <1>2, <1>3 DEF RollbackHealthy

\* The update begins: with a rollback if there is a journal, else by pruning.
LEMMA BeginStep ==
    ASSUME IInv, Begin, ~EarlyUpdates PROVE IInv'
<1>1. /\ pc = "off" /\ ~locked /\ boot = "up" /\ UNCHANGED <<boot, fin, running, latest, down, faults>>
  BY DEF Begin, UpdaterRuns
<1>2. CASE /\ files.journal # NoJournal /\ pc' = "r_begin" /\ locked' = TRUE /\ NoWrite /\ broken' = broken
           /\ job' = [ver |-> latest, prev |-> files.journal.prev, snap |-> files.journal.snap, cleanup |-> FALSE]
  <2>1. files' = files /\ disk' = disk  BY <1>2 DEF NoWrite
  <2>2. files.journal \in Journal  BY <1>2 DEF IInv, TypeOK, Files
  <2>3. files.journal = [prev |-> files.journal.prev, snap |-> files.journal.snap]  BY <2>2 DEF Journal
  <2>4. /\ job' \in [ver : Release \cup {0}, prev : Release \cup {0}, snap : Release \cup {0}, cleanup : BOOLEAN]
        /\ job'.prev = files.journal.prev /\ job'.snap = files.journal.snap
    BY <1>2, <2>2, JournalType DEF IInv, TypeOK
  <2>5. files.journal.prev # 0  BY <2>2, JournalType
  <2>6. TypeOK'  BY <1>1, <1>2, <2>1, <2>4 DEF IInv, TypeOK, Back
  <2>7. SyncInv' /\ JournalInv'  BY <2>1 DEF IInv, SyncInv, JournalInv, Durable, Ready, SavedIn, AllAt, Serving
  <2>8. BeforeInv' /\ AfterInv' /\ BootInv'
    BY <1>1, <1>2 DEF BeforeInv, AfterInv, BootInv, Switching
  <2>9. BackInv'
    BY <1>2, <2>1, <2>3, <2>4, <2>5 DEF IInv, JournalInv, BackInv, Undoing, Back, Ready, SavedIn, Durable
  <2>10. LinkInv'
    BY <1>1, <1>2, <2>1 DEF IInv, LinkInv, FlowsLead, NothingDone, Durable, AllAt
  <2> QED  BY <2>6, <2>7, <2>8, <2>9, <2>10 DEF IInv
<1>3. CASE /\ files.journal = NoJournal /\ Write([files EXCEPT !.releases = Kept(files.current)])
           /\ broken' = (broken \/ ~Startable')
           /\ \/ UNCHANGED <<pc, job, locked>>
              \/ /\ latest \notin {files.current, files.guard}
                 /\ pc' = "publish" /\ locked' = TRUE /\ job' = [NoJob EXCEPT !.ver = latest]
  <2>1. /\ Became(files.current, files.version, files.journal, files.restored, files.settings, files.snapshots,
                  files.releases \cap {files.current, files.guard}, files.recover) /\ SameLinks
        /\ disk' = disk
    BY <1>3 DEF Write, Kept, Became, SameLinks, Linked, IInv, TypeOK, Files
  <2>2. SyncInv' /\ JournalInv'
    BY <1>3, <2>1 DEF IInv, Became, SameLinks, Linked, SyncInv, JournalInv, Durable, AllAt
  <2>3. Serving' /\ broken' \in BOOLEAN
    <3>1. Serving  BY <1>1, <1>3 DEF IInv, BootInv
    <3>2. broken => broken'  BY <1>3
    <3>3. broken' \in BOOLEAN  BY <1>3
    <3> QED  BY <1>1, <2>1, <3>1, <3>2, <3>3 DEF Serving, Became
  <2>6. ASSUME pc' \in {"off", "publish"} PROVE LinkInv'
    <3>1. ~broken' => ~broken /\ files.flows \in files'.releases /\ files.initd \in files'.releases
      BY <1>3, <2>1 DEF Startable, GuardRuns, SameLinks, Linked
    <3> QED  BY <1>1, <1>3, <2>1, <2>6, <3>1 DEF IInv, Became, SameLinks, Linked, LinkInv, Durable
  <2>4. CASE UNCHANGED <<pc, job, locked>>
    <3>1. TypeOK'  BY <1>1, <2>1, <2>3, <2>4 DEF IInv, TypeOK, Became
    <3>2. BeforeInv' /\ AfterInv' /\ BackInv' /\ BootInv'
      BY <1>1, <2>1, <2>3, <2>4 DEF Became, BeforeInv, AfterInv, BackInv, BootInv, Switching, Undoing, Back
    <3> QED  BY <1>1, <2>2, <2>4, <2>6, <3>1, <3>2 DEF IInv
  <2>5. CASE /\ latest \notin {files.current, files.guard}
             /\ pc' = "publish" /\ locked' = TRUE /\ job' = [NoJob EXCEPT !.ver = latest]
    <3>1. /\ job' \in [ver : Release \cup {0}, prev : Release \cup {0}, snap : Release \cup {0}, cleanup : BOOLEAN]
          /\ job'.prev = 0 /\ job'.ver = latest /\ latest \in Release
      BY <2>5 DEF NoJob, IInv, TypeOK
    <3>2. TypeOK'  BY <1>1, <2>1, <2>3, <2>5, <3>1 DEF IInv, TypeOK, Became, Forward
    <3>3. BeforeInv' /\ AfterInv' /\ BackInv' /\ BootInv'
      BY <1>1, <1>3, <2>1, <2>3, <2>5, <3>1
      DEF Became, SameLinks, Linked, BeforeInv, AfterInv, BackInv, BootInv, Switching, Undoing, Back
    <3> QED  BY <2>2, <2>5, <2>6, <3>2, <3>3 DEF IInv
  <2> QED  BY <1>3, <2>4, <2>5
<1> QED  BY <1>2, <1>3 DEF Begin, PruneAndPublish

\* The snapshot has the settings of the release that runs.
LEMMA TakeSnapshotStep ==
    ASSUME IInv, TakeSnapshot PROVE IInv'
<1>1. pc = "snapshot" /\ UNCHANGED <<boot, fin, running, latest, broken, down, faults>>
  BY DEF TakeSnapshot, Quiet
<1>2. CASE Exit /\ NoWrite
  <2>1. Leaves(files.settings, files.enabled)  BY <1>2, NothingWritten DEF NoWrite
  <2>2. pc # "off" /\ pc' = "off" /\ job' = NoJob /\ locked' \in BOOLEAN  BY <1>1, <1>2 DEF Exit
  <2>3. /\ down' \in BOOLEAN /\ faults' \in 0 .. MaxFaults /\ running' \in Release \cup {0}
        /\ ~LateSignals => running' = files.current \/ broken \/ down'
    BY <1>1 DEF IInv, TypeOK, BeforeInv, Serving
  <2> QED  BY <1>1, <2>1, <2>2, <2>3, EndStep
<1>3. CASE /\ ~HasSnapshot(job.ver) /\ pc' = "arm" /\ locked' = locked
           /\ job' = [job EXCEPT !.snap = job.ver]
           /\ WriteAndSync([files EXCEPT !.snapshots = @ \cup {[ver |-> job.ver, settings |-> files.settings]}])
  <2> DEFINE s == [ver |-> job.ver, settings |-> files.settings]
  <2>1. job.ver \in Release /\ files.settings \in Release /\ files.current \in Release
    BY <1>1 DEF IInv, BeforeInv, TypeOK, Files
  <2>2. s \in Snapshot /\ s.ver = job.ver /\ s.settings = files.settings  BY <2>1 DEF Snapshot
  <2>3. files' = [files EXCEPT !.snapshots = files.snapshots \cup {s}] /\ disk' = files'
    BY <1>3 DEF WriteAndSync, IInv, TypeOK, Files
  <2> HIDE DEF s
  <2>4. /\ Became(files.current, files.version, files.journal, files.restored, files.settings,
                  files.snapshots \cup {s}, files.releases, files.recover) /\ SameLinks
        /\ disk' = files'
    BY <2>2, <2>3 DEF Became, SameLinks, Linked, IInv, TypeOK, Files
  <2>5. /\ job' \in [ver : Release \cup {0}, prev : Release \cup {0}, snap : Release \cup {0}, cleanup : BOOLEAN]
        /\ job'.prev = job.prev /\ job'.ver = job.ver /\ job'.snap = job.ver
    BY <1>3, <2>1 DEF IInv, TypeOK
  <2>6. TypeOK'  BY <1>1, <1>3, <2>4, <2>5 DEF IInv, TypeOK, Became, Forward
  <2>7. SyncInv' /\ JournalInv'
    BY <1>1, <2>4 DEF IInv, Became, SameLinks, Linked, SyncInv, JournalInv, BeforeInv, Durable, AllAt
  <2>8. \A t \in files.snapshots : t.ver # job.ver  BY <1>3 DEF HasSnapshot
  <2>9. SavedIn(files.snapshots', job.ver, files.current)
    BY <1>1, <2>2, <2>4, <2>8 DEF Became, SavedIn, IInv, BeforeInv, JournalInv, AllAt
  <2>10. BeforeInv' /\ AfterInv' /\ BackInv' /\ BootInv'
    BY <1>1, <1>3, <2>4, <2>5, <2>9
    DEF IInv, Became, SyncInv, BeforeInv, AfterInv, BackInv, BootInv, Serving, Switching, Undoing, Back, Ready, SavedIn,
        Durable
  <2>11. LinkInv'
    BY <1>1, <1>3, <2>4 DEF IInv, Became, SameLinks, Linked, LinkInv, Durable, BeforeInv, BootInv
  <2> QED  BY <2>6, <2>7, <2>10, <2>11 DEF IInv
<1> QED  BY <1>2, <1>3 DEF TakeSnapshot

\* From here on a fault starts a rollback.
LEMMA ArmStep ==
    ASSUME IInv, Arm PROVE IInv'
<1>1. /\ pc = "arm" /\ pc' = "link" /\ job' = [job EXCEPT !.prev = files.current]
      /\ UNCHANGED <<files, disk, running, boot, fin, locked, latest, broken, down, faults>>
  BY DEF Arm, Go, Quiet, NoWrite
<1>2. /\ job' \in [ver : Release \cup {0}, prev : Release \cup {0}, snap : Release \cup {0}, cleanup : BOOLEAN]
      /\ job'.prev = files.current /\ job'.ver = job.ver /\ job'.snap = job.snap
  BY <1>1 DEF IInv, TypeOK, Files
<1>3. TypeOK'  BY <1>1, <1>2 DEF IInv, TypeOK, Forward
<1>4. SyncInv' /\ JournalInv'  BY <1>1 DEF IInv, SyncInv, JournalInv, Durable, Ready, SavedIn, AllAt
<1>5. BeforeInv' /\ AfterInv' /\ BackInv' /\ BootInv'
  BY <1>1, <1>2 DEF IInv, BeforeInv, AfterInv, BackInv, BootInv, Serving, Switching, Undoing, Back, Ready, SavedIn, Durable
<1>6. LinkInv'  BY <1>1 DEF IInv, BeforeInv, BootInv, LinkInv, Durable
<1> QED  BY <1>3, <1>4, <1>5, <1>6 DEF IInv

\* From here on a fault ends the installer and no more.
LEMMA DisarmStep ==
    ASSUME IInv, Disarm PROVE IInv'
<1>1. /\ pc = "disarm" /\ pc' = "drop" /\ job' = [job EXCEPT !.prev = 0]
      /\ UNCHANGED <<files, disk, running, boot, fin, locked, latest, broken, down, faults>>
  BY DEF Disarm, Go, Quiet, NoWrite
<1>2. /\ job' \in [ver : Release \cup {0}, prev : Release \cup {0}, snap : Release \cup {0}, cleanup : BOOLEAN]
      /\ job'.prev = 0 /\ job'.ver = job.ver
  BY <1>1 DEF IInv, TypeOK
<1>3. TypeOK'  BY <1>1, <1>2 DEF IInv, TypeOK, Forward
<1>4. SyncInv' /\ JournalInv'  BY <1>1 DEF IInv, SyncInv, JournalInv, Durable, Ready, SavedIn, AllAt, Serving
<1>5. BeforeInv' /\ AfterInv' /\ BackInv' /\ BootInv'
  BY <1>1, <1>2 DEF IInv, BeforeInv, AfterInv, BackInv, BootInv, Switching, Undoing, Back
<1>6. LinkInv'  BY <1>1, <1>2 DEF IInv, AfterInv, BootInv, LinkInv, Durable
<1> QED  BY <1>3, <1>4, <1>5, <1>6 DEF IInv

\* The installer ends with a write that touches neither the journal nor what the
\* boot needs.
LEMMA EndWithWrite ==
    ASSUME IInv, pc # "off", Exit, UNCHANGED <<boot, fin, running, latest, broken, down, faults>>,
           running = files.current, files.journal = NoJournal,
           NEW releases \in SUBSET Release, NEW recover \in Release \cup {0},
           {files.current, files.guard, disk.guard} \subseteq releases,
           broken \/ {files.flows, files.initd, disk.flows, disk.initd} \subseteq releases,
           Became(files.current, files.version, files.journal, files.restored, files.settings, files.snapshots,
                  releases, recover), SameLinks,
           \/ disk' = files'
           \/ disk' = disk /\ recover = files.recover
    PROVE  IInv'
<1>1. boot = "up"  BY DEF IInv, BootInv
<1>2. NoJob \in [ver : Release \cup {0}, prev : Release \cup {0}, snap : Release \cup {0}, cleanup : BOOLEAN]
  BY DEF NoJob
<1>3. TypeOK'  BY <1>2 DEF IInv, TypeOK, Exit, Became
<1>4. SyncInv' /\ JournalInv'  BY DEF IInv, Became, SameLinks, Linked, SyncInv, JournalInv, Durable, AllAt
<1>5. BeforeInv' /\ AfterInv' /\ BackInv' /\ BootInv'
  BY <1>1 DEF Exit, Became, BeforeInv, AfterInv, BackInv, BootInv, Serving, Switching, Undoing, Back
<1>6. LinkInv'
  BY <1>1 DEF IInv, Exit, Became, SameLinks, Linked, LinkInv, Durable
<1> QED  BY <1>3, <1>4, <1>5, <1>6 DEF IInv

\* The releases that are pruned are neither current nor the guard's.
LEMMA PruneStep ==
    ASSUME IInv, Prune PROVE IInv'
<1>1. /\ pc = "prune" /\ Exit /\ UNCHANGED <<boot, fin, running, latest, broken, down, faults>>
      /\ files.journal = NoJournal /\ running = files.current /\ job.ver = files.current
  BY DEF Prune, Quiet, IInv, AfterInv
<1> DEFINE r == files.releases \cap {files.current, files.guard}
<1>2. /\ Became(files.current, files.version, files.journal, files.restored, files.settings, files.snapshots,
                r, files.recover) /\ SameLinks
      /\ disk' = disk
  BY <1>1 DEF Prune, Write, Kept, Became, SameLinks, Linked, IInv, TypeOK, Files
<1>3. r \in SUBSET Release /\ files.recover \in Release \cup {0}  BY DEF IInv, TypeOK, Files
<1>4. {files.current, files.guard, disk.guard} \subseteq r
  BY <1>1 DEF IInv, SyncInv, Durable
<1>5. {files.flows, files.initd, disk.flows, disk.initd} \subseteq r
  BY <1>1, <1>4 DEF IInv, LinkInv
<1> HIDE DEF r
<1> QED  BY <1>1, <1>2, <1>3, <1>4, <1>5, EndWithWrite

\* The rollback ends with the link of gofro-recover.
LEMMA RollbackLinkStep ==
    ASSUME IInv, RollbackLink PROVE IInv'
<1>1. /\ pc = "r_link" /\ Exit /\ UNCHANGED <<boot, fin, running, latest, broken, down, faults>>
      /\ files.journal = NoJournal /\ running = files.current
  BY DEF RollbackLink, Quiet, IInv, BackInv
<1>2. /\ Became(files.current, files.version, files.journal, files.restored, files.settings, files.snapshots,
                files.releases, 0) /\ SameLinks
      /\ disk' = files'
  BY <1>1 DEF RollbackLink, WriteAndSync, Became, SameLinks, Linked, IInv, TypeOK, Files
<1>3. files.releases \in SUBSET Release  BY DEF IInv, TypeOK, Files
<1>4. {files.current, files.guard, disk.guard} \subseteq files.releases
  BY DEF IInv, SyncInv, Durable
<1>5. broken \/ {files.flows, files.initd, disk.flows, disk.initd} \subseteq files.releases
  BY DEF IInv, LinkInv, Durable
<1> QED  BY <1>1, <1>2, <1>3, <1>4, <1>5, EndWithWrite

\* The settings of the snapshot are those of the old release.
LEMMA RollbackRestoreStep ==
    ASSUME IInv, RollbackRestore PROVE IInv'
<1>1. pc = "r_restore" /\ UNCHANGED <<boot, fin, running, latest, broken, faults>>
  BY DEF RollbackRestore
<1>2. files.journal # NoJournal \/ ~LateSignals => Ready(job.snap, job.prev)
  BY <1>1 DEF IInv, BackInv, Undoing, Back
<1>3. CASE HasSnapshot(job.snap)
  <2> DEFINE p == Saved(job.snap)
  <2>1. pc' = "r_switch" /\ UNCHANGED <<job, locked, down>>
        /\ files' = [files EXCEPT !.settings = p] /\ disk' = files'
    BY <1>3 DEF RollbackRestore, WriteAndSync
  <2>2. p \in Release  BY <1>3, SavedType
  <2>3. ~LateSignals => p = job.prev  BY <1>2, SavedIsIt DEF Ready
  <2> HIDE DEF p
  <2>4. Became(files.current, files.version, files.journal, files.restored, p, files.snapshots,
               files.releases, files.recover) /\ SameLinks
    BY <2>1, <2>2 DEF Became, SameLinks, Linked, IInv, TypeOK, Files
  <2>5. TypeOK'  BY <1>1, <2>1, <2>4 DEF IInv, TypeOK, Became, Back
  <2>6. SyncInv' /\ JournalInv'
    BY <1>1, <2>1, <2>3, <2>4, JournalType DEF IInv, TypeOK, Became, SameLinks, Linked, SyncInv, JournalInv, BackInv, Durable, Ready, SavedIn,
       AllAt, Serving, Undoing, Back
  <2>7. BeforeInv' /\ AfterInv' /\ BackInv' /\ BootInv'
    BY <1>1, <2>1, <2>3, <2>4, JournalType DEF IInv, TypeOK, Became, SameLinks, Linked, SyncInv, JournalInv, BeforeInv, AfterInv, BackInv, BootInv,
       Durable, Ready, SavedIn, AllAt, Serving, Switching, Undoing, Back
  <2>8. ~LateSignals => job.prev = IF files.journal = NoJournal THEN files.current ELSE files.journal.prev
    BY <1>1, JournalType DEF IInv, BackInv, Undoing, Back
  <2>9. LinkInv'
    BY <1>1, <2>1, <2>3, <2>4, <2>8
    DEF IInv, Became, SameLinks, Linked, SyncInv, BootInv, LinkInv, FlowsLead, NothingDone, AllAt, Durable
  <2> QED  BY <2>5, <2>6, <2>7, <2>9 DEF IInv
<1>4. CASE ~HasSnapshot(job.snap)
  <2>1. GiveUp /\ files' = files /\ disk' = disk  BY <1>4 DEF RollbackRestore, NoWrite
  <2>2. Leaves(files.settings, files.enabled)  BY <2>1, NothingWritten
  <2>3. pc \in Back /\ pc \notin Committed /\ running' \in Release \cup {0}
    BY <1>1 DEF Back, Committed, IInv, TypeOK
  <2> QED  BY <1>1, <2>1, <2>2, <2>3, GiveUpStep
<1> QED  BY <1>3, <1>4

-----------------------------------------------------------------------------
(* Faults.                                                                 *)

\* The number of faults stays within its bound.
LEMMA FaultStep ==
    ASSUME IInv, Fault PROVE faults' \in 0 .. MaxFaults
BY FaultsAreBounded DEF IInv, TypeOK, Fault

\* The trap, after a step that wrote nothing.
LEMMA TrapStep ==
    ASSUME IInv, pc # "off", pc \in Committed => LateSignals, Trap, NoWrite,
           UNCHANGED <<boot, fin, latest, broken, down>>, faults' \in 0 .. MaxFaults,
           running' = running \/ running' = files.current
    PROVE  IInv'
<1>1. running' \in Release \cup {0} /\ down' \in BOOLEAN  BY DEF IInv, TypeOK, Files
<1>2. Leaves(files.settings, files.enabled)  BY NothingWritten DEF NoWrite
<1>3. CASE job.prev = 0
  <2>1. pc' = "off" /\ job' = NoJob /\ locked' \in BOOLEAN  BY <1>3 DEF Trap, Exit
  <2>2. ~LateSignals => running' = files.current \/ broken \/ down'  BY <1>3, TrapFinds DEF Serving
  <2> QED  BY <1>1, <1>2, <2>1, <2>2, EndStep
<1>4. CASE job.prev # 0
  <2>1. pc' = "r_begin" /\ job' = [job EXCEPT !.cleanup = TRUE] /\ locked' = locked  BY <1>4 DEF Trap
  <2> QED  BY <1>1, <1>2, <1>4, <2>1, TrapFinds, BackStep
<1> QED  BY <1>3, <1>4

\* A link of the guard that does not move starts the rollback.
LEMMA RelinkDies ==
    ASSUME IInv, pc \in {"flows", "guard", "initd"}, Trap, NoWrite,
           UNCHANGED <<boot, fin, running, latest, broken, down, faults>>
    PROVE  IInv'
<1>1. pc # "off" /\ pc \in Forward /\ pc \notin Committed  BY DEF Forward, Committed
<1>2. faults' \in 0 .. MaxFaults  BY DEF IInv, TypeOK
<1> QED  BY <1>1, <1>2, TrapStep

\* The link of dns-flows moves to a release that is on the disk.
LEMMA LinkFlowsStep ==
    ASSUME IInv, LinkFlows PROVE IInv'
<1>1. /\ pc = "flows" /\ UNCHANGED <<boot, fin, running, latest, broken, down, faults>>
  BY DEF LinkFlows, Relink, Quiet
<1>2. job.ver \in Release /\ job.prev \in Release /\ job.snap \in Release
  BY <1>1, SwitchingJob DEF Switching
<1>3. job.ver \in Durable
  <2>1. files.journal # NoJournal /\ files.journal.snap = job.ver
    BY <1>1, <1>2, JournalType DEF IInv, AfterInv, Switching
  <2> QED  BY <2>1 DEF IInv, JournalInv
<1>4. CASE /\ files.flows \in files.releases /\ pc' = "guard" /\ UNCHANGED <<job, locked>>
           /\ Write([files EXCEPT !.flows = job.ver])
  <2>1. /\ Became(files.current, files.version, files.journal, files.restored, files.settings, files.snapshots,
                  files.releases, files.recover)
        /\ Linked(job.ver, files.guard, files.initd, files.enabled) /\ disk' = disk
    BY <1>2, <1>4 DEF Write, Became, Linked, IInv, TypeOK, Files
  <2>2. TypeOK'  BY <1>1, <1>4, <2>1 DEF IInv, TypeOK, Became, Forward
  <2>3. SyncInv' /\ JournalInv'
    BY <1>1, <1>2, <1>3, <2>1, JournalType DEF IInv, Became, Linked, SyncInv, JournalInv, AfterInv, Switching, Durable,
       Ready, SavedIn, AllAt
  <2>4. BeforeInv' /\ AfterInv' /\ BackInv' /\ BootInv'
    BY <1>1, <1>4, <2>1 DEF IInv, Became, BeforeInv, AfterInv, BackInv, BootInv, Switching, Undoing, Back, AllAt
  <2>5. FlowsLead'
    BY <1>1, <1>3, <1>4, <2>1 DEF IInv, Became, Linked, LinkInv, FlowsLead, Durable
  <2>6. LinkInv'
    BY <1>1, <1>2, <1>3, <1>4, <2>1, <2>5, JournalType DEF IInv, Became, Linked, AfterInv, BootInv, LinkInv, Durable, Switching
  <2> QED  BY <2>2, <2>3, <2>4, <2>6 DEF IInv
<1>5. CASE Trap /\ NoWrite
  BY <1>1, <1>5, RelinkDies
<1> QED  BY <1>4, <1>5 DEF LinkFlows, Relink

\* So does the link of guard.
LEMMA LinkGuardStep ==
    ASSUME IInv, LinkGuard PROVE IInv'
<1>1. /\ pc = "guard" /\ UNCHANGED <<boot, fin, running, latest, broken, down, faults>>
  BY DEF LinkGuard, Relink, Quiet
<1>2. job.ver \in Release /\ job.prev \in Release /\ job.snap \in Release
  BY <1>1, SwitchingJob DEF Switching
<1>3. job.ver \in Durable
  <2>1. files.journal # NoJournal /\ files.journal.snap = job.ver
    BY <1>1, <1>2, JournalType DEF IInv, AfterInv, Switching
  <2> QED  BY <2>1 DEF IInv, JournalInv
<1>4. CASE /\ files.guard \in files.releases /\ pc' = "initd" /\ UNCHANGED <<job, locked>>
           /\ Write([files EXCEPT !.guard = job.ver])
  <2>1. /\ Became(files.current, files.version, files.journal, files.restored, files.settings, files.snapshots,
                  files.releases, files.recover)
        /\ Linked(files.flows, job.ver, files.initd, files.enabled) /\ disk' = disk
    BY <1>2, <1>4 DEF Write, Became, Linked, IInv, TypeOK, Files
  <2>2. TypeOK'  BY <1>1, <1>4, <2>1 DEF IInv, TypeOK, Became, Forward
  <2>3. SyncInv' /\ JournalInv'
    BY <1>1, <1>2, <1>3, <2>1, JournalType DEF IInv, Became, Linked, SyncInv, JournalInv, AfterInv, Switching, Durable,
       Ready, SavedIn, AllAt
  <2>4. BeforeInv' /\ AfterInv' /\ BackInv' /\ BootInv'
    BY <1>1, <1>4, <2>1 DEF IInv, Became, BeforeInv, AfterInv, BackInv, BootInv, Switching, Undoing, Back, AllAt
  <2>5. LinkInv'
    BY <1>1, <1>3, <1>4, <2>1 DEF IInv, Became, Linked, SyncInv, AfterInv, BootInv, LinkInv, FlowsLead, NothingDone, AllAt,
       Durable, Switching
  <2> QED  BY <2>2, <2>3, <2>4, <2>5 DEF IInv
<1>5. CASE Trap /\ NoWrite
  BY <1>1, <1>5, RelinkDies
<1> QED  BY <1>4, <1>5 DEF LinkGuard, Relink

\* And the link of init.d/gofro-guard.
LEMMA LinkInitdStep ==
    ASSUME IInv, LinkInitd PROVE IInv'
<1>1. /\ pc = "initd" /\ UNCHANGED <<boot, fin, running, latest, broken, down, faults>>
  BY DEF LinkInitd, Relink, Quiet
<1>2. job.ver \in Release /\ job.prev \in Release /\ job.snap \in Release
  BY <1>1, SwitchingJob DEF Switching
<1>3. job.ver \in Durable
  <2>1. files.journal # NoJournal /\ files.journal.snap = job.ver
    BY <1>1, <1>2, JournalType DEF IInv, AfterInv, Switching
  <2> QED  BY <2>1 DEF IInv, JournalInv
<1>4. CASE /\ files.initd \in files.releases /\ pc' = "stop" /\ UNCHANGED <<job, locked>>
           /\ Write([files EXCEPT !.initd = job.ver])
  <2>1. /\ Became(files.current, files.version, files.journal, files.restored, files.settings, files.snapshots,
                  files.releases, files.recover)
        /\ Linked(files.flows, files.guard, job.ver, files.enabled) /\ disk' = disk
    BY <1>2, <1>4 DEF Write, Became, Linked, IInv, TypeOK, Files
  <2>2. TypeOK'  BY <1>1, <1>4, <2>1 DEF IInv, TypeOK, Became, Forward
  <2>3. SyncInv' /\ JournalInv'
    BY <1>1, <1>2, <1>3, <2>1, JournalType DEF IInv, Became, Linked, SyncInv, JournalInv, AfterInv, Switching, Durable,
       Ready, SavedIn, AllAt
  <2>4. BeforeInv' /\ AfterInv' /\ BackInv' /\ BootInv'
    BY <1>1, <1>4, <2>1 DEF IInv, Became, BeforeInv, AfterInv, BackInv, BootInv, Switching, Undoing, Back, AllAt
  <2>5. FlowsLead'
    BY <1>1, <1>3, <1>4, <2>1 DEF IInv, Became, Linked, LinkInv, FlowsLead, Durable
  <2>6. LinkInv'
    BY <1>1, <1>2, <1>3, <1>4, <2>1, <2>5, JournalType DEF IInv, Became, Linked, AfterInv, BootInv, LinkInv, Durable, Switching
  <2> QED  BY <2>2, <2>3, <2>4, <2>6 DEF IInv
<1>5. CASE Trap /\ NoWrite
  BY <1>1, <1>5, RelinkDies
<1> QED  BY <1>4, <1>5 DEF LinkInitd, Relink

\* A command of the installer fails.
LEMMA FailStep ==
    ASSUME IInv, Fail PROVE IInv'
<1>1. /\ pc \in Forward \ {"arm", "disarm"} /\ Trap /\ UNCHANGED <<boot, fin, latest, broken, down>>
      /\ faults' \in 0 .. MaxFaults
      /\ running' = running \/ running' = files.current
  BY FaultStep DEF Fail
<1>2. CASE NoWrite
  <2>1. pc # "off" /\ pc \notin Committed  BY <1>1 DEF Forward, Committed
  <2> QED  BY <1>1, <1>2, <2>1, TrapStep
<1>3. CASE pc = "configure" /\ Write([files EXCEPT !.settings = job.ver])
  <2>1. /\ job.ver \in Release /\ job.prev \in Release /\ job.snap \in Release /\ job.prev # 0
        /\ files.journal = [prev |-> job.prev, snap |-> job.snap] /\ files.restored = 0 /\ disk.restored = 0
    BY <1>3, SwitchingJob DEF IInv, AfterInv, Switching
  <2>2. files.journal # NoJournal  BY <2>1, JournalType
  <2>3. FlowsLead
    <3>1. files.recover = files.journal.snap /\ files.recover \in Durable  BY <2>2 DEF IInv, JournalInv
    <3>2. job.ver \in Durable  BY <1>3, <2>1, <3>1, JournalType DEF IInv, AfterInv, Switching
    <3> QED  BY <1>3, <3>2 DEF IInv, LinkInv, FlowsLead
  <2>4. Leaves(job.ver, files.enabled)
    BY <1>3, <2>1, <2>2, <2>3 DEF Write, Leaves, Harmless, Became, Linked, IInv, TypeOK, Files
  <2>5. pc' = "r_begin" /\ job' = [job EXCEPT !.cleanup = TRUE] /\ locked' = locked  BY <1>1, <2>1 DEF Trap
  <2>6. running' \in Release \cup {0} /\ down' \in BOOLEAN  BY <1>1 DEF IInv, TypeOK, Files
  <2>7. pc # "off" /\ pc \notin Committed  BY <1>3 DEF Committed
  <2> QED  BY <1>1, <2>1, <2>4, <2>5, <2>6, <2>7, TrapFinds, BackStep
<1> QED  BY <1>2, <1>3 DEF Fail

\* A command of the rollback fails.
LEMMA RollbackFailsStep ==
    ASSUME IInv, RollbackFails PROVE IInv'
<1>1. /\ pc \in Back /\ (pc \in Committed => LateSignals) /\ GiveUp
      /\ UNCHANGED <<boot, fin, latest, broken, faults>>
  BY DEF RollbackFails
<1>2. running \in Release \cup {0} /\ files.current \in Release  BY DEF IInv, TypeOK, Files
<1>3. CASE NoWrite /\ running' \in {running, 0}
  <2>1. Leaves(files.settings, files.enabled)  BY <1>3, NothingWritten DEF NoWrite
  <2>2. running' \in Release \cup {0}  BY <1>2, <1>3
  <2> QED  BY <1>1, <2>1, <2>2, GiveUpStep
<1>4. CASE /\ pc = "r_restore" /\ HasSnapshot(job.snap) /\ running' = running
           /\ Write([files EXCEPT !.settings = Saved(job.snap)])
  <2>1. Saved(job.snap) \in Release  BY <1>4, SavedType
  <2>2. files.journal # NoJournal \/ ~LateSignals => Ready(job.snap, job.prev)
    BY <1>4 DEF IInv, BackInv, Undoing, Back
  <2>3. ~LateSignals => Saved(job.snap) = job.prev  BY <2>2, SavedIsIt DEF Ready
  <2>4. ~LateSignals => job.prev = IF files.journal = NoJournal THEN files.current ELSE files.journal.prev
    BY <1>4, JournalType DEF IInv, BackInv, Undoing, Back
  <2>5. Harmless(Saved(job.snap))  BY <2>3, <2>4 DEF Harmless
  <2>6. Leaves(Saved(job.snap), files.enabled)
    BY <1>4, <2>1, <2>5 DEF Write, Leaves, Became, Linked, IInv, TypeOK, Files
  <2>7. running' \in Release \cup {0}  BY <1>2, <1>4
  <2> QED  BY <1>1, <2>6, <2>7, GiveUpStep
<1>5. CASE running' = files.current /\ Write([files EXCEPT !.enabled = TRUE])
  <2>1. Leaves(files.settings, TRUE)
    BY <1>5 DEF Write, Leaves, Harmless, Became, Linked, IInv, TypeOK, Files
  <2>2. running' \in Release \cup {0}  BY <1>2, <1>5
  <2> QED  BY <1>1, <2>1, <2>2, GiveUpStep
<1> QED  BY <1>3, <1>4, <1>5 DEF RollbackFails

\* A signal, outside the window between commit and disarming or in it.
LEMMA SignalStep ==
    ASSUME IInv, Signal PROVE IInv'
<1>1. pc # "off" /\ (pc \in Committed => LateSignals)  BY DEF Signal
<1>2. /\ Trap /\ NoWrite /\ UNCHANGED <<boot, fin, latest, broken, down>> /\ faults' \in 0 .. MaxFaults
      /\ running' = running
  BY FaultStep DEF Signal
<1> QED  BY <1>1, <1>2, TrapStep

\* A killed installer leaves its lock and the files as they are.
LEMMA KillStep ==
    ASSUME IInv, Kill PROVE IInv'
<1>1. /\ pc # "off" /\ pc' = "off" /\ job' = NoJob
      /\ UNCHANGED <<files, disk, boot, fin, running, latest, locked, broken, down>>
      /\ faults' \in 0 .. MaxFaults
  BY FaultStep DEF Kill, NoWrite
<1>2. Leaves(files.settings, files.enabled)  BY <1>1, NothingWritten
<1>3. locked' = TRUE /\ down' \in BOOLEAN /\ running' \in Release \cup {0}
  BY <1>1 DEF IInv, TypeOK, BootInv
<1> QED  BY <1>1, <1>2, <1>3, EndStep

\* After a power loss each file is as it was written or as it was on the disk.
LEMMA SurvivorFields ==
    ASSUME IInv, NEW g \in Survivors
    PROVE  /\ g \in Files
           /\ g.current = files.current /\ g.version = files.version
           /\ g.journal = files.journal /\ g.recover = files.recover
           /\ g.restored = files.restored \/ g.restored = disk.restored
           /\ g.settings = files.settings \/ g.settings = disk.settings
           /\ g.snapshots = files.snapshots \/ g.snapshots = disk.snapshots
           /\ g.releases = files.releases \/ g.releases = disk.releases
           /\ g.guard = files.guard \/ g.guard = disk.guard
           /\ g.flows = files.flows \/ g.flows = disk.flows
           /\ g.initd = files.initd \/ g.initd = disk.initd
           /\ g.enabled = files.enabled \/ g.enabled = disk.enabled
<1>1. files \in Files /\ disk \in Files  BY DEF IInv, TypeOK
<1>2. PICK K : g = [f \in DOMAIN files |-> IF f \in K THEN files[f] ELSE disk[f]]
  BY DEF Survivors
<1>3. DOMAIN files = {"current", "version", "journal", "restored", "settings", "snapshots", "releases",
                      "recover", "flows", "guard", "initd", "enabled"}
  BY <1>1 DEF Files
<1>4. /\ g.current = files.current \/ g.current = disk.current
      /\ g.version = files.version \/ g.version = disk.version
      /\ g.journal = files.journal \/ g.journal = disk.journal
      /\ g.recover = files.recover \/ g.recover = disk.recover
      /\ g.restored = files.restored \/ g.restored = disk.restored
      /\ g.settings = files.settings \/ g.settings = disk.settings
      /\ g.snapshots = files.snapshots \/ g.snapshots = disk.snapshots
      /\ g.releases = files.releases \/ g.releases = disk.releases
      /\ g.guard = files.guard \/ g.guard = disk.guard
      /\ g.flows = files.flows \/ g.flows = disk.flows
      /\ g.initd = files.initd \/ g.initd = disk.initd
      /\ g.enabled = files.enabled \/ g.enabled = disk.enabled
  BY <1>2, <1>3
<1>5. g \in Files
  <2>1. g = [current |-> g.current, version |-> g.version, journal |-> g.journal, restored |-> g.restored,
             settings |-> g.settings, snapshots |-> g.snapshots, releases |-> g.releases,
             recover |-> g.recover, flows |-> g.flows, guard |-> g.guard, initd |-> g.initd,
             enabled |-> g.enabled]
    BY <1>2, <1>3
  <2> QED  BY <1>1, <1>4, <2>1 DEF Files
<1> QED  BY <1>4, <1>5 DEF IInv, SyncInv

\* A power loss at any moment leaves what the boot needs.
LEMMA PowerLossStep ==
    ASSUME IInv, PowerLoss PROVE IInv'
<1>1. /\ pc' = "off" /\ job' = NoJob /\ locked' = FALSE /\ boot' = "recover" /\ fin' = NoJournal
      /\ running' = 0 /\ latest' = latest /\ broken' = broken /\ down' = FALSE
      /\ faults' \in 0 .. MaxFaults /\ disk' = files'
  BY FaultStep DEF PowerLoss, WriteAndSync
<1>2. files' \in Survivors  BY DEF PowerLoss, WriteAndSync
<1>3. /\ files' \in Files
      /\ files'.current = files.current /\ files'.version = files.version
      /\ files'.journal = files.journal /\ files'.recover = files.recover
      /\ files'.restored = files.restored \/ files'.restored = disk.restored
      /\ files'.settings = files.settings \/ files'.settings = disk.settings
      /\ files'.snapshots = files.snapshots \/ files'.snapshots = disk.snapshots
      /\ files'.releases = files.releases \/ files'.releases = disk.releases
      /\ files'.guard = files.guard \/ files'.guard = disk.guard
      /\ files'.flows = files.flows \/ files'.flows = disk.flows
      /\ files'.initd = files.initd \/ files'.initd = disk.initd
      /\ files'.enabled = files.enabled \/ files'.enabled = disk.enabled
  BY <1>2, SurvivorFields
<1>4. NoJob \in [ver : Release \cup {0}, prev : Release \cup {0}, snap : Release \cup {0}, cleanup : BOOLEAN]
  BY DEF NoJob
<1>5. TypeOK'  BY <1>1, <1>3, <1>4 DEF IInv, TypeOK, Boot
<1>6. SyncInv'  BY <1>1, <1>3 DEF IInv, SyncInv, Durable
<1>7. JournalInv'
  BY <1>1, <1>3 DEF IInv, SyncInv, JournalInv, Durable, Ready, SavedIn, AllAt, Serving
<1>8. BeforeInv' /\ AfterInv' /\ BackInv' /\ BootInv'
  BY <1>1 DEF BeforeInv, AfterInv, BackInv, BootInv, Switching, Undoing, Back
<1>9. LinkInv'
  BY <1>1, <1>3 DEF IInv, SyncInv, LinkInv, FlowsLead, NothingDone, AllAt, Durable
<1> QED  BY <1>5, <1>6, <1>7, <1>8, <1>9 DEF IInv

\* gofro-recover gives up under a journal, which stays, and disables the services.
LEMMA RecoveryEnds ==
    ASSUME IInv, boot \in {"recover", "b_switch", "b_version"}, files.journal # NoJournal, GiveUpRecovery,
           UNCHANGED <<fin, running, latest, pc, job, locked, broken, down>>, faults' \in 0 .. MaxFaults
    PROVE  IInv'
<1>1. pc = "off" /\ ~locked  BY DEF IInv, BootInv
<1>2. /\ Became(files.current, files.version, files.journal, 0, files.settings, files.snapshots,
                files.releases, files.recover)
      /\ Linked(files.flows, files.guard, files.initd, FALSE) /\ disk' = disk /\ boot' = "up"
  BY DEF GiveUpRecovery, Write, Became, Linked, IInv, TypeOK, Files
<1>3. TypeOK'  BY <1>2 DEF IInv, TypeOK, Became, Boot
<1>4. SyncInv' /\ JournalInv'
  BY <1>2 DEF IInv, Became, Linked, SyncInv, JournalInv, Durable, Ready, SavedIn, AllAt
<1>5. BeforeInv' /\ AfterInv' /\ BackInv' /\ BootInv'
  BY <1>1, <1>2 DEF Became, BeforeInv, AfterInv, BackInv, BootInv, Switching, Undoing, Back
<1>6. LinkInv'
  BY <1>1, <1>2 DEF IInv, Became, Linked, LinkInv, FlowsLead, NothingDone, AllAt, Durable
<1> QED  BY <1>3, <1>4, <1>5, <1>6 DEF IInv

\* gofro-recover restores the settings of the journal's snapshot.
LEMMA RecoverStep ==
    ASSUME IInv, Recover PROVE IInv'
<1>1. boot = "recover" /\ UNCHANGED <<fin, running, pc, job, locked, latest, broken, down, faults>>
  BY DEF Recover, Installer, Quiet
<1>2. pc = "off" /\ ~locked  BY <1>1 DEF IInv, BootInv
<1>3. CASE files.journal = NoJournal /\ boot' = "start" /\ NoWrite
  <2>1. files' = files /\ disk' = disk  BY <1>3 DEF NoWrite
  <2>2. TypeOK'  BY <1>1, <1>3, <2>1 DEF IInv, TypeOK, Boot
  <2>3. SyncInv' /\ JournalInv'  BY <2>1 DEF IInv, SyncInv, JournalInv, Durable, Ready, SavedIn, AllAt, Serving
  <2>4. BeforeInv' /\ AfterInv' /\ BackInv' /\ BootInv'
    BY <1>1, <1>2, <1>3 DEF BeforeInv, AfterInv, BackInv, BootInv, Switching, Undoing, Back
  <2>5. LinkInv'
    BY <1>1, <1>2, <1>3, <2>1 DEF IInv, LinkInv, FlowsLead, NothingDone, AllAt, Durable
  <2> QED  BY <2>2, <2>3, <2>4, <2>5 DEF IInv
<1>4. CASE /\ files.journal # NoJournal /\ boot' = "b_switch"
           /\ WriteAndSync([files EXCEPT !.restored = 0, !.settings = Saved(files.journal.snap)])
  <2>1. files.journal \in Journal  BY <1>4 DEF IInv, TypeOK, Files
  <2> DEFINE p == Saved(files.journal.snap)
  <2>2. p \in Release /\ (~LateSignals => p = files.journal.prev)
    BY <1>4, SavedIsIt, SavedType DEF IInv, JournalInv, Ready
  <2>3. /\ Became(files.current, files.version, files.journal, 0, p, files.snapshots,
                  files.releases, files.recover) /\ SameLinks
        /\ disk' = files'
    BY <1>4, <2>1, <2>2, JournalType DEF WriteAndSync, Became, SameLinks, Linked, IInv, TypeOK, Files
  <2> HIDE DEF p
  <2>4. TypeOK'  BY <1>1, <1>4, <2>3 DEF IInv, TypeOK, Became, Boot
  <2>5. SyncInv' /\ JournalInv'
    BY <1>4, <2>2, <2>3 DEF IInv, Became, SameLinks, Linked, SyncInv, JournalInv, Durable, Ready, SavedIn, AllAt, Serving
  <2>6. BeforeInv' /\ AfterInv' /\ BackInv' /\ BootInv'
    BY <1>1, <1>2, <1>4, <2>2, <2>3 DEF Became, BeforeInv, AfterInv, BackInv, BootInv, Switching, Undoing, Back
  <2>7. LinkInv'
    BY <1>1, <1>2, <1>4, <2>2, <2>3
    DEF IInv, Became, SameLinks, Linked, LinkInv, FlowsLead, NothingDone, AllAt, Durable
  <2> QED  BY <2>4, <2>5, <2>6, <2>7 DEF IInv
<1>5. ASSUME files.journal # NoJournal, ~(Resolves /\ Recoverable) PROVE FALSE
  <2>1. files.journal \in Journal  BY <1>5 DEF IInv, TypeOK, Files
  <2>2. files.recover = files.journal.snap /\ files.recover \in Durable /\ files.recover # 0
    BY <1>5, <2>1, JournalType DEF IInv, JournalInv
  <2>3. Resolves  BY <2>2 DEF Resolves, Durable
  <2>4. Recoverable  BY <1>5, SavedIsIt DEF IInv, JournalInv, Ready, Recoverable, Durable
  <2> QED  BY <1>5, <2>3, <2>4
<1>6. CASE files.journal # NoJournal /\ GiveUpRecovery
  <2>1. faults' \in 0 .. MaxFaults  BY <1>1 DEF IInv, TypeOK
  <2> QED  BY <1>1, <1>6, <2>1, RecoveryEnds
<1> QED  BY <1>3, <1>4, <1>5, <1>6 DEF Recover

\* A boot that fails under a journal leaves it.
LEMMA BootFailsStep ==
    ASSUME IInv, RecoverFails \/ FinalizeFails PROVE IInv'
<1>1. CASE RecoverFails
  <2>1. faults' \in 0 .. MaxFaults  BY <1>1, FaultStep DEF RecoverFails
  <2> QED  BY <1>1, <2>1, RecoveryEnds DEF RecoverFails, Installer
<1>2. CASE FinalizeFails
  <2>1. /\ boot \in {"finalize", "f_clear"} /\ boot' = "up" /\ files.journal # NoJournal
        /\ UNCHANGED <<files, disk, fin, running, latest, pc, job, locked, broken, down>>
        /\ faults' \in 0 .. MaxFaults
    BY <1>2, FaultStep DEF FinalizeFails, Installer, NoWrite
  <2>2. pc = "off" /\ ~locked  BY <2>1 DEF IInv, BootInv
  <2>3. TypeOK'  BY <2>1 DEF IInv, TypeOK, Boot
  <2>4. SyncInv' /\ JournalInv'  BY <2>1 DEF IInv, SyncInv, JournalInv, Durable, Ready, SavedIn, AllAt
  <2>5. BeforeInv' /\ AfterInv' /\ BackInv' /\ BootInv'
    BY <2>1, <2>2 DEF BeforeInv, AfterInv, BackInv, BootInv, Switching, Undoing, Back
  <2>6. LinkInv'  BY <2>1, <2>2 DEF IInv, LinkInv, FlowsLead, NothingDone, AllAt, Durable
  <2> QED  BY <2>3, <2>4, <2>5, <2>6 DEF IInv
<1> QED  BY <1>1, <1>2

\* gofro-finalize believes a witness, and the witness is true.
LEMMA FinalizeStep ==
    ASSUME IInv, Finalize PROVE IInv'
<1>1. boot = "finalize" /\ UNCHANGED <<files, disk, pc, job, locked, latest, broken, down, faults>>
  BY DEF Finalize, Installer, Quiet, NoWrite
<1>2. pc = "off" /\ ~locked /\ (running = files.current \/ broken \/ files.journal # NoJournal)
  BY <1>1 DEF IInv, BootInv
<1>3. SyncInv' /\ JournalInv'  BY <1>1 DEF IInv, SyncInv, JournalInv, Durable, Ready, SavedIn, AllAt, Serving
<1>6. ASSUME boot' \in {"up", "f_clear"} PROVE LinkInv'
  BY <1>1, <1>2, <1>6 DEF IInv, LinkInv, FlowsLead, NothingDone, AllAt, Durable
<1>4. CASE boot' = "up" /\ UNCHANGED <<fin, running>>
  <2>1. TypeOK'  BY <1>1, <1>4 DEF IInv, TypeOK, Boot
  <2>2. BeforeInv' /\ AfterInv' /\ BackInv' /\ BootInv'
    BY <1>1, <1>2, <1>4 DEF BeforeInv, AfterInv, BackInv, BootInv, Serving, Switching, Undoing, Back
  <2> QED  BY <1>3, <1>4, <1>6, <2>1, <2>2 DEF IInv
<1>5. CASE files.journal # NoJournal /\ Witnessed /\ boot' = "f_clear" /\ fin' = files.journal /\ running' = files.current
  <2>1. files.journal \in Journal  BY <1>5 DEF IInv, TypeOK, Files
  <2>2. files.restored # 0  BY <1>5, <2>1, JournalType DEF Witnessed
  <2>3. AllAt(files.journal.prev)  BY <1>5, <2>2 DEF IInv, JournalInv
  <2>4. TypeOK'  BY <1>1, <1>5, <2>1 DEF IInv, TypeOK, Files, Boot
  <2>5. BeforeInv' /\ AfterInv' /\ BackInv' /\ BootInv'
    BY <1>1, <1>2, <1>5, <2>3 DEF BeforeInv, AfterInv, BackInv, BootInv, AllAt, Switching, Undoing, Back
  <2> QED  BY <1>3, <1>5, <1>6, <2>4, <2>5 DEF IInv
<1> QED  BY <1>4, <1>5 DEF Finalize

\* Neither a new release on offer nor a stuttering step matters.
LEMMA OfferStep ==
    ASSUME IInv, Offer \/ UNCHANGED vars PROVE IInv'
<1>1. UNCHANGED <<files, disk, boot, fin, running, broken, down, faults, pc, job, locked>> /\ latest' \in Release
  BY NewestIsARelease DEF Offer, NoWrite, Installer, vars, IInv, TypeOK, Release
<1>2. TypeOK'  BY <1>1 DEF IInv, TypeOK
<1>3. SyncInv' /\ JournalInv'  BY <1>1 DEF IInv, SyncInv, JournalInv, Durable, Ready, SavedIn, AllAt, Serving
<1>4. BeforeInv' /\ AfterInv' /\ BackInv' /\ BootInv'
  BY <1>1 DEF IInv, BeforeInv, AfterInv, BackInv, BootInv, Durable, Ready, SavedIn, AllAt, Serving
<1>5. LinkInv'  BY <1>1 DEF IInv, LinkInv, FlowsLead, NothingDone, AllAt, Durable
<1> QED  BY <1>2, <1>3, <1>4, <1>5 DEF IInv

-----------------------------------------------------------------------------
(* The theorems.                                                           *)

\* The first installation.
LEMMA InitInv == Init => IInv
<1> SUFFICES ASSUME Init PROVE IInv  OBVIOUS
<1>1. 1 \in Release /\ 0 \in 0 .. MaxFaults  BY NewestIsARelease, FaultsAreBounded DEF Release
<1>2. /\ files \in Files /\ disk = files /\ files.current = 1 /\ files.version = 1 /\ files.journal = NoJournal
      /\ files.restored = 0 /\ files.settings = 1 /\ files.snapshots = {} /\ files.releases = {1}
      /\ files.recover = 0 /\ files.flows = 1 /\ files.guard = 1 /\ files.initd = 1
      /\ files.enabled = TRUE
  BY <1>1 DEF Init, First, Files
<1>3. /\ pc = "off" /\ job = NoJob /\ boot = "up" /\ fin = NoJournal /\ running = 1 /\ latest = 1
      /\ locked = FALSE /\ broken = FALSE /\ down = FALSE /\ faults = 0
  BY DEF Init
<1>4. NoJob \in [ver : Release \cup {0}, prev : Release \cup {0}, snap : Release \cup {0}, cleanup : BOOLEAN]
  BY DEF NoJob
<1>5. TypeOK  BY <1>1, <1>2, <1>3, <1>4 DEF TypeOK, Boot
<1>6. SyncInv /\ JournalInv  BY <1>2 DEF SyncInv, JournalInv, Durable, AllAt
<1>7. BeforeInv /\ AfterInv /\ BackInv /\ BootInv
  BY <1>2, <1>3 DEF BeforeInv, AfterInv, BackInv, BootInv, Serving, Switching, Undoing, Back
<1>8. LinkInv  BY <1>2, <1>3 DEF LinkInv, Durable
<1> QED  BY <1>5, <1>6, <1>7, <1>8 DEF IInv

\* Every step keeps the invariant.
LEMMA NextInv ==
    ASSUME ~EarlyUpdates, IInv, [Next]_vars
    PROVE  IInv'
<1>1. CASE Begin  BY <1>1, BeginStep
<1>2. CASE Install
  BY <1>2, PublishStep, TakeSnapshotStep, ArmStep, LinkRecoverStep, WritePendingStep, LinkFlowsStep, LinkGuardStep,
     LinkInitdStep, StopServicesStep,
     SwitchCurrentStep, ConfigureStep, RestartHealthyStep, WriteVersionStep, ClearPendingStep, DisarmStep,
     DropSnapshotStep, PruneStep DEF Install
<1>3. CASE Rollback
  BY <1>3, RollbackBeginStep, RollbackStopStep, RollbackRestoreStep, RollbackSwitchStep, RollbackVersionStep,
     RollbackHealthyStep, RollbackClearStep, RollbackDropStep, RollbackLinkStep DEF Rollback
<1>4. CASE BootStep
  BY <1>4, RecoverStep, RecoverSwitchStep, RecoverVersionStep, ServeStep, FinalizeStep, FinalizeClearStep,
     FinalizeDropStep, FinalizeLinkStep DEF BootStep
<1>5. CASE Faults
  BY <1>5, FailStep, RollbackFailsStep, SignalStep, KillStep, PowerLossStep, BootFailsStep DEF Faults
<1> QED  BY <1>1, <1>2, <1>3, <1>4, <1>5, OfferStep DEF Next

\* The inductive invariant holds in every state of Update, as long as the
\* updater waits for the boot.
THEOREM UpdateInvariant ==
    ASSUME ~EarlyUpdates
    PROVE  Spec => []IInv
<1>1. IInv /\ [Next]_vars => IInv'  BY NextInv
<1> QED  BY <1>1, InitInv, PTL DEF Spec

\* Whenever nobody is at work and no journal is left, the link, the version
\* file, the settings and the running services are of one release.
THEOREM OneRelease ==
    ASSUME ~LateSignals, ~EarlyUpdates
    PROVE  Spec => []WholeRelease
<1>1. IInv => WholeRelease
  BY DEF IInv, BootInv, JournalInv, AllAt, Serving, WholeRelease, Settled
<1> QED  BY <1>1, UpdateInvariant, PTL

\* No power loss finds the boot without the release, the snapshot or the link
\* that it needs, and nothing in use is pruned or overwritten, not even when a
\* signal comes between commit and disarming.
THEOREM Recovery ==
    ASSUME ~EarlyUpdates
    PROVE  Spec => []RecoveryIsPossible
<1>1. IInv => RecoveryIsPossible
  <2> SUFFICES ASSUME IInv PROVE RecoveryIsPossible  OBVIOUS
  <2>1. ASSUME files.journal # NoJournal PROVE Resolves /\ Recoverable
    <3>1. files.journal \in Journal  BY <2>1 DEF IInv, TypeOK, Files
    <3>2. files.recover = files.journal.snap /\ files.recover \in Durable /\ files.recover # 0
      BY <2>1, <3>1, JournalType DEF IInv, JournalInv
    <3>3. Resolves  BY <3>2 DEF Resolves, Durable
    <3>4. Recoverable  BY <2>1, SavedIsIt DEF IInv, JournalInv, Ready, Recoverable, Durable
    <3> QED  BY <3>3, <3>4
  <2>2. ReleasesInUseExist
    BY DEF IInv, SyncInv, LinkInv, Durable, BeforeInv, ReleasesInUseExist, Startable, GuardRuns
  <2>3. ASSUME files.journal # NoJournal PROVE GuardRuns \/ NothingSwitched
    BY <2>3 DEF IInv, SyncInv, LinkInv, FlowsLead, NothingDone, AllAt, Durable, GuardRuns, NothingSwitched
  <2> QED  BY <2>1, <2>2, <2>3 DEF IInv, RecoveryIsPossible, BootCanRecover
<1> QED  BY <1>1, UpdateInvariant, PTL

\* Who removes a journal, and when.
LEMMA JournalRemoval ==
    ASSUME ~LateSignals, IInv, [Next]_vars, files.journal # NoJournal, files'.journal = NoJournal,
           boot' # "recover"
    PROVE  \/ pc = "clear"
           \/ /\ files.current = files.journal.prev /\ files.version = files.journal.prev
              /\ files.settings = files.journal.prev
<1>1. files \in Files /\ files' # files  BY DEF IInv, TypeOK
<1>2. ~PowerLoss  BY DEF PowerLoss
<1>3. CASE ClearPending  BY <1>3 DEF ClearPending, Go
<1>4. CASE RollbackClear
  <2>1. pc = "r_clear"  BY <1>4 DEF RollbackClear, Go
  <2>2. files.journal = [prev |-> job.prev, snap |-> job.snap]  BY <2>1 DEF IInv, BackInv, Undoing, Back
  <2> QED  BY <2>1, <2>2 DEF IInv, BackInv
<1>5. CASE FinalizeClear
  BY <1>5 DEF FinalizeClear, IInv, BootInv, AllAt
<1>6. CASE Begin \/ Offer \/ UNCHANGED vars
  BY <1>1, <1>6 DEF Begin, PruneAndPublish, Offer, vars, Write, NoWrite, Files
<1>7. CASE Install /\ ~ClearPending
  BY <1>1, <1>7, JournalType, SwitchingJob, UndoingJob DEF Install, Publish, TakeSnapshot, Arm, LinkRecover, LinkFlows, LinkGuard, LinkInitd, Relink, StopServices, SwitchCurrent,
     Configure, RestartHealthy, WriteVersion, Disarm, DropSnapshot, Prune, Write, WriteAndSync, NoWrite, Files, WritePending, Go, IInv, BeforeInv
<1>8. CASE Rollback /\ ~RollbackClear
  BY <1>1, <1>8 DEF Rollback, RollbackBegin, RollbackStop, RollbackRestore, RollbackSwitch, RollbackVersion,
     RollbackHealthy, RollbackDrop, RollbackLink, Write, WriteAndSync, NoWrite, Files
<1>9. CASE BootStep /\ ~FinalizeClear
  BY <1>1, <1>9 DEF BootStep, Recover, GiveUpRecovery, RecoverSwitch, RecoverVersion, Serve, Finalize, FinalizeDrop,
     FinalizeLink, Write, WriteAndSync, NoWrite, Files
<1>10. CASE Faults
  BY <1>1, <1>2, <1>10 DEF Faults, Fail, RollbackFails, Signal, Kill, RecoverFails, GiveUpRecovery, FinalizeFails,
     Write, NoWrite, Files
<1> QED  BY <1>3, <1>4, <1>5, <1>6, <1>7, <1>8, <1>9, <1>10 DEF Next

\* The journal of an update that was not committed outlives the way back.
THEOREM WayBackFirst ==
    ASSUME ~LateSignals, ~EarlyUpdates
    PROVE  Spec => OldReleaseFirst
<1> DEFINE JournalOutlives == (files.journal # NoJournal /\ files'.journal = NoJournal /\ boot' # "recover") =>
         \/ pc = "clear"
         \/ /\ files.current = files.journal.prev /\ files.version = files.journal.prev
            /\ files.settings = files.journal.prev
<1>1. IInv /\ [Next]_vars => JournalOutlives  BY JournalRemoval
<1>2. OldReleaseFirst <=> [][JournalOutlives]_vars  BY DEF OldReleaseFirst
<1> HIDE DEF JournalOutlives
<1> QED  BY <1>1, <1>2, UpdateInvariant, PTL DEF Spec

-----------------------------------------------------------------------------
(* Refinement: to the owner of the router an update is one step.           *)

\* The release to which a boot would bring the router.
Base == IF files.journal = NoJournal THEN files.current ELSE files.journal.prev

\* An update under way leads to a newer release that was offered.
NewerInv ==
    /\ pc \in {"publish", "snapshot", "arm", "link", "journal"} => files.current < job.ver /\ job.ver =< latest
    /\ pc \in Switching => job.prev < job.ver /\ job.ver =< latest

\* A step that ends or turns the update, or is not the installer's.
LEMMA NotForward ==
    ASSUME pc' \notin {"publish", "snapshot", "arm", "link", "journal"} \cup Switching
    PROVE  NewerInv'
BY DEF NewerInv

\* The updater takes only a release that is newer than the version file, and
\* later offers are newer still.
LEMMA NewerStep ==
    ASSUME ~LateSignals, ~EarlyUpdates, IInv, NewerInv, [Next]_vars
    PROVE  NewerInv'
<1>1. /\ files \in Files /\ latest \in Nat /\ job.ver \in Nat /\ job.prev \in Nat
      /\ job \in [ver : Release \cup {0}, prev : Release \cup {0}, snap : Release \cup {0}, cleanup : BOOLEAN]
  BY DEF IInv, TypeOK, Release
<1>2. CASE Begin
  <2>1. CASE pc' = "publish" /\ pc # "publish"
    <3>1. files.journal = NoJournal /\ latest > files.version /\ job'.ver = latest /\ latest' = latest
          /\ files'.current = files.current
      BY <1>1, <1>2, <2>1 DEF Begin, PruneAndPublish, Write, NoJob, Files
    <3>2. files.version = files.current  BY <3>1 DEF IInv, JournalInv, AllAt
    <3>3. files.current \in Nat  BY <1>1 DEF Files, Release
    <3> QED  BY <1>1, <2>1, <3>1, <3>2, <3>3 DEF NewerInv, Switching
  <2>2. CASE pc' \in {"off", "r_begin"}  BY <2>2, NotForward DEF Switching
  <2> QED  BY <1>2, <2>1, <2>2 DEF Begin, PruneAndPublish
<1>3. CASE Publish \/ Arm \/ LinkRecover
  BY <1>1, <1>3 DEF Publish, Arm, LinkRecover, Go, Quiet, NoWrite, Write, WriteAndSync, Files, NewerInv, Switching
<1>4. CASE TakeSnapshot
  <2>1. CASE pc' = "arm"
    <3>1. pc = "snapshot" /\ job'.ver = job.ver /\ latest' = latest /\ files'.current = files.current
      BY <1>1, <1>4, <2>1 DEF TakeSnapshot, Exit, WriteAndSync, Quiet, Files
    <3> QED  BY <2>1, <3>1 DEF NewerInv, Switching
  <2> QED  BY <1>4, <2>1, NotForward DEF TakeSnapshot, Exit, Switching
<1>5. CASE WritePending
  <2>1. pc = "journal" /\ pc' = "flows" /\ job' = job /\ latest' = latest
    BY <1>5 DEF WritePending, Go, Quiet
  <2>2. job.prev = files.current  BY <2>1 DEF IInv, BeforeInv
  <2> QED  BY <2>1, <2>2 DEF NewerInv, Switching
<1>6. CASE StopServices \/ SwitchCurrent \/ Configure \/ RestartHealthy \/ WriteVersion
  <2>1. pc \in Switching /\ pc' \in Switching /\ job' = job /\ latest' = latest
    BY <1>6 DEF StopServices, SwitchCurrent, Configure, RestartHealthy, WriteVersion, Go, Quiet, Switching
  <2> QED  BY <2>1 DEF NewerInv, Switching
<1>13. CASE LinkFlows \/ LinkGuard \/ LinkInitd
  <2>1. CASE pc' \in {"r_begin", "off"}  BY <2>1, NotForward DEF Switching
  <2>2. CASE pc \in Switching /\ pc' \in Switching /\ job' = job /\ latest' = latest
    BY <2>2 DEF NewerInv, Switching
  <2> QED  BY <1>13, <2>1, <2>2 DEF LinkFlows, LinkGuard, LinkInitd, Relink, Trap, Exit, Quiet, Switching
<1>7. CASE ClearPending \/ Disarm \/ DropSnapshot \/ Prune
  <2>1. pc' \in {"disarm", "drop", "prune", "off"}
    BY <1>7 DEF ClearPending, Disarm, DropSnapshot, Prune, Go, Exit
  <2> QED  BY <2>1, NotForward DEF Switching
<1>8. CASE Rollback
  <2>1. pc' \in Back \cup {"off"}
    BY <1>8 DEF Rollback, RollbackBegin, RollbackStop, RollbackRestore, RollbackSwitch, RollbackVersion,
       RollbackHealthy, RollbackClear, RollbackDrop, RollbackLink, Go, GiveUp, Exit, Back
  <2> QED  BY <2>1, NotForward DEF Switching, Back
<1>9. CASE BootStep \/ RecoverFails \/ FinalizeFails
  <2>1. boot # "up" /\ pc' = pc
    BY <1>9 DEF BootStep, Recover, RecoverSwitch, RecoverVersion, Serve, Finalize, FinalizeClear, FinalizeDrop,
       FinalizeLink, RecoverFails, FinalizeFails, Installer
  <2>2. pc' = "off"  BY <2>1 DEF IInv, BootInv
  <2> QED  BY <2>2, NotForward DEF Switching
<1>10. CASE Fail \/ RollbackFails \/ Signal \/ Kill \/ PowerLoss
  <2>1. pc' \in {"r_begin", "off"}
    BY <1>10 DEF Fail, RollbackFails, Signal, Kill, PowerLoss, Trap, GiveUp, Exit
  <2> QED  BY <2>1, NotForward DEF Switching
<1>11. CASE Offer
  <2>1. UNCHANGED <<files, pc, job>> /\ latest' = latest + 1
    BY <1>11 DEF Offer, NoWrite, Installer
  <2> QED  BY <1>1, <2>1 DEF NewerInv
<1>12. CASE UNCHANGED vars  BY <1>12 DEF vars, NewerInv
<1> QED
  BY <1>2, <1>3, <1>4, <1>5, <1>6, <1>7, <1>8, <1>9, <1>10, <1>11, <1>12, <1>13 DEF Next, Install, Faults

\* In every state a boot would bring one whole release.
LEMMA BaseIsWhole ==
    ~LateSignals /\ IInv => AfterBoot = I!Whole(Base)
<1> SUFFICES ASSUME ~LateSignals, IInv PROVE AfterBoot = I!Whole(Base)  OBVIOUS
<1>1. CASE files.journal = NoJournal
  <2>1. files.version = files.current /\ files.settings = files.current
    BY <1>1 DEF IInv, JournalInv, AllAt
  <2> QED  BY <1>1, <2>1 DEF AfterBoot, Base, I!Whole
<1>2. CASE files.journal # NoJournal
  <2>1. Saved(files.journal.snap) = files.journal.prev
    BY <1>2, SavedIsIt DEF IInv, JournalInv, Ready
  <2> QED  BY <1>2, <2>1 DEF AfterBoot, Base, I!Whole
<1> QED  BY <1>1, <1>2

\* A step that leaves link and journal alone does not change it.
LEMMA SameBase ==
    ASSUME files'.current = files.current, files'.journal = files.journal
    PROVE  Base' = Base
BY DEF Base

\* No step but the commit changes the release to which a boot leads: writing
\* the journal does not, nor moving the link under it, nor removing it after a
\* rollback, nor a power loss.
LEMMA BaseStep ==
    ASSUME ~LateSignals, IInv, [Next]_vars, ~ClearPending
    PROVE  Base' = Base
<1>1. files \in Files  BY DEF IInv, TypeOK
<1>2. CASE Begin \/ Offer \/ UNCHANGED vars
  BY <1>1, <1>2, SameBase DEF Begin, PruneAndPublish, Offer, vars, Write, NoWrite, Files
<1>3. CASE Publish \/ TakeSnapshot \/ Arm \/ LinkRecover \/ LinkFlows \/ LinkGuard \/ LinkInitd \/ StopServices \/ Configure
           \/ RestartHealthy \/ WriteVersion \/ Disarm \/ DropSnapshot \/ Prune
  BY <1>1, <1>3, SameBase DEF Publish, TakeSnapshot, Arm, LinkRecover, LinkFlows, LinkGuard, LinkInitd, Relink, StopServices,
     Configure,
     RestartHealthy, WriteVersion, Disarm, DropSnapshot, Prune, Write, WriteAndSync, NoWrite, Files
<1>4. CASE WritePending
  <2>1. pc = "journal" /\ files'.journal = [prev |-> job.prev, snap |-> job.snap]
    BY <1>1, <1>4 DEF WritePending, Go, WriteAndSync, Files
  <2>2. files.journal = NoJournal /\ job.prev = files.current  BY <2>1 DEF IInv, BeforeInv
  <2>3. files.current \in Release /\ 0 \notin Release  BY <1>1, JournalType DEF Files
  <2>4. files'.journal # NoJournal /\ files'.journal.prev = files.current
    BY <2>1, <2>2, <2>3 DEF NoJournal
  <2> QED  BY <2>2, <2>4 DEF Base
<1>5. CASE SwitchCurrent
  <2>1. pc = "switch" /\ files'.journal = files.journal
    BY <1>1, <1>5 DEF SwitchCurrent, Go, WriteAndSync, Files
  <2>2. files.journal = [prev |-> job.prev, snap |-> job.snap] /\ job.prev # 0
    BY <2>1 DEF IInv, AfterInv, Switching
  <2> QED  BY <2>1, <2>2 DEF Base, NoJournal
<1>6. CASE RollbackSwitch
  <2>1. pc = "r_switch" /\ files'.journal = files.journal /\ files'.current = job.prev
    BY <1>1, <1>6 DEF RollbackSwitch, Go, WriteAndSync, Files
  <2>2. files.journal = NoJournal => files.current = job.prev
    BY <2>1 DEF IInv, BackInv, Undoing, Back
  <2> QED  BY <2>1, <2>2 DEF Base
<1>7. CASE RollbackClear
  <2>1. pc = "r_clear" /\ files'.journal = NoJournal /\ files'.current = files.current
    BY <1>1, <1>7 DEF RollbackClear, Go, WriteAndSync, Files
  <2>2. files.journal = NoJournal \/ files.journal.prev = files.current
    BY <2>1 DEF IInv, BackInv, Undoing, Back
  <2> QED  BY <2>1, <2>2 DEF Base
<1>8. CASE RollbackBegin \/ RollbackStop \/ RollbackRestore \/ RollbackVersion \/ RollbackHealthy
           \/ RollbackDrop \/ RollbackLink
  BY <1>1, <1>8, SameBase DEF RollbackBegin, RollbackStop, RollbackRestore, RollbackVersion, RollbackHealthy,
     RollbackDrop, RollbackLink, Write, WriteAndSync, NoWrite, Files
<1>9. CASE RecoverSwitch
  <2>1. boot = "b_switch" /\ files'.journal = files.journal
    BY <1>1, <1>9 DEF RecoverSwitch, WriteAndSync, Files
  <2>2. files.journal # NoJournal  BY <2>1 DEF IInv, BootInv
  <2> QED  BY <2>1, <2>2 DEF Base
<1>10. CASE FinalizeClear
  <2>1. boot = "f_clear" /\ files'.journal = NoJournal /\ files'.current = files.current
    BY <1>1, <1>10 DEF FinalizeClear, WriteAndSync, Files
  <2>2. files.journal # NoJournal /\ files.current = files.journal.prev
    BY <2>1 DEF IInv, BootInv, AllAt
  <2> QED  BY <2>1, <2>2 DEF Base
<1>11. CASE Recover \/ RecoverVersion \/ Serve \/ Finalize \/ FinalizeDrop \/ FinalizeLink
  BY <1>1, <1>11, SameBase DEF Recover, GiveUpRecovery, RecoverVersion, Serve, Finalize, FinalizeDrop, FinalizeLink,
     Write, WriteAndSync, NoWrite, Files
<1>12. CASE PowerLoss
  <2>1. files' \in Survivors  BY <1>12 DEF PowerLoss, WriteAndSync
  <2> QED  BY <2>1, SurvivorFields, SameBase
<1>13. CASE Fail \/ RollbackFails \/ Signal \/ Kill \/ RecoverFails \/ FinalizeFails
  BY <1>1, <1>13, SameBase DEF Fail, RollbackFails, Signal, Kill, RecoverFails, GiveUpRecovery, FinalizeFails, Write, NoWrite,
     Files
<1> QED
  BY <1>2, <1>3, <1>4, <1>5, <1>6, <1>7, <1>8, <1>9, <1>10, <1>11, <1>12, <1>13
     DEF Next, Install, Rollback, BootStep, Faults

\* What is offered changes when a release is published.
LEMMA OnlyOffers ==
    ASSUME [Next]_vars, ~Offer
    PROVE  latest' = latest
BY DEF Next, Install, Rollback, BootStep, Faults, Begin, Publish, TakeSnapshot, Arm, LinkRecover,
   WritePending, LinkFlows, LinkGuard, LinkInitd, Relink, StopServices, SwitchCurrent, Configure, RestartHealthy, WriteVersion, ClearPending, Disarm,
   DropSnapshot, Prune, RollbackBegin, RollbackStop, RollbackRestore, RollbackSwitch, RollbackVersion,
   RollbackHealthy, RollbackClear, RollbackDrop, RollbackLink, Recover, RecoverSwitch, RecoverVersion, Serve,
   Finalize, FinalizeClear, FinalizeDrop, FinalizeLink, Fail, RollbackFails, Signal, Kill, PowerLoss,
   RecoverFails, FinalizeFails, Go, Quiet, vars

\* The commit is the step of the abstract specification.
LEMMA CommitStep ==
    ASSUME ~LateSignals, IInv, IInv', NewerInv, ClearPending
    PROVE  I!Commit
<1>1. files \in Files /\ latest \in Nat /\ job.ver \in Nat /\ job.prev \in Nat
  BY DEF IInv, TypeOK, Release
<1>2. pc = "clear" /\ latest' = latest /\ files'.journal = NoJournal /\ files'.current = files.current
  BY <1>1 DEF ClearPending, Go, Quiet, WriteAndSync, Files
<1>3. /\ files.journal = [prev |-> job.prev, snap |-> job.snap] /\ job.prev # 0
      /\ files.current = job.ver
  BY <1>2 DEF IInv, AfterInv, Switching
<1>4. Base = job.prev  BY <1>3 DEF Base, NoJournal
<1>5. Base' = job.ver  BY <1>2, <1>3 DEF Base
<1>6. job.prev < job.ver /\ job.ver =< latest  BY <1>2 DEF NewerInv, Switching
<1>7. AfterBoot = I!Whole(job.prev)  BY <1>4, BaseIsWhole
<1>8. AfterBoot' = I!Whole(job.ver)
  <2>1. (AfterBoot = I!Whole(Base))'  BY BaseIsWhole, PTL
  <2> QED  BY <1>5, <2>1 DEF I!Whole
<1>9. AfterBoot.release = job.prev  BY <1>7 DEF I!Whole
<1>10. job.ver \in AfterBoot.release + 1 .. latest  BY <1>1, <1>6, <1>9
<1> QED  BY <1>2, <1>8, <1>10 DEF I!Commit

\* Every step is a commit, an offer, or does not show.
LEMMA InstalledStep ==
    ASSUME ~LateSignals, IInv, IInv', NewerInv, [Next]_vars
    PROVE  [I!Next]_<<AfterBoot, latest>>
<1>1. CASE ClearPending  BY <1>1, CommitStep DEF I!Next
<1>2. CASE ~ClearPending
  <2>1. AfterBoot' = AfterBoot
    <3>1. AfterBoot = I!Whole(Base)  BY BaseIsWhole
    <3>2. (AfterBoot = I!Whole(Base))'  BY BaseIsWhole, PTL
    <3>3. Base' = Base  BY <1>2, BaseStep
    <3> QED  BY <3>1, <3>2, <3>3 DEF I!Whole
  <2>2. CASE Offer  BY <2>1, <2>2 DEF Offer, I!Next, I!Offer
  <2>3. CASE ~Offer  BY <2>1, <2>3, OnlyOffers
  <2> QED  BY <2>2, <2>3
<1> QED  BY <1>1, <1>2

\* The router starts at the first release.
LEMMA InstalledInit == Init => I!Init
BY DEF Init, First, AfterBoot, I!Init, I!Whole

\* The release transaction implements Installed: release, version file and
\* settings change together, at clear_pending and nowhere else, to a newer
\* release that was offered, whatever fails, is killed or loses power on the
\* way (install.sh, gofro-recover, gofro-finalize).
THEOREM Refinement ==
    ASSUME ~LateSignals, ~EarlyUpdates
    PROVE  Spec => ImplementsInstalled
<1>1. Init => NewerInv  BY DEF Init, NewerInv, Switching
<1>2. IInv /\ NewerInv /\ [Next]_vars => NewerInv'  BY NewerStep
<1>3. IInv /\ IInv' /\ NewerInv /\ [Next]_vars => [I!Next]_<<AfterBoot, latest>>  BY InstalledStep
<1> QED  BY <1>1, <1>2, <1>3, InstalledInit, UpdateInvariant, PTL DEF Spec, ImplementsInstalled, I!Spec
=============================================================================
