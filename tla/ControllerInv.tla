---------------------------- MODULE ControllerInv ----------------------------
(***************************************************************************)
(* The inductive invariant behind the safety properties of Controller: for *)
(* every point of a transaction, what has been established so far about    *)
(* the memory, the file and the kernel.  TLC checks it on small instances, *)
(* ControllerProofs proves it for every value of the constants.            *)
(***************************************************************************)
EXTENDS Controller

-----------------------------------------------------------------------------
(* Control: who holds the lock, and which variables hold a value.          *)

Serving == {"idle"} \cup Reconcile \cup Update \cup Rollback \cup Committed \cup Plain
Editing == Update \cup Rollback \cup Committed \cup Plain

Control ==
    /\ pc \in Busy <=> lock = "agent"
    /\ lc \in {"stopping", "armed"} <=> lock = "lifecycle"
    /\ lc \in {"boot", "stopped"} => pc = "off"
    /\ pc \in Serving => mem # NoConfig /\ active # NoRouting
    /\ pc \in {"sync0", "publish0", "flows0", "open"} => mem # NoConfig
    /\ pc \in Editing => next # NoConfig /\ base # NoConfig
    /\ netFailed => pc \in Rollback

\* Every stored configuration has the servers it needs.
Stored ==
    /\ disk \in stable
    /\ \A c \in stable : WellFormed(c)
    /\ mem # NoConfig => WellFormed(mem)
    /\ next # NoConfig => WellFormed(next)

-----------------------------------------------------------------------------
(* Facts about the kernel and the file.                                    *)

\* The table is the one that apply_policy rendered for c, with these exemptions.
Applied(c, excl) ==
    table # NoTable /\ table.rules = Render(c) /\ table.excl = excl /\ table.dns

\* Every version of the file that may survive asks for what c asks for.
FileIs(c)   == \A d \in stable : SameIntent(d, c)
Synced(c)   == disk = c /\ stable = {c}
WorkersAre(c) == active = c.routing /\ dnsVpn = c.vpn

\* An agent that serves and is not degraded.  Interception may be gone after an
\* aborted stop, but only behind the guard.
Settled ==
    /\ table # NoTable /\ table.rules = Render(mem) /\ table.excl = mem.excl
    /\ guard = NoGuard => table.dns
    /\ net = NetOf(mem)
    /\ leases = mem.routing /\ WorkersAre(mem)

\* What an edit's Change promises about the edited copy.
Promised ==
    /\ change = "config" =>
         Render(next) = Render(mem) /\ NetOf(next) = NetOf(mem) /\ next.excl = mem.excl
           /\ next.routing = mem.routing /\ next.vpn = mem.vpn
    /\ change = "policy" => NetOf(next) = NetOf(mem)

-----------------------------------------------------------------------------
(* The phases.                                                             *)

Guarded ==
    {"uNet", "uPolicy", "uCommit", "uSave", "uDir", "uPublish", "uFlows", "uClear"}
      \cup Rollback \cup {"rPolicy", "rCommit", "rFlows", "rNet", "rRetire", "rClear"}

AtRest ==
    /\ pc \in {"idle", "aSave", "aDir"} /\ ~degraded => Settled /\ FileIs(mem)
    /\ pc \in {"uSnap", "uGuard", "uNet", "kSave"} => Settled /\ FileIs(mem)
    /\ pc = "kDir" => Settled
    /\ pc \in {"idle", "aSave"} => SameIntent(disk, mem)
    /\ pc \in {"aSave", "aDir"} => base = mem /\ SameIntent(next, mem)
    /\ pc = "aDir" => disk = next

Updating ==
    /\ pc \in Update \cup {"kSave", "kDir"} => ~degraded
    /\ pc \in {"kSave", "kDir"} => change = "config"
    /\ pc \in {"uNet", "uSnap", "bNet", "bRestore"} => change = "network"
    /\ pc \in {"uGuard", "uPolicy", "uCommit", "uSave"} => change # "config"
    /\ pc \in {"uSnap", "uGuard", "uNet", "uPolicy", "uCommit", "uSave", "uDir", "kSave", "kDir"}
         => base = mem /\ WorkersAre(mem) /\ Promised
    /\ pc \in {"uPolicy", "uCommit", "uSave"} => FileIs(mem)
    /\ pc \in {"uPolicy", "uCommit", "uSave", "uDir"} => net = NetOf(next)
    /\ pc \in {"uCommit", "uSave", "uDir"} => Applied(next, mem.excl)
    /\ pc \in {"uSave", "uDir"} => leases = next.routing
    /\ pc \in {"uDir", "kDir"} => disk = next

Finishing ==
    /\ pc \in {"uPublish", "uFlows", "uClear"} =>
         /\ mem = next /\ Synced(mem) /\ net = NetOf(mem)
         /\ leases = mem.routing /\ WorkersAre(mem)
    /\ pc = "uPublish" => \E excl \in SUBSET Macs : Applied(mem, excl)
    /\ pc \in {"uFlows", "uClear"} => Applied(mem, mem.excl)

RollingBack ==
    /\ pc \in Rollback =>
         /\ ~degraded /\ change # "config" /\ base = mem
         /\ WorkersAre(mem) /\ FileIs(mem)
    /\ pc = "bRestore" => net = NetOf(mem)
    /\ pc \in {"bPolicy", "bCommit"} => netFailed \/ net = NetOf(mem)
    /\ pc \in {"bCommit", "bClear"} => Applied(mem, mem.excl)
    /\ pc = "bClear" => net = NetOf(mem) /\ leases = mem.routing

CommittedButDegraded ==
    pc \in Committed => degraded /\ mem = next /\ disk = mem

Starting ==
    /\ pc \in (Startup \ {"lock", "load"}) \cup Reconcile => mem = disk
    /\ pc \in {"lock", "load"} \cup Startup \cup Reconcile => degraded
    /\ pc \in {"publish0", "flows0", "open"} \cup (Reconcile \ {"rSync"}) => stable = {disk}
    /\ pc \in {"rCommit", "rFlows", "rNet", "rRetire", "rClear"} => Applied(mem, mem.excl)
    /\ pc \in {"rFlows", "rNet", "rRetire", "rClear"} =>
         leases = mem.routing /\ WorkersAre(mem)
    /\ pc \in {"rRetire", "rClear"} => net = NetOf(mem)

Guarding ==
    /\ pc \in Guarded => guard # NoGuard
    /\ pc = "off" => degraded

Phases ==
    /\ Guarding /\ AtRest /\ Updating /\ Finishing
    /\ RollingBack /\ CommittedButDegraded /\ Starting
    /\ UnguardedMeansEnforced

IInv == TypeOK /\ Control /\ Stored /\ Phases
=============================================================================
