-------------------------- MODULE ControllerProofs --------------------------
(***************************************************************************)
(* Proofs about Controller for every set of keys, endpoints, credentials,  *)
(* routing policies and devices: the phase invariant of ControllerInv and  *)
(* what follows from it, the refinement of Gateway, the invariants of the  *)
(* pinned DNS flows and of the exempt devices, and the answers of the API. *)
(***************************************************************************)
EXTENDS ControllerGateway, TLAPS

-----------------------------------------------------------------------------
(* The edits.                                                              *)

\* What update_config relies on about the result of an edit closure.
GoodEdit(c, e) ==
    /\ e.change \in Changes
    /\ e.next \in Config
    /\ WellFormed(e.next)
    /\ e.change = "config" =>
         Render(e.next) = Render(c) /\ NetOf(e.next) = NetOf(c)
           /\ e.next.excl = c.excl /\ e.next.routing = c.routing /\ e.next.vpn = c.vpn
    /\ e.change = "policy" => NetOf(e.next) = NetOf(c)

\* Turning the VPN on or off (controller/mode.rs set_mode).
LEMMA SetModeIsGood ==
    ASSUME NEW c \in Config, WellFormed(c), NEW v \in BOOLEAN, NEW e \in SetMode(c, v)
    PROVE  GoodEdit(c, e)
BY NoKeyIsFresh, NoServerIsFresh
   DEF GoodEdit, SetMode, Edited, Changes, Config, WellFormed, HasActive, HasServers, Has, NetOf

\* Replacing the routing policy (controller/routing.rs).
LEMMA UpdateRoutingIsGood ==
    ASSUME NEW c \in Config, WellFormed(c), NEW r \in Routings, NEW e \in UpdateRouting(c, r)
    PROVE  GoodEdit(c, e)
BY DEF GoodEdit, UpdateRouting, Edited, Changes, Config, WellFormed, HasActive, HasServers, Has, NetOf

\* Excluding or including a device (controller.rs update_device_exclusion).
LEMMA UpdateDeviceExclusionIsGood ==
    ASSUME NEW c \in Config, WellFormed(c), NEW m \in Macs, NEW x \in BOOLEAN,
           NEW e \in UpdateDeviceExclusion(c, m, x)
    PROVE  GoodEdit(c, e)
BY DEF GoodEdit, UpdateDeviceExclusion, Edited, Changes, Config, WellFormed, HasActive, HasServers,
       Has, NetOf

\* Adding a server (controller/servers.rs insert_server).
LEMMA InsertServerIsGood ==
    ASSUME NEW c \in Config, WellFormed(c), NEW k \in Keys, NEW p \in Profile,
           NEW e \in InsertServer(c, k, p)
    PROVE  GoodEdit(c, e)
<1> DEFINE first == c.active = NoKey
           now   == IF first THEN k ELSE c.active
           all   == [c.servers EXCEPT ![k] = p]
<1>1. /\ ~Has(c, k)
      /\ e.change = IF first /\ c.vpn THEN "network" ELSE "config"
      /\ e.next = [c EXCEPT !.active = now, !.servers[k] = p]
  BY DEF InsertServer, Edited
<1>2. /\ e.next \in Config
      /\ e.next.vpn = c.vpn /\ e.next.excl = c.excl /\ e.next.routing = c.routing
      /\ e.next.active = now
      /\ e.next.servers = all
  <2>1. now \in Keys \cup {NoKey} /\ all \in [Keys -> {NoServer} \cup Profile]
    BY DEF Config
  <2>2. e.next = [c EXCEPT !.active = now, !.servers = all]
    BY <1>1 DEF Config
  <2> HIDE DEF now, all
  <2> QED  BY <2>1, <2>2 DEF Config
<1>3. \A l \in Keys : e.next.servers[l] = IF l = k THEN p ELSE c.servers[l]
  BY <1>2 DEF Config
<1>4. WellFormed(e.next)
  BY <1>1, <1>2, <1>3, NoKeyIsFresh, NoServerIsFresh
     DEF WellFormed, HasActive, HasServers, Has, Config
<1>5. ASSUME e.change = "config"
      PROVE  Render(e.next) = Render(c) /\ NetOf(e.next) = NetOf(c)
  <2>1. c.vpn => c.active \in Keys /\ c.active # k /\ e.next.active = c.active
    BY <1>1, <1>2, <1>5 DEF WellFormed, HasActive, Has
  <2> QED  BY <1>2, <1>3, <2>1 DEF Render, NetOf, WarpSource, HasActive, Has
<1> QED  BY <1>1, <1>2, <1>4, <1>5 DEF GoodEdit, Changes

\* Selecting a server (controller/servers.rs select_server).
LEMMA SelectServerIsGood ==
    ASSUME NEW c \in Config, WellFormed(c), NEW k \in Keys, NEW e \in SelectServer(c, k)
    PROVE  GoodEdit(c, e)
BY NoKeyIsFresh, NoServerIsFresh
   DEF GoodEdit, SelectServer, Edited, Changes, Config, WellFormed, HasActive, HasServers, Has,
       NetOf, Render, WarpSource

\* Importing a client configuration for a known server (replace_imported_server).
LEMMA ReplaceImportedServerIsGood ==
    ASSUME NEW c \in Config, WellFormed(c), NEW k \in Keys, NEW p \in Profile,
           Has(c, k), NEW e \in ReplaceImportedServer(c, k, p)
    PROVE  GoodEdit(c, e)
<1> DEFINE previous == c.servers[k]
           kept == IF previous.managed
                   THEN [p EXCEPT !.managed = TRUE, !.ep = previous.ep] ELSE p
<1>1. /\ e.change = IF c.vpn /\ c.active = k THEN "network" ELSE "config"
      /\ e.next = [c EXCEPT !.servers[k] = kept]
  BY DEF ReplaceImportedServer, Edited
<1>2. previous \in Profile /\ kept \in Profile
  BY DEF Config, Has, Profile
<1>3. /\ e.next \in Config
      /\ e.next.vpn = c.vpn /\ e.next.excl = c.excl /\ e.next.routing = c.routing
      /\ e.next.active = c.active /\ e.next.servers = [c.servers EXCEPT ![k] = kept]
  BY <1>1, <1>2 DEF Config
<1>4. \A l \in Keys : e.next.servers[l] = IF l = k THEN kept ELSE c.servers[l]
  BY <1>3 DEF Config
<1>5. WellFormed(e.next)
  BY <1>2, <1>3, <1>4, NoServerIsFresh DEF WellFormed, HasActive, HasServers, Has
<1>6. ASSUME e.change = "config"
      PROVE  Render(e.next) = Render(c) /\ NetOf(e.next) = NetOf(c)
  BY <1>1, <1>3, <1>4, <1>6 DEF Render, NetOf, WarpSource, HasActive, Has, WellFormed
<1> QED  BY <1>1, <1>3, <1>5, <1>6 DEF GoodEdit, Changes

\* Renaming a server, or changing its key or endpoint (update_server).
LEMMA UpdateServerIsGood ==
    ASSUME NEW c \in Config, WellFormed(c), NEW k \in Keys, NEW l \in Keys,
           NEW ep \in Endpoints, NEW e \in UpdateServer(c, k, l, ep)
    PROVE  GoodEdit(c, e)
<1> DEFINE server == c.servers[k]
           moved  == server.ep # ep \/ k # l
           edited == [server EXCEPT !.ep = ep]
           all    == [[c.servers EXCEPT ![k] = NoServer] EXCEPT ![l] = edited]
<1>1. /\ Has(c, k) /\ (l # k => ~Has(c, l))
      /\ e.change = IF c.active = k /\ c.vpn /\ moved THEN "network" ELSE "config"
      /\ e.next = [c EXCEPT !.active = IF c.active = k THEN l ELSE c.active, !.servers = all]
  BY DEF UpdateServer, Edited
<1>2. server \in Profile /\ edited \in Profile
  BY <1>1 DEF Config, Has, Profile
<1>3. all \in [Keys -> {NoServer} \cup Profile]
  BY <1>2 DEF Config
<1>4. /\ e.next \in Config
      /\ e.next.vpn = c.vpn /\ e.next.excl = c.excl /\ e.next.routing = c.routing
      /\ e.next.active = IF c.active = k THEN l ELSE c.active
      /\ e.next.servers = all
  BY <1>1, <1>3 DEF Config
<1>5. \A x \in Keys : e.next.servers[x] = IF x = l THEN edited
                                          ELSE IF x = k THEN NoServer ELSE c.servers[x]
  BY <1>4 DEF Config
<1>6. WellFormed(e.next)
  BY <1>1, <1>2, <1>4, <1>5, NoKeyIsFresh, NoServerIsFresh DEF WellFormed, HasActive, HasServers, Has
<1>7. ASSUME e.change = "config"
      PROVE  Render(e.next) = Render(c) /\ NetOf(e.next) = NetOf(c)
  <2>1. ASSUME c.vpn
        PROVE  e.next.active = c.active /\ e.next.servers[c.active] = c.servers[c.active]
    <3>1. CASE c.active = k
      <4>1. l = k /\ ep = server.ep  BY <1>1, <1>7, <2>1, <3>1
      <4>2. edited = server  BY <1>2, <4>1 DEF Profile
      <4> QED  BY <1>4, <1>5, <3>1, <4>1, <4>2
    <3>2. CASE c.active # k
      BY <1>1, <1>4, <1>5, <2>1, <3>2 DEF WellFormed, HasActive, Has
    <3> QED  BY <3>1, <3>2
  <2> QED  BY <1>4, <2>1 DEF Render, NetOf, WarpSource, HasActive, Has
<1> QED  BY <1>1, <1>4, <1>6, <1>7 DEF GoodEdit, Changes

\* Removing a server (delete_server).
LEMMA DeleteServerIsGood ==
    ASSUME NEW c \in Config, WellFormed(c), NEW k \in Keys, NEW e \in DeleteServer(c, k)
    PROVE  GoodEdit(c, e)
<1> DEFINE rest == {x \in Keys \ {k} : Has(c, x)}
           left == [c.servers EXCEPT ![k] = NoServer]
<1>1. left \in [Keys -> {NoServer} \cup Profile] /\
      \A x \in Keys : left[x] = IF x = k THEN NoServer ELSE c.servers[x]
  BY DEF Config
<1>2. CASE c.active # k
  <2>1. e.change = "config" /\ e.next = [c EXCEPT !.servers = left] /\ Has(c, k)
    BY <1>2 DEF DeleteServer, Edited
  <2>2. /\ e.next \in Config /\ e.next.servers = left /\ e.next.active = c.active
        /\ e.next.vpn = c.vpn /\ e.next.excl = c.excl /\ e.next.routing = c.routing
    BY <2>1, <1>1 DEF Config
  <2>3. WellFormed(e.next)
    BY <1>1, <1>2, <2>1, <2>2, NoKeyIsFresh DEF WellFormed, HasActive, HasServers, Has, Config
  <2>4. Render(e.next) = Render(c) /\ NetOf(e.next) = NetOf(c)
    BY <1>1, <1>2, <2>2 DEF Render, NetOf, WarpSource, HasActive, Has, WellFormed
  <2> QED  BY <2>1, <2>2, <2>3, <2>4 DEF GoodEdit, Changes
<1>3. CASE c.active = k /\ rest = {}
  <2>1. ~c.vpn /\ e.change = "config" /\ e.next = [c EXCEPT !.servers = left, !.active = NoKey]
    BY <1>3 DEF DeleteServer, Edited
  <2>2. /\ e.next \in Config /\ e.next.servers = left /\ e.next.active = NoKey
        /\ e.next.vpn = c.vpn /\ e.next.excl = c.excl /\ e.next.routing = c.routing
    BY <2>1, <1>1 DEF Config
  <2>3. WellFormed(e.next)
    BY <1>1, <1>3, <2>1, <2>2, NoKeyIsFresh DEF WellFormed, HasActive, HasServers, Has
  <2>4. Render(e.next) = Render(c) /\ NetOf(e.next) = NetOf(c)
    BY <2>1, <2>2 DEF Render, NetOf
  <2> QED  BY <2>1, <2>2, <2>3, <2>4 DEF GoodEdit, Changes
<1>4. CASE c.active = k /\ rest # {}
  <2>1. e \in {[change |-> IF c.vpn THEN "network" ELSE "config",
                next   |-> [c EXCEPT !.servers = left, !.active = x]] : x \in rest}
    <3>1. Has(c, k)  BY <1>4, NoKeyIsFresh DEF WellFormed, HasActive
    <3>2. ~(c.active # k) /\ rest # {}  BY <1>4
    <3> QED  BY <3>1, <3>2, Zenon DEF DeleteServer
  <2>5. PICK x \in rest :
           e = [change |-> IF c.vpn THEN "network" ELSE "config",
                next   |-> [c EXCEPT !.servers = left, !.active = x]]
    BY <2>1, Zenon
  <2>0. /\ e.change = IF c.vpn THEN "network" ELSE "config"
        /\ e.next = [c EXCEPT !.servers = left, !.active = x]
    BY <2>5
  <2>2. /\ e.next \in Config /\ e.next.servers = left /\ e.next.active = x
        /\ e.next.vpn = c.vpn /\ e.next.excl = c.excl /\ e.next.routing = c.routing
    BY <2>0, <1>1 DEF Config
  <2>3. WellFormed(e.next)
    BY <1>1, <2>0, <2>2, NoKeyIsFresh DEF WellFormed, HasActive, HasServers, Has
  <2>4. e.change = "config" => Render(e.next) = Render(c) /\ NetOf(e.next) = NetOf(c)
    BY <2>0, <2>2 DEF Render, NetOf
  <2> QED  BY <2>0, <2>2, <2>3, <2>4 DEF GoodEdit, Changes
<1> QED  BY <1>2, <1>3, <1>4

\* Whatever edit update_config is given, its result keeps the promises of its
\* Change, and the active server exists.
THEOREM EditsAreGood ==
    ASSUME NEW c \in Config, WellFormed(c), NEW e \in Edits(c)
    PROVE  GoodEdit(c, e)
<1>1. \/ \E v \in BOOLEAN : e \in SetMode(c, v)
      \/ \E r \in Routings : e \in UpdateRouting(c, r)
      \/ \E m \in Macs, x \in BOOLEAN : e \in UpdateDeviceExclusion(c, m, x)
      \/ \E k \in Keys, p \in Profile : e \in InsertServer(c, k, p)
      \/ \E k \in Keys, p \in Profile : e \in UpsertServer(c, k, p)
      \/ \E k, l \in Keys, ep \in Endpoints : e \in UpdateServer(c, k, l, ep)
      \/ \E k \in Keys : e \in SelectServer(c, k)
      \/ \E k \in Keys : e \in DeleteServer(c, k)
  BY DEF Edits
<1>2. \A k \in Keys, p \in Profile : e \in UpsertServer(c, k, p) =>
         e \in InsertServer(c, k, p) \/ (Has(c, k) /\ e \in ReplaceImportedServer(c, k, p))
  <2> SUFFICES ASSUME NEW k \in Keys, NEW p \in Profile, e \in UpsertServer(c, k, p)
               PROVE  e \in InsertServer(c, k, p)
                        \/ (Has(c, k) /\ e \in ReplaceImportedServer(c, k, p))
    OBVIOUS
  <2>1. CASE Has(c, k)   BY <2>1, Zenon DEF UpsertServer
  <2>2. CASE ~Has(c, k)  BY <2>2, Zenon DEF UpsertServer
  <2> QED  BY <2>1, <2>2
<1> QED  BY <1>1, <1>2, SetModeIsGood, UpdateRoutingIsGood, UpdateDeviceExclusionIsGood,
            InsertServerIsGood, ReplaceImportedServerIsGood, UpdateServerIsGood,
            SelectServerIsGood, DeleteServerIsGood

-----------------------------------------------------------------------------
(* What the kernel is asked for depends on the intent alone.               *)

\* Two configurations of the same intent ask the same of the kernel.
LEMMA SameIntentFacts ==
    ASSUME NEW c \in Config, NEW d \in Config, SameIntent(c, d)
    PROVE  /\ Render(c) = Render(d) /\ NetOf(c) = NetOf(d)
           /\ c.excl = d.excl /\ c.routing = d.routing /\ c.vpn = d.vpn
           /\ SameIntent(d, c)
BY DEF SameIntent, Config, Render, NetOf, WarpSource, HasActive, Has

\* SameIntent is an equivalence.
LEMMA SameIntentTransitive ==
    ASSUME NEW c \in Config, NEW d \in Config, NEW e \in Config,
           SameIntent(c, d), SameIntent(d, e)
    PROVE  SameIntent(c, e)
BY DEF SameIntent, Config

\* Every configuration has its own intent.
LEMMA SameIntentReflexive ==
    ASSUME NEW c \in Config
    PROVE  SameIntent(c, c)
BY DEF SameIntent, Config

\* The auto-update flag is not part of the intent.
LEMMA AutoKeepsIntent ==
    ASSUME NEW c \in Config, NEW a \in BOOLEAN, WellFormed(c)
    PROVE  /\ [c EXCEPT !.auto = a] \in Config
           /\ SameIntent([c EXCEPT !.auto = a], c)
           /\ WellFormed([c EXCEPT !.auto = a])
BY DEF SameIntent, Config, WellFormed, HasActive, HasServers, Has

\* The rendered rules are a value of the table's type.
LEMMA RenderType ==
    ASSUME NEW c \in Config
    PROVE  /\ Render(c) \in [vpn : BOOLEAN, warp : Cred, routing : Routings]
           /\ [Render(c) EXCEPT !.routing = c.routing] = Render(c)
<1>1. WarpSource(c) \in Cred
  BY DEF WarpSource, Config, HasActive, Has, Profile, Cred
<1>2. NoCred \in Cred  BY DEF Cred
<1> QED  BY <1>1, <1>2 DEF Render, Config

\* The tunnel that a well-formed configuration asks for exists.
LEMMA NetOfType ==
    ASSUME NEW c \in Config, WellFormed(c)
    PROVE  NetOf(c) \in Nets
<1>1. CASE c.vpn
  <2>1. c.active \in Keys /\ c.servers[c.active] \in Profile
    BY <1>1 DEF WellFormed, HasActive, Has, Config
  <2> QED  BY <1>1, <2>1 DEF NetOf, Nets, Profile
<1>2. CASE ~c.vpn  BY <1>2 DEF NetOf, Nets
<1> QED  BY <1>1, <1>2

-----------------------------------------------------------------------------
(* Facts about the steps that change the kernel.                           *)

USE DEF Startup, Reconcile, Update, Rollback, Committed, Plain, Busy, Serving, Editing, Guarded,
        agentVars, localVars, diskVars, kernelVars, Goto, Respond, RollbackFrom, RollbackFails,
        ReconcileFails, AdoptNext, Rename, SyncDisk, LoseMemory, Exit, ExitClosed,
        TypeOK, Changes, Phases, WorkersAre, Applied, Synced

\* dataplane.rs apply leaves the table it rendered.
LEMMA ApplyTableFacts ==
    ASSUME TypeOK, NEW c \in Config, NEW excl \in SUBSET Macs, ApplyTable(c, c.routing, excl)
    PROVE  /\ table' \in Table /\ table' # NoTable /\ stale' \in SUBSET Macs
           /\ table'.rules = Render(c) /\ table'.excl = excl /\ table'.dns
BY RenderType, NoTableIsFresh DEF ApplyTable, PinFlows, TypeOK, KernelTypes, Table

\* publish_exclusions and arm replace the exemptions and nothing else.
LEMMA PublishSetFacts ==
    ASSUME TypeOK, NEW excl \in SUBSET Macs, PublishSet(excl)
    PROVE  /\ table' \in {NoTable} \cup Table /\ stale' \in SUBSET Macs
           /\ guard' = excl /\ guard' # NoGuard
           /\ table = NoTable => table' = NoTable
           /\ table # NoTable => /\ table' # NoTable /\ table'.excl = excl
                                 /\ table'.rules = table.rules /\ table'.dns = table.dns
<1>1. CASE table = NoTable
  BY <1>1, NoGuardIsFresh DEF PublishSet, PinFlows, TypeOK, KernelTypes
<1>2. CASE table # NoTable
  <2>1. table \in Table  BY <1>2 DEF TypeOK, KernelTypes
  <2>2. table' = [table EXCEPT !.excl = excl]  BY <1>2 DEF PublishSet
  <2> QED  BY <1>2, <2>1, <2>2, NoGuardIsFresh, NoTableIsFresh DEF PublishSet, PinFlows, TypeOK, KernelTypes, Table
<1> QED  BY <1>1, <1>2

\* The guard script's arm with the flow cleanup: exemptions from the file.
LEMMA ArmAndCleanupFacts ==
    ASSUME TypeOK, disk.excl \in SUBSET Macs, ArmAndCleanup
    PROVE  /\ table' \in {NoTable} \cup Table /\ stale' \in SUBSET Macs /\ guard' = disk.excl
           /\ table # NoTable => /\ table' # NoTable /\ table'.excl = disk.excl
                                 /\ table'.rules = table.rules
<1>1. CASE table = NoTable  BY <1>1 DEF ArmAndCleanup
<1>2. CASE table # NoTable
  <2>1. table \in Table  BY <1>2 DEF TypeOK, KernelTypes
  <2>2. table' = [table EXCEPT !.excl = disk.excl]  BY <1>2 DEF ArmAndCleanup
  <2> QED  BY <1>2, <2>1, <2>2, NoTableIsFresh DEF ArmAndCleanup, Table
<1> QED  BY <1>1, <1>2

\* The guard script's stop: exemptions from the file, no DNS interception.
LEMMA StopInterceptionFacts ==
    ASSUME TypeOK, disk.excl \in SUBSET Macs, StopInterception
    PROVE  /\ table' \in {NoTable} \cup Table /\ guard' = disk.excl
           /\ table # NoTable => /\ table' # NoTable /\ table'.excl = disk.excl
                                 /\ table'.rules = table.rules
<1>1. CASE table = NoTable  BY <1>1 DEF StopInterception
<1>2. CASE table # NoTable
  <2>1. table \in Table  BY <1>2 DEF TypeOK, KernelTypes
  <2>2. table' = [table EXCEPT !.excl = disk.excl, !.dns = FALSE]  BY <1>2 DEF StopInterception
  <2> QED  BY <1>2, <2>1, <2>2, NoTableIsFresh DEF StopInterception, Table
<1> QED  BY <1>1, <1>2

\* conntrack pins flows of LAN devices only.
LEMMA PinFlowsType ==
    ASSUME TypeOK, PinFlows
    PROVE  stale' \in SUBSET Macs
BY DEF TypeOK, KernelTypes, PinFlows

-----------------------------------------------------------------------------
(* Updates.                                                                *)

\* update_config accepts an edit: its copy keeps the promise of its Change.
LEMMA BeginUpdateInv == ASSUME IInv, BeginUpdate PROVE IInv'
<1> USE DEF BeginUpdate
<1>1. TypeOK /\ Control /\ Stored /\ Phases /\ change \in Changes /\ degraded \in BOOLEAN
  BY DEF IInv, LocalTypes, AgentTypes
<1>6. mem \in Config /\ WellFormed(mem)
  BY <1>1 DEF TypeOK, AgentTypes, Control, Stored
<1>7. PICK e \in Edits(mem) :
         /\ next' = e.next /\ change' = e.change
         /\ pc' = CASE e.change = "config"  -> "kSave"
                    [] e.change = "policy"  -> "uGuard"
                    [] e.change = "network" -> "uSnap"
  OBVIOUS
<1>8. GoodEdit(mem, e)  BY <1>6, EditsAreGood
<1>9. /\ next' \in Config /\ WellFormed(next') /\ change' \in Changes /\ Promised'
      /\ \/ change' = "config" /\ pc' = "kSave"
         \/ change' = "policy" /\ pc' = "uGuard"
         \/ change' = "network" /\ pc' = "uSnap"
  BY <1>7, <1>8 DEF GoodEdit, Promised, Changes
<1>10. next' # NoConfig /\ mem # NoConfig  BY <1>6, <1>9, NoConfigIsFresh
<1>11. TypeOK'
  BY <1>1, <1>6, <1>9, <1>10 DEF ControlTypes, Control, AgentTypes, LocalTypes, StoreTypes,
     KernelTypes
<1>12. Control'  BY <1>1, <1>6, <1>9, <1>10 DEF Control, ControlTypes
<1>13. Stored'  BY <1>1, <1>6, <1>9, <1>10 DEF Stored, Control
<1>14. Guarding' /\ UnguardedMeansEnforced'
  BY <1>1, <1>6, <1>9, <1>10 DEF Guarding, UnguardedMeansEnforced, Enforces, Stored
<1>15. AtRest'
  BY <1>1, <1>6, <1>9, <1>10 DEF AtRest, Settled, FileIs, Stored, RollingBack,
     CommittedButDegraded, Starting
<1>16. Updating'
  BY <1>1, <1>6, <1>9, <1>10 DEF Updating, Promised, FileIs, Settled, AtRest, ApplyNetwork,
     Control
<1>17. Finishing' /\ RollingBack' /\ CommittedButDegraded' /\ Starting'
  BY <1>1, <1>6, <1>9, <1>10 DEF Finishing, Updating, RollingBack, AtRest, Promised, FileIs,
     Settled, Control, ApplyNetwork, CommittedButDegraded, Starting, Guarding
<1> QED  BY <1>11, <1>12, <1>13, <1>14, <1>15, <1>16, <1>17 DEF IInv

\* Snapshot::capture only reads; a failure answers the caller.
LEMMA CaptureSnapshotInv == ASSUME IInv, CaptureSnapshot PROVE IInv'
<1> USE DEF CaptureSnapshot
<1>1. TypeOK /\ Control /\ Stored /\ Phases /\ change \in Changes /\ degraded \in BOOLEAN
  BY DEF IInv, LocalTypes, AgentTypes
<1>2. ControlTypes' /\ AgentTypes' /\ LocalTypes'
  BY <1>1 DEF ControlTypes, Control, AgentTypes, LocalTypes, StoreTypes
<1>3. StoreTypes' /\ KernelTypes'
  BY <1>1 DEF StoreTypes, Control, AgentTypes, LocalTypes, KernelTypes
<1>4. Control'  BY <1>1 DEF Control, ControlTypes
<1>5. Stored'  BY <1>1 DEF Stored, Control
<1>6. Guarding' /\ UnguardedMeansEnforced'
  BY <1>1 DEF Guarding, UnguardedMeansEnforced, Enforces, Stored
<1>7. AtRest'
  BY <1>1 DEF AtRest, Settled, FileIs, Stored, RollingBack, CommittedButDegraded, Starting
<1>8. Updating'  BY <1>1 DEF Updating, Promised, FileIs, Settled, AtRest, ApplyNetwork, Control
<1>9. Finishing' /\ RollingBack' /\ CommittedButDegraded' /\ Starting'
  BY <1>1 DEF Finishing, Updating, RollingBack, AtRest, Promised, FileIs, Settled, Control,
     ApplyNetwork, CommittedButDegraded, Starting, Guarding
<1> QED  BY <1>2, <1>3, <1>4, <1>5, <1>6, <1>7, <1>8, <1>9 DEF IInv

\* install_guard: the guard goes up before anything else is touched.
LEMMA InstallGuardInv == ASSUME IInv, InstallGuard PROVE IInv'
<1> USE DEF InstallGuard
<1>1. TypeOK /\ Control /\ Stored /\ Phases /\ change \in Changes /\ degraded \in BOOLEAN
  BY DEF IInv, LocalTypes, AgentTypes
<1>6. mem \in Config /\ mem.excl \in SUBSET Macs /\ mem.routing \in Routings /\ mem.vpn \in BOOLEAN
  BY <1>1 DEF TypeOK, AgentTypes, LocalTypes, StoreTypes, Control, Config
<1>7. ControlTypes' /\ AgentTypes' /\ LocalTypes'
  BY <1>1, <1>6, NoGuardIsFresh DEF ControlTypes, Control, AgentTypes, LocalTypes, StoreTypes
<1>8. StoreTypes' /\ KernelTypes'
  BY <1>1, <1>6, NoGuardIsFresh DEF StoreTypes, Control, AgentTypes, LocalTypes, KernelTypes
<1>9. Control'  BY <1>1, <1>6, NoGuardIsFresh DEF Control, ControlTypes
<1>10. Stored'  BY <1>1, <1>6, NoGuardIsFresh DEF Stored, Control
<1>11. Guarding' /\ UnguardedMeansEnforced'
  BY <1>1, <1>6, NoGuardIsFresh DEF Guarding, UnguardedMeansEnforced, Enforces, Stored
<1>12. AtRest'
  BY <1>1, <1>6, NoGuardIsFresh DEF AtRest, Settled, FileIs, Stored, RollingBack,
     CommittedButDegraded, Starting
<1>13. Updating'
  BY <1>1, <1>6, NoGuardIsFresh DEF Updating, Promised, FileIs, Settled, AtRest, ApplyNetwork,
     Control
<1>14. Finishing' /\ RollingBack' /\ CommittedButDegraded' /\ Starting'
  BY <1>1, <1>6, NoGuardIsFresh DEF Finishing, Updating, RollingBack, AtRest, Promised, FileIs,
     Settled, Control, ApplyNetwork, CommittedButDegraded, Starting, Guarding
<1> QED  BY <1>7, <1>8, <1>9, <1>10, <1>11, <1>12, <1>13, <1>14 DEF IInv

\* apply_network on the new configuration, behind the guard.
LEMMA UpdateNetworkInv == ASSUME IInv, UpdateNetwork PROVE IInv'
<1> USE DEF UpdateNetwork
<1>1. TypeOK /\ Control /\ Stored /\ Phases /\ change \in Changes /\ degraded \in BOOLEAN
  BY DEF IInv, LocalTypes, AgentTypes
<1>6. next \in Config /\ next.excl \in SUBSET Macs /\ next.routing \in Routings /\ next.vpn \in BOOLEAN
  BY <1>1 DEF TypeOK, AgentTypes, LocalTypes, StoreTypes, Control, Config
<1>7. NetOf(next) \in Nets /\ net' \in {net, Torn, NetOf(next)} /\ Torn \in Nets
  BY <1>1, <1>6, NetOfType DEF ApplyNetwork, TearNetwork, Control, Stored, Nets
<1>8. TypeOK'
  BY <1>1, <1>7 DEF ControlTypes, Control, AgentTypes, LocalTypes, StoreTypes, KernelTypes
<1>9. Control'  BY <1>1 DEF Control, ControlTypes
<1>10. Stored'  BY <1>1 DEF Stored, Control
<1>11. Guarding' /\ UnguardedMeansEnforced'
  BY <1>1 DEF Guarding, UnguardedMeansEnforced, Enforces, Stored
<1>12. AtRest'
  BY <1>1 DEF AtRest, Settled, FileIs, Stored, RollingBack, CommittedButDegraded, Starting
<1>13. Updating'  BY <1>1 DEF Updating, Promised, FileIs, Settled, AtRest, ApplyNetwork, Control
<1>14. Finishing' /\ RollingBack' /\ CommittedButDegraded' /\ Starting'
  BY <1>1 DEF Finishing, Updating, RollingBack, AtRest, Promised, FileIs, Settled, Control,
     ApplyNetwork, CommittedButDegraded, Starting, Guarding
<1> QED  BY <1>8, <1>9, <1>10, <1>11, <1>12, <1>13, <1>14 DEF IInv

\* apply_policy renders the new policy with the exclusions still in force.
LEMMA UpdatePolicyInv == ASSUME IInv, UpdatePolicy PROVE IInv'
<1> USE DEF UpdatePolicy
<1>1. TypeOK /\ Control /\ Stored /\ Phases /\ change \in Changes /\ degraded \in BOOLEAN
  BY DEF IInv, LocalTypes, AgentTypes
<1>6. next \in Config /\ next.excl \in SUBSET Macs /\ next.routing \in Routings /\ next.vpn \in BOOLEAN
  BY <1>1 DEF TypeOK, AgentTypes, LocalTypes, StoreTypes, Control, Config
<1>7. mem \in Config /\ mem.excl \in SUBSET Macs /\ mem.routing \in Routings /\ mem.vpn \in BOOLEAN
  BY <1>1 DEF TypeOK, AgentTypes, LocalTypes, StoreTypes, Control, Config
<1>8. ASSUME ApplyTable(next, next.routing, mem.excl)
      PROVE  table' \in Table /\ stale' \in SUBSET Macs /\ Applied(next, mem.excl)'
  BY <1>1, <1>6, <1>7, <1>8, ApplyTableFacts DEF Applied
<1>9. TypeOK'
  BY <1>1, <1>6, <1>7, <1>8 DEF ControlTypes, Control, AgentTypes, LocalTypes, StoreTypes,
     KernelTypes
<1>10. Control'  BY <1>1, <1>6, <1>7, <1>8 DEF Control, ControlTypes
<1>11. Stored'  BY <1>1, <1>6, <1>7, <1>8 DEF Stored, Control
<1>12. Guarding' /\ UnguardedMeansEnforced'
  BY <1>1, <1>6, <1>7, <1>8 DEF Guarding, UnguardedMeansEnforced, Enforces, Stored
<1>13. AtRest'
  BY <1>1, <1>6, <1>7, <1>8 DEF AtRest, Settled, FileIs, Stored, RollingBack,
     CommittedButDegraded, Starting
<1>14. Updating'
  BY <1>1, <1>6, <1>7, <1>8 DEF Updating, Promised, FileIs, Settled, AtRest, ApplyNetwork,
     Control
<1>15. Finishing' /\ RollingBack' /\ CommittedButDegraded' /\ Starting'
  BY <1>1, <1>6, <1>7, <1>8 DEF Finishing, Updating, RollingBack, AtRest, Promised, FileIs,
     Settled, Control, ApplyNetwork, CommittedButDegraded, Starting, Guarding
<1> QED  BY <1>9, <1>10, <1>11, <1>12, <1>13, <1>14, <1>15 DEF IInv

\* The FakeDNS lease targets follow the new routing policy.
LEMMA CommitTargetsInv == ASSUME IInv, CommitTargets PROVE IInv'
<1> USE DEF CommitTargets
<1>1. TypeOK /\ Control /\ Stored /\ Phases /\ change \in Changes /\ degraded \in BOOLEAN
  BY DEF IInv, LocalTypes, AgentTypes
<1>6. next \in Config /\ next.excl \in SUBSET Macs /\ next.routing \in Routings /\ next.vpn \in BOOLEAN
  BY <1>1 DEF TypeOK, AgentTypes, LocalTypes, StoreTypes, Control, Config
<1>7. TypeOK'
  BY <1>1, <1>6 DEF ControlTypes, Control, AgentTypes, LocalTypes, StoreTypes, KernelTypes
<1>8. Control'  BY <1>1, <1>6 DEF Control, ControlTypes
<1>9. Stored'  BY <1>1, <1>6 DEF Stored, Control
<1>10. Guarding' /\ UnguardedMeansEnforced'
  BY <1>1, <1>6 DEF Guarding, UnguardedMeansEnforced, Enforces, Stored
<1>11. AtRest'
  BY <1>1, <1>6 DEF AtRest, Settled, FileIs, Stored, RollingBack, CommittedButDegraded,
     Starting
<1>12. Updating'
  BY <1>1, <1>6 DEF Updating, Promised, FileIs, Settled, AtRest, ApplyNetwork, Control
<1>13. Finishing' /\ RollingBack' /\ CommittedButDegraded' /\ Starting'
  BY <1>1, <1>6 DEF Finishing, Updating, RollingBack, AtRest, Promised, FileIs, Settled,
     Control, ApplyNetwork, CommittedButDegraded, Starting, Guarding
<1> QED  BY <1>7, <1>8, <1>9, <1>10, <1>11, <1>12, <1>13 DEF IInv

\* save renames the new file into place.
LEMMA SaveConfigInv == ASSUME IInv, SaveConfig PROVE IInv'
<1> USE DEF SaveConfig
<1>1. TypeOK /\ Control /\ Stored /\ Phases /\ change \in Changes /\ degraded \in BOOLEAN
  BY DEF IInv, LocalTypes, AgentTypes
<1>6. next \in Config /\ next.excl \in SUBSET Macs /\ next.routing \in Routings /\ next.vpn \in BOOLEAN
  BY <1>1 DEF TypeOK, AgentTypes, LocalTypes, StoreTypes, Control, Config
<1>7. TypeOK'
  BY <1>1, <1>6 DEF ControlTypes, Control, AgentTypes, LocalTypes, StoreTypes, KernelTypes
<1>8. Control'  BY <1>1, <1>6 DEF Control, ControlTypes
<1>9. Stored'  BY <1>1, <1>6 DEF Stored, Control
<1>10. Guarding' /\ UnguardedMeansEnforced'
  BY <1>1, <1>6 DEF Guarding, UnguardedMeansEnforced, Enforces, Stored
<1>11. AtRest'
  BY <1>1, <1>6 DEF AtRest, Settled, FileIs, Stored, RollingBack, CommittedButDegraded,
     Starting
<1>12. Updating'
  BY <1>1, <1>6 DEF Updating, Promised, FileIs, Settled, AtRest, ApplyNetwork, Control
<1>13. Finishing' /\ RollingBack' /\ CommittedButDegraded' /\ Starting'
  BY <1>1, <1>6 DEF Finishing, Updating, RollingBack, AtRest, Promised, FileIs, Settled,
     Control, ApplyNetwork, CommittedButDegraded, Starting, Guarding
<1> QED  BY <1>7, <1>8, <1>9, <1>10, <1>11, <1>12, <1>13 DEF IInv

\* The directory sync ends the save; the new configuration is adopted either way.
LEMMA SyncDirectoryInv == ASSUME IInv, SyncDirectory PROVE IInv'
<1> USE DEF SyncDirectory
<1>1. TypeOK /\ Control /\ Stored /\ Phases /\ change \in Changes /\ degraded \in BOOLEAN
  BY DEF IInv, LocalTypes, AgentTypes
<1>6. next \in Config /\ next.excl \in SUBSET Macs /\ next.routing \in Routings /\ next.vpn \in BOOLEAN
  BY <1>1 DEF TypeOK, AgentTypes, LocalTypes, StoreTypes, Control, Config
<1>7. mem \in Config /\ mem.excl \in SUBSET Macs /\ mem.routing \in Routings /\ mem.vpn \in BOOLEAN
  BY <1>1 DEF TypeOK, AgentTypes, LocalTypes, StoreTypes, Control, Config
<1>8. ControlTypes' /\ AgentTypes' /\ LocalTypes'
  BY <1>1, <1>6, <1>7, NoRoutingIsFresh DEF ControlTypes, Control, AgentTypes, LocalTypes,
     StoreTypes
<1>9. StoreTypes' /\ KernelTypes'
  BY <1>1, <1>6, <1>7, NoRoutingIsFresh DEF StoreTypes, Control, AgentTypes, LocalTypes,
     KernelTypes
<1>10. Control'  BY <1>1, <1>6, <1>7, NoRoutingIsFresh DEF Control, ControlTypes
<1>11. Stored'  BY <1>1, <1>6, <1>7, NoRoutingIsFresh DEF Stored, Control
<1>12. Guarding' /\ UnguardedMeansEnforced'
  BY <1>1, <1>6, <1>7, NoRoutingIsFresh DEF Guarding, UnguardedMeansEnforced, Enforces, Stored
<1>13. AtRest'
  BY <1>1, <1>6, <1>7, NoRoutingIsFresh DEF AtRest, Settled, FileIs, Stored, RollingBack,
     CommittedButDegraded, Starting
<1>14. Updating'
  BY <1>1, <1>6, <1>7, NoRoutingIsFresh DEF Updating, Promised, FileIs, Settled, AtRest,
     ApplyNetwork, Control
<1>15. Finishing' /\ RollingBack' /\ CommittedButDegraded' /\ Starting'
  BY <1>1, <1>6, <1>7, NoRoutingIsFresh DEF Finishing, Updating, RollingBack, AtRest, Promised,
     FileIs, Settled, Control, ApplyNetwork, CommittedButDegraded, Starting, Guarding
<1> QED  BY <1>8, <1>9, <1>10, <1>11, <1>12, <1>13, <1>14, <1>15 DEF IInv

\* publish_exclusions after the save, guard and routing set in one transaction.
LEMMA PublishExclusionsInv == ASSUME IInv, PublishExclusions PROVE IInv'
<1> USE DEF PublishExclusions
<1>1. TypeOK /\ Control /\ Stored /\ Phases /\ change \in Changes /\ degraded \in BOOLEAN
  BY DEF IInv, LocalTypes, AgentTypes
<1>6. mem \in Config /\ mem.excl \in SUBSET Macs /\ mem.routing \in Routings /\ mem.vpn \in BOOLEAN
  BY <1>1 DEF TypeOK, AgentTypes, LocalTypes, StoreTypes, Control, Config
<1>7. PublishSet(mem.excl) \/ UNCHANGED <<table, stale>>  OBVIOUS
<1>8. ControlTypes' /\ AgentTypes' /\ LocalTypes'
  BY <1>1, <1>6, <1>7, PublishSetFacts, NoGuardIsFresh DEF ControlTypes, Control, AgentTypes,
     LocalTypes, StoreTypes
<1>9. StoreTypes' /\ KernelTypes'
  BY <1>1, <1>6, <1>7, PublishSetFacts, NoGuardIsFresh DEF StoreTypes, Control, AgentTypes,
     LocalTypes, KernelTypes
<1>10. Control'  BY <1>1, <1>6, <1>7, PublishSetFacts, NoGuardIsFresh DEF Control, ControlTypes
<1>11. Stored'  BY <1>1, <1>6, <1>7, PublishSetFacts, NoGuardIsFresh DEF Stored, Control
<1>12. Guarding' /\ UnguardedMeansEnforced'
  BY <1>1, <1>6, <1>7, PublishSetFacts, NoGuardIsFresh DEF Guarding, UnguardedMeansEnforced,
     Enforces, Stored
<1>13. AtRest'
  BY <1>1, <1>6, <1>7, PublishSetFacts, NoGuardIsFresh DEF AtRest, Settled, FileIs, Stored,
     RollingBack, CommittedButDegraded, Starting
<1>14. Updating'
  BY <1>1, <1>6, <1>7, PublishSetFacts, NoGuardIsFresh DEF Updating, Promised, FileIs, Settled,
     AtRest, ApplyNetwork, Control
<1>15. Finishing' /\ RollingBack' /\ CommittedButDegraded' /\ Starting'
  BY <1>1, <1>6, <1>7, PublishSetFacts, NoGuardIsFresh DEF Finishing, Updating, RollingBack,
     AtRest, Promised, FileIs, Settled, Control, ApplyNetwork, CommittedButDegraded, Starting,
     Guarding
<1> QED  BY <1>8, <1>9, <1>10, <1>11, <1>12, <1>13, <1>14, <1>15 DEF IInv

\* cleanup_dns_flows before the guard is taken down.
LEMMA CleanupDnsFlowsInv == ASSUME IInv, CleanupDnsFlows PROVE IInv'
<1> USE DEF CleanupDnsFlows
<1>1. TypeOK /\ Control /\ Stored /\ Phases /\ change \in Changes /\ degraded \in BOOLEAN
  BY DEF IInv, LocalTypes, AgentTypes
<1>2. ControlTypes' /\ AgentTypes' /\ LocalTypes'
  BY <1>1 DEF ControlTypes, Control, AgentTypes, LocalTypes, StoreTypes
<1>3. StoreTypes' /\ KernelTypes'
  BY <1>1 DEF StoreTypes, Control, AgentTypes, LocalTypes, KernelTypes
<1>4. Control'  BY <1>1 DEF Control, ControlTypes
<1>5. Stored'  BY <1>1 DEF Stored, Control
<1>6. Guarding' /\ UnguardedMeansEnforced'
  BY <1>1 DEF Guarding, UnguardedMeansEnforced, Enforces, Stored
<1>7. AtRest'
  BY <1>1 DEF AtRest, Settled, FileIs, Stored, RollingBack, CommittedButDegraded, Starting
<1>8. Updating'  BY <1>1 DEF Updating, Promised, FileIs, Settled, AtRest, ApplyNetwork, Control
<1>9. Finishing' /\ RollingBack' /\ CommittedButDegraded' /\ Starting'
  BY <1>1 DEF Finishing, Updating, RollingBack, AtRest, Promised, FileIs, Settled, Control,
     ApplyNetwork, CommittedButDegraded, Starting, Guarding
<1> QED  BY <1>2, <1>3, <1>4, <1>5, <1>6, <1>7, <1>8, <1>9 DEF IInv

\* clear_guard ends a successful update: here UnguardedMeansEnforced is earned.
LEMMA ClearGuardInv == ASSUME IInv, ClearGuard PROVE IInv'
<1> USE DEF ClearGuard
<1>1. TypeOK /\ Control /\ Stored /\ Phases /\ change \in Changes /\ degraded \in BOOLEAN
  BY DEF IInv, LocalTypes, AgentTypes
<1>6. mem \in Config /\ mem.excl \in SUBSET Macs /\ mem.routing \in Routings /\ mem.vpn \in BOOLEAN
  BY <1>1 DEF TypeOK, AgentTypes, LocalTypes, StoreTypes, Control, Config
<1>7. ControlTypes' /\ AgentTypes' /\ LocalTypes'
  BY <1>1, <1>6, SameIntentReflexive DEF ControlTypes, Control, AgentTypes, LocalTypes,
     StoreTypes
<1>8. StoreTypes' /\ KernelTypes'
  BY <1>1, <1>6, SameIntentReflexive DEF StoreTypes, Control, AgentTypes, LocalTypes,
     KernelTypes
<1>9. Control'  BY <1>1, <1>6, SameIntentReflexive DEF Control, ControlTypes
<1>10. Stored'  BY <1>1, <1>6, SameIntentReflexive DEF Stored, Control
<1>11. Guarding' /\ UnguardedMeansEnforced'
  BY <1>1, <1>6, SameIntentReflexive DEF Guarding, UnguardedMeansEnforced, Enforces, Finishing
<1>12. AtRest'  BY <1>1, <1>6, SameIntentReflexive DEF AtRest, Settled, FileIs, Finishing
<1>13. Updating'
  BY <1>1, <1>6, SameIntentReflexive DEF Updating, Promised, FileIs, Settled, AtRest,
     ApplyNetwork, Control
<1>14. Finishing' /\ RollingBack' /\ CommittedButDegraded' /\ Starting'
  BY <1>1, <1>6, SameIntentReflexive DEF Finishing, Updating, RollingBack, AtRest, Promised,
     FileIs, Settled, Control, ApplyNetwork, CommittedButDegraded, Starting, Guarding
<1> QED  BY <1>7, <1>8, <1>9, <1>10, <1>11, <1>12, <1>13, <1>14 DEF IInv

-----------------------------------------------------------------------------
(* The rollback.                                                           *)

\* The rollback applies the old network again.
LEMMA RollbackNetworkInv == ASSUME IInv, RollbackNetwork PROVE IInv'
<1> USE DEF RollbackNetwork
<1>1. TypeOK /\ Control /\ Stored /\ Phases /\ change \in Changes /\ degraded \in BOOLEAN
  BY DEF IInv, LocalTypes, AgentTypes
<1>6. mem \in Config /\ mem.excl \in SUBSET Macs /\ mem.routing \in Routings /\ mem.vpn \in BOOLEAN
  BY <1>1 DEF TypeOK, AgentTypes, LocalTypes, StoreTypes, Control, Config
<1>7. NetOf(mem) \in Nets /\ net' \in {net, Torn, NetOf(mem)} /\ Torn \in Nets
  BY <1>1, <1>6, NetOfType DEF ApplyNetwork, TearNetwork, Control, Stored, Nets
<1>8. ControlTypes' /\ AgentTypes' /\ LocalTypes'
  BY <1>1 DEF ControlTypes, Control, AgentTypes, LocalTypes, StoreTypes
<1>9. StoreTypes' /\ KernelTypes'
  BY <1>1, <1>7 DEF StoreTypes, Control, AgentTypes, LocalTypes, KernelTypes
<1>10. Control'  BY <1>1 DEF Control, ControlTypes
<1>11. Stored'  BY <1>1 DEF Stored, Control
<1>12. Guarding' /\ UnguardedMeansEnforced'
  BY <1>1 DEF Guarding, UnguardedMeansEnforced, Enforces, Stored
<1>13. AtRest'
  BY <1>1 DEF AtRest, Settled, FileIs, Stored, RollingBack, CommittedButDegraded, Starting
<1>14. Updating'  BY <1>1 DEF Updating, Promised, FileIs, Settled, AtRest, ApplyNetwork, Control
<1>15. Finishing' /\ RollingBack' /\ CommittedButDegraded' /\ Starting'
  BY <1>1 DEF Finishing, Updating, RollingBack, AtRest, Promised, FileIs, Settled, Control,
     ApplyNetwork, CommittedButDegraded, Starting, Guarding
<1> QED  BY <1>8, <1>9, <1>10, <1>11, <1>12, <1>13, <1>14, <1>15 DEF IInv

\* Snapshot::restore ends the network part of the rollback.
LEMMA RestoreSnapshotInv == ASSUME IInv, RestoreSnapshot PROVE IInv'
<1> USE DEF RestoreSnapshot
<1>1. TypeOK /\ Control /\ Stored /\ Phases /\ change \in Changes /\ degraded \in BOOLEAN
  BY DEF IInv, LocalTypes, AgentTypes
<1>2. ControlTypes' /\ AgentTypes' /\ LocalTypes'
  BY <1>1 DEF ControlTypes, Control, AgentTypes, LocalTypes, StoreTypes
<1>3. StoreTypes' /\ KernelTypes'
  BY <1>1 DEF StoreTypes, Control, AgentTypes, LocalTypes, KernelTypes, Nets
<1>4. Control'  BY <1>1 DEF Control, ControlTypes
<1>5. Stored'  BY <1>1 DEF Stored, Control
<1>6. Guarding' /\ UnguardedMeansEnforced'
  BY <1>1 DEF Guarding, UnguardedMeansEnforced, Enforces, Stored
<1>7. AtRest'
  BY <1>1 DEF AtRest, Settled, FileIs, Stored, RollingBack, CommittedButDegraded, Starting
<1>8. Updating'  BY <1>1 DEF Updating, Promised, FileIs, Settled, AtRest, ApplyNetwork, Control
<1>9. Finishing' /\ RollingBack' /\ CommittedButDegraded' /\ Starting'
  BY <1>1 DEF Finishing, Updating, RollingBack, AtRest, Promised, FileIs, Settled, Control,
     ApplyNetwork, CommittedButDegraded, Starting, Guarding
<1> QED  BY <1>2, <1>3, <1>4, <1>5, <1>6, <1>7, <1>8, <1>9 DEF IInv

\* The rollback renders the old policy again.
LEMMA RollbackPolicyInv == ASSUME IInv, RollbackPolicy PROVE IInv'
<1> USE DEF RollbackPolicy
<1>1. TypeOK /\ Control /\ Stored /\ Phases /\ change \in Changes /\ degraded \in BOOLEAN
  BY DEF IInv, LocalTypes, AgentTypes
<1>6. mem \in Config /\ mem.excl \in SUBSET Macs /\ mem.routing \in Routings /\ mem.vpn \in BOOLEAN
  BY <1>1 DEF TypeOK, AgentTypes, LocalTypes, StoreTypes, Control, Config
<1>7. active = mem.routing  BY <1>1 DEF Phases, RollingBack, WorkersAre
<1>8. ASSUME ApplyTable(mem, active, mem.excl)
      PROVE  table' \in Table /\ stale' \in SUBSET Macs /\ Applied(mem, mem.excl)'
  BY <1>1, <1>6, <1>7, <1>8, ApplyTableFacts DEF Applied
<1>9. ControlTypes' /\ AgentTypes' /\ LocalTypes'
  BY <1>1, <1>6, <1>7, <1>8 DEF ControlTypes, Control, AgentTypes, LocalTypes, StoreTypes
<1>10. StoreTypes' /\ KernelTypes'
  BY <1>1, <1>6, <1>7, <1>8 DEF StoreTypes, Control, AgentTypes, LocalTypes, KernelTypes
<1>11. Control'  BY <1>1, <1>6, <1>7, <1>8 DEF Control, ControlTypes
<1>12. Stored'  BY <1>1, <1>6, <1>7, <1>8 DEF Stored, Control
<1>13. Guarding' /\ UnguardedMeansEnforced'
  BY <1>1, <1>6, <1>7, <1>8 DEF Guarding, UnguardedMeansEnforced, Enforces, Stored
<1>14. AtRest'
  BY <1>1, <1>6, <1>7, <1>8 DEF AtRest, Settled, FileIs, Stored, RollingBack,
     CommittedButDegraded, Starting
<1>15. Updating'
  BY <1>1, <1>6, <1>7, <1>8 DEF Updating, Promised, FileIs, Settled, AtRest, ApplyNetwork,
     Control
<1>16. Finishing' /\ RollingBack' /\ CommittedButDegraded' /\ Starting'
  BY <1>1, <1>6, <1>7, <1>8 DEF Finishing, Updating, RollingBack, AtRest, Promised, FileIs,
     Settled, Control, ApplyNetwork, CommittedButDegraded, Starting, Guarding
<1> QED  BY <1>9, <1>10, <1>11, <1>12, <1>13, <1>14, <1>15, <1>16 DEF IInv

\* The rollback sets the lease targets back.
LEMMA RollbackTargetsInv == ASSUME IInv, RollbackTargets PROVE IInv'
<1> USE DEF RollbackTargets
<1>1. TypeOK /\ Control /\ Stored /\ Phases /\ change \in Changes /\ degraded \in BOOLEAN
  BY DEF IInv, LocalTypes, AgentTypes
<1>6. mem \in Config /\ mem.excl \in SUBSET Macs /\ mem.routing \in Routings /\ mem.vpn \in BOOLEAN
  BY <1>1 DEF TypeOK, AgentTypes, LocalTypes, StoreTypes, Control, Config
<1>7. active = mem.routing  BY <1>1 DEF Phases, RollingBack, WorkersAre
<1>8. ControlTypes' /\ AgentTypes' /\ LocalTypes'
  BY <1>1, <1>6, <1>7 DEF ControlTypes, Control, AgentTypes, LocalTypes, StoreTypes
<1>9. StoreTypes' /\ KernelTypes'
  BY <1>1, <1>6, <1>7 DEF StoreTypes, Control, AgentTypes, LocalTypes, KernelTypes
<1>10. Control'  BY <1>1, <1>6, <1>7 DEF Control, ControlTypes
<1>11. Stored'  BY <1>1, <1>6, <1>7 DEF Stored, Control
<1>12. Guarding' /\ UnguardedMeansEnforced'
  BY <1>1, <1>6, <1>7 DEF Guarding, UnguardedMeansEnforced, Enforces, Stored
<1>13. AtRest'
  BY <1>1, <1>6, <1>7 DEF AtRest, Settled, FileIs, Stored, RollingBack, CommittedButDegraded,
     Starting
<1>14. Updating'
  BY <1>1, <1>6, <1>7 DEF Updating, Promised, FileIs, Settled, AtRest, ApplyNetwork, Control
<1>15. Finishing' /\ RollingBack' /\ CommittedButDegraded' /\ Starting'
  BY <1>1, <1>6, <1>7 DEF Finishing, Updating, RollingBack, AtRest, Promised, FileIs, Settled,
     Control, ApplyNetwork, CommittedButDegraded, Starting, Guarding
<1> QED  BY <1>8, <1>9, <1>10, <1>11, <1>12, <1>13, <1>14, <1>15 DEF IInv

\* A complete rollback takes the guard down: the old configuration is enforced.
LEMMA RollbackClearInv == ASSUME IInv, RollbackClear PROVE IInv'
<1> USE DEF RollbackClear
<1>1. TypeOK /\ Control /\ Stored /\ Phases /\ change \in Changes /\ degraded \in BOOLEAN
  BY DEF IInv, LocalTypes, AgentTypes
<1>6. mem \in Config /\ mem.excl \in SUBSET Macs /\ mem.routing \in Routings /\ mem.vpn \in BOOLEAN
  BY <1>1 DEF TypeOK, AgentTypes, LocalTypes, StoreTypes, Control, Config
<1>7. \A c \in stable \cup {disk} : c \in Config /\ SameIntent(c, mem)
  BY <1>1 DEF TypeOK, StoreTypes, Stored, Phases, RollingBack, FileIs
<1>8. TypeOK'
  BY <1>1 DEF ControlTypes, Control, AgentTypes, LocalTypes, StoreTypes, KernelTypes
<1>9. Control'  BY <1>1 DEF Control, ControlTypes
<1>10. Stored'  BY <1>1 DEF Stored, Control
<1>11. Guarding' /\ UnguardedMeansEnforced'
  BY <1>1, <1>6, <1>7, SameIntentFacts DEF Guarding, UnguardedMeansEnforced, Enforces,
     RollingBack
<1>12. AtRest'  BY <1>1, <1>6, <1>7 DEF AtRest, Settled, FileIs, RollingBack
<1>13. Updating'  BY <1>1 DEF Updating, Promised, FileIs, Settled, AtRest, ApplyNetwork, Control
<1>14. Finishing' /\ RollingBack' /\ CommittedButDegraded' /\ Starting'
  BY <1>1 DEF Finishing, Updating, RollingBack, AtRest, Promised, FileIs, Settled, Control,
     ApplyNetwork, CommittedButDegraded, Starting, Guarding
<1> QED  BY <1>8, <1>9, <1>10, <1>11, <1>12, <1>13, <1>14 DEF IInv

-----------------------------------------------------------------------------
(* committed_failure.                                                      *)

\* committed_failure repeats the directory sync.
LEMMA CommittedSyncInv == ASSUME IInv, CommittedSync PROVE IInv'
<1> USE DEF CommittedSync
<1>1. TypeOK /\ Control /\ Stored /\ Phases /\ change \in Changes /\ degraded \in BOOLEAN
  BY DEF IInv, LocalTypes, AgentTypes
<1>6. mem \in Config /\ mem.excl \in SUBSET Macs /\ mem.routing \in Routings /\ mem.vpn \in BOOLEAN
  BY <1>1 DEF TypeOK, AgentTypes, LocalTypes, StoreTypes, Control, Config
<1>7. TypeOK'
  BY <1>1, <1>6, SameIntentReflexive, NoGuardIsFresh DEF ControlTypes, Control, AgentTypes,
     LocalTypes, StoreTypes, KernelTypes
<1>8. Control'  BY <1>1, <1>6, SameIntentReflexive, NoGuardIsFresh DEF Control, ControlTypes
<1>9. Stored'  BY <1>1, <1>6, SameIntentReflexive, NoGuardIsFresh DEF Stored, Control
<1>10. Guarding' /\ UnguardedMeansEnforced'
  BY <1>1, <1>6, SameIntentReflexive, NoGuardIsFresh DEF Guarding, UnguardedMeansEnforced,
     Enforces
<1>11. AtRest'
  BY <1>1, <1>6, SameIntentReflexive, NoGuardIsFresh DEF AtRest, Settled, FileIs, Stored,
     RollingBack, CommittedButDegraded, Starting
<1>12. Updating'
  BY <1>1, <1>6, SameIntentReflexive, NoGuardIsFresh DEF Updating, Promised, FileIs, Settled,
     AtRest, ApplyNetwork, Control
<1>13. Finishing' /\ RollingBack' /\ CommittedButDegraded' /\ Starting'
  BY <1>1, <1>6, SameIntentReflexive, NoGuardIsFresh DEF Finishing, Updating, RollingBack,
     AtRest, Promised, FileIs, Settled, Control, ApplyNetwork, CommittedButDegraded, Starting,
     Guarding
<1> QED  BY <1>7, <1>8, <1>9, <1>10, <1>11, <1>12, <1>13 DEF IInv

\* committed_failure publishes the exclusions with the guard.
LEMMA CommittedPublishInv == ASSUME IInv, CommittedPublish PROVE IInv'
<1> USE DEF CommittedPublish
<1>1. TypeOK /\ Control /\ Stored /\ Phases /\ change \in Changes /\ degraded \in BOOLEAN
  BY DEF IInv, LocalTypes, AgentTypes
<1>6. mem \in Config /\ mem.excl \in SUBSET Macs /\ mem.routing \in Routings /\ mem.vpn \in BOOLEAN
  BY <1>1 DEF TypeOK, AgentTypes, LocalTypes, StoreTypes, Control, Config
<1>7. PublishSet(mem.excl) \/ UNCHANGED <<table, stale>>  OBVIOUS
<1>8. TypeOK'
  BY <1>1, <1>6, <1>7, PublishSetFacts, NoGuardIsFresh, SameIntentReflexive DEF ControlTypes,
     Control, AgentTypes, LocalTypes, StoreTypes, KernelTypes
<1>9. Control'
  BY <1>1, <1>6, <1>7, PublishSetFacts, NoGuardIsFresh, SameIntentReflexive DEF Control,
     ControlTypes
<1>10. Stored'
  BY <1>1, <1>6, <1>7, PublishSetFacts, NoGuardIsFresh, SameIntentReflexive DEF Stored, Control
<1>11. Guarding' /\ UnguardedMeansEnforced'
  BY <1>1, <1>6, <1>7, PublishSetFacts, NoGuardIsFresh, SameIntentReflexive DEF Guarding,
     UnguardedMeansEnforced, Enforces, Stored
<1>12. AtRest'
  BY <1>1, <1>6, <1>7, PublishSetFacts, NoGuardIsFresh, SameIntentReflexive DEF AtRest,
     Settled, FileIs, Stored, RollingBack, CommittedButDegraded, Starting
<1>13. Updating'
  BY <1>1, <1>6, <1>7, PublishSetFacts, NoGuardIsFresh, SameIntentReflexive DEF Updating,
     Promised, FileIs, Settled, AtRest, ApplyNetwork, Control
<1>14. Finishing' /\ RollingBack' /\ CommittedButDegraded' /\ Starting'
  BY <1>1, <1>6, <1>7, PublishSetFacts, NoGuardIsFresh, SameIntentReflexive DEF Finishing,
     Updating, RollingBack, AtRest, Promised, FileIs, Settled, Control, ApplyNetwork,
     CommittedButDegraded, Starting, Guarding
<1> QED  BY <1>8, <1>9, <1>10, <1>11, <1>12, <1>13, <1>14 DEF IInv

\* committed_failure cleans the flows and answers; the agent stays degraded.
LEMMA CommittedFlowsInv == ASSUME IInv, CommittedFlows PROVE IInv'
<1> USE DEF CommittedFlows
<1>1. TypeOK /\ Control /\ Stored /\ Phases /\ change \in Changes /\ degraded \in BOOLEAN
  BY DEF IInv, LocalTypes, AgentTypes
<1>6. mem \in Config /\ mem.excl \in SUBSET Macs /\ mem.routing \in Routings /\ mem.vpn \in BOOLEAN
  BY <1>1 DEF TypeOK, AgentTypes, LocalTypes, StoreTypes, Control, Config
<1>7. TypeOK'
  BY <1>1, <1>6, SameIntentReflexive, NoGuardIsFresh DEF ControlTypes, Control, AgentTypes,
     LocalTypes, StoreTypes, KernelTypes
<1>8. Control'  BY <1>1, <1>6, SameIntentReflexive, NoGuardIsFresh DEF Control, ControlTypes
<1>9. Stored'  BY <1>1, <1>6, SameIntentReflexive, NoGuardIsFresh DEF Stored, Control
<1>10. Guarding' /\ UnguardedMeansEnforced'
  BY <1>1, <1>6, SameIntentReflexive, NoGuardIsFresh DEF Guarding, UnguardedMeansEnforced,
     Enforces, Stored
<1>11. AtRest'
  BY <1>1, <1>6, SameIntentReflexive, NoGuardIsFresh DEF AtRest, Settled, FileIs, Stored,
     RollingBack, CommittedButDegraded, Starting
<1>12. Updating'
  BY <1>1, <1>6, SameIntentReflexive, NoGuardIsFresh DEF Updating, Promised, FileIs, Settled,
     AtRest, ApplyNetwork, Control
<1>13. Finishing' /\ RollingBack' /\ CommittedButDegraded' /\ Starting'
  BY <1>1, <1>6, SameIntentReflexive, NoGuardIsFresh DEF Finishing, Updating, RollingBack,
     AtRest, Promised, FileIs, Settled, Control, ApplyNetwork, CommittedButDegraded, Starting,
     Guarding
<1> QED  BY <1>7, <1>8, <1>9, <1>10, <1>11, <1>12, <1>13 DEF IInv

\* committed_failure revokes the exemptions and answers.
LEMMA CommittedGuardInv == ASSUME IInv, CommittedGuard PROVE IInv'
<1> USE DEF CommittedGuard
<1>1. TypeOK /\ Control /\ Stored /\ Phases /\ change \in Changes /\ degraded \in BOOLEAN
  BY DEF IInv, LocalTypes, AgentTypes
<1>6. mem \in Config /\ mem.excl \in SUBSET Macs /\ mem.routing \in Routings /\ mem.vpn \in BOOLEAN
  BY <1>1 DEF TypeOK, AgentTypes, LocalTypes, StoreTypes, Control, Config
<1>7. TypeOK'
  BY <1>1, <1>6, SameIntentReflexive, NoGuardIsFresh DEF ControlTypes, Control, AgentTypes,
     LocalTypes, StoreTypes, KernelTypes
<1>8. Control'  BY <1>1, <1>6, SameIntentReflexive, NoGuardIsFresh DEF Control, ControlTypes
<1>9. Stored'  BY <1>1, <1>6, SameIntentReflexive, NoGuardIsFresh DEF Stored, Control
<1>10. Guarding' /\ UnguardedMeansEnforced'
  BY <1>1, <1>6, SameIntentReflexive, NoGuardIsFresh DEF Guarding, UnguardedMeansEnforced,
     Enforces, Stored
<1>11. AtRest'
  BY <1>1, <1>6, SameIntentReflexive, NoGuardIsFresh DEF AtRest, Settled, FileIs, Stored,
     RollingBack, CommittedButDegraded, Starting
<1>12. Updating'
  BY <1>1, <1>6, SameIntentReflexive, NoGuardIsFresh DEF Updating, Promised, FileIs, Settled,
     AtRest, ApplyNetwork, Control
<1>13. Finishing' /\ RollingBack' /\ CommittedButDegraded' /\ Starting'
  BY <1>1, <1>6, SameIntentReflexive, NoGuardIsFresh DEF Finishing, Updating, RollingBack,
     AtRest, Promised, FileIs, Settled, Control, ApplyNetwork, CommittedButDegraded, Starting,
     Guarding
<1> QED  BY <1>7, <1>8, <1>9, <1>10, <1>11, <1>12, <1>13 DEF IInv

-----------------------------------------------------------------------------
(* Edits that only touch the file.                                         *)

\* An edit that only concerns the file is renamed into place.
LEMMA SavePlainInv == ASSUME IInv, SavePlain PROVE IInv'
<1> USE DEF SavePlain
<1>1. TypeOK /\ Control /\ Stored /\ Phases /\ change \in Changes /\ degraded \in BOOLEAN
  BY DEF IInv, LocalTypes, AgentTypes
<1>6. next \in Config /\ next.excl \in SUBSET Macs /\ next.routing \in Routings /\ next.vpn \in BOOLEAN
  BY <1>1 DEF TypeOK, AgentTypes, LocalTypes, StoreTypes, Control, Config
<1>7. ControlTypes' /\ AgentTypes' /\ LocalTypes'
  BY <1>1, <1>6 DEF ControlTypes, Control, AgentTypes, LocalTypes, StoreTypes
<1>8. StoreTypes' /\ KernelTypes'
  BY <1>1, <1>6 DEF StoreTypes, Control, AgentTypes, LocalTypes, KernelTypes
<1>9. Control'  BY <1>1, <1>6 DEF Control, ControlTypes
<1>10. Stored'  BY <1>1, <1>6 DEF Stored, Control
<1>11. Guarding' /\ UnguardedMeansEnforced'
  BY <1>1, <1>6 DEF Guarding, UnguardedMeansEnforced, Enforces, AtRest, Settled, Updating,
     Promised
<1>12. AtRest'
  BY <1>1, <1>6 DEF AtRest, Settled, FileIs, Stored, RollingBack, CommittedButDegraded,
     Starting
<1>13. Updating'
  BY <1>1, <1>6 DEF Updating, Promised, FileIs, Settled, AtRest, ApplyNetwork, Control
<1>14. Finishing' /\ RollingBack' /\ CommittedButDegraded' /\ Starting'
  BY <1>1, <1>6 DEF Finishing, Updating, RollingBack, AtRest, Promised, FileIs, Settled,
     Control, ApplyNetwork, CommittedButDegraded, Starting, Guarding
<1> QED  BY <1>7, <1>8, <1>9, <1>10, <1>11, <1>12, <1>13, <1>14 DEF IInv

\* The directory sync of such an edit.
LEMMA SyncPlainInv == ASSUME IInv, SyncPlain PROVE IInv'
<1> USE DEF SyncPlain
<1>1. TypeOK /\ Control /\ Stored /\ Phases /\ change \in Changes /\ degraded \in BOOLEAN
  BY DEF IInv, LocalTypes, AgentTypes
<1>6. next \in Config /\ next.excl \in SUBSET Macs /\ next.routing \in Routings /\ next.vpn \in BOOLEAN
  BY <1>1 DEF TypeOK, AgentTypes, LocalTypes, StoreTypes, Control, Config
<1>7. mem \in Config /\ mem.excl \in SUBSET Macs /\ mem.routing \in Routings /\ mem.vpn \in BOOLEAN
  BY <1>1 DEF TypeOK, AgentTypes, LocalTypes, StoreTypes, Control, Config
<1>8. ControlTypes' /\ AgentTypes' /\ LocalTypes'
  BY <1>1, <1>6, SameIntentReflexive DEF ControlTypes, Control, AgentTypes, LocalTypes,
     StoreTypes
<1>9. StoreTypes' /\ KernelTypes'
  BY <1>1, <1>6, SameIntentReflexive DEF StoreTypes, Control, AgentTypes, LocalTypes,
     KernelTypes
<1>10. Control'  BY <1>1, <1>6, SameIntentReflexive DEF Control, ControlTypes
<1>11. Stored'  BY <1>1, <1>6, SameIntentReflexive DEF Stored, Control
<1>12. Guarding' /\ UnguardedMeansEnforced'
  BY <1>1, <1>6, SameIntentReflexive DEF Guarding, UnguardedMeansEnforced, Enforces, Stored
<1>13. AtRest'
  BY <1>1, <1>6, <1>7, SameIntentReflexive DEF AtRest, Settled, FileIs, Updating, Promised
<1>14. Updating'
  BY <1>1, <1>6, SameIntentReflexive DEF Updating, Promised, FileIs, Settled, AtRest,
     ApplyNetwork, Control
<1>15. Finishing' /\ RollingBack' /\ CommittedButDegraded' /\ Starting'
  BY <1>1, <1>6, SameIntentReflexive DEF Finishing, Updating, RollingBack, AtRest, Promised,
     FileIs, Settled, Control, ApplyNetwork, CommittedButDegraded, Starting, Guarding
<1> QED  BY <1>8, <1>9, <1>10, <1>11, <1>12, <1>13, <1>14, <1>15 DEF IInv

\* set_auto_update begins, even while degraded.
LEMMA BeginAutoUpdateInv == ASSUME IInv, BeginAutoUpdate PROVE IInv'
<1> USE DEF BeginAutoUpdate
<1>1. TypeOK /\ Control /\ Stored /\ Phases /\ change \in Changes /\ degraded \in BOOLEAN
  BY DEF IInv, LocalTypes, AgentTypes
<1>6. mem \in Config /\ WellFormed(mem)
  BY <1>1 DEF TypeOK, AgentTypes, Control, Stored
<1>7. next' \in Config /\ SameIntent(next', mem) /\ WellFormed(next') /\ next' # NoConfig
  BY <1>6, AutoKeepsIntent, NoConfigIsFresh
<1>8. TypeOK'
  BY <1>1, <1>6, <1>7 DEF ControlTypes, Control, AgentTypes, LocalTypes, StoreTypes,
     KernelTypes
<1>9. Control'  BY <1>1, <1>6, <1>7 DEF Control, ControlTypes
<1>10. Stored'  BY <1>1, <1>6, <1>7 DEF Stored, Control
<1>11. Guarding' /\ UnguardedMeansEnforced'
  BY <1>1, <1>6, <1>7 DEF Guarding, UnguardedMeansEnforced, Enforces, Stored
<1>12. AtRest'
  BY <1>1, <1>6, <1>7 DEF AtRest, Settled, FileIs, Stored, RollingBack, CommittedButDegraded,
     Starting
<1>13. Updating'
  BY <1>1, <1>6, <1>7 DEF Updating, Promised, FileIs, Settled, AtRest, ApplyNetwork, Control
<1>14. Finishing' /\ RollingBack' /\ CommittedButDegraded' /\ Starting'
  BY <1>1, <1>6, <1>7 DEF Finishing, Updating, RollingBack, AtRest, Promised, FileIs, Settled,
     Control, ApplyNetwork, CommittedButDegraded, Starting, Guarding
<1> QED  BY <1>8, <1>9, <1>10, <1>11, <1>12, <1>13, <1>14 DEF IInv

\* set_auto_update renames its file into place.
LEMMA SaveAutoUpdateInv == ASSUME IInv, SaveAutoUpdate PROVE IInv'
<1> USE DEF SaveAutoUpdate
<1>1. TypeOK /\ Control /\ Stored /\ Phases /\ change \in Changes /\ degraded \in BOOLEAN
  BY DEF IInv, LocalTypes, AgentTypes
<1>6. mem \in Config /\ next \in Config /\ disk \in Config
  BY <1>1 DEF TypeOK, AgentTypes, LocalTypes, StoreTypes, Control
<1>7. SameIntent(next, mem) /\ SameIntent(disk, mem)  BY <1>1 DEF Phases, AtRest
<1>8. ControlTypes' /\ AgentTypes' /\ LocalTypes'
  BY <1>1, <1>6, <1>7 DEF ControlTypes, Control, AgentTypes, LocalTypes, StoreTypes
<1>9. StoreTypes' /\ KernelTypes'
  BY <1>1, <1>6, <1>7 DEF StoreTypes, Control, AgentTypes, LocalTypes, KernelTypes
<1>10. Control'  BY <1>1, <1>6, <1>7 DEF Control, ControlTypes
<1>11. Stored'  BY <1>1, <1>6, <1>7 DEF Stored, Control
<1>12. Guarding' /\ UnguardedMeansEnforced'
  BY <1>1, <1>6, <1>7, SameIntentFacts DEF Guarding, UnguardedMeansEnforced, Enforces
<1>13. AtRest'
  BY <1>1, <1>6, <1>7 DEF AtRest, Settled, FileIs, Stored, RollingBack, CommittedButDegraded,
     Starting
<1>14. Updating'
  BY <1>1, <1>6, <1>7 DEF Updating, Promised, FileIs, Settled, AtRest, ApplyNetwork, Control
<1>15. Finishing' /\ RollingBack' /\ CommittedButDegraded' /\ Starting'
  BY <1>1, <1>6, <1>7 DEF Finishing, Updating, RollingBack, AtRest, Promised, FileIs, Settled,
     Control, ApplyNetwork, CommittedButDegraded, Starting, Guarding
<1> QED  BY <1>8, <1>9, <1>10, <1>11, <1>12, <1>13, <1>14, <1>15 DEF IInv

\* set_auto_update ends; a published save that failed to sync is not adopted.
LEMMA SyncAutoUpdateInv == ASSUME IInv, SyncAutoUpdate PROVE IInv'
<1> USE DEF SyncAutoUpdate
<1>1. TypeOK /\ Control /\ Stored /\ Phases /\ change \in Changes /\ degraded \in BOOLEAN
  BY DEF IInv, LocalTypes, AgentTypes
<1>6. mem \in Config /\ next \in Config /\ disk = next /\ SameIntent(next, mem)
  BY <1>1 DEF TypeOK, AgentTypes, LocalTypes, Control, Phases, AtRest
<1>7. TypeOK'
  BY <1>1, <1>6 DEF ControlTypes, Control, AgentTypes, LocalTypes, StoreTypes, KernelTypes
<1>8. Control'  BY <1>1, <1>6 DEF Control, ControlTypes
<1>9. Stored'  BY <1>1, <1>6 DEF Stored, Control
<1>10. Guarding' /\ UnguardedMeansEnforced'
  BY <1>1, <1>6 DEF Guarding, UnguardedMeansEnforced, Enforces
<1>11. AtRest'  BY <1>1, <1>6, SameIntentFacts, SameIntentReflexive DEF AtRest, Settled, FileIs
<1>12. Updating'
  BY <1>1, <1>6 DEF Updating, Promised, FileIs, Settled, AtRest, ApplyNetwork, Control
<1>13. Finishing' /\ RollingBack' /\ CommittedButDegraded' /\ Starting'
  BY <1>1, <1>6 DEF Finishing, Updating, RollingBack, AtRest, Promised, FileIs, Settled,
     Control, ApplyNetwork, CommittedButDegraded, Starting, Guarding
<1> QED  BY <1>7, <1>8, <1>9, <1>10, <1>11, <1>12, <1>13 DEF IInv

-----------------------------------------------------------------------------
(* Start-up.                                                               *)

\* main.rs run tries the apply lock once.
LEMMA StartLockInv == ASSUME IInv, StartLock PROVE IInv'
<1> USE DEF StartLock
<1>1. TypeOK /\ Control /\ Stored /\ Phases /\ change \in Changes /\ degraded \in BOOLEAN
  BY DEF IInv, LocalTypes, AgentTypes
<1>2. ControlTypes' /\ AgentTypes' /\ LocalTypes'
  BY <1>1 DEF ControlTypes, Control, AgentTypes, LocalTypes, StoreTypes
<1>3. StoreTypes' /\ KernelTypes'
  BY <1>1 DEF StoreTypes, Control, AgentTypes, LocalTypes, KernelTypes
<1>4. Control'  BY <1>1 DEF Control, ControlTypes
<1>5. Stored'  BY <1>1 DEF Stored, Control
<1>6. Guarding' /\ UnguardedMeansEnforced'
  BY <1>1 DEF Guarding, UnguardedMeansEnforced, Enforces, Stored
<1>7. AtRest'
  BY <1>1 DEF AtRest, Settled, FileIs, Stored, RollingBack, CommittedButDegraded, Starting
<1>8. Updating'  BY <1>1 DEF Updating, Promised, FileIs, Settled, AtRest, ApplyNetwork, Control
<1>9. Finishing' /\ RollingBack' /\ CommittedButDegraded' /\ Starting'
  BY <1>1 DEF Finishing, Updating, RollingBack, AtRest, Promised, FileIs, Settled, Control,
     ApplyNetwork, CommittedButDegraded, Starting, Guarding
<1> QED  BY <1>2, <1>3, <1>4, <1>5, <1>6, <1>7, <1>8, <1>9 DEF IInv

\* main.rs run loads the file or exits closed.
LEMMA StartLoadInv == ASSUME IInv, StartLoad PROVE IInv'
<1> USE DEF StartLoad
<1>1. TypeOK /\ Control /\ Stored /\ Phases /\ change \in Changes /\ degraded \in BOOLEAN
  BY DEF IInv, LocalTypes, AgentTypes
<1>6. disk \in Config /\ disk # NoConfig /\ disk.excl \in SUBSET Macs
  BY <1>1, NoConfigIsFresh DEF TypeOK, StoreTypes, Config
<1>7. ControlTypes' /\ AgentTypes' /\ LocalTypes'
  BY <1>1, <1>6, NoGuardIsFresh DEF ControlTypes, Control, AgentTypes, LocalTypes, StoreTypes
<1>8. StoreTypes' /\ KernelTypes'
  BY <1>1, <1>6, NoGuardIsFresh DEF StoreTypes, Control, AgentTypes, LocalTypes, KernelTypes
<1>9. Control'  BY <1>1, <1>6, NoGuardIsFresh DEF Control, ControlTypes
<1>10. Stored'  BY <1>1, <1>6, NoGuardIsFresh DEF Stored, Control
<1>11. Guarding' /\ UnguardedMeansEnforced'
  BY <1>1, <1>6, NoGuardIsFresh DEF Guarding, UnguardedMeansEnforced, Enforces, Stored
<1>12. AtRest'
  BY <1>1, <1>6, NoGuardIsFresh DEF AtRest, Settled, FileIs, Stored, RollingBack,
     CommittedButDegraded, Starting
<1>13. Updating'
  BY <1>1, <1>6, NoGuardIsFresh DEF Updating, Promised, FileIs, Settled, AtRest, ApplyNetwork,
     Control
<1>14. Finishing' /\ RollingBack' /\ CommittedButDegraded' /\ Starting'
  BY <1>1, <1>6, NoGuardIsFresh DEF Finishing, Updating, RollingBack, AtRest, Promised, FileIs,
     Settled, Control, ApplyNetwork, CommittedButDegraded, Starting, Guarding
<1> QED  BY <1>7, <1>8, <1>9, <1>10, <1>11, <1>12, <1>13, <1>14 DEF IInv

\* main.rs run syncs the file or exits closed.
LEMMA StartSyncInv == ASSUME IInv, StartSync PROVE IInv'
<1> USE DEF StartSync
<1>1. TypeOK /\ Control /\ Stored /\ Phases /\ change \in Changes /\ degraded \in BOOLEAN
  BY DEF IInv, LocalTypes, AgentTypes
<1>2. ControlTypes' /\ AgentTypes' /\ LocalTypes'
  BY <1>1, NoGuardIsFresh DEF ControlTypes, Control, AgentTypes, LocalTypes, StoreTypes
<1>3. StoreTypes' /\ KernelTypes'
  BY <1>1, NoGuardIsFresh DEF StoreTypes, Control, AgentTypes, LocalTypes, KernelTypes
<1>4. Control'  BY <1>1, NoGuardIsFresh DEF Control, ControlTypes
<1>5. Stored'  BY <1>1, NoGuardIsFresh DEF Stored, Control
<1>6. Guarding' /\ UnguardedMeansEnforced'
  BY <1>1, NoGuardIsFresh DEF Guarding, UnguardedMeansEnforced, Enforces, Stored
<1>7. AtRest'
  BY <1>1, NoGuardIsFresh DEF AtRest, Settled, FileIs, Stored, RollingBack,
     CommittedButDegraded, Starting
<1>8. Updating'
  BY <1>1, NoGuardIsFresh DEF Updating, Promised, FileIs, Settled, AtRest, ApplyNetwork,
     Control
<1>9. Finishing' /\ RollingBack' /\ CommittedButDegraded' /\ Starting'
  BY <1>1, NoGuardIsFresh DEF Finishing, Updating, RollingBack, AtRest, Promised, FileIs,
     Settled, Control, ApplyNetwork, CommittedButDegraded, Starting, Guarding
<1> QED  BY <1>2, <1>3, <1>4, <1>5, <1>6, <1>7, <1>8, <1>9 DEF IInv

\* synchronize_startup publishes the exclusions and the guard.
LEMMA StartPublishInv == ASSUME IInv, StartPublish PROVE IInv'
<1> USE DEF StartPublish
<1>1. TypeOK /\ Control /\ Stored /\ Phases /\ change \in Changes /\ degraded \in BOOLEAN
  BY DEF IInv, LocalTypes, AgentTypes
<1>6. mem \in Config /\ mem.excl \in SUBSET Macs /\ mem.routing \in Routings /\ mem.vpn \in BOOLEAN
  BY <1>1 DEF TypeOK, AgentTypes, LocalTypes, StoreTypes, Control, Config
<1>7. PublishSet(mem.excl) \/ UNCHANGED <<table, stale>>  OBVIOUS
<1>8. ControlTypes' /\ AgentTypes' /\ LocalTypes'
  BY <1>1, <1>6, <1>7, PublishSetFacts, NoGuardIsFresh DEF ControlTypes, Control, AgentTypes,
     LocalTypes, StoreTypes
<1>9. StoreTypes' /\ KernelTypes'
  BY <1>1, <1>6, <1>7, PublishSetFacts, NoGuardIsFresh DEF StoreTypes, Control, AgentTypes,
     LocalTypes, KernelTypes
<1>10. Control'  BY <1>1, <1>6, <1>7, PublishSetFacts, NoGuardIsFresh DEF Control, ControlTypes
<1>11. Stored'  BY <1>1, <1>6, <1>7, PublishSetFacts, NoGuardIsFresh DEF Stored, Control
<1>12. Guarding' /\ UnguardedMeansEnforced'
  BY <1>1, <1>6, <1>7, PublishSetFacts, NoGuardIsFresh DEF Guarding, UnguardedMeansEnforced,
     Enforces, Stored
<1>13. AtRest'
  BY <1>1, <1>6, <1>7, PublishSetFacts, NoGuardIsFresh DEF AtRest, Settled, FileIs, Stored,
     RollingBack, CommittedButDegraded, Starting
<1>14. Updating'
  BY <1>1, <1>6, <1>7, PublishSetFacts, NoGuardIsFresh DEF Updating, Promised, FileIs, Settled,
     AtRest, ApplyNetwork, Control
<1>15. Finishing' /\ RollingBack' /\ CommittedButDegraded' /\ Starting'
  BY <1>1, <1>6, <1>7, PublishSetFacts, NoGuardIsFresh DEF Finishing, Updating, RollingBack,
     AtRest, Promised, FileIs, Settled, Control, ApplyNetwork, CommittedButDegraded, Starting,
     Guarding
<1> QED  BY <1>8, <1>9, <1>10, <1>11, <1>12, <1>13, <1>14, <1>15 DEF IInv

\* main.rs run cleans the DNS flows or exits.
LEMMA StartFlowsInv == ASSUME IInv, StartFlows PROVE IInv'
<1> USE DEF StartFlows
<1>1. TypeOK /\ Control /\ Stored /\ Phases /\ change \in Changes /\ degraded \in BOOLEAN
  BY DEF IInv, LocalTypes, AgentTypes
<1>2. ControlTypes' /\ AgentTypes' /\ LocalTypes'
  BY <1>1 DEF ControlTypes, Control, AgentTypes, LocalTypes, StoreTypes
<1>3. StoreTypes' /\ KernelTypes'
  BY <1>1 DEF StoreTypes, Control, AgentTypes, LocalTypes, KernelTypes
<1>4. Control'  BY <1>1 DEF Control, ControlTypes
<1>5. Stored'  BY <1>1 DEF Stored, Control
<1>6. Guarding' /\ UnguardedMeansEnforced'
  BY <1>1 DEF Guarding, UnguardedMeansEnforced, Enforces, Stored
<1>7. AtRest'
  BY <1>1 DEF AtRest, Settled, FileIs, Stored, RollingBack, CommittedButDegraded, Starting
<1>8. Updating'  BY <1>1 DEF Updating, Promised, FileIs, Settled, AtRest, ApplyNetwork, Control
<1>9. Finishing' /\ RollingBack' /\ CommittedButDegraded' /\ Starting'
  BY <1>1 DEF Finishing, Updating, RollingBack, AtRest, Promised, FileIs, Settled, Control,
     ApplyNetwork, CommittedButDegraded, Starting, Guarding
<1> QED  BY <1>2, <1>3, <1>4, <1>5, <1>6, <1>7, <1>8, <1>9 DEF IInv

\* main.rs run opens its resources; the agent begins degraded.
LEMMA StartOpenInv == ASSUME IInv, StartOpen PROVE IInv'
<1> USE DEF StartOpen
<1>1. TypeOK /\ Control /\ Stored /\ Phases /\ change \in Changes /\ degraded \in BOOLEAN
  BY DEF IInv, LocalTypes, AgentTypes
<1>6. mem \in Config /\ mem.excl \in SUBSET Macs /\ mem.routing \in Routings /\ mem.vpn \in BOOLEAN
  BY <1>1 DEF TypeOK, AgentTypes, LocalTypes, StoreTypes, Control, Config
<1>7. ControlTypes' /\ AgentTypes' /\ LocalTypes'
  BY <1>1, <1>6, NoRoutingIsFresh DEF ControlTypes, Control, AgentTypes, LocalTypes, StoreTypes
<1>8. StoreTypes' /\ KernelTypes'
  BY <1>1, <1>6, NoRoutingIsFresh DEF StoreTypes, Control, AgentTypes, LocalTypes, KernelTypes
<1>9. Control'  BY <1>1, <1>6, NoRoutingIsFresh DEF Control, ControlTypes
<1>10. Stored'  BY <1>1, <1>6, NoRoutingIsFresh DEF Stored, Control
<1>11. Guarding' /\ UnguardedMeansEnforced'
  BY <1>1, <1>6, NoRoutingIsFresh DEF Guarding, UnguardedMeansEnforced, Enforces, Stored
<1>12. AtRest'
  BY <1>1, <1>6, NoRoutingIsFresh DEF AtRest, Settled, FileIs, Stored, RollingBack,
     CommittedButDegraded, Starting
<1>13. Updating'
  BY <1>1, <1>6, NoRoutingIsFresh DEF Updating, Promised, FileIs, Settled, AtRest,
     ApplyNetwork, Control
<1>14. Finishing' /\ RollingBack' /\ CommittedButDegraded' /\ Starting'
  BY <1>1, <1>6, NoRoutingIsFresh DEF Finishing, Updating, RollingBack, AtRest, Promised,
     FileIs, Settled, Control, ApplyNetwork, CommittedButDegraded, Starting, Guarding
<1> QED  BY <1>7, <1>8, <1>9, <1>10, <1>11, <1>12, <1>13, <1>14 DEF IInv

-----------------------------------------------------------------------------
(* The full reconcile.                                                     *)

\* reconcile_locked syncs the file.
LEMMA ReconcileSyncInv == ASSUME IInv, ReconcileSync PROVE IInv'
<1> USE DEF ReconcileSync
<1>1. TypeOK /\ Control /\ Stored /\ Phases /\ change \in Changes /\ degraded \in BOOLEAN
  BY DEF IInv, LocalTypes, AgentTypes
<1>6. mem \in Config /\ mem.excl \in SUBSET Macs /\ mem.routing \in Routings /\ mem.vpn \in BOOLEAN
  BY <1>1 DEF TypeOK, AgentTypes, LocalTypes, StoreTypes, Control, Config
<1>7. ControlTypes' /\ AgentTypes' /\ LocalTypes'
  BY <1>1, <1>6, SameIntentReflexive DEF ControlTypes, Control, AgentTypes, LocalTypes,
     StoreTypes
<1>8. StoreTypes' /\ KernelTypes'
  BY <1>1, <1>6, SameIntentReflexive DEF StoreTypes, Control, AgentTypes, LocalTypes,
     KernelTypes
<1>9. Control'  BY <1>1, <1>6, SameIntentReflexive DEF Control, ControlTypes
<1>10. Stored'  BY <1>1, <1>6, SameIntentReflexive DEF Stored, Control
<1>11. Guarding' /\ UnguardedMeansEnforced'
  BY <1>1, <1>6, SameIntentReflexive DEF Guarding, UnguardedMeansEnforced, Enforces, Stored
<1>12. AtRest'
  BY <1>1, <1>6, SameIntentReflexive DEF AtRest, Settled, FileIs, Stored, RollingBack,
     CommittedButDegraded, Starting
<1>13. Updating'
  BY <1>1, <1>6, SameIntentReflexive DEF Updating, Promised, FileIs, Settled, AtRest,
     ApplyNetwork, Control
<1>14. Finishing' /\ RollingBack' /\ CommittedButDegraded' /\ Starting'
  BY <1>1, <1>6, SameIntentReflexive DEF Finishing, Updating, RollingBack, AtRest, Promised,
     FileIs, Settled, Control, ApplyNetwork, CommittedButDegraded, Starting, Guarding
<1> QED  BY <1>7, <1>8, <1>9, <1>10, <1>11, <1>12, <1>13, <1>14 DEF IInv

\* reconcile_locked installs the guard.
LEMMA ReconcileGuardInv == ASSUME IInv, ReconcileGuard PROVE IInv'
<1> USE DEF ReconcileGuard
<1>1. TypeOK /\ Control /\ Stored /\ Phases /\ change \in Changes /\ degraded \in BOOLEAN
  BY DEF IInv, LocalTypes, AgentTypes
<1>6. mem \in Config /\ mem.excl \in SUBSET Macs /\ mem.routing \in Routings /\ mem.vpn \in BOOLEAN
  BY <1>1 DEF TypeOK, AgentTypes, LocalTypes, StoreTypes, Control, Config
<1>7. ControlTypes' /\ AgentTypes' /\ LocalTypes'
  BY <1>1, <1>6, SameIntentReflexive, NoGuardIsFresh DEF ControlTypes, Control, AgentTypes,
     LocalTypes, StoreTypes
<1>8. StoreTypes' /\ KernelTypes'
  BY <1>1, <1>6, SameIntentReflexive, NoGuardIsFresh DEF StoreTypes, Control, AgentTypes,
     LocalTypes, KernelTypes
<1>9. Control'  BY <1>1, <1>6, SameIntentReflexive, NoGuardIsFresh DEF Control, ControlTypes
<1>10. Stored'  BY <1>1, <1>6, SameIntentReflexive, NoGuardIsFresh DEF Stored, Control
<1>11. Guarding' /\ UnguardedMeansEnforced'
  BY <1>1, <1>6, SameIntentReflexive, NoGuardIsFresh DEF Guarding, UnguardedMeansEnforced,
     Enforces, Stored
<1>12. AtRest'
  BY <1>1, <1>6, SameIntentReflexive, NoGuardIsFresh DEF AtRest, Settled, FileIs, Stored,
     RollingBack, CommittedButDegraded, Starting
<1>13. Updating'
  BY <1>1, <1>6, SameIntentReflexive, NoGuardIsFresh DEF Updating, Promised, FileIs, Settled,
     AtRest, ApplyNetwork, Control
<1>14. Finishing' /\ RollingBack' /\ CommittedButDegraded' /\ Starting'
  BY <1>1, <1>6, SameIntentReflexive, NoGuardIsFresh DEF Finishing, Updating, RollingBack,
     AtRest, Promised, FileIs, Settled, Control, ApplyNetwork, CommittedButDegraded, Starting,
     Guarding
<1> QED  BY <1>7, <1>8, <1>9, <1>10, <1>11, <1>12, <1>13, <1>14 DEF IInv

\* reconcile_locked renders the policy.
LEMMA ReconcilePolicyInv == ASSUME IInv, ReconcilePolicy PROVE IInv'
<1> USE DEF ReconcilePolicy
<1>1. TypeOK /\ Control /\ Stored /\ Phases /\ change \in Changes /\ degraded \in BOOLEAN
  BY DEF IInv, LocalTypes, AgentTypes
<1>6. mem \in Config /\ mem.excl \in SUBSET Macs /\ mem.routing \in Routings /\ mem.vpn \in BOOLEAN
  BY <1>1 DEF TypeOK, AgentTypes, LocalTypes, StoreTypes, Control, Config
<1>8. ASSUME ApplyTable(mem, mem.routing, mem.excl)
      PROVE  table' \in Table /\ stale' \in SUBSET Macs /\ Applied(mem, mem.excl)'
  BY <1>1, <1>6, <1>8, ApplyTableFacts DEF Applied
<1>9. ControlTypes' /\ AgentTypes' /\ LocalTypes'
  BY <1>1, <1>6, <1>8, SameIntentReflexive DEF ControlTypes, Control, AgentTypes, LocalTypes,
     StoreTypes
<1>10. StoreTypes' /\ KernelTypes'
  BY <1>1, <1>6, <1>8, SameIntentReflexive DEF StoreTypes, Control, AgentTypes, LocalTypes,
     KernelTypes
<1>11. Control'  BY <1>1, <1>6, <1>8, SameIntentReflexive DEF Control, ControlTypes
<1>12. Stored'  BY <1>1, <1>6, <1>8, SameIntentReflexive DEF Stored, Control
<1>13. Guarding' /\ UnguardedMeansEnforced'
  BY <1>1, <1>6, <1>8, SameIntentReflexive DEF Guarding, UnguardedMeansEnforced, Enforces,
     Stored
<1>14. AtRest'
  BY <1>1, <1>6, <1>8, SameIntentReflexive DEF AtRest, Settled, FileIs, Stored, RollingBack,
     CommittedButDegraded, Starting
<1>15. Updating'
  BY <1>1, <1>6, <1>8, SameIntentReflexive DEF Updating, Promised, FileIs, Settled, AtRest,
     ApplyNetwork, Control
<1>16. Finishing' /\ RollingBack' /\ CommittedButDegraded' /\ Starting'
  BY <1>1, <1>6, <1>8, SameIntentReflexive DEF Finishing, Updating, RollingBack, AtRest,
     Promised, FileIs, Settled, Control, ApplyNetwork, CommittedButDegraded, Starting, Guarding
<1> QED  BY <1>9, <1>10, <1>11, <1>12, <1>13, <1>14, <1>15, <1>16 DEF IInv

\* reconcile_locked sets the lease targets and the DNS workers.
LEMMA ReconcileTargetsInv == ASSUME IInv, ReconcileTargets PROVE IInv'
<1> USE DEF ReconcileTargets
<1>1. TypeOK /\ Control /\ Stored /\ Phases /\ change \in Changes /\ degraded \in BOOLEAN
  BY DEF IInv, LocalTypes, AgentTypes
<1>6. mem \in Config /\ mem.excl \in SUBSET Macs /\ mem.routing \in Routings /\ mem.vpn \in BOOLEAN
  BY <1>1 DEF TypeOK, AgentTypes, LocalTypes, StoreTypes, Control, Config
<1>7. ControlTypes' /\ AgentTypes' /\ LocalTypes'
  BY <1>1, <1>6, NoRoutingIsFresh, SameIntentReflexive DEF ControlTypes, Control, AgentTypes,
     LocalTypes, StoreTypes
<1>8. StoreTypes' /\ KernelTypes'
  BY <1>1, <1>6, NoRoutingIsFresh, SameIntentReflexive DEF StoreTypes, Control, AgentTypes,
     LocalTypes, KernelTypes
<1>9. Control'  BY <1>1, <1>6, NoRoutingIsFresh, SameIntentReflexive DEF Control, ControlTypes
<1>10. Stored'  BY <1>1, <1>6, NoRoutingIsFresh, SameIntentReflexive DEF Stored, Control
<1>11. Guarding' /\ UnguardedMeansEnforced'
  BY <1>1, <1>6, NoRoutingIsFresh, SameIntentReflexive DEF Guarding, UnguardedMeansEnforced,
     Enforces, Stored
<1>12. AtRest'
  BY <1>1, <1>6, NoRoutingIsFresh, SameIntentReflexive DEF AtRest, Settled, FileIs, Stored,
     RollingBack, CommittedButDegraded, Starting
<1>13. Updating'
  BY <1>1, <1>6, NoRoutingIsFresh, SameIntentReflexive DEF Updating, Promised, FileIs, Settled,
     AtRest, ApplyNetwork, Control
<1>14. Finishing' /\ RollingBack' /\ CommittedButDegraded' /\ Starting'
  BY <1>1, <1>6, NoRoutingIsFresh, SameIntentReflexive DEF Finishing, Updating, RollingBack,
     AtRest, Promised, FileIs, Settled, Control, ApplyNetwork, CommittedButDegraded, Starting,
     Guarding
<1> QED  BY <1>7, <1>8, <1>9, <1>10, <1>11, <1>12, <1>13, <1>14 DEF IInv

\* reconcile_locked cleans the DNS flows.
LEMMA ReconcileFlowsInv == ASSUME IInv, ReconcileFlows PROVE IInv'
<1> USE DEF ReconcileFlows
<1>1. TypeOK /\ Control /\ Stored /\ Phases /\ change \in Changes /\ degraded \in BOOLEAN
  BY DEF IInv, LocalTypes, AgentTypes
<1>6. mem \in Config /\ mem.excl \in SUBSET Macs /\ mem.routing \in Routings /\ mem.vpn \in BOOLEAN
  BY <1>1 DEF TypeOK, AgentTypes, LocalTypes, StoreTypes, Control, Config
<1>7. ControlTypes' /\ AgentTypes' /\ LocalTypes'
  BY <1>1, <1>6, SameIntentReflexive DEF ControlTypes, Control, AgentTypes, LocalTypes,
     StoreTypes
<1>8. StoreTypes' /\ KernelTypes'
  BY <1>1, <1>6, SameIntentReflexive DEF StoreTypes, Control, AgentTypes, LocalTypes,
     KernelTypes
<1>9. Control'  BY <1>1, <1>6, SameIntentReflexive DEF Control, ControlTypes
<1>10. Stored'  BY <1>1, <1>6, SameIntentReflexive DEF Stored, Control
<1>11. Guarding' /\ UnguardedMeansEnforced'
  BY <1>1, <1>6, SameIntentReflexive DEF Guarding, UnguardedMeansEnforced, Enforces, Stored
<1>12. AtRest'
  BY <1>1, <1>6, SameIntentReflexive DEF AtRest, Settled, FileIs, Stored, RollingBack,
     CommittedButDegraded, Starting
<1>13. Updating'
  BY <1>1, <1>6, SameIntentReflexive DEF Updating, Promised, FileIs, Settled, AtRest,
     ApplyNetwork, Control
<1>14. Finishing' /\ RollingBack' /\ CommittedButDegraded' /\ Starting'
  BY <1>1, <1>6, SameIntentReflexive DEF Finishing, Updating, RollingBack, AtRest, Promised,
     FileIs, Settled, Control, ApplyNetwork, CommittedButDegraded, Starting, Guarding
<1> QED  BY <1>7, <1>8, <1>9, <1>10, <1>11, <1>12, <1>13, <1>14 DEF IInv

\* reconcile_locked applies the network.
LEMMA ReconcileNetworkInv == ASSUME IInv, ReconcileNetwork PROVE IInv'
<1> USE DEF ReconcileNetwork
<1>1. TypeOK /\ Control /\ Stored /\ Phases /\ change \in Changes /\ degraded \in BOOLEAN
  BY DEF IInv, LocalTypes, AgentTypes
<1>6. mem \in Config /\ mem.excl \in SUBSET Macs /\ mem.routing \in Routings /\ mem.vpn \in BOOLEAN
  BY <1>1 DEF TypeOK, AgentTypes, LocalTypes, StoreTypes, Control, Config
<1>7. NetOf(mem) \in Nets /\ net' \in {net, Torn, NetOf(mem)} /\ Torn \in Nets
  BY <1>1, <1>6, NetOfType DEF ApplyNetwork, TearNetwork, Control, Stored, Nets
<1>8. ControlTypes' /\ AgentTypes' /\ LocalTypes'
  BY <1>1, <1>6, SameIntentReflexive DEF ControlTypes, Control, AgentTypes, LocalTypes,
     StoreTypes
<1>9. StoreTypes' /\ KernelTypes'
  BY <1>1, <1>6, SameIntentReflexive, <1>7 DEF StoreTypes, Control, AgentTypes, LocalTypes,
     KernelTypes
<1>10. Control'  BY <1>1, <1>6, SameIntentReflexive DEF Control, ControlTypes
<1>11. Stored'  BY <1>1, <1>6, SameIntentReflexive DEF Stored, Control
<1>12. Guarding' /\ UnguardedMeansEnforced'
  BY <1>1, <1>6, SameIntentReflexive DEF Guarding, UnguardedMeansEnforced, Enforces, Stored
<1>13. AtRest'
  BY <1>1, <1>6, SameIntentReflexive DEF AtRest, Settled, FileIs, Stored, RollingBack,
     CommittedButDegraded, Starting
<1>14. Updating'
  BY <1>1, <1>6, SameIntentReflexive DEF Updating, Promised, FileIs, Settled, AtRest,
     ApplyNetwork, Control
<1>15. Finishing' /\ RollingBack' /\ CommittedButDegraded' /\ Starting'
  BY <1>1, <1>6, SameIntentReflexive DEF Finishing, Updating, RollingBack, AtRest, Promised,
     FileIs, Settled, Control, ApplyNetwork, CommittedButDegraded, Starting, Guarding
<1> QED  BY <1>8, <1>9, <1>10, <1>11, <1>12, <1>13, <1>14, <1>15 DEF IInv

\* reconcile_locked retires the legacy routing record.
LEMMA ReconcileRetireInv == ASSUME IInv, ReconcileRetire PROVE IInv'
<1> USE DEF ReconcileRetire
<1>1. TypeOK /\ Control /\ Stored /\ Phases /\ change \in Changes /\ degraded \in BOOLEAN
  BY DEF IInv, LocalTypes, AgentTypes
<1>6. mem \in Config /\ mem.excl \in SUBSET Macs /\ mem.routing \in Routings /\ mem.vpn \in BOOLEAN
  BY <1>1 DEF TypeOK, AgentTypes, LocalTypes, StoreTypes, Control, Config
<1>7. ControlTypes' /\ AgentTypes' /\ LocalTypes'
  BY <1>1, <1>6, SameIntentReflexive DEF ControlTypes, Control, AgentTypes, LocalTypes,
     StoreTypes
<1>8. StoreTypes' /\ KernelTypes'
  BY <1>1, <1>6, SameIntentReflexive DEF StoreTypes, Control, AgentTypes, LocalTypes,
     KernelTypes
<1>9. Control'  BY <1>1, <1>6, SameIntentReflexive DEF Control, ControlTypes
<1>10. Stored'  BY <1>1, <1>6, SameIntentReflexive DEF Stored, Control
<1>11. Guarding' /\ UnguardedMeansEnforced'
  BY <1>1, <1>6, SameIntentReflexive DEF Guarding, UnguardedMeansEnforced, Enforces, Stored
<1>12. AtRest'
  BY <1>1, <1>6, SameIntentReflexive DEF AtRest, Settled, FileIs, Stored, RollingBack,
     CommittedButDegraded, Starting
<1>13. Updating'
  BY <1>1, <1>6, SameIntentReflexive DEF Updating, Promised, FileIs, Settled, AtRest,
     ApplyNetwork, Control
<1>14. Finishing' /\ RollingBack' /\ CommittedButDegraded' /\ Starting'
  BY <1>1, <1>6, SameIntentReflexive DEF Finishing, Updating, RollingBack, AtRest, Promised,
     FileIs, Settled, Control, ApplyNetwork, CommittedButDegraded, Starting, Guarding
<1> QED  BY <1>7, <1>8, <1>9, <1>10, <1>11, <1>12, <1>13, <1>14 DEF IInv

\* reconcile_locked takes the guard down and ends the degraded state.
LEMMA ReconcileClearInv == ASSUME IInv, ReconcileClear PROVE IInv'
<1> USE DEF ReconcileClear
<1>1. TypeOK /\ Control /\ Stored /\ Phases /\ change \in Changes /\ degraded \in BOOLEAN
  BY DEF IInv, LocalTypes, AgentTypes
<1>6. mem \in Config /\ mem.excl \in SUBSET Macs /\ mem.routing \in Routings /\ mem.vpn \in BOOLEAN
  BY <1>1 DEF TypeOK, AgentTypes, LocalTypes, StoreTypes, Control, Config
<1>7. TypeOK'
  BY <1>1, <1>6, SameIntentReflexive DEF ControlTypes, Control, AgentTypes, LocalTypes,
     StoreTypes, KernelTypes
<1>8. Control'  BY <1>1, <1>6, SameIntentReflexive DEF Control, ControlTypes
<1>9. Stored'  BY <1>1, <1>6, SameIntentReflexive DEF Stored, Control
<1>10. Guarding' /\ UnguardedMeansEnforced'
  BY <1>1, <1>6, SameIntentReflexive DEF Guarding, UnguardedMeansEnforced, Enforces, Starting
<1>11. AtRest'  BY <1>1, <1>6, SameIntentReflexive DEF AtRest, Settled, FileIs, Starting
<1>12. Updating'
  BY <1>1, <1>6, SameIntentReflexive DEF Updating, Promised, FileIs, Settled, AtRest,
     ApplyNetwork, Control
<1>13. Finishing' /\ RollingBack' /\ CommittedButDegraded' /\ Starting'
  BY <1>1, <1>6, SameIntentReflexive DEF Finishing, Updating, RollingBack, AtRest, Promised,
     FileIs, Settled, Control, ApplyNetwork, CommittedButDegraded, Starting, Guarding
<1> QED  BY <1>7, <1>8, <1>9, <1>10, <1>11, <1>12, <1>13 DEF IInv

-----------------------------------------------------------------------------
(* The service scripts.                                                    *)

\* procd restarts an agent that exited.
LEMMA RespawnInv == ASSUME IInv, Respawn PROVE IInv'
<1> USE DEF Respawn
<1>1. TypeOK /\ Control /\ Stored /\ Phases /\ change \in Changes /\ degraded \in BOOLEAN
  BY DEF IInv, LocalTypes, AgentTypes
<1>2. TypeOK'
  BY <1>1 DEF ControlTypes, Control, AgentTypes, LocalTypes, StoreTypes, KernelTypes
<1>3. Control'  BY <1>1 DEF Control, ControlTypes
<1>4. Stored'  BY <1>1 DEF Stored, Control
<1>5. Guarding' /\ UnguardedMeansEnforced'
  BY <1>1 DEF Guarding, UnguardedMeansEnforced, Enforces, Stored
<1>6. AtRest'
  BY <1>1 DEF AtRest, Settled, FileIs, Stored, RollingBack, CommittedButDegraded, Starting
<1>7. Updating'  BY <1>1 DEF Updating, Promised, FileIs, Settled, AtRest, ApplyNetwork, Control
<1>8. Finishing' /\ RollingBack' /\ CommittedButDegraded' /\ Starting'
  BY <1>1 DEF Finishing, Updating, RollingBack, AtRest, Promised, FileIs, Settled, Control,
     ApplyNetwork, CommittedButDegraded, Starting, Guarding
<1> QED  BY <1>2, <1>3, <1>4, <1>5, <1>6, <1>7, <1>8 DEF IInv

\* The boot script arms the guard before the network comes up.
LEMMA BootGuardInv == ASSUME IInv, BootGuard PROVE IInv'
<1> USE DEF BootGuard
<1>1. TypeOK /\ Control /\ Stored /\ Phases /\ change \in Changes /\ degraded \in BOOLEAN
  BY DEF IInv, LocalTypes, AgentTypes
<1>6. disk \in Config /\ disk # NoConfig /\ disk.excl \in SUBSET Macs
  BY <1>1, NoConfigIsFresh DEF TypeOK, StoreTypes, Config
<1>7. /\ table' \in {NoTable} \cup Table /\ stale' \in SUBSET Macs /\ guard' = disk.excl
      /\ table # NoTable => /\ table' # NoTable /\ table'.excl = disk.excl
                            /\ table'.rules = table.rules
  BY <1>1, <1>6, PublishSetFacts DEF Arm
<1>9. pc = "off"  BY <1>1 DEF TypeOK, ControlTypes, Control
<1>10. TypeOK'
  BY <1>1, <1>6, <1>7, NoGuardIsFresh, <1>9 DEF ControlTypes, Control, AgentTypes, LocalTypes,
     StoreTypes, KernelTypes
<1>11. Control'  BY <1>1, <1>6, <1>7, NoGuardIsFresh, <1>9 DEF Control, ControlTypes
<1>12. Stored'  BY <1>1, <1>6, <1>7, NoGuardIsFresh, <1>9 DEF Stored, Control
<1>13. Guarding' /\ UnguardedMeansEnforced'
  BY <1>1, <1>6, <1>7, NoGuardIsFresh, <1>9 DEF Guarding, UnguardedMeansEnforced, Enforces,
     Stored
<1>14. AtRest'
  BY <1>1, <1>6, <1>7, NoGuardIsFresh, <1>9 DEF AtRest, Settled, FileIs, Stored, RollingBack,
     CommittedButDegraded, Starting
<1>15. Updating'
  BY <1>1, <1>6, <1>7, NoGuardIsFresh, <1>9 DEF Updating, Promised, FileIs, Settled, AtRest,
     ApplyNetwork, Control
<1>16. Finishing' /\ RollingBack' /\ CommittedButDegraded' /\ Starting'
  BY <1>1, <1>6, <1>7, NoGuardIsFresh, <1>9 DEF Finishing, Updating, RollingBack, AtRest,
     Promised, FileIs, Settled, Control, ApplyNetwork, CommittedButDegraded, Starting, Guarding
<1> QED  BY <1>10, <1>11, <1>12, <1>13, <1>14, <1>15, <1>16 DEF IInv

\* start_service prepares the guard, then starts the agent.
LEMMA ServiceStartInv == ASSUME IInv, ServiceStart PROVE IInv'
<1> USE DEF ServiceStart
<1>1. TypeOK /\ Control /\ Stored /\ Phases /\ change \in Changes /\ degraded \in BOOLEAN
  BY DEF IInv, LocalTypes, AgentTypes
<1>6. disk \in Config /\ disk # NoConfig /\ disk.excl \in SUBSET Macs
  BY <1>1, NoConfigIsFresh DEF TypeOK, StoreTypes, Config
<1>7. /\ table' \in {NoTable} \cup Table /\ stale' \in SUBSET Macs /\ guard' = disk.excl
      /\ table # NoTable => /\ table' # NoTable /\ table'.excl = disk.excl
                            /\ table'.rules = table.rules
  BY <1>1, <1>6, PublishSetFacts, ArmAndCleanupFacts DEF Arm
<1>9. pc = "off"  BY <1>1 DEF TypeOK, ControlTypes, Control
<1>10. TypeOK'
  BY <1>1, <1>6, <1>7, NoGuardIsFresh, <1>9 DEF ControlTypes, Control, AgentTypes, LocalTypes,
     StoreTypes, KernelTypes
<1>11. Control'  BY <1>1, <1>6, <1>7, NoGuardIsFresh, <1>9 DEF Control, ControlTypes
<1>12. Stored'  BY <1>1, <1>6, <1>7, NoGuardIsFresh, <1>9 DEF Stored, Control
<1>13. Guarding' /\ UnguardedMeansEnforced'
  BY <1>1, <1>6, <1>7, NoGuardIsFresh, <1>9 DEF Guarding, UnguardedMeansEnforced, Enforces,
     Stored
<1>14. AtRest'
  BY <1>1, <1>6, <1>7, NoGuardIsFresh, <1>9 DEF AtRest, Settled, FileIs, Stored, RollingBack,
     CommittedButDegraded, Starting
<1>15. Updating'
  BY <1>1, <1>6, <1>7, NoGuardIsFresh, <1>9 DEF Updating, Promised, FileIs, Settled, AtRest,
     ApplyNetwork, Control
<1>16. Finishing' /\ RollingBack' /\ CommittedButDegraded' /\ Starting'
  BY <1>1, <1>6, <1>7, NoGuardIsFresh, <1>9 DEF Finishing, Updating, RollingBack, AtRest,
     Promised, FileIs, Settled, Control, ApplyNetwork, CommittedButDegraded, Starting, Guarding
<1> QED  BY <1>10, <1>11, <1>12, <1>13, <1>14, <1>15, <1>16 DEF IInv

\* stop_service takes the apply lock.
LEMMA ServiceStopInv == ASSUME IInv, ServiceStop PROVE IInv'
<1> USE DEF ServiceStop
<1>1. TypeOK /\ Control /\ Stored /\ Phases /\ change \in Changes /\ degraded \in BOOLEAN
  BY DEF IInv, LocalTypes, AgentTypes
<1>2. TypeOK'
  BY <1>1 DEF ControlTypes, Control, AgentTypes, LocalTypes, StoreTypes, KernelTypes
<1>3. Control'  BY <1>1 DEF Control, ControlTypes
<1>4. Stored'  BY <1>1 DEF Stored, Control
<1>5. Guarding' /\ UnguardedMeansEnforced'
  BY <1>1 DEF Guarding, UnguardedMeansEnforced, Enforces, Stored
<1>6. AtRest'
  BY <1>1 DEF AtRest, Settled, FileIs, Stored, RollingBack, CommittedButDegraded, Starting
<1>7. Updating'  BY <1>1 DEF Updating, Promised, FileIs, Settled, AtRest, ApplyNetwork, Control
<1>8. Finishing' /\ RollingBack' /\ CommittedButDegraded' /\ Starting'
  BY <1>1 DEF Finishing, Updating, RollingBack, AtRest, Promised, FileIs, Settled, Control,
     ApplyNetwork, CommittedButDegraded, Starting, Guarding
<1> QED  BY <1>2, <1>3, <1>4, <1>5, <1>6, <1>7, <1>8 DEF IInv

\* guard stop arms the guard and removes DNS interception.
LEMMA GuardStopInv == ASSUME IInv, GuardStop PROVE IInv'
<1> USE DEF GuardStop
<1>1. TypeOK /\ Control /\ Stored /\ Phases /\ change \in Changes /\ degraded \in BOOLEAN
  BY DEF IInv, LocalTypes, AgentTypes
<1>6. disk \in Config /\ disk # NoConfig /\ disk.excl \in SUBSET Macs
  BY <1>1, NoConfigIsFresh DEF TypeOK, StoreTypes, Config
<1>7. /\ table' \in {NoTable} \cup Table /\ stale' \in SUBSET Macs /\ guard' = disk.excl
      /\ table # NoTable => /\ table' # NoTable /\ table'.excl = disk.excl
                            /\ table'.rules = table.rules
  BY <1>1, <1>6, StopInterceptionFacts
<1>8. pc = "idle" => mem \in Config /\ mem.excl = disk.excl
  BY <1>1, <1>6, SameIntentFacts DEF Phases, AtRest, TypeOK, AgentTypes, Control
<1>9. pc \in {"off", "idle", "lock"}  BY <1>1 DEF TypeOK, ControlTypes, Control
<1>10. TypeOK'
  BY <1>1, <1>6, <1>7, <1>8, NoGuardIsFresh, <1>9 DEF ControlTypes, Control, AgentTypes,
     LocalTypes, StoreTypes, KernelTypes
<1>11. Control'  BY <1>1, <1>6, <1>7, <1>8, NoGuardIsFresh, <1>9 DEF Control, ControlTypes
<1>12. Stored'  BY <1>1, <1>6, <1>7, <1>8, NoGuardIsFresh, <1>9 DEF Stored, Control
<1>13. Guarding' /\ UnguardedMeansEnforced'
  BY <1>1, <1>6, <1>7, <1>8, NoGuardIsFresh, <1>9 DEF Guarding, UnguardedMeansEnforced,
     Enforces, Stored
<1>14. AtRest'
  BY <1>1, <1>6, <1>7, <1>8, NoGuardIsFresh, <1>9 DEF AtRest, Settled, FileIs, Stored,
     RollingBack, CommittedButDegraded, Starting
<1>15. Updating'
  BY <1>1, <1>6, <1>7, <1>8, NoGuardIsFresh, <1>9 DEF Updating, Promised, FileIs, Settled,
     AtRest, ApplyNetwork, Control
<1>16. Finishing' /\ RollingBack' /\ CommittedButDegraded' /\ Starting'
  BY <1>1, <1>6, <1>7, <1>8, NoGuardIsFresh, <1>9 DEF Finishing, Updating, RollingBack, AtRest,
     Promised, FileIs, Settled, Control, ApplyNetwork, CommittedButDegraded, Starting, Guarding
<1> QED  BY <1>10, <1>11, <1>12, <1>13, <1>14, <1>15, <1>16 DEF IInv

\* A failed stop leaves the agent running behind the armed guard.
LEMMA StopAbortedInv == ASSUME IInv, StopAborted PROVE IInv'
<1> USE DEF StopAborted
<1>1. TypeOK /\ Control /\ Stored /\ Phases /\ change \in Changes /\ degraded \in BOOLEAN
  BY DEF IInv, LocalTypes, AgentTypes
<1>6. disk \in Config /\ disk # NoConfig /\ disk.excl \in SUBSET Macs
  BY <1>1, NoConfigIsFresh DEF TypeOK, StoreTypes, Config
<1>7. \/ /\ table' \in {NoTable} \cup Table /\ stale' \in SUBSET Macs /\ guard' = disk.excl
         /\ table # NoTable => /\ table' # NoTable /\ table'.excl = disk.excl
                               /\ table'.rules = table.rules
      \/ UNCHANGED <<table, guard, stale>>
  BY <1>1, <1>6, PublishSetFacts, StopInterceptionFacts, PinFlowsType DEF Arm
<1>8. pc = "idle" => mem \in Config /\ mem.excl = disk.excl
  BY <1>1, <1>6, SameIntentFacts DEF Phases, AtRest, TypeOK, AgentTypes, Control
<1>9. pc \in {"off", "idle", "lock"}  BY <1>1 DEF TypeOK, ControlTypes, Control
<1>10. TypeOK'
  BY <1>1, <1>6, <1>7, <1>8, NoGuardIsFresh, <1>9 DEF ControlTypes, Control, AgentTypes,
     LocalTypes, StoreTypes, KernelTypes
<1>11. Control'  BY <1>1, <1>6, <1>7, <1>8, NoGuardIsFresh, <1>9 DEF Control, ControlTypes
<1>12. Stored'  BY <1>1, <1>6, <1>7, <1>8, NoGuardIsFresh, <1>9 DEF Stored, Control
<1>13. Guarding' /\ UnguardedMeansEnforced'
  BY <1>1, <1>6, <1>7, <1>8, NoGuardIsFresh, <1>9 DEF Guarding, UnguardedMeansEnforced,
     Enforces, Stored
<1>14. AtRest'
  BY <1>1, <1>6, <1>7, <1>8, NoGuardIsFresh, <1>9 DEF AtRest, Settled, FileIs, Stored,
     RollingBack, CommittedButDegraded, Starting
<1>15. Updating'
  BY <1>1, <1>6, <1>7, <1>8, NoGuardIsFresh, <1>9 DEF Updating, Promised, FileIs, Settled,
     AtRest, ApplyNetwork, Control
<1>16. Finishing' /\ RollingBack' /\ CommittedButDegraded' /\ Starting'
  BY <1>1, <1>6, <1>7, <1>8, NoGuardIsFresh, <1>9 DEF Finishing, Updating, RollingBack, AtRest,
     Promised, FileIs, Settled, Control, ApplyNetwork, CommittedButDegraded, Starting, Guarding
<1> QED  BY <1>10, <1>11, <1>12, <1>13, <1>14, <1>15, <1>16 DEF IInv

\* procd kills the agent and service_stopped arms the guard.
LEMMA AgentKilledInv == ASSUME IInv, AgentKilled PROVE IInv'
<1> USE DEF AgentKilled
<1>1. TypeOK /\ Control /\ Stored /\ Phases /\ change \in Changes /\ degraded \in BOOLEAN
  BY DEF IInv, LocalTypes, AgentTypes
<1>6. disk \in Config /\ disk # NoConfig /\ disk.excl \in SUBSET Macs
  BY <1>1, NoConfigIsFresh DEF TypeOK, StoreTypes, Config
<1>7. \/ /\ table' \in {NoTable} \cup Table /\ stale' \in SUBSET Macs /\ guard' = disk.excl
      \/ UNCHANGED <<table, guard, stale>>
  BY <1>1, <1>6, ArmAndCleanupFacts
<1>8. TypeOK'
  BY <1>1, <1>6, <1>7, NoGuardIsFresh DEF ControlTypes, Control, AgentTypes, LocalTypes,
     StoreTypes, KernelTypes
<1>9. Control'  BY <1>1, <1>6, <1>7, NoGuardIsFresh DEF Control, ControlTypes
<1>10. Stored'  BY <1>1, <1>6, <1>7, NoGuardIsFresh DEF Stored, Control
<1>11. Guarding' /\ UnguardedMeansEnforced'
  BY <1>1, <1>6, <1>7, NoGuardIsFresh DEF Guarding, UnguardedMeansEnforced, Enforces, Stored
<1>12. AtRest'
  BY <1>1, <1>6, <1>7, NoGuardIsFresh DEF AtRest, Settled, FileIs, Stored, RollingBack,
     CommittedButDegraded, Starting
<1>13. Updating'
  BY <1>1, <1>6, <1>7, NoGuardIsFresh DEF Updating, Promised, FileIs, Settled, AtRest,
     ApplyNetwork, Control
<1>14. Finishing' /\ RollingBack' /\ CommittedButDegraded' /\ Starting'
  BY <1>1, <1>6, <1>7, NoGuardIsFresh DEF Finishing, Updating, RollingBack, AtRest, Promised,
     FileIs, Settled, Control, ApplyNetwork, CommittedButDegraded, Starting, Guarding
<1> QED  BY <1>8, <1>9, <1>10, <1>11, <1>12, <1>13, <1>14 DEF IInv

-----------------------------------------------------------------------------
(* Failures of the process and of the router.                              *)

\* The process may die between any two steps.
LEMMA CrashInv == ASSUME IInv, Crash PROVE IInv'
<1> USE DEF Crash
<1>1. TypeOK /\ Control /\ Stored /\ Phases /\ change \in Changes /\ degraded \in BOOLEAN
  BY DEF IInv, LocalTypes, AgentTypes
<1>2. TypeOK'
  BY <1>1 DEF ControlTypes, Control, AgentTypes, LocalTypes, StoreTypes, KernelTypes
<1>3. Control'  BY <1>1 DEF Control, ControlTypes
<1>4. Stored'  BY <1>1 DEF Stored, Control
<1>5. Guarding' /\ UnguardedMeansEnforced'
  BY <1>1 DEF Guarding, UnguardedMeansEnforced, Enforces, Stored
<1>6. AtRest'
  BY <1>1 DEF AtRest, Settled, FileIs, Stored, RollingBack, CommittedButDegraded, Starting
<1>7. Updating'  BY <1>1 DEF Updating, Promised, FileIs, Settled, AtRest, ApplyNetwork, Control
<1>8. Finishing' /\ RollingBack' /\ CommittedButDegraded' /\ Starting'
  BY <1>1 DEF Finishing, Updating, RollingBack, AtRest, Promised, FileIs, Settled, Control,
     ApplyNetwork, CommittedButDegraded, Starting, Guarding
<1> QED  BY <1>2, <1>3, <1>4, <1>5, <1>6, <1>7, <1>8 DEF IInv

\* A power loss keeps one of the versions of the file that were stable.
LEMMA PowerLossInv == ASSUME IInv, PowerLoss PROVE IInv'
<1> USE DEF PowerLoss
<1>1. TypeOK /\ Control /\ Stored /\ Phases /\ change \in Changes /\ degraded \in BOOLEAN
  BY DEF IInv, LocalTypes, AgentTypes
<1>6. disk' \in Config /\ WellFormed(disk') /\ stable' = {disk'}
  BY <1>1 DEF TypeOK, StoreTypes, Stored
<1>7. Bypass \in Nets  BY DEF Nets
<1>8. TypeOK'
  BY <1>1, <1>6, <1>7 DEF ControlTypes, Control, AgentTypes, LocalTypes, StoreTypes,
     KernelTypes
<1>9. Control'  BY <1>1, <1>6, <1>7 DEF Control, ControlTypes
<1>10. Stored'  BY <1>1, <1>6, <1>7 DEF Stored, Control
<1>11. Guarding' /\ UnguardedMeansEnforced'
  BY <1>1, <1>6, <1>7 DEF Guarding, UnguardedMeansEnforced, Enforces, Stored
<1>12. AtRest'
  BY <1>1, <1>6, <1>7 DEF AtRest, Settled, FileIs, Stored, RollingBack, CommittedButDegraded,
     Starting
<1>13. Updating'
  BY <1>1, <1>6, <1>7 DEF Updating, Promised, FileIs, Settled, AtRest, ApplyNetwork, Control
<1>14. Finishing' /\ RollingBack' /\ CommittedButDegraded' /\ Starting'
  BY <1>1, <1>6, <1>7 DEF Finishing, Updating, RollingBack, AtRest, Promised, FileIs, Settled,
     Control, ApplyNetwork, CommittedButDegraded, Starting, Guarding
<1> QED  BY <1>8, <1>9, <1>10, <1>11, <1>12, <1>13, <1>14 DEF IInv

-----------------------------------------------------------------------------
(* The invariant, and what follows from it.                                *)

\* The installed router before its first boot satisfies the invariant.
LEMMA InitInv == ASSUME Init PROVE IInv
<1> USE DEF Init
<1>1. /\ DefaultConfig \in Config /\ WellFormed(DefaultConfig)
      /\ {} \in SUBSET Macs /\ Bypass \in Nets
  BY DefaultIsWellFormed DEF Nets
<1>2. TypeOK
  BY <1>1 DEF ControlTypes, AgentTypes, LocalTypes, StoreTypes, KernelTypes
<1>3. Control /\ Stored  BY <1>1 DEF Control, Stored
<1>4. Phases
  BY DEF Guarding, AtRest, Updating, Finishing, RollingBack, CommittedButDegraded, Starting,
         UnguardedMeansEnforced
<1> QED  BY <1>2, <1>3, <1>4 DEF IInv

\* A step that changes nothing keeps the invariant.
LEMMA StutterInv == ASSUME IInv, UNCHANGED vars PROVE IInv'
BY DEF IInv, vars, ControlTypes, AgentTypes, LocalTypes, StoreTypes, KernelTypes, Control, Stored,
       Guarding, AtRest, Updating, Finishing, RollingBack, CommittedButDegraded, Starting,
       UnguardedMeansEnforced, Enforces, Settled, FileIs, Promised

\* Every step of the agent, of the service scripts and of the environment keeps
\* the invariant: one lemma per operation.
LEMMA NextInv == ASSUME IInv, [Next]_vars PROVE IInv'
<1>1. CASE UpdateStep
  BY <1>1, BeginUpdateInv, CaptureSnapshotInv, InstallGuardInv, UpdateNetworkInv,
     UpdatePolicyInv, CommitTargetsInv, SaveConfigInv, SyncDirectoryInv, PublishExclusionsInv,
     CleanupDnsFlowsInv, ClearGuardInv DEF UpdateStep
<1>2. CASE RollbackStep
  BY <1>2, RollbackNetworkInv, RestoreSnapshotInv, RollbackPolicyInv, RollbackTargetsInv,
     RollbackClearInv DEF RollbackStep
<1>3. CASE CommittedStep
  BY <1>3, CommittedSyncInv, CommittedPublishInv, CommittedFlowsInv, CommittedGuardInv DEF CommittedStep
<1>4. CASE PlainStep
  BY <1>4, SavePlainInv, SyncPlainInv, BeginAutoUpdateInv, SaveAutoUpdateInv,
     SyncAutoUpdateInv DEF PlainStep
<1>5. CASE StartStep
  BY <1>5, StartLockInv, StartLoadInv, StartSyncInv, StartPublishInv, StartFlowsInv,
     StartOpenInv DEF StartStep
<1>6. CASE ReconcileStep
  BY <1>6, ReconcileSyncInv, ReconcileGuardInv, ReconcilePolicyInv, ReconcileTargetsInv,
     ReconcileFlowsInv, ReconcileNetworkInv, ReconcileRetireInv, ReconcileClearInv DEF ReconcileStep
<1>7. CASE ServiceStep
  BY <1>7, RespawnInv, BootGuardInv, ServiceStartInv, ServiceStopInv, GuardStopInv,
     StopAbortedInv, AgentKilledInv DEF ServiceStep
<1>8. CASE Crash \/ PowerLoss  BY <1>8, CrashInv, PowerLossInv
<1> QED  BY <1>1, <1>2, <1>3, <1>4, <1>5, <1>6, <1>7, <1>8, StutterInv DEF Next

\* The phase invariant holds in every reachable state of every instance.
THEOREM InvariantHolds == Spec => []IInv
<1>1. Init => IInv  BY InitInv
<1>2. IInv /\ [Next]_vars => IInv'  BY NextInv
<1> QED  BY <1>1, <1>2, PTL DEF Spec

\* Type correctness of the controller, its file and the kernel state it drives.
THEOREM TypeCorrect == Spec => []TypeOK
<1>1. IInv => TypeOK  BY DEF IInv
<1> QED  BY <1>1, InvariantHolds, PTL

\* Fail-closed forwarding: from the moment the boot guard is armed, traffic is
\* forwarded without the guard only while the kernel enforces every version of
\* the configuration that the disk may hold, through updates, failed rollbacks,
\* service stops, crashes and power losses (update_config, reconcile_locked).
THEOREM FailClosed == Spec => []UnguardedMeansEnforced
<1>1. IInv => UnguardedMeansEnforced  BY DEF IInv
<1> QED  BY <1>1, InvariantHolds, PTL

\* An agent that serves and is not degraded agrees with the kernel, the lease
\* store, the DNS workers and the file (update_config and its rollback).
THEOREM IdleCoherence == Spec => []IdleMeansCoherent
<1>1. IInv => IdleMeansCoherent
  BY DEF IInv, IdleMeansCoherent, AtRest, Settled
<1> QED  BY <1>1, InvariantHolds, PTL

\* The active server of every configuration in memory or on disk is stored, so
\* that a tunnel can always be built for it (controller/servers.rs).
THEOREM ActiveServerSafety == Spec => []StoredConfigsAreUsable
<1>1. IInv => StoredConfigsAreUsable  BY DEF IInv, StoredConfigsAreUsable, Stored
<1> QED  BY <1>1, InvariantHolds, PTL
-----------------------------------------------------------------------------
(* The controller implements Gateway.  Two facts about a step are enough:  *)
(* the file and the gate never change together (but for a power loss), and *)
(* the kernel does not change while the gate stays open.  The phase        *)
(* invariant does the rest: whenever the gate is open, the kernel enforces *)
(* every version of the file.                                              *)

\* A step that leaves the file alone; the kernel is only changed behind a gate.
GateStep ==
    /\ UNCHANGED <<disk, stable>>
    /\ Forwards /\ Forwards' => UNCHANGED <<table, net>>

\* A step that writes or syncs the file and touches nothing of the kernel.
FileStep ==
    /\ UNCHANGED <<table, guard, net, lc>>
    /\ \/ disk' = disk /\ stable' = {disk}
       \/ stable' = stable \cup {disk'}

LossStep == disk' \in stable /\ stable' = {disk'} /\ lc' = "boot"

Shape == GateStep \/ FileStep \/ LossStep

\* What the steps need of the invariant.
Facts ==
    /\ disk.excl \in SUBSET Macs
    /\ mem # NoConfig => mem.excl \in SUBSET Macs
    /\ pc \in Serving \cup {"sync0", "publish0", "flows0", "open"} => mem # NoConfig
    /\ pc \in Guarded => guard # NoGuard
    /\ lc \in {"boot", "stopped"} => pc = "off"

\* The phase invariant gives these facts.
LEMMA FactsHold == ASSUME IInv PROVE Facts
BY DEF Facts, IInv, Control, Guarding, StoreTypes, AgentTypes, Config

-----------------------------------------------------------------------------
(* The shape of every step.                                                *)

\* update_config: the file changes once, behind the guard.
LEMMA UpdateStepShape == ASSUME IInv, UpdateStep PROVE Shape
<1>1. Facts  BY FactsHold
<1>2. CASE BeginUpdate
  BY <1>1, <1>2, NoGuardIsFresh DEF BeginUpdate, Facts, Shape, GateStep, FileStep, LossStep, Forwards
<1>3. CASE CaptureSnapshot
  BY <1>1, <1>3, NoGuardIsFresh DEF CaptureSnapshot, Facts, Shape, GateStep, FileStep, LossStep, Forwards
<1>4. CASE InstallGuard
  BY <1>1, <1>4, NoGuardIsFresh DEF InstallGuard, Facts, Shape, GateStep, FileStep, LossStep, Forwards
<1>5. CASE UpdateNetwork
  BY <1>1, <1>5, NoGuardIsFresh DEF UpdateNetwork, Facts, Shape, GateStep, FileStep, LossStep, Forwards
<1>6. CASE UpdatePolicy
  BY <1>1, <1>6, NoGuardIsFresh DEF UpdatePolicy, Facts, Shape, GateStep, FileStep, LossStep, Forwards
<1>7. CASE CommitTargets
  BY <1>1, <1>7, NoGuardIsFresh DEF CommitTargets, Facts, Shape, GateStep, FileStep, LossStep, Forwards
<1>8. CASE SaveConfig
  BY <1>1, <1>8, NoGuardIsFresh DEF SaveConfig, Facts, Shape, GateStep, FileStep, LossStep, Forwards
<1>9. CASE SyncDirectory
  BY <1>1, <1>9, NoGuardIsFresh DEF SyncDirectory, Facts, Shape, GateStep, FileStep, LossStep, Forwards
<1>10. CASE PublishExclusions
  BY <1>1, <1>10, NoGuardIsFresh DEF PublishExclusions, PublishSet, Facts, Shape, GateStep, FileStep, LossStep, Forwards
<1>11. CASE CleanupDnsFlows
  BY <1>1, <1>11, NoGuardIsFresh DEF CleanupDnsFlows, Facts, Shape, GateStep, FileStep, LossStep, Forwards
<1>12. CASE ClearGuard
  BY <1>1, <1>12, NoGuardIsFresh DEF ClearGuard, Facts, Shape, GateStep, FileStep, LossStep, Forwards
<1> QED  BY <1>2, <1>3, <1>4, <1>5, <1>6, <1>7, <1>8, <1>9, <1>10, <1>11, <1>12 DEF UpdateStep

\* The rollback never touches the file and works behind the guard.
LEMMA RollbackStepShape == ASSUME IInv, RollbackStep PROVE Shape
<1>1. Facts  BY FactsHold
<1>2. CASE RollbackNetwork
  BY <1>1, <1>2, NoGuardIsFresh DEF RollbackNetwork, Facts, Shape, GateStep, FileStep, LossStep, Forwards
<1>3. CASE RestoreSnapshot
  BY <1>1, <1>3, NoGuardIsFresh DEF RestoreSnapshot, Facts, Shape, GateStep, FileStep, LossStep, Forwards
<1>4. CASE RollbackPolicy
  BY <1>1, <1>4, NoGuardIsFresh DEF RollbackPolicy, Facts, Shape, GateStep, FileStep, LossStep, Forwards
<1>5. CASE RollbackTargets
  BY <1>1, <1>5, NoGuardIsFresh DEF RollbackTargets, Facts, Shape, GateStep, FileStep, LossStep, Forwards
<1>6. CASE RollbackClear
  BY <1>1, <1>6, NoGuardIsFresh DEF RollbackClear, Facts, Shape, GateStep, FileStep, LossStep, Forwards
<1> QED  BY <1>2, <1>3, <1>4, <1>5, <1>6 DEF RollbackStep

\* committed_failure syncs the file or moves exemptions.
LEMMA CommittedStepShape == ASSUME IInv, CommittedStep PROVE Shape
<1>1. Facts  BY FactsHold
<1>2. CASE CommittedSync
  BY <1>1, <1>2, NoGuardIsFresh DEF CommittedSync, Facts, Shape, GateStep, FileStep, LossStep, Forwards
<1>3. CASE CommittedPublish
  BY <1>1, <1>3, NoGuardIsFresh DEF CommittedPublish, PublishSet, Facts, Shape, GateStep, FileStep, LossStep, Forwards
<1>4. CASE CommittedFlows
  BY <1>1, <1>4, NoGuardIsFresh DEF CommittedFlows, Facts, Shape, GateStep, FileStep, LossStep, Forwards
<1>5. CASE CommittedGuard
  BY <1>1, <1>5, NoGuardIsFresh DEF CommittedGuard, Facts, Shape, GateStep, FileStep, LossStep, Forwards
<1> QED  BY <1>2, <1>3, <1>4, <1>5 DEF CommittedStep

\* Edits of the file alone leave kernel and guard where they are.
LEMMA PlainStepShape == ASSUME IInv, PlainStep PROVE Shape
<1>1. Facts  BY FactsHold
<1>2. CASE SavePlain
  BY <1>1, <1>2, NoGuardIsFresh DEF SavePlain, Facts, Shape, GateStep, FileStep, LossStep, Forwards
<1>3. CASE SyncPlain
  BY <1>1, <1>3, NoGuardIsFresh DEF SyncPlain, Facts, Shape, GateStep, FileStep, LossStep, Forwards
<1>4. CASE BeginAutoUpdate
  BY <1>1, <1>4, NoGuardIsFresh DEF BeginAutoUpdate, Facts, Shape, GateStep, FileStep, LossStep, Forwards
<1>5. CASE SaveAutoUpdate
  BY <1>1, <1>5, NoGuardIsFresh DEF SaveAutoUpdate, Facts, Shape, GateStep, FileStep, LossStep, Forwards
<1>6. CASE SyncAutoUpdate
  BY <1>1, <1>6, NoGuardIsFresh DEF SyncAutoUpdate, Facts, Shape, GateStep, FileStep, LossStep, Forwards
<1> QED  BY <1>2, <1>3, <1>4, <1>5, <1>6 DEF PlainStep

\* The start-up syncs the file and closes the gate.
LEMMA StartStepShape == ASSUME IInv, StartStep PROVE Shape
<1>1. Facts  BY FactsHold
<1>2. CASE StartLock
  BY <1>1, <1>2, NoGuardIsFresh DEF StartLock, Facts, Shape, GateStep, FileStep, LossStep, Forwards
<1>3. CASE StartLoad
  BY <1>1, <1>3, NoGuardIsFresh DEF StartLoad, Facts, Shape, GateStep, FileStep, LossStep, Forwards
<1>4. CASE StartSync
  BY <1>1, <1>4, NoGuardIsFresh DEF StartSync, Facts, Shape, GateStep, FileStep, LossStep, Forwards
<1>5. CASE StartPublish
  BY <1>1, <1>5, NoGuardIsFresh DEF StartPublish, PublishSet, Facts, Shape, GateStep, FileStep, LossStep, Forwards
<1>6. CASE StartFlows
  BY <1>1, <1>6, NoGuardIsFresh DEF StartFlows, Facts, Shape, GateStep, FileStep, LossStep, Forwards
<1>7. CASE StartOpen
  BY <1>1, <1>7, NoGuardIsFresh DEF StartOpen, Facts, Shape, GateStep, FileStep, LossStep, Forwards
<1> QED  BY <1>2, <1>3, <1>4, <1>5, <1>6, <1>7 DEF StartStep

\* The full reconcile works behind the guard that it clears last.
LEMMA ReconcileStepShape == ASSUME IInv, ReconcileStep PROVE Shape
<1>1. Facts  BY FactsHold
<1>2. CASE ReconcileSync
  BY <1>1, <1>2, NoGuardIsFresh DEF ReconcileSync, Facts, Shape, GateStep, FileStep, LossStep, Forwards
<1>3. CASE ReconcileGuard
  BY <1>1, <1>3, NoGuardIsFresh DEF ReconcileGuard, Facts, Shape, GateStep, FileStep, LossStep, Forwards
<1>4. CASE ReconcilePolicy
  BY <1>1, <1>4, NoGuardIsFresh DEF ReconcilePolicy, Facts, Shape, GateStep, FileStep, LossStep, Forwards
<1>5. CASE ReconcileTargets
  BY <1>1, <1>5, NoGuardIsFresh DEF ReconcileTargets, Facts, Shape, GateStep, FileStep, LossStep, Forwards
<1>6. CASE ReconcileFlows
  BY <1>1, <1>6, NoGuardIsFresh DEF ReconcileFlows, Facts, Shape, GateStep, FileStep, LossStep, Forwards
<1>7. CASE ReconcileNetwork
  BY <1>1, <1>7, NoGuardIsFresh DEF ReconcileNetwork, Facts, Shape, GateStep, FileStep, LossStep, Forwards
<1>8. CASE ReconcileRetire
  BY <1>1, <1>8, NoGuardIsFresh DEF ReconcileRetire, Facts, Shape, GateStep, FileStep, LossStep, Forwards
<1>9. CASE ReconcileClear
  BY <1>1, <1>9, NoGuardIsFresh DEF ReconcileClear, Facts, Shape, GateStep, FileStep, LossStep, Forwards
<1> QED  BY <1>2, <1>3, <1>4, <1>5, <1>6, <1>7, <1>8, <1>9 DEF ReconcileStep

\* The scripts close the gate and never touch the file.
LEMMA ServiceStepShape == ASSUME IInv, ServiceStep PROVE Shape
<1>1. Facts  BY FactsHold
<1>2. CASE Respawn
  BY <1>1, <1>2, NoGuardIsFresh DEF Respawn, Facts, Shape, GateStep, FileStep, LossStep, Forwards
<1>3. CASE BootGuard
  BY <1>1, <1>3, NoGuardIsFresh DEF BootGuard, Arm, PublishSet, Facts, Shape, GateStep, FileStep, LossStep, Forwards
<1>4. CASE ServiceStart
  BY <1>1, <1>4, NoGuardIsFresh DEF ServiceStart, ArmAndCleanup, Arm, PublishSet, Facts, Shape, GateStep, FileStep, LossStep, Forwards
<1>5. CASE ServiceStop
  BY <1>1, <1>5, NoGuardIsFresh DEF ServiceStop, Facts, Shape, GateStep, FileStep, LossStep, Forwards
<1>6. CASE GuardStop
  BY <1>1, <1>6, NoGuardIsFresh DEF GuardStop, StopInterception, Facts, Shape, GateStep, FileStep, LossStep, Forwards
<1>7. CASE StopAborted
  BY <1>1, <1>7, NoGuardIsFresh DEF StopAborted, Arm, PublishSet, StopInterception, Facts, Shape, GateStep, FileStep, LossStep, Forwards
<1>8. CASE AgentKilled
  BY <1>1, <1>8, NoGuardIsFresh DEF AgentKilled, ArmAndCleanup, Facts, Shape, GateStep, FileStep, LossStep, Forwards
<1> QED  BY <1>2, <1>3, <1>4, <1>5, <1>6, <1>7, <1>8 DEF ServiceStep

\* Every step of the system has one of the three shapes.
LEMMA NextShape == ASSUME IInv, [Next]_vars PROVE Shape
<1>1. CASE Crash  BY <1>1 DEF Crash, Shape, GateStep
<1>2. CASE PowerLoss  BY <1>2 DEF PowerLoss, Shape, LossStep
<1>3. CASE UNCHANGED vars  BY <1>3 DEF vars, Shape, GateStep
<1> QED
  BY <1>1, <1>2, <1>3, UpdateStepShape, RollbackStepShape, CommittedStepShape, PlainStepShape,
     StartStepShape, ReconcileStepShape, ServiceStepShape DEF Next

-----------------------------------------------------------------------------
(* The refinement.                                                         *)

\* The kernel enforces the policy of every version of the file.
OnlyWanted == Enforced = PolicyOf(disk) /\ {PolicyOf(c) : c \in stable} = {PolicyOf(disk)}

\* While the gate is open, the kernel enforces what is stored.
LEMMA OpenMeansWanted == IInv /\ Forwards => OnlyWanted
<1> SUFFICES ASSUME IInv, Forwards
             PROVE  OnlyWanted
  OBVIOUS
<1>1. \A c \in stable \cup {disk} : Enforces(c)
  BY DEF IInv, Forwards, UnguardedMeansEnforced
<1>2. disk \in stable  BY DEF IInv, Stored
<1>3. table \in Table  BY <1>1, NoTableIsFresh DEF IInv, KernelTypes, Enforces
<1>4. \A c \in stable \cup {disk} : Enforced = PolicyOf(c)
  BY <1>1, <1>3 DEF Enforces, Enforced, PolicyOf, Table
<1> QED  BY <1>2, <1>4 DEF OnlyWanted

\* The initial state is an initial state of Gateway.
LEMMA GatewayInit == ASSUME Init PROVE G!Init
<1>1. PolicyOf(disk) \in Policies  BY DefaultIsWellFormed DEF Init, Policies
<1> QED  BY <1>1 DEF Init, G!Init, Forwards

\* Every step is a step of Gateway or changes nothing that it sees.
LEMMA GatewayStep == ASSUME IInv, IInv', [Next]_vars PROVE [G!Next]_(G!vars)
<1>1. Shape  BY NextShape
<1>2. Forwards' => OnlyWanted'
  BY OpenMeansWanted, PTL
<1>3. Forwards => OnlyWanted
  BY OpenMeansWanted
<1>4. PolicyOf(disk)' \in Policies
  BY DEF IInv, Stored, StoreTypes, Policies, PolicyOf
<1>5. CASE GateStep
  <2>1. PolicyOf(disk)' = PolicyOf(disk) /\ {PolicyOf(c) : c \in stable}' = {PolicyOf(c) : c \in stable}
    BY <1>5 DEF GateStep, PolicyOf
  <2>2. CASE ~Forwards'  BY <2>1, <2>2 DEF G!Next, G!Close
  <2>3. CASE Forwards'  BY <2>1, <2>3, <1>2 DEF G!Next, G!Open, OnlyWanted
  <2> QED  BY <2>2, <2>3
<1>6. CASE FileStep
  <2>1. Forwards' = Forwards /\ Enforced' = Enforced
    BY <1>6 DEF FileStep, Forwards, Enforced
  <2>2. CASE Forwards
    BY <1>2, <1>3, <2>1, <2>2 DEF G!vars, OnlyWanted
  <2>3. CASE ~Forwards /\ disk' = disk /\ stable' = {disk}
    <3>1. PolicyOf(disk)' = PolicyOf(disk) /\ {PolicyOf(c) : c \in stable}' = {PolicyOf(disk)}
      BY <2>3 DEF PolicyOf
    <3> QED  BY <2>1, <2>3, <3>1 DEF G!Next, G!Settle
  <2>4. CASE ~Forwards /\ stable' = stable \cup {disk'}
    <3>1. {PolicyOf(c) : c \in stable}' = {PolicyOf(c) : c \in stable} \cup {PolicyOf(disk)'}
      BY <2>4 DEF PolicyOf
    <3> QED  BY <2>1, <2>4, <3>1, <1>4 DEF G!Next, G!Store
  <2> QED  BY <1>6, <2>2, <2>3, <2>4 DEF FileStep
<1>7. CASE LossStep
  <2>1. ~Forwards'  BY <1>7 DEF LossStep, Forwards
  <2>2. PolicyOf(disk)' \in {PolicyOf(c) : c \in stable} /\ {PolicyOf(c) : c \in stable}' = {PolicyOf(disk)'}
    BY <1>7 DEF LossStep, PolicyOf
  <2> QED  BY <2>1, <2>2 DEF G!Next, G!PowerLoss
<1> QED  BY <1>1, <1>5, <1>6, <1>7 DEF Shape

\* The agent, its file, its scripts and their failures implement the fail-closed
\* gateway: unguarded traffic only ever meets the stored policy, and what is
\* stored changes only while nothing is forwarded (update_config,
\* reconcile_locked, libexec/guard).
THEOREM Refinement == Spec => ImplementsGateway
<1>1. Init => G!Init  BY GatewayInit
<1>2. IInv /\ IInv' /\ [Next]_vars => [G!Next]_(G!vars)  BY GatewayStep
<1> QED  BY <1>1, <1>2, InvariantHolds, PTL DEF Spec, ImplementsGateway, G!Spec
-----------------------------------------------------------------------------
(* Two more invariants, on top of the phases: of the DNS flows that        *)
(* conntrack has pinned, and of the devices that the guard lets through.   *)

\* Interception is as the committed exemptions want it, and no flow is pinned.
Unpinned == table # NoTable /\ table.dns /\ table.excl = mem.excl /\ stale = {}

\* The steps of an update before the memory takes the new configuration.
BeforeCommit == {"uSnap", "uGuard", "uNet", "uPolicy", "uCommit", "uSave", "uDir"}

\* Before the guard is cleared the flows were cleaned up, or interception has
\* not changed since the guard went up; a stop under way has its own guard.
FlowInv ==
    /\ NoPinnedDnsFlows
    /\ pc \in {"idle"} \cup Plain \cup BeforeCommit \cup Rollback /\ ~degraded /\ ~aborted /\ lc # "armed"
         => Unpinned
    /\ pc = "uClear" /\ ~aborted => stale = {}
    /\ pc \in {"rNet", "rRetire", "rClear"} => stale = {}

\* While rules and tunnel change, guard and table exempt the same devices; in
\* all other states the rules and the tunnel are those of the file.
ExemptInv ==
    /\ ExemptDevicesSeeCommittedPolicy
    /\ pc \in {"uNet", "uPolicy", "uCommit", "uSave", "uDir"} \cup Rollback =>
         table # NoTable /\ table.excl = mem.excl /\ guard = mem.excl
    /\ pc \in {"flows0", "open"} \cup Reconcile =>
         guard = mem.excl /\ (table # NoTable => table.excl = mem.excl)
    /\ pc \in Committed => table # NoTable /\ table.rules = Render(disk) /\ net = NetOf(disk)

\* What the steps need of the phase invariant.
Known ==
    /\ disk.excl \in SUBSET Macs /\ degraded \in BOOLEAN /\ aborted \in BOOLEAN /\ stale \in SUBSET Macs
    /\ table \in {NoTable} \cup Table /\ guard \in {NoGuard} \cup SUBSET Macs
    /\ pc \in Serving \cup {"sync0", "publish0", "flows0", "open"} => mem.excl \in SUBSET Macs
    /\ pc \in Guarded => guard # NoGuard
    /\ pc \in {"off", "idle", "lock"} \cup Busy
    /\ lc \in {"stopping", "armed"} => pc \in {"off", "idle", "lock"}
    /\ lc \in {"boot", "stopped"} => pc = "off"
    /\ pc \in Update \cup Rollback \cup {"kSave", "kDir"} => ~degraded
    /\ pc \in Committed \cup Reconcile \cup Startup => degraded
    /\ pc \in {"kDir", "aDir"} => next.excl = mem.excl
    /\ pc \in {"uClear", "rClear"} => Applied(mem, mem.excl)
    /\ pc = "uGuard" => table # NoTable /\ table.excl = mem.excl
    /\ pc \in {"uDir", "uPublish", "uFlows", "uClear", "kDir"} =>
         table # NoTable /\ table.rules = Render(disk) /\ net = NetOf(disk)
    /\ pc = "kSave" => table # NoTable /\ table.rules = Render(next) /\ net = NetOf(next)
    /\ pc = "aSave" => Render(next) = Render(disk) /\ NetOf(next) = NetOf(disk)

\* The phase invariant gives these facts.
LEMMA KnownFacts == ASSUME IInv PROVE Known
<1>1. /\ disk \in Config /\ disk.excl \in SUBSET Macs /\ degraded \in BOOLEAN /\ aborted \in BOOLEAN
      /\ stale \in SUBSET Macs /\ table \in {NoTable} \cup Table /\ guard \in {NoGuard} \cup SUBSET Macs
      /\ pc \in {"off", "idle", "lock"} \cup Busy
  BY DEF IInv, StoreTypes, AgentTypes, ControlTypes, KernelTypes, Config
<1>2. /\ pc \in Serving \cup {"sync0", "publish0", "flows0", "open"} => mem \in Config /\ mem.excl \in SUBSET Macs
      /\ pc \in Editing => next \in Config
  BY DEF IInv, Control, AgentTypes, LocalTypes, Config
<1>3. /\ pc \in Guarded => guard # NoGuard
      /\ lc \in {"stopping", "armed"} => pc \in {"off", "idle", "lock"}
      /\ lc \in {"boot", "stopped"} => pc = "off"
  BY <1>1 DEF IInv, Control, Guarding
<1>4. /\ pc \in Update \cup Rollback \cup {"kSave", "kDir"} => ~degraded
      /\ pc \in Committed \cup Reconcile \cup Startup => degraded
  BY DEF IInv, Updating, RollingBack, CommittedButDegraded, Starting
<1>5. pc \in {"aSave", "aDir"} => Render(next) = Render(mem) /\ NetOf(next) = NetOf(mem) /\ next.excl = mem.excl
  BY <1>2, SameIntentFacts DEF IInv, AtRest
<1>6. pc = "aSave" => Render(disk) = Render(mem) /\ NetOf(disk) = NetOf(mem)
  BY <1>1, <1>2, SameIntentFacts DEF IInv, AtRest
<1>7. pc \in {"kSave", "kDir"} => Render(next) = Render(mem) /\ NetOf(next) = NetOf(mem) /\ next.excl = mem.excl
  BY DEF IInv, Updating, Promised
<1>8. pc \in {"uGuard", "kSave", "kDir"} =>
        table # NoTable /\ table.rules = Render(mem) /\ table.excl = mem.excl /\ net = NetOf(mem)
  BY DEF IInv, AtRest, Settled
<1>9. pc = "uDir" => table # NoTable /\ table.rules = Render(next) /\ net = NetOf(next)
  BY DEF IInv, Updating
<1>10. pc \in {"uDir", "kDir"} => disk = next  BY DEF IInv, Updating
<1>11. pc \in {"uPublish", "uFlows", "uClear"} =>
         table # NoTable /\ table.rules = Render(mem) /\ net = NetOf(mem) /\ disk = mem
  BY DEF IInv, Finishing
<1>12. pc \in {"uClear", "rClear"} => Applied(mem, mem.excl)  BY DEF IInv, Finishing, Starting
<1> QED  BY <1>1, <1>2, <1>3, <1>4, <1>5, <1>6, <1>7, <1>8, <1>9, <1>10, <1>11, <1>12 DEF Known

\* Where an update begins.
LEMMA UpdateBegins == ASSUME IInv, BeginUpdate PROVE pc' \in {"kSave", "uGuard", "uSnap"}
<1>1. mem \in Config /\ WellFormed(mem)  BY DEF BeginUpdate, IInv, AgentTypes, Control, Stored
<1>2. PICK e \in Edits(mem) :
         pc' = CASE e.change = "config"  -> "kSave"
                 [] e.change = "policy"  -> "uGuard"
                 [] e.change = "network" -> "uSnap"
  BY DEF BeginUpdate
<1>3. e.change \in Changes  BY <1>1, EditsAreGood DEF GoodEdit
<1> QED  BY <1>2, <1>3 DEF Changes

\* apply_policy keeps the exemptions, whichever transaction calls it.
LEMMA PolicyFacts ==
    ASSUME IInv, UpdatePolicy \/ RollbackPolicy \/ ReconcilePolicy
    PROVE  \/ UNCHANGED <<table, stale>>
           \/ table' # NoTable /\ table'.dns /\ table'.excl = mem.excl /\ PinFlows
<1>1. mem \in Config /\ mem.excl \in SUBSET Macs
  BY DEF UpdatePolicy, RollbackPolicy, ReconcilePolicy, IInv, AgentTypes, Control, Config
<1>2. CASE UpdatePolicy
  <2>1. next \in Config  BY <1>2 DEF UpdatePolicy, IInv, LocalTypes, Control
  <2> QED  BY <1>1, <1>2, <2>1, ApplyTableFacts DEF UpdatePolicy, IInv, ApplyTable
<1>3. CASE RollbackPolicy
  <2>1. active = mem.routing  BY <1>3 DEF RollbackPolicy, IInv, RollingBack
  <2> QED  BY <1>1, <1>3, <2>1, ApplyTableFacts DEF RollbackPolicy, IInv, ApplyTable
<1>4. CASE ReconcilePolicy
  BY <1>1, <1>4, ApplyTableFacts DEF ReconcilePolicy, IInv, ApplyTable
<1> QED  BY <1>2, <1>3, <1>4

\* A table with the same exemptions pins nothing.
LEMMA SameExemptionsPinNothing ==
    ASSUME Unpinned, table' # NoTable, table'.dns, table'.excl = mem.excl, PinFlows
    PROVE  stale' = {}
BY DEF Unpinned, PinFlows, Intercepts

\* Exemptions of table and guard that are set together agree.
LEMMA SetTogether ==
    ASSUME IInv, NEW excl \in SUBSET Macs,
           \/ PublishSet(excl)
           \/ excl = disk.excl /\ (Arm \/ ArmAndCleanup \/ StopInterception)
    PROVE  /\ guard' = excl /\ (table # NoTable => table' # NoTable /\ table'.rules = table.rules)
           /\ table' # NoTable => table'.excl = excl
           /\ ExemptDevicesSeeCommittedPolicy'
<1>1. CASE PublishSet(excl) \/ (excl = disk.excl /\ Arm)
  <2>1. PublishSet(excl)  BY <1>1 DEF Arm
  <2>2. /\ guard' = excl /\ (table = NoTable => table' = NoTable)
        /\ table # NoTable => table' # NoTable /\ table'.excl = excl /\ table'.rules = table.rules
    BY <2>1, PublishSetFacts DEF IInv
  <2> QED  BY <2>2 DEF ExemptDevicesSeeCommittedPolicy
<1>2. CASE excl = disk.excl /\ ArmAndCleanup
  <2>1. table = NoTable => table' = NoTable  BY <1>2 DEF ArmAndCleanup
  <2>2. /\ guard' = excl
        /\ table # NoTable => table' # NoTable /\ table'.excl = excl /\ table'.rules = table.rules
    BY <1>2, ArmAndCleanupFacts DEF IInv
  <2> QED  BY <2>1, <2>2 DEF ExemptDevicesSeeCommittedPolicy
<1>3. CASE excl = disk.excl /\ StopInterception
  <2>1. table = NoTable => table' = NoTable  BY <1>3 DEF StopInterception
  <2>2. /\ guard' = excl
        /\ table # NoTable => table' # NoTable /\ table'.excl = excl /\ table'.rules = table.rules
    BY <1>3, StopInterceptionFacts DEF IInv
  <2> QED  BY <2>1, <2>2 DEF ExemptDevicesSeeCommittedPolicy
<1> QED  BY <1>1, <1>2, <1>3

\* An update before its commit changes no interception; after it the flows are cleaned up.
LEMMA UpdateStepFlows == ASSUME IInv, FlowInv, UpdateStep PROVE FlowInv'
<1>1. Known  BY KnownFacts
<1>2. CASE BeginUpdate
  BY <1>1, <1>2, UpdateBegins DEF BeginUpdate, Known, FlowInv, Unpinned, NoPinnedDnsFlows, BeforeCommit
<1>3. CASE CaptureSnapshot
  BY <1>1, <1>3, NoGuardIsFresh, NoTableIsFresh DEF CaptureSnapshot, Known, FlowInv, Unpinned, NoPinnedDnsFlows, BeforeCommit
<1>4. CASE InstallGuard
  BY <1>1, <1>4, NoGuardIsFresh, NoTableIsFresh DEF InstallGuard, Known, FlowInv, Unpinned, NoPinnedDnsFlows, BeforeCommit
<1>5. CASE UpdateNetwork
  BY <1>1, <1>5, NoGuardIsFresh, NoTableIsFresh DEF UpdateNetwork, Known, FlowInv, Unpinned, NoPinnedDnsFlows, BeforeCommit
<1>6. CASE UpdatePolicy
  <2>1. ~aborted => stale' = {}
    BY <1>1, <1>6, PolicyFacts, SameExemptionsPinNothing DEF UpdatePolicy, Known, FlowInv, Unpinned, NoPinnedDnsFlows, BeforeCommit
  <2>2. UNCHANGED table \/ (table' # NoTable /\ table'.dns /\ table'.excl = mem.excl)  BY <1>6, PolicyFacts
  <2> QED  BY <1>1, <1>6, <2>1, <2>2 DEF UpdatePolicy, Known, FlowInv, Unpinned, NoPinnedDnsFlows, BeforeCommit
<1>7. CASE CommitTargets
  BY <1>1, <1>7, NoGuardIsFresh, NoTableIsFresh DEF CommitTargets, Known, FlowInv, Unpinned, NoPinnedDnsFlows, BeforeCommit
<1>8. CASE SaveConfig
  BY <1>1, <1>8, NoGuardIsFresh, NoTableIsFresh DEF SaveConfig, Known, FlowInv, Unpinned, NoPinnedDnsFlows, BeforeCommit
<1>9. CASE SyncDirectory
  BY <1>1, <1>9, NoGuardIsFresh, NoTableIsFresh DEF SyncDirectory, Known, FlowInv, Unpinned, NoPinnedDnsFlows, BeforeCommit
<1>10. CASE PublishExclusions
  BY <1>1, <1>10, NoGuardIsFresh, NoTableIsFresh DEF PublishExclusions, PublishSet, Known, FlowInv, Unpinned, NoPinnedDnsFlows, BeforeCommit
<1>11. CASE CleanupDnsFlows
  BY <1>1, <1>11, NoGuardIsFresh, NoTableIsFresh DEF CleanupDnsFlows, Known, FlowInv, Unpinned, NoPinnedDnsFlows, BeforeCommit
<1>12. CASE ClearGuard
  BY <1>1, <1>12, NoGuardIsFresh, NoTableIsFresh DEF ClearGuard, Known, FlowInv, Unpinned, NoPinnedDnsFlows, BeforeCommit
<1> QED  BY <1>2, <1>3, <1>4, <1>5, <1>6, <1>7, <1>8, <1>9, <1>10, <1>11, <1>12 DEF UpdateStep

\* A rollback restores the same interception.
LEMMA RollbackStepFlows == ASSUME IInv, FlowInv, RollbackStep PROVE FlowInv'
<1>1. Known  BY KnownFacts
<1>2. CASE RollbackNetwork
  BY <1>1, <1>2, NoGuardIsFresh, NoTableIsFresh DEF RollbackNetwork, Known, FlowInv, Unpinned, NoPinnedDnsFlows, BeforeCommit
<1>3. CASE RestoreSnapshot
  BY <1>1, <1>3, NoGuardIsFresh, NoTableIsFresh DEF RestoreSnapshot, Known, FlowInv, Unpinned, NoPinnedDnsFlows, BeforeCommit
<1>4. CASE RollbackPolicy
  <2>1. ~aborted => stale' = {}
    BY <1>1, <1>4, PolicyFacts, SameExemptionsPinNothing DEF RollbackPolicy, Known, FlowInv, Unpinned, NoPinnedDnsFlows, BeforeCommit
  <2>2. UNCHANGED table \/ (table' # NoTable /\ table'.dns /\ table'.excl = mem.excl)  BY <1>4, PolicyFacts
  <2> QED  BY <1>1, <1>4, <2>1, <2>2 DEF RollbackPolicy, Known, FlowInv, Unpinned, NoPinnedDnsFlows, BeforeCommit
<1>5. CASE RollbackTargets
  BY <1>1, <1>5, NoGuardIsFresh, NoTableIsFresh DEF RollbackTargets, Known, FlowInv, Unpinned, NoPinnedDnsFlows, BeforeCommit
<1>6. CASE RollbackClear
  BY <1>1, <1>6, NoGuardIsFresh, NoTableIsFresh DEF RollbackClear, Known, FlowInv, Unpinned, NoPinnedDnsFlows, BeforeCommit
<1> QED  BY <1>2, <1>3, <1>4, <1>5, <1>6 DEF RollbackStep

\* committed_failure leaves the guard where it is.
LEMMA CommittedStepFlows == ASSUME IInv, FlowInv, CommittedStep PROVE FlowInv'
<1>1. Known  BY KnownFacts
<1>2. CASE CommittedSync
  BY <1>1, <1>2, NoGuardIsFresh, NoTableIsFresh DEF CommittedSync, Known, FlowInv, Unpinned, NoPinnedDnsFlows, BeforeCommit
<1>3. CASE CommittedPublish
  BY <1>1, <1>3, NoGuardIsFresh, NoTableIsFresh DEF CommittedPublish, PublishSet, Known, FlowInv, Unpinned, NoPinnedDnsFlows, BeforeCommit
<1>4. CASE CommittedFlows
  BY <1>1, <1>4, NoGuardIsFresh, NoTableIsFresh DEF CommittedFlows, Known, FlowInv, Unpinned, NoPinnedDnsFlows, BeforeCommit
<1>5. CASE CommittedGuard
  BY <1>1, <1>5, NoGuardIsFresh, NoTableIsFresh DEF CommittedGuard, Known, FlowInv, Unpinned, NoPinnedDnsFlows, BeforeCommit
<1> QED  BY <1>2, <1>3, <1>4, <1>5 DEF CommittedStep

\* Edits of the file alone change no exemption.
LEMMA PlainStepFlows == ASSUME IInv, FlowInv, PlainStep PROVE FlowInv'
<1>1. Known  BY KnownFacts
<1>2. CASE SavePlain
  BY <1>1, <1>2, NoGuardIsFresh, NoTableIsFresh DEF SavePlain, Known, FlowInv, Unpinned, NoPinnedDnsFlows, BeforeCommit
<1>3. CASE SyncPlain
  BY <1>1, <1>3, NoGuardIsFresh, NoTableIsFresh DEF SyncPlain, Known, FlowInv, Unpinned, NoPinnedDnsFlows, BeforeCommit
<1>4. CASE BeginAutoUpdate
  BY <1>1, <1>4, NoGuardIsFresh, NoTableIsFresh DEF BeginAutoUpdate, Known, FlowInv, Unpinned, NoPinnedDnsFlows, BeforeCommit
<1>5. CASE SaveAutoUpdate
  BY <1>1, <1>5, NoGuardIsFresh, NoTableIsFresh DEF SaveAutoUpdate, Known, FlowInv, Unpinned, NoPinnedDnsFlows, BeforeCommit
<1>6. CASE SyncAutoUpdate
  BY <1>1, <1>6, NoGuardIsFresh, NoTableIsFresh DEF SyncAutoUpdate, Known, FlowInv, Unpinned, NoPinnedDnsFlows, BeforeCommit
<1> QED  BY <1>2, <1>3, <1>4, <1>5, <1>6 DEF PlainStep

\* The start-up works behind the guard.
LEMMA StartStepFlows == ASSUME IInv, FlowInv, StartStep PROVE FlowInv'
<1>1. Known  BY KnownFacts
<1>2. CASE StartLock
  BY <1>1, <1>2, NoGuardIsFresh, NoTableIsFresh DEF StartLock, Known, FlowInv, Unpinned, NoPinnedDnsFlows, BeforeCommit
<1>3. CASE StartLoad
  BY <1>1, <1>3, NoGuardIsFresh, NoTableIsFresh DEF StartLoad, Known, FlowInv, Unpinned, NoPinnedDnsFlows, BeforeCommit
<1>4. CASE StartSync
  BY <1>1, <1>4, NoGuardIsFresh, NoTableIsFresh DEF StartSync, Known, FlowInv, Unpinned, NoPinnedDnsFlows, BeforeCommit
<1>5. CASE StartPublish
  BY <1>1, <1>5, NoGuardIsFresh, NoTableIsFresh DEF StartPublish, PublishSet, Known, FlowInv, Unpinned, NoPinnedDnsFlows, BeforeCommit
<1>6. CASE StartFlows
  BY <1>1, <1>6, NoGuardIsFresh, NoTableIsFresh DEF StartFlows, Known, FlowInv, Unpinned, NoPinnedDnsFlows, BeforeCommit
<1>7. CASE StartOpen
  BY <1>1, <1>7, NoGuardIsFresh, NoTableIsFresh DEF StartOpen, Known, FlowInv, Unpinned, NoPinnedDnsFlows, BeforeCommit
<1> QED  BY <1>2, <1>3, <1>4, <1>5, <1>6, <1>7 DEF StartStep

\* A full reconcile cleans up before it clears the guard.
LEMMA ReconcileStepFlows == ASSUME IInv, FlowInv, ReconcileStep PROVE FlowInv'
<1>1. Known  BY KnownFacts
<1>2. CASE ReconcileSync
  BY <1>1, <1>2, NoGuardIsFresh, NoTableIsFresh DEF ReconcileSync, Known, FlowInv, Unpinned, NoPinnedDnsFlows, BeforeCommit
<1>3. CASE ReconcileGuard
  BY <1>1, <1>3, NoGuardIsFresh, NoTableIsFresh DEF ReconcileGuard, Known, FlowInv, Unpinned, NoPinnedDnsFlows, BeforeCommit
<1>4. CASE ReconcilePolicy
  BY <1>1, <1>4, NoGuardIsFresh, NoTableIsFresh DEF ReconcilePolicy, Known, FlowInv, Unpinned, NoPinnedDnsFlows, BeforeCommit
<1>5. CASE ReconcileTargets
  BY <1>1, <1>5, NoGuardIsFresh, NoTableIsFresh DEF ReconcileTargets, Known, FlowInv, Unpinned, NoPinnedDnsFlows, BeforeCommit
<1>6. CASE ReconcileFlows
  BY <1>1, <1>6, NoGuardIsFresh, NoTableIsFresh DEF ReconcileFlows, Known, FlowInv, Unpinned, NoPinnedDnsFlows, BeforeCommit
<1>7. CASE ReconcileNetwork
  BY <1>1, <1>7, NoGuardIsFresh, NoTableIsFresh DEF ReconcileNetwork, Known, FlowInv, Unpinned, NoPinnedDnsFlows, BeforeCommit
<1>8. CASE ReconcileRetire
  BY <1>1, <1>8, NoGuardIsFresh, NoTableIsFresh DEF ReconcileRetire, Known, FlowInv, Unpinned, NoPinnedDnsFlows, BeforeCommit
<1>9. CASE ReconcileClear
  BY <1>1, <1>9, NoGuardIsFresh, NoTableIsFresh DEF ReconcileClear, Known, FlowInv, Unpinned, NoPinnedDnsFlows, BeforeCommit
<1> QED  BY <1>2, <1>3, <1>4, <1>5, <1>6, <1>7, <1>8, <1>9 DEF ReconcileStep

\* The scripts install the guard, and a stop that was given up is on record.
LEMMA ServiceStepFlows == ASSUME IInv, FlowInv, ServiceStep PROVE FlowInv'
<1>1. Known  BY KnownFacts
<1>2. CASE Respawn
  BY <1>1, <1>2, NoGuardIsFresh, NoTableIsFresh DEF Respawn, Known, FlowInv, Unpinned, NoPinnedDnsFlows, BeforeCommit
<1>3. CASE BootGuard
  BY <1>1, <1>3, NoGuardIsFresh, NoTableIsFresh DEF BootGuard, Arm, PublishSet, Known, FlowInv, Unpinned, NoPinnedDnsFlows, BeforeCommit
<1>4. CASE ServiceStart
  BY <1>1, <1>4, NoGuardIsFresh, NoTableIsFresh DEF ServiceStart, ArmAndCleanup, Arm, PublishSet, Known, FlowInv, Unpinned, NoPinnedDnsFlows, BeforeCommit
<1>5. CASE ServiceStop
  BY <1>1, <1>5, NoGuardIsFresh, NoTableIsFresh DEF ServiceStop, Known, FlowInv, Unpinned, NoPinnedDnsFlows, BeforeCommit
<1>6. CASE GuardStop
  BY <1>1, <1>6, NoGuardIsFresh, NoTableIsFresh DEF GuardStop, StopInterception, Known, FlowInv, Unpinned, NoPinnedDnsFlows, BeforeCommit
<1>7. CASE StopAborted
  BY <1>1, <1>7, NoGuardIsFresh, NoTableIsFresh DEF StopAborted, Arm, PublishSet, StopInterception, Known, FlowInv, Unpinned, NoPinnedDnsFlows, BeforeCommit
<1>8. CASE AgentKilled
  BY <1>1, <1>8, NoGuardIsFresh, NoTableIsFresh DEF AgentKilled, ArmAndCleanup, Known, FlowInv, Unpinned, NoPinnedDnsFlows, BeforeCommit
<1> QED  BY <1>2, <1>3, <1>4, <1>5, <1>6, <1>7, <1>8 DEF ServiceStep

\* An update works on a table that bypasses whom the guard lets through.
LEMMA UpdateStepExempt == ASSUME IInv, ExemptInv, UpdateStep PROVE ExemptInv'
<1>1. Known  BY KnownFacts
<1>2. CASE BeginUpdate
  BY <1>1, <1>2, UpdateBegins DEF BeginUpdate, Known, ExemptInv, ExemptDevicesSeeCommittedPolicy
<1>3. CASE CaptureSnapshot
  BY <1>1, <1>3, NoGuardIsFresh, NoTableIsFresh DEF CaptureSnapshot, Known, ExemptInv, ExemptDevicesSeeCommittedPolicy
<1>4. CASE InstallGuard
  BY <1>1, <1>4, NoGuardIsFresh, NoTableIsFresh DEF InstallGuard, Known, ExemptInv, ExemptDevicesSeeCommittedPolicy
<1>5. CASE UpdateNetwork
  BY <1>1, <1>5, NoGuardIsFresh, NoTableIsFresh DEF UpdateNetwork, Known, ExemptInv, ExemptDevicesSeeCommittedPolicy
<1>6. CASE UpdatePolicy
  BY <1>1, <1>6, PolicyFacts DEF UpdatePolicy, Known, ExemptInv, ExemptDevicesSeeCommittedPolicy
<1>7. CASE CommitTargets
  BY <1>1, <1>7, NoGuardIsFresh, NoTableIsFresh DEF CommitTargets, Known, ExemptInv, ExemptDevicesSeeCommittedPolicy
<1>8. CASE SaveConfig
  BY <1>1, <1>8, NoGuardIsFresh, NoTableIsFresh DEF SaveConfig, Known, ExemptInv, ExemptDevicesSeeCommittedPolicy
<1>9. CASE SyncDirectory
  BY <1>1, <1>9, NoGuardIsFresh, NoTableIsFresh DEF SyncDirectory, Known, ExemptInv, ExemptDevicesSeeCommittedPolicy
<1>10. CASE PublishExclusions
  <2>1. \/ UNCHANGED <<table, guard>>
        \/ guard' \in {{}, guard} /\ table' = table
        \/ /\ guard' = mem.excl /\ (table # NoTable => table' # NoTable /\ table'.rules = table.rules)
           /\ (table' # NoTable => table'.excl = mem.excl) /\ ExemptDevicesSeeCommittedPolicy'
    BY <1>1, <1>10, SetTogether DEF PublishExclusions, Known
  <2>2. ExemptDevicesSeeCommittedPolicy'
    BY <1>1, <1>10, <2>1 DEF PublishExclusions, ExemptInv, ExemptDevicesSeeCommittedPolicy
  <2> QED  BY <1>1, <1>10, <2>1, <2>2 DEF PublishExclusions, Known, ExemptInv
<1>11. CASE CleanupDnsFlows
  BY <1>1, <1>11, NoGuardIsFresh, NoTableIsFresh DEF CleanupDnsFlows, Known, ExemptInv, ExemptDevicesSeeCommittedPolicy
<1>12. CASE ClearGuard
  BY <1>1, <1>12, NoGuardIsFresh, NoTableIsFresh DEF ClearGuard, Known, ExemptInv, ExemptDevicesSeeCommittedPolicy
<1> QED  BY <1>2, <1>3, <1>4, <1>5, <1>6, <1>7, <1>8, <1>9, <1>10, <1>11, <1>12 DEF UpdateStep

\* So does a rollback.
LEMMA RollbackStepExempt == ASSUME IInv, ExemptInv, RollbackStep PROVE ExemptInv'
<1>1. Known  BY KnownFacts
<1>2. CASE RollbackNetwork
  BY <1>1, <1>2, NoGuardIsFresh, NoTableIsFresh DEF RollbackNetwork, Known, ExemptInv, ExemptDevicesSeeCommittedPolicy
<1>3. CASE RestoreSnapshot
  BY <1>1, <1>3, NoGuardIsFresh, NoTableIsFresh DEF RestoreSnapshot, Known, ExemptInv, ExemptDevicesSeeCommittedPolicy
<1>4. CASE RollbackPolicy
  BY <1>1, <1>4, PolicyFacts DEF RollbackPolicy, Known, ExemptInv, ExemptDevicesSeeCommittedPolicy
<1>5. CASE RollbackTargets
  BY <1>1, <1>5, NoGuardIsFresh, NoTableIsFresh DEF RollbackTargets, Known, ExemptInv, ExemptDevicesSeeCommittedPolicy
<1>6. CASE RollbackClear
  BY <1>1, <1>6, NoGuardIsFresh, NoTableIsFresh DEF RollbackClear, Known, ExemptInv, ExemptDevicesSeeCommittedPolicy
<1> QED  BY <1>2, <1>3, <1>4, <1>5, <1>6 DEF RollbackStep

\* After the commit the table has the rules of the file.
LEMMA CommittedStepExempt == ASSUME IInv, ExemptInv, CommittedStep PROVE ExemptInv'
<1>1. Known  BY KnownFacts
<1>2. CASE CommittedSync
  BY <1>1, <1>2, NoGuardIsFresh, NoTableIsFresh DEF CommittedSync, Known, ExemptInv, ExemptDevicesSeeCommittedPolicy
<1>3. CASE CommittedPublish
  <2>1. \/ UNCHANGED <<table, guard>>
        \/ guard' \in {{}, guard} /\ table' = table
        \/ /\ guard' = mem.excl /\ (table # NoTable => table' # NoTable /\ table'.rules = table.rules)
           /\ (table' # NoTable => table'.excl = mem.excl) /\ ExemptDevicesSeeCommittedPolicy'
    BY <1>1, <1>3, SetTogether DEF CommittedPublish, Known
  <2>2. ExemptDevicesSeeCommittedPolicy'
    BY <1>1, <1>3, <2>1 DEF CommittedPublish, ExemptInv, ExemptDevicesSeeCommittedPolicy
  <2> QED  BY <1>1, <1>3, <2>1, <2>2 DEF CommittedPublish, Known, ExemptInv
<1>4. CASE CommittedFlows
  BY <1>1, <1>4, NoGuardIsFresh, NoTableIsFresh DEF CommittedFlows, Known, ExemptInv, ExemptDevicesSeeCommittedPolicy
<1>5. CASE CommittedGuard
  BY <1>1, <1>5, NoGuardIsFresh, NoTableIsFresh DEF CommittedGuard, Known, ExemptInv, ExemptDevicesSeeCommittedPolicy
<1> QED  BY <1>2, <1>3, <1>4, <1>5 DEF CommittedStep

\* They ask the same of the kernel as before.
LEMMA PlainStepExempt == ASSUME IInv, ExemptInv, PlainStep PROVE ExemptInv'
<1>1. Known  BY KnownFacts
<1>2. CASE SavePlain
  BY <1>1, <1>2, NoGuardIsFresh, NoTableIsFresh DEF SavePlain, Known, ExemptInv, ExemptDevicesSeeCommittedPolicy
<1>3. CASE SyncPlain
  BY <1>1, <1>3, NoGuardIsFresh, NoTableIsFresh DEF SyncPlain, Known, ExemptInv, ExemptDevicesSeeCommittedPolicy
<1>4. CASE BeginAutoUpdate
  BY <1>1, <1>4, NoGuardIsFresh, NoTableIsFresh DEF BeginAutoUpdate, Known, ExemptInv, ExemptDevicesSeeCommittedPolicy
<1>5. CASE SaveAutoUpdate
  BY <1>1, <1>5, NoGuardIsFresh, NoTableIsFresh DEF SaveAutoUpdate, Known, ExemptInv, ExemptDevicesSeeCommittedPolicy
<1>6. CASE SyncAutoUpdate
  BY <1>1, <1>6, NoGuardIsFresh, NoTableIsFresh DEF SyncAutoUpdate, Known, ExemptInv, ExemptDevicesSeeCommittedPolicy
<1> QED  BY <1>2, <1>3, <1>4, <1>5, <1>6 DEF PlainStep

\* It publishes the exemptions of the file.
LEMMA StartStepExempt == ASSUME IInv, ExemptInv, StartStep PROVE ExemptInv'
<1>1. Known  BY KnownFacts
<1>2. CASE StartLock
  BY <1>1, <1>2, NoGuardIsFresh, NoTableIsFresh DEF StartLock, Known, ExemptInv, ExemptDevicesSeeCommittedPolicy
<1>3. CASE StartLoad
  BY <1>1, <1>3, NoGuardIsFresh, NoTableIsFresh DEF StartLoad, Known, ExemptInv, ExemptDevicesSeeCommittedPolicy
<1>4. CASE StartSync
  BY <1>1, <1>4, NoGuardIsFresh, NoTableIsFresh DEF StartSync, Known, ExemptInv, ExemptDevicesSeeCommittedPolicy
<1>5. CASE StartPublish
  <2>1. \/ pc' = "off" /\ guard' \in {{}, guard} /\ table' = table
        \/ /\ pc' = "flows0" /\ mem' = mem /\ guard' = mem.excl
           /\ (table' # NoTable => table'.excl = mem.excl) /\ ExemptDevicesSeeCommittedPolicy'
    BY <1>1, <1>5, SetTogether DEF StartPublish, Known
  <2>2. ExemptDevicesSeeCommittedPolicy'
    BY <1>1, <1>5, <2>1 DEF StartPublish, ExemptInv, ExemptDevicesSeeCommittedPolicy
  <2> QED  BY <2>1, <2>2 DEF ExemptInv
<1>6. CASE StartFlows
  BY <1>1, <1>6, NoGuardIsFresh, NoTableIsFresh DEF StartFlows, Known, ExemptInv, ExemptDevicesSeeCommittedPolicy
<1>7. CASE StartOpen
  BY <1>1, <1>7, NoGuardIsFresh, NoTableIsFresh DEF StartOpen, Known, ExemptInv, ExemptDevicesSeeCommittedPolicy
<1> QED  BY <1>2, <1>3, <1>4, <1>5, <1>6, <1>7 DEF StartStep

\* A full reconcile keeps the exemptions that the start-up published.
LEMMA ReconcileStepExempt == ASSUME IInv, ExemptInv, ReconcileStep PROVE ExemptInv'
<1>1. Known  BY KnownFacts
<1>2. CASE ReconcileSync
  BY <1>1, <1>2, NoGuardIsFresh, NoTableIsFresh DEF ReconcileSync, Known, ExemptInv, ExemptDevicesSeeCommittedPolicy
<1>3. CASE ReconcileGuard
  BY <1>1, <1>3, NoGuardIsFresh, NoTableIsFresh DEF ReconcileGuard, Known, ExemptInv, ExemptDevicesSeeCommittedPolicy
<1>4. CASE ReconcilePolicy
  BY <1>1, <1>4, PolicyFacts DEF ReconcilePolicy, Known, ExemptInv, ExemptDevicesSeeCommittedPolicy
<1>5. CASE ReconcileTargets
  BY <1>1, <1>5, NoGuardIsFresh, NoTableIsFresh DEF ReconcileTargets, Known, ExemptInv, ExemptDevicesSeeCommittedPolicy
<1>6. CASE ReconcileFlows
  BY <1>1, <1>6, NoGuardIsFresh, NoTableIsFresh DEF ReconcileFlows, Known, ExemptInv, ExemptDevicesSeeCommittedPolicy
<1>7. CASE ReconcileNetwork
  BY <1>1, <1>7, NoGuardIsFresh, NoTableIsFresh DEF ReconcileNetwork, Known, ExemptInv, ExemptDevicesSeeCommittedPolicy
<1>8. CASE ReconcileRetire
  BY <1>1, <1>8, NoGuardIsFresh, NoTableIsFresh DEF ReconcileRetire, Known, ExemptInv, ExemptDevicesSeeCommittedPolicy
<1>9. CASE ReconcileClear
  BY <1>1, <1>9, NoGuardIsFresh, NoTableIsFresh DEF ReconcileClear, Known, ExemptInv, ExemptDevicesSeeCommittedPolicy
<1> QED  BY <1>2, <1>3, <1>4, <1>5, <1>6, <1>7, <1>8, <1>9 DEF ReconcileStep

\* The scripts set guard and exemptions together.
LEMMA ServiceStepExempt == ASSUME IInv, ExemptInv, ServiceStep PROVE ExemptInv'
<1>1. Known  BY KnownFacts
<1>2. CASE Respawn
  BY <1>1, <1>2, NoGuardIsFresh, NoTableIsFresh DEF Respawn, Known, ExemptInv, ExemptDevicesSeeCommittedPolicy
<1>3. CASE BootGuard
  <2>1. \/ UNCHANGED <<table, guard>>
        \/ guard' \in {{}, guard} /\ table' = table
        \/ /\ guard' = disk.excl /\ (table # NoTable => table' # NoTable /\ table'.rules = table.rules)
           /\ (table' # NoTable => table'.excl = disk.excl) /\ ExemptDevicesSeeCommittedPolicy'
    BY <1>1, <1>3, SetTogether DEF BootGuard, Known
  <2>2. ExemptDevicesSeeCommittedPolicy'
    BY <1>1, <1>3, <2>1 DEF BootGuard, ExemptInv, ExemptDevicesSeeCommittedPolicy
  <2> QED  BY <1>1, <1>3, <2>1, <2>2 DEF BootGuard, Known, ExemptInv
<1>4. CASE ServiceStart
  <2>1. \/ UNCHANGED <<table, guard>>
        \/ guard' \in {{}, guard} /\ table' = table
        \/ /\ guard' = disk.excl /\ (table # NoTable => table' # NoTable /\ table'.rules = table.rules)
           /\ (table' # NoTable => table'.excl = disk.excl) /\ ExemptDevicesSeeCommittedPolicy'
    BY <1>1, <1>4, SetTogether DEF ServiceStart, Known
  <2>2. ExemptDevicesSeeCommittedPolicy'
    BY <1>1, <1>4, <2>1 DEF ServiceStart, ExemptInv, ExemptDevicesSeeCommittedPolicy
  <2> QED  BY <1>1, <1>4, <2>1, <2>2 DEF ServiceStart, Known, ExemptInv
<1>5. CASE ServiceStop
  BY <1>1, <1>5, NoGuardIsFresh, NoTableIsFresh DEF ServiceStop, Known, ExemptInv, ExemptDevicesSeeCommittedPolicy
<1>6. CASE GuardStop
  <2>1. \/ UNCHANGED <<table, guard>>
        \/ guard' \in {{}, guard} /\ table' = table
        \/ /\ guard' = disk.excl /\ (table # NoTable => table' # NoTable /\ table'.rules = table.rules)
           /\ (table' # NoTable => table'.excl = disk.excl) /\ ExemptDevicesSeeCommittedPolicy'
    BY <1>1, <1>6, SetTogether DEF GuardStop, Known
  <2>2. ExemptDevicesSeeCommittedPolicy'
    BY <1>1, <1>6, <2>1 DEF GuardStop, ExemptInv, ExemptDevicesSeeCommittedPolicy
  <2> QED  BY <1>1, <1>6, <2>1, <2>2 DEF GuardStop, Known, ExemptInv
<1>7. CASE StopAborted
  <2>1. \/ UNCHANGED <<table, guard>>
        \/ guard' \in {{}, guard} /\ table' = table
        \/ /\ guard' = disk.excl /\ (table # NoTable => table' # NoTable /\ table'.rules = table.rules)
           /\ (table' # NoTable => table'.excl = disk.excl) /\ ExemptDevicesSeeCommittedPolicy'
    BY <1>1, <1>7, SetTogether DEF StopAborted, Known
  <2>2. ExemptDevicesSeeCommittedPolicy'
    BY <1>1, <1>7, <2>1 DEF StopAborted, ExemptInv, ExemptDevicesSeeCommittedPolicy
  <2> QED  BY <1>1, <1>7, <2>1, <2>2 DEF StopAborted, Known, ExemptInv
<1>8. CASE AgentKilled
  <2>1. \/ UNCHANGED <<table, guard>>
        \/ guard' \in {{}, guard} /\ table' = table
        \/ /\ guard' = disk.excl /\ (table # NoTable => table' # NoTable /\ table'.rules = table.rules)
           /\ (table' # NoTable => table'.excl = disk.excl) /\ ExemptDevicesSeeCommittedPolicy'
    BY <1>1, <1>8, SetTogether DEF AgentKilled, Known
  <2>2. ExemptDevicesSeeCommittedPolicy'
    BY <1>1, <1>8, <2>1 DEF AgentKilled, ExemptInv, ExemptDevicesSeeCommittedPolicy
  <2> QED  BY <1>1, <1>8, <2>1, <2>2 DEF AgentKilled, Known, ExemptInv
<1> QED  BY <1>2, <1>3, <1>4, <1>5, <1>6, <1>7, <1>8 DEF ServiceStep

\* The process dies, the router loses power, or nothing happens.
LEMMA OutageFlows == ASSUME IInv, FlowInv, Crash \/ PowerLoss \/ UNCHANGED vars PROVE FlowInv'
<1>1. Known  BY KnownFacts
<1>2. CASE Crash  BY <1>1, <1>2 DEF Crash, Known, FlowInv, Unpinned, NoPinnedDnsFlows, BeforeCommit
<1>3. CASE PowerLoss  BY <1>3 DEF PowerLoss, FlowInv, Unpinned, NoPinnedDnsFlows, BeforeCommit
<1>4. CASE UNCHANGED vars  BY <1>4 DEF vars, FlowInv, Unpinned, NoPinnedDnsFlows, BeforeCommit
<1> QED  BY <1>2, <1>3, <1>4

\* A crash leaves guard, table and file; a power loss leaves no table.
LEMMA OutageExempt == ASSUME IInv, ExemptInv, Crash \/ PowerLoss \/ UNCHANGED vars PROVE ExemptInv'
<1>1. CASE Crash  BY <1>1 DEF Crash, ExemptInv, ExemptDevicesSeeCommittedPolicy
<1>2. CASE PowerLoss  BY <1>2 DEF PowerLoss, ExemptInv, ExemptDevicesSeeCommittedPolicy
<1>3. CASE UNCHANGED vars  BY <1>3 DEF vars, ExemptInv, ExemptDevicesSeeCommittedPolicy
<1> QED  BY <1>1, <1>2, <1>3

\* Every step keeps both.
LEMMA NextFlows == ASSUME IInv, FlowInv, [Next]_vars PROVE FlowInv'
BY UpdateStepFlows, RollbackStepFlows, CommittedStepFlows, PlainStepFlows, StartStepFlows,
   ReconcileStepFlows, ServiceStepFlows, OutageFlows DEF Next

\* As NextFlows, for the exempt devices.
LEMMA NextExempt == ASSUME IInv, ExemptInv, [Next]_vars PROVE ExemptInv'
BY UpdateStepExempt, RollbackStepExempt, CommittedStepExempt, PlainStepExempt, StartStepExempt,
   ReconcileStepExempt, ServiceStepExempt, OutageExempt DEF Next

\* Traffic is never forwarded while conntrack pins a device's DNS to the wrong
\* resolver: every change of the exemptions or of interception is followed by
\* the flow cleanup before the guard goes, on every path through updates, failed
\* rollbacks, restarts and reconciles (cleanup_dns_flows before clear_guard).
THEOREM PinnedFlows == Spec => []NoPinnedDnsFlows
<1>1. Init => FlowInv  BY DEF Init, FlowInv, Unpinned, NoPinnedDnsFlows, BeforeCommit
<1>2. IInv /\ FlowInv /\ [Next]_vars => FlowInv'  BY NextFlows
<1>3. FlowInv => NoPinnedDnsFlows  BY DEF FlowInv
<1> QED  BY <1>1, <1>2, <1>3, InvariantHolds, PTL DEF Spec

\* A device that the guard exempts but the routing table does not bypass is
\* never forwarded by half applied rules or a torn tunnel (install_guard with
\* the old exclusions, publish_exclusions only after the commit).
THEOREM ExemptDevices == Spec => []ExemptDevicesSeeCommittedPolicy
<1>1. Init => ExemptInv  BY DEF Init, ExemptInv, ExemptDevicesSeeCommittedPolicy
<1>2. IInv /\ ExemptInv /\ [Next]_vars => ExemptInv'  BY NextExempt
<1>3. ExemptInv => ExemptDevicesSeeCommittedPolicy  BY DEF ExemptInv
<1> QED  BY <1>1, <1>2, <1>3, InvariantHolds, PTL DEF Spec

-----------------------------------------------------------------------------
(* The answers of the API.                                                 *)

\* What a step that ends a transaction may answer.
Truthful ==
    /\ outcome' = "ok" => mem' = next /\ stable' = {next}
    /\ outcome' = "committed" => mem' = next /\ disk' = next /\ degraded'
    /\ outcome' = "error" => mem' = base /\ SameIntent(disk', base)

\* The transactions of an update end with the answer that fits.
LEMMA UpdateAnswers ==
    ASSUME IInv, UpdateStep \/ RollbackStep, pc # "idle", pc' = "idle"
    PROVE  Truthful
<1>1. disk \in stable  BY DEF IInv, Stored
<1>2. CASE CaptureSnapshot \/ InstallGuard
  BY <1>1, <1>2 DEF CaptureSnapshot, InstallGuard, IInv, AtRest, Updating, FileIs, Truthful
<1>3. CASE ClearGuard  BY <1>3 DEF ClearGuard, IInv, Finishing, Truthful
<1>4. CASE RollbackStep
  BY <1>1, <1>4 DEF RollbackStep, RollbackNetwork, RestoreSnapshot, RollbackPolicy,
     RollbackTargets, RollbackClear, IInv, RollingBack, FileIs, Truthful
<1> QED
  BY <1>2, <1>3, <1>4 DEF UpdateStep, BeginUpdate, UpdateNetwork, UpdatePolicy, CommitTargets,
     SaveConfig, SyncDirectory, PublishExclusions, CleanupDnsFlows

\* So do a commit that could not be enforced and the edits of the file alone.
LEMMA FileAnswers ==
    ASSUME IInv, CommittedStep \/ PlainStep, pc # "idle", pc' = "idle"
    PROVE  Truthful
<1>1. disk \in stable  BY DEF IInv, Stored
<1>2. CASE CommittedStep
  BY <1>2 DEF CommittedStep, CommittedSync, CommittedPublish, CommittedFlows, CommittedGuard,
     IInv, CommittedButDegraded, Truthful
<1>3. CASE SavePlain
  BY <1>1, <1>3 DEF SavePlain, IInv, AtRest, Updating, FileIs, Truthful
<1>4. CASE SyncPlain  BY <1>4 DEF SyncPlain, IInv, Updating, Truthful
<1>5. CASE SaveAutoUpdate  BY <1>5 DEF SaveAutoUpdate, IInv, AtRest, Truthful
<1>6. CASE SyncAutoUpdate  BY <1>6 DEF SyncAutoUpdate, IInv, AtRest, Truthful
<1> QED  BY <1>2, <1>3, <1>4, <1>5, <1>6 DEF PlainStep, BeginAutoUpdate

\* Start-up and reconcile answer nobody; nothing else reaches idle.
LEMMA OtherAnswers ==
    ASSUME IInv, pc \notin {"off", "idle"}, pc' = "idle",
           StartStep \/ ReconcileStep \/ ServiceStep \/ Crash \/ PowerLoss
    PROVE  Truthful
<1>1. CASE StartStep
  BY <1>1 DEF StartStep, StartLock, StartLoad, StartSync, StartPublish, StartFlows, StartOpen
<1>2. CASE ReconcileStep
  BY <1>2 DEF ReconcileStep, ReconcileSync, ReconcileGuard, ReconcilePolicy, ReconcileTargets,
     ReconcileFlows, ReconcileNetwork, ReconcileRetire, ReconcileClear, Truthful
<1>3. CASE ServiceStep
  <2>1. pc' = pc \/ pc' \in {"lock", "off"}
    BY <1>3 DEF ServiceStep, Respawn, BootGuard, ServiceStart, ServiceStop, GuardStop,
       StopAborted, AgentKilled
  <2> QED  BY <2>1
<1>4. CASE Crash \/ PowerLoss  BY <1>4 DEF Crash, PowerLoss
<1> QED  BY <1>1, <1>2, <1>3, <1>4

\* The answer tells the truth whatever failed on the way: "ok" is in memory and
\* synced, "committed" is in memory and in the file and the controller says it
\* is degraded, "error" left both alone (update_config, committed_failure).
THEOREM Answers == Spec => AnswersTellTheTruth
<1> DEFINE A == pc \notin {"off", "idle"} /\ pc' = "idle" =>
                  CASE outcome' = "ok"        -> mem' = next /\ stable' = {next}
                    [] outcome' = "committed" -> mem' = next /\ disk' = next /\ degraded'
                    [] outcome' = "error"     -> mem' = base /\ SameIntent(disk', base)
                    [] OTHER                  -> TRUE
<1>1. IInv /\ [Next]_vars => A
  <2>1. SUFFICES ASSUME IInv, [Next]_vars, pc \notin {"off", "idle"}, pc' = "idle"
                 PROVE  A
    OBVIOUS
  <2>2. Next  BY <2>1 DEF vars
  <2>3. Truthful  BY <2>1, <2>2, UpdateAnswers, FileAnswers, OtherAnswers DEF Next
  <2> QED  BY <2>3 DEF Truthful
<1>2. AnswersTellTheTruth <=> [][A]_vars  BY DEF AnswersTellTheTruth
<1> HIDE DEF A
<1> QED  BY <1>1, <1>2, InvariantHolds, PTL DEF Spec
=============================================================================
