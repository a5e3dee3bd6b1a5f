------------------------------- MODULE FakeDns -------------------------------
(***************************************************************************)
(* FakeDNS (fake_dns/store.rs, resolver.rs, server.rs): each (domain, host) *)
(* pair a routing rule speaks about gets an address of 198.18.0.0/15, the  *)
(* answer carries that address, and nftables turns it back into the host   *)
(* and picks the route.  Three copies of a lease must agree: the SQLite    *)
(* row, the memory of the agent and the elements in the kernel.            *)
(*                                                                         *)
(* DNS workers and the cleanup task hold updates.read() from their first   *)
(* look at the policy to their answer, a configuration update holds        *)
(* updates.write(); the store mutex orders those who touch the leases.     *)
(* Every nft and SQLite call is a step of its own that may fail, and the   *)
(* process may die between any two steps.                                  *)
(*                                                                         *)
(* A row and its copy in memory change in one step: memory follows a       *)
(* committed statement at once, and a crash in between loses only memory,  *)
(* which Start rebuilds.  The wall clock does not go backwards.            *)
(***************************************************************************)
EXTENDS Integers, FiniteSets

CONSTANTS
    Domains, Reals,
    LanReals,             \* hosts on the LAN itself
    Zone,                 \* the sets of hosts the resolvers may return for a name
    Policies,             \* compiled routing policies, with the VPN switch
    Workers,              \* permits of the DNS worker semaphore
    PoolSize,             \* addresses in the pool, numbered from FIRST_FAKE = 0
    MaxLeases,            \* ResourceLimits.fake_leases
    Ttls,                 \* TTLs the resolvers may return
    MinTtl, MaxTtl,       \* clamp(30, 3600)
    Margin,               \* 300 s beyond the TTL
    Grace,                \* CONNECTION_GRACE_SECONDS
    MaxTime, MaxFaults,   \* bounds: the clock, failing calls
    NoLease, NoReal, Nobody

Targets == {"direct", "vpn", "warp", "block"}
Pool    == 0 .. PoolSize - 1
Keys    == {k \in Domains \X Reals : k[2] \notin LanReals}

ASSUME PoolAssumption == PoolSize \in Nat \ {0} /\ MaxLeases \in Nat /\ MaxLeases <= PoolSize
ASSUME TimeAssumption ==
    /\ Ttls \subseteq Nat /\ MinTtl \in Nat /\ MaxTtl \in Nat /\ MinTtl <= MaxTtl
    /\ Margin \in Nat /\ Grace \in Nat /\ MaxTime \in Nat /\ MaxFaults \in Nat
\* ruled: names with a rule of their own; asked: names with an upstream to ask.
ASSUME PolicyAssumption ==
    Policies \subseteq [ruled : SUBSET Domains, asked : SUBSET Domains,
                        target : [Domains \X Reals -> Targets]]
ASSUME ZoneAssumption == Zone \in [Domains -> SUBSET SUBSET Reals]

Lease == [fake : Pool, target : Targets, expires : Nat]
ASSUME SentinelAssumption ==
    /\ NoLease \notin Lease /\ NoReal \notin Reals
    /\ "cleanup" \notin Workers /\ Nobody \notin Workers \cup {"cleanup"}

VARIABLES
    agent,          \* "off" or "up"
    policy,         \* AppState.routing
    saved,          \* the policy of controller.json
    guard,          \* the forwarding guard is up
    upd, new,       \* the configuration update: its step and its policy
    worker,         \* DNS requests in the hands of the workers
    holder,         \* who has the store mutex
    step, batch,    \* what the holder does, and the leases it answers for
    said,           \* leases named in the answer being written
    leases,         \* rows of fake_dns and Store.leases
    used, next,     \* Store.used, Store.next
    table,          \* nftables table gofro_routing exists
    dnat, marks,    \* its map fake_to_real and its four target sets
    now,            \* wall clock
    told,           \* addresses clients may still be using (history)
    lost,           \* addresses given up by a failed rollback (history)
    faults

controlVars == <<agent, policy, saved, guard, upd, new>>
storeVars   == <<leases, used, next>>
kernelVars  == <<table, dnat, marks>>
mutexVars   == <<holder, step, batch, said>>
vars == <<controlVars, worker, mutexVars, storeVars, kernelVars, now, told, lost, faults>>

Idle == [at |-> "idle"]
Request == [at : {"asked", "answered"}, domain : Domains, policy : Policies, todo : SUBSET Reals]

Updating == {"apply", "commit", "save", "clear", "bApply", "bCommit", "bClear",
             "rApply", "rCommit", "rClear"}

TypeOK ==
    /\ agent \in {"off", "up"} /\ guard \in BOOLEAN
    /\ policy \in Policies /\ saved \in Policies /\ new \in Policies
    /\ upd \in {"idle", "starting", "degraded"} \cup Updating
    /\ worker \in [Workers -> {Idle} \cup Request]
    /\ holder \in {Nobody, "cleanup"} \cup Workers
    /\ step \in {"none", "allocate", "rollback", "remove", "reinstall"}
    /\ batch \in SUBSET Keys /\ said \in SUBSET Keys
    /\ leases \in [Keys -> {NoLease} \cup Lease]
    /\ used \in SUBSET Pool /\ next \in Pool
    /\ table \in BOOLEAN /\ dnat \in [Pool -> {NoReal} \cup Reals]
    /\ marks \in SUBSET (Pool \X Targets)
    /\ now \in Nat /\ faults \in Nat
    /\ told \in SUBSET [fake : Pool, key : Keys, until : Nat]
    /\ lost \in SUBSET Pool

-----------------------------------------------------------------------------
(* The store.                                                              *)

Leased   == {k \in Keys : leases[k] # NoLease}
Fakes(S) == {leases[k].fake : k \in S}

\* Mutant: a lease goes as soon as its TTL is over.
ExpiredWithoutGrace == {k \in Leased : leases[k].expires <= now}

\* store.rs expired_at, and the DELETE when the store is opened.
Expired == {k \in Leased : leases[k].expires <= now - Grace}

Clamp(ttl) == IF ttl < MinTtl THEN MinTtl ELSE IF ttl > MaxTtl THEN MaxTtl ELSE ttl
Expires(ttl) == now + Clamp(ttl) + Margin

\* The first unused address from next on, around the end of the pool.
At(offset) == (next + offset) % PoolSize
FreeFake ==
    At(CHOOSE o \in Pool : At(o) \notin used /\ \A p \in 0 .. o - 1 : At(p) \in used)

\* allocate of a pair that has a lease.
Renew(k, expires) ==
    leases' = IF expires > leases[k].expires
              THEN [leases EXCEPT ![k].expires = expires] ELSE leases

HasRoom == Cardinality(Leased) < MaxLeases

After(fake) == IF fake = PoolSize - 1 THEN 0 ELSE fake + 1

\* allocate of a new pair.
Insert(k, target, expires) ==
    /\ leases' = [leases EXCEPT ![k] =
                     [fake |-> FreeFake, target |-> target, expires |-> expires]]
    /\ used' = used \cup {FreeFake}
    /\ next' = After(FreeFake)

\* remove_mappings.
Remove(S) ==
    /\ leases' = [k \in Keys |-> IF k \in S THEN NoLease ELSE leases[k]]
    /\ used' = used \ Fakes(S)
    /\ UNCHANGED next

\* commit_targets.
CommitTargets(p) ==
    leases' = [k \in Keys |-> IF leases[k] = NoLease THEN NoLease
                              ELSE [leases[k] EXCEPT !.target = p.target[k]]]

-----------------------------------------------------------------------------
(* The kernel.  One nft script is one transaction: an element that is      *)
(* already there with another value, or missing when it should be deleted, *)
(* fails all of it.                                                        *)

MarksOf(S) == {<<leases[k].fake, leases[k].target>> : k \in S}

Addable(S) == table /\ \A k \in S : dnat[leases[k].fake] \in {NoReal, k[2]}

\* dataplane.rs install_mappings.
InstallMappings(S) ==
    /\ dnat' = [f \in Pool |-> IF f \in Fakes(S)
                               THEN (CHOOSE k \in S : leases[k].fake = f)[2] ELSE dnat[f]]
    /\ marks' = marks \cup MarksOf(S)
    /\ UNCHANGED table

Deletable(S) == table /\ MarksOf(S) \subseteq marks /\ \A f \in Fakes(S) : dnat[f] # NoReal

\* dataplane.rs remove_mappings.
RemoveMappings(S) ==
    /\ dnat' = [f \in Pool |-> IF f \in Fakes(S) THEN NoReal ELSE dnat[f]]
    /\ marks' = marks \ MarksOf(S)
    /\ UNCHANGED table

\* dataplane.rs apply with the leases as reclassified by policy p.
ApplyTable(p) ==
    /\ table' = TRUE
    /\ dnat' = [f \in Pool |-> IF f \in Fakes(Leased)
                               THEN (CHOOSE k \in Leased : leases[k].fake = f)[2] ELSE NoReal]
    /\ marks' = {<<leases[k].fake, p.target[k]>> : k \in Leased}
    /\ lost' = {}

\* An external call fails.
Fails == faults < MaxFaults /\ faults' = faults + 1

-----------------------------------------------------------------------------
(* A DNS request.  Requests over the worker limit, malformed ones and names *)
(* without an upstream are answered on the spot and change nothing.        *)

CanRead == agent = "up" /\ upd \in {"idle", "starting", "degraded"}

Unlock == holder' = Nobody /\ step' = "none" /\ batch' = {} /\ said' = {}

Ask(w, d) ==
    /\ CanRead /\ worker[w] = Idle /\ d \in policy.asked
    /\ worker' = [worker EXCEPT ![w] =
                    [at |-> "asked", domain |-> d, policy |-> policy, todo |-> {}]]
    /\ UNCHANGED <<controlVars, mutexVars, storeVars, kernelVars, now, told, lost, faults>>

\* Only names with a rule are rewritten, and never towards the LAN; no answer
\* within DNS_TIMEOUT is an answer without records.
UpstreamAnswers(w) ==
    /\ worker[w] # Idle /\ worker[w].at = "asked"
    /\ \E S \in Zone[worker[w].domain] \cup {{}} :
         worker' = [worker EXCEPT ![w] =
            IF worker[w].domain \in worker[w].policy.ruled /\ S \ LanReals # {}
            THEN [worker[w] EXCEPT !.at = "answered", !.todo = S \ LanReals]
            ELSE Idle]
    /\ UNCHANGED <<controlVars, mutexVars, storeVars, kernelVars, now, told, lost, faults>>

LockStore(w) ==
    /\ worker[w] # Idle /\ worker[w].at = "answered" /\ holder = Nobody
    /\ holder' = w /\ step' = "allocate" /\ batch' = {} /\ said' = {}
    /\ UNCHANGED <<controlVars, worker, storeVars, kernelVars, now, told, lost, faults>>

Allocating(w) == holder = w /\ step = "allocate"

\* One record of the answer.
Allocate(w) ==
    /\ Allocating(w)
    /\ \E r \in worker[w].todo, ttl \in Ttls :
         LET k == <<worker[w].domain, r>> IN
         /\ \/ /\ k \in Leased /\ Renew(k, Expires(ttl))
               /\ UNCHANGED <<used, next, batch>>
            \/ /\ k \notin Leased /\ HasRoom
               /\ Insert(k, worker[w].policy.target[k], Expires(ttl))
               /\ batch' = batch \cup {k}
         /\ said' = said \cup {k}
         /\ worker' = [worker EXCEPT ![w].todo = @ \ {r}]
    /\ UNCHANGED <<controlVars, holder, step, kernelVars, now, told, lost, faults>>

\* rewrite_records fails: SERVFAIL, after the new leases are taken back.
RewriteFails(w) ==
    IF batch = {}
    THEN Unlock /\ worker' = [worker EXCEPT ![w] = Idle]
    ELSE step' = "rollback" /\ UNCHANGED <<holder, batch, said, worker>>

\* The store is full, or a statement fails (an INSERT after next has moved on).
AllocateFails(w) ==
    /\ Allocating(w)
    /\ \E r \in worker[w].todo :
         LET k == <<worker[w].domain, r>> IN
         \/ k \notin Leased /\ ~HasRoom /\ UNCHANGED <<next, faults>>
         \/ k \notin Leased /\ HasRoom /\ Fails /\ next' = After(FreeFake)
         \/ /\ k \in Leased /\ \E ttl \in Ttls : Expires(ttl) > leases[k].expires
            /\ Fails /\ UNCHANGED next
    /\ RewriteFails(w)
    /\ UNCHANGED <<controlVars, leases, used, kernelVars, now, told, lost>>

\* The new leases go to the kernel in one transaction, then the answer goes out.
Install(w) ==
    /\ Allocating(w) /\ worker[w].todo = {}
    /\ batch # {} => Addable(batch)
    /\ InstallMappings(batch)
    /\ told' = told \cup {[fake |-> leases[k].fake, key |-> k,
                           until |-> leases[k].expires + Grace] : k \in said \ Expired}
    /\ Unlock /\ worker' = [worker EXCEPT ![w] = Idle]
    /\ UNCHANGED <<controlVars, storeVars, now, lost, faults>>

\* Mutant: the leases of a failed install stay in the store.
InstallFailsAndKeeps(w) ==
    /\ Allocating(w) /\ worker[w].todo = {} /\ batch # {}
    /\ (~Addable(batch) /\ UNCHANGED faults) \/ Fails
    /\ Unlock /\ worker' = [worker EXCEPT ![w] = Idle]
    /\ UNCHANGED <<controlVars, storeVars, kernelVars, now, told, lost>>

InstallFails(w) ==
    /\ Allocating(w) /\ worker[w].todo = {} /\ batch # {}
    /\ (~Addable(batch) /\ UNCHANGED faults) \/ Fails
    /\ RewriteFails(w)
    /\ UNCHANGED <<controlVars, storeVars, kernelVars, now, told, lost>>

\* Mutant: the worker answers without giving the store back.
RollbackKeepsLock(w) ==
    /\ holder = w /\ step = "rollback"
    /\ Remove(batch) /\ step' = "none" /\ worker' = [worker EXCEPT ![w] = Idle]
    /\ UNCHANGED <<controlVars, holder, batch, said, kernelVars, now, told, lost, faults>>

\* "DNS mapping failed ...; store rollback failed" leaves leases that no
\* element backs.
RollbackLeases(w) ==
    /\ holder = w /\ step = "rollback"
    /\ \/ Remove(batch) /\ UNCHANGED <<lost, faults>>
       \/ Fails /\ lost' = lost \cup Fakes(batch) /\ UNCHANGED storeVars
    /\ Unlock /\ worker' = [worker EXCEPT ![w] = Idle]
    /\ UNCHANGED <<controlVars, kernelVars, now, told>>

-----------------------------------------------------------------------------
(* clean_expired, once a minute: the kernel first, then the store.         *)

PurgeExpired ==
    /\ CanRead /\ holder = Nobody /\ Expired # {}
    /\ Deletable(Expired) /\ RemoveMappings(Expired)
    /\ holder' = "cleanup" /\ step' = "remove" /\ batch' = Expired /\ said' = {}
    /\ UNCHANGED <<controlVars, worker, storeVars, now, told, lost, faults>>

PurgeStore ==
    /\ holder = "cleanup" /\ step = "remove"
    /\ \/ Remove(batch) /\ Unlock /\ UNCHANGED faults
       \/ Fails /\ step' = "reinstall" /\ UNCHANGED <<storeVars, holder, batch, said>>
    /\ UNCHANGED <<controlVars, worker, kernelVars, now, told, lost>>

\* "expired lease cleanup failed ...; dataplane rollback failed" leaves leases
\* that no element backs.
PurgeReinstall ==
    /\ holder = "cleanup" /\ step = "reinstall"
    /\ \/ InstallMappings(batch) /\ UNCHANGED <<lost, faults>>
       \/ Fails /\ lost' = lost \cup Fakes(batch) /\ UNCHANGED kernelVars
    /\ Unlock
    /\ UNCHANGED <<controlVars, worker, storeVars, now, told>>

-----------------------------------------------------------------------------
(* What a configuration update does to the leases (Controller has the rest *)
(* of the transaction).  u: update, b: rollback, r: start-up reconcile.    *)

NoReaders == holder = Nobody /\ \A w \in Workers : worker[w] = Idle

Frame == UNCHANGED <<agent, worker, mutexVars, now, told>>

\* Mutant: the update does not wait for requests that are under way.
BeginUpdateAmongReaders ==
    /\ agent = "up" /\ upd = "idle" /\ holder = Nobody
    /\ new' \in Policies /\ guard' = TRUE /\ upd' = "apply"
    /\ UNCHANGED <<policy, saved, storeVars, kernelVars, lost, faults>> /\ Frame

\* update_config up to and including install_guard, under updates.write().
BeginUpdate ==
    /\ agent = "up" /\ upd = "idle" /\ NoReaders
    /\ new' \in Policies /\ guard' = TRUE /\ upd' = "apply"
    /\ UNCHANGED <<policy, saved, storeVars, kernelVars, lost, faults>> /\ Frame

\* reconcile_locked up to and including install_guard.
BeginReconcile ==
    /\ agent = "up" /\ upd = "starting" /\ NoReaders
    /\ \/ upd' = "rApply" /\ UNCHANGED faults
       \/ Fails /\ upd' = "degraded"
    /\ UNCHANGED <<policy, saved, guard, new, storeVars, kernelVars, lost>> /\ Frame

\* A failing step of an update starts its rollback; a failing rollback or
\* reconcile leaves the controller degraded behind the guard.
StepFails ==
    /\ Fails
    /\ upd' = IF upd \in {"apply", "commit", "save"} THEN "bApply" ELSE "degraded"

PolicyOf == IF upd \in {"apply", "commit"} THEN new ELSE policy

\* apply_policy, first half.
ApplyPolicy ==
    /\ upd \in {"apply", "bApply", "rApply"}
    /\ \/ /\ ApplyTable(PolicyOf) /\ UNCHANGED faults
          /\ upd' = CASE upd = "apply"  -> "commit"
                      [] upd = "bApply" -> "bCommit"
                      [] upd = "rApply" -> "rCommit"
       \/ StepFails /\ UNCHANGED <<kernelVars, lost>>
    /\ UNCHANGED <<policy, saved, guard, new, storeVars>> /\ Frame

\* apply_policy, second half.
CommitPolicy ==
    /\ upd \in {"commit", "bCommit", "rCommit"}
    /\ \/ /\ CommitTargets(PolicyOf) /\ UNCHANGED faults
          /\ upd' = CASE upd = "commit"  -> "save"
                      [] upd = "bCommit" -> "bClear"
                      [] upd = "rCommit" -> "rClear"
       \/ StepFails /\ UNCHANGED leases
    /\ UNCHANGED <<policy, saved, guard, new, used, next, kernelVars, lost>> /\ Frame

\* The file is saved and the workers get the policy; a rename that could not
\* be synced keeps both and the guard.
SavePolicy ==
    /\ upd = "save"
    /\ \/ saved' = new /\ policy' = new /\ upd' = "clear" /\ UNCHANGED faults
       \/ saved' = new /\ policy' = new /\ upd' = "degraded" /\ Fails
       \/ StepFails /\ UNCHANGED <<saved, policy>>
    /\ UNCHANGED <<guard, new, storeVars, kernelVars, lost>> /\ Frame

ClearGuard ==
    /\ upd \in {"clear", "bClear", "rClear"}
    /\ \/ guard' = FALSE /\ upd' = "idle" /\ UNCHANGED faults
       \/ StepFails /\ UNCHANGED guard
    /\ UNCHANGED <<policy, saved, new, storeVars, kernelVars, lost>> /\ Frame

-----------------------------------------------------------------------------
(* Start, crash, power loss, time.                                         *)

\* main.rs run: the guard goes up before the store is opened, and the DNS
\* server answers before the reconcile takes its turn.
Start ==
    /\ agent = "off" /\ agent' = "up" /\ guard' = TRUE /\ upd' = "starting"
    /\ policy' = saved /\ new' = saved
    /\ leases' = [k \in Keys |-> IF k \in Expired THEN NoLease ELSE leases[k]]
    /\ used' = Fakes(Leased \ Expired) /\ next' = 0
    /\ UNCHANGED <<saved, worker, mutexVars, kernelVars, now, told, lost, faults>>

LoseMemory ==
    /\ agent' = "off" /\ upd' = "idle" /\ policy' = saved /\ new' = saved
    /\ worker' = [w \in Workers |-> Idle] /\ Unlock
    /\ used' = {} /\ next' = 0

Crash ==
    /\ agent = "up" /\ LoseMemory
    /\ UNCHANGED <<saved, guard, leases, kernelVars, now, told, lost, faults>>

\* The store is in /tmp.  The boot guard is up before the LAN is.  Clients may go
\* on using an address they were told before: the code forgets that promise with
\* its store, and so does told.
PowerLoss ==
    /\ LoseMemory
    /\ guard' = TRUE /\ leases' = [k \in Keys |-> NoLease]
    /\ table' = FALSE /\ dnat' = [f \in Pool |-> NoReal] /\ marks' = {}
    /\ told' = {} /\ lost' = {}
    /\ UNCHANGED <<saved, now, faults>>

Tick ==
    /\ now < MaxTime /\ now' = now + 1
    /\ told' = {t \in told : t.until > now'}
    /\ UNCHANGED <<controlVars, worker, mutexVars, storeVars, kernelVars, lost, faults>>

Init ==
    /\ agent = "off" /\ guard = TRUE /\ upd = "idle"
    /\ saved \in Policies /\ policy = saved /\ new = saved
    /\ worker = [w \in Workers |-> Idle]
    /\ holder = Nobody /\ step = "none" /\ batch = {} /\ said = {}
    /\ leases = [k \in Keys |-> NoLease] /\ used = {} /\ next = 0
    /\ table = FALSE /\ dnat = [f \in Pool |-> NoReal] /\ marks = {}
    /\ now = 0 /\ told = {} /\ lost = {} /\ faults = 0

WorkerStep(w) ==
    \/ UpstreamAnswers(w) \/ LockStore(w) \/ Allocate(w) \/ AllocateFails(w)
    \/ Install(w) \/ InstallFails(w) \/ RollbackLeases(w)
UpdateStep == BeginReconcile \/ ApplyPolicy \/ CommitPolicy \/ SavePolicy \/ ClearGuard
CleanupStep == PurgeStore \/ PurgeReinstall

Next ==
    \/ \E w \in Workers : WorkerStep(w) \/ \E d \in Domains : Ask(w, d)
    \/ PurgeExpired \/ CleanupStep
    \/ BeginUpdate \/ UpdateStep
    \/ Start \/ Crash \/ PowerLoss \/ Tick

Spec == Init /\ [][Next]_vars

\* Calls return (DNS_TIMEOUT bounds the upstream), the store mutex is handed on
\* to everyone who waits for it, and the cleanup comes round every minute.
\* Nothing is assumed of requests, edits, crashes and the clock.
FairSpec ==
    /\ Spec
    /\ \A w \in Workers : SF_vars(LockStore(w)) /\ WF_vars(WorkerStep(w))
    /\ SF_vars(PurgeExpired) /\ WF_vars(CleanupStep)
    /\ WF_vars(UpdateStep)

-----------------------------------------------------------------------------
(* Properties.                                                             *)

\* While a client may use an address it was told (TTL, margin and the grace for
\* long-lived connections), the address stays leased to the same name and host
\* at least that long: across renewals, failed rewrites, cleanups, policy
\* updates and restarts of the agent.
\* (store.rs "Never recycle a live fake IP"; CONNECTION_GRACE_SECONDS)
LiveFakesAreKept ==
    \A t \in told :
        /\ leases[t.key] # NoLease
        /\ leases[t.key].fake = t.fake /\ leases[t.key].expires + Grace >= t.until

\* No two leases share an address, the allocator's set of used addresses is
\* exact, and the store never grows past its limit.  (allocate, remove_mappings)
StoreIsCoherent ==
    /\ \A k, l \in Leased : leases[k].fake = leases[l].fake => k = l
    /\ agent = "up" => used = Fakes(Leased)
    /\ Cardinality(Leased) <= MaxLeases

\* While traffic is forwarded, every address the kernel translates leads to the
\* host of its lease, on the one route the saved policy gives that lease.
\* (updates.read() of process against updates.write() of update_config;
\* install_mappings and remove_mappings around the store)
ForwardingIsExact ==
    ~guard =>
        /\ \A f \in Pool : dnat[f] # NoReal =>
              \E k \in Leased :
                 /\ leases[k].fake = f /\ k[2] = dnat[f]
                 /\ \A target \in Targets : <<f, target>> \in marks <=> target = saved.target[k]
        /\ \A m \in marks : dnat[m[1]] # NoReal

\* While traffic is forwarded, an address a client may use is translated, except
\* after a rollback that failed as well.
\* (the order store, kernel, answer in rewrite_records; kernel, store in purge_expired)
ToldFakesLead ==
    ~guard => \A t \in told : t.fake \in lost \/ dnat[t.fake] = t.key[2]

\* An expired lease is removed or renewed as long as the agent runs, is neither
\* degraded nor still starting, and no rollback failed.  (clean_expired)
ExpiredLeasesGo ==
    \A k \in Keys :
        k \in Expired ~> \/ k \notin Expired \/ lost # {}
                        \/ agent = "off" \/ upd \in {"starting", "degraded"}

\* Every request a worker took on is answered, whatever the updates and the
\* cleanup that run beside it do.  (updates lock before store mutex, everywhere)
RequestsAreAnswered == \A w \in Workers : worker[w] # Idle ~> worker[w] = Idle
=============================================================================
