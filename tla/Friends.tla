------------------------------- MODULE Friends -------------------------------
(***************************************************************************)
(* gofro-server on the VPS (gofro-server/src/main.rs, managed.rs, store.rs, *)
(* warp.rs): the peers of its WireGuard interface.  A peer is known in      *)
(* three places: the running interface, the configuration that wg-quick     *)
(* loads at boot, and the store, which names the friends and the routers    *)
(* (owners).  A friend and a router may look alike to WireGuard, one        *)
(* address each; only the store tells them apart.                           *)
(*                                                                         *)
(* Every command holds the server lock from its first look to its end, so   *)
(* one command runs at a time.  Each of its calls of wg, of wg-quick save   *)
(* and of write_store is a step that may fail, and the command may be       *)
(* killed, or the machine restarted, between any two of them.  A failed wg  *)
(* or wg-quick call changes nothing; write_store may fail after its rename. *)
(***************************************************************************)
EXTENDS Integers, FiniteSets

CONSTANTS
    Keys, Names, NoName, NoKey,
    MaxIp,          \* addresses 10.202.0.2 .. 254, numbered from 1
    Legacy,         \* the states an older release may have left (see Init)
    MaxFaults       \* bound: failing calls and killed commands

Ips    == 1 .. MaxIp
Ip(i)    == <<"ip", i>>            \* 10.202.0.i/32
Alias(i) == <<"alias", i>>         \* 10.202.1.i/32, the WARP source of the same host
Lan      == <<"lan", 0>>           \* CLIENT_SUBNET, which old releases gave to routers
Routes == {Ip(i) : i \in Ips} \cup {Alias(i) : i \in Ips} \cup {Lan}
Peers  == [Keys -> SUBSET Routes]   \* no routes: no such peer

\* names: the friends on record, with their names; shared: those whose private
\* key is on record too.
Store == [schema : {1, 2}, exists : BOOLEAN, names : [Keys -> Names \cup {NoName}],
          shared : SUBSET Keys, owners : SUBSET Keys]

ASSUME NameAssumption == NoName \notin Names /\ NoKey \notin Keys
ASSUME BoundAssumption == MaxIp \in Nat /\ MaxFaults \in Nat
ASSUME LegacyAssumption == Legacy \subseteq [peers : Peers, store : Store]
\* What read_store accepts: schema 1 has no owners, and nobody is an owner and a
\* friend.  Older releases know nothing of WARP.
ASSUME LegacyIsReadable ==
    \A old \in Legacy :
        /\ old.store.schema = 1 => old.store.owners = {}
        /\ \A k \in old.store.owners : old.store.names[k] = NoName
        /\ \A k \in Keys, i \in Ips : Alias(i) \notin old.peers[k]

VARIABLES
    kernel, boot,   \* peers of the interface; of its configuration file
    store,          \* /etc/gofro/friends/<interface>.json
    prepared,       \* /etc/gofro/warp/network: the WARP firewall is in place
    op,             \* the running command
    result,         \* how the last command ended
    gone,           \* keys whose removal was confirmed and that nobody added since
    routers,        \* keys that were given to routers (both are history)
    faults

history == <<gone, routers>>
vars == <<kernel, boot, store, prepared, op, result, history, faults>>

Idle == [at |-> "idle"]
\* prev and back are the peers and the store to go back to; next is the store to
\* write, todo the routers that still need their WARP source.
Command == [at : {"store", "enable", "set", "save", "setconf", "resave", "restore", "reload"},
            kind : {"create", "revoke", "retry", "owner", "unowner", "peer", "unpeer",
                    "warp", "restart"},
            key : Keys \cup {NoKey}, routes : SUBSET Routes, prev : Peers,
            next : Store, back : Store, todo : SUBSET Keys]

TypeOK ==
    /\ kernel \in Peers /\ boot \in Peers /\ store \in Store
    /\ prepared \in BOOLEAN /\ op \in {Idle} \cup Command
    /\ result \in {"none", "ok", "failed", "torn"}
    /\ gone \in SUBSET Keys /\ routers \in SUBSET Keys /\ faults \in Nat

-----------------------------------------------------------------------------
(* What a command reads.                                                   *)

Active(k) == kernel[k] # {}
Recorded(k) == store.names[k] # NoName

\* classify_friend: one tunnel address and nothing else.
FriendShape(R) == \E i \in Ips : R = {Ip(i)}
IsFriend(k) == k \notin store.owners /\ FriendShape(kernel[k])

\* active_name: another active friend has the name.
NameTaken(k, n) == \E j \in Keys \ {k} : IsFriend(j) /\ store.names[j] = n

Taken(i) == \E k \in Keys : Ip(i) \in kernel[k]

\* allocate_tunnel_ip
Allocated == CHOOSE i \in Ips : ~Taken(i) /\ \A j \in Ips : j < i => Taken(j)
CanAllocate == \E i \in Ips : ~Taken(i)

\* Mutant: nobody asks whose the addresses are.
RoutesUnchecked(k, R) == TRUE

\* ensure_routes_available
RoutesFree(k, R) == \A j \in Keys \ {k} : kernel[j] \cap R = {}

\* A key as wg genkey makes it: never seen before.
Fresh(k) ==
    /\ ~Active(k) /\ boot[k] = {} /\ ~Recorded(k)
    /\ k \notin store.owners \cup gone \cup routers

Fault == faults < MaxFaults /\ faults' = faults + 1

\* load_store has a schema 2 store: every command but add-peer and remove-peer
\* starts with it.
Ready == op = Idle /\ store.schema = 2

Start(at, kind, k, R, next, todo) ==
    op' = [at |-> at, kind |-> kind, key |-> k, routes |-> R, prev |-> kernel,
           next |-> next, back |-> store, todo |-> todo]

End(how) == op' = Idle /\ result' = how

At(step) == op # Idle /\ op.at = step

-----------------------------------------------------------------------------
(* Commands.                                                               *)

\* Who holds the old route is a router; without a file, or without such a peer,
\* nobody can tell and the command fails.
LegacyOwners == {k \in Keys : Lan \in kernel[k]}
Migratable ==
    /\ store.exists \/ ~\E k \in Keys : FriendShape(kernel[k])
    /\ LegacyOwners # {} \/ ~\E k \in Keys : Active(k)
    /\ ~\E k \in LegacyOwners : Recorded(k)

\* load_store of an older store.  The command goes on with the migrated store:
\* the lock is held, so that is the same as one that starts right after it.
Migrate ==
    /\ op = Idle /\ store.schema = 1 /\ Migratable
    /\ \/ /\ store' = [store EXCEPT !.schema = 2, !.exists = TRUE, !.owners = LegacyOwners]
          /\ \/ result' = "ok" /\ UNCHANGED faults
             \/ result' = "failed" /\ Fault
       \/ Fault /\ result' = "failed" /\ UNCHANGED store
    /\ UNCHANGED <<kernel, boot, prepared, op, history>>

CreateFriend(k, n) ==
    /\ Ready /\ Fresh(k) /\ ~NameTaken(k, n) /\ CanAllocate
    /\ Start("store", "create", k, {Ip(Allocated)},
             [store EXCEPT !.names[k] = n, !.shared = @ \cup {k}], {})
    /\ UNCHANGED <<kernel, boot, store, prepared, result, history, faults>>

RenameFriend(k, n) ==
    /\ Ready /\ IsFriend(k) /\ ~NameTaken(k, n)
    /\ \/ /\ store' = [store EXCEPT !.names[k] = n]
          /\ \/ result' = "ok" /\ UNCHANGED faults
             \/ result' = "failed" /\ Fault
       \/ Fault /\ result' = "failed" /\ UNCHANGED store
    /\ UNCHANGED <<kernel, boot, prepared, op, history>>

\* Mutant: a friend that is not on the interface counts as revoked.
RevokeFriendOnce(k) ==
    /\ Ready /\ k \notin store.owners
    /\ \/ ~Active(k) /\ Recorded(k) /\ result' = "ok" /\ gone' = gone \cup {k} /\ UNCHANGED op
       \/ /\ IsFriend(k) /\ UNCHANGED <<result, gone>>
          /\ Start("store", "revoke", k, {}, store, {})
    /\ UNCHANGED <<kernel, boot, store, prepared, routers, faults>>

\* A friend without a record gets one, named by its address (NoName stands for
\* no record: any name does); one that is already gone is saved again.
RevokeFriend(k) ==
    /\ Ready /\ k \notin store.owners
    /\ \/ ~Active(k) /\ Recorded(k) /\ Start("save", "retry", k, {}, store, {})
       \/ /\ IsFriend(k) /\ Recorded(k)
          /\ Start("store", "revoke", k, {}, store, {})
       \/ /\ IsFriend(k) /\ ~Recorded(k)
          /\ \E n \in Names : Start("store", "revoke", k, {}, [store EXCEPT !.names[k] = n], {})
    /\ UNCHANGED <<kernel, boot, store, prepared, result, history, faults>>

\* add_router_peer, for a new profile or a given key and address.
AddRouter(k, i) ==
    LET R == IF prepared THEN {Ip(i), Alias(i)} ELSE {Ip(i)} IN
    /\ Ready /\ RoutesFree(k, R) /\ ~Recorded(k)
    /\ k \in store.owners \/ ~Active(k)
    /\ Start("store", "owner", k, R, [store EXCEPT !.owners = @ \cup {k}], {})
    /\ UNCHANGED <<kernel, boot, store, prepared, result, history, faults>>

\* The key stays among the owners.
RemoveRouter(k) ==
    /\ Ready /\ k \in store.owners
    /\ Start("set", "unowner", k, {}, store, {})
    /\ UNCHANGED <<kernel, boot, store, prepared, result, history, faults>>

\* add-peer and create-profile without the old subnet: the store is not read.
AddPeer(k, i) ==
    /\ op = Idle /\ RoutesFree(k, {Ip(i)})
    /\ Start("set", "peer", k, {Ip(i)}, store, {})
    /\ UNCHANGED <<kernel, boot, store, prepared, result, history, faults>>

RemovePeer(k) ==
    /\ op = Idle /\ Start("set", "unpeer", k, {}, store, {})
    /\ UNCHANGED <<kernel, boot, store, prepared, result, history, faults>>

\* restart: save, then wg-quick loads what was saved.
Restart ==
    /\ op = Idle /\ Start("save", "restart", NoKey, {}, store, {})
    /\ UNCHANGED <<kernel, boot, store, prepared, result, history, faults>>

-----------------------------------------------------------------------------
(* WARP: every router gets a second source address.                        *)

ActiveOwners == {k \in store.owners : Active(k)}

\* warp_routes: what the routers need, if each has one tunnel address and the
\* sources are free.
WarpRoutes(k) == kernel[k] \cup {Alias(i) : i \in {j \in Ips : Ip(j) \in kernel[k]}}
WarpPossible ==
    /\ ActiveOwners # {}
    /\ \A k \in ActiveOwners :
          /\ Cardinality({i \in Ips : Ip(i) \in kernel[k]}) = 1
          /\ WarpRoutes(k) \subseteq {Ip(i) : i \in Ips} \cup {Lan}
                                     \cup {Alias(i) : i \in {j \in Ips : Ip(j) \in kernel[k]}}
          /\ RoutesFree(k, WarpRoutes(k) \ kernel[k])

EnableWarp ==
    /\ Ready /\ WarpPossible
    /\ Start("enable", "warp", NoKey, {}, store, ActiveOwners)
    /\ UNCHANGED <<kernel, boot, store, prepared, result, history, faults>>

\* Mutant: the routes are authorised although the firewall helper failed.
PrepareWarpAnyhow ==
    /\ At("enable")
    /\ \/ prepared' = TRUE /\ op' = [op EXCEPT !.at = "set"] /\ UNCHANGED <<result, faults>>
       \/ Fault /\ op' = [op EXCEPT !.at = "set"] /\ UNCHANGED <<result, prepared>>
    /\ UNCHANGED <<kernel, boot, store, history>>

\* gofro-warp enable: a failure may leave the firewall prepared or not.
PrepareWarp ==
    /\ At("enable")
    /\ \/ prepared' = TRUE /\ op' = [op EXCEPT !.at = "set"] /\ UNCHANGED <<result, faults>>
       \/ Fault /\ prepared' \in {prepared, TRUE} /\ End("failed")
    /\ UNCHANGED <<kernel, boot, store, history>>

\* authorize_warp: one wg set per router.
AuthorizeRouter(k) ==
    /\ At("set") /\ op.kind = "warp" /\ k \in op.todo
    /\ kernel' = [kernel EXCEPT ![k] = WarpRoutes(k)]
    /\ op' = [op EXCEPT !.todo = @ \ {k},
                        !.at = IF op.todo = {k} THEN "save" ELSE "set"]
    /\ UNCHANGED <<boot, store, prepared, result, history, faults>>

-----------------------------------------------------------------------------
(* The steps of a command.                                                 *)

WriteStore ==
    /\ At("store")
    /\ \/ store' = op.next /\ op' = [op EXCEPT !.at = "set"] /\ UNCHANGED <<result, faults>>
       \/ Fault /\ store' \in {store, op.next} /\ End("failed")
    /\ UNCHANGED <<kernel, boot, prepared, history>>

\* wg set: an address moves to the peer that is given it.  (A key that is added as
\* a plain peer and is no owner is no router any more.)
SetPeer ==
    /\ At("set") /\ op.kind # "warp"
    /\ kernel' = [k \in Keys |-> IF k = op.key THEN op.routes ELSE kernel[k] \ op.routes]
    /\ op' = [op EXCEPT !.at = "save"]
    /\ gone' = IF op.routes # {} THEN gone \ {op.key} ELSE gone
    /\ routers' = CASE op.kind = "owner" -> routers \cup {op.key}
                    [] op.kind = "peer" /\ op.key \notin store.owners -> routers \ {op.key}
                    [] OTHER -> routers
    /\ UNCHANGED <<boot, store, prepared, result, faults>>

Removing == {"revoke", "retry", "unowner", "unpeer"}

\* Mutant: a removal is not saved.
SaveAdditionsOnly ==
    /\ At("save") /\ boot' = (IF op.kind \in Removing THEN boot ELSE kernel)
    /\ End("ok")
    /\ UNCHANGED <<kernel, store, prepared, history, faults>>

\* wg-quick save
Save ==
    /\ At("save") /\ boot' = kernel
    /\ IF op.kind = "restart" THEN op' = [op EXCEPT !.at = "reload"] /\ UNCHANGED result
                              ELSE End("ok")
    /\ gone' = IF op.kind \in Removing THEN gone \cup {op.key} ELSE gone
    /\ UNCHANGED <<kernel, store, prepared, routers, faults>>

Reload ==
    /\ At("reload")
    /\ \/ kernel' = boot /\ End("ok") /\ UNCHANGED faults
       \/ Fault /\ kernel' \in {kernel, boot} /\ End("failed")
    /\ UNCHANGED <<boot, store, prepared, history>>

\* A failure at wg set or save: most commands go back to the peers they found.
SetOrSaveFails ==
    /\ At("set") \/ At("save")
    /\ Fault
    /\ IF op.kind \in {"retry", "unpeer", "restart"}
       THEN End("failed")
       ELSE op' = [op EXCEPT !.at = "setconf"] /\ UNCHANGED result
    /\ UNCHANGED <<kernel, boot, store, prepared, history>>

\* Mutant: the store goes back before the interface does.
SetconfStoreFirst ==
    /\ At("setconf")
    /\ store' = op.back
    /\ \/ kernel' = op.prev /\ op' = [op EXCEPT !.at = "resave"] /\ UNCHANGED <<result, faults>>
       \/ Fault /\ End("torn") /\ UNCHANGED kernel
    /\ UNCHANGED <<boot, prepared, history>>

Setconf ==
    /\ At("setconf")
    /\ \/ kernel' = op.prev /\ op' = [op EXCEPT !.at = "resave"] /\ UNCHANGED <<result, faults>>
       \/ Fault /\ End("torn") /\ UNCHANGED kernel
    /\ UNCHANGED <<boot, store, prepared, history>>

Resave ==
    /\ At("resave")
    /\ \/ /\ boot' = kernel /\ UNCHANGED faults
          /\ IF op.next # op.back THEN op' = [op EXCEPT !.at = "restore"] /\ UNCHANGED result
                                  ELSE End("failed")
       \/ Fault /\ End("torn") /\ UNCHANGED boot
    /\ UNCHANGED <<kernel, store, prepared, history>>

\* A router whose creation was undone to the end is none.
Restore ==
    /\ At("restore")
    /\ \/ /\ store' = op.back /\ End("failed") /\ UNCHANGED faults
          /\ routers' = IF op.kind = "owner" THEN routers \ {op.key} ELSE routers
       \/ /\ Fault /\ store' \in {store, op.back} /\ End("torn")
          /\ routers' = IF op.kind = "owner" /\ store' = op.back THEN routers \ {op.key} ELSE routers
    /\ UNCHANGED <<kernel, boot, prepared, gone>>

\* The SSH session or the process ends.
Kill ==
    /\ op # Idle /\ Fault /\ End("torn")
    /\ UNCHANGED <<kernel, boot, store, prepared, history>>

Reboot ==
    /\ kernel' = boot /\ End("torn")
    /\ UNCHANGED <<boot, store, prepared, history, faults>>

-----------------------------------------------------------------------------
\* A new server, or what an older release left.
Init ==
    /\ \E old \in Legacy : kernel = old.peers /\ boot = old.peers /\ store = old.store
    /\ prepared = FALSE /\ op = Idle /\ result = "none"
    /\ gone = {} /\ faults = 0
    /\ routers = {k \in Keys : Lan \in kernel[k]} \cup store.owners

Step ==
    \/ PrepareWarp \/ WriteStore \/ SetPeer \/ Save \/ Reload \/ SetOrSaveFails
    \/ Setconf \/ Resave \/ Restore \/ \E k \in Keys : AuthorizeRouter(k)

Next ==
    \/ Migrate \/ EnableWarp \/ Restart \/ Kill \/ Reboot \/ Step
    \/ \E k \in Keys, n \in Names : CreateFriend(k, n) \/ RenameFriend(k, n)
    \/ \E k \in Keys : RevokeFriend(k) \/ RemoveRouter(k) \/ RemovePeer(k)
    \/ \E k \in Keys, i \in Ips : AddRouter(k, i) \/ AddPeer(k, i)

Spec == Init /\ [][Next]_vars

-----------------------------------------------------------------------------
(* Properties.                                                             *)

\* A router is never taken for a friend, whom the panel may rename, share or
\* revoke: while its key is on the interface with an address only, or can come
\* back so with the boot configuration, the store has it as an owner, through
\* failed rollbacks, killed commands and restarts.
RoutersAreNoFriends ==
    /\ TypeOK
    /\ \A k \in routers : FriendShape(kernel[k]) \/ FriendShape(boot[k]) => k \in store.owners

\* A removal that was confirmed is final: the key is neither on the interface nor
\* in the boot configuration until someone adds it again.
RemovedStaysOut == \A k \in gone : ~Active(k) /\ boot[k] = {}

\* Only routers get a WARP source address, and only behind the WARP firewall.
WarpSourcesAreGuarded ==
    \A k \in Keys : (\E i \in Ips : Alias(i) \in kernel[k] \cup boot[k]) =>
                        prepared /\ k \in store.owners

\* A command never takes an address from another peer: WireGuard would move it
\* without a word.
OthersKeepTheirRoutes ==
    [][op # Idle /\ op' # Idle /\ op.at \in {"set", "setconf"} =>
          \A k \in Keys \ {op.key} :
             kernel[k] \subseteq kernel'[k] \/ (op.kind = "warp" /\ kernel'[k] = op.prev[k])]_vars

\* What a command reports is true: after success the change is on the interface
\* and in the boot configuration, after a plain failure the peers are as before.
ReportsAreTrue ==
    [][op # Idle /\ op' = Idle /\ op.kind # "restart" =>
          /\ result' = "ok" =>
                boot' = kernel' /\ (op.kind = "warp" \/ kernel'[op.key] = op.routes)
          /\ result' = "failed" /\ op.kind \notin {"retry", "unpeer"} => kernel' = op.prev]_vars
=============================================================================
