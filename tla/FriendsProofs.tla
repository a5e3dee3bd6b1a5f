---------------------------- MODULE FriendsProofs ----------------------------
(***************************************************************************)
(* Proofs about Friends for every set of keys and names, every number of   *)
(* addresses and of faults, and every state that an older release may have *)
(* left.                                                                   *)
(***************************************************************************)
EXTENDS Friends, WellFoundedInduction, NaturalsInduction, TLAPS

-----------------------------------------------------------------------------
(* The inductive invariant.                                                *)

\* read_store accepts what was written: schema 1 has no owners, and nobody is an
\* owner and on record as a friend; otherwise every later command would fail.
Readable(s) ==
    /\ s.schema = 1 => s.owners = {}
    /\ \A k \in s.owners : s.names[k] = NoName

\* Peers that the interface may have, now or after a rollback or a restart: a
\* router that the store does not know is recognised by its old route or is
\* gone; WARP sources are guarded; who was removed is not there.
Sound(P) ==
    /\ \A k \in routers \ store.owners : P[k] = {} \/ Lan \in P[k]
    /\ \A k \in Keys, i \in Ips : Alias(i) \in P[k] => prepared /\ k \in store.owners
    /\ \A k \in gone : P[k] = {}

\* The commands that write the store, and those that go back after a failure.
Storing == {"create", "revoke", "owner"}
RollingBack == Storing \cup {"unowner", "peer", "warp"}

\* Which steps a command takes.
PathInv ==
    /\ op.at = "store" => op.kind \in Storing
    /\ op.at = "enable" => op.kind = "warp"
    /\ op.at = "set" => op.kind \notin {"retry", "restart"}
    /\ op.at \in {"setconf", "resave"} => op.kind \in RollingBack
    /\ op.at = "restore" => op.kind \in Storing
    /\ op.at = "reload" => op.kind = "restart"
    /\ op.kind \notin {"warp", "restart"} => op.key \in Keys

\* The store that the command found, and the one it writes.
StoreInv ==
    /\ store = IF op.at = "store" THEN op.back ELSE op.next
    /\ Readable(op.next) /\ Readable(op.back)
    /\ op.kind = "owner" =>
         /\ op.next.owners = op.back.owners \cup {op.key}
         /\ op.key \in op.back.owners \/ op.prev[op.key] = {}
    /\ op.kind # "owner" => op.next.owners = op.back.owners
    /\ op.kind \notin Storing => op.next = op.back
    /\ op.kind = "warp" => op.todo \subseteq store.owners /\ (op.at # "enable" => prepared)

\* The routes that the command gives.
RoutesInv ==
    /\ Lan \notin op.routes
    /\ \A i \in Ips : Alias(i) \in op.routes => op.kind = "owner" /\ prepared
    /\ op.kind \in Removing => op.routes = {}
    /\ op.kind = "create" => op.key \notin routers
    /\ \A k \in Keys \ {op.key} : op.prev[k] \cap op.routes = {}

\* The interface as the command found it, and as it has changed it since.
PeersInv ==
    /\ Sound(op.prev)
    /\ op.kind # "warp" => \A k \in Keys \ {op.key} : kernel[k] = op.prev[k]
    /\ op.at \in {"store", "enable", "resave", "restore"} => kernel = op.prev
    /\ op.at = "set" /\ op.kind # "warp" => kernel = op.prev
    /\ op.at = "save" /\ op.kind \notin {"warp", "restart"} => kernel[op.key] = op.routes
    /\ op.at = "restore" => boot = op.prev

\* All of it, for a command that runs.
OpInv == PathInv /\ StoreInv /\ RoutesInv /\ PeersInv

\* The invariant that every step keeps.
IInv ==
    /\ TypeOK
    /\ Readable(store) /\ Sound(kernel) /\ Sound(boot)
    /\ op # Idle => OpInv

-----------------------------------------------------------------------------
(* Routes, commands and their fields.                                      *)

\* An address, a WARP source and the old route are different routes.
LEMMA RoutesDiffer ==
    \A i, j \in Ips : /\ Ip(i) # Alias(j) /\ Ip(i) # Lan /\ Alias(i) # Lan
                      /\ Ip(i) = Ip(j) => i = j
                      /\ Alias(i) = Alias(j) => i = j
BY DEF Ip, Alias, Lan

\* A set of numbers that is not empty has a least one.
LEMMA LeastOfNaturals ==
    ASSUME NEW S \in SUBSET Nat, S # {}
    PROVE  \E i \in S : \A j \in S : i =< j
<1> DEFINE R == {ss \in Nat \X Nat : ss[1] < ss[2]}
<1>1. IsWellFoundedOn(R, Nat)  BY NatLessThanWellFounded DEF OpToRel
<1> HIDE DEF R
<1>2. PICK o \in S : \A p \in S : <<p, o>> \notin R  BY <1>1, WFMin
<1>3. ASSUME NEW j \in S PROVE o =< j
  <2>1. o \in Nat /\ j \in Nat /\ <<j, o>> \notin R  BY <1>2
  <2> QED  BY <2>1 DEF R
<1> QED  BY <1>2, <1>3

\* The fields of a running command.
LEMMA CommandFields ==
    ASSUME TypeOK, op # Idle
    PROVE  /\ op \in Command
           /\ op.at \in {"store", "enable", "set", "save", "setconf", "resave", "restore", "reload"}
           /\ op.kind \in {"create", "revoke", "retry", "owner", "unowner", "peer", "unpeer", "warp", "restart"}
           /\ op.key \in Keys \cup {NoKey} /\ op.routes \in SUBSET Routes /\ op.prev \in Peers
           /\ op.next \in Store /\ op.back \in Store /\ op.todo \in SUBSET Keys
BY DEF TypeOK, Command

\* A command that runs is not the idle one.
LEMMA CommandIsNotIdle == Idle \notin Command
<1>1. Idle.at = "idle"  BY DEF Idle
<1>2. \A c \in Command : c.at # "idle"  BY DEF Command
<1> QED  BY <1>1, <1>2

\* The fields of a command after it went on to another step.
LEMMA Moved ==
    ASSUME TypeOK, op # Idle, NEW a, op' = [op EXCEPT !.at = a],
           a \in {"set", "save", "setconf", "resave", "restore", "reload"}
    PROVE  /\ op' \in Command /\ op' # Idle /\ op'.at = a /\ op'.kind = op.kind /\ op'.key = op.key
           /\ op'.routes = op.routes /\ op'.prev = op.prev /\ op'.next = op.next
           /\ op'.back = op.back /\ op'.todo = op.todo
<1>1. op \in Command  BY CommandFields
<1>2. op' \in Command  BY <1>1 DEF Command
<1> QED  BY <1>1, <1>2, CommandIsNotIdle DEF Command

\* What a command starts with.
Fits(at, kind, k, R, next, todo) ==
    /\ at \in {"store", "enable", "set", "save"}
    /\ kind \in {"create", "revoke", "retry", "owner", "unowner", "peer", "unpeer", "warp", "restart"}
    /\ k \in Keys \cup {NoKey} /\ R \in SUBSET Routes /\ next \in Store /\ todo \in SUBSET Keys
    /\ at = "store" => kind \in Storing
    /\ at = "enable" => kind = "warp"
    /\ at = "set" => kind \notin {"retry", "restart", "warp"}
    /\ at = "save" /\ kind \notin {"warp", "restart"} => kernel[k] = R
    /\ kind \notin {"warp", "restart"} => k \in Keys
    /\ at # "store" => next = store
    /\ Readable(next)
    /\ kind = "owner" => next.owners = store.owners \cup {k} /\ (k \in store.owners \/ kernel[k] = {})
    /\ kind # "owner" => next.owners = store.owners
    /\ kind = "warp" => at = "enable" /\ todo \subseteq store.owners
    /\ Lan \notin R
    /\ \A i \in Ips : Alias(i) \in R => kind = "owner" /\ prepared
    /\ kind \in Removing => R = {}
    /\ kind = "create" => k \notin routers
    /\ \A j \in Keys \ {k} : kernel[j] \cap R = {}

\* A command starts: nothing but the command itself changes.
LEMMA Started ==
    ASSUME IInv, op = Idle, NEW at, NEW kind, NEW k, NEW R, NEW next, NEW todo,
           Start(at, kind, k, R, next, todo), Fits(at, kind, k, R, next, todo),
           UNCHANGED <<kernel, boot, store, prepared, result, history, faults>>
    PROVE  IInv'
<1>0. kernel \in Peers /\ store \in Store  BY DEF IInv, TypeOK
<1>1. op' \in Command  BY <1>0 DEF Start, Command, Fits
<1>2. /\ op'.at = at /\ op'.kind = kind /\ op'.key = k /\ op'.routes = R /\ op'.prev = kernel
      /\ op'.next = next /\ op'.back = store /\ op'.todo = todo
  BY DEF Start
<1>3. /\ kernel' = kernel /\ boot' = boot /\ store' = store /\ prepared' = prepared /\ result' = result
      /\ gone' = gone /\ routers' = routers /\ faults' = faults
  BY DEF history
<1>4. TypeOK'  BY <1>1, <1>3 DEF IInv, TypeOK
<1>5. Readable(store)' /\ Sound(kernel)' /\ Sound(boot)'  BY <1>3 DEF IInv, Sound, Readable
<1>6. PathInv'  BY <1>2 DEF PathInv, Fits
<1>7. StoreInv'  BY <1>2, <1>3 DEF Fits, StoreInv, Readable, IInv
<1>8. RoutesInv'  BY <1>2, <1>3 DEF Fits, RoutesInv
<1>9. PeersInv'  BY <1>2, <1>3 DEF Fits, PeersInv, IInv, Sound
<1> QED  BY <1>4, <1>5, <1>6, <1>7, <1>8, <1>9 DEF IInv, OpInv

-----------------------------------------------------------------------------
(* The commands.                                                           *)

\* A friend gets an address that nobody has, and a key that nobody knows.
LEMMA CreateFriendStep ==
    ASSUME IInv, NEW k \in Keys, NEW n \in Names, CreateFriend(k, n)
    PROVE  IInv'
<1> DEFINE a == Allocated
           next == [store EXCEPT !.names[k] = n, !.shared = @ \cup {k}]
<1>0. store \in Store /\ kernel \in Peers  BY DEF IInv, TypeOK
<1>1. op = Idle /\ store.schema = 2  BY DEF CreateFriend, Ready
<1>2. k \notin store.owners /\ k \notin routers  BY DEF CreateFriend, Fresh
<1>3. a \in Ips /\ ~Taken(a)
  <2>1. \E i \in Ips : ~Taken(i) /\ \A j \in Ips : j < i => Taken(j)
    <3> DEFINE S == {i \in Ips : ~Taken(i)}
    <3>1. S # {} /\ S \subseteq Nat  BY DEF CreateFriend, CanAllocate, Ips
    <3>2. PICK i \in S : \A j \in S : i =< j  BY <3>1, LeastOfNaturals
    <3> QED  BY <3>2 DEF Ips
  <2> QED  BY <2>1 DEF Allocated
<1> HIDE DEF a
<1>4. Start("store", "create", k, {Ip(a)}, next, {})  BY DEF CreateFriend, a
<1>5. next \in Store /\ next.schema = 2 /\ next.owners = store.owners
      /\ next.names = [store.names EXCEPT ![k] = n]
  BY <1>0, <1>1 DEF Store
<1>6. Readable(next)  BY <1>0, <1>2, <1>5 DEF Readable, IInv, Store
<1> HIDE DEF next
<1>7. {Ip(a)} \in SUBSET Routes  BY <1>3 DEF Routes
<1>8. Lan \notin {Ip(a)} /\ \A i \in Ips : Alias(i) \notin {Ip(a)}  BY <1>3, RoutesDiffer
<1>9. \A j \in Keys \ {k} : kernel[j] \cap {Ip(a)} = {}  BY <1>3 DEF Taken
<1>10. UNCHANGED <<kernel, boot, store, prepared, result, history, faults>>  BY DEF CreateFriend
<1>11. Fits("store", "create", k, {Ip(a)}, next, {})
  BY <1>2, <1>5, <1>6, <1>7, <1>8, <1>9 DEF Fits, Storing, Removing
<1> QED  BY <1>1, <1>4, <1>10, <1>11, Started

\* A removed friend stays on record, and one without a record gets one.
LEMMA RevokeFriendStep ==
    ASSUME IInv, NEW k \in Keys, RevokeFriend(k)
    PROVE  IInv'
<1>0. store \in Store /\ kernel \in Peers /\ Readable(store)  BY DEF IInv, TypeOK
<1>1. op = Idle /\ store.schema = 2 /\ k \notin store.owners
      /\ UNCHANGED <<kernel, boot, store, prepared, result, history, faults>>
  BY DEF RevokeFriend, Ready
<1>2. CASE ~Active(k) /\ Start("save", "retry", k, {}, store, {})
  <2>1. Fits("save", "retry", k, {}, store, {})  BY <1>0, <1>1, <1>2 DEF Fits, Storing, Removing, Active
  <2> QED  BY <1>1, <1>2, <2>1, Started
<1>3. CASE Start("store", "revoke", k, {}, store, {})
  <2>1. Fits("store", "revoke", k, {}, store, {})  BY <1>0, <1>1 DEF Fits, Storing, Removing
  <2> QED  BY <1>1, <1>3, <2>1, Started
<1>4. ASSUME NEW n \in Names, Start("store", "revoke", k, {}, [store EXCEPT !.names[k] = n], {})
      PROVE  IInv'
  <2> DEFINE next == [store EXCEPT !.names[k] = n]
  <2>1. next \in Store /\ next.schema = 2 /\ next.owners = store.owners
        /\ next.names = [store.names EXCEPT ![k] = n]
    BY <1>0, <1>1 DEF Store
  <2>2. Readable(next)  BY <1>0, <1>1, <2>1 DEF Readable, Store
  <2>3. Start("store", "revoke", k, {}, next, {})  BY <1>4
  <2> HIDE DEF next
  <2>4. Fits("store", "revoke", k, {}, next, {})  BY <1>0, <1>1, <2>1, <2>2 DEF Fits, Storing, Removing
  <2> QED  BY <1>1, <2>3, <2>4, Started
<1> QED  BY <1>2, <1>3, <1>4 DEF RevokeFriend

\* A router gets an address, and behind the firewall its WARP source.
LEMMA AddRouterStep ==
    ASSUME IInv, NEW k \in Keys, NEW i \in Ips, AddRouter(k, i)
    PROVE  IInv'
<1> DEFINE R == IF prepared THEN {Ip(i), Alias(i)} ELSE {Ip(i)}
           next == [store EXCEPT !.owners = @ \cup {k}]
<1>0. store \in Store /\ kernel \in Peers  BY DEF IInv, TypeOK
<1>1. op = Idle /\ store.schema = 2 /\ ~Recorded(k) /\ (k \in store.owners \/ ~Active(k))
      /\ UNCHANGED <<kernel, boot, store, prepared, result, history, faults>>
  BY DEF AddRouter, Ready
<1>2. RoutesFree(k, R) /\ Start("store", "owner", k, R, next, {})  BY DEF AddRouter
<1>3. next \in Store /\ next.schema = 2 /\ next.owners = store.owners \cup {k} /\ next.names = store.names
  BY <1>0, <1>1 DEF Store
<1>4. Readable(next)  BY <1>0, <1>1, <1>3 DEF Readable, IInv, Recorded
<1>5. R \in SUBSET Routes /\ Lan \notin R  BY RoutesDiffer DEF Routes
<1>6. \A j \in Ips : Alias(j) \in R => prepared  BY RoutesDiffer
<1> HIDE DEF R, next
<1>7. Fits("store", "owner", k, R, next, {})
  BY <1>1, <1>2, <1>3, <1>4, <1>5, <1>6 DEF Fits, Storing, Removing, Active, RoutesFree
<1> QED  BY <1>1, <1>2, <1>7, Started

\* The other commands start without a change of the store.
LEMMA PlainStart ==
    ASSUME IInv,
           \/ \E k \in Keys : RemoveRouter(k) \/ RemovePeer(k)
           \/ \E k \in Keys, i \in Ips : AddPeer(k, i)
           \/ Restart \/ EnableWarp
    PROVE  IInv'
<1>0. store \in Store /\ kernel \in Peers /\ Readable(store)  BY DEF IInv, TypeOK
<1>1. ASSUME NEW k \in Keys, RemoveRouter(k) PROVE IInv'
  <2>1. Fits("set", "unowner", k, {}, store, {})  BY <1>0 DEF Fits, Removing
  <2> QED  BY <1>1, <2>1, Started DEF RemoveRouter, Ready
<1>2. ASSUME NEW k \in Keys, RemovePeer(k) PROVE IInv'
  <2>1. Fits("set", "unpeer", k, {}, store, {})  BY <1>0 DEF Fits, Removing
  <2> QED  BY <1>2, <2>1, Started DEF RemovePeer
<1>3. ASSUME NEW k \in Keys, NEW i \in Ips, AddPeer(k, i) PROVE IInv'
  <2>1. {Ip(i)} \in SUBSET Routes /\ Lan \notin {Ip(i)} /\ \A j \in Ips : Alias(j) \notin {Ip(i)}
    BY RoutesDiffer DEF Routes
  <2>2. RoutesFree(k, {Ip(i)})  BY <1>3 DEF AddPeer
  <2>3. Fits("set", "peer", k, {Ip(i)}, store, {})  BY <1>0, <2>1, <2>2 DEF Fits, Removing, RoutesFree
  <2> QED  BY <1>3, <2>3, Started DEF AddPeer
<1>4. CASE Restart
  <2>1. Fits("save", "restart", NoKey, {}, store, {})  BY <1>0 DEF Fits, Removing
  <2> QED  BY <1>4, <2>1, Started DEF Restart
<1>5. CASE EnableWarp
  <2>1. ActiveOwners \in SUBSET Keys /\ ActiveOwners \subseteq store.owners
    BY <1>0 DEF ActiveOwners, Store
  <2>2. Fits("enable", "warp", NoKey, {}, store, ActiveOwners)  BY <1>0, <2>1 DEF Fits, Removing
  <2> QED  BY <1>5, <2>2, Started DEF EnableWarp, Ready
<1> QED  BY <1>1, <1>2, <1>3, <1>4, <1>5

\* The migration takes the holders of the old route for the routers.
LEMMA MigrateStep ==
    ASSUME IInv, Migrate
    PROVE  IInv'
<1>0. store \in Store /\ kernel \in Peers /\ Readable(store)  BY DEF IInv, TypeOK
<1>1. op = Idle /\ op' = op /\ kernel' = kernel /\ boot' = boot /\ prepared' = prepared
      /\ gone' = gone /\ routers' = routers /\ store.schema = 1
  BY DEF Migrate, history
<1>2. result' \in {"ok", "failed"} /\ faults' \in Nat  BY DEF Migrate, Fault, IInv, TypeOK
<1>3. CASE store' = store
  BY <1>0, <1>1, <1>2, <1>3 DEF IInv, TypeOK, Sound
<1>4. CASE store' = [store EXCEPT !.schema = 2, !.exists = TRUE, !.owners = LegacyOwners]
  <2>1. store' \in Store /\ store'.schema = 2 /\ store'.owners = LegacyOwners /\ store'.names = store.names
    BY <1>0, <1>4 DEF Store, LegacyOwners
  <2>2. store.owners = {}  BY <1>0, <1>1 DEF Readable
  <2>3. Readable(store)'
    BY <2>1 DEF Readable, Migrate, Migratable, Recorded
  <2>4. TypeOK'  BY <1>1, <1>2, <2>1 DEF IInv, TypeOK
  <2>5. Sound(kernel)' /\ Sound(boot)'  BY <1>1, <2>1, <2>2 DEF IInv, Sound
  <2> QED  BY <1>1, <2>3, <2>4, <2>5 DEF IInv
<1> QED  BY <1>3, <1>4 DEF Migrate

\* A friend's name is no router's.
LEMMA RenameFriendStep ==
    ASSUME IInv, NEW k \in Keys, NEW n \in Names, RenameFriend(k, n)
    PROVE  IInv'
<1>0. store \in Store /\ kernel \in Peers /\ Readable(store)  BY DEF IInv, TypeOK
<1>1. op = Idle /\ op' = op /\ kernel' = kernel /\ boot' = boot /\ prepared' = prepared
      /\ gone' = gone /\ routers' = routers /\ k \notin store.owners
  BY DEF RenameFriend, Ready, IsFriend, history
<1>2. result' \in {"ok", "failed"} /\ faults' \in Nat  BY DEF RenameFriend, Fault, IInv, TypeOK
<1>3. CASE store' = store
  BY <1>0, <1>1, <1>2, <1>3 DEF IInv, TypeOK, Sound
<1>4. CASE store' = [store EXCEPT !.names[k] = n]
  <2>1. store' \in Store /\ store'.schema = store.schema /\ store'.owners = store.owners
        /\ store'.names = [store.names EXCEPT ![k] = n]
    BY <1>0, <1>4 DEF Store
  <2>2. Readable(store)'  BY <1>0, <1>1, <2>1 DEF Readable, Store
  <2>3. TypeOK'  BY <1>1, <1>2, <2>1 DEF IInv, TypeOK
  <2>4. Sound(kernel)' /\ Sound(boot)'  BY <1>1, <2>1 DEF IInv, Sound
  <2> QED  BY <1>1, <2>2, <2>3, <2>4 DEF IInv
<1> QED  BY <1>3, <1>4 DEF RenameFriend

-----------------------------------------------------------------------------
(* The steps of a command.                                                 *)

\* A command ends and leaves peers and store as they are.
LEMMA Ended ==
    ASSUME IInv, op' = Idle, kernel' \in {kernel, boot}, boot' = boot, store' = store,
           prepared' \in {prepared, TRUE}, gone' = gone, routers' = routers,
           faults' \in Nat, result' \in {"ok", "failed", "torn"}
    PROVE  IInv'
<1>1. TypeOK'  BY DEF IInv, TypeOK
<1>2. prepared => prepared'  OBVIOUS
<1>3. Readable(store)' /\ Sound(boot)'  BY <1>2 DEF IInv, Sound
<1>4. CASE kernel' = kernel  BY <1>1, <1>2, <1>3, <1>4 DEF IInv, Sound
<1>5. CASE kernel' = boot  BY <1>1, <1>2, <1>3, <1>5 DEF IInv, Sound
<1> QED  BY <1>4, <1>5

\* The firewall is prepared before any source is authorised.
LEMMA PrepareWarpStep ==
    ASSUME IInv, PrepareWarp
    PROVE  IInv'
<1>1. op # Idle /\ op.at = "enable" /\ op.kind = "warp" /\ OpInv  BY DEF PrepareWarp, At, IInv, OpInv, PathInv
<1>2. kernel' = kernel /\ boot' = boot /\ store' = store /\ gone' = gone /\ routers' = routers
  BY DEF PrepareWarp, history
<1>3. CASE prepared' = TRUE /\ op' = [op EXCEPT !.at = "set"] /\ UNCHANGED <<result, faults>>
  <2>1. TypeOK  BY DEF IInv
  <2>2. /\ op' \in Command /\ op' # Idle /\ op'.at = "set" /\ op'.kind = op.kind /\ op'.key = op.key
        /\ op'.routes = op.routes /\ op'.prev = op.prev /\ op'.next = op.next
        /\ op'.back = op.back /\ op'.todo = op.todo
    BY <1>1, <1>3, <2>1, Moved
  <2>3. TypeOK'  BY <1>2, <1>3, <2>1, <2>2 DEF TypeOK
  <2>4. Readable(store)' /\ Sound(kernel)' /\ Sound(boot)'  BY <1>2, <1>3 DEF IInv, Sound
  <2>5. PathInv' /\ RoutesInv'  BY <1>1, <1>2, <1>3, <2>2 DEF OpInv, PathInv, RoutesInv, Removing
  <2>6. StoreInv' /\ PeersInv'  BY <1>1, <1>2, <1>3, <2>2 DEF OpInv, StoreInv, PeersInv, Sound
  <2> QED  BY <2>3, <2>4, <2>5, <2>6 DEF IInv, OpInv
<1>4. CASE Fault /\ prepared' \in {prepared, TRUE} /\ End("failed")
  <2>1. faults' \in Nat  BY <1>4 DEF Fault, IInv, TypeOK
  <2> QED  BY <1>2, <1>4, <2>1, Ended DEF End
<1> QED  BY <1>3, <1>4 DEF PrepareWarp

\* A router gets the WARP source of its own address.
LEMMA AuthorizeRouterStep ==
    ASSUME IInv, NEW k \in Keys, AuthorizeRouter(k)
    PROVE  IInv'
<1>1. op # Idle /\ op.at = "set" /\ op.kind = "warp" /\ k \in op.todo /\ OpInv
  BY DEF AuthorizeRouter, At, IInv
<1>2. boot' = boot /\ store' = store /\ prepared' = prepared /\ gone' = gone /\ routers' = routers
      /\ result' = result /\ faults' = faults
  BY DEF AuthorizeRouter, history
<1>3. TypeOK /\ kernel \in Peers /\ op \in Command  BY <1>1, CommandFields DEF IInv, TypeOK
<1>4. WarpRoutes(k) \in SUBSET Routes  BY <1>3 DEF WarpRoutes, Routes, Peers
<1>5. /\ kernel' \in Peers /\ kernel'[k] = WarpRoutes(k)
      /\ \A j \in Keys \ {k} : kernel'[j] = kernel[j]
  BY <1>3, <1>4 DEF AuthorizeRouter, Peers
<1>6. kernel[k] = {} => WarpRoutes(k) = {}  BY DEF WarpRoutes
<1>7. kernel[k] \subseteq WarpRoutes(k)  BY DEF WarpRoutes
<1>8. prepared /\ k \in store.owners  BY <1>1 DEF OpInv, StoreInv
<1>9. /\ op' \in Command /\ op'.at \in {"save", "set"} /\ op'.kind = op.kind /\ op'.key = op.key
      /\ op'.routes = op.routes /\ op'.prev = op.prev /\ op'.next = op.next
      /\ op'.back = op.back /\ op'.todo \subseteq op.todo
  BY <1>3 DEF AuthorizeRouter, Command
<1>10. TypeOK'  BY <1>2, <1>3, <1>5, <1>9 DEF TypeOK
<1>11. Readable(store)' /\ Sound(boot)'  BY <1>2 DEF IInv, Sound
<1>12. Sound(kernel)'
  <2>1. \A j \in routers' \ store'.owners : kernel'[j] = {} \/ Lan \in kernel'[j]
    BY <1>2, <1>3, <1>5, <1>8 DEF IInv, Sound, TypeOK
  <2>2. \A j \in Keys, i \in Ips : Alias(i) \in kernel'[j] => prepared' /\ j \in store'.owners
    <3>1. ASSUME NEW j \in Keys \ {k}, NEW i \in Ips, Alias(i) \in kernel'[j]
          PROVE  prepared' /\ j \in store'.owners
      BY <1>2, <1>5, <3>1 DEF IInv, Sound
    <3> QED  BY <1>2, <1>8, <3>1
  <2>3. \A j \in gone' : kernel'[j] = {}
    BY <1>2, <1>3, <1>5, <1>6 DEF IInv, Sound, TypeOK
  <2> QED  BY <2>1, <2>2, <2>3 DEF Sound
<1>13. PathInv' /\ RoutesInv'  BY <1>1, <1>2, <1>9 DEF OpInv, PathInv, RoutesInv, Removing
<1>14. StoreInv' /\ PeersInv'  BY <1>1, <1>2, <1>9 DEF OpInv, StoreInv, PeersInv, Sound
<1> QED  BY <1>10, <1>11, <1>12, <1>13, <1>14 DEF IInv, OpInv

\* The routers are in the store before they are on the interface.
LEMMA WriteStoreStep ==
    ASSUME IInv, WriteStore
    PROVE  IInv'
<1>1. op # Idle /\ op.at = "store" /\ OpInv  BY DEF WriteStore, At, IInv
<1>2. kernel' = kernel /\ boot' = boot /\ prepared' = prepared /\ gone' = gone /\ routers' = routers
  BY DEF WriteStore, history
<1>3. TypeOK /\ op.next \in Store /\ op.kind \in Storing  BY <1>1, CommandFields DEF IInv, OpInv, PathInv
<1>4. store.owners \subseteq op.next.owners /\ Readable(op.next)  BY <1>1 DEF OpInv, StoreInv
<1>5. CASE store' = op.next /\ op' = [op EXCEPT !.at = "set"] /\ UNCHANGED <<result, faults>>
  <2>2. /\ op' \in Command /\ op' # Idle /\ op'.at = "set" /\ op'.kind = op.kind /\ op'.key = op.key
        /\ op'.routes = op.routes /\ op'.prev = op.prev /\ op'.next = op.next
        /\ op'.back = op.back /\ op'.todo = op.todo
    BY <1>1, <1>3, <1>5, Moved
  <2>3. TypeOK'  BY <1>2, <1>3, <1>5, <2>2 DEF TypeOK
  <2>4. Readable(store)' /\ Sound(kernel)' /\ Sound(boot)'  BY <1>2, <1>4, <1>5 DEF IInv, Sound
  <2>5. PathInv' /\ RoutesInv'  BY <1>1, <1>2, <1>3, <2>2 DEF OpInv, PathInv, RoutesInv, Storing
  <2>6. StoreInv'  BY <1>1, <1>2, <1>3, <1>5, <2>2 DEF OpInv, StoreInv, Storing
  <2>7. PeersInv'  BY <1>1, <1>2, <1>3, <1>4, <1>5, <2>2 DEF OpInv, PeersInv, Sound, Storing
  <2> QED  BY <2>3, <2>4, <2>5, <2>6, <2>7 DEF IInv, OpInv
<1>6. CASE Fault /\ store' \in {store, op.next} /\ End("failed")
  <2>1. faults' \in Nat /\ op' = Idle /\ result' = "failed"  BY <1>6 DEF Fault, End, IInv, TypeOK
  <2>2. TypeOK'  BY <1>2, <1>3, <1>6, <2>1 DEF TypeOK
  <2>3. Readable(store)' /\ Sound(kernel)' /\ Sound(boot)'  BY <1>2, <1>4, <1>6 DEF IInv, Sound
  <2> QED  BY <2>1, <2>2, <2>3 DEF IInv
<1> QED  BY <1>5, <1>6 DEF WriteStore

\* wg set: the peer has the routes it was given, and nobody else lost one.
LEMMA SetPeerStep ==
    ASSUME IInv, SetPeer
    PROVE  IInv'
<1>1. op # Idle /\ op.at = "set" /\ op.kind # "warp" /\ OpInv  BY DEF SetPeer, At, IInv
<1>2. boot' = boot /\ store' = store /\ prepared' = prepared /\ result' = result /\ faults' = faults
  BY DEF SetPeer
<1>3. TypeOK /\ kernel \in Peers /\ op.routes \in SUBSET Routes /\ op.key \in Keys /\ kernel = op.prev
      /\ store = op.next
  BY <1>1, CommandFields DEF IInv, TypeOK, OpInv, PathInv, PeersInv, StoreInv
<1>4. /\ kernel' \in Peers /\ kernel'[op.key] = op.routes
      /\ \A k \in Keys \ {op.key} : kernel'[k] = kernel[k]
  <2>1. \A k \in Keys : (IF k = op.key THEN op.routes ELSE kernel[k] \ op.routes) \in SUBSET Routes
    BY <1>3 DEF Peers
  <2>2. \A k \in Keys \ {op.key} : kernel[k] \ op.routes = kernel[k]
    BY <1>1, <1>3 DEF OpInv, RoutesInv
  <2> QED  BY <1>3, <2>1, <2>2 DEF SetPeer, Peers
<1>5. /\ op' \in Command /\ op' # Idle /\ op'.at = "save" /\ op'.kind = op.kind /\ op'.key = op.key
      /\ op'.routes = op.routes /\ op'.prev = op.prev /\ op'.next = op.next
      /\ op'.back = op.back /\ op'.todo = op.todo
  BY <1>1, <1>3, Moved DEF SetPeer
<1>6. /\ gone' \subseteq gone /\ (op.key \in gone' => op.routes = {})  BY DEF SetPeer
<1>7. /\ routers' \subseteq routers \cup {op.key}
      /\ op.kind = "create" => op.key \notin routers'
      /\ op.kind = "peer" /\ op.key \notin store.owners => op.key \notin routers'
      /\ op.kind # "owner" => routers' \subseteq routers
  BY <1>1 DEF SetPeer, OpInv, RoutesInv
<1>8. op.kind = "owner" => op.key \in store.owners  BY <1>1, <1>3 DEF OpInv, StoreInv
<1>9. op.kind \in {"create", "revoke", "owner", "unowner", "peer", "unpeer"}
  BY <1>1, <1>3, CommandFields DEF OpInv, PathInv
<1>10. TypeOK'  BY <1>2, <1>3, <1>4, <1>5, <1>6, <1>7 DEF TypeOK
\* The peer itself.
<1>11. /\ op.key \in routers' \ store'.owners => op.routes = {}
       /\ \A i \in Ips : Alias(i) \in op.routes => prepared' /\ op.key \in store'.owners
       /\ op.key \in gone' => op.routes = {}
  BY <1>1, <1>2, <1>6, <1>7, <1>8, <1>9 DEF OpInv, RoutesInv, Removing
<1>12. \A k \in Keys \ {op.key} : k \in routers' => k \in routers  BY <1>7
<1>13. Sound(boot)' /\ Sound(op.prev)'
  <2>1. \A k \in routers' \ store'.owners : k \in routers \ store.owners
    BY <1>2, <1>7, <1>8 DEF IInv, TypeOK
  <2>2. Sound(boot) /\ Sound(op.prev)  BY <1>1 DEF IInv, OpInv, PeersInv
  <2> QED  BY <1>2, <1>5, <1>6, <2>1, <2>2 DEF Sound
<1>14. Sound(kernel)'
  <2>1. \A k \in routers' \ store'.owners : kernel'[k] = {} \/ Lan \in kernel'[k]
    BY <1>2, <1>3, <1>4, <1>10, <1>11, <1>12 DEF IInv, Sound, TypeOK
  <2>2. ASSUME NEW k \in Keys, NEW i \in Ips, Alias(i) \in kernel'[k]
        PROVE  prepared' /\ k \in store'.owners
    <3>1. CASE k = op.key  BY <1>4, <1>11, <2>2, <3>1
    <3>2. CASE k # op.key  BY <1>2, <1>4, <2>2, <3>2 DEF IInv, Sound
    <3> QED  BY <3>1, <3>2
  <2>3. \A k \in gone' : kernel'[k] = {}
    BY <1>3, <1>4, <1>6, <1>11 DEF IInv, Sound, TypeOK
  <2> QED  BY <2>1, <2>2, <2>3 DEF Sound
<1>15. Readable(store)'  BY <1>2 DEF IInv
<1>16. PathInv' /\ StoreInv'
  BY <1>1, <1>2, <1>5 DEF OpInv, PathInv, StoreInv
<1>17. RoutesInv'  BY <1>1, <1>2, <1>5, <1>7 DEF OpInv, RoutesInv
<1>18. PeersInv'  BY <1>1, <1>3, <1>4, <1>5, <1>13 DEF OpInv, PeersInv
<1> QED  BY <1>5, <1>10, <1>13, <1>14, <1>15, <1>16, <1>17, <1>18 DEF IInv, OpInv

\* wg-quick save: what is on the interface is what the next boot loads.
LEMMA SaveStep ==
    ASSUME IInv, Save
    PROVE  IInv'
<1>1. op # Idle /\ op.at = "save" /\ OpInv  BY DEF Save, At, IInv
<1>2. kernel' = kernel /\ boot' = kernel /\ store' = store /\ prepared' = prepared /\ routers' = routers
      /\ faults' = faults
  BY DEF Save
<1>3. TypeOK  BY DEF IInv
<1>4. op.kind \in Removing => kernel[op.key] = {} /\ op.key \in Keys
  BY <1>1 DEF OpInv, PeersInv, RoutesInv, PathInv, Removing
<1>5. gone' \in SUBSET Keys /\ \A k \in gone' : kernel[k] = {}
  BY <1>3, <1>4 DEF Save, TypeOK, IInv, Sound
<1>6. Readable(store)' /\ Sound(kernel)' /\ Sound(boot)'  BY <1>2, <1>5 DEF IInv, Sound
<1>7. CASE op.kind = "restart"
  <2>1. op' = [op EXCEPT !.at = "reload"] /\ result' = result /\ gone' = gone  BY <1>7 DEF Save, Removing
  <2>2. /\ op' \in Command /\ op' # Idle /\ op'.at = "reload" /\ op'.kind = op.kind /\ op'.key = op.key
        /\ op'.routes = op.routes /\ op'.prev = op.prev /\ op'.next = op.next
        /\ op'.back = op.back /\ op'.todo = op.todo
    BY <1>1, <1>3, <2>1, Moved
  <2>3. TypeOK'  BY <1>2, <1>3, <1>5, <2>1, <2>2 DEF TypeOK
  <2>4. PathInv' /\ RoutesInv'  BY <1>1, <1>2, <1>7, <2>2 DEF OpInv, PathInv, RoutesInv
  <2>5. StoreInv' /\ PeersInv'  BY <1>1, <1>2, <1>7, <2>1, <2>2 DEF OpInv, StoreInv, PeersInv, Sound
  <2> QED  BY <1>6, <2>3, <2>4, <2>5 DEF IInv, OpInv
<1>8. CASE op.kind # "restart"
  <2>1. op' = Idle /\ result' = "ok"  BY <1>8 DEF Save, End
  <2>2. TypeOK'  BY <1>2, <1>3, <1>5, <2>1 DEF TypeOK
  <2> QED  BY <1>6, <2>1, <2>2 DEF IInv
<1> QED  BY <1>7, <1>8

\* A restart loads what was saved.
LEMMA ReloadStep ==
    ASSUME IInv, Reload
    PROVE  IInv'
<1>1. faults' \in Nat /\ kernel' \in {kernel, boot} /\ op' = Idle /\ result' \in {"ok", "failed"}
  BY DEF Reload, Fault, End, IInv, TypeOK
<1> QED  BY <1>1, Ended DEF Reload, history

\* A failure starts the way back, or ends the command.
LEMMA SetOrSaveFailsStep ==
    ASSUME IInv, SetOrSaveFails
    PROVE  IInv'
<1>1. op # Idle /\ op.at \in {"set", "save"} /\ OpInv  BY DEF SetOrSaveFails, At, IInv
<1>2. kernel' = kernel /\ boot' = boot /\ store' = store /\ prepared' = prepared /\ gone' = gone
      /\ routers' = routers
  BY DEF SetOrSaveFails, history
<1>3. TypeOK /\ faults' \in Nat  BY DEF SetOrSaveFails, Fault, IInv, TypeOK
<1>4. CASE End("failed")  BY <1>2, <1>3, <1>4, Ended DEF End
<1>5. CASE op.kind \notin {"retry", "unpeer", "restart"} /\ op' = [op EXCEPT !.at = "setconf"] /\ UNCHANGED result
  <2>2. /\ op' \in Command /\ op' # Idle /\ op'.at = "setconf" /\ op'.kind = op.kind /\ op'.key = op.key
        /\ op'.routes = op.routes /\ op'.prev = op.prev /\ op'.next = op.next
        /\ op'.back = op.back /\ op'.todo = op.todo
    BY <1>1, <1>3, <1>5, Moved
  <2>3. TypeOK'  BY <1>2, <1>3, <1>5, <2>2 DEF TypeOK
  <2>4. Readable(store)' /\ Sound(kernel)' /\ Sound(boot)'  BY <1>2 DEF IInv, Sound
  <2>5. PathInv' /\ RoutesInv'
    BY <1>1, <1>2, <1>3, <1>5, <2>2, CommandFields DEF OpInv, PathInv, RoutesInv, RollingBack, Storing
  <2>6. StoreInv' /\ PeersInv'  BY <1>1, <1>2, <2>2 DEF OpInv, StoreInv, PeersInv, Sound
  <2> QED  BY <2>3, <2>4, <2>5, <2>6 DEF IInv, OpInv
<1> QED  BY <1>4, <1>5 DEF SetOrSaveFails

\* The interface is again as the command found it.
LEMMA SetconfStep ==
    ASSUME IInv, Setconf
    PROVE  IInv'
<1>1. op # Idle /\ op.at = "setconf" /\ OpInv  BY DEF Setconf, At, IInv
<1>2. boot' = boot /\ store' = store /\ prepared' = prepared /\ gone' = gone /\ routers' = routers
  BY DEF Setconf, history
<1>3. TypeOK /\ op.prev \in Peers  BY <1>1, CommandFields DEF IInv
<1>4. CASE kernel' = op.prev /\ op' = [op EXCEPT !.at = "resave"] /\ UNCHANGED <<result, faults>>
  <2>2. /\ op' \in Command /\ op' # Idle /\ op'.at = "resave" /\ op'.kind = op.kind /\ op'.key = op.key
        /\ op'.routes = op.routes /\ op'.prev = op.prev /\ op'.next = op.next
        /\ op'.back = op.back /\ op'.todo = op.todo
    BY <1>1, <1>3, <1>4, Moved
  <2>3. TypeOK'  BY <1>2, <1>3, <1>4, <2>2 DEF TypeOK
  <2>4. Readable(store)' /\ Sound(boot)'  BY <1>2 DEF IInv, Sound
  <2>5. Sound(kernel)'  BY <1>1, <1>2, <1>4 DEF OpInv, PeersInv, Sound
  <2>6. PathInv' /\ RoutesInv'  BY <1>1, <1>2, <2>2 DEF OpInv, PathInv, RoutesInv
  <2>7. StoreInv' /\ PeersInv'  BY <1>1, <1>2, <1>4, <2>2 DEF OpInv, StoreInv, PeersInv, Sound
  <2> QED  BY <2>3, <2>4, <2>5, <2>6, <2>7 DEF IInv, OpInv
<1>5. CASE Fault /\ End("torn") /\ UNCHANGED kernel
  <2>1. faults' \in Nat  BY <1>5 DEF Fault, IInv, TypeOK
  <2> QED  BY <1>2, <1>5, <2>1, Ended DEF End
<1> QED  BY <1>4, <1>5 DEF Setconf

\* The boot configuration is again as the command found the interface.
LEMMA ResaveStep ==
    ASSUME IInv, Resave
    PROVE  IInv'
<1>1. op # Idle /\ op.at = "resave" /\ OpInv /\ kernel = op.prev  BY DEF Resave, At, IInv, OpInv, PeersInv
<1>2. kernel' = kernel /\ store' = store /\ prepared' = prepared /\ gone' = gone /\ routers' = routers
  BY DEF Resave, history
<1>3. TypeOK  BY DEF IInv
<1>4. ASSUME boot' = kernel PROVE Readable(store)' /\ Sound(kernel)' /\ Sound(boot)'
  BY <1>2, <1>4 DEF IInv, Sound
<1>5. CASE boot' = kernel /\ UNCHANGED faults /\ op.next # op.back
           /\ op' = [op EXCEPT !.at = "restore"] /\ UNCHANGED result
  <2>2. /\ op' \in Command /\ op' # Idle /\ op'.at = "restore" /\ op'.kind = op.kind /\ op'.key = op.key
        /\ op'.routes = op.routes /\ op'.prev = op.prev /\ op'.next = op.next
        /\ op'.back = op.back /\ op'.todo = op.todo
    BY <1>1, <1>3, <1>5, Moved
  <2>3. TypeOK'  BY <1>2, <1>3, <1>5, <2>2 DEF TypeOK
  <2>5. PathInv'  BY <1>1, <1>5, <2>2 DEF OpInv, PathInv, RollingBack, StoreInv
  <2>6. RoutesInv'  BY <1>1, <1>2, <2>2 DEF OpInv, RoutesInv
  <2>7. StoreInv' /\ PeersInv'  BY <1>1, <1>2, <1>5, <2>2 DEF OpInv, StoreInv, PeersInv, Sound
  <2> QED  BY <1>4, <1>5, <2>3, <2>5, <2>6, <2>7 DEF IInv, OpInv
<1>6. CASE boot' = kernel /\ UNCHANGED faults /\ End("failed")
  <2>1. op' = Idle /\ result' = "failed"  BY <1>6 DEF End
  <2>2. TypeOK'  BY <1>2, <1>3, <1>6, <2>1 DEF TypeOK
  <2> QED  BY <1>4, <1>6, <2>1, <2>2 DEF IInv
<1>7. CASE Fault /\ End("torn") /\ UNCHANGED boot
  <2>1. faults' \in Nat  BY <1>7 DEF Fault, IInv, TypeOK
  <2> QED  BY <1>2, <1>7, <2>1, Ended DEF End
<1> QED  BY <1>5, <1>6, <1>7 DEF Resave

\* The store is again as the command found it, when the peers are.
LEMMA RestoreStep ==
    ASSUME IInv, Restore
    PROVE  IInv'
<1>1. op # Idle /\ op.at = "restore" /\ OpInv /\ kernel = op.prev /\ boot = op.prev /\ store = op.next
      /\ op.kind \in Storing /\ op.key \in Keys
  BY DEF Restore, At, IInv, OpInv, PeersInv, StoreInv, PathInv, Storing
<1>2. kernel' = kernel /\ boot' = boot /\ prepared' = prepared /\ gone' = gone /\ op' = Idle
      /\ result' \in {"failed", "torn"}
  BY DEF Restore, End
<1>3. TypeOK /\ op.back \in Store /\ faults' \in Nat  BY <1>1, CommandFields DEF Restore, Fault, IInv, TypeOK
<1>4. store' \in {store, op.back} /\ routers' \subseteq routers
      /\ (store' = op.back /\ op.kind = "owner" => op.key \notin routers')
  BY DEF Restore
<1>5. TypeOK'  BY <1>2, <1>3, <1>4 DEF TypeOK
<1>6. Readable(store)'  BY <1>1, <1>4 DEF OpInv, StoreInv, IInv
<1>7. CASE store' = store
  <2>1. Sound(kernel)' /\ Sound(boot)'  BY <1>2, <1>4, <1>7 DEF IInv, Sound
  <2> QED  BY <1>2, <1>5, <1>6, <2>1 DEF IInv
<1>8. CASE store' = op.back
  <2>1. store.owners \subseteq op.back.owners \cup {op.key} /\ (op.kind # "owner" => store.owners = op.back.owners)
        /\ (op.key \in store.owners \ op.back.owners => op.prev[op.key] = {})
    BY <1>1 DEF OpInv, StoreInv
  <2>2. \A k \in routers' \ store'.owners : k \in routers \ store.owners
    BY <1>4, <1>8, <2>1
  <2>3. \A k \in Keys, i \in Ips : Alias(i) \in op.prev[k] => prepared' /\ k \in store'.owners
    <3> SUFFICES ASSUME NEW k \in Keys, NEW i \in Ips, Alias(i) \in op.prev[k]
                 PROVE  prepared' /\ k \in store'.owners
      OBVIOUS
    <3>1. prepared /\ k \in store.owners  BY <1>1 DEF OpInv, PeersInv, Sound
    <3> QED  BY <1>2, <1>8, <2>1, <3>1
  <2>4. Sound(kernel)' /\ Sound(boot)'  BY <1>1, <1>2, <2>2, <2>3 DEF IInv, Sound
  <2> QED  BY <1>2, <1>5, <1>6, <2>4 DEF IInv
<1> QED  BY <1>4, <1>7, <1>8

\* A killed command, or a restart of the machine, at any moment.
LEMMA KillOrReboot ==
    ASSUME IInv, Kill \/ Reboot
    PROVE  IInv'
<1>1. faults' \in Nat  BY DEF Kill, Reboot, Fault, IInv, TypeOK
<1> QED  BY <1>1, Ended DEF Kill, Reboot, End, history

-----------------------------------------------------------------------------
(* The theorems.                                                           *)

\* A new server, or what an older release left.
LEMMA InitInv == Init => IInv
<1> SUFFICES ASSUME Init PROVE IInv  OBVIOUS
<1>1. PICK old \in Legacy : kernel = old.peers /\ boot = old.peers /\ store = old.store  BY DEF Init
<1>2. old.peers \in Peers /\ old.store \in Store  BY LegacyAssumption
<1>3. TypeOK  BY <1>1, <1>2 DEF Init, TypeOK, Store
<1>4. Readable(store)  BY <1>1, LegacyIsReadable DEF Readable
<1>5. /\ \A k \in routers \ store.owners : Lan \in kernel[k]
      /\ \A k \in Keys, i \in Ips : Alias(i) \notin kernel[k]
      /\ gone = {} /\ op = Idle /\ boot = kernel
  BY <1>1, LegacyIsReadable DEF Init
<1> QED  BY <1>3, <1>4, <1>5 DEF IInv, Sound

\* Every step keeps the invariant.
LEMMA NextInv ==
    ASSUME IInv, [Next]_vars
    PROVE  IInv'
<1>1. CASE Step
  BY <1>1, PrepareWarpStep, WriteStoreStep, SetPeerStep, SaveStep, ReloadStep, SetOrSaveFailsStep, SetconfStep,
     ResaveStep, RestoreStep, AuthorizeRouterStep DEF Step
<1>2. CASE Migrate \/ Kill \/ Reboot  BY <1>2, MigrateStep, KillOrReboot
<1>3. ASSUME NEW k \in Keys, NEW n \in Names, CreateFriend(k, n) \/ RenameFriend(k, n) PROVE IInv'
  BY <1>3, CreateFriendStep, RenameFriendStep
<1>4. ASSUME NEW k \in Keys, RevokeFriend(k) PROVE IInv'  BY <1>4, RevokeFriendStep
<1>5. ASSUME NEW k \in Keys, NEW i \in Ips, AddRouter(k, i) PROVE IInv'  BY <1>5, AddRouterStep
<1>6. CASE EnableWarp \/ Restart \/ (\E k \in Keys : RemoveRouter(k) \/ RemovePeer(k))
           \/ \E k \in Keys, i \in Ips : AddPeer(k, i)
  BY <1>6, PlainStart
<1>7. CASE UNCHANGED vars
  <2>1. /\ kernel' = kernel /\ boot' = boot /\ store' = store /\ prepared' = prepared /\ op' = op
        /\ result' = result /\ gone' = gone /\ routers' = routers /\ faults' = faults
    BY <1>7 DEF vars, history
  <2>2. TypeOK' /\ Readable(store)' /\ Sound(kernel)' /\ Sound(boot)'  BY <2>1 DEF IInv, TypeOK, Sound
  <2>3. op # Idle => PathInv' /\ StoreInv' /\ RoutesInv' /\ PeersInv'
    BY <2>1 DEF IInv, OpInv, PathInv, StoreInv, RoutesInv, PeersInv, Sound
  <2> QED  BY <2>1, <2>2, <2>3 DEF IInv, OpInv
<1> QED  BY <1>1, <1>2, <1>3, <1>4, <1>5, <1>6, <1>7 DEF Next

\* The inductive invariant holds in every state of Friends: a store that can be
\* read, and peers and a running command that fit it.
THEOREM FriendsInvariant == Spec => []IInv
<1>1. IInv /\ [Next]_vars => IInv'  BY NextInv
<1> QED  BY <1>1, InitInv, PTL DEF Spec

\* write_store never leaves a store that read_store refuses: every command
\* would fail from then on, and nobody could be added or removed.
THEOREM StoreStaysReadable == Spec => []Readable(store)
<1>1. IInv => Readable(store)  BY DEF IInv
<1> QED  BY <1>1, FriendsInvariant, PTL

\* No failed rollback, killed command or restart makes the panel take a router
\* for a friend.
THEOREM Routers == Spec => []RoutersAreNoFriends
<1>1. ASSUME IInv PROVE RoutersAreNoFriends
  <2>1. ASSUME NEW R, FriendShape(R) PROVE R # {} /\ Lan \notin R
    <3>1. PICK i \in Ips : R = {Ip(i)}  BY <2>1 DEF FriendShape
    <3> QED  BY <3>1, RoutesDiffer
  <2> QED  BY <1>1, <2>1 DEF IInv, Sound, RoutersAreNoFriends
<1> QED  BY <1>1, FriendsInvariant, PTL

\* A confirmed removal is final on the interface and in the boot configuration.
THEOREM Removed == Spec => []RemovedStaysOut
<1>1. IInv => RemovedStaysOut  BY DEF IInv, Sound, RemovedStaysOut, Active
<1> QED  BY <1>1, FriendsInvariant, PTL

\* WARP sources belong to routers, behind the firewall.
THEOREM WarpSources == Spec => []WarpSourcesAreGuarded
<1>1. IInv => WarpSourcesAreGuarded  BY DEF IInv, Sound, WarpSourcesAreGuarded
<1> QED  BY <1>1, FriendsInvariant, PTL

\* A command that runs and goes on running is at one of these steps.
LEMMA GoesOn ==
    ASSUME IInv, [Next]_vars, op # Idle
    PROVE  Step \/ Kill \/ Reboot \/ UNCHANGED vars
BY DEF Next, Migrate, EnableWarp, Restart, CreateFriend, RenameFriend, RevokeFriend, RemoveRouter, RemovePeer,
       AddRouter, AddPeer, Ready

\* Neither wg set nor the way back takes an address from another peer.
LEMMA OthersKeep ==
    ASSUME IInv, [Next]_vars, op # Idle, op' # Idle, op.at \in {"set", "setconf"}, NEW k \in Keys \ {op.key}
    PROVE  kernel[k] \subseteq kernel'[k] \/ (op.kind = "warp" /\ kernel'[k] = op.prev[k])
<1>1. OpInv /\ TypeOK  BY DEF IInv
<1>2. CASE SetPeer
  BY <1>1, <1>2 DEF SetPeer, OpInv, RoutesInv, PeersInv
<1>3. CASE Setconf
  BY <1>1, <1>3 DEF Setconf, OpInv, PeersInv, End
<1>4. ASSUME NEW j \in Keys, AuthorizeRouter(j)
      PROVE  kernel[k] \subseteq kernel'[k]
  BY <1>1, <1>4 DEF AuthorizeRouter, WarpRoutes, TypeOK, Peers
<1>5. CASE SetOrSaveFails \/ UNCHANGED vars  BY <1>5 DEF SetOrSaveFails, vars
<1>6. ~Kill /\ ~Reboot  BY DEF Kill, Reboot, End
<1>7. ~PrepareWarp /\ ~WriteStore /\ ~Save /\ ~Reload /\ ~Resave /\ ~Restore
  BY DEF PrepareWarp, WriteStore, Save, Reload, Resave, Restore, At
<1> QED  BY <1>2, <1>3, <1>4, <1>5, <1>6, <1>7, GoesOn DEF Step

\* WireGuard moves an address without a word, and no command makes it do so.
THEOREM Addresses == Spec => OthersKeepTheirRoutes
<1> DEFINE Keep == op # Idle /\ op' # Idle /\ op.at \in {"set", "setconf"} =>
                     \A k \in Keys \ {op.key} :
                        kernel[k] \subseteq kernel'[k] \/ (op.kind = "warp" /\ kernel'[k] = op.prev[k])
<1>1. IInv /\ [Next]_vars => Keep  BY OthersKeep
<1>2. OthersKeepTheirRoutes <=> [][Keep]_vars  BY DEF OthersKeepTheirRoutes
<1> HIDE DEF Keep
<1> QED  BY <1>1, <1>2, FriendsInvariant, PTL DEF Spec

\* The end of a command that reports success or a plain failure.
LEMMA TrueReport ==
    ASSUME IInv, [Next]_vars, op # Idle, op' = Idle, op.kind # "restart"
    PROVE  /\ result' = "ok" => boot' = kernel' /\ (op.kind = "warp" \/ kernel'[op.key] = op.routes)
           /\ result' = "failed" /\ op.kind \notin {"retry", "unpeer"} => kernel' = op.prev
<1>1. OpInv /\ TypeOK  BY DEF IInv
<1>2. CASE Save  BY <1>1, <1>2 DEF Save, End, At, OpInv, PeersInv
<1>3. CASE PrepareWarp \/ WriteStore \/ Resave \/ Restore
  <2>1. kernel' = kernel /\ op.at \in {"enable", "store", "resave", "restore"}
    BY <1>3 DEF PrepareWarp, WriteStore, Resave, Restore, At
  <2>2. kernel' = op.prev  BY <1>1, <2>1 DEF OpInv, PeersInv
  <2>3. result' # "ok"
    BY <1>1, <1>3, Moved DEF PrepareWarp, WriteStore, Resave, Restore, End
  <2> QED  BY <2>2, <2>3
<1>4. CASE SetOrSaveFails  BY <1>4, CommandIsNotIdle, Moved, <1>1 DEF SetOrSaveFails, End
<1>5. CASE Setconf \/ Kill \/ Reboot
  BY <1>1, <1>5, Moved DEF Setconf, Kill, Reboot, End
<1>6. ~Reload  BY <1>1 DEF Reload, At, OpInv, PathInv
<1>7. ~SetPeer /\ ~UNCHANGED vars  BY <1>1, Moved DEF SetPeer, vars
<1>8. ASSUME NEW j \in Keys, AuthorizeRouter(j) PROVE FALSE
  <2>1. op' \in Command  BY <1>1, <1>8, CommandFields DEF AuthorizeRouter, Command
  <2> QED  BY <2>1, CommandIsNotIdle
<1> QED  BY <1>2, <1>3, <1>4, <1>5, <1>6, <1>7, <1>8, GoesOn DEF Step

\* A command that says "done" has changed the interface and the boot
\* configuration, one that plainly failed has left the interface as it was.
THEOREM Reports == Spec => ReportsAreTrue
<1> DEFINE Honest == op # Idle /\ op' = Idle /\ op.kind # "restart" =>
              /\ result' = "ok" => boot' = kernel' /\ (op.kind = "warp" \/ kernel'[op.key] = op.routes)
              /\ result' = "failed" /\ op.kind \notin {"retry", "unpeer"} => kernel' = op.prev
<1>1. IInv /\ [Next]_vars => Honest  BY TrueReport
<1>2. ReportsAreTrue <=> [][Honest]_vars  BY DEF ReportsAreTrue
<1> HIDE DEF Honest
<1> QED  BY <1>1, <1>2, FriendsInvariant, PTL DEF Spec
=============================================================================
