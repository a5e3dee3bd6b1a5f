--------------------------- MODULE FakeDnsProofs ---------------------------
(***************************************************************************)
(* Proofs about FakeDns for every set of names, hosts, policies and        *)
(* workers, every pool and lease limit, and every TTL, margin and grace.   *)
(***************************************************************************)
EXTENDS FakeDnsInv, FiniteSetTheorems, TLAPS

-----------------------------------------------------------------------------
(* The allocator.                                                          *)

\* From next, the scan of allocate reaches every address of the pool.
LEMMA ScanReaches ==
    ASSUME next \in Pool, NEW f \in Pool
    PROVE  \E o \in Pool : At(o) = f
<1>1. PoolSize \in Nat /\ next \in 0 .. PoolSize - 1 /\ f \in 0 .. PoolSize - 1
  BY PoolAssumption DEF Pool
<1>2. CASE f >= next
  <2>1. f - next \in Pool /\ (next + (f - next)) % PoolSize = f
    BY <1>1, <1>2 DEF Pool
  <2> QED BY <2>1 DEF At
<1>3. CASE f < next
  <2>1. f - next + PoolSize \in Pool /\ (next + (f - next + PoolSize)) % PoolSize = f
    BY <1>1, <1>3 DEF Pool
  <2> QED BY <2>1 DEF At
<1> QED BY <1>1, <1>2, <1>3

\* Every nonempty set of offsets has a least one.
LEMMA LeastOffset ==
    ASSUME NEW T \in SUBSET Nat, T # {}
    PROVE  \E o \in T : \A p \in 0 .. o - 1 : p \notin T
<1> DEFINE R == {ss \in Nat \X Nat : ss[1] < ss[2]}
<1>1. IsWellFoundedOn(R, Nat)
  BY NatLessThanWellFounded DEF OpToRel
<1> HIDE DEF R
<1>2. PICK o \in T : \A p \in T : <<p, o>> \notin R
  BY <1>1, WFMin
<1>3. \A p \in 0 .. o - 1 : p \in Nat /\ p < o
  OBVIOUS
<1>4. \A p \in Nat : p < o => <<p, o>> \in R
  BY DEF R
<1> QED BY <1>2, <1>3, <1>4

\* Below the lease limit some address of the pool is unused.
LEMMA PoolHasRoom ==
    ASSUME TypeOK, StoreIsCoherent, IsFiniteSet(Leased), agent = "up", HasRoom
    PROVE  \E f \in Pool : f \notin used
<1> DEFINE g == [k \in Leased |-> leases[k].fake]
<1>1. used = Fakes(Leased)
  BY DEF StoreIsCoherent
<1>2. g \in Surjection(Leased, used)
  BY <1>1 DEF Fakes, Surjection
<1>3. IsFiniteSet(used) /\ Cardinality(used) <= Cardinality(Leased)
  BY <1>2, FS_Surjection
<1>4. Cardinality(Pool) = PoolSize
  <2>1. Cardinality(0 .. PoolSize - 1) = IF 0 > PoolSize - 1 THEN 0 ELSE (PoolSize - 1) - 0 + 1
    BY FS_Interval, PoolAssumption
  <2> QED BY <2>1, PoolAssumption DEF Pool
<1>5. Cardinality(Leased) \in Nat /\ Cardinality(used) \in Nat
  BY <1>3, FS_CardinalityType
<1>6. Cardinality(used) < Cardinality(Pool)
  BY <1>3, <1>4, <1>5, PoolAssumption DEF HasRoom
<1>7. Pool \in SUBSET used => Cardinality(Pool) <= Cardinality(used)
  BY <1>3, FS_Subset
<1> QED BY <1>4, <1>5, <1>6, <1>7, PoolAssumption

\* allocate finds an unused address of the pool whenever the store has room.
LEMMA FreeFakeIsFree ==
    ASSUME TypeOK, StoreIsCoherent, IsFiniteSet(Leased), agent = "up", HasRoom
    PROVE  FreeFake \in Pool /\ FreeFake \notin used
<1> DEFINE T == {o \in Pool : At(o) \notin used}
           Good(o) == At(o) \notin used /\ \A p \in 0 .. o - 1 : At(p) \in used
<1>1. next \in Pool /\ Pool \subseteq Nat
  BY DEF TypeOK, Pool
<1>2. T # {}
  <2>1. PICK f \in Pool : f \notin used
    BY PoolHasRoom
  <2>2. PICK o \in Pool : At(o) = f
    BY <1>1, ScanReaches
  <2> QED BY <2>1, <2>2
<1>3. PICK o \in T : \A p \in 0 .. o - 1 : p \notin T
  <2>1. T \in SUBSET Nat
    BY <1>1
  <2> HIDE DEF T
  <2> QED BY <1>2, <2>1, LeastOffset
<1>4. \A p \in 0 .. o - 1 : p \in Pool
  BY PoolAssumption DEF Pool
<1>5. Good(o)
  BY <1>3, <1>4
<1>6. \E q \in Pool : Good(q)
  BY <1>3, <1>5
<1> DEFINE c == CHOOSE q \in Pool : Good(q)
<1>7. c \in Pool /\ Good(c)
  BY <1>6
<1>8. FreeFake = At(c)
  BY DEF FreeFake
<1>9. \A q \in Pool : At(q) \in Pool
  BY <1>1, PoolAssumption DEF At, Pool
<1> HIDE DEF c
<1> QED BY <1>7, <1>8, <1>9

-----------------------------------------------------------------------------
(* The store.                                                              *)

\* What Store.allocate does for a new pair keeps the store coherent.
LEMMA InsertKeepsStore ==
    ASSUME TypeOK, StoreIsCoherent, IsFiniteSet(Leased), agent = "up", HasRoom,
           NEW k \in Keys, k \notin Leased, NEW target \in Targets, NEW expires \in Nat,
           Insert(k, target, expires), agent' = agent
    PROVE  /\ leases' \in [Keys -> {NoLease} \cup Lease]
           /\ used' \in SUBSET Pool /\ next' \in Pool
           /\ Leased' = Leased \cup {k}
           /\ leases'[k].expires = expires
           /\ \A l \in Leased : leases'[l] = leases[l]
           /\ IsFiniteSet(Leased)' /\ StoreIsCoherent'
<1> DEFINE f == FreeFake
           new_ == [fake |-> f, target |-> target, expires |-> expires]
<1>1. f \in Pool /\ f \notin used
  BY FreeFakeIsFree
<1>2. /\ leases \in [Keys -> {NoLease} \cup Lease] /\ used \in SUBSET Pool
      /\ \A a, b \in Leased : leases[a].fake = leases[b].fake => a = b
      /\ used = {leases[l].fake : l \in Leased}
      /\ Cardinality(Leased) < MaxLeases
  BY DEF TypeOK, StoreIsCoherent, HasRoom, Fakes
<1>3. leases' = [leases EXCEPT ![k] = new_] /\ used' = used \cup {f} /\ next' = After(f)
  BY DEF Insert
<1> HIDE DEF f
<1>4. new_ \in Lease /\ new_ # NoLease
  BY <1>1, SentinelAssumption DEF Lease
<1>5. leases' \in [Keys -> {NoLease} \cup Lease] /\ used' \in SUBSET Pool
  BY <1>1, <1>2, <1>3, <1>4
<1>6. next' \in Pool
  BY <1>1, <1>3, PoolAssumption DEF After, Pool
<1>7. /\ Leased' = Leased \cup {k} /\ leases'[k] = new_
      /\ \A l \in Leased : leases'[l] = leases[l]
  BY <1>2, <1>3, <1>4 DEF Leased
<1>8. /\ IsFiniteSet(Leased \cup {k})
      /\ Cardinality(Leased \cup {k}) = Cardinality(Leased) + 1
      /\ Cardinality(Leased) \in Nat
  BY FS_AddElement, FS_CardinalityType
<1>9. \A l \in Leased : leases[l].fake # f
  BY <1>1, <1>2
<1>10. \A a, b \in Leased' : leases'[a].fake = leases'[b].fake => a = b
  BY <1>2, <1>7, <1>9
<1>11. used' = {leases'[l].fake : l \in Leased'}
  BY <1>2, <1>3, <1>7
<1>12. Cardinality(Leased') <= MaxLeases
  BY <1>2, <1>7, <1>8, PoolAssumption
<1> QED BY <1>5, <1>6, <1>7, <1>8, <1>10, <1>11, <1>12 DEF StoreIsCoherent, Fakes

\* Leases that only change in expiry or target keep the store coherent.
LEMMA EditKeepsStore ==
    ASSUME TypeOK, StoreIsCoherent, IsFiniteSet(Leased),
           leases' \in [Keys -> {NoLease} \cup Lease], Leased' = Leased,
           \A k \in Leased : leases'[k].fake = leases[k].fake,
           used' = used, agent' = agent
    PROVE  IsFiniteSet(Leased)' /\ StoreIsCoherent'
<1>1. Fakes(Leased)' = Fakes(Leased)
  BY DEF Fakes
<1> QED BY <1>1 DEF StoreIsCoherent

\* What Store.remove_mappings does keeps the store coherent.
LEMMA RemoveKeepsStore ==
    ASSUME TypeOK, StoreIsCoherent, IsFiniteSet(Leased), agent = "up",
           NEW S \in SUBSET Leased, Remove(S), agent' = agent
    PROVE  /\ leases' \in [Keys -> {NoLease} \cup Lease]
           /\ used' \in SUBSET Pool /\ next' \in Pool
           /\ Leased' = Leased \ S
           /\ \A l \in Leased' : leases'[l] = leases[l]
           /\ IsFiniteSet(Leased)' /\ StoreIsCoherent'
<1>1. /\ leases \in [Keys -> {NoLease} \cup Lease] /\ used \in SUBSET Pool /\ next \in Pool
      /\ \A a, b \in Leased : leases[a].fake = leases[b].fake => a = b
      /\ used = {leases[l].fake : l \in Leased}
      /\ Cardinality(Leased) <= MaxLeases
  BY DEF TypeOK, StoreIsCoherent, Fakes
<1>2. /\ leases' = [k \in Keys |-> IF k \in S THEN NoLease ELSE leases[k]]
      /\ used' = used \ {leases[l].fake : l \in S} /\ next' = next
  BY DEF Remove, Fakes
<1>3. leases' \in [Keys -> {NoLease} \cup Lease] /\ used' \in SUBSET Pool /\ next' \in Pool
  BY <1>1, <1>2
<1>4. Leased' = Leased \ S /\ \A l \in Leased' : leases'[l] = leases[l]
  BY <1>1, <1>2 DEF Leased
<1>5. /\ IsFiniteSet(Leased') /\ Cardinality(Leased') <= Cardinality(Leased)
      /\ Cardinality(Leased') \in Nat /\ Cardinality(Leased) \in Nat
  BY <1>4, FS_Subset, FS_CardinalityType
<1>6. \A a, b \in Leased' : leases'[a].fake = leases'[b].fake => a = b
  BY <1>1, <1>4
<1>7. used' = {leases'[l].fake : l \in Leased'}
  BY <1>1, <1>2, <1>4
<1>8. Cardinality(Leased') <= MaxLeases
  BY <1>1, <1>5, PoolAssumption
<1> QED BY <1>3, <1>4, <1>5, <1>6, <1>7, <1>8 DEF StoreIsCoherent, Fakes

-----------------------------------------------------------------------------
(* The kernel, and what most steps leave alone.                            *)

\* A lease is well typed and its host is one of the known hosts.
LEMMA LeaseFacts ==
    ASSUME TypeOK
    PROVE  /\ Leased \subseteq Keys
           /\ \A k \in Leased : leases[k] \in Lease
           /\ \A k \in Keys : k[1] \in Domains /\ k[2] \in Reals
           /\ \A k \in Leased : leases[k].fake \in Pool /\ leases[k].target \in Targets
                                /\ leases[k].expires \in Nat
BY DEF TypeOK, Leased, Keys, Lease

\* Installed elements are addresses, hosts and targets.
LEMMA InstallTyped ==
    ASSUME TypeOK, NEW S \in SUBSET Leased, InstallMappings(S)
    PROVE  dnat' \in [Pool -> {NoReal} \cup Reals] /\ marks' \in SUBSET (Pool \X Targets)
<1>1. \A f \in Fakes(S) : (CHOOSE k \in S : leases[k].fake = f)[2] \in Reals
  <2> TAKE f \in Fakes(S)
  <2>1. \E k \in S : leases[k].fake = f
    BY DEF Fakes
  <2> QED BY <2>1, LeaseFacts
<1>2. dnat' \in [Pool -> {NoReal} \cup Reals]
  BY <1>1 DEF InstallMappings, TypeOK
<1>3. MarksOf(S) \subseteq Pool \X Targets
  BY LeaseFacts DEF MarksOf
<1> QED BY <1>2, <1>3 DEF InstallMappings, TypeOK

\* The table rendered for a policy holds addresses, hosts and targets.
LEMMA ApplyTyped ==
    ASSUME TypeOK, NEW p \in Policies, ApplyTable(p)
    PROVE  /\ table' \in BOOLEAN /\ lost' \in SUBSET Pool
           /\ dnat' \in [Pool -> {NoReal} \cup Reals] /\ marks' \in SUBSET (Pool \X Targets)
<1>1. \A f \in Fakes(Leased) : (CHOOSE k \in Leased : leases[k].fake = f)[2] \in Reals
  <2> TAKE f \in Fakes(Leased)
  <2>1. \E k \in Leased : leases[k].fake = f
    BY DEF Fakes
  <2> QED BY <2>1, LeaseFacts
<1>2. dnat' \in [Pool -> {NoReal} \cup Reals]
  BY <1>1 DEF ApplyTable, TypeOK
<1>3. \A k \in Leased : p.target[k] \in Targets
  BY PolicyAssumption DEF Leased, Keys
<1>4. marks' \in SUBSET (Pool \X Targets)
  BY <1>3, LeaseFacts DEF ApplyTable
<1> QED BY <1>2, <1>4 DEF ApplyTable

\* Steps that touch neither the store nor the mutex, the promises nor the clock.
LEMMA StoreUntouched ==
    ASSUME IInv, UNCHANGED <<storeVars, mutexVars, now, told, agent>>
    PROVE  /\ BatchInv' /\ ToldInv' /\ IsFiniteSet(Leased)'
           /\ StoreIsCoherent' /\ LiveFakesAreKept'
BY DEF IInv, storeVars, mutexVars, BatchInv, ToldInv, Leased, StoreIsCoherent, Fakes,
       LiveFakesAreKept, Expired

\* The rest of the invariant when only requests, mutex, promises or time change.
LEMMA LeasesUntouched ==
    ASSUME IInv, UNCHANGED <<leases, used, agent>>
    PROVE  Leased' = Leased /\ IsFiniteSet(Leased)' /\ StoreIsCoherent'
BY DEF IInv, Leased, StoreIsCoherent, Fakes

-----------------------------------------------------------------------------
(* Requests.                                                               *)

USE DEF controlVars, storeVars, kernelVars, mutexVars

\* Taking a request on.
LEMMA AskStep ==
    ASSUME IInv, NEW w \in Workers, NEW d \in Domains, Ask(w, d)
    PROVE  IInv'
<1>1. TypeOK'
  BY DEF Ask, IInv, TypeOK, Request
<1>2. LockInv'
  BY DEF Ask, IInv, LockInv, TypeOK, NoReaders, CanRead, Updating, Idle
<1> QED BY <1>1, <1>2, StoreUntouched DEF Ask, IInv

\* The answer of the upstream.
LEMMA UpstreamAnswersStep ==
    ASSUME IInv, NEW w \in Workers, UpstreamAnswers(w)
    PROVE  IInv'
<1>1. PICK S \in Zone[worker[w].domain] \cup {{}} :
         worker' = [worker EXCEPT ![w] =
            IF worker[w].domain \in worker[w].policy.ruled /\ S \ LanReals # {}
            THEN [worker[w] EXCEPT !.at = "answered", !.todo = S \ LanReals]
            ELSE Idle]
  BY DEF UpstreamAnswers
<1>2. worker[w] \in Request /\ worker[w] # Idle /\ worker[w].at = "asked"
  BY DEF UpstreamAnswers, IInv, TypeOK
<1>3. S \in SUBSET Reals
  BY <1>2, ZoneAssumption DEF Request
<1> DEFINE n == [worker[w] EXCEPT !.at = "answered", !.todo = S \ LanReals]
<1>4. n \in Request /\ n.at = "answered" /\ n.todo = S \ LanReals
  BY <1>2, <1>3 DEF Request
<1> HIDE DEF n
<1>5. /\ worker' \in [Workers -> {Idle} \cup Request]
      /\ worker'[w] = n \/ worker'[w] = Idle
      /\ \A v \in Workers : v # w => worker'[v] = worker[v]
  BY <1>1, <1>4 DEF n, IInv, TypeOK
<1>6. TypeOK'
  BY <1>5 DEF UpstreamAnswers, IInv, TypeOK
<1>7. holder # w
  BY <1>2 DEF IInv, LockInv
<1>8. LockInv'
  BY <1>2, <1>4, <1>5, <1>7 DEF UpstreamAnswers, IInv, LockInv, TypeOK, NoReaders
<1> QED BY <1>6, <1>8, StoreUntouched DEF UpstreamAnswers, IInv

\* Taking the store mutex.
LEMMA LockStoreStep ==
    ASSUME IInv, NEW w \in Workers, LockStore(w)
    PROVE  IInv'
<1>1. TypeOK'
  BY DEF LockStore, IInv, TypeOK
<1>2. LockInv'
  BY SentinelAssumption DEF LockStore, IInv, LockInv, TypeOK, NoReaders
<1>3. BatchInv'
  BY DEF LockStore, BatchInv
<1>4. ToldInv' /\ LiveFakesAreKept'
  BY DEF LockStore, IInv, ToldInv, LiveFakesAreKept
<1> QED BY <1>1, <1>2, <1>3, <1>4, LeasesUntouched DEF LockStore, IInv

\* One record of an answer gets its lease.
LEMMA AllocateStep ==
    ASSUME IInv, NEW w \in Workers, Allocate(w)
    PROVE  IInv'
<1>1. PICK r \in worker[w].todo, ttl \in Ttls :
         LET k == <<worker[w].domain, r>> IN
         /\ \/ /\ k \in Leased /\ Renew(k, Expires(ttl))
               /\ UNCHANGED <<used, next, batch>>
            \/ /\ k \notin Leased /\ HasRoom
               /\ Insert(k, worker[w].policy.target[k], Expires(ttl))
               /\ batch' = batch \cup {k}
         /\ said' = said \cup {k}
         /\ worker' = [worker EXCEPT ![w].todo = @ \ {r}]
  BY DEF Allocate
<1> DEFINE k == <<worker[w].domain, r>>
           e == Expires(ttl)
<1>2. /\ holder = w /\ step = "allocate" /\ agent = "up" /\ upd \notin Updating
      /\ worker[w] \in Request /\ worker[w].at = "answered" /\ worker[w] # Idle
      /\ worker[w].todo \cap LanReals = {}
  BY SentinelAssumption DEF Allocate, Allocating, IInv, LockInv, TypeOK, NoReaders
<1>3. k \in Keys /\ e \in Nat
  <2>1. k \in Keys
    BY <1>2 DEF Keys, Request
  <2>2. e \in Nat
    BY TimeAssumption DEF Expires, Clamp, IInv, TypeOK
  <2> QED BY <2>1, <2>2
<1>4. worker[w].policy.target[k] \in Targets
  BY <1>2, <1>3, PolicyAssumption DEF Request, Keys
<1> DEFINE n == [worker[w] EXCEPT !.todo = worker[w].todo \ {r}]
<1>5. n \in Request /\ n.at = "answered" /\ n.todo \cap LanReals = {} /\ n # Idle
  BY <1>2 DEF Request, Idle
<1>6. worker' = [worker EXCEPT ![w] = n]
  BY <1>1, <1>2 DEF IInv, TypeOK
<1> HIDE DEF n
<1>7. UNCHANGED <<agent, policy, saved, guard, upd, new, holder, step, table, dnat, marks, now, told,
                  lost, faults>>
  BY DEF Allocate
<1>8. LockInv'
  <2>1. holder # Nobody
    BY <1>2, SentinelAssumption
  <2> QED BY <1>2, <1>5, <1>6, <1>7, <2>1, SentinelAssumption DEF IInv, LockInv, TypeOK, NoReaders
<1>9. said' = said \cup {k}
  BY <1>1
<1>10. CASE k \in Leased /\ Renew(k, e) /\ UNCHANGED <<used, next, batch>>
  <2>1. leases[k] \in Lease /\ leases \in [Keys -> {NoLease} \cup Lease]
    BY <1>10, LeaseFacts DEF IInv, TypeOK
  <2>2. /\ [leases[k] EXCEPT !.expires = e] \in Lease
        /\ [leases[k] EXCEPT !.expires = e].fake = leases[k].fake
        /\ [leases[k] EXCEPT !.expires = e].expires = e
        /\ [leases[k] EXCEPT !.expires = e] # NoLease
    BY <1>3, <2>1, SentinelAssumption DEF Lease
  <2>3. /\ leases' \in [Keys -> {NoLease} \cup Lease]
        /\ \A l \in Keys : l # k => leases'[l] = leases[l]
        /\ leases'[k] \in Lease /\ leases'[k].fake = leases[k].fake
        /\ leases'[k].expires >= leases[k].expires
    BY <1>3, <1>10, <2>1, <2>2 DEF Renew, Lease
  <2>4. Leased' = Leased
    BY <1>3, <1>10, <2>1, <2>3, SentinelAssumption DEF Leased
  <2>5. \A l \in Leased : leases'[l].fake = leases[l].fake
    BY <2>3, LeaseFacts DEF IInv
  <2>6. IsFiniteSet(Leased)' /\ StoreIsCoherent'
    BY <1>7, <1>10, <2>3, <2>4, <2>5, EditKeepsStore DEF IInv
  <2>7. TypeOK'
    BY <1>3, <1>5, <1>6, <1>7, <1>9, <1>10, <2>3 DEF IInv, TypeOK
  <2>8. BatchInv'
    BY <1>2, <1>7, <1>9, <1>10, <2>4 DEF IInv, BatchInv
  <2>9. ToldInv'
    BY <1>7 DEF IInv, ToldInv
  <2>10. LiveFakesAreKept'
    <3> SUFFICES ASSUME NEW t \in told
                 PROVE  /\ leases'[t.key] # NoLease /\ leases'[t.key].fake = t.fake
                        /\ leases'[t.key].expires + Grace >= t.until
      BY <1>7 DEF LiveFakesAreKept
    <3>1. /\ t.key \in Keys /\ t.until \in Nat /\ leases[t.key] # NoLease
          /\ leases[t.key].fake = t.fake /\ leases[t.key].expires + Grace >= t.until
      BY DEF IInv, LiveFakesAreKept, TypeOK
    <3>2. CASE t.key # k
      BY <2>3, <3>1, <3>2
    <3>3. CASE t.key = k
      BY <2>1, <2>3, <3>1, <3>3, TimeAssumption, SentinelAssumption DEF Lease
    <3> QED BY <3>2, <3>3
  <2> QED BY <1>8, <2>6, <2>7, <2>8, <2>9, <2>10 DEF IInv
<1>11. CASE /\ k \notin Leased /\ HasRoom
            /\ Insert(k, worker[w].policy.target[k], e) /\ batch' = batch \cup {k}
  <2>1. /\ leases' \in [Keys -> {NoLease} \cup Lease]
        /\ used' \in SUBSET Pool /\ next' \in Pool
        /\ Leased' = Leased \cup {k} /\ \A l \in Leased : leases'[l] = leases[l]
        /\ IsFiniteSet(Leased)' /\ StoreIsCoherent'
    BY <1>2, <1>3, <1>4, <1>7, <1>11, InsertKeepsStore DEF IInv
  <2>2. TypeOK'
    BY <1>3, <1>5, <1>6, <1>7, <1>9, <1>11, <2>1 DEF IInv, TypeOK
  <2>3. \A t \in told : t.key \in Leased
    BY DEF IInv, LiveFakesAreKept, TypeOK, Leased
  <2>4. BatchInv'
    BY <1>2, <1>7, <1>9, <1>11, <2>1, <2>3 DEF IInv, BatchInv
  <2>5. ToldInv'
    BY <1>7 DEF IInv, ToldInv
  <2>6. LiveFakesAreKept'
    BY <1>7, <2>1, <2>3 DEF IInv, LiveFakesAreKept
  <2> QED BY <1>8, <2>1, <2>2, <2>4, <2>5, <2>6 DEF IInv
<1> QED BY <1>1, <1>10, <1>11

\* A failed rewrite that took no new lease ends; one that did goes on to its
\* rollback.
LEMMA RewriteFailsStep ==
    ASSUME IInv, NEW w \in Workers, Allocating(w), RewriteFails(w),
           UNCHANGED <<controlVars, leases, used, kernelVars, now, told, lost>>,
           next' \in Pool, faults' \in Nat
    PROVE  IInv'
<1>1. /\ holder = w /\ step = "allocate" /\ worker[w].at = "answered" /\ worker[w] # Idle
      /\ agent = "up" /\ upd \notin Updating
  BY SentinelAssumption DEF Allocating, IInv, LockInv, NoReaders, TypeOK
<1>2. Leased' = Leased /\ IsFiniteSet(Leased)' /\ StoreIsCoherent'
  BY LeasesUntouched
<1>3. ToldInv' /\ LiveFakesAreKept'
  BY DEF IInv, ToldInv, LiveFakesAreKept
<1>4. CASE batch = {}
  <2>1. Unlock /\ worker' = [worker EXCEPT ![w] = Idle]
    BY <1>4 DEF RewriteFails
  <2>2. TypeOK'
    BY <2>1 DEF Unlock, IInv, TypeOK
  <2>3. LockInv'
    BY <1>1, <2>1, SentinelAssumption DEF Unlock, IInv, LockInv, TypeOK, NoReaders
  <2>4. BatchInv'
    BY <2>1 DEF Unlock, BatchInv
  <2> QED BY <1>2, <1>3, <2>2, <2>3, <2>4 DEF IInv
<1>5. CASE batch # {}
  <2>1. step' = "rollback" /\ UNCHANGED <<holder, batch, said, worker>>
    BY <1>5 DEF RewriteFails
  <2>2. TypeOK'
    BY <2>1 DEF IInv, TypeOK
  <2>3. LockInv'
    BY <1>1, <2>1, SentinelAssumption DEF IInv, LockInv, TypeOK, NoReaders
  <2>4. BatchInv'
    BY <1>1, <1>2, <2>1 DEF IInv, BatchInv
  <2> QED BY <1>2, <1>3, <2>2, <2>3, <2>4 DEF IInv
<1> QED BY <1>4, <1>5

\* Fault counting stays typed.
LEMMA FailsTyped ==
    ASSUME IInv, Fails
    PROVE  faults' \in Nat
BY DEF Fails, IInv, TypeOK

\* A full store or a failing statement.
LEMMA AllocateFailsStep ==
    ASSUME IInv, NEW w \in Workers, AllocateFails(w)
    PROVE  IInv'
<1>1. agent = "up"
  BY SentinelAssumption DEF AllocateFails, Allocating, IInv, LockInv, NoReaders, TypeOK
<1>2. HasRoom => After(FreeFake) \in Pool
  <2>1. HasRoom => FreeFake \in Pool
    BY <1>1, FreeFakeIsFree DEF IInv
  <2> QED BY <2>1, PoolAssumption DEF After, Pool
<1>3. next' \in Pool /\ faults' \in Nat
  BY <1>2, FailsTyped DEF AllocateFails, IInv, TypeOK
<1> QED BY <1>3, RewriteFailsStep DEF AllocateFails

\* A failing installation.
LEMMA InstallFailsStep ==
    ASSUME IInv, NEW w \in Workers, InstallFails(w)
    PROVE  IInv'
<1>1. next' \in Pool /\ faults' \in Nat
  BY FailsTyped DEF InstallFails, IInv, TypeOK
<1> QED BY <1>1, RewriteFailsStep DEF InstallFails

\* The answer goes out.
LEMMA InstallStep ==
    ASSUME IInv, NEW w \in Workers, Install(w)
    PROVE  IInv'
<1>1. /\ batch \in SUBSET Leased /\ said \in SUBSET Leased
      /\ UNCHANGED <<agent, policy, saved, guard, upd, new, leases, used, next, now, lost, faults>>
      /\ worker' = [worker EXCEPT ![w] = Idle] /\ InstallMappings(batch) /\ Unlock
  BY DEF Install, IInv, BatchInv
<1> DEFINE news == {[fake |-> leases[k].fake, key |-> k,
                     until |-> leases[k].expires + Grace] : k \in said \ Expired}
<1>2. told' = told \cup news
  BY DEF Install
<1>3. \A t \in news : /\ t \in [fake : Pool, key : Keys, until : Nat]
                      /\ t.key \in Leased /\ t.fake = leases[t.key].fake
                      /\ t.until = leases[t.key].expires + Grace /\ t.until > now
  <2> SUFFICES ASSUME NEW k \in said \ Expired
               PROVE  /\ k \in Keys /\ k \in Leased /\ leases[k].fake \in Pool
                      /\ leases[k].expires + Grace \in Nat /\ leases[k].expires + Grace > now
    OBVIOUS
  <2>1. k \in Leased /\ leases[k] \in Lease /\ k \in Keys /\ now \in Nat
    BY <1>1, LeaseFacts DEF IInv, TypeOK
  <2>2. ~(leases[k].expires <= now - Grace)
    BY <2>1 DEF Expired
  <2> QED BY <2>1, <2>2, TimeAssumption DEF Lease
<1> HIDE DEF news
<1>4. TypeOK'
  <2>1. dnat' \in [Pool -> {NoReal} \cup Reals] /\ marks' \in SUBSET (Pool \X Targets)
    BY <1>1, InstallTyped DEF IInv
  <2>2. told' \in SUBSET [fake : Pool, key : Keys, until : Nat]
    BY <1>2, <1>3 DEF IInv, TypeOK
  <2> QED BY <1>1, <2>1, <2>2 DEF IInv, TypeOK, InstallMappings, Unlock
<1>5. LockInv'
  BY <1>1, SentinelAssumption DEF Unlock, IInv, LockInv, TypeOK, NoReaders, Install, Allocating
<1>6. BatchInv'
  BY <1>1 DEF Unlock, BatchInv
<1>7. ToldInv'
  BY <1>1, <1>2, <1>3 DEF IInv, ToldInv
<1>8. LiveFakesAreKept'
  <2> SUFFICES ASSUME NEW t \in news
               PROVE  /\ leases[t.key] # NoLease /\ leases[t.key].fake = t.fake
                      /\ leases[t.key].expires + Grace >= t.until
    BY <1>1, <1>2 DEF IInv, LiveFakesAreKept
  <2>1. leases[t.key].expires \in Nat
    BY <1>3, LeaseFacts DEF IInv
  <2> QED BY <1>3, <2>1, TimeAssumption DEF Leased
<1> QED BY <1>1, <1>4, <1>5, <1>6, <1>7, <1>8, LeasesUntouched DEF IInv

\* Removing leases that back no running promise keeps the promises.
LEMMA RemoveKeepsPromises ==
    ASSUME IInv, agent = "up", Remove(batch), UNCHANGED <<agent, told, now>>,
           \A t \in told : t.key \notin batch
    PROVE  /\ leases' \in [Keys -> {NoLease} \cup Lease]
           /\ used' \in SUBSET Pool /\ next' \in Pool
           /\ ToldInv' /\ LiveFakesAreKept'
           /\ IsFiniteSet(Leased)' /\ StoreIsCoherent'
<1>1. /\ leases' \in [Keys -> {NoLease} \cup Lease]
      /\ used' \in SUBSET Pool /\ next' \in Pool
      /\ Leased' = Leased \ batch
      /\ \A l \in Leased' : leases'[l] = leases[l]
      /\ IsFiniteSet(Leased)' /\ StoreIsCoherent'
  BY RemoveKeepsStore DEF IInv, BatchInv
<1>2. \A t \in told : t.key \in Leased
  BY DEF IInv, LiveFakesAreKept, TypeOK, Leased
<1>3. LiveFakesAreKept'
  BY <1>1, <1>2 DEF IInv, LiveFakesAreKept
<1> QED BY <1>1, <1>3 DEF IInv, ToldInv

\* The rollback of a failed rewrite.
LEMMA RollbackLeasesStep ==
    ASSUME IInv, NEW w \in Workers, RollbackLeases(w)
    PROVE  IInv'
<1>1. /\ holder = w /\ step = "rollback" /\ agent = "up" /\ upd \notin Updating
      /\ \A t \in told : t.key \notin batch
      /\ UNCHANGED <<agent, policy, saved, guard, upd, new, table, dnat, marks, now, told>>
      /\ worker' = [worker EXCEPT ![w] = Idle] /\ Unlock
  BY SentinelAssumption DEF RollbackLeases, IInv, LockInv, BatchInv, TypeOK, NoReaders
<1>2. LockInv'
  BY <1>1, SentinelAssumption DEF Unlock, IInv, LockInv, TypeOK, NoReaders
<1>3. BatchInv'
  BY <1>1 DEF Unlock, BatchInv
<1>4. CASE Remove(batch) /\ UNCHANGED <<lost, faults>>
  <2>1. /\ leases' \in [Keys -> {NoLease} \cup Lease]
        /\ used' \in SUBSET Pool /\ next' \in Pool
        /\ ToldInv' /\ LiveFakesAreKept' /\ IsFiniteSet(Leased)' /\ StoreIsCoherent'
    BY <1>1, <1>4, RemoveKeepsPromises
  <2>2. TypeOK'
    BY <1>1, <1>4, <2>1 DEF Unlock, IInv, TypeOK
  <2> QED BY <1>2, <1>3, <2>1, <2>2 DEF IInv
<1>5. CASE Fails /\ lost' = lost \cup Fakes(batch) /\ UNCHANGED storeVars
  <2>1. Fakes(batch) \subseteq Pool
    BY LeaseFacts DEF IInv, BatchInv, Fakes
  <2>2. TypeOK'
    BY <1>1, <1>5, <2>1, FailsTyped DEF Unlock, IInv, TypeOK
  <2>3. ToldInv' /\ LiveFakesAreKept'
    BY <1>1, <1>5 DEF IInv, ToldInv, LiveFakesAreKept
  <2> QED BY <1>1, <1>2, <1>3, <1>5, <2>2, <2>3, LeasesUntouched DEF IInv
<1> QED BY <1>4, <1>5 DEF RollbackLeases

-----------------------------------------------------------------------------
(* The cleanup.                                                            *)

\* No running promise rests on an expired lease.
LEMMA ExpiredIsNotPromised ==
    ASSUME IInv
    PROVE  \A t \in told : t.key \notin Expired
<1> SUFFICES ASSUME NEW t \in told, t.key \in Expired
             PROVE  FALSE
  OBVIOUS
<1>1. t.key \in Leased /\ leases[t.key].expires \in Nat /\ now \in Nat /\ t.until \in Nat
  BY LeaseFacts DEF Expired, IInv, TypeOK
<1>2. leases[t.key].expires <= now - Grace
  BY DEF Expired
<1>3. t.until > now /\ leases[t.key].expires + Grace >= t.until
  BY DEF IInv, ToldInv, LiveFakesAreKept
<1> QED BY <1>1, <1>2, <1>3, TimeAssumption

\* The kernel forgets the expired leases.
LEMMA PurgeExpiredStep ==
    ASSUME IInv, PurgeExpired
    PROVE  IInv'
<1>1. /\ CanRead /\ holder = Nobody /\ RemoveMappings(Expired)
      /\ holder' = "cleanup" /\ step' = "remove" /\ batch' = Expired /\ said' = {}
      /\ UNCHANGED <<agent, policy, saved, guard, upd, new, worker, leases, used, next, now, told,
                     lost, faults>>
  BY DEF PurgeExpired
<1>2. Expired \subseteq Leased /\ Expired \subseteq Keys
  BY DEF Expired, Leased
<1>3. TypeOK'
  BY <1>1, <1>2 DEF RemoveMappings, IInv, TypeOK
<1>4. LockInv'
  BY <1>1, SentinelAssumption DEF CanRead, Updating, IInv, LockInv, TypeOK, NoReaders
<1>5. Expired' = Expired /\ Leased' = Leased
  BY <1>1 DEF Expired, Leased
<1>6. BatchInv'
  BY <1>1, <1>2, <1>5 DEF BatchInv
<1>7. ToldInv' /\ LiveFakesAreKept'
  BY <1>1 DEF IInv, ToldInv, LiveFakesAreKept
<1> QED BY <1>1, <1>3, <1>4, <1>6, <1>7, LeasesUntouched DEF IInv

\* The store forgets them too, or fails.
LEMMA PurgeStoreStep ==
    ASSUME IInv, PurgeStore
    PROVE  IInv'
<1>1. /\ holder = "cleanup" /\ step = "remove" /\ agent = "up" /\ upd \notin Updating
      /\ batch \subseteq Expired
      /\ UNCHANGED <<agent, policy, saved, guard, upd, new, worker, table, dnat, marks, now, told,
                     lost>>
  BY SentinelAssumption DEF PurgeStore, IInv, LockInv, BatchInv, TypeOK, NoReaders
<1>2. CASE Remove(batch) /\ Unlock /\ UNCHANGED faults
  <2>1. \A t \in told : t.key \notin batch
    BY <1>1, ExpiredIsNotPromised
  <2>2. /\ leases' \in [Keys -> {NoLease} \cup Lease]
        /\ used' \in SUBSET Pool /\ next' \in Pool
        /\ ToldInv' /\ LiveFakesAreKept' /\ IsFiniteSet(Leased)' /\ StoreIsCoherent'
    BY <1>1, <1>2, <2>1, RemoveKeepsPromises
  <2>3. TypeOK'
    BY <1>1, <1>2, <2>2 DEF Unlock, IInv, TypeOK
  <2>4. LockInv'
    BY <1>1, <1>2, SentinelAssumption DEF Unlock, IInv, LockInv, TypeOK, NoReaders
  <2>5. BatchInv'
    BY <1>2 DEF Unlock, BatchInv
  <2> QED BY <2>2, <2>3, <2>4, <2>5 DEF IInv
<1>3. CASE Fails /\ step' = "reinstall" /\ UNCHANGED <<storeVars, holder, batch, said>>
  <2>1. TypeOK'
    BY <1>1, <1>3, FailsTyped DEF IInv, TypeOK
  <2>2. LockInv'
    BY <1>1, <1>3, SentinelAssumption DEF IInv, LockInv, TypeOK, NoReaders
  <2>3. Expired' = Expired /\ Leased' = Leased
    BY <1>1, <1>3 DEF Expired, Leased
  <2>4. BatchInv'
    BY <1>1, <1>3, <2>3 DEF IInv, BatchInv
  <2>5. ToldInv' /\ LiveFakesAreKept'
    BY <1>1, <1>3 DEF IInv, ToldInv, LiveFakesAreKept
  <2> QED BY <1>1, <1>3, <2>1, <2>2, <2>4, <2>5, LeasesUntouched DEF IInv
<1> QED BY <1>2, <1>3 DEF PurgeStore

\* The kernel gets them back.
LEMMA PurgeReinstallStep ==
    ASSUME IInv, PurgeReinstall
    PROVE  IInv'
<1>1. /\ holder = "cleanup" /\ agent = "up" /\ upd \notin Updating /\ Unlock
      /\ UNCHANGED <<agent, policy, saved, guard, upd, new, worker, leases, used, next, now, told>>
      /\ batch \in SUBSET Leased
  BY SentinelAssumption DEF PurgeReinstall, IInv, LockInv, BatchInv, TypeOK, NoReaders
<1>2. TypeOK'
  <2>1. CASE InstallMappings(batch) /\ UNCHANGED <<lost, faults>>
    <3>1. dnat' \in [Pool -> {NoReal} \cup Reals] /\ marks' \in SUBSET (Pool \X Targets)
      BY <1>1, <2>1, InstallTyped DEF IInv
    <3> QED BY <1>1, <2>1, <3>1 DEF Unlock, InstallMappings, IInv, TypeOK
  <2>2. CASE Fails /\ lost' = lost \cup Fakes(batch) /\ UNCHANGED kernelVars
    <3>1. Fakes(batch) \subseteq Pool
      BY <1>1, LeaseFacts DEF IInv, Fakes
    <3> QED BY <1>1, <2>2, <3>1, FailsTyped DEF Unlock, IInv, TypeOK
  <2> QED BY <2>1, <2>2 DEF PurgeReinstall
<1>3. LockInv'
  BY <1>1, SentinelAssumption DEF Unlock, IInv, LockInv, TypeOK, NoReaders
<1>4. BatchInv'
  BY <1>1 DEF Unlock, BatchInv
<1>5. ToldInv' /\ LiveFakesAreKept'
  BY <1>1 DEF IInv, ToldInv, LiveFakesAreKept
<1> QED BY <1>1, <1>2, <1>3, <1>4, <1>5, LeasesUntouched DEF IInv

-----------------------------------------------------------------------------
(* Configuration updates.                                                  *)

\* Taking updates.write().
LEMMA BeginStep ==
    ASSUME IInv, BeginUpdate \/ BeginReconcile
    PROVE  IInv'
<1>1. /\ agent = "up" /\ NoReaders
      /\ UNCHANGED <<agent, worker, mutexVars, now, told, storeVars, kernelVars, policy, saved, lost>>
      /\ new' \in Policies /\ guard' \in BOOLEAN /\ faults' \in Nat
      /\ upd' \in {"apply", "rApply", "degraded"}
  BY FailsTyped DEF BeginUpdate, BeginReconcile, Frame, IInv, TypeOK
<1>2. TypeOK'
  BY <1>1 DEF IInv, TypeOK, Updating
<1>3. LockInv'
  BY <1>1 DEF IInv, LockInv, NoReaders
<1> QED BY <1>1, <1>2, <1>3, StoreUntouched DEF IInv

\* A failed step of a transaction leads to its rollback or to a degraded agent.
LEMMA StepFailsTyped ==
    ASSUME IInv, StepFails
    PROVE  upd' \in {"bApply", "degraded"} /\ faults' \in Nat
BY FailsTyped DEF StepFails

\* Steps of the transaction that leave the store alone.
LEMMA TransactionStep ==
    ASSUME IInv, ApplyPolicy \/ SavePolicy \/ ClearGuard
    PROVE  IInv'
<1>1. /\ upd \in Updating /\ NoReaders /\ PolicyOf \in Policies
      /\ UNCHANGED <<agent, worker, mutexVars, now, told, storeVars, new>>
  BY DEF ApplyPolicy, SavePolicy, ClearGuard, Frame, Updating, IInv, LockInv, PolicyOf, TypeOK
<1>2. /\ policy' \in Policies /\ saved' \in Policies /\ guard' \in BOOLEAN /\ faults' \in Nat
      /\ upd' \in {"idle", "degraded"} \cup Updating
  BY FailsTyped, StepFailsTyped
     DEF ApplyPolicy, SavePolicy, ClearGuard, Updating, IInv, TypeOK
<1>3. /\ table' \in BOOLEAN /\ lost' \in SUBSET Pool
      /\ dnat' \in [Pool -> {NoReal} \cup Reals] /\ marks' \in SUBSET (Pool \X Targets)
  BY <1>1, ApplyTyped DEF ApplyPolicy, SavePolicy, ClearGuard, IInv, TypeOK
<1>4. TypeOK'
  BY <1>1, <1>2, <1>3 DEF IInv, TypeOK
<1>5. LockInv'
  BY <1>1 DEF IInv, LockInv, NoReaders
<1> QED BY <1>1, <1>4, <1>5, StoreUntouched DEF IInv

\* The stored targets follow the policy; addresses and expiry stay.
LEMMA CommitPolicyStep ==
    ASSUME IInv, CommitPolicy
    PROVE  IInv'
<1>1. /\ upd \in Updating /\ NoReaders /\ PolicyOf \in Policies
      /\ UNCHANGED <<agent, worker, mutexVars, now, told, policy, saved, guard, new, used, next,
                     kernelVars, lost>>
      /\ upd' \in {"degraded"} \cup Updating /\ faults' \in Nat
  BY StepFailsTyped DEF CommitPolicy, Frame, Updating, IInv, LockInv, PolicyOf, TypeOK
<1>2. /\ leases' \in [Keys -> {NoLease} \cup Lease] /\ Leased' = Leased
      /\ \A k \in Leased : /\ leases'[k].fake = leases[k].fake
                            /\ leases'[k].expires = leases[k].expires
  <2>1. CASE CommitTargets(PolicyOf)
    <3>1. \A k \in Leased : PolicyOf.target[k] \in Targets
      BY <1>1, PolicyAssumption DEF Leased, Keys
    <3> DEFINE new_(k) == [leases[k] EXCEPT !.target = PolicyOf.target[k]]
    <3>2. \A k \in Leased : /\ new_(k) \in Lease /\ new_(k) # NoLease
                            /\ new_(k).fake = leases[k].fake
                            /\ new_(k).expires = leases[k].expires
      BY <3>1, LeaseFacts, SentinelAssumption DEF IInv, Lease
    <3>3. leases' = [k \in Keys |-> IF leases[k] = NoLease THEN NoLease ELSE new_(k)]
      BY <2>1 DEF CommitTargets
    <3> HIDE DEF new_
    <3> QED BY <3>2, <3>3 DEF Leased
  <2>2. CASE UNCHANGED leases
    BY <2>2 DEF IInv, TypeOK, Leased
  <2> QED BY <2>1, <2>2 DEF CommitPolicy
<1>3. IsFiniteSet(Leased)' /\ StoreIsCoherent'
  BY <1>1, <1>2, EditKeepsStore DEF IInv
<1>4. TypeOK'
  BY <1>1, <1>2 DEF IInv, TypeOK
<1>5. LockInv'
  BY <1>1 DEF IInv, LockInv, NoReaders
<1>6. BatchInv'
  BY <1>1, <1>2, SentinelAssumption DEF IInv, BatchInv, LockInv, NoReaders
<1>7. \A t \in told : t.key \in Leased
  BY DEF IInv, LiveFakesAreKept, TypeOK, Leased
<1>8. ToldInv' /\ LiveFakesAreKept'
  BY <1>1, <1>2, <1>7 DEF IInv, ToldInv, LiveFakesAreKept, Leased
<1> QED BY <1>3, <1>4, <1>5, <1>6, <1>8 DEF IInv

-----------------------------------------------------------------------------
(* Start, crash, power loss, time.                                         *)

\* Opening the store drops what expired and rebuilds the memory.
LEMMA StartStep ==
    ASSUME IInv, Start
    PROVE  IInv'
<1>1. /\ agent = "off" /\ agent' = "up" /\ guard' = TRUE /\ upd' = "starting"
      /\ policy' = saved /\ new' = saved
      /\ leases' = [k \in Keys |-> IF k \in Expired THEN NoLease ELSE leases[k]]
      /\ used' = Fakes(Leased \ Expired) /\ next' = 0
      /\ UNCHANGED <<saved, worker, mutexVars, kernelVars, now, told, lost, faults>>
  BY DEF Start
<1>2. NoReaders
  BY <1>1 DEF IInv, LockInv
<1>3. leases' \in [Keys -> {NoLease} \cup Lease] /\ used' \in SUBSET Pool /\ next' \in Pool
  BY <1>1, LeaseFacts, PoolAssumption DEF IInv, TypeOK, Fakes, Pool
<1>4. Leased' = Leased \ Expired /\ \A k \in Leased' : leases'[k] = leases[k]
  BY <1>1 DEF Leased
<1>5. TypeOK'
  BY <1>1, <1>3 DEF IInv, TypeOK
<1>6. LockInv'
  BY <1>1, <1>2, SentinelAssumption DEF IInv, LockInv, NoReaders, Updating
<1>7. BatchInv'
  BY <1>1, <1>2, SentinelAssumption DEF IInv, BatchInv, LockInv, NoReaders
<1>8. /\ IsFiniteSet(Leased)' /\ Cardinality(Leased') <= MaxLeases
  <2>1. /\ IsFiniteSet(Leased') /\ Cardinality(Leased') <= Cardinality(Leased)
        /\ Cardinality(Leased') \in Nat /\ Cardinality(Leased) \in Nat
    BY <1>4, FS_Subset, FS_CardinalityType DEF IInv
  <2> QED BY <2>1, PoolAssumption DEF IInv, StoreIsCoherent
<1>9. StoreIsCoherent'
  <2>1. used' = {leases'[k].fake : k \in Leased'}
    BY <1>1, <1>4 DEF Fakes
  <2> QED BY <1>4, <1>8, <2>1 DEF IInv, StoreIsCoherent, Fakes
<1>10. \A t \in told : t.key \in Leased'
  BY <1>4, ExpiredIsNotPromised DEF IInv, LiveFakesAreKept, TypeOK, Leased
<1>11. ToldInv' /\ LiveFakesAreKept'
  BY <1>1, <1>4, <1>10 DEF IInv, ToldInv, LiveFakesAreKept
<1> QED BY <1>5, <1>6, <1>7, <1>8, <1>9, <1>11 DEF IInv

\* What is left when the process is gone.
LEMMA LoseMemoryFacts ==
    ASSUME IInv, LoseMemory
    PROVE  /\ LockInv'
           /\ agent' = "off" /\ upd' = "idle" /\ policy' \in Policies /\ new' \in Policies
           /\ worker' \in [Workers -> {Idle} \cup Request]
           /\ holder' = Nobody /\ step' = "none" /\ batch' = {} /\ said' = {}
           /\ used' \in SUBSET Pool /\ next' \in Pool
BY PoolAssumption, SentinelAssumption
   DEF LoseMemory, Unlock, IInv, TypeOK, LockInv, NoReaders, Updating, Pool

\* The process dies.
LEMMA CrashStep ==
    ASSUME IInv, Crash
    PROVE  IInv'
<1>1. LoseMemory /\ UNCHANGED <<saved, guard, leases, kernelVars, now, told, lost, faults>>
  BY DEF Crash
<1>2. TypeOK' /\ LockInv'
  BY <1>1, LoseMemoryFacts DEF IInv, TypeOK
<1>3. BatchInv'
  BY <1>1, LoseMemoryFacts DEF BatchInv
<1>4. IsFiniteSet(Leased)' /\ StoreIsCoherent'
  BY <1>1, LoseMemoryFacts DEF IInv, StoreIsCoherent, Leased
<1>5. ToldInv' /\ LiveFakesAreKept'
  BY <1>1 DEF IInv, ToldInv, LiveFakesAreKept
<1> QED BY <1>2, <1>3, <1>4, <1>5 DEF IInv

\* An empty store is coherent.
LEMMA EmptyStore ==
    ASSUME leases = [k \in Keys |-> NoLease], agent = "off", told = {}
    PROVE  IsFiniteSet(Leased) /\ StoreIsCoherent /\ LiveFakesAreKept
<1>1. Leased = {}
  BY DEF Leased
<1>2. IsFiniteSet({}) /\ Cardinality({}) = 0
  BY FS_EmptySet
<1> QED BY <1>1, <1>2, PoolAssumption DEF StoreIsCoherent, LiveFakesAreKept

\* The router loses power.
LEMMA PowerLossStep ==
    ASSUME IInv, PowerLoss
    PROVE  IInv'
<1>1. /\ LoseMemory /\ guard' = TRUE /\ leases' = [k \in Keys |-> NoLease]
      /\ table' = FALSE /\ dnat' = [f \in Pool |-> NoReal] /\ marks' = {}
      /\ told' = {} /\ lost' = {} /\ UNCHANGED <<saved, now, faults>>
  BY DEF PowerLoss
<1>2. TypeOK' /\ LockInv'
  BY <1>1, LoseMemoryFacts DEF IInv, TypeOK
<1>3. BatchInv' /\ ToldInv'
  BY <1>1, LoseMemoryFacts DEF BatchInv, ToldInv
<1>4. Leased' = {}
  BY <1>1 DEF Leased
<1>5. IsFiniteSet(Leased)' /\ StoreIsCoherent' /\ LiveFakesAreKept'
  <2>1. IsFiniteSet({}) /\ Cardinality({}) = 0
    BY FS_EmptySet
  <2> QED BY <1>1, <1>4, <2>1, LoseMemoryFacts, PoolAssumption DEF StoreIsCoherent, LiveFakesAreKept
<1> QED BY <1>2, <1>3, <1>5 DEF IInv

\* Time passes.
LEMMA TickStep ==
    ASSUME IInv, Tick
    PROVE  IInv'
<1>1. /\ now' = now + 1 /\ told' = {t \in told : t.until > now'}
      /\ UNCHANGED <<controlVars, worker, mutexVars, storeVars, kernelVars, lost, faults>>
  BY DEF Tick
<1>2. TypeOK'
  BY <1>1 DEF IInv, TypeOK
<1>3. LockInv'
  BY <1>1 DEF IInv, LockInv, NoReaders
<1>4. Leased' = Leased /\ Expired \subseteq Expired'
  <2>1. Leased' = Leased
    BY <1>1 DEF Leased
  <2> SUFFICES ASSUME NEW k \in Expired
               PROVE  leases[k].expires <= (now + 1) - Grace /\ k \in Leased
    BY <1>1, <2>1 DEF Expired
  <2>2. k \in Leased /\ leases[k].expires <= now - Grace
    BY DEF Expired
  <2>3. leases[k].expires \in Nat /\ now \in Nat
    BY <2>2, LeaseFacts DEF IInv, TypeOK
  <2> QED BY <2>2, <2>3, TimeAssumption
<1>5. BatchInv'
  BY <1>1, <1>4 DEF IInv, BatchInv
<1>6. ToldInv' /\ LiveFakesAreKept'
  BY <1>1 DEF IInv, ToldInv, LiveFakesAreKept
<1> QED BY <1>1, <1>2, <1>3, <1>5, <1>6, LeasesUntouched DEF IInv

-----------------------------------------------------------------------------
(* The theorems.                                                           *)

\* The invariant holds when the router boots.
LEMMA InitIInv == Init => IInv
<1> SUFFICES ASSUME Init PROVE IInv
  OBVIOUS
<1>1. TypeOK
  <2>1. 0 \in Pool
    BY PoolAssumption DEF Pool
  <2>2. /\ worker \in [Workers -> {Idle} \cup Request]
        /\ leases \in [Keys -> {NoLease} \cup Lease]
        /\ dnat \in [Pool -> {NoReal} \cup Reals]
    BY DEF Init
  <2>3. next \in Pool /\ now \in Nat /\ faults \in Nat
    BY <2>1 DEF Init
  <2> QED BY <2>2, <2>3 DEF Init, TypeOK
<1>2. LockInv
  BY SentinelAssumption DEF Init, LockInv, NoReaders, Updating
<1>3. BatchInv /\ ToldInv
  BY DEF Init, BatchInv, ToldInv
<1> QED BY <1>1, <1>2, <1>3, EmptyStore DEF Init, IInv

\* Every step keeps the invariant.
LEMMA NextIInv == IInv /\ [Next]_vars => IInv'
<1> SUFFICES ASSUME IInv, [Next]_vars PROVE IInv'
  OBVIOUS
<1>1. CASE UNCHANGED vars
  <2>1. TypeOK' /\ LockInv'
    BY <1>1 DEF vars, IInv, TypeOK, LockInv, NoReaders
  <2> QED BY <1>1, <2>1, StoreUntouched DEF vars, IInv
<1>2. CASE \E w \in Workers : WorkerStep(w) \/ \E d \in Domains : Ask(w, d)
  BY <1>2, AskStep, UpstreamAnswersStep, LockStoreStep, AllocateStep, AllocateFailsStep,
     InstallStep, InstallFailsStep, RollbackLeasesStep DEF WorkerStep
<1>3. CASE PurgeExpired \/ CleanupStep
  BY <1>3, PurgeExpiredStep, PurgeStoreStep, PurgeReinstallStep DEF CleanupStep
<1>4. CASE BeginUpdate \/ UpdateStep
  BY <1>4, BeginStep, TransactionStep, CommitPolicyStep DEF UpdateStep
<1>5. CASE Start \/ Crash \/ PowerLoss \/ Tick
  BY <1>5, StartStep, CrashStep, PowerLossStep, TickStep
<1> QED BY <1>1, <1>2, <1>3, <1>4, <1>5 DEF Next

\* The inductive invariant holds in every reachable state.
THEOREM FakeDnsInvariant == Spec => []IInv
BY InitIInv, NextIInv, PTL DEF Spec

\* Type correctness.
THEOREM FakeDnsTypes == Spec => []TypeOK
<1>1. IInv => TypeOK
  BY DEF IInv
<1> QED BY <1>1, FakeDnsInvariant, PTL

\* An address a client may still use is never taken from its name and host
\* (store.rs "Never recycle a live fake IP"), whatever fails, is updated or is
\* restarted meanwhile.
THEOREM LiveFakes == Spec => []LiveFakesAreKept
<1>1. IInv => LiveFakesAreKept
  BY DEF IInv
<1> QED BY <1>1, FakeDnsInvariant, PTL

\* No two leases share an address, the used set is exact and the limit of
\* allocate holds.
THEOREM StoreCoherence == Spec => []StoreIsCoherent
<1>1. IInv => StoreIsCoherent
  BY DEF IInv
<1> QED BY <1>1, FakeDnsInvariant, PTL

-----------------------------------------------------------------------------
(* The kernel against the leases: requests.                                *)

\* Requests and the cleanup run beside no transaction.
LEMMA ReadersKeepTransaction ==
    ASSUME KInv, upd \notin Updating, UNCHANGED controlVars
    PROVE  TransactionInv'
BY DEF KInv, TransactionInv, Updating

\* Steps that leave the leases, the kernel and the batch alone.
LEMMA KernelUntouched ==
    ASSUME KInv, UNCHANGED <<controlVars, batch, leases, kernelVars, told, lost>>,
           \A w \in Workers : worker'[w] # Idle => worker'[w].policy = saved \/ guard
    PROVE  OpenInv'
BY DEF KInv, OpenInv, Follow, NoStrays, Mapped, Unknown, Fakes, Leased

\* Taking a request on, and the answer of the upstream.
LEMMA RequestKernel ==
    ASSUME IInv, KInv, NEW w \in Workers,
           (\E d \in Domains : Ask(w, d)) \/ UpstreamAnswers(w)
    PROVE  KInv'
<1>1. upd \notin Updating
  BY DEF Ask, CanRead, UpstreamAnswers, Updating, IInv, LockInv, NoReaders
<1>4. worker'[w] # Idle => worker'[w].policy = saved \/ guard
  <2>1. CASE \E d \in Domains : Ask(w, d)
    <3>1. worker'[w].policy = policy
      BY <2>1 DEF Ask, IInv, TypeOK
    <3> QED BY <3>1 DEF KInv, TransactionInv
  <2>2. CASE UpstreamAnswers(w)
    <3>1. worker[w] \in Request /\ worker[w] # Idle
      BY <2>2 DEF UpstreamAnswers, IInv, TypeOK
    <3>2. PICK S : worker'[w] \in {[worker[w] EXCEPT !.at = "answered", !.todo = S], Idle}
      BY <2>2 DEF UpstreamAnswers, IInv, TypeOK
    <3>3. [worker[w] EXCEPT !.at = "answered", !.todo = S].policy = worker[w].policy
      BY <3>1 DEF Request
    <3> QED BY <3>1, <3>2, <3>3 DEF KInv, OpenInv
  <2> QED BY <2>1, <2>2
<1>5. \A v \in Workers : v # w => worker'[v] = worker[v]
  BY DEF Ask, UpstreamAnswers, IInv, TypeOK
<1>6. \A v \in Workers : worker'[v] # Idle => worker'[v].policy = saved \/ guard
  BY <1>4, <1>5 DEF KInv, OpenInv
<1>7. UNCHANGED <<controlVars, batch, leases, kernelVars, told, lost>>
  BY DEF Ask, UpstreamAnswers
<1> QED BY <1>1, <1>6, <1>7, ReadersKeepTransaction, KernelUntouched DEF KInv

\* Taking the store mutex.
LEMMA LockStoreKernel ==
    ASSUME IInv, KInv, NEW w \in Workers, LockStore(w)
    PROVE  KInv'
<1>1. upd \notin Updating /\ batch' = batch
  BY DEF LockStore, IInv, LockInv, NoReaders
<1>2. OpenInv'
  BY <1>1, KernelUntouched DEF LockStore, KInv, OpenInv
<1> QED BY <1>1, <1>2, ReadersKeepTransaction DEF LockStore, KInv

\* A worker that holds the mutex runs beside no transaction.
LEMMA HolderFacts ==
    ASSUME IInv, holder # Nobody
    PROVE  agent = "up" /\ upd \notin Updating
BY DEF IInv, LockInv, NoReaders, TypeOK

\* One record of an answer gets its lease.
LEMMA AllocateKernel ==
    ASSUME IInv, KInv, NEW w \in Workers, Allocate(w)
    PROVE  KInv'
<1>1. PICK r \in worker[w].todo, ttl \in Ttls :
         LET k == <<worker[w].domain, r>> IN
         /\ \/ /\ k \in Leased /\ Renew(k, Expires(ttl))
               /\ UNCHANGED <<used, next, batch>>
            \/ /\ k \notin Leased /\ HasRoom
               /\ Insert(k, worker[w].policy.target[k], Expires(ttl))
               /\ batch' = batch \cup {k}
         /\ said' = said \cup {k}
         /\ worker' = [worker EXCEPT ![w].todo = @ \ {r}]
  BY DEF Allocate
<1> DEFINE k == <<worker[w].domain, r>>
           e == Expires(ttl)
<1>2. /\ holder = w /\ worker[w] \in Request /\ worker[w] # Idle /\ agent = "up"
      /\ upd \notin Updating
      /\ worker[w].todo \cap LanReals = {}
      /\ UNCHANGED <<controlVars, holder, step, kernelVars, now, told, lost, faults>>
  BY HolderFacts, SentinelAssumption DEF Allocate, Allocating, IInv, LockInv, TypeOK
<1>3. k \in Keys
  BY <1>2 DEF Keys, Request
<1>4. \A v \in Workers : worker'[v] # Idle => worker[v] # Idle /\ worker'[v].policy = worker[v].policy
  <2>1. worker'[w].policy = worker[w].policy
    BY <1>1, <1>2 DEF IInv, TypeOK, Request
  <2> QED BY <1>1, <1>2, <2>1 DEF IInv, TypeOK
<1>5. TransactionInv'
  BY <1>2, ReadersKeepTransaction
<1> SUFFICES ASSUME ~guard
             PROVE  OpenInv'
  BY <1>2, <1>5 DEF KInv, OpenInv
<1>6. /\ upd = "idle" /\ table /\ batch \subseteq Leased
      /\ \A l \in Leased : leases[l].target = saved.target[l]
      /\ \A f \in Pool \ Fakes(Leased) : Unknown(f)
      /\ \A v \in Workers : worker[v] # Idle => worker[v].policy = saved
      /\ \A l \in Leased : Mapped(l, saved) \/ Unknown(leases[l].fake)
      /\ \A l \in batch : Unknown(leases[l].fake)
      /\ \A l \in Leased \ batch : leases[l].fake \in lost \/ Mapped(l, saved)
      /\ \A t \in told : t.fake \in lost \/ Mapped(t.key, saved)
      /\ \A t \in told : t.key \in Leased
  BY <1>2 DEF KInv, OpenInv, Follow, NoStrays, IInv, BatchInv, LiveFakesAreKept, TypeOK, Leased
<1>7. \A f \in Pool : Unknown(f)' <=> Unknown(f)
  BY <1>2 DEF Unknown
<1>8. CASE k \in Leased /\ Renew(k, e) /\ UNCHANGED <<used, next, batch>>
  <2>1. /\ Leased' = Leased
        /\ \A l \in Leased : /\ leases'[l].fake = leases[l].fake
                              /\ leases'[l].target = leases[l].target
    <3>1. leases[k] \in Lease /\ leases \in [Keys -> {NoLease} \cup Lease]
      BY <1>8, LeaseFacts DEF IInv, TypeOK
    <3> DEFINE n == [leases[k] EXCEPT !.expires = e]
    <3>2. n.fake = leases[k].fake /\ n.target = leases[k].target /\ n # NoLease
      <4>1. e \in Nat
        BY TimeAssumption DEF Expires, Clamp, IInv, TypeOK
      <4> QED BY <3>1, <4>1, SentinelAssumption DEF Lease
    <3>3. leases' = leases \/ leases' = [leases EXCEPT ![k] = n]
      BY <1>8, <3>1 DEF Renew
    <3> HIDE DEF n
    <3> QED BY <1>3, <1>8, <3>1, <3>2, <3>3 DEF Leased
  <2>2. \A l \in Leased : Mapped(l, saved)' <=> Mapped(l, saved)
    BY <1>2, <2>1 DEF Mapped
  <2>3. Fakes(Leased)' = Fakes(Leased)
    BY <2>1 DEF Fakes
  <2>4. \A l \in Leased : leases[l].fake \in Pool
    BY LeaseFacts DEF IInv
  <2> HIDE DEF k, e
  <2> QED BY <1>2, <1>4, <1>6, <1>7, <1>8, <2>1, <2>2, <2>3, <2>4 DEF OpenInv, Follow, NoStrays
<1>9. CASE /\ k \notin Leased /\ HasRoom
           /\ Insert(k, worker[w].policy.target[k], e) /\ batch' = batch \cup {k}
  <2>1. FreeFake \in Pool /\ FreeFake \notin used /\ used = Fakes(Leased)
    BY <1>2, <1>9, FreeFakeIsFree DEF IInv, StoreIsCoherent
  <2>2. Unknown(FreeFake)
    BY <1>6, <2>1
  <2>3. /\ Leased' = Leased \cup {k}
        /\ leases'[k].fake = FreeFake /\ leases'[k].target = saved.target[k]
        /\ \A l \in Leased : leases'[l] = leases[l]
    <3> DEFINE n == [fake |-> FreeFake, target |-> worker[w].policy.target[k], expires |-> e]
    <3>1. leases' = [leases EXCEPT ![k] = n]
      BY <1>9 DEF Insert
    <3>2. worker[w].policy = saved
      BY <1>2, <1>6
    <3>3. n.fake = FreeFake /\ n.target = saved.target[k] /\ n # NoLease
      <4>1. e \in Nat
        BY TimeAssumption DEF Expires, Clamp, IInv, TypeOK
      <4>2. saved.target[k] \in Targets
        BY <1>3, PolicyAssumption DEF Keys, IInv, TypeOK
      <4> QED BY <2>1, <3>2, <4>1, <4>2, SentinelAssumption DEF Lease
    <3> HIDE DEF n, k
    <3> QED BY <1>3, <1>9, <3>1, <3>3 DEF Leased, IInv, TypeOK
  <2>4. \A l \in Leased : Mapped(l, saved)' <=> Mapped(l, saved)
    BY <1>2, <2>3 DEF Mapped
  <2>5. \A l \in Leased : leases[l].fake \in Pool
    BY LeaseFacts DEF IInv
  <2>6. Fakes(Leased) \subseteq Fakes(Leased)'
    BY <2>3 DEF Fakes
  <2> HIDE DEF k, e
  <2>7. NoStrays' /\ Follow(saved)'
    BY <1>2, <1>6, <1>7, <2>3, <2>6 DEF NoStrays, Follow
  <2>8. \A l \in batch' : Unknown(leases[l].fake)'
    BY <1>6, <1>7, <1>9, <2>1, <2>2, <2>3, <2>5
  <2>9. \A l \in Leased' : Mapped(l, saved)' \/ Unknown(leases[l].fake)'
    BY <1>6, <1>7, <1>9, <2>3, <2>4, <2>5, <2>8
  <2>10. \A l \in Leased' \ batch' : leases'[l].fake \in lost \/ Mapped(l, saved)'
    BY <1>6, <1>9, <2>3, <2>4
  <2>11. \A t \in told : t.fake \in lost \/ Mapped(t.key, saved)'
    BY <1>6, <2>4
  <2> QED BY <1>2, <1>4, <1>6, <2>7, <2>8, <2>9, <2>10, <2>11 DEF OpenInv
<1> QED BY <1>1, <1>8, <1>9

\* The facts OpenInv gives while traffic is forwarded.
LEMMA OpenFacts ==
    ASSUME IInv, KInv, ~guard
    PROVE  /\ upd = "idle" /\ table /\ batch \subseteq Leased
           /\ \A k \in Leased : leases[k].target = saved.target[k]
           /\ \A f \in Pool \ Fakes(Leased) : Unknown(f)
           /\ \A w \in Workers : worker[w] # Idle => worker[w].policy = saved
           /\ \A k \in Leased : Mapped(k, saved) \/ Unknown(leases[k].fake)
           /\ \A k \in batch : Unknown(leases[k].fake)
           /\ agent = "up" =>
                 \A k \in Leased \ batch : leases[k].fake \in lost \/ Mapped(k, saved)
           /\ \A t \in told : t.fake \in lost \/ Mapped(t.key, saved)
           /\ \A t \in told : t.key \in Leased
           /\ \A k \in Leased : leases[k].fake \in Pool
           /\ \A k, l \in Leased : leases[k].fake = leases[l].fake => k = l
<1>1. \A k \in Leased : leases[k].fake \in Pool
  BY LeaseFacts DEF IInv
<1> QED BY <1>1 DEF KInv, OpenInv, Follow, NoStrays, IInv, BatchInv, LiveFakesAreKept, TypeOK, Leased,
                    StoreIsCoherent

\* A failing rewrite.
LEMMA RewriteFailsKernel ==
    ASSUME IInv, KInv, NEW w \in Workers, AllocateFails(w) \/ InstallFails(w)
    PROVE  KInv'
<1>1. /\ holder = w /\ RewriteFails(w)
      /\ UNCHANGED <<controlVars, leases, used, kernelVars, now, told, lost>>
  BY DEF AllocateFails, InstallFails, Allocating
<1>2. upd \notin Updating /\ batch' = batch
  BY <1>1, HolderFacts, SentinelAssumption DEF RewriteFails, Unlock
<1>3. \A v \in Workers : worker'[v] # Idle => worker'[v] = worker[v]
  BY <1>1 DEF RewriteFails, IInv, TypeOK
<1>4. OpenInv'
  BY <1>1, <1>2, <1>3, KernelUntouched DEF KInv, OpenInv
<1> QED BY <1>1, <1>2, <1>4, ReadersKeepTransaction DEF KInv

\* What install_mappings does to leases the kernel did not know: they get
\* right, and nothing else changes.
LEMMA InstallEffect ==
    ASSUME IInv, KInv, ~guard, InstallMappings(batch), UNCHANGED <<leases, saved>>
    PROVE  /\ \A k \in batch : Mapped(k, saved)'
           /\ \A k \in Leased \ batch : Mapped(k, saved)' <=> Mapped(k, saved)
           /\ \A k \in Leased \ batch : Unknown(leases[k].fake)' <=> Unknown(leases[k].fake)
           /\ \A f \in Pool \ Fakes(Leased) : Unknown(f)' <=> Unknown(f)
<1>1. /\ batch \subseteq Leased
      /\ \A k \in Leased : leases[k].target = saved.target[k] /\ leases[k].fake \in Pool
      /\ \A k \in batch : Unknown(leases[k].fake)
      /\ \A k, l \in Leased : leases[k].fake = leases[l].fake => k = l
  BY OpenFacts
<1>2. /\ dnat' = [f \in Pool |-> IF f \in Fakes(batch)
                                 THEN (CHOOSE k \in batch : leases[k].fake = f)[2] ELSE dnat[f]]
      /\ marks' = marks \cup MarksOf(batch)
  BY DEF InstallMappings
<1>3. ASSUME NEW f \in Pool, f \notin Fakes(batch)
      PROVE  /\ dnat'[f] = dnat[f]
             /\ \A target \in Targets : <<f, target>> \in marks' <=> <<f, target>> \in marks
  <2>1. \A target \in Targets : <<f, target>> \notin MarksOf(batch)
    BY <1>3 DEF MarksOf, Fakes
  <2> QED BY <1>2, <1>3, <2>1
<1>4. ASSUME NEW k \in batch
      PROVE  Mapped(k, saved)'
  <2>1. leases[k].fake \in Fakes(batch) /\ leases[k].fake \in Pool
    BY <1>1 DEF Fakes
  <2>2. (CHOOSE l \in batch : leases[l].fake = leases[k].fake) = k
    BY <1>1
  <2>3. dnat'[leases[k].fake] = k[2]
    BY <1>2, <2>1, <2>2
  <2>4. \A target \in Targets : <<leases[k].fake, target>> \in MarksOf(batch) <=>
                                target = saved.target[k]
    BY <1>1 DEF MarksOf
  <2>5. \A target \in Targets : <<leases[k].fake, target>> \notin marks
    BY <1>1 DEF Unknown
  <2> QED BY <1>2, <2>3, <2>4, <2>5 DEF Mapped
<1>5. \A k \in Leased \ batch : leases[k].fake \notin Fakes(batch)
  BY <1>1 DEF Fakes
<1>6. \A f \in Pool \ Fakes(Leased) : f \notin Fakes(batch)
  BY <1>1 DEF Fakes
<1>7. \A k \in Leased \ batch : Mapped(k, saved)' <=> Mapped(k, saved)
  BY <1>1, <1>3, <1>5 DEF Mapped
<1>8. \A k \in Leased \ batch : Unknown(leases[k].fake)' <=> Unknown(leases[k].fake)
  BY <1>1, <1>3, <1>5 DEF Unknown
<1>9. \A f \in Pool \ Fakes(Leased) : Unknown(f)' <=> Unknown(f)
  BY <1>3, <1>6 DEF Unknown
<1> QED BY <1>4, <1>7, <1>8, <1>9

\* The answer goes out.
LEMMA InstallKernel ==
    ASSUME IInv, KInv, NEW w \in Workers, Install(w)
    PROVE  KInv'
<1>1. /\ holder = w /\ InstallMappings(batch) /\ batch' = {}
      /\ UNCHANGED <<controlVars, storeVars, now, lost, faults, table>>
      /\ worker' = [worker EXCEPT ![w] = Idle]
      /\ told' = told \cup {[fake |-> leases[k].fake, key |-> k,
                              until |-> leases[k].expires + Grace] : k \in said \ Expired}
  BY DEF Install, Allocating, Unlock, InstallMappings
<1>2. upd \notin Updating /\ agent = "up"
  BY <1>1, HolderFacts, SentinelAssumption
<1>3. TransactionInv'
  BY <1>1, <1>2, ReadersKeepTransaction
<1> SUFFICES ASSUME ~guard
             PROVE  OpenInv'
  BY <1>1, <1>3 DEF KInv, OpenInv
<1>4. /\ Leased' = Leased /\ Fakes(Leased)' = Fakes(Leased)
      /\ said \subseteq Leased
  BY <1>1 DEF Leased, Fakes, IInv, BatchInv
<1>5. \A v \in Workers : worker'[v] # Idle => worker'[v] = worker[v]
  BY <1>1 DEF IInv, TypeOK
<1>6. \A k \in Leased : Mapped(k, saved)' \/ Unknown(leases[k].fake)'
  BY <1>1, OpenFacts, InstallEffect
<1>7. \A k \in Leased : leases[k].fake \in lost \/ Mapped(k, saved)'
  BY <1>1, <1>2, OpenFacts, InstallEffect
<1>8. \A t \in told' : t.fake \in lost \/ Mapped(t.key, saved)'
  <2> TAKE t \in told'
  <2>1. CASE t \in told
    <3>1. t.key \in Leased /\ leases[t.key].fake = t.fake
      BY <2>1, OpenFacts DEF IInv, LiveFakesAreKept
    <3> QED BY <1>7, <3>1
  <2>2. CASE t \notin told
    <3>1. PICK k \in said : t.fake = leases[k].fake /\ t.key = k
      BY <1>1, <2>2
    <3> QED BY <1>4, <1>7, <3>1
  <2> QED BY <2>1, <2>2
<1>9. NoStrays' /\ Follow(saved)'
  BY <1>1, <1>4, OpenFacts, InstallEffect DEF NoStrays, Follow
<1> QED BY <1>1, <1>4, <1>5, <1>6, <1>7, <1>8, <1>9, OpenFacts DEF OpenInv

\* Removing leases the kernel does not know keeps it free of strays.
LEMMA RemoveKernel ==
    ASSUME IInv, KInv, agent = "up", Remove(batch), batch' = {},
           UNCHANGED <<controlVars, kernelVars, told, lost>>,
           \A w \in Workers : worker'[w] # Idle => worker'[w] = worker[w],
           \A t \in told : t.key \notin batch
    PROVE  OpenInv'
<1> SUFFICES ASSUME ~guard
             PROVE  OpenInv'
  BY DEF OpenInv
<1>1. Leased' = Leased \ batch /\ \A k \in Leased' : leases'[k] = leases[k]
  BY RemoveKeepsStore DEF IInv, BatchInv
<1>2. \A f \in Pool : Unknown(f)' <=> Unknown(f)
  BY DEF Unknown
<1>3. \A k \in Leased' : Mapped(k, saved)' <=> Mapped(k, saved)
  BY <1>1 DEF Mapped
<1>4. \A f \in Pool \ Fakes(Leased)' : Unknown(f)
  <2> TAKE f \in Pool \ Fakes(Leased)'
  <2>1. CASE f \in Fakes(Leased)
    <3>1. PICK k \in Leased : leases[k].fake = f
      BY <2>1 DEF Fakes
    <3>2. k \in batch
      BY <1>1, <3>1 DEF Fakes
    <3> QED BY <3>1, <3>2, OpenFacts
  <2>2. CASE f \notin Fakes(Leased)
    BY <2>2, OpenFacts
  <2> QED BY <2>1, <2>2
<1>5. NoStrays' /\ Follow(saved)'
  BY <1>1, <1>2, <1>4, OpenFacts DEF NoStrays, Follow
<1>6. \A t \in told : t.key \in Leased'
  BY <1>1, OpenFacts
<1> QED BY <1>1, <1>2, <1>3, <1>5, <1>6, OpenFacts DEF OpenInv

\* Giving leases up after a second failure: they become lost.
LEMMA LoseKernel ==
    ASSUME IInv, KInv, lost' = lost \cup Fakes(batch), batch' = {},
           UNCHANGED <<controlVars, storeVars, kernelVars, told>>,
           \A w \in Workers : worker'[w] # Idle => worker'[w] = worker[w]
    PROVE  OpenInv'
<1> SUFFICES ASSUME ~guard
             PROVE  OpenInv'
  BY DEF OpenInv
<1>1. Leased' = Leased /\ Fakes(Leased)' = Fakes(Leased)
  BY DEF Leased, Fakes
<1>2. \A f \in Pool : Unknown(f)' <=> Unknown(f)
  BY DEF Unknown
<1>3. \A k \in Leased : Mapped(k, saved)' <=> Mapped(k, saved)
  BY DEF Mapped
<1>4. \A k \in batch : leases[k].fake \in lost'
  BY DEF Fakes
<1>5. NoStrays' /\ Follow(saved)'
  BY <1>1, <1>2, OpenFacts DEF NoStrays, Follow
<1> QED BY <1>1, <1>2, <1>3, <1>4, <1>5, OpenFacts DEF OpenInv

\* The rollback of a failed rewrite.
LEMMA RollbackLeasesKernel ==
    ASSUME IInv, KInv, NEW w \in Workers, RollbackLeases(w)
    PROVE  KInv'
<1>1. /\ holder = w /\ step = "rollback" /\ batch' = {}
      /\ worker' = [worker EXCEPT ![w] = Idle]
      /\ UNCHANGED <<controlVars, kernelVars, now, told>>
  BY DEF RollbackLeases, Unlock
<1>2. upd \notin Updating /\ agent = "up"
  BY <1>1, HolderFacts, SentinelAssumption
<1>3. \A v \in Workers : worker'[v] # Idle => worker'[v] = worker[v]
  BY <1>1 DEF IInv, TypeOK
<1>4. \A t \in told : t.key \notin batch
  BY <1>1 DEF IInv, BatchInv
<1>5. CASE Remove(batch) /\ UNCHANGED <<lost, faults>>
  BY <1>1, <1>2, <1>3, <1>4, <1>5, RemoveKernel, ReadersKeepTransaction DEF KInv
<1>6. CASE Fails /\ lost' = lost \cup Fakes(batch) /\ UNCHANGED storeVars
  BY <1>1, <1>2, <1>3, <1>6, LoseKernel, ReadersKeepTransaction DEF KInv
<1> QED BY <1>5, <1>6 DEF RollbackLeases

-----------------------------------------------------------------------------
(* The kernel against the leases: the cleanup.                             *)

\* The kernel forgets the expired leases and no other.
LEMMA PurgeExpiredKernel ==
    ASSUME IInv, KInv, PurgeExpired
    PROVE  KInv'
<1>1. /\ CanRead /\ holder = Nobody /\ Deletable(Expired) /\ batch' = Expired
      /\ dnat' = [f \in Pool |-> IF f \in Fakes(Expired) THEN NoReal ELSE dnat[f]]
      /\ marks' = marks \ MarksOf(Expired)
      /\ UNCHANGED <<controlVars, worker, storeVars, now, told, lost, faults, table>>
  BY DEF PurgeExpired, RemoveMappings
<1>2. upd \notin Updating /\ batch = {}
  BY <1>1 DEF CanRead, Updating, IInv, LockInv
<1>3. TransactionInv'
  BY <1>1, <1>2, ReadersKeepTransaction
<1> SUFFICES ASSUME ~guard
             PROVE  OpenInv'
  BY <1>1, <1>3 DEF KInv, OpenInv
<1>4. Leased' = Leased /\ Fakes(Leased)' = Fakes(Leased) /\ Expired \subseteq Leased
  BY <1>1 DEF Leased, Fakes, Expired
<1>5. ASSUME NEW k \in Expired
      PROVE  Unknown(leases[k].fake)'
  <2>1. leases[k].fake \in Fakes(Expired) /\ leases[k].fake \in Pool /\ k \in Leased
    BY <1>4, OpenFacts DEF Fakes
  <2>2. dnat'[leases[k].fake] = NoReal
    BY <1>1, <2>1
  <2>3. Mapped(k, saved) \/ Unknown(leases[k].fake)
    BY <2>1, OpenFacts
  <2>4. <<leases[k].fake, saved.target[k]>> \in MarksOf(Expired)
    BY <2>1, OpenFacts DEF MarksOf
  <2>5. \A target \in Targets : <<leases[k].fake, target>> \notin marks'
    BY <1>1, <2>3, <2>4 DEF Mapped, Unknown
  <2> QED BY <1>1, <2>2, <2>5 DEF Unknown
<1>6. ASSUME NEW f \in Pool, f \notin Fakes(Expired)
      PROVE  /\ dnat'[f] = dnat[f]
             /\ \A target \in Targets : <<f, target>> \in marks' <=> <<f, target>> \in marks
  <2>1. \A target \in Targets : <<f, target>> \notin MarksOf(Expired)
    BY <1>6 DEF MarksOf, Fakes
  <2> QED BY <1>1, <1>6, <2>1
<1>7. \A k \in Leased \ Expired : leases[k].fake \in Pool /\ leases[k].fake \notin Fakes(Expired)
  BY <1>4, OpenFacts DEF Fakes
<1>8. \A k \in Leased \ Expired : /\ Mapped(k, saved)' <=> Mapped(k, saved)
                                  /\ Unknown(leases[k].fake)' <=> Unknown(leases[k].fake)
  BY <1>1, <1>6, <1>7 DEF Mapped, Unknown
<1>9. \A f \in Pool \ Fakes(Leased) : Unknown(f)'
  <2>1. \A f \in Pool \ Fakes(Leased) : f \notin Fakes(Expired) /\ Unknown(f)
    BY <1>4, OpenFacts DEF Fakes
  <2> QED BY <1>6, <2>1 DEF Unknown
<1>10. NoStrays' /\ Follow(saved)'
  BY <1>1, <1>4, <1>9, OpenFacts DEF NoStrays, Follow
<1>11. \A t \in told : t.key \in Leased \ Expired
  BY OpenFacts, ExpiredIsNotPromised
<1>12. agent = "up"
  BY <1>1 DEF CanRead
<1> QED BY <1>1, <1>2, <1>4, <1>5, <1>8, <1>10, <1>11, <1>12, OpenFacts DEF OpenInv

\* The store forgets them too, or fails.
LEMMA PurgeStoreKernel ==
    ASSUME IInv, KInv, PurgeStore
    PROVE  KInv'
<1>1. /\ holder = "cleanup" /\ step = "remove"
      /\ UNCHANGED <<controlVars, worker, kernelVars, now, told, lost>>
  BY DEF PurgeStore
<1>2. upd \notin Updating /\ agent = "up"
  BY <1>1, HolderFacts, SentinelAssumption
<1>3. \A t \in told : t.key \notin batch
  BY <1>1, ExpiredIsNotPromised DEF IInv, BatchInv
<1>4. CASE Remove(batch) /\ Unlock /\ UNCHANGED faults
  BY <1>1, <1>2, <1>3, <1>4, RemoveKernel, ReadersKeepTransaction DEF KInv, Unlock
<1>5. CASE UNCHANGED <<storeVars, holder, batch, said>>
  <2>1. OpenInv'
    BY <1>1, <1>5, KernelUntouched DEF KInv, OpenInv
  <2> QED BY <1>1, <1>2, <2>1, ReadersKeepTransaction DEF KInv
<1> QED BY <1>4, <1>5 DEF PurgeStore

\* The kernel gets them back, or they are lost.
LEMMA PurgeReinstallKernel ==
    ASSUME IInv, KInv, PurgeReinstall
    PROVE  KInv'
<1>1. /\ holder = "cleanup" /\ batch' = {}
      /\ UNCHANGED <<controlVars, worker, storeVars, now, told>>
  BY DEF PurgeReinstall, Unlock
<1>2. upd \notin Updating /\ agent = "up"
  BY <1>1, HolderFacts, SentinelAssumption
<1>3. CASE InstallMappings(batch) /\ UNCHANGED <<lost, faults>>
  <2> SUFFICES ASSUME ~guard
               PROVE  OpenInv'
    BY <1>1, <1>2, ReadersKeepTransaction DEF KInv, OpenInv
  <2>1. Leased' = Leased /\ Fakes(Leased)' = Fakes(Leased) /\ table' = table
    BY <1>1, <1>3 DEF Leased, Fakes, InstallMappings
  <2>2. \A k \in Leased : Mapped(k, saved)' \/ Unknown(leases[k].fake)'
    BY <1>1, <1>3, OpenFacts, InstallEffect
  <2>3. \A k \in Leased : leases[k].fake \in lost \/ Mapped(k, saved)'
    BY <1>1, <1>2, <1>3, OpenFacts, InstallEffect
  <2>4. NoStrays' /\ Follow(saved)'
    BY <1>1, <1>3, <2>1, OpenFacts, InstallEffect DEF NoStrays, Follow
  <2>5. \A t \in told : t.fake \in lost \/ Mapped(t.key, saved)'
    BY <2>3, OpenFacts DEF IInv, LiveFakesAreKept
  <2> QED BY <1>1, <1>3, <2>1, <2>2, <2>3, <2>4, <2>5, OpenFacts DEF OpenInv
<1>4. CASE Fails /\ lost' = lost \cup Fakes(batch) /\ UNCHANGED kernelVars
  BY <1>1, <1>2, <1>4, LoseKernel, ReadersKeepTransaction DEF KInv
<1> QED BY <1>3, <1>4 DEF PurgeReinstall

-----------------------------------------------------------------------------
(* The kernel against the leases: updates, start and the rest.             *)

\* With the guard up nothing is asked of the kernel but what the transaction
\* relies on.
LEMMA BeginKernel ==
    ASSUME IInv, KInv, BeginUpdate \/ BeginReconcile
    PROVE  KInv'
<1>1. guard'
  BY DEF BeginUpdate, BeginReconcile, KInv, OpenInv
<1>2. /\ upd' \in {"apply", "rApply", "degraded"}
      /\ UNCHANGED <<policy, saved>>
  BY DEF BeginUpdate, BeginReconcile
<1> QED BY <1>1, <1>2 DEF KInv, OpenInv, TransactionInv

\* apply makes the kernel exact for the policy it renders.
LEMMA ApplyEffect ==
    ASSUME IInv, NEW p \in Policies, ApplyTable(p), UNCHANGED leases
    PROVE  NoStrays' /\ \A k \in Leased' : Mapped(k, p)'
<1>1. /\ Leased' = Leased /\ Fakes(Leased)' = Fakes(Leased)
      /\ \A k, l \in Leased : leases[k].fake = leases[l].fake => k = l
      /\ \A k \in Leased : leases[k].fake \in Pool /\ leases[k].fake \in Fakes(Leased)
  BY LeaseFacts DEF Leased, Fakes, IInv, StoreIsCoherent
<1>2. /\ table' = TRUE
      /\ dnat' = [f \in Pool |-> IF f \in Fakes(Leased)
                   THEN (CHOOSE k \in Leased : leases[k].fake = f)[2] ELSE NoReal]
      /\ marks' = {<<leases[k].fake, p.target[k]>> : k \in Leased}
  BY DEF ApplyTable
<1>3. ASSUME NEW k \in Leased
      PROVE  Mapped(k, p)'
  <2>1. (CHOOSE l \in Leased : leases[l].fake = leases[k].fake) = k
    BY <1>1
  <2>2. dnat'[leases[k].fake] = k[2]
    BY <1>1, <1>2, <2>1
  <2>3. \A target \in Targets : <<leases[k].fake, target>> \in marks' <=> target = p.target[k]
    BY <1>1, <1>2
  <2> QED BY <2>2, <2>3 DEF Mapped
<1>4. \A f \in Pool \ Fakes(Leased) : Unknown(f)'
  <2> TAKE f \in Pool \ Fakes(Leased)
  <2>1. dnat'[f] = NoReal
    BY <1>2
  <2>2. \A target \in Targets : <<f, target>> \notin marks'
    BY <1>1, <1>2
  <2> QED BY <2>1, <2>2 DEF Unknown
<1> QED BY <1>1, <1>2, <1>3, <1>4 DEF NoStrays

\* The first half of apply_policy.
LEMMA ApplyPolicyKernel ==
    ASSUME IInv, KInv, ApplyPolicy
    PROVE  KInv'
<1>1. /\ upd \in {"apply", "bApply", "rApply"} /\ guard /\ guard' = guard
      /\ UNCHANGED <<policy, saved, new, leases>>
  BY DEF ApplyPolicy, KInv, OpenInv
<1>2. CASE /\ ApplyTable(PolicyOf)
           /\ upd' = CASE upd = "apply"  -> "commit"
                       [] upd = "bApply" -> "bCommit"
                       [] upd = "rApply" -> "rCommit"
  <2>1. PolicyOf \in Policies
    BY DEF PolicyOf, IInv, TypeOK
  <2>2. NoStrays' /\ \A k \in Leased' : Mapped(k, PolicyOf)'
    <3> DEFINE p == PolicyOf
    <3>1. p' = p /\ \A k \in Leased' : Mapped(k, p)' => Mapped(k, PolicyOf)'
      BY <1>1, <1>2 DEF PolicyOf
    <3> QED BY <1>1, <1>2, <2>1, <3>1, ApplyEffect
  <2> QED BY <1>1, <1>2, <2>2 DEF KInv, OpenInv, TransactionInv, PolicyOf
<1>3. CASE StepFails
  BY <1>1, <1>3 DEF StepFails, KInv, OpenInv, TransactionInv
<1> QED BY <1>2, <1>3 DEF ApplyPolicy

\* The second half: the stored targets follow the kernel.
LEMMA CommitPolicyKernel ==
    ASSUME IInv, KInv, CommitPolicy
    PROVE  KInv'
<1>1. /\ upd \in {"commit", "bCommit", "rCommit"} /\ guard /\ guard' = guard
      /\ UNCHANGED <<policy, saved, new, kernelVars>>
  BY DEF CommitPolicy, KInv, OpenInv
<1>2. CASE /\ CommitTargets(PolicyOf)
           /\ upd' = CASE upd = "commit"  -> "save"
                       [] upd = "bCommit" -> "bClear"
                       [] upd = "rCommit" -> "rClear"
  <2>1. /\ Leased' = Leased
        /\ \A k \in Leased : /\ leases'[k].fake = leases[k].fake
                              /\ leases'[k].target = PolicyOf.target[k]
    <3>1. \A k \in Leased : PolicyOf.target[k] \in Targets
      BY PolicyAssumption DEF PolicyOf, IInv, TypeOK, Leased, Keys
    <3> DEFINE n(k) == [leases[k] EXCEPT !.target = PolicyOf.target[k]]
    <3>2. \A k \in Leased : /\ n(k) # NoLease /\ n(k).fake = leases[k].fake
                            /\ n(k).target = PolicyOf.target[k]
      BY <3>1, LeaseFacts, SentinelAssumption DEF IInv, Lease
    <3>3. leases' = [k \in Keys |-> IF leases[k] = NoLease THEN NoLease ELSE n(k)]
      BY <1>2 DEF CommitTargets
    <3> HIDE DEF n
    <3> QED BY <3>2, <3>3 DEF Leased
  <2>2. \A p : \A k \in Leased : Mapped(k, p) <=>
                 /\ dnat'[leases'[k].fake] = k[2]
                 /\ \A target \in Targets :
                       <<leases'[k].fake, target>> \in marks' <=> target = p.target[k]
    BY <1>1, <2>1 DEF Mapped
  <2>3. NoStrays => NoStrays'
    BY <1>1, <2>1 DEF NoStrays, Fakes, Unknown
  <2>4. upd = "commit" => upd' = "save" /\ Follow(new)' /\ \A k \in Leased' : Mapped(k, new)'
    BY <1>1, <1>2, <2>1, <2>2 DEF KInv, TransactionInv, PolicyOf, Follow, Mapped
  <2>5. upd # "commit" => /\ upd' \in {"bClear", "rClear"} /\ Follow(saved)'
                          /\ \A k \in Leased' : Mapped(k, saved)'
    BY <1>1, <1>2, <2>1, <2>2 DEF KInv, TransactionInv, PolicyOf, Follow, Mapped
  <2>6. NoStrays'
    BY <1>1, <2>3 DEF KInv, TransactionInv
  <2> QED BY <1>1, <2>4, <2>5, <2>6 DEF KInv, OpenInv, TransactionInv
<1>3. CASE StepFails
  BY <1>1, <1>3 DEF StepFails, KInv, OpenInv, TransactionInv
<1> QED BY <1>2, <1>3 DEF CommitPolicy

\* The policy becomes the saved and the active one.
LEMMA SavePolicyKernel ==
    ASSUME IInv, KInv, SavePolicy
    PROVE  KInv'
<1>1. /\ upd = "save" /\ guard /\ guard' = guard
      /\ UNCHANGED <<new, leases, kernelVars>>
      /\ \/ saved' = new /\ policy' = new /\ upd' \in {"clear", "degraded"}
         \/ UNCHANGED <<saved, policy>> /\ upd' = "bApply"
  BY DEF SavePolicy, StepFails, KInv, OpenInv
<1>2. NoStrays /\ Follow(new) /\ \A k \in Leased : Mapped(k, new)
  BY <1>1 DEF KInv, TransactionInv
<1>3. Leased' = Leased
  BY <1>1 DEF Leased
<1>4. NoStrays' /\ Follow(new)' /\ \A k \in Leased' : Mapped(k, new)'
  BY <1>1, <1>2, <1>3 DEF NoStrays, Follow, Mapped, Fakes, Unknown
<1> QED BY <1>1, <1>4 DEF KInv, OpenInv, TransactionInv

\* The guard comes down only over an exact kernel.
LEMMA ClearGuardKernel ==
    ASSUME IInv, KInv, ClearGuard
    PROVE  KInv'
<1>1. /\ upd \in {"clear", "bClear", "rClear"} /\ guard
      /\ UNCHANGED <<policy, saved, new, leases, kernelVars, lost, agent, worker, mutexVars, told>>
  BY DEF ClearGuard, Frame, KInv, OpenInv
<1>2. NoReaders /\ batch = {}
  BY <1>1 DEF IInv, LockInv, NoReaders, Updating
<1>3. NoStrays /\ Follow(saved) /\ \A k \in Leased : Mapped(k, saved)
  BY <1>1 DEF KInv, TransactionInv
<1>4. \A t \in told : t.key \in Leased
  BY DEF IInv, LiveFakesAreKept, TypeOK, Leased
<1>5. CASE guard' = FALSE /\ upd' = "idle"
  <2>1. Leased' = Leased
    BY <1>1 DEF Leased
  <2>2. NoStrays' /\ Follow(saved)' /\ \A k \in Leased' : Mapped(k, saved)'
    BY <1>1, <1>3, <2>1 DEF NoStrays, Follow, Mapped, Fakes, Unknown
  <2>3. \A w \in Workers : worker'[w] = Idle
    BY <1>1, <1>2 DEF NoReaders
  <2> QED BY <1>1, <1>2, <1>4, <1>5, <2>1, <2>2, <2>3 DEF KInv, OpenInv, TransactionInv
<1>6. CASE StepFails /\ UNCHANGED guard
  BY <1>1, <1>6 DEF StepFails, KInv, OpenInv, TransactionInv
<1> QED BY <1>5, <1>6 DEF ClearGuard

\* A start and a power loss put the guard up.
LEMMA GuardedKernel ==
    ASSUME IInv, KInv, Start \/ PowerLoss
    PROVE  KInv'
BY DEF Start, PowerLoss, LoseMemory, KInv, OpenInv, TransactionInv

\* A crash leaves the kernel to forward what it knows.
LEMMA CrashKernel ==
    ASSUME IInv, KInv, Crash
    PROVE  KInv'
<1>1. /\ agent' = "off" /\ upd' = "idle" /\ policy' = saved /\ batch' = {}
      /\ \A w \in Workers : worker'[w] = Idle
      /\ UNCHANGED <<saved, guard, leases, kernelVars, told, lost>>
  BY DEF Crash, LoseMemory, Unlock
<1>2. TransactionInv'
  BY <1>1 DEF TransactionInv
<1> SUFFICES ASSUME ~guard
             PROVE  OpenInv'
  BY <1>1, <1>2 DEF KInv, OpenInv
<1>3. Leased' = Leased
  BY <1>1 DEF Leased
<1>4. NoStrays' /\ Follow(saved)'
  BY <1>1, <1>3, OpenFacts DEF NoStrays, Follow, Fakes, Unknown
<1>5. \A k \in Leased : /\ Mapped(k, saved)' <=> Mapped(k, saved)
                        /\ Unknown(leases[k].fake)' <=> Unknown(leases[k].fake)
  BY <1>1 DEF Mapped, Unknown
<1> QED BY <1>1, <1>3, <1>4, <1>5, OpenFacts DEF OpenInv

\* Time only ends promises.
LEMMA TickKernel ==
    ASSUME IInv, KInv, Tick
    PROVE  KInv'
<1>1. /\ told' \subseteq told
      /\ UNCHANGED <<controlVars, worker, mutexVars, storeVars, kernelVars, lost>>
  BY DEF Tick
<1>2. TransactionInv'
  BY <1>1 DEF KInv, TransactionInv, NoStrays, Follow, Mapped, Unknown, Fakes, Leased
<1>3. OpenInv'
  BY <1>1 DEF KInv, OpenInv, NoStrays, Follow, Mapped, Unknown, Fakes, Leased
<1> QED BY <1>2, <1>3 DEF KInv

\* Every step keeps the kernel invariant.
LEMMA NextKInv == IInv /\ KInv /\ [Next]_vars => KInv'
<1> SUFFICES ASSUME IInv, KInv, [Next]_vars PROVE KInv'
  OBVIOUS
<1>1. CASE UNCHANGED vars
  <2>1. TransactionInv'
    BY <1>1 DEF vars, KInv, TransactionInv, NoStrays, Follow, Mapped, Unknown, Fakes, Leased
  <2>2. OpenInv'
    BY <1>1 DEF vars, KInv, OpenInv, NoStrays, Follow, Mapped, Unknown, Fakes, Leased
  <2> QED BY <2>1, <2>2 DEF KInv
<1>2. CASE \E w \in Workers : WorkerStep(w) \/ \E d \in Domains : Ask(w, d)
  BY <1>2, RequestKernel, LockStoreKernel, AllocateKernel, RewriteFailsKernel,
     InstallKernel, RollbackLeasesKernel DEF WorkerStep
<1>3. CASE PurgeExpired \/ CleanupStep
  BY <1>3, PurgeExpiredKernel, PurgeStoreKernel, PurgeReinstallKernel DEF CleanupStep
<1>4. CASE BeginUpdate \/ UpdateStep
  BY <1>4, BeginKernel, ApplyPolicyKernel, CommitPolicyKernel, SavePolicyKernel,
     ClearGuardKernel DEF UpdateStep
<1>5. CASE Start \/ Crash \/ PowerLoss \/ Tick
  BY <1>5, GuardedKernel, CrashKernel, TickKernel
<1> QED BY <1>1, <1>2, <1>3, <1>4, <1>5 DEF Next

\* The kernel and the leases keep to the kernel invariant in every reachable
\* state.
THEOREM KernelInvariant == Spec => [](IInv /\ KInv)
<1>1. Init => KInv
  BY DEF Init, KInv, OpenInv, TransactionInv
<1> QED BY <1>1, InitIInv, NextIInv, NextKInv, PTL DEF Spec

\* While traffic is forwarded every translated address leads to the host of its
\* lease on the route of the saved policy, and the kernel knows no other.
THEOREM ExactForwarding == Spec => []ForwardingIsExact
<1>1. ASSUME IInv, KInv
      PROVE  ForwardingIsExact
  <2> SUFFICES ASSUME ~guard
               PROVE  /\ \A f \in Pool : dnat[f] # NoReal =>
                            \E k \in Leased :
                               /\ leases[k].fake = f /\ k[2] = dnat[f]
                               /\ \A target \in Targets :
                                     <<f, target>> \in marks <=> target = saved.target[k]
                      /\ \A m \in marks : dnat[m[1]] # NoReal
    BY DEF ForwardingIsExact
  <2>1. ASSUME NEW f \in Pool, ~Unknown(f)
        PROVE  \E k \in Leased : leases[k].fake = f /\ Mapped(k, saved)
    <3>1. PICK k \in Leased : leases[k].fake = f
      BY <1>1, <2>1, OpenFacts DEF Fakes
    <3> QED BY <1>1, <2>1, <3>1, OpenFacts
  <2>2. \A f \in Pool : dnat[f] # NoReal =>
          \E k \in Leased :
             /\ leases[k].fake = f /\ k[2] = dnat[f]
             /\ \A target \in Targets : <<f, target>> \in marks <=> target = saved.target[k]
    BY <2>1 DEF Mapped, Unknown
  <2>3. ASSUME NEW m \in marks
        PROVE  dnat[m[1]] # NoReal
    <3>1. m[1] \in Pool /\ m[2] \in Targets /\ m = <<m[1], m[2]>>
      BY <1>1, <2>3 DEF IInv, TypeOK
    <3>2. ~Unknown(m[1])
      BY <2>3, <3>1 DEF Unknown
    <3>3. PICK k \in Leased : leases[k].fake = m[1] /\ Mapped(k, saved)
      BY <2>1, <3>1, <3>2
    <3>4. dnat[m[1]] = k[2] /\ k[2] \in Reals
      BY <3>3 DEF Mapped, Leased, Keys
    <3> QED BY <3>4, SentinelAssumption
  <2> QED BY <2>2, <2>3
<1> QED BY <1>1, KernelInvariant, PTL

\* While traffic is forwarded an address a client may use is translated to its
\* host, unless a rollback failed as well.
THEOREM ToldLead == Spec => []ToldFakesLead
<1>1. ASSUME IInv, KInv
      PROVE  ToldFakesLead
  <2>1. \A t \in told : leases[t.key].fake = t.fake
    BY <1>1 DEF IInv, LiveFakesAreKept
  <2> QED BY <1>1, <2>1 DEF KInv, OpenInv, ToldFakesLead, Mapped
<1> QED BY <1>1, KernelInvariant, PTL
=============================================================================
