----------------------------- MODULE FakeDnsInv -----------------------------
(* The inductive invariant behind the FakeDns theorems. *)
EXTENDS FakeDns

\* Whoever works on the leases holds the mutex, is a request with its answer or
\* the cleanup, and runs under updates.read(), so beside no update.
LockInv ==
    /\ holder = Nobody <=> step = "none"
    /\ holder = Nobody => batch = {} /\ said = {}
    /\ holder \in Workers <=> step \in {"allocate", "rollback"}
    /\ holder \in Workers => worker[holder] # Idle /\ worker[holder].at = "answered"
    /\ upd \in Updating => NoReaders
    /\ agent = "off" => NoReaders
    /\ \A w \in Workers : worker[w] # Idle => worker[w].todo \cap LanReals = {}

\* The leases in the holder's hands: fresh ones nobody was told about, or ones
\* whose time is over.
BatchInv ==
    /\ batch \subseteq Leased /\ said \subseteq Leased
    /\ step \in {"allocate", "rollback"} => \A t \in told : t.key \notin batch
    /\ step \in {"remove", "reinstall"} => batch \subseteq Expired

\* Only promises that still run are remembered.
ToldInv == \A t \in told : t.until > now

IInv ==
    /\ TypeOK /\ LockInv /\ BatchInv /\ ToldInv
    /\ IsFiniteSet(Leased) /\ StoreIsCoherent /\ LiveFakesAreKept

-----------------------------------------------------------------------------
(* The kernel against the leases.                                          *)

\* The kernel leads the address of lease k to its host, on the route of p.
Mapped(k, p) ==
    /\ dnat[leases[k].fake] = k[2]
    /\ \A target \in Targets : <<leases[k].fake, target>> \in marks <=> target = p.target[k]

\* The kernel knows nothing of address f.
Unknown(f) == dnat[f] = NoReal /\ \A target \in Targets : <<f, target>> \notin marks

Follow(p) == \A k \in Leased : leases[k].target = p.target[k]

NoStrays == table /\ \A f \in Pool \ Fakes(Leased) : Unknown(f)

\* While traffic is forwarded no update runs, every request is classified with
\* the saved policy, and the kernel has every lease right or not at all: the
\* ones in the holder's hands not at all, the others right unless a rollback
\* failed or the agent died.
OpenInv ==
    ~guard =>
        /\ upd = "idle" /\ Follow(saved) /\ NoStrays
        /\ \A w \in Workers : worker[w] # Idle => worker[w].policy = saved
        /\ \A k \in Leased : Mapped(k, saved) \/ Unknown(leases[k].fake)
        /\ \A k \in batch : Unknown(leases[k].fake)
        /\ agent = "up" =>
              \A k \in Leased \ batch : leases[k].fake \in lost \/ Mapped(k, saved)
        /\ \A t \in told : t.fake \in lost \/ Mapped(t.key, saved)

\* After its apply step a transaction has all leases in the kernel under the
\* policy it is about to make, or has made, the active one.
TransactionInv ==
    /\ policy = saved
    /\ upd = "clear" => new = saved
    /\ upd \in {"commit", "save", "clear"} =>
          NoStrays /\ \A k \in Leased : Mapped(k, new)
    /\ upd \in {"bCommit", "bClear", "rCommit", "rClear"} =>
          NoStrays /\ \A k \in Leased : Mapped(k, saved)
    /\ upd \in {"save", "clear"} => Follow(new)
    /\ upd \in {"bClear", "rClear"} => Follow(saved)

KInv == OpenInv /\ TransactionInv
=============================================================================
