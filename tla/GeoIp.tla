-------------------------------- MODULE GeoIp --------------------------------
(***************************************************************************)
(* The networks of a GeoIP tag (geodata.rs, dataplane.rs): aggregate_ipv4  *)
(* sorts and merges them in place, matches_ip searches the result by       *)
(* bisection, select counts its intervals against the budget and           *)
(* append_networks writes the same intervals for nftables.                 *)
(*                                                                         *)
(* Addresses have Width bits; a network is its first address and its       *)
(* prefix length.  The vector keeps its length while it is rewritten, so a *)
(* write past the read position would be seen.  The three loops are steps  *)
(* of the specification, so that what they compute can be proved.          *)
(***************************************************************************)
EXTENDS Naturals, Sequences, FiniteSets

CONSTANTS
    Width,          \* 32 in the code
    MaxNetworks,    \* bound on the length of a list
    MaxIntervals    \* limits.geoip_intervals

ASSUME WidthIsPositive == Width \in Nat \ {0}
ASSUME NetworksAreBounded == MaxNetworks \in Nat /\ MaxIntervals \in Nat

\* The addresses of a network of that prefix length.
Size(len) == 2 ^ (Width - len)

\* What the proofs use of the powers of two, which their arithmetic lacks.
ASSUME SizesDouble ==
    /\ \A l \in 0 .. Width : Size(l) \in Nat
    /\ Size(Width) = 1 /\ \A l \in 1 .. Width : Size(l - 1) = 2 * Size(l)

Top == Size(0) - 1

Network == {n \in [addr : 0 .. Top, len : 0 .. Width] : n.addr % Size(n.len) = 0}

\* broadcast, contains and supernet of ipnet.
Broadcast(n) == n.addr + Size(n.len) - 1
Hosts(n) == n.addr .. Broadcast(n)
Contains(n, m) == n.len =< m.len /\ m.addr \in Hosts(n)
Supernet(n) == [addr |-> n.addr - (n.addr % Size(n.len - 1)), len |-> n.len - 1]

\* The order of Ipv4Net: the address, then the prefix length.
AtMost(n, m) == n.addr < m.addr \/ (n.addr = m.addr /\ n.len =< m.len)

\* The addresses of the networks at some positions of a list.
Covered(s, I) == UNION {Hosts(s[i]) : i \in I}

Interval == [from : 0 .. Top, to : 0 .. Top]

VARIABLES
    listed,     \* the networks as decode_ip read them, sorted
    networks,   \* the vector
    read,       \* the loop's index, from 0
    written,    \* how much of the vector is result
    network,    \* the network in hand
    ip,         \* the address matches_ip is asked for
    low, high,  \* what the bisection has left of the vector: low .. high - 1
    taken,      \* how many networks append_networks has taken
    interval,   \* the start and the end in hand
    elements,   \* what it has written
    at          \* "read", "merge" (aggregate_ipv4), "done", "search" (matches_ip),
                \* "append", "extend" (append_networks' two loops)

built == <<listed, networks, read, written, network>>
searched == <<ip, low, high>>
rendered == <<taken, interval, elements>>
geoVars == <<built, searched, rendered, at>>

GeoTypeOK ==
    /\ listed \in Seq(Network) /\ networks \in Seq(Network) /\ network \in Network
    /\ read \in 0 .. Len(listed) /\ written \in 0 .. Len(listed)
    /\ ip \in 0 .. Top /\ low \in 0 .. Len(listed) /\ high \in 0 .. Len(listed)
    /\ taken \in 0 .. Len(listed) /\ interval \in Interval /\ elements \in Seq(Interval)
    /\ at \in {"read", "merge", "done", "search", "append", "extend"}

-----------------------------------------------------------------------------
(* aggregate_ipv4.                                                         *)

Anywhere == [addr |-> 0, len |-> 0]

\* sort_unstable: equal networks cannot be told apart.
GeoInit ==
    /\ listed \in UNION {[1 .. n -> Network] : n \in 0 .. MaxNetworks}
    /\ \A i, j \in 1 .. Len(listed) : i < j => AtMost(listed[i], listed[j])
    /\ networks = listed /\ read = 0 /\ written = 0 /\ network = Anywhere /\ at = "read"
    /\ ip = 0 /\ low = 0 /\ high = 0
    /\ taken = 0 /\ interval = [from |-> 0, to |-> 0] /\ elements = <<>>

\* The head of the loop.  What the last result contains is skipped.
ReadNext ==
    /\ at = "read" /\ read < Len(networks)
    /\ LET next == networks[read + 1]
       IN  IF written > 0 /\ Contains(networks[written], next)
           THEN read' = read + 1 /\ UNCHANGED <<network, at>>
           ELSE network' = next /\ at' = "merge" /\ UNCHANGED read
    /\ UNCHANGED <<listed, networks, written, searched, rendered>>

\* Mutant: the lengths are not compared.
SiblingsAnyLength(previous, n) == n.len > 0 /\ Contains(Supernet(n), previous)

\* The two halves of a parent.
Siblings(previous, n) ==
    n.len > 0 /\ previous.len = n.len /\ Contains(Supernet(n), previous)

Merge ==
    /\ at = "merge" /\ written > 0 /\ Siblings(networks[written], network)
    /\ written' = written - 1 /\ network' = Supernet(network)
    /\ UNCHANGED <<listed, networks, read, searched, rendered, at>>

Place ==
    /\ at = "merge" /\ ~(written > 0 /\ Siblings(networks[written], network))
    /\ networks' = [networks EXCEPT ![written + 1] = network]
    /\ written' = written + 1 /\ read' = read + 1 /\ at' = "read"
    /\ UNCHANGED <<listed, network, searched, rendered>>

Truncate ==
    /\ at = "read" /\ read = Len(networks)
    /\ networks' = SubSeq(networks, 1, written) /\ at' = "done"
    /\ UNCHANGED <<listed, read, written, network, searched, rendered>>

-----------------------------------------------------------------------------
(* matches_ip.                                                             *)

Lookup(x) ==
    /\ at = "done" /\ at' = "search"
    /\ ip' = x /\ low' = 0 /\ high' = Len(networks)
    /\ UNCHANGED <<built, rendered>>

\* A step of partition_point.
Bisect ==
    /\ at = "search" /\ low < high
    /\ LET mid == (low + high) \div 2
       IN  IF networks[mid + 1].addr =< ip
           THEN low' = mid + 1 /\ UNCHANGED high
           ELSE high' = mid /\ UNCHANGED low
    /\ UNCHANGED <<built, ip, rendered, at>>

\* The answer, when low is the partition point.
MatchesIp == low > 0 /\ ip \in Hosts(networks[low])

Matched ==
    /\ at = "search" /\ low >= high /\ at' = "done"
    /\ UNCHANGED <<built, searched, rendered>>

-----------------------------------------------------------------------------
(* select and append_networks.                                             *)

SaturatingAdd(x, y) == IF x + y > Top THEN Top ELSE x + y

\* Mutant: neighbours that touch are two intervals.
GapAfterTouching(end, next) == next.addr > end

\* The test of both.
GapAfter(end, next) == next.addr > SaturatingAdd(end, 1)

\* The places where the first n networks leave a gap.
Gaps(s, n) == {i \in 1 .. n - 1 : GapAfter(Broadcast(s[i]), s[i + 1])}

\* select
IntervalCount(s) == (IF s = <<>> THEN 0 ELSE 1) + Cardinality(Gaps(s, Len(s)))

\* A tag within the budget is accepted.
Accepted(s) == IntervalCount(s) =< MaxIntervals

Render ==
    /\ at = "done" /\ at' = "append" /\ taken' = 0 /\ elements' = <<>>
    /\ UNCHANGED <<built, searched, interval>>

\* The outer loop.
TakeNetwork ==
    /\ at = "append" /\ taken < Len(networks)
    /\ LET next == networks[taken + 1]
       IN  interval' = [from |-> next.addr, to |-> Broadcast(next)]
    /\ taken' = taken + 1 /\ at' = "extend"
    /\ UNCHANGED <<built, searched, elements>>

\* The inner loop, over the networks that leave no gap.
Extend ==
    /\ at = "extend" /\ taken < Len(networks)
    /\ LET next == networks[taken + 1]
       IN  /\ ~GapAfter(interval.to, next)
           /\ interval' = [interval EXCEPT !.to =
                             IF Broadcast(next) > interval.to THEN Broadcast(next) ELSE interval.to]
    /\ taken' = taken + 1
    /\ UNCHANGED <<built, searched, elements, at>>

WriteElement ==
    /\ at = "extend"
    /\ taken < Len(networks) => GapAfter(interval.to, networks[taken + 1])
    /\ elements' = Append(elements, interval) /\ at' = "append"
    /\ UNCHANGED <<built, searched, taken, interval>>

Rendered ==
    /\ at = "append" /\ taken = Len(networks) /\ at' = "done"
    /\ UNCHANGED <<built, searched, rendered>>

GeoNext ==
    \/ ReadNext \/ Merge \/ Place \/ Truncate
    \/ \E x \in 0 .. Top : Lookup(x)
    \/ Bisect \/ Matched
    \/ Render \/ TakeNetwork \/ Extend \/ WriteElement \/ Rendered

GeoSpec == GeoInit /\ [][GeoNext]_geoVars

-----------------------------------------------------------------------------
(* Properties.                                                             *)

All == Covered(listed, 1 .. Len(listed))

\* NothingIsLost: at every step the result so far, the network in hand and the
\* unread rest together are the addresses of the list, and nothing unread is
\* overwritten.  (aggregate_ipv4 rewrites the vector that it reads)
NothingIsLost ==
    LET unread == (IF at = "merge" THEN read + 2 ELSE read + 1) .. Len(listed)
        hand == IF at = "merge" THEN Hosts(network) ELSE {}
    IN  at \in {"read", "merge"} =>
          /\ written =< read /\ Len(networks) = Len(listed)
          /\ \A i \in unread : networks[i] = listed[i]
          /\ Covered(networks, 1 .. written) \cup hand \cup Covered(listed, unread) = All

\* ResultIsSearchable: the result is sorted, disjoint and as short as it can
\* be, and the bisection finds exactly the addresses of the list.
\* ("Disjoint, sorted ranges make lookup logarithmic", matches_ip)
ResultIsSearchable ==
    /\ at \notin {"read", "merge"} =>
         \A i \in 1 .. Len(networks) - 1 :
           /\ Broadcast(networks[i]) < networks[i + 1].addr
           /\ ~Siblings(networks[i], networks[i + 1])
    /\ at = "search" /\ low >= high => (MatchesIp <=> ip \in All)

Complete == at = "append" /\ taken = Len(networks)

\* KernelGetsTheSame: nftables gets the addresses that matches_ip knows, in
\* intervals that do not touch, also at the last address there is.
\* (append_networks, saturating_add)
KernelGetsTheSame ==
    Complete =>
        /\ UNION {elements[i].from .. elements[i].to : i \in 1 .. Len(elements)} = All
        /\ \A i \in 1 .. Len(elements) - 1 : elements[i].to + 1 < elements[i + 1].from

\* BudgetCountsElements: a tag that select accepts never puts more elements
\* into the kernel than the profile allows, and one that it refuses would.
\* (limits.geoip_intervals)
BudgetCountsElements ==
    Complete => (Accepted(networks) <=> Len(elements) =< MaxIntervals)

\* AggregationIsExact: the vector that is rewritten while it is read loses no
\* address on the way and ends sorted, disjoint and shortest.
\* (aggregate_ipv4, matches_ip)
AggregationIsExact == GeoTypeOK /\ NothingIsLost /\ ResultIsSearchable

\* KernelAgrees: the kernel's intervals are the list, and the budget counts
\* exactly them.  (append_networks, select)
KernelAgrees == KernelGetsTheSame /\ BudgetCountsElements
=============================================================================
