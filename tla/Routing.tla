------------------------------- MODULE Routing -------------------------------
(***************************************************************************)
(* From a routing configuration to the way a packet takes: the policy      *)
(* (routing.rs), the rules nftables gets for it (dataplane.rs), and the    *)
(* DNS lookup before the packet (fake_dns/resolver.rs).  The same ordered  *)
(* rules are read four times (for a name with an address, for an address,  *)
(* for a name whose address is not known yet, and as an nftables chain)    *)
(* and the four readings have to agree.                                    *)
(*                                                                         *)
(* A client asks for a name, gets an address, real or fake, and sends a    *)
(* packet there; or it sends to an address it knows.  What a matcher       *)
(* matches is a set of names or addresses.  The policy stays the same      *)
(* during a lookup: its replacement is the subject of FakeDns.             *)
(***************************************************************************)
EXTENDS Naturals, Sequences, FiniteSets

CONSTANTS
    Names, NoName,
    LocalNames,     \* names that the router's own resolver answers
    Addresses,      \* what a name may resolve to
    LanRanges,      \* LAN_RANGES
    Subnet,         \* the router's address and subnet, which may lie elsewhere
    Fake,           \* an address of the FakeDNS range
    NoAddress,
    NoOrder,        \* rule_order is None
    MaxRules,       \* MAX_RULES
    Requested       \* routing configurations that the file or the API may hold

Targets == {"block", "direct", "vpn", "warp"}
Rank(t) == CASE t = "block" -> 0 [] t = "direct" -> 1 [] t = "vpn" -> 2 [] t = "warp" -> 3

DomainRule == [enabled : BOOLEAN, target : Targets, names : SUBSET Names]

\* universal: a CIDR of prefix length 0.
IpRule == {r \in [enabled : BOOLEAN, target : Targets, geoip : BOOLEAN, universal : BOOLEAN,
                  ips : SUBSET (Addresses \cup {Fake})] :
             r.universal => ~r.geoip /\ r.ips = Addresses \cup {Fake}}

RuleRef == [kind : {"domain", "ip"}, index : Nat \ {0}]

RoutingConfig == [mode : {"all", "rules"}, default : Targets,
                  domain : Seq(DomainRule), ip : Seq(IpRule), order : {NoOrder} \cup Seq(RuleRef)]

ASSUME NamesAreApart == NoName \notin Names /\ LocalNames \subseteq Names
ASSUME AddressesAreApart == Fake \notin Addresses /\ NoAddress \notin Addresses \cup {Fake}
ASSUME LanIsReal == LanRanges \cup Subnet \subseteq Addresses
ASSUME RequestedType == Requested \subseteq RoutingConfig
ASSUME NoOrderIsFresh == NoOrder \notin Seq(RuleRef)

VARIABLES
    policy,     \* the compiled policy, or NoName before there is one
    egress,     \* VpnEgress: the VPN is on; there is a WARP source alias
    ask         \* a client's lookup and packet

vars == <<policy, egress, ask>>

Egress == [enabled : BOOLEAN, source : BOOLEAN]
Idle == [at |-> "off", name |-> NoName, via |-> "block", real |-> NoAddress,
         to |-> NoAddress, lease |-> "block", six |-> FALSE, mark |-> "block"]

TypeOK ==
    /\ egress \in Egress
    /\ ask \in [at : {"off", "idle", "asked", "answered", "sent"}, name : Names \cup {NoName},
                via : Targets, real : Addresses \cup {NoAddress},
                to : Addresses \cup {Fake, NoAddress}, lease : Targets,
                six : BOOLEAN, mark : Targets]
    /\ ask.at # "off" => policy \in RoutingConfig

-----------------------------------------------------------------------------
(* config.rs: the configurations that are accepted.                        *)

\* Each rule is named exactly once.
CompleteOrder(c) ==
    /\ Len(c.order) = Len(c.domain) + Len(c.ip)
    /\ \A i \in DOMAIN c.order :
         c.order[i].index \in IF c.order[i].kind = "domain" THEN DOMAIN c.domain ELSE DOMAIN c.ip
    /\ \A i, j \in DOMAIN c.order : c.order[i] = c.order[j] => i = j

\* normalize_routing.  A CIDR must not touch the FakeDNS range; a GeoIP list may.
Normalized(c) ==
    /\ Len(c.domain) =< MaxRules /\ Len(c.ip) =< MaxRules
    /\ c.order # NoOrder => CompleteOrder(c)
    /\ \A i \in DOMAIN c.ip : c.ip[i].geoip \/ Fake \notin c.ip[i].ips

-----------------------------------------------------------------------------
(* routing.rs RoutingPolicy.                                               *)

DomainRef(i) == [kind |-> "domain", index |-> i]
IpRef(i) == [kind |-> "ip", index |-> i]

\* rule_refs: without an order the domain rules come first.
RuleRefs(c) ==
    IF c.order # NoOrder THEN c.order
    ELSE [i \in 1 .. Len(c.domain) + Len(c.ip) |->
            IF i =< Len(c.domain) THEN DomainRef(i) ELSE IpRef(i - Len(c.domain))]

\* The rules that are looked at, as positions of rule_refs.
DomainRules(c) ==
    {i \in DOMAIN RuleRefs(c) : LET r == RuleRefs(c)[i]
                                IN  r.kind = "domain" /\ r.index \in DOMAIN c.domain
                                      /\ c.domain[r.index].enabled}

IpRules(c) ==
    {i \in DOMAIN RuleRefs(c) : LET r == RuleRefs(c)[i]
                                IN  r.kind = "ip" /\ r.index \in DOMAIN c.ip
                                      /\ c.ip[r.index].enabled}

DomainRuleAt(c, i) == c.domain[RuleRefs(c)[i].index]
IpRuleAt(c, i) == c.ip[RuleRefs(c)[i].index]
TargetAt(c, i) == IF i \in DomainRules(c) THEN DomainRuleAt(c, i).target ELSE IpRuleAt(c, i).target

\* matches_domain, matches_ip
DomainHits(c, n) == {i \in DomainRules(c) : n \in DomainRuleAt(c, i).names}
IpHits(c, x) == {i \in IpRules(c) : x \in IpRuleAt(c, i).ips}

First(S) == CHOOSE i \in S : \A j \in S : i =< j

EffectiveFallback(c) == IF c.mode = "all" THEN "vpn" ELSE c.default

\* "none" when no domain rule decides.
DomainTarget(c, n) ==
    IF c.mode = "all" \/ DomainHits(c, n) = {} THEN "none" ELSE TargetAt(c, First(DomainHits(c, n)))

IpTarget(c, x) ==
    IF x \in LanRanges THEN "direct"
    ELSE IF c.mode = "all" THEN "vpn"
    ELSE IF IpHits(c, x) # {} THEN TargetAt(c, First(IpHits(c, x)))
    ELSE EffectiveFallback(c)

Target(c, n, x) ==
    LET hits == DomainHits(c, n) \cup IpHits(c, x)
    IN  IF x \in LanRanges THEN "direct"
        ELSE IF c.mode = "all" THEN "vpn"
        ELSE IF hits # {} THEN TargetAt(c, First(hits))
        ELSE EffectiveFallback(c)

MostProtected(T) == CHOOSE t \in T : \A u \in T : Rank(u) =< Rank(t)

\* Mutant: a name that a domain rule decides has that rule's path.
DnsTargetByName(c, n) ==
    IF c.mode = "all" THEN "vpn"
    ELSE IF DomainHits(c, n) # {} THEN TargetAt(c, First(DomainHits(c, n)))
    ELSE MostProtected({"block", c.default} \cup {TargetAt(c, i) : i \in IpRules(c)})

\* dns_target: the address is not known yet, so every address rule up to the
\* first rule that surely matches is a possible outcome.
DnsTarget(c, n) ==
    LET stops == DomainHits(c, n) \cup {i \in IpRules(c) : IpRuleAt(c, i).universal}
        possible == {i \in IpRules(c) : stops = {} \/ i =< First(stops)}
        last == IF stops = {} THEN c.default ELSE TargetAt(c, First(stops))
    IN  IF c.mode = "all" THEN "vpn"
        ELSE MostProtected({"block", last} \cup {TargetAt(c, i) : i \in possible})

UsesWarp(c) ==
    /\ c.mode = "rules"
    /\ \/ c.default = "warp"
       \/ \E i \in DOMAIN c.domain : c.domain[i].enabled /\ c.domain[i].target = "warp"
       \/ \E i \in DOMAIN c.ip : c.ip[i].enabled /\ c.ip[i].target = "warp"

-----------------------------------------------------------------------------
(* dataplane.rs.                                                           *)

\* Mutant: a WARP rule without the VPN is an ordinary connection.
EffectiveTargetOpen(t, enabled) == IF t \in {"vpn", "warp"} /\ ~enabled THEN "direct" ELSE t

\* effective_target
EffectiveTarget(t, enabled) ==
    CASE t = "vpn" /\ ~enabled -> "direct"
      [] t = "warp" /\ ~enabled -> "block"
      [] OTHER -> t

\* VpnEgress::target
EgressTarget(e, t) == IF t = "warp" /\ ~e.source THEN "block" ELSE EffectiveTarget(t, e.enabled)

\* Mutant: the address rules come before the lease sets.
MarkRulesFirst(c, e, to, lease) ==
    IF to \in Subnet \cup LanRanges THEN "direct"
    ELSE IF to = Fake /\ IpHits(c, to) = {} THEN EgressTarget(e, lease)
    ELSE EgressTarget(e, IpTarget(c, to))

\* The chain gofro_mark for a packet from the LAN: the subnet, the lease sets,
\* the local ranges, the address rules in order, the rest.
Mark(c, e, to, lease) ==
    IF to \in Subnet THEN "direct"
    ELSE IF to = Fake THEN EgressTarget(e, lease)
    ELSE IF to \in LanRanges THEN "direct"
    ELSE IF c.mode # "all" /\ IpHits(c, to) # {}
         THEN EgressTarget(e, IpRuleAt(c, First(IpHits(c, to))).target)
    ELSE EgressTarget(e, EffectiveFallback(c))

\* Chain gofro_ipv6.
RejectsSix(c, e) == e.enabled \/ UsesWarp(c)

-----------------------------------------------------------------------------
(* A lookup and a packet.                                                  *)

\* config.rs load: what does not normalise is refused.
Load ==
    /\ ask.at = "off"
    /\ \E c \in Requested : Normalized(c) /\ policy' = c
    /\ ask' = [ask EXCEPT !.at = "idle"] /\ UNCHANGED egress

\* process up to upstream_route: "block" is the answer REFUSED.
Ask(n) ==
    /\ ask.at = "idle"
    /\ LET wanted == IF n \in LocalNames THEN "direct" ELSE DnsTarget(policy, n)
       IN  ask' = [ask EXCEPT !.at = "asked", !.name = n, !.via = EffectiveTarget(wanted, egress.enabled)]
    /\ UNCHANGED <<policy, egress>>

\* rewrite_response: the address of a name that a domain rule matches is
\* replaced by a lease, unless it is local.  A WARP lookup without an alias is
\* dropped by the chain gofro_dns_egress.
Answer(x) ==
    /\ ask.at = "asked" /\ ask.via # "block" /\ ~(ask.via = "warp" /\ ~egress.source)
    /\ LET decided == DomainTarget(policy, ask.name)
           fake == decided # "none" /\ x \notin LanRanges \cup Subnet
       IN  ask' = [ask EXCEPT !.at = "answered", !.real = x, !.to = IF fake THEN Fake ELSE x,
                              !.lease = IF fake THEN Target(policy, ask.name, x) ELSE "block",
                              !.six = ~egress.enabled /\ decided \notin {"block", "warp"}]
    /\ UNCHANGED <<policy, egress>>

\* A packet to the address in the answer, or to one the client knows.
Send ==
    /\ \/ ask.at = "answered"
          /\ ask' = [ask EXCEPT !.at = "sent", !.mark = Mark(policy, egress, ask.to, ask.lease)]
       \/ ask.at = "idle" /\ \E x \in Addresses :
            ask' = [ask EXCEPT !.at = "sent", !.real = x, !.to = x,
                               !.mark = Mark(policy, egress, x, "block")]
    /\ UNCHANGED <<policy, egress>>

\* The client is done.
Done == ask.at = "sent" /\ ask' = [Idle EXCEPT !.at = "idle"] /\ UNCHANGED <<policy, egress>>
GiveUp == ask.at = "asked" /\ ask' = [Idle EXCEPT !.at = "idle"] /\ UNCHANGED <<policy, egress>>

Init == policy = NoName /\ egress \in Egress /\ ask = Idle

Next ==
    \/ Load \/ Send \/ Done \/ GiveUp
    \/ \E n \in Names : Ask(n)
    \/ \E x \in Addresses : Answer(x)

Spec == Init /\ [][Next]_vars

-----------------------------------------------------------------------------
(* Properties.                                                             *)

\* TrafficFollowsPolicy: a packet is marked for the target that the policy has
\* for its name and real address, whether the answer was rewritten or not; one
\* without a name for the target of its address; one to the router's own subnet
\* never leaves it.
\* (RoutingPolicy::target, rewrite_records, render_with_exclusions)
TrafficFollowsPolicy ==
    TypeOK /\ (ask.at = "sent" =>
        ask.mark = IF ask.real \in Subnet THEN "direct"
                   ELSE IF ask.name = NoName THEN EgressTarget(egress, IpTarget(policy, ask.real))
                   ELSE EgressTarget(egress, Target(policy, ask.name, ask.real)))

\* NamesAreProtected: a name goes to a resolver on a path at least as protected
\* as the traffic to any public address it may turn out to have.
\* (dns_target: "Pick the most protected possible path")
NamesAreProtected ==
    ask.at = "asked" /\ ask.via # "block" /\ ask.name \notin LocalNames =>
        \A x \in Addresses \ (LanRanges \cup Subnet) :
            Rank(EgressTarget(egress, Target(policy, ask.name, x))) =< Rank(ask.via)

\* RefusedMeansBlocked: while the VPN is on, a name is refused only when every
\* public address it may have is blocked.  (upstream_route)
RefusedMeansBlocked ==
    ask.at = "asked" /\ ask.via = "block" /\ egress.enabled =>
        \A x \in Addresses \ (LanRanges \cup Subnet) : Target(policy, ask.name, x) = "block"

\* SixIsNoBypass: a name keeps its IPv6 addresses, and IPv6 is forwarded, only
\* if no public IPv4 address of the name would go through the VPN or WARP.
\* (uses_warp, chain gofro_ipv6, retain_ipv4_records)
SixIsNoBypass ==
    ask.at \in {"answered", "sent"} /\ ask.six /\ ~RejectsSix(policy, egress) =>
        \A x \in Addresses \ (LanRanges \cup Subnet) :
            /\ Target(policy, ask.name, x) # "warp"
            /\ EgressTarget(egress, Target(policy, ask.name, x)) \notin {"vpn", "warp"}

\* WarpIsNeverDowngraded: what the policy sends through WARP is sent there or
\* not at all, also while the VPN is off or has no alias: the packet, and the
\* lookup of a name that may turn out to have such an address.
\* (effective_target, VpnEgress::target, append_dns_egress_guard)
WarpIsNeverDowngraded ==
    /\ ask.at = "sent" /\ ask.name # NoName /\ ask.real \notin Subnet
         /\ Target(policy, ask.name, ask.real) = "warp" => ask.mark \in {"warp", "block"}
    /\ ask.at = "asked" /\ ask.name \notin LocalNames
         /\ (\E x \in Addresses \ (LanRanges \cup Subnet) : Target(policy, ask.name, x) = "warp")
       => ask.via \in {"warp", "block"}

\* LookupsAreSafe: a lookup leaves on a path protected enough, and is refused
\* only when the traffic would be.  (dns_target, upstream_route)
LookupsAreSafe == NamesAreProtected /\ RefusedMeansBlocked

\* NothingSlipsPast: neither IPv6 nor a missing VPN or alias is a way around the
\* policy.  (effective_target, uses_warp)
NothingSlipsPast == SixIsNoBypass /\ WarpIsNeverDowngraded
=============================================================================
