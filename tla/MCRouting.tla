------------------------------ MODULE MCRouting ------------------------------
(* Routing and GeoIp for TLC.  Of Routing: one public address, one of         *)
(* LAN_RANGES, one of a subnet outside them, a public and a local name, and   *)
(* every sequence of at most MaxListed rules of a small pool.  Of GeoIp:      *)
(* addresses of three bits, all fifteen networks, lists of up to four.        *)
EXTENDS Routing, GeoIp

SE == INSTANCE SequencesExt

CONSTANTS Public, Private, Own, Site, Printer, MaxListed

MCNames == {Site, Printer}
MCLocalNames == {Printer}
MCAddresses == {Public, Private, Own}

Everywhere == MCAddresses \cup {Fake}

\* A rule of the pool with its kind.  The rules that never match are for WARP,
\* so that a look at a rule that should not count is seen.
Pool ==
    {[kind |-> "domain", rule |-> [enabled |-> TRUE, target |-> t, names |-> MCNames]] : t \in Targets}
    \cup {[kind |-> "domain", rule |-> [enabled |-> e, target |-> "warp", names |-> IF e THEN {} ELSE MCNames]]
            : e \in BOOLEAN}
    \cup {[kind |-> "ip", rule |-> [enabled |-> TRUE, target |-> t, geoip |-> FALSE, universal |-> FALSE,
                                    ips |-> {Public, Own}]] : t \in Targets}
    \cup {[kind |-> "ip", rule |-> [enabled |-> TRUE, target |-> t, geoip |-> TRUE, universal |-> FALSE,
                                    ips |-> Everywhere]] : t \in {"direct", "vpn"}}
    \cup {[kind |-> "ip", rule |-> [enabled |-> e, target |-> "warp", geoip |-> FALSE, universal |-> FALSE,
                                    ips |-> IF e THEN {Private} ELSE {Public}]] : e \in BOOLEAN}

Listed == UNION {[1 .. n -> Pool] : n \in 0 .. MaxListed}

Kept(s, k) == LET of(x) == x.kind = k IN SelectSeq(s, of)
Rules(s, k) == [i \in DOMAIN Kept(s, k) |-> Kept(s, k)[i].rule]

\* The rules are stored the other way round from the order that counts.
Before(s, i) == Cardinality({j \in 1 .. i : s[j].kind = s[i].kind})
Ordered(s, default) ==
    [mode |-> "rules", default |-> default,
     domain |-> SE!Reverse(Rules(s, "domain")), ip |-> SE!Reverse(Rules(s, "ip")),
     order |-> [i \in DOMAIN s |-> [kind |-> s[i].kind,
                                    index |-> Len(Kept(s, s[i].kind)) + 1 - Before(s, i)]]]

Unordered(s, mode, default) ==
    [mode |-> mode, default |-> default, domain |-> Rules(s, "domain"), ip |-> Rules(s, "ip"),
     order |-> NoOrder]

\* Refused: a CIDR rule for everything, and orders that repeat or drop a rule.
Universal == [kind |-> "ip", rule |-> [enabled |-> TRUE, target |-> "direct", geoip |-> FALSE,
                                       universal |-> TRUE, ips |-> Everywhere]]
Refused ==
    {Unordered(<<Universal>>, "rules", "vpn"),
     [Ordered(<<Universal>>, "vpn") EXCEPT !.order = <<>>],
     [Ordered(<<Universal, Universal>>, "vpn") EXCEPT !.order = <<IpRef(1), IpRef(1)>>]}

MCRequested ==
    {Ordered(s, d) : s \in Listed, d \in Targets}
    \cup {Unordered(s, m, d) : s \in {t \in Listed : Len(t) =< 2}, m \in {"all", "rules"}, d \in Targets}
    \cup Refused

-----------------------------------------------------------------------------
(* A list is compiled before there is a policy, and neither changes what the  *)
(* other has: a behaviour is one of Routing or, with the VPN off, one of      *)
(* GeoIp.                                                                     *)

ListsOnly == policy = NoName /\ ask = Idle
PolicyOnly == listed = <<>> /\ at = "read"

MCInit == Init /\ GeoInit /\ (listed = <<>> \/ egress = [enabled |-> FALSE, source |-> FALSE])

MCNext ==
    \/ PolicyOnly /\ Next /\ UNCHANGED geoVars
    \/ ListsOnly /\ GeoNext /\ UNCHANGED vars

MCSpec == MCInit /\ [][MCNext]_<<vars, geoVars>>
=============================================================================
