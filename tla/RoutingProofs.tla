--------------------------- MODULE RoutingProofs ---------------------------
(***************************************************************************)
(* Proofs about Routing for all names, addresses and configurations: the   *)
(* four readings of the ordered rules agree, and no lookup leaves on a     *)
(* path less protected than the traffic that follows it.                   *)
(*                                                                         *)
(* And about GeoIp, the address lists that those rules name, for all       *)
(* widths and lists: the aggregation, the bisection and the intervals for  *)
(* the kernel hold the same addresses.                                     *)
(***************************************************************************)
EXTENDS Routing, GeoIp, NaturalsInduction, WellFoundedInduction, FiniteSetTheorems, TLAPS

-----------------------------------------------------------------------------
(* First and MostProtected.                                                *)

\* The first of a set of positions exists.
LEMMA FirstIsLeast ==
    ASSUME NEW S \in SUBSET Nat, S # {}
    PROVE  First(S) \in S /\ \A j \in S : First(S) =< j
<1> DEFINE R == {ss \in Nat \X Nat : ss[1] < ss[2]}
<1>1. IsWellFoundedOn(R, Nat)
  BY NatLessThanWellFounded DEF OpToRel
<1> HIDE DEF R
<1>2. PICK o \in S : \A p \in S : <<p, o>> \notin R
  BY <1>1, WFMin
<1>3. ASSUME NEW j \in S PROVE o =< j
  <2>1. o \in Nat /\ j \in Nat /\ <<j, o>> \notin R  BY <1>2
  <2> QED  BY <2>1 DEF R
<1>4. \E i \in S : \A j \in S : i =< j  BY <1>2, <1>3
<1> QED  BY <1>4 DEF First

\* The ranks order the targets, block lowest.
LEMMA Ranks ==
    /\ Rank("block") = 0 /\ Rank("direct") = 1 /\ Rank("vpn") = 2 /\ Rank("warp") = 3
    /\ \A t \in Targets : Rank(t) \in 0 .. 3
BY DEF Rank, Targets

\* The most protected of some targets is one of them and above the others.
LEMMA MostProtectedIsHighest ==
    ASSUME NEW T \in SUBSET Targets, T # {}
    PROVE  /\ MostProtected(T) \in T
           /\ \A u \in T : Rank(u) =< Rank(MostProtected(T))
<1>1. \E t \in T : \A u \in T : Rank(u) =< Rank(t)
  <2>1. CASE "warp" \in T    BY <2>1, Ranks
  <2>2. CASE "warp" \notin T /\ "vpn" \in T
    <3>1. \A u \in T : u \in {"block", "direct", "vpn"}  BY <2>2 DEF Targets
    <3> QED  BY <2>2, <3>1, Ranks
  <2>3. CASE "warp" \notin T /\ "vpn" \notin T /\ "direct" \in T
    <3>1. \A u \in T : u \in {"block", "direct"}  BY <2>3 DEF Targets
    <3> QED  BY <2>3, <3>1, Ranks
  <2>4. CASE "warp" \notin T /\ "vpn" \notin T /\ "direct" \notin T
    <3>1. \A u \in T : u = "block"  BY <2>4 DEF Targets
    <3> QED  BY <3>1, Ranks
  <2> QED  BY <2>1, <2>2, <2>3, <2>4
<1> QED  BY <1>1 DEF MostProtected

-----------------------------------------------------------------------------
(* The rules of a configuration.                                           *)

\* Positions of rule_refs are numbers.
LEMMA RulePositions ==
    ASSUME NEW c \in RoutingConfig
    PROVE  /\ DomainRules(c) \subseteq Nat /\ IpRules(c) \subseteq Nat
           /\ DomainRules(c) \cap IpRules(c) = {}
<1>1. DOMAIN RuleRefs(c) \subseteq Nat
  <2>1. CASE c.order = NoOrder
    <3> DEFINE d == Len(c.domain)
               p == Len(c.ip)
    <3>1. DOMAIN RuleRefs(c) = 1 .. d + p  BY <2>1 DEF RuleRefs
    <3>2. d \in Nat /\ p \in Nat  BY DEF RoutingConfig
    <3> HIDE DEF d, p
    <3> QED  BY <3>1, <3>2
  <2>2. CASE c.order # NoOrder
    <3>1. RuleRefs(c) \in Seq(RuleRef)  BY <2>2 DEF RuleRefs, RoutingConfig
    <3> QED  BY <3>1
  <2> QED  BY <2>1, <2>2
<1> QED  BY <1>1 DEF DomainRules, IpRules

\* A rule that is looked at is enabled and has a target.
LEMMA RuleTargets ==
    ASSUME NEW c \in RoutingConfig
    PROVE  /\ \A i \in DomainRules(c) :
                 /\ TargetAt(c, i) \in Targets
                 /\ \E k \in DOMAIN c.domain : c.domain[k].enabled /\ TargetAt(c, i) = c.domain[k].target
           /\ \A i \in IpRules(c) :
                 /\ TargetAt(c, i) = IpRuleAt(c, i).target /\ TargetAt(c, i) \in Targets
                 /\ \E k \in DOMAIN c.ip : c.ip[k].enabled /\ TargetAt(c, i) = c.ip[k].target
<1>1. ASSUME NEW i \in DomainRules(c)
      PROVE  /\ TargetAt(c, i) \in Targets
             /\ \E k \in DOMAIN c.domain : c.domain[k].enabled /\ TargetAt(c, i) = c.domain[k].target
  <2>1. RuleRefs(c)[i].index \in DOMAIN c.domain /\ c.domain[RuleRefs(c)[i].index].enabled
    BY DEF DomainRules
  <2>2. \A k \in DOMAIN c.domain : c.domain[k] \in DomainRule  BY DEF RoutingConfig
  <2>3. TargetAt(c, i) = c.domain[RuleRefs(c)[i].index].target  BY DEF TargetAt, DomainRuleAt
  <2> QED  BY <2>1, <2>2, <2>3 DEF DomainRule
<1>2. ASSUME NEW i \in IpRules(c)
      PROVE  /\ TargetAt(c, i) = IpRuleAt(c, i).target /\ TargetAt(c, i) \in Targets
             /\ \E k \in DOMAIN c.ip : c.ip[k].enabled /\ TargetAt(c, i) = c.ip[k].target
  <2>1. RuleRefs(c)[i].index \in DOMAIN c.ip /\ c.ip[RuleRefs(c)[i].index].enabled
    BY DEF IpRules
  <2>2. \A k \in DOMAIN c.ip : c.ip[k] \in IpRule  BY DEF RoutingConfig
  <2>3. i \notin DomainRules(c)  BY RulePositions
  <2>4. TargetAt(c, i) = c.ip[RuleRefs(c)[i].index].target  BY <2>3 DEF TargetAt, IpRuleAt
  <2> QED  BY <2>1, <2>2, <2>4 DEF IpRule, IpRuleAt
<1> QED  BY <1>1, <1>2

\* A rule for every address matches each of them.
LEMMA UniversalMatches ==
    ASSUME NEW c \in RoutingConfig, NEW x \in Addresses, NEW i \in IpRules(c), IpRuleAt(c, i).universal
    PROVE  i \in IpHits(c, x)
<1>1. RuleRefs(c)[i].index \in DOMAIN c.ip  BY DEF IpRules
<1>2. IpRuleAt(c, i) \in IpRule  BY <1>1 DEF RoutingConfig, IpRuleAt
<1> QED  BY <1>2 DEF IpHits, IpRule

\* What the first matching rule of any kind decides.
LEMMA TargetCases ==
    ASSUME NEW c \in RoutingConfig, NEW n \in Names, NEW x \in Addresses \ LanRanges, c.mode # "all"
    PROVE  LET hits == DomainHits(c, n) \cup IpHits(c, x)
           IN  /\ hits = {} => Target(c, n, x) = c.default
               /\ hits # {} => First(hits) \in hits /\ (\A j \in hits : First(hits) =< j)
                               /\ Target(c, n, x) = TargetAt(c, First(hits))
<1> DEFINE hits == DomainHits(c, n) \cup IpHits(c, x)
<1>1. hits \in SUBSET Nat  BY RulePositions DEF DomainHits, IpHits
<1>2. Target(c, n, x) = IF hits # {} THEN TargetAt(c, First(hits)) ELSE c.default
  BY DEF Target, EffectiveFallback
<1> HIDE DEF hits
<1>3. hits # {} => First(hits) \in hits /\ \A j \in hits : First(hits) =< j
  BY <1>1, FirstIsLeast
<1>4. /\ hits = {} => Target(c, n, x) = c.default
      /\ hits # {} => First(hits) \in hits /\ (\A j \in hits : First(hits) =< j)
                      /\ Target(c, n, x) = TargetAt(c, First(hits))
  BY <1>2, <1>3
<1> QED  BY <1>4 DEF hits

\* Targets are targets.
LEMMA TargetType ==
    ASSUME NEW c \in RoutingConfig, NEW n \in Names, NEW x \in Addresses
    PROVE  Target(c, n, x) \in Targets
<1>1. CASE x \in LanRanges  BY <1>1 DEF Target, Targets
<1>2. CASE x \notin LanRanges /\ c.mode = "all"  BY <1>2 DEF Target, Targets
<1>3. CASE x \notin LanRanges /\ c.mode # "all"
  <2> DEFINE hits == DomainHits(c, n) \cup IpHits(c, x)
  <2>1. /\ hits = {} => Target(c, n, x) = c.default
        /\ hits # {} => First(hits) \in hits /\ Target(c, n, x) = TargetAt(c, First(hits))
    BY <1>3, TargetCases
  <2>2. \A i \in hits : TargetAt(c, i) \in Targets  BY RuleTargets DEF DomainHits, IpHits
  <2>3. c.default \in Targets  BY DEF RoutingConfig
  <2> HIDE DEF hits
  <2> QED  BY <2>1, <2>2, <2>3
<1> QED  BY <1>1, <1>2, <1>3

\* dns_target covers every outcome: whatever public address the name turns out
\* to have, the target of its traffic is no more protected than the lookup's.
LEMMA DnsTargetCovers ==
    ASSUME NEW c \in RoutingConfig, NEW n \in Names
    PROVE  /\ DnsTarget(c, n) \in Targets
           /\ \A x \in Addresses \ LanRanges : Rank(Target(c, n, x)) =< Rank(DnsTarget(c, n))
<1>1. CASE c.mode = "all"
  <2>1. DnsTarget(c, n) = "vpn"  BY <1>1 DEF DnsTarget
  <2>2. \A x \in Addresses \ LanRanges : Target(c, n, x) = "vpn"  BY <1>1 DEF Target
  <2> QED  BY <2>1, <2>2, Ranks DEF Targets
<1>2. CASE c.mode # "all"
  <2> DEFINE universal == {i \in IpRules(c) : IpRuleAt(c, i).universal}
             stops == DomainHits(c, n) \cup universal
             possible == {i \in IpRules(c) : stops = {} \/ i =< First(stops)}
             last == IF stops = {} THEN c.default ELSE TargetAt(c, First(stops))
             T == {"block", last} \cup {TargetAt(c, i) : i \in possible}
  <2>1. DnsTarget(c, n) = MostProtected(T)  BY <1>2 DEF DnsTarget
  <2>2. stops \in SUBSET Nat  BY RulePositions DEF DomainHits
  <2>3. \A i \in stops : TargetAt(c, i) \in Targets  BY RuleTargets DEF DomainHits
  <2>4. \A i \in possible : TargetAt(c, i) \in Targets  BY RuleTargets
  <2>5. \A x \in Addresses : stops \subseteq DomainHits(c, n) \cup IpHits(c, x)
    BY UniversalMatches
  <2>6. \A x \in Addresses : \A i \in IpHits(c, x) : i \in IpRules(c)  BY DEF IpHits
  <2>7. \A i \in IpRules(c) : (stops = {} \/ i =< First(stops)) => i \in possible  OBVIOUS
  <2>8. \A i \in stops : i \in DomainHits(c, n) \/ i \in universal  OBVIOUS
  <2>9. \A x \in Addresses : universal \subseteq IpHits(c, x)  BY UniversalMatches
  <2>10. DomainHits(c, n) \subseteq stops  OBVIOUS
  <2> HIDE DEF stops, possible, universal
  <2>11. stops # {} => First(stops) \in stops /\ \A j \in stops : First(stops) =< j
    BY <2>2, FirstIsLeast
  <2>12. last \in Targets  BY <2>3, <2>11 DEF RoutingConfig
  <2>13. T \in SUBSET Targets /\ T # {}  BY <2>4, <2>12 DEF Targets
  <2>14. last \in T /\ \A i \in possible : TargetAt(c, i) \in T  OBVIOUS
  <2>15. (stops = {} => last = c.default) /\ (stops # {} => last = TargetAt(c, First(stops)))  OBVIOUS
  <2> HIDE DEF T, last
  <2>16. DnsTarget(c, n) \in T /\ \A u \in T : Rank(u) =< Rank(DnsTarget(c, n))
    BY <2>1, <2>13, MostProtectedIsHighest
  <2>17. ASSUME NEW x \in Addresses \ LanRanges PROVE Target(c, n, x) \in T
    <3> DEFINE hits == DomainHits(c, n) \cup IpHits(c, x)
    <3>1. /\ hits = {} => Target(c, n, x) = c.default
          /\ hits # {} => First(hits) \in hits /\ (\A j \in hits : First(hits) =< j)
                          /\ Target(c, n, x) = TargetAt(c, First(hits))
      BY <1>2, TargetCases
    <3>2. stops \subseteq hits  BY <2>5
    <3>3. CASE hits = {}
      BY <2>14, <2>15, <3>1, <3>2, <3>3
    <3>4. CASE hits # {} /\ First(hits) \in IpHits(c, x)
      <4>1. stops = {} \/ First(hits) =< First(stops)  BY <2>11, <3>1, <3>2, <3>4
      <4>2. First(hits) \in possible  BY <2>6, <2>7, <3>4, <4>1
      <4> QED  BY <2>14, <3>1, <3>4, <4>2
    <3>5. CASE hits # {} /\ First(hits) \in DomainHits(c, n)
      <4>1. First(hits) \in stops  BY <2>10, <3>5
      <4>2. First(stops) \in hits /\ First(stops) \in stops  BY <2>11, <3>2, <4>1
      <4>3. First(stops) =< First(hits) /\ First(hits) =< First(stops)
        <5> HIDE DEF hits
        <5> QED  BY <2>11, <3>1, <3>5, <4>1, <4>2
      <4>4. First(stops) = First(hits)
        <5>1. First(stops) \in Nat /\ First(hits) \in Nat  BY <2>2, <4>1, <4>2
        <5> QED  BY <4>3, <5>1
      <4> QED  BY <2>14, <2>15, <3>1, <3>5, <4>1, <4>4
    <3> QED  BY <3>1, <3>3, <3>4, <3>5
  <2> QED  BY <2>13, <2>16, <2>17
<1> QED  BY <1>1, <1>2

\* A configuration without WARP has no WARP target anywhere.
LEMMA NoWarpNoTarget ==
    ASSUME NEW c \in RoutingConfig, ~UsesWarp(c), NEW n \in Names, NEW x \in Addresses
    PROVE  Target(c, n, x) # "warp"
<1>1. CASE x \in LanRanges \/ c.mode = "all"  BY <1>1 DEF Target
<1>2. CASE x \notin LanRanges /\ c.mode # "all"
  <2> DEFINE hits == DomainHits(c, n) \cup IpHits(c, x)
  <2>1. /\ hits = {} => Target(c, n, x) = c.default
        /\ hits # {} => First(hits) \in hits /\ Target(c, n, x) = TargetAt(c, First(hits))
    BY <1>2, TargetCases
  <2>2. c.mode = "rules"  BY <1>2 DEF RoutingConfig
  <2>3. c.default # "warp"  BY <2>2 DEF UsesWarp
  <2>4. \A i \in DomainRules(c) : TargetAt(c, i) # "warp"  BY <2>2, RuleTargets DEF UsesWarp
  <2>5. \A i \in IpRules(c) : TargetAt(c, i) # "warp"  BY <2>2, RuleTargets DEF UsesWarp
  <2>6. \A i \in hits : TargetAt(c, i) # "warp"  BY <2>4, <2>5 DEF DomainHits, IpHits
  <2> HIDE DEF hits
  <2> QED  BY <2>1, <2>3, <2>6
<1> QED  BY <1>1, <1>2

-----------------------------------------------------------------------------
(* The data plane.                                                         *)

\* What becomes of a target on the way out.
LEMMA EgressTargets ==
    ASSUME NEW e \in Egress, NEW t \in Targets
    PROVE  /\ EffectiveTarget(t, e.enabled) \in Targets /\ EgressTarget(e, t) \in Targets
           /\ EgressTarget(e, "direct") = "direct"
           /\ t = "warp" => EgressTarget(e, t) \in {"warp", "block"}
                            /\ EffectiveTarget(t, e.enabled) \in {"warp", "block"}
           /\ ~e.enabled => EgressTarget(e, t) \notin {"vpn", "warp"}
           /\ e.enabled => EffectiveTarget(t, e.enabled) = t
BY DEF EgressTarget, EffectiveTarget, Targets, Egress

\* Taking protection away from a lookup takes it from the traffic as well.
LEMMA EgressIsMonotone ==
    ASSUME NEW e \in Egress, NEW t \in Targets, NEW d \in Targets, Rank(t) =< Rank(d),
           EffectiveTarget(d, e.enabled) # "block"
    PROVE  Rank(EgressTarget(e, t)) =< Rank(EffectiveTarget(d, e.enabled))
<1>1. e.enabled \in BOOLEAN  BY DEF Egress
<1>2. CASE e.enabled
  <2>1. EgressTarget(e, t) \in {t, "block"} /\ EffectiveTarget(d, e.enabled) = d
    BY <1>2 DEF EgressTarget, EffectiveTarget
  <2> QED  BY <2>1, Ranks
<1>3. CASE ~e.enabled
  <2>1. CASE d = "block" \/ d = "warp"  BY <1>3, <2>1 DEF EffectiveTarget
  <2>2. CASE d = "direct"
    <3>1. t \in {"block", "direct"}  BY <2>2, Ranks DEF Targets
    <3>2. EgressTarget(e, t) \in {"block", "direct"}  BY <3>1 DEF EgressTarget, EffectiveTarget
    <3>3. EffectiveTarget(d, e.enabled) = "direct"  BY <2>2 DEF EffectiveTarget
    <3> QED  BY <3>2, <3>3, Ranks
  <2>3. CASE d = "vpn"
    <3>1. EgressTarget(e, t) \in {"block", "direct"}  BY <1>3, EgressTargets DEF Targets
    <3>2. EffectiveTarget(d, e.enabled) = "direct"  BY <1>3, <2>3 DEF EffectiveTarget
    <3> QED  BY <3>1, <3>2, Ranks
  <2> QED  BY <2>1, <2>2, <2>3 DEF Targets
<1> QED  BY <1>1, <1>2, <1>3

\* The nftables chain reads the address rules as the policy does.
LEMMA MarkOfAddress ==
    ASSUME NEW c \in RoutingConfig, NEW e \in Egress, NEW x \in Addresses, NEW lease
    PROVE  Mark(c, e, x, lease) = IF x \in Subnet THEN "direct" ELSE EgressTarget(e, IpTarget(c, x))
<1>1. x # Fake  BY AddressesAreApart
<1>2. EgressTarget(e, "direct") = "direct"  BY EgressTargets DEF Targets
<1>3. CASE x \in Subnet \/ x \in LanRanges  BY <1>1, <1>2, <1>3 DEF Mark, IpTarget
<1>4. CASE x \notin Subnet /\ x \notin LanRanges /\ c.mode # "all" /\ IpHits(c, x) # {}
  <2>1. IpHits(c, x) \in SUBSET Nat  BY RulePositions DEF IpHits
  <2>2. First(IpHits(c, x)) \in IpHits(c, x)  BY <1>4, <2>1, FirstIsLeast
  <2>3. First(IpHits(c, x)) \in IpRules(c)  BY <2>2 DEF IpHits
  <2>4. TargetAt(c, First(IpHits(c, x))) = IpRuleAt(c, First(IpHits(c, x))).target  BY <2>3, RuleTargets
  <2> QED  BY <1>1, <1>4, <2>4 DEF Mark, IpTarget
<1>5. CASE x \notin Subnet /\ x \notin LanRanges /\ (c.mode = "all" \/ IpHits(c, x) = {})
  BY <1>1, <1>5 DEF Mark, IpTarget, EffectiveFallback
<1> QED  BY <1>3, <1>4, <1>5

\* A name that no domain rule decides has the target of its address.
LEMMA UndecidedName ==
    ASSUME NEW c \in RoutingConfig, NEW n \in Names, NEW x \in Addresses, DomainTarget(c, n) = "none"
    PROVE  Target(c, n, x) = IpTarget(c, x)
<1>1. c.mode = "all" \/ DomainHits(c, n) = {}
  <2> SUFFICES ASSUME c.mode # "all", DomainHits(c, n) # {} PROVE FALSE  OBVIOUS
  <2>1. DomainHits(c, n) \in SUBSET Nat  BY RulePositions DEF DomainHits
  <2>2. First(DomainHits(c, n)) \in DomainHits(c, n)  BY <2>1, FirstIsLeast
  <2>3. TargetAt(c, First(DomainHits(c, n))) \in Targets  BY <2>2, RuleTargets DEF DomainHits
  <2> QED  BY <2>3 DEF DomainTarget, Targets
<1> QED  BY <1>1 DEF Target, IpTarget

\* DomainTarget is a target or none.
LEMMA DomainTargetType ==
    ASSUME NEW c \in RoutingConfig, NEW n \in Names
    PROVE  DomainTarget(c, n) \in Targets \cup {"none"}
<1>1. CASE c.mode = "all" \/ DomainHits(c, n) = {}  BY <1>1 DEF DomainTarget
<1>2. CASE c.mode # "all" /\ DomainHits(c, n) # {}
  <2>1. DomainHits(c, n) \in SUBSET Nat  BY RulePositions DEF DomainHits
  <2>2. First(DomainHits(c, n)) \in DomainHits(c, n)  BY <1>2, <2>1, FirstIsLeast
  <2>3. TargetAt(c, First(DomainHits(c, n))) \in Targets  BY <2>2, RuleTargets DEF DomainHits
  <2> QED  BY <1>2, <2>3 DEF DomainTarget
<1> QED  BY <1>1, <1>2

-----------------------------------------------------------------------------
(* The inductive invariant: what a lookup knows at each of its points.     *)

\* The target that a name's lookup is made for.
Wanted(n) == IF n \in LocalNames THEN "direct" ELSE DnsTarget(policy, n)

Rewritten(n, x) == DomainTarget(policy, n) # "none" /\ x \notin LanRanges \cup Subnet

\* What the answer to a lookup of a name consists of.
AnswerInv ==
    /\ ask.name \in Names /\ ask.real \in Addresses
    /\ ask.to = IF Rewritten(ask.name, ask.real) THEN Fake ELSE ask.real
    /\ Rewritten(ask.name, ask.real) => ask.lease = Target(policy, ask.name, ask.real)

\* What the mark of the packet has to be.
MarkInv ==
    /\ ask.real \in Addresses
    /\ ask.mark = IF ask.real \in Subnet THEN "direct"
                  ELSE IF ask.name = NoName THEN EgressTarget(egress, IpTarget(policy, ask.real))
                  ELSE EgressTarget(egress, Target(policy, ask.name, ask.real))

IInv ==
    /\ TypeOK
    /\ ask.at \in {"off", "idle"} => ask.name = NoName
    /\ ask.at = "asked" => ask.name \in Names /\ ask.via = EffectiveTarget(Wanted(ask.name), egress.enabled)
    /\ ask.at = "answered" => AnswerInv
    /\ ask.at = "sent" => MarkInv
    /\ ask.six => ask.name \in Names

\* The packet to the address in an answer has the mark of the name's target.
LEMMA MarkOfAnswer ==
    ASSUME IInv, ask.at = "answered"
    PROVE  Mark(policy, egress, ask.to, ask.lease)
             = IF ask.real \in Subnet THEN "direct" ELSE EgressTarget(egress, Target(policy, ask.name, ask.real))
<1>1. policy \in RoutingConfig /\ egress \in Egress /\ AnswerInv  BY DEF IInv, TypeOK
<1>2. CASE Rewritten(ask.name, ask.real)
  <2>1. ask.to = Fake /\ ask.lease = Target(policy, ask.name, ask.real) /\ ask.real \notin Subnet
    BY <1>1, <1>2 DEF AnswerInv, Rewritten
  <2>2. Fake \notin Subnet  BY AddressesAreApart, LanIsReal
  <2> QED  BY <2>1, <2>2 DEF Mark
<1>3. CASE ~Rewritten(ask.name, ask.real)
  <2>1. ask.to = ask.real /\ ask.real \in Addresses /\ ask.name \in Names
    BY <1>1, <1>3 DEF AnswerInv
  <2>2. ask.real \in LanRanges \cup Subnet \/ DomainTarget(policy, ask.name) = "none"
    BY <1>3 DEF Rewritten
  <2>3. Mark(policy, egress, ask.to, ask.lease)
          = IF ask.real \in Subnet THEN "direct" ELSE EgressTarget(egress, IpTarget(policy, ask.real))
    BY <1>1, <2>1, MarkOfAddress
  <2>4. CASE ask.real \in Subnet  BY <2>3, <2>4
  <2>5. CASE ask.real \in LanRanges  BY <2>3, <2>5 DEF Target, IpTarget
  <2>6. CASE DomainTarget(policy, ask.name) = "none"
    <3>1. Target(policy, ask.name, ask.real) = IpTarget(policy, ask.real)  BY <1>1, <2>1, <2>6, UndecidedName
    <3> QED  BY <2>3, <3>1
  <2> QED  BY <2>2, <2>4, <2>5, <2>6
<1> QED  BY <1>2, <1>3

\* A packet's mark is a target.
LEMMA MarkType ==
    ASSUME NEW c \in RoutingConfig, NEW e \in Egress, NEW x \in Addresses \cup {Fake}, NEW t \in Targets
    PROVE  Mark(c, e, x, t) \in Targets
<1>1. CASE x = Fake
  <2>1. Fake \notin Subnet  BY AddressesAreApart, LanIsReal
  <2> QED  BY <1>1, <2>1, EgressTargets DEF Mark
<1>2. CASE x \in Addresses
  <2>1. IpTarget(c, x) \in Targets
    <3>1. CASE x \in LanRanges \/ c.mode = "all"  BY <3>1 DEF IpTarget, Targets
    <3>2. CASE x \notin LanRanges /\ c.mode # "all" /\ IpHits(c, x) = {}
      BY <3>2 DEF IpTarget, EffectiveFallback, RoutingConfig
    <3>3. CASE x \notin LanRanges /\ c.mode # "all" /\ IpHits(c, x) # {}
      <4>1. IpHits(c, x) \in SUBSET Nat  BY RulePositions DEF IpHits
      <4>2. First(IpHits(c, x)) \in IpHits(c, x)  BY <3>3, <4>1, FirstIsLeast
      <4>3. TargetAt(c, First(IpHits(c, x))) \in Targets  BY <4>2, RuleTargets DEF IpHits
      <4> QED  BY <3>3, <4>3 DEF IpTarget
    <3> QED  BY <3>1, <3>2, <3>3
  <2>2. EgressTarget(e, IpTarget(c, x)) \in Targets  BY <2>1, EgressTargets
  <2>3. Mark(c, e, x, t) = IF x \in Subnet THEN "direct" ELSE EgressTarget(e, IpTarget(c, x))
    BY <1>2, MarkOfAddress
  <2> QED  BY <2>2, <2>3 DEF Targets
<1> QED  BY <1>1, <1>2

-----------------------------------------------------------------------------
(* The steps.                                                              *)

Points == {"off", "idle", "asked", "answered", "sent"}

AskType == [at : Points, name : Names \cup {NoName}, via : Targets, real : Addresses \cup {NoAddress},
            to : Addresses \cup {Fake, NoAddress}, lease : Targets, six : BOOLEAN, mark : Targets]

\* Nobody asks before there is a policy, and Init has neither.
LEMMA InitInv == Init => IInv
<1> SUFFICES ASSUME Init PROVE IInv  OBVIOUS
<1>1. ask = Idle /\ egress \in Egress  BY DEF Init
<1>2. Idle \in AskType  BY DEF Idle, AskType, Points, Targets
<1>3. Idle.at = "off" /\ Idle.name = NoName /\ Idle.six = FALSE  BY DEF Idle
<1> QED  BY <1>1, <1>2, <1>3 DEF IInv, TypeOK, AskType, Points

\* A policy that normalises is loaded.
LEMMA LoadStep ==
    ASSUME IInv, Load PROVE IInv'
<1>1. ask \in AskType /\ egress \in Egress /\ ask.name = NoName /\ ~ask.six
  BY NamesAreApart DEF IInv, TypeOK, Load, AskType, Points
<1>2. policy' \in RoutingConfig  BY RequestedType DEF Load
<1>3. ask' = [ask EXCEPT !.at = "idle"] /\ egress' = egress  BY DEF Load
<1>4. ask' \in AskType /\ ask'.at = "idle" /\ ask'.name = NoName /\ ask'.six = ask.six
  BY <1>1, <1>3 DEF AskType, Points
<1> QED  BY <1>1, <1>2, <1>3, <1>4 DEF IInv, TypeOK, AskType, Points

\* A lookup leaves on the path that dns_target chose.
LEMMA AskStep ==
    ASSUME IInv, NEW n \in Names, Ask(n) PROVE IInv'
<1>1. ask \in AskType /\ egress \in Egress /\ policy \in RoutingConfig
  BY DEF IInv, TypeOK, Ask, AskType, Points
<1>2. policy' = policy /\ egress' = egress  BY DEF Ask
<1> DEFINE v == EffectiveTarget(Wanted(n), egress.enabled)
<1>3. ask' = [ask EXCEPT !.at = "asked", !.name = n, !.via = v]  BY DEF Ask, Wanted
<1>4. v \in Targets
  <2>1. Wanted(n) \in Targets  BY <1>1, DnsTargetCovers DEF Wanted, Targets
  <2> QED  BY <1>1, <2>1, EgressTargets
<1>5. v' = v  BY <1>2 DEF Wanted
<1> HIDE DEF v
<1>6. ask' \in AskType /\ ask'.at = "asked" /\ ask'.name = n /\ ask'.via = v
  BY <1>1, <1>3, <1>4 DEF AskType, Points
<1>7. TypeOK'  BY <1>1, <1>2, <1>6 DEF TypeOK, AskType, Points
<1>8. ask'.via = EffectiveTarget(Wanted(ask.name), egress.enabled)'
  BY <1>5, <1>6 DEF v
<1> QED  BY <1>6, <1>7, <1>8 DEF IInv

\* The address in the answer is real or stands for the target of the name.
LEMMA AnswerStep ==
    ASSUME IInv, NEW x \in Addresses, Answer(x) PROVE IInv'
<1>1. ask \in AskType /\ egress \in Egress /\ policy \in RoutingConfig /\ ask.name \in Names
  BY DEF IInv, TypeOK, Answer, AskType, Points
<1>2. policy' = policy /\ egress' = egress  BY DEF Answer
<1> DEFINE fake  == Rewritten(ask.name, x)
           to    == IF fake THEN Fake ELSE x
           lease == IF fake THEN Target(policy, ask.name, x) ELSE "block"
           six   == ~egress.enabled /\ DomainTarget(policy, ask.name) \notin {"block", "warp"}
<1>3. ask' = [ask EXCEPT !.at = "answered", !.real = x, !.to = to, !.lease = lease, !.six = six]
  BY DEF Answer, Rewritten
<1>4. to \in Addresses \cup {Fake, NoAddress} /\ lease \in Targets /\ six \in BOOLEAN
  BY <1>1, TargetType DEF Targets
<1>5. fake => lease = Target(policy, ask.name, x)  OBVIOUS
<1>6. to = IF fake THEN Fake ELSE x  OBVIOUS
<1> HIDE DEF to, lease, six
<1>7. /\ ask' \in AskType /\ ask'.at = "answered" /\ ask'.name = ask.name /\ ask'.real = x
      /\ ask'.to = to /\ ask'.lease = lease
  BY <1>1, <1>3, <1>4 DEF AskType, Points
<1>8. TypeOK'  BY <1>1, <1>2, <1>7 DEF TypeOK, AskType, Points
<1>9. AnswerInv'
  BY <1>1, <1>2, <1>5, <1>6, <1>7 DEF AnswerInv, Rewritten
<1> QED  BY <1>1, <1>7, <1>8, <1>9 DEF IInv

\* The packet gets the mark of the policy's target.
LEMMA SendStep ==
    ASSUME IInv, Send PROVE IInv'
<1>1. ask \in AskType /\ egress \in Egress /\ policy \in RoutingConfig
  BY DEF IInv, TypeOK, Send, AskType, Points
<1>2. policy' = policy /\ egress' = egress  BY DEF Send
<1>3. CASE /\ ask.at = "answered"
           /\ ask' = [ask EXCEPT !.at = "sent", !.mark = Mark(policy, egress, ask.to, ask.lease)]
  <2>1. AnswerInv  BY <1>3 DEF IInv
  <2> DEFINE m == Mark(policy, egress, ask.to, ask.lease)
  <2>2. m \in Targets
    <3>1. ask.to \in Addresses \cup {Fake} /\ ask.lease \in Targets  BY <1>1, <2>1 DEF AnswerInv, AskType
    <3> QED  BY <1>1, <3>1, MarkType
  <2>3. m = IF ask.real \in Subnet THEN "direct" ELSE EgressTarget(egress, Target(policy, ask.name, ask.real))
    BY <1>3, MarkOfAnswer
  <2>4. ask' = [ask EXCEPT !.at = "sent", !.mark = m]  BY <1>3
  <2> HIDE DEF m
  <2>5. /\ ask' \in AskType /\ ask'.at = "sent" /\ ask'.name = ask.name /\ ask'.real = ask.real
        /\ ask'.mark = m /\ ask'.six = ask.six
    BY <1>1, <2>2, <2>4 DEF AskType, Points
  <2>6. TypeOK'  BY <1>1, <1>2, <2>5 DEF TypeOK, AskType, Points
  <2>7. ask.name # NoName  BY <2>1, NamesAreApart DEF AnswerInv
  <2>8. MarkInv'  BY <1>2, <2>1, <2>3, <2>5, <2>7 DEF MarkInv, AnswerInv
  <2> QED  BY <2>1, <2>5, <2>6, <2>8 DEF IInv, AnswerInv
<1>4. ASSUME NEW x \in Addresses, ask.at = "idle",
             ask' = [ask EXCEPT !.at = "sent", !.real = x, !.to = x, !.mark = Mark(policy, egress, x, "block")]
      PROVE  IInv'
  <2> DEFINE m == Mark(policy, egress, x, "block")
  <2>1. m \in Targets  BY <1>1, MarkType DEF Targets
  <2>2. m = IF x \in Subnet THEN "direct" ELSE EgressTarget(egress, IpTarget(policy, x))
    BY <1>1, MarkOfAddress
  <2>3. ask' = [ask EXCEPT !.at = "sent", !.real = x, !.to = x, !.mark = m]  BY <1>4
  <2> HIDE DEF m
  <2>4. /\ ask' \in AskType /\ ask'.at = "sent" /\ ask'.name = ask.name /\ ask'.real = x
        /\ ask'.mark = m /\ ask'.six = ask.six
    BY <1>1, <2>1, <2>3 DEF AskType, Points
  <2>5. TypeOK'  BY <1>1, <1>2, <2>4 DEF TypeOK, AskType, Points
  <2>6. ask.name = NoName /\ (ask.six => ask.name \in Names)  BY <1>4 DEF IInv
  <2>7. MarkInv'  BY <1>2, <2>2, <2>4, <2>6 DEF MarkInv
  <2> QED  BY <2>4, <2>5, <2>6, <2>7 DEF IInv
<1> QED  BY <1>3, <1>4 DEF Send

\* A client that is done starts afresh.
LEMMA DoneStep ==
    ASSUME IInv, Done \/ GiveUp PROVE IInv'
<1>1. egress \in Egress /\ policy \in RoutingConfig
  BY DEF IInv, TypeOK, Done, GiveUp
<1>2. policy' = policy /\ egress' = egress /\ ask' = [Idle EXCEPT !.at = "idle"]  BY DEF Done, GiveUp
<1>3. ask' \in AskType /\ ask'.at = "idle" /\ ask'.name = NoName /\ ask'.six = FALSE
  BY <1>2 DEF Idle, AskType, Points, Targets
<1> QED  BY <1>1, <1>2, <1>3 DEF IInv, TypeOK, AskType, Points

\* Every step keeps the invariant.
LEMMA NextInv == IInv /\ [Next]_vars => IInv'
<1> SUFFICES ASSUME IInv, [Next]_vars PROVE IInv'  OBVIOUS
<1>1. CASE UNCHANGED vars
  BY <1>1 DEF vars, IInv, TypeOK, AnswerInv, MarkInv, Rewritten, Wanted
<1> QED  BY <1>1, LoadStep, AskStep, AnswerStep, SendStep, DoneStep DEF Next

-----------------------------------------------------------------------------
(* The theorems.                                                           *)

\* The inductive invariant holds in every state of Routing.
THEOREM RoutingInvariant == Spec => []IInv
BY InitInv, NextInv, PTL DEF Spec

\* Every packet is marked for the target that the ordered rules give its name
\* and its real address, through a FakeDNS lease or not.
THEOREM Traffic == Spec => []TrafficFollowsPolicy
<1>1. IInv => TrafficFollowsPolicy
  BY DEF IInv, MarkInv, TrafficFollowsPolicy
<1> QED  BY <1>1, RoutingInvariant, PTL

\* A lookup is at least as protected as the traffic to whatever public address
\* it finds, and refused only if that traffic is blocked.
THEOREM Lookups == Spec => []LookupsAreSafe
<1>1. ASSUME IInv PROVE NamesAreProtected
  <2> SUFFICES ASSUME ask.at = "asked", ask.via # "block", ask.name \notin LocalNames,
                      NEW x \in Addresses \ (LanRanges \cup Subnet)
               PROVE  Rank(EgressTarget(egress, Target(policy, ask.name, x))) =< Rank(ask.via)
    BY DEF NamesAreProtected
  <2>1. policy \in RoutingConfig /\ egress \in Egress /\ ask.name \in Names  BY <1>1 DEF IInv, TypeOK
  <2>2. ask.via = EffectiveTarget(DnsTarget(policy, ask.name), egress.enabled)  BY <1>1 DEF IInv, Wanted
  <2>3. /\ DnsTarget(policy, ask.name) \in Targets /\ Target(policy, ask.name, x) \in Targets
        /\ Rank(Target(policy, ask.name, x)) =< Rank(DnsTarget(policy, ask.name))
    BY <2>1, DnsTargetCovers, TargetType
  <2> QED  BY <2>1, <2>2, <2>3, EgressIsMonotone
<1>2. ASSUME IInv PROVE RefusedMeansBlocked
  <2> SUFFICES ASSUME ask.at = "asked", ask.via = "block", egress.enabled,
                      NEW x \in Addresses \ (LanRanges \cup Subnet)
               PROVE  Target(policy, ask.name, x) = "block"
    BY DEF RefusedMeansBlocked
  <2>1. policy \in RoutingConfig /\ egress \in Egress /\ ask.name \in Names  BY <1>2 DEF IInv, TypeOK
  <2>2. Wanted(ask.name) \in Targets  BY <2>1, DnsTargetCovers DEF Wanted, Targets
  <2>3. Wanted(ask.name) = "block"  BY <1>2, <2>1, <2>2, EgressTargets DEF IInv
  <2>4. DnsTarget(policy, ask.name) = "block"  BY <2>3 DEF Wanted
  <2>5. Target(policy, ask.name, x) \in Targets /\ Rank(Target(policy, ask.name, x)) =< 0
    BY <2>1, <2>4, DnsTargetCovers, TargetType, Ranks
  <2> QED  BY <2>5, Ranks DEF Targets
<1>3. IInv => LookupsAreSafe  BY <1>1, <1>2 DEF LookupsAreSafe
<1> QED  BY <1>3, RoutingInvariant, PTL

\* Neither IPv6 nor a missing VPN or alias is a way around the policy.
THEOREM NoWayAround == Spec => []NothingSlipsPast
<1>1. ASSUME IInv PROVE SixIsNoBypass
  <2> SUFFICES ASSUME ask.at \in {"answered", "sent"}, ask.six, ~RejectsSix(policy, egress),
                      NEW x \in Addresses \ (LanRanges \cup Subnet)
               PROVE  /\ Target(policy, ask.name, x) # "warp"
                      /\ EgressTarget(egress, Target(policy, ask.name, x)) \notin {"vpn", "warp"}
    BY DEF SixIsNoBypass
  <2>1. policy \in RoutingConfig /\ egress \in Egress /\ ask.name \in Names  BY <1>1 DEF IInv, TypeOK
  <2>2. ~egress.enabled /\ ~UsesWarp(policy)  BY DEF RejectsSix
  <2>3. Target(policy, ask.name, x) # "warp"  BY <2>1, <2>2, NoWarpNoTarget
  <2>4. Target(policy, ask.name, x) \in Targets  BY <2>1, TargetType
  <2> QED  BY <2>1, <2>2, <2>3, <2>4, EgressTargets
<1>2. ASSUME IInv PROVE WarpIsNeverDowngraded
  <2>1. ask.at \in {"asked", "sent"} => policy \in RoutingConfig /\ egress \in Egress
    BY <1>2 DEF IInv, TypeOK
  <2>2. ASSUME ask.at = "sent", ask.name # NoName, ask.real \notin Subnet,
               Target(policy, ask.name, ask.real) = "warp"
        PROVE  ask.mark \in {"warp", "block"}
    <3>1. ask.mark = EgressTarget(egress, "warp")  BY <1>2, <2>2 DEF IInv, MarkInv
    <3> QED  BY <2>1, <2>2, <3>1, EgressTargets DEF Targets
  <2>3. ASSUME ask.at = "asked", ask.name \notin LocalNames,
               NEW x \in Addresses \ (LanRanges \cup Subnet), Target(policy, ask.name, x) = "warp"
        PROVE  ask.via \in {"warp", "block"}
    <3>1. ask.name \in Names  BY <1>2, <2>3 DEF IInv
    <3>2. DnsTarget(policy, ask.name) \in Targets /\ 3 =< Rank(DnsTarget(policy, ask.name))
      BY <2>1, <2>3, <3>1, DnsTargetCovers, Ranks
    <3>3. DnsTarget(policy, ask.name) = "warp"  BY <3>2, Ranks DEF Targets
    <3>4. ask.via = EffectiveTarget("warp", egress.enabled)  BY <1>2, <2>3, <3>3 DEF IInv, Wanted
    <3> QED  BY <2>1, <2>3, <3>4, EgressTargets DEF Targets
  <2> QED  BY <2>2, <2>3 DEF WarpIsNeverDowngraded
<1>3. IInv => NothingSlipsPast  BY <1>1, <1>2 DEF NothingSlipsPast
<1> QED  BY <1>3, RoutingInvariant, PTL

-----------------------------------------------------------------------------
(* GeoIp: the arithmetic of networks.                                      *)

\* Division with remainder.
LEMMA Division ==
    ASSUME NEW a \in Nat, NEW s \in Nat, s > 0
    PROVE  /\ a % s \in 0 .. s - 1 /\ a \div s \in Nat
           /\ a = (s * (a \div s)) + (a % s)
<1>1. a % s \in 0 .. s - 1  OBVIOUS
<1>2. a \div s \in Int /\ a \div s >= 0  OBVIOUS
<1>3. a = (s * (a \div s)) + (a % s)  OBVIOUS
<1> QED  BY <1>1, <1>2, <1>3

\* What leaves no remainder is a multiple, and conversely.
LEMMA AMultiple ==
    ASSUME NEW s \in Nat, s > 0
    PROVE  /\ \A a \in Nat : a % s = 0 => \E x \in Nat : a = s * x
           /\ \A x \in Nat : (s * x) % s = 0
<1>1. ASSUME NEW a \in Nat, a % s = 0 PROVE \E x \in Nat : a = s * x
  <2>1. a \div s \in Nat /\ a = (s * (a \div s)) + (a % s)  BY Division
  <2>2. s * (a \div s) \in Int  BY <2>1
  <2>3. a = s * (a \div s)  BY <2>1, <2>2, <1>1
  <2> QED  BY <2>1, <2>3
<1>2. ASSUME NEW x \in Nat PROVE (s * x) % s = 0  OBVIOUS
<1> QED  BY <1>1, <1>2

\* Two multiples that differ, differ by the whole size.
LEMMA MultiplesApart ==
    ASSUME NEW a \in Nat, NEW b \in Nat, NEW s \in Nat, s > 0,
           a % s = 0, b % s = 0, a < b
    PROVE  a + s =< b
<1> DEFINE x == a \div s
           y == b \div s
<1>1. a = s * x /\ b = s * y /\ x \in Nat /\ y \in Nat  BY Division
<1> HIDE DEF x, y
<1>2. x < y  BY <1>1
<1>3. (s * x) + s =< s * y  BY <1>1, <1>2
<1> QED  BY <1>1, <1>3

\* Multiples of a multiple are multiples.
LEMMA MultipleOfMultiple ==
    ASSUME NEW a \in Nat, NEW s \in Nat, NEW t \in Nat, NEW k \in Nat,
           s > 0, t > 0, t = k * s, a % t = 0
    PROVE  a % s = 0
<1> DEFINE x == a \div t
<1>1. a = t * x /\ x \in Nat  BY Division
<1> HIDE DEF x
<1>2. a = s * (k * x)  BY <1>1
<1>3. k * x \in Int  BY <1>1
<1> DEFINE y == k * x
<1> HIDE DEF y
<1>4. (s * y) % s = 0  BY <1>3 DEF y
<1> QED  BY <1>2, <1>4 DEF y

\* A larger network is a multiple of a smaller one.
LEMMA SizesDivide ==
    ASSUME NEW m \in 0 .. Width, NEW l \in 0 .. m
    PROVE  \E k \in Nat : k > 0 /\ Size(l) = k * Size(m)
<1> DEFINE P(d) == \E k \in Nat : k > 0 /\ Size(m - d) = k * Size(m)
           B == {d \in 0 .. m : ~P(d)}
<1>1. m \in Nat /\ Width \in Nat  BY WidthIsPositive
<1>2. ASSUME B # {} PROVE FALSE
  <2>1. B \in SUBSET Nat  BY <1>1
  <2> DEFINE d == First(B)
  <2>2. d \in B /\ \A j \in B : d =< j  BY <2>1, <1>2, FirstIsLeast
  <2> HIDE DEF d
  <2>3. d \in 0 .. m /\ ~P(d) /\ Size(m) \in Nat  BY <2>2, <1>1, SizesDouble
  <2>4. CASE d = 0
    <3>1. Size(m - d) = 1 * Size(m)  BY <2>3, <2>4, <1>1
    <3> QED  BY <3>1, <2>3
  <2>5. CASE d > 0
    <3>0. d - 1 \in 0 .. m /\ ~(d =< d - 1)  BY <2>3, <2>5, <1>1
    <3>1. d - 1 \in 0 .. m /\ d - 1 \notin B  BY <2>2, <3>0
    <3>2. PICK k \in Nat : k > 0 /\ Size(m - (d - 1)) = k * Size(m)  BY <3>1
    <3>3. m - (d - 1) \in 1 .. Width /\ (m - (d - 1)) - 1 = m - d  BY <2>3, <2>5, <1>1
    <3>4. Size(m - d) = 2 * Size(m - (d - 1))  BY <3>3, SizesDouble
    <3>5. Size(m - d) = (2 * k) * Size(m)  BY <3>2, <3>4, <2>3
    <3>6. 2 * k \in Nat /\ 2 * k > 0  BY <3>2
    <3> QED  BY <3>5, <3>6, <2>3
  <2> QED  BY <2>3, <2>4, <2>5, <1>1
<1>3. m - l \in 0 .. m /\ m - (m - l) = l  BY <1>1
<1>4. P(m - l)  BY <1>2, <1>3
<1> QED  BY <1>3, <1>4

\* No network is empty, and a smaller prefix has no fewer addresses.
LEMMA SizesArePositive ==
    /\ \A l \in 0 .. Width : Size(l) \in Nat /\ Size(l) > 0
    /\ \A m \in 0 .. Width : \A l \in 0 .. m : Size(m) =< Size(l)
    /\ Top \in Nat /\ Width \in Nat
<1>1. Width \in Nat /\ Width > 0  BY WidthIsPositive
<1>2. ASSUME NEW l \in 0 .. Width PROVE Size(l) \in Nat /\ Size(l) > 0
  <2>1. Width \in 0 .. Width /\ l \in 0 .. Width  BY <1>1
  <2>2. PICK k \in Nat : k > 0 /\ Size(l) = k * Size(Width)  BY <2>1, SizesDivide
  <2>3. Size(Width) = 1  BY SizesDouble
  <2> QED  BY <2>2, <2>3
<1>3. ASSUME NEW m \in 0 .. Width, NEW l \in 0 .. m PROVE Size(m) =< Size(l)
  <2>1. PICK k \in Nat : k > 0 /\ Size(l) = k * Size(m)  BY SizesDivide
  <2>2. Size(m) \in Nat /\ Size(m) > 0  BY <1>2
  <2> QED  BY <2>1, <2>2
<1>4. 0 \in 0 .. Width  BY <1>1
<1>5. Top \in Nat  BY <1>2, <1>4 DEF Top
<1> QED  BY <1>1, <1>2, <1>3, <1>5

\* The parts of a network.
LEMMA NetworkFields ==
    ASSUME NEW n \in Network
    PROVE  /\ n.addr \in 0 .. Top /\ n.addr \in Nat /\ n.len \in 0 .. Width /\ n.len \in Nat
           /\ Size(n.len) \in Nat /\ Size(n.len) > 0 /\ n.addr % Size(n.len) = 0
           /\ n = [addr |-> n.addr, len |-> n.len]
<1>1. n \in [addr : 0 .. Top, len : 0 .. Width] /\ n.addr % Size(n.len) = 0  BY DEF Network
<1> QED  BY <1>1, SizesArePositive

\* A network ends within the addresses there are.
LEMMA NetworkEnds ==
    ASSUME NEW n \in Network
    PROVE  Broadcast(n) \in 0 .. Top /\ n.addr =< Broadcast(n)
<1> DEFINE s == Size(n.len)
<1>1. n.addr \in 0 .. Top /\ n.addr \in Nat /\ s \in Nat /\ s > 0 /\ n.addr % s = 0 /\ n.len \in 0 .. Width
  BY NetworkFields
<1>2. Width \in Nat /\ 0 \in 0 .. Width /\ 0 \in 0 .. n.len  BY <1>1, SizesArePositive
<1>3. PICK k \in Nat : k > 0 /\ Size(0) = k * s  BY <1>1, <1>2, SizesDivide
<1>4. Size(0) \in Nat /\ Size(0) > 0 /\ n.addr < Size(0)
  BY <1>1, <1>2, SizesArePositive DEF Top
<1> HIDE DEF s
<1>5. Size(0) % s = 0
  <2>1. (s * k) % s = 0  BY <1>1
  <2>2. k * s = s * k  BY <1>1
  <2> QED  BY <1>3, <2>1, <2>2
<1>6. n.addr + s =< Size(0)  BY <1>1, <1>4, <1>5, MultiplesApart
<1>7. Broadcast(n) = n.addr + s - 1  BY DEF Broadcast, s
<1>8. Top = Size(0) - 1  BY DEF Top
<1> QED  BY <1>1, <1>4, <1>6, <1>7, <1>8

\* Two networks are nested or apart: the smaller one whose first address lies
\* in the larger one lies in it whole.
LEMMA Nested ==
    ASSUME NEW n \in Network, NEW m \in Network, Contains(n, m)
    PROVE  Hosts(m) \subseteq Hosts(n)
<1> DEFINE s == Size(n.len)
           t == Size(m.len)
           e == n.addr + s
<1>1. n.addr \in Nat /\ m.addr \in Nat /\ s \in Nat /\ s > 0 /\ t \in Nat /\ t > 0
      /\ n.addr % s = 0 /\ m.addr % t = 0 /\ n.len \in 0 .. Width /\ m.len \in 0 .. Width
      /\ n.len \in Nat /\ m.len \in Nat
  BY NetworkFields
<1>2. n.len =< m.len /\ n.addr =< m.addr /\ m.addr =< n.addr + s - 1
  BY <1>1 DEF Contains, Hosts, Broadcast
<1>3. PICK k \in Nat : k > 0 /\ s = k * t
  BY <1>1, <1>2, SizesDivide
<1> HIDE DEF s, t, e
<1>4. e \in Nat /\ e % s = 0 /\ m.addr < e
  <2>1. PICK x \in Nat : n.addr = s * x
    BY <1>1, AMultiple
  <2>2. n.addr + s = s * (x + 1)  BY <2>1, <1>1
  <2>3. (s * (x + 1)) % s = 0
    <3> DEFINE y == x + 1
    <3>1. y \in Int  BY <2>1
    <3> HIDE DEF y
    <3>2. (s * y) % s = 0  BY <3>1, <1>1
    <3> QED  BY <3>2 DEF y
  <2>4. e = n.addr + s  BY DEF e
  <2> QED  BY <1>1, <1>2, <2>2, <2>3, <2>4
<1>5. e % t = 0  BY <1>1, <1>3, <1>4, MultipleOfMultiple
<1>6. m.addr + t =< e  BY <1>1, <1>4, <1>5, MultiplesApart
<1>7. Broadcast(m) = m.addr + t - 1 /\ Broadcast(n) = n.addr + s - 1 /\ e = n.addr + s
  BY DEF Broadcast, s, t, e
<1> QED  BY <1>1, <1>2, <1>6, <1>7 DEF Hosts

\* A larger network that begins in a smaller one begins where it begins.
LEMMA BeginsTogether ==
    ASSUME NEW n \in Network, NEW m \in Network, m.addr \in Hosts(n), m.len < n.len
    PROVE  m.addr = n.addr
<1> DEFINE s == Size(n.len)
           t == Size(m.len)
<1>1. n.addr \in Nat /\ m.addr \in Nat /\ s \in Nat /\ s > 0 /\ t \in Nat /\ t > 0
      /\ n.addr % s = 0 /\ m.addr % t = 0 /\ n.len \in 0 .. Width /\ m.len \in 0 .. Width
      /\ n.len \in Nat /\ m.len \in Nat
  BY NetworkFields
<1>2. n.addr =< m.addr /\ m.addr =< n.addr + s - 1  BY <1>1 DEF Hosts, Broadcast
<1>3. PICK k \in Nat : k > 0 /\ t = k * s  BY <1>1, SizesDivide
<1> HIDE DEF s, t
<1>4. m.addr % s = 0  BY <1>1, <1>3, MultipleOfMultiple
<1>5. ASSUME n.addr < m.addr PROVE FALSE
  <2>1. n.addr + s =< m.addr  BY <1>1, <1>4, <1>5, MultiplesApart
  <2> QED  BY <1>1, <1>2, <2>1
<1> QED  BY <1>1, <1>2, <1>5

\* The siblings that aggregate_ipv4 merges are the two halves of their parent.
LEMMA Halves ==
    ASSUME NEW p \in Network, NEW n \in Network, Siblings(p, n), p.addr < n.addr
    PROVE  /\ Supernet(n) \in Network
           /\ Supernet(n).addr = p.addr /\ Supernet(n).len = p.len - 1
           /\ Hosts(Supernet(n)) = Hosts(p) \cup Hosts(n)
<1> DEFINE s == Size(n.len)
           S == Size(n.len - 1)
           base == n.addr - (n.addr % S)
           rem == n.addr % S
           a == n.addr
           b == p.addr
<1>1. /\ a \in Nat /\ b \in Nat /\ s \in Nat /\ s > 0 /\ a % s = 0 /\ b % s = 0
      /\ n.len \in 1 .. Width /\ p.len = n.len /\ n.len - 1 \in 0 .. Width /\ b \in 0 .. Top
  <2>1. n.len > 0 /\ p.len = n.len  BY DEF Siblings
  <2> QED  BY <2>1, NetworkFields, SizesArePositive
<1>2. S = 2 * s /\ S \in Nat /\ S > 0  BY <1>1, SizesDouble
<1>3. Supernet(n) = [addr |-> base, len |-> n.len - 1]  BY DEF Supernet
<1>4. Supernet(n).addr = base /\ Supernet(n).len = n.len - 1  BY <1>3
<1>5. base =< b /\ b =< base + S - 1
  <2>1. b \in base .. base + S - 1  BY <1>4 DEF Siblings, Contains, Hosts, Broadcast
  <2>2. base \in Int /\ base + S - 1 \in Int
    BY <1>1, <1>2
  <2> QED  BY <2>1, <2>2, <1>1
<1>6. rem \in 0 .. S - 1 /\ base = a - rem  BY <1>1, <1>2, Division
<1>7. base \in Nat /\ base % S = 0
  <2>1. a \div S \in Nat /\ a = (S * (a \div S)) + rem  BY <1>1, <1>2, Division
  <2> DEFINE x == a \div S
  <2> HIDE DEF x, rem, base, S, a
  <2>2. x \in Nat /\ a = (S * x) + rem  BY <2>1 DEF x
  <2>3. (S * x) \in Nat  BY <2>2, <1>2
  <2>4. base = S * x  BY <2>2, <2>3, <1>6, <1>1
  <2>5. (S * x) % S = 0  BY <2>2, <1>2, AMultiple
  <2> QED  BY <2>3, <2>4, <2>5
<1> HIDE DEF s, S, base, rem, a, b
<1>8. base % s = 0
  <2>1. 2 \in Nat  OBVIOUS
  <2> QED  BY <2>1, <1>1, <1>2, <1>7, MultipleOfMultiple
<1>9. b < a  BY DEF a, b
<1>10. b + s =< a  BY <1>1, <1>9, MultiplesApart
<1>11. a =< base + S - 1  BY <1>6, <1>1, <1>2, <1>7
<1>12. b = base
  <2>1. ASSUME base < b PROVE FALSE
    <3>1. base + s =< b  BY <1>1, <1>7, <1>8, <2>1, MultiplesApart
    <3> QED  BY <3>1, <1>1, <1>2, <1>7, <1>10, <1>11
  <2> QED  BY <2>1, <1>1, <1>5, <1>7
<1>13. a = base + s
  <2> DEFINE c == base + s
  <2>1. c \in Nat /\ c =< a  BY <1>1, <1>7, <1>10, <1>12
  <2>2. c % s = 0
    <3>1. PICK x \in Nat : base = s * x  BY <1>1, <1>7, <1>8, AMultiple
    <3> DEFINE y == x + 1
    <3>2. y \in Nat /\ c = s * y  BY <3>1, <1>1
    <3> HIDE DEF y, c
    <3>3. (s * y) % s = 0  BY <3>2, <1>1, AMultiple
    <3> QED  BY <3>2, <3>3
  <2>3. ASSUME c < a PROVE FALSE
    <3> HIDE DEF c
    <3>1. c + s =< a  BY <1>1, <2>1, <2>2, <2>3, MultiplesApart
    <3>2. c = base + s  BY DEF c
    <3> QED  BY <3>1, <3>2, <1>1, <1>2, <1>7, <1>11
  <2> QED  BY <2>1, <2>3, <1>1
<1>14. Supernet(n) \in Network
  <2>1. base \in 0 .. Top /\ n.len - 1 \in 0 .. Width  BY <1>1, <1>12
  <2>2. base % Size(n.len - 1) = 0  BY <1>7 DEF S
  <2> QED  BY <1>3, <2>1, <2>2 DEF Network
<1>15. Hosts(Supernet(n)) = base .. base + S - 1  BY <1>4 DEF Hosts, Broadcast, S
<1>16. Hosts(p) = base .. base + s - 1  BY <1>1, <1>12 DEF Hosts, Broadcast, s, b
<1>17. Hosts(n) = base + s .. base + s + s - 1  BY <1>13 DEF Hosts, Broadcast, s, a
<1>18. base .. base + S - 1 = (base .. base + s - 1) \cup (base + s .. base + s + s - 1)
  BY <1>1, <1>2, <1>7
<1> QED  BY <1>1, <1>4, <1>12, <1>14, <1>15, <1>16, <1>17, <1>18 DEF b

-----------------------------------------------------------------------------
(* GeoIp: the inductive invariant.                                         *)

Building == at \in {"read", "merge"}
Rendering == at \in {"append", "extend"}

\* What of the list has not been taken in hand.
Unread ==
    IF at = "merge" THEN read + 2 .. Len(listed)
    ELSE IF at = "read" THEN read + 1 .. Len(listed) ELSE {}

Hand == IF at = "merge" THEN Hosts(network) ELSE {}

\* The list is sorted, and its unread part is untouched.
ListInv ==
    /\ \A i, j \in 1 .. Len(listed) : i < j => AtMost(listed[i], listed[j])
    /\ Building => written =< read /\ Len(networks) = Len(listed)
    /\ at = "merge" => read < Len(listed)
    /\ ~Building => written = Len(networks)
    /\ \A i \in Unread : networks[i] = listed[i]

\* The result is sorted, disjoint and shortest, before the network in hand and
\* before everything unread.
ResultInv ==
    /\ \A i, j \in 1 .. written : i < j => Broadcast(networks[i]) < networks[j].addr
    /\ \A i \in 1 .. written - 1 : ~Siblings(networks[i], networks[i + 1])
    /\ \A i \in 1 .. written : \A j \in Unread : AtMost(networks[i], listed[j])
    /\ at = "merge" => /\ \A j \in Unread : AtMost(network, listed[j])
                       /\ \A i \in 1 .. written : Broadcast(networks[i]) < network.addr

CoverInv == Covered(networks, 1 .. written) \cup Hand \cup Covered(listed, Unread) = All

\* The partition point is between low and high.
SearchInv ==
    at = "search" =>
        /\ low =< high /\ high =< written
        /\ \A i \in 1 .. low : networks[i].addr =< ip
        /\ \A i \in high + 1 .. written : ip < networks[i].addr

Span(e) == e.from .. e.to
Spans == UNION {Span(elements[i]) : i \in 1 .. Len(elements)}

\* The elements and the interval in hand are the networks taken, apart, and as
\* many as select counts.
RenderInv ==
    Rendering =>
        /\ taken =< written
        /\ Spans \cup (IF at = "extend" THEN Span(interval) ELSE {}) = Covered(networks, 1 .. taken)
        /\ \A i, j \in 1 .. Len(elements) : i < j => elements[i].to + 1 < elements[j].from
        /\ at = "extend" => /\ taken > 0 /\ interval.to = Broadcast(networks[taken])
                            /\ interval.from =< interval.to
                            /\ \A i \in 1 .. Len(elements) : elements[i].to + 1 < interval.from
        /\ at = "append" /\ taken < written =>
             /\ \A i \in 1 .. Len(elements) : elements[i].to + 1 < networks[taken + 1].addr
             /\ taken > 0 => GapAfter(Broadcast(networks[taken]), networks[taken + 1])
        /\ Len(elements) + (IF at = "extend" THEN 1 ELSE 0)
             = (IF taken = 0 THEN 0 ELSE 1) + Cardinality(Gaps(networks, taken))

GeoInv == GeoTypeOK /\ ListInv /\ ResultInv /\ CoverInv /\ SearchInv /\ RenderInv

\* The list and the vector hold networks.
LEMMA GeoElements ==
    ASSUME GeoTypeOK
    PROVE  /\ \A i \in 1 .. Len(listed) : listed[i] \in Network
           /\ \A i \in 1 .. Len(networks) : networks[i] \in Network
           /\ Len(listed) \in Nat /\ Len(networks) \in Nat
BY DEF GeoTypeOK

\* What is not in the result's last network lies behind it.
LEMMA NotContained ==
    ASSUME NEW n \in Network, NEW m \in Network, AtMost(n, m), ~Contains(n, m)
    PROVE  Broadcast(n) < m.addr
<1>1. n.addr \in Nat /\ m.addr \in Nat /\ n.len \in Nat /\ m.len \in Nat /\ Broadcast(n) \in Nat
  BY NetworkFields, NetworkEnds, SizesArePositive
<1>2. CASE m.addr \in Hosts(n)
  <2>1. m.len < n.len  BY <1>1, <1>2 DEF Contains
  <2>2. m.addr = n.addr  BY <1>2, <2>1, BeginsTogether
  <2> QED  BY <1>1, <2>1, <2>2 DEF AtMost
<1>3. CASE m.addr \notin Hosts(n)
  <2>1. n.addr =< m.addr  BY <1>1 DEF AtMost
  <2> QED  BY <1>1, <1>3, <2>1 DEF Hosts
<1> QED  BY <1>2, <1>3

\* ReadNext when the last result contains the network.
LEMMA SkipStep ==
    ASSUME GeoInv, ReadNext, written > 0, Contains(networks[written], networks[read + 1])
    PROVE  GeoInv'
<1>1. /\ at = "read" /\ at' = "read" /\ read < Len(networks) /\ read' = read + 1
      /\ UNCHANGED <<listed, networks, written, network, searched, rendered>>
  BY DEF ReadNext
<1>2. GeoTypeOK /\ ListInv /\ ResultInv /\ CoverInv  BY DEF GeoInv
<1>3. /\ Len(networks) = Len(listed) /\ written =< read /\ read \in Nat /\ written \in Nat
      /\ Len(listed) \in Nat
  BY <1>1, <1>2 DEF ListInv, Building, GeoTypeOK
<1>4. GeoTypeOK'
  BY <1>1, <1>2, <1>3 DEF GeoTypeOK, searched, rendered
<1>5. Unread = read + 1 .. Len(listed) /\ Unread' = read + 2 .. Len(listed)
  BY <1>1, <1>3 DEF Unread
<1>6. ListInv'
  BY <1>1, <1>2, <1>3, <1>5 DEF ListInv, Building
<1>7. ResultInv'
  BY <1>1, <1>2, <1>3, <1>5 DEF ResultInv
<1>8. CoverInv'
  <2>1. networks[written] \in Network /\ networks[read + 1] \in Network /\ networks[read + 1] = listed[read + 1]
    BY <1>1, <1>2, <1>3, <1>5, GeoElements DEF ListInv
  <2>2. Hosts(listed[read + 1]) \subseteq Hosts(networks[written])  BY <2>1, Nested
  <2>3. Hosts(listed[read + 1]) \subseteq Covered(networks, 1 .. written)
    BY <2>2, <1>3 DEF Covered
  <2>4. Unread = Unread' \cup {read + 1}  BY <1>1, <1>3, <1>5
  <2>5. Covered(listed, Unread) = Covered(listed, Unread') \cup Hosts(listed[read + 1])
    BY <2>4 DEF Covered
  <2>6. Hand = {} /\ Hand' = {}  BY <1>1 DEF Hand
  <2>7. All' = All /\ Covered(networks, 1 .. written)' = Covered(networks, 1 .. written)
        /\ Covered(listed, Unread)' = Covered(listed, Unread')
    BY <1>1 DEF All, Covered, Hosts, Broadcast
  <2> QED  BY <1>2, <2>3, <2>5, <2>6, <2>7 DEF CoverInv
<1>9. SearchInv' /\ RenderInv'  BY <1>1 DEF SearchInv, RenderInv, Rendering
<1> QED  BY <1>4, <1>6, <1>7, <1>8, <1>9 DEF GeoInv

\* ReadNext when it takes the network in hand.
LEMMA TakeStep ==
    ASSUME GeoInv, ReadNext, ~(written > 0 /\ Contains(networks[written], networks[read + 1]))
    PROVE  GeoInv'
<1>1. /\ at = "read" /\ at' = "merge" /\ read < Len(networks) /\ network' = networks[read + 1]
      /\ UNCHANGED <<listed, networks, read, written, searched, rendered>>
  BY DEF ReadNext
<1>2. GeoTypeOK /\ ListInv /\ ResultInv /\ CoverInv  BY DEF GeoInv
<1>3. /\ Len(networks) = Len(listed) /\ written =< read /\ read \in Nat /\ written \in Nat
      /\ Len(listed) \in Nat
  BY <1>1, <1>2 DEF ListInv, Building, GeoTypeOK
<1>4. Unread = read + 1 .. Len(listed) /\ Unread' = read + 2 .. Len(listed)
  BY <1>1, <1>3 DEF Unread
<1>5. network' \in Network /\ network' = listed[read + 1]
  BY <1>1, <1>2, <1>3, <1>4, GeoElements DEF ListInv
<1>6. GeoTypeOK'
  BY <1>1, <1>2, <1>5 DEF GeoTypeOK, searched, rendered
<1>7. ListInv'
  BY <1>1, <1>2, <1>3, <1>4 DEF ListInv, Building
<1>8. \A i \in 1 .. written : Broadcast(networks[i]) < networks[read + 1].addr
  <2> SUFFICES ASSUME NEW i \in 1 .. written PROVE Broadcast(networks[i]) < networks[read + 1].addr
    OBVIOUS
  <2>1. written \in 1 .. written /\ read + 1 \in Unread  BY <1>1, <1>3, <1>4
  <2>2. AtMost(networks[written], networks[read + 1]) /\ networks[written] \in Network
        /\ networks[read + 1] \in Network /\ networks[i] \in Network
    BY <1>1, <1>2, <1>3, <2>1, GeoElements DEF ResultInv, ListInv
  <2>3. Broadcast(networks[written]) < networks[read + 1].addr
    BY <2>1, <2>2, NotContained
  <2>4. i = written \/ Broadcast(networks[i]) < networks[written].addr
    BY <1>2, <1>3, <2>1 DEF ResultInv
  <2>5. /\ networks[written].addr =< Broadcast(networks[written]) /\ networks[written].addr \in Nat
        /\ Broadcast(networks[written]) \in Nat /\ Broadcast(networks[i]) \in Nat
        /\ networks[read + 1].addr \in Nat
    BY <2>2, NetworkEnds, NetworkFields, SizesArePositive
  <2> QED  BY <2>3, <2>4, <2>5
<1>9. ResultInv'
  <2>1. \A j \in Unread' : AtMost(networks[read + 1], listed[j])
    BY <1>1, <1>2, <1>3, <1>4, <1>5 DEF ListInv
  <2> QED  BY <1>1, <1>2, <1>3, <1>4, <1>8, <2>1 DEF ResultInv, Broadcast
<1>10. CoverInv'
  <2>1. Unread = Unread' \cup {read + 1}  BY <1>1, <1>3, <1>4
  <2>2. Covered(listed, Unread) = Covered(listed, Unread') \cup Hosts(listed[read + 1])
    BY <2>1 DEF Covered
  <2>3. Hand = {} /\ Hand' = Hosts(listed[read + 1])  BY <1>1, <1>5 DEF Hand, Hosts, Broadcast
  <2>4. All' = All /\ Covered(networks, 1 .. written)' = Covered(networks, 1 .. written)
        /\ Covered(listed, Unread)' = Covered(listed, Unread')
    BY <1>1 DEF All, Covered, Hosts, Broadcast
  <2> QED  BY <1>2, <2>2, <2>3, <2>4 DEF CoverInv
<1>11. SearchInv' /\ RenderInv'  BY <1>1 DEF SearchInv, RenderInv, Rendering
<1> QED  BY <1>6, <1>7, <1>9, <1>10, <1>11 DEF GeoInv

\* Merge: the last result and the network in hand become their parent.
LEMMA MergeStep ==
    ASSUME GeoInv, Merge PROVE GeoInv'
<1>1. /\ at = "merge" /\ at' = "merge" /\ written > 0 /\ Siblings(networks[written], network)
      /\ written' = written - 1 /\ network' = Supernet(network)
      /\ UNCHANGED <<listed, networks, read, searched, rendered>>
  BY DEF Merge
<1>2. GeoTypeOK /\ ListInv /\ ResultInv /\ CoverInv  BY DEF GeoInv
<1>3. /\ Len(networks) = Len(listed) /\ written =< read /\ read \in Nat /\ written \in Nat
      /\ Len(listed) \in Nat /\ read < Len(listed)
  BY <1>1, <1>2 DEF ListInv, Building, GeoTypeOK
<1> DEFINE p == networks[written]
<1>4. Unread = read + 2 .. Len(listed) /\ Unread' = Unread
  BY <1>1, <1>3 DEF Unread
<1>5. written \in 1 .. written /\ p \in Network /\ network \in Network
  BY <1>1, <1>2, <1>3, GeoElements DEF GeoTypeOK
<1>6. p.addr < network.addr
  <2>1. Broadcast(p) < network.addr  BY <1>1, <1>2, <1>5 DEF ResultInv
  <2> QED  BY <2>1, <1>5, NetworkEnds, NetworkFields, SizesArePositive
<1>7. /\ network' \in Network /\ network'.addr = p.addr /\ network'.len = p.len - 1
      /\ Hosts(network') = Hosts(p) \cup Hosts(network)
  BY <1>1, <1>5, <1>6, Halves
<1>8. GeoTypeOK'
  <2>1. written' \in 0 .. Len(listed)  BY <1>1, <1>3
  <2> QED  BY <1>1, <1>2, <1>7, <2>1 DEF GeoTypeOK, searched, rendered
<1>9. ListInv'
  BY <1>1, <1>2, <1>3, <1>4 DEF ListInv, Building
<1>10. ResultInv'
  <2>1. ASSUME NEW j \in Unread' PROVE AtMost(network', listed[j])
    <3>1. AtMost(p, listed[j])  BY <1>2, <1>4, <1>5 DEF ResultInv
    <3>2. p.len \in Nat /\ p.addr \in Nat /\ listed[j].len \in Nat
      <4>1. j \in 1 .. Len(listed)  BY <1>3, <1>4
      <4> QED  BY <4>1, <1>2, <1>5, GeoElements, NetworkFields
    <3> QED  BY <1>7, <3>1, <3>2 DEF AtMost
  <2>2. ASSUME NEW i \in 1 .. written' PROVE Broadcast(networks[i]) < network'.addr
    <3>1. i \in 1 .. written /\ i < written  BY <1>1, <1>3
    <3> QED  BY <1>2, <1>5, <1>7, <3>1 DEF ResultInv
  <2>3. 1 .. written' \subseteq 1 .. written /\ 1 .. written' - 1 \subseteq 1 .. written - 1
    BY <1>1, <1>3
  <2> QED  BY <1>1, <1>2, <1>4, <2>1, <2>2, <2>3 DEF ResultInv, Broadcast
<1>11. CoverInv'
  <2>1. 1 .. written = (1 .. written') \cup {written}  BY <1>1, <1>3
  <2>2. Covered(networks, 1 .. written) = Covered(networks, 1 .. written') \cup Hosts(p)
    BY <2>1 DEF Covered
  <2>3. Hand = Hosts(network) /\ Hand' = Hosts(network')  BY <1>1 DEF Hand, Hosts, Broadcast
  <2>4. All' = All /\ Covered(networks, 1 .. written)' = Covered(networks, 1 .. written')
        /\ Covered(listed, Unread)' = Covered(listed, Unread)
    BY <1>1, <1>4 DEF All, Covered, Hosts, Broadcast
  <2> QED  BY <1>2, <1>7, <2>2, <2>3, <2>4 DEF CoverInv
<1>12. SearchInv' /\ RenderInv'  BY <1>1 DEF SearchInv, RenderInv, Rendering
<1> QED  BY <1>8, <1>9, <1>10, <1>11, <1>12 DEF GeoInv

\* Place: the network in hand becomes the last result, before what is unread.
LEMMA PlaceStep ==
    ASSUME GeoInv, Place PROVE GeoInv'
<1>1. /\ at = "merge" /\ at' = "read" /\ ~(written > 0 /\ Siblings(networks[written], network))
      /\ networks' = [networks EXCEPT ![written + 1] = network]
      /\ written' = written + 1 /\ read' = read + 1
      /\ UNCHANGED <<listed, network, searched, rendered>>
  BY DEF Place
<1>2. GeoTypeOK /\ ListInv /\ ResultInv /\ CoverInv  BY DEF GeoInv
<1>3. /\ Len(networks) = Len(listed) /\ written =< read /\ read \in Nat /\ written \in Nat
      /\ Len(listed) \in Nat /\ read < Len(listed) /\ network \in Network
      /\ networks \in Seq(Network)
  BY <1>1, <1>2 DEF ListInv, Building, GeoTypeOK
<1>4. written + 1 \in 1 .. Len(networks)  BY <1>3
<1>5. /\ networks' \in Seq(Network) /\ Len(networks') = Len(networks)
      /\ networks'[written + 1] = network
      /\ \A i \in 1 .. Len(networks) : i # written + 1 => networks'[i] = networks[i]
  BY <1>1, <1>3, <1>4
<1>6. Unread = read + 2 .. Len(listed) /\ Unread' = Unread
  BY <1>1, <1>3 DEF Unread
<1>7. GeoTypeOK'
  <2>1. written' \in 0 .. Len(listed) /\ read' \in 0 .. Len(listed)  BY <1>1, <1>3
  <2> QED  BY <1>1, <1>2, <1>5, <2>1 DEF GeoTypeOK, searched, rendered
<1>8. ListInv'
  <2>1. \A i \in Unread' : networks'[i] = listed'[i]
    <3> SUFFICES ASSUME NEW i \in Unread PROVE networks'[i] = listed[i]  BY <1>1, <1>6
    <3>1. i \in 1 .. Len(networks) /\ i # written + 1  BY <1>3, <1>6
    <3> QED  BY <1>2, <1>5, <3>1 DEF ListInv
  <2> QED  BY <1>1, <1>2, <1>3, <1>5, <2>1 DEF ListInv, Building
<1>9. \A i \in 1 .. written : networks'[i] = networks[i]  BY <1>3, <1>5
<1>10. ResultInv'
  <2>1. 1 .. written' = (1 .. written) \cup {written + 1} /\ written' - 1 = written
    BY <1>1, <1>3
  <2>2. \A i \in 1 .. written : Broadcast(networks[i]) < network.addr
    BY <1>1, <1>2 DEF ResultInv
  <2>3. ASSUME NEW i \in 1 .. written', NEW j \in 1 .. written', i < j
        PROVE  Broadcast(networks'[i]) < networks'[j].addr
    <3>1. CASE j = written + 1
      <4>1. i \in 1 .. written  BY <1>3, <2>1, <2>3, <3>1
      <4> QED  BY <1>5, <1>9, <2>2, <3>1, <4>1
    <3>2. CASE j \in 1 .. written
      <4>1. i \in 1 .. written  BY <1>3, <2>1, <2>3, <3>2
      <4> QED  BY <1>2, <1>9, <2>3, <3>2, <4>1 DEF ResultInv
    <3> QED  BY <2>1, <3>1, <3>2
  <2>4. ASSUME NEW i \in 1 .. written' - 1 PROVE ~Siblings(networks'[i], networks'[i + 1])
    <3>1. i \in 1 .. written  BY <2>1
    <3>2. CASE i = written
      <4>1. written > 0 /\ networks'[i] = networks[written] /\ networks'[i + 1] = network
        BY <1>3, <1>5, <1>9, <3>1, <3>2
      <4> QED  BY <1>1, <4>1
    <3>3. CASE i # written
      <4>1. i \in 1 .. written - 1 /\ i + 1 \in 1 .. written  BY <1>3, <3>1, <3>3
      <4> QED  BY <1>2, <1>9, <3>1, <4>1 DEF ResultInv
    <3> QED  BY <3>2, <3>3
  <2>5. ASSUME NEW i \in 1 .. written', NEW j \in Unread' PROVE AtMost(networks'[i], listed[j])
    <3>1. CASE i = written + 1  BY <1>1, <1>2, <1>5, <1>6, <3>1 DEF ResultInv
    <3>2. CASE i \in 1 .. written  BY <1>2, <1>6, <1>9, <3>2 DEF ResultInv
    <3> QED  BY <2>1, <3>1, <3>2
  <2> QED  BY <1>1, <2>3, <2>4, <2>5 DEF ResultInv, Broadcast, Siblings, Contains, Hosts, Supernet, AtMost
<1>11. CoverInv'
  <2>1. 1 .. written' = (1 .. written) \cup {written + 1}  BY <1>1, <1>3
  <2>2. Covered(networks', 1 .. written') = Covered(networks, 1 .. written) \cup Hosts(network)
    BY <2>1, <1>5, <1>9 DEF Covered
  <2>3. Hand = Hosts(network) /\ Hand' = {}  BY <1>1 DEF Hand
  <2>4. All' = All /\ Covered(networks, 1 .. written)' = Covered(networks', 1 .. written')
        /\ Covered(listed, Unread)' = Covered(listed, Unread)
    BY <1>1, <1>6 DEF All, Covered, Hosts, Broadcast
  <2> QED  BY <1>2, <2>2, <2>3, <2>4 DEF CoverInv
<1>12. SearchInv' /\ RenderInv'  BY <1>1 DEF SearchInv, RenderInv, Rendering
<1> QED  BY <1>7, <1>8, <1>10, <1>11, <1>12 DEF GeoInv

\* Truncate: the result alone is left.
LEMMA TruncateStep ==
    ASSUME GeoInv, Truncate PROVE GeoInv'
<1>1. /\ at = "read" /\ at' = "done" /\ read = Len(networks)
      /\ networks' = SubSeq(networks, 1, written)
      /\ UNCHANGED <<listed, read, written, network, searched, rendered>>
  BY DEF Truncate
<1>2. GeoTypeOK /\ ListInv /\ ResultInv /\ CoverInv  BY DEF GeoInv
<1>3. /\ Len(networks) = Len(listed) /\ written =< Len(networks) /\ read \in Nat /\ written \in Nat
      /\ Len(listed) \in Nat /\ networks \in Seq(Network)
  BY <1>1, <1>2 DEF ListInv, Building, GeoTypeOK
<1>4. /\ networks' \in Seq(Network) /\ Len(networks') = written
      /\ \A i \in 1 .. written : networks'[i] = networks[i]
  BY <1>1, <1>3
<1>5. Unread = {} /\ Unread' = {} /\ Hand = {} /\ Hand' = {}
  BY <1>1, <1>3 DEF Unread, Hand
<1>6. GeoTypeOK'  BY <1>1, <1>2, <1>4 DEF GeoTypeOK, searched, rendered
<1>7. ListInv'  BY <1>1, <1>2, <1>4, <1>5 DEF ListInv, Building
<1>8. ResultInv'
  <2>1. \A i \in 1 .. written - 1 : i \in 1 .. written /\ i + 1 \in 1 .. written  BY <1>3
  <2>2. \A i, j \in 1 .. written : i < j => Broadcast(networks'[i]) < networks'[j].addr
    BY <1>2, <1>4 DEF ResultInv
  <2>3. \A i \in 1 .. written - 1 : ~Siblings(networks'[i], networks'[i + 1])
    BY <1>2, <1>4, <2>1 DEF ResultInv
  <2> QED  BY <1>1, <1>5, <2>2, <2>3 DEF ResultInv, Broadcast, Siblings, Contains, Hosts, Supernet, AtMost
<1>9. CoverInv'
  <2>1. Covered(networks', 1 .. written) = Covered(networks, 1 .. written)  BY <1>4 DEF Covered
  <2>2. All' = All /\ Covered(networks, 1 .. written)' = Covered(networks', 1 .. written)
        /\ Covered(listed, Unread)' = {} /\ Covered(listed, Unread) = {}
    BY <1>1, <1>5 DEF All, Covered, Hosts, Broadcast
  <2> QED  BY <1>2, <1>5, <2>1, <2>2 DEF CoverInv
<1>10. SearchInv' /\ RenderInv'  BY <1>1 DEF SearchInv, RenderInv, Rendering
<1> QED  BY <1>6, <1>7, <1>8, <1>9, <1>10 DEF GeoInv

\* The readers leave the result as it is.
LEMMA ReadersKeepResult ==
    ASSUME GeoInv, ~Building, ~Building', UNCHANGED built
    PROVE  ListInv' /\ ResultInv' /\ CoverInv'
<1>1. UNCHANGED <<listed, networks, read, written, network>>  BY DEF built
<1>2. /\ Unread = {} /\ Unread' = {} /\ Hand = {} /\ Hand' = {}
      /\ at # "merge" /\ at' # "merge"
  BY DEF Building, Unread, Hand
<1>3. ListInv'  BY <1>1, <1>2 DEF GeoInv, ListInv
<1>4. ResultInv'
  BY <1>1, <1>2 DEF GeoInv, ResultInv, Broadcast, Siblings, Contains, Hosts, Supernet
<1>5. CoverInv'
  <2>1. Covered(networks, 1 .. written)' = Covered(networks, 1 .. written) /\ All' = All
        /\ Covered(listed, Unread)' = Covered(listed, Unread)
    BY <1>1, <1>2 DEF Covered, All, Hosts, Broadcast
  <2> QED  BY <1>2, <2>1 DEF GeoInv, CoverInv
<1> QED  BY <1>3, <1>4, <1>5

\* The length of the result.
LEMMA ResultLength ==
    ASSUME GeoInv, ~Building
    PROVE  /\ written = Len(networks) /\ written \in Nat /\ written =< Len(listed) /\ Len(listed) \in Nat
           /\ \A i \in 1 .. written : networks[i] \in Network
BY GeoElements DEF GeoInv, ListInv, GeoTypeOK

\* matches_ip: the partition point stays between low and high.
LEMMA SearchSteps ==
    ASSUME GeoInv, (\E x \in 0 .. Top : Lookup(x)) \/ Bisect \/ Matched
    PROVE  GeoInv'
<1>1. ~Building /\ ~Building' /\ UNCHANGED built /\ UNCHANGED rendered
  BY DEF Lookup, Bisect, Matched, Building
<1>2. ListInv' /\ ResultInv' /\ CoverInv'  BY <1>1, ReadersKeepResult
<1>3. /\ written = Len(networks) /\ written \in Nat /\ written =< Len(listed) /\ Len(listed) \in Nat
      /\ \A i \in 1 .. written : networks[i] \in Network
  BY <1>1, ResultLength
<1>4. /\ at' \in {"search", "done"}
      /\ UNCHANGED <<listed, networks, read, written, network, taken, interval, elements>>
  BY <1>1 DEF Lookup, Bisect, Matched, built, rendered
<1>5. RenderInv'  BY <1>4 DEF RenderInv, Rendering
<1>6. /\ GeoTypeOK /\ SearchInv /\ low \in Nat /\ high \in Nat /\ ip \in 0 .. Top
      /\ ResultInv
  BY DEF GeoInv, GeoTypeOK
<1>7. SUFFICES /\ ip' \in 0 .. Top /\ low' \in 0 .. Len(listed) /\ high' \in 0 .. Len(listed)
               /\ SearchInv'
  <2>1. GeoTypeOK'  BY <1>4, <1>6, <1>7 DEF GeoTypeOK
  <2> QED  BY <1>2, <1>5, <1>7, <2>1 DEF GeoInv
<1>8. ASSUME NEW x \in 0 .. Top, Lookup(x)
      PROVE  /\ ip' \in 0 .. Top /\ low' \in 0 .. Len(listed) /\ high' \in 0 .. Len(listed)
             /\ SearchInv'
  <2>1. ip' = x /\ low' = 0 /\ high' = written  BY <1>3, <1>8 DEF Lookup
  <2> QED  BY <1>3, <1>4, <2>1 DEF SearchInv
<1>9. ASSUME Bisect
      PROVE  /\ ip' \in 0 .. Top /\ low' \in 0 .. Len(listed) /\ high' \in 0 .. Len(listed)
             /\ SearchInv'
  <2> DEFINE mid == (low + high) \div 2
  <2>1. /\ at = "search" /\ at' = "search" /\ low < high /\ ip' = ip
        /\ \/ networks[mid + 1].addr =< ip /\ low' = mid + 1 /\ high' = high
           \/ ~(networks[mid + 1].addr =< ip) /\ low' = low /\ high' = mid
    BY <1>9 DEF Bisect
  <2>2. /\ low =< high /\ high =< written
        /\ \A i \in 1 .. low : networks[i].addr =< ip
        /\ \A i \in high + 1 .. written : ip < networks[i].addr
    BY <1>6, <2>1 DEF SearchInv
  <2>3. mid \in Nat /\ low =< mid /\ mid < high  BY <1>6, <2>1
  <2> HIDE DEF mid
  <2>4. mid + 1 \in 1 .. written  BY <1>3, <1>6, <2>2, <2>3
  <2>5. ASSUME NEW i \in 1 .. written, NEW j \in 1 .. written, i < j
        PROVE  networks[i].addr < networks[j].addr
    <3>1. Broadcast(networks[i]) < networks[j].addr  BY <1>6, <2>5 DEF ResultInv
    <3> QED  BY <3>1, <1>3, NetworkEnds, NetworkFields, SizesArePositive
  <2>6. \A i \in 1 .. written : networks[i].addr \in Nat  BY <1>3, NetworkFields
  <2>7. CASE networks[mid + 1].addr =< ip /\ low' = mid + 1 /\ high' = high
    <3>1. ASSUME NEW i \in 1 .. mid + 1 PROVE networks[i].addr =< ip
      <4>1. i \in 1 .. written /\ (i = mid + 1 \/ i < mid + 1)  BY <1>3, <2>3, <2>4
      <4> QED  BY <4>1, <2>4, <2>5, <2>6, <2>7, <1>6, SizesArePositive
    <3> QED  BY <1>3, <1>4, <1>6, <2>1, <2>2, <2>3, <2>7, <3>1 DEF SearchInv
  <2>8. CASE ~(networks[mid + 1].addr =< ip) /\ low' = low /\ high' = mid
    <3>1. ASSUME NEW i \in mid + 1 .. written PROVE ip < networks[i].addr
      <4>1. i \in 1 .. written /\ (i = mid + 1 \/ mid + 1 < i)  BY <1>3, <2>3, <2>4
      <4> QED  BY <4>1, <2>4, <2>5, <2>6, <2>8, <1>6, SizesArePositive
    <3> QED  BY <1>3, <1>4, <1>6, <2>1, <2>2, <2>3, <2>8, <3>1 DEF SearchInv
  <2> QED  BY <2>1, <2>7, <2>8
<1>10. ASSUME Matched
       PROVE  /\ ip' \in 0 .. Top /\ low' \in 0 .. Len(listed) /\ high' \in 0 .. Len(listed)
              /\ SearchInv'
  BY <1>10, <1>6 DEF Matched, SearchInv, GeoTypeOK, searched
<1> QED  BY <1>8, <1>9, <1>10

\* The gaps among n + 1 networks: those among n, and the one after the n-th.
LEMMA GapsGrow ==
    ASSUME NEW s, NEW n \in Nat
    PROVE  /\ IsFiniteSet(Gaps(s, n)) /\ Cardinality(Gaps(s, n)) \in Nat
           /\ n = 0 => Cardinality(Gaps(s, n)) = 0 /\ Cardinality(Gaps(s, n + 1)) = 0
           /\ n > 0 /\ GapAfter(Broadcast(s[n]), s[n + 1]) =>
                Cardinality(Gaps(s, n + 1)) = Cardinality(Gaps(s, n)) + 1
           /\ n > 0 /\ ~GapAfter(Broadcast(s[n]), s[n + 1]) =>
                Cardinality(Gaps(s, n + 1)) = Cardinality(Gaps(s, n))
<1>1. IsFiniteSet(1 .. n - 1)  BY FS_Interval
<1>2. Gaps(s, n) \subseteq 1 .. n - 1  BY DEF Gaps
<1>3. IsFiniteSet(Gaps(s, n)) /\ Cardinality(Gaps(s, n)) \in Nat
  BY <1>1, <1>2, FS_Subset, FS_CardinalityType
<1>4. ASSUME n = 0 PROVE Cardinality(Gaps(s, n)) = 0 /\ Cardinality(Gaps(s, n + 1)) = 0
  <2>1. Gaps(s, n) = {} /\ Gaps(s, n + 1) = {}  BY <1>4 DEF Gaps
  <2> QED  BY <2>1, FS_EmptySet
<1>5. ASSUME n > 0 PROVE 1 .. (n + 1) - 1 = (1 .. n - 1) \cup {n} /\ n \notin 1 .. n - 1
  BY <1>5
<1>6. ASSUME n > 0, GapAfter(Broadcast(s[n]), s[n + 1])
      PROVE  Cardinality(Gaps(s, n + 1)) = Cardinality(Gaps(s, n)) + 1
  <2>1. Gaps(s, n + 1) = Gaps(s, n) \cup {n} /\ n \notin Gaps(s, n)  BY <1>5, <1>6 DEF Gaps
  <2> QED  BY <1>3, <2>1, FS_AddElement
<1>7. ASSUME n > 0, ~GapAfter(Broadcast(s[n]), s[n + 1])
      PROVE  Cardinality(Gaps(s, n + 1)) = Cardinality(Gaps(s, n))
  <2>1. Gaps(s, n + 1) = Gaps(s, n)  BY <1>5, <1>7 DEF Gaps
  <2> QED  BY <2>1
<1> QED  BY <1>3, <1>4, <1>6, <1>7

\* What append_networks knows between two steps.
LEMMA RenderFacts ==
    ASSUME GeoInv, Rendering
    PROVE  /\ ~Building /\ taken \in Nat /\ written \in Nat /\ taken =< written
           /\ written = Len(networks) /\ written =< Len(listed) /\ Len(listed) \in Nat
           /\ \A i \in 1 .. written :
                /\ networks[i] \in Network /\ networks[i].addr \in Nat /\ Broadcast(networks[i]) \in Nat
                /\ networks[i].addr \in 0 .. Top /\ Broadcast(networks[i]) \in 0 .. Top
                /\ networks[i].addr =< Broadcast(networks[i])
           /\ \A i, j \in 1 .. written : i < j => Broadcast(networks[i]) < networks[j].addr
           /\ elements \in Seq(Interval) /\ interval \in Interval
           /\ interval.from \in Nat /\ interval.to \in Nat /\ interval.to \in 0 .. Top
           /\ Len(elements) \in Nat
           /\ \A i \in 1 .. Len(elements) : elements[i].from \in Nat /\ elements[i].to \in Nat
           /\ Top \in Nat
<1>1. ~Building  BY DEF Building, Rendering
<1>2. /\ written = Len(networks) /\ written \in Nat /\ written =< Len(listed) /\ Len(listed) \in Nat
      /\ \A i \in 1 .. written : networks[i] \in Network
  BY <1>1, ResultLength
<1>3. taken \in Nat /\ taken =< written  BY <1>2 DEF GeoInv, GeoTypeOK, RenderInv
<1>4. ASSUME NEW i \in 1 .. written
      PROVE  /\ networks[i] \in Network /\ networks[i].addr \in Nat /\ Broadcast(networks[i]) \in Nat
             /\ networks[i].addr \in 0 .. Top /\ Broadcast(networks[i]) \in 0 .. Top
             /\ networks[i].addr =< Broadcast(networks[i])
  BY <1>2, NetworkFields, NetworkEnds, SizesArePositive
<1>5. \A i, j \in 1 .. written : i < j => Broadcast(networks[i]) < networks[j].addr
  BY DEF GeoInv, ResultInv
<1>6. elements \in Seq(Interval) /\ interval \in Interval  BY DEF GeoInv, GeoTypeOK
<1>7. Top \in Nat  BY SizesArePositive
<1>8. interval.from \in Nat /\ interval.to \in Nat /\ interval.to \in 0 .. Top  BY <1>6, <1>7 DEF Interval
<1>9. ASSUME NEW i \in 1 .. Len(elements) PROVE elements[i].from \in Nat /\ elements[i].to \in Nat
  <2>1. elements[i] \in Interval  BY <1>6
  <2> QED  BY <2>1, <1>7 DEF Interval
<1>10. Len(elements) \in Nat  BY <1>6
<1> QED  BY <1>1, <1>2, <1>3, <1>4, <1>5, <1>6, <1>7, <1>8, <1>9, <1>10

\* What a step of append_networks has to keep.
LEMMA RenderKeeps ==
    ASSUME GeoInv, ~Building, UNCHANGED <<built, searched>>, at' \in {"done", "append", "extend"},
           taken' \in 0 .. Len(networks), interval' \in Interval, elements' \in Seq(Interval), RenderInv'
    PROVE  GeoInv'
<1>1. ~Building'  BY DEF Building
<1>2. UNCHANGED <<listed, networks, read, written, network, ip, low, high>>  BY DEF built, searched
<1>3. ListInv' /\ ResultInv' /\ CoverInv'  BY <1>1, <1>2, ReadersKeepResult
<1>4. /\ written = Len(networks) /\ written \in Nat /\ written =< Len(listed) /\ Len(listed) \in Nat
  BY ResultLength
<1>5. taken' \in 0 .. Len(listed)  BY <1>4
<1>6. GeoTypeOK'  BY <1>2, <1>5 DEF GeoInv, GeoTypeOK
<1>7. SearchInv'  BY DEF SearchInv
<1> QED  BY <1>3, <1>6, <1>7 DEF GeoInv

\* Render and Rendered: the loops begin with nothing and end.
LEMMA RenderEnds ==
    ASSUME GeoInv, Render \/ Rendered PROVE GeoInv'
<1>1. CASE Render
  <2>1. /\ at = "done" /\ at' = "append" /\ taken' = 0 /\ elements' = <<>>
        /\ UNCHANGED <<built, searched, interval>>
    BY <1>1 DEF Render
  <2>2. ~Building  BY <2>1 DEF Building
  <2>3. written = Len(networks) /\ written \in Nat  BY <2>2, ResultLength
  <2>4. UNCHANGED <<networks, written>>  BY <2>1 DEF built
  <2>5. Spans' = {} /\ Covered(networks, 1 .. taken)' = {} /\ Len(elements') = 0
    BY <2>1 DEF Spans, Covered
  <2>6. Gaps(networks, taken)' = {}  BY <2>1 DEF Gaps
  <2>7. Cardinality(Gaps(networks, taken))' = 0  BY <2>6, FS_EmptySet
  <2>8. RenderInv'
    BY <2>1, <2>3, <2>4, <2>5, <2>7 DEF RenderInv
  <2>9. interval' \in Interval /\ elements' \in Seq(Interval)  BY <2>1 DEF GeoInv, GeoTypeOK
  <2>10. taken' \in 0 .. Len(networks)  BY <2>1, <2>3
  <2> QED  BY <2>1, <2>2, <2>8, <2>9, <2>10, RenderKeeps
<1>2. CASE Rendered
  <2>1. at = "append" /\ at' = "done" /\ taken = Len(networks) /\ UNCHANGED <<built, searched, rendered>>
    BY <1>2 DEF Rendered
  <2>2. ~Building  BY <2>1 DEF Building
  <2>3. RenderInv'  BY <2>1 DEF RenderInv, Rendering
  <2>4. interval' \in Interval /\ elements' \in Seq(Interval)
    BY <2>1 DEF GeoInv, GeoTypeOK, rendered
  <2>5. taken' \in 0 .. Len(networks)
    <3>1. Len(networks) \in Nat  BY DEF GeoInv, GeoTypeOK
    <3> QED  BY <2>1, <3>1 DEF rendered
  <2> QED  BY <2>1, <2>2, <2>3, <2>4, <2>5, RenderKeeps
<1> QED  BY <1>1, <1>2

\* TakeNetwork: a new interval begins behind a gap.
LEMMA TakeNetworkStep ==
    ASSUME GeoInv, TakeNetwork PROVE GeoInv'
<1> DEFINE next == networks[taken + 1]
<1>1. /\ at = "append" /\ at' = "extend" /\ taken < Len(networks) /\ taken' = taken + 1
      /\ interval' = [from |-> next.addr, to |-> Broadcast(next)]
      /\ UNCHANGED <<built, searched, elements>>
  BY DEF TakeNetwork
<1>2. Rendering  BY <1>1 DEF Rendering
<1>3. UNCHANGED <<networks, written>>  BY <1>1 DEF built
<1>4. /\ taken \in Nat /\ written \in Nat /\ written = Len(networks) /\ taken + 1 \in 1 .. written
      /\ ~Building /\ elements \in Seq(Interval) /\ Len(elements) \in Nat
  BY <1>1, <1>2, RenderFacts
<1>5. /\ next.addr \in 0 .. Top /\ Broadcast(next) \in 0 .. Top /\ next.addr \in Nat
      /\ Broadcast(next) \in Nat /\ next.addr =< Broadcast(next)
  BY <1>2, <1>4, RenderFacts
<1>6. RenderInv /\ taken < written  BY <1>1, <1>4 DEF GeoInv
<1>7. interval'.from = next.addr /\ interval'.to = Broadcast(next)  BY <1>1
<1>8. Spans' \cup Span(interval') = Covered(networks, 1 .. taken')
  <2>1. 1 .. taken' = (1 .. taken) \cup {taken + 1}  BY <1>1, <1>4
  <2>2. Covered(networks, 1 .. taken') = Covered(networks, 1 .. taken) \cup Hosts(next)
    BY <2>1 DEF Covered
  <2>3. Spans = Covered(networks, 1 .. taken)  BY <1>1, <1>2, <1>6 DEF RenderInv
  <2>4. Span(interval') = Hosts(next)  BY <1>7 DEF Span, Hosts
  <2>5. Spans' = Spans  BY <1>1 DEF Spans, Span
  <2> QED  BY <2>2, <2>3, <2>4, <2>5
<1>9. Len(elements) + 1 = 1 + Cardinality(Gaps(networks, taken + 1))
  <2>1. Len(elements) = (IF taken = 0 THEN 0 ELSE 1) + Cardinality(Gaps(networks, taken))
    BY <1>1, <1>2, <1>4, <1>6 DEF RenderInv
  <2>2. taken > 0 => GapAfter(Broadcast(networks[taken]), networks[taken + 1])
    BY <1>1, <1>2, <1>6 DEF RenderInv
  <2>3. CASE taken = 0  BY <1>4, <2>1, <2>3, GapsGrow
  <2>4. CASE taken > 0
    <3>1. Cardinality(Gaps(networks, taken + 1)) = Cardinality(Gaps(networks, taken)) + 1
          /\ Cardinality(Gaps(networks, taken)) \in Nat
      BY <1>4, <2>2, <2>4, GapsGrow
    <3> QED  BY <1>4, <2>1, <2>4, <3>1
  <2> QED  BY <1>4, <2>3, <2>4
<1>10. RenderInv'
  <2>1. taken' =< written' /\ taken' > 0 /\ taken' # 0  BY <1>1, <1>3, <1>4
  <2>2. Covered(networks, 1 .. taken)' = Covered(networks, 1 .. taken')
    BY <1>3 DEF Covered, Hosts, Broadcast
  <2>3. Gaps(networks, taken)' = Gaps(networks, taken + 1)
    BY <1>1, <1>3 DEF Gaps, GapAfter, Broadcast, SaturatingAdd
  <2>4. \A i \in 1 .. Len(elements) : elements[i].to + 1 < next.addr
    BY <1>1, <1>2, <1>6 DEF RenderInv
  <2>5. \A i, j \in 1 .. Len(elements) : i < j => elements[i].to + 1 < elements[j].from
    BY <1>2, <1>6 DEF RenderInv
  <2>6. Broadcast(networks[taken])' = Broadcast(next)
    BY <1>1, <1>3 DEF Broadcast
  <2>7. (Spans \cup (IF at = "extend" THEN Span(interval) ELSE {}))' = Spans' \cup Span(interval')
    BY <1>1 DEF Span
  <2>8. (Len(elements) + (IF at = "extend" THEN 1 ELSE 0))' = Len(elements) + 1
    BY <1>1
  <2>9. ((IF taken = 0 THEN 0 ELSE 1) + Cardinality(Gaps(networks, taken)))'
          = 1 + Cardinality(Gaps(networks, taken + 1))
    BY <2>1, <2>3
  <2> QED  BY <1>1, <1>3, <1>5, <1>7, <1>8, <1>9, <2>1, <2>2, <2>4, <2>5, <2>6, <2>7, <2>8, <2>9 DEF RenderInv
<1>11. interval' \in Interval  BY <1>1, <1>5 DEF Interval
<1>12. taken' \in 0 .. Len(networks)  BY <1>1, <1>4
<1> QED  BY <1>1, <1>4, <1>10, <1>11, <1>12, RenderKeeps

\* Extend: a network that leaves no gap touches the interval in hand.
LEMMA ExtendStep ==
    ASSUME GeoInv, Extend PROVE GeoInv'
<1> DEFINE next == networks[taken + 1]
<1>1. /\ at = "extend" /\ at' = "extend" /\ taken < Len(networks) /\ taken' = taken + 1
      /\ ~GapAfter(interval.to, next)
      /\ interval' = [interval EXCEPT !.to =
                        IF Broadcast(next) > interval.to THEN Broadcast(next) ELSE interval.to]
      /\ UNCHANGED <<built, searched, elements>>
  BY DEF Extend
<1>2. Rendering  BY <1>1 DEF Rendering
<1>3. UNCHANGED <<networks, written>>  BY <1>1 DEF built
<1>4. RenderInv  BY DEF GeoInv
<1>5. /\ taken > 0 /\ interval.to = Broadcast(networks[taken]) /\ interval.from =< interval.to
      /\ \A i \in 1 .. Len(elements) : elements[i].to + 1 < interval.from
  BY <1>1, <1>2, <1>4 DEF RenderInv
<1>6. /\ taken \in Nat /\ written \in Nat /\ written = Len(networks) /\ taken + 1 \in 1 .. written
      /\ taken \in 1 .. written
      /\ ~Building /\ elements \in Seq(Interval) /\ Len(elements) \in Nat /\ interval \in Interval
      /\ interval.from \in Nat /\ interval.to \in 0 .. Top /\ interval.to \in Nat /\ Top \in Nat
  BY <1>1, <1>2, <1>5, RenderFacts
<1>7. /\ next.addr \in 0 .. Top /\ Broadcast(next) \in 0 .. Top /\ next.addr \in Nat
      /\ Broadcast(next) \in Nat /\ next.addr =< Broadcast(next) /\ interval.to < next.addr
  BY <1>2, <1>5, <1>6, RenderFacts
<1>8. next.addr = interval.to + 1
  BY <1>1, <1>6, <1>7 DEF GapAfter, SaturatingAdd
<1>9. interval' \in Interval /\ interval'.from = interval.from /\ interval'.to = Broadcast(next)
  <2>1. (IF Broadcast(next) > interval.to THEN Broadcast(next) ELSE interval.to) = Broadcast(next)
    BY <1>6, <1>7
  <2>2. interval' = [interval EXCEPT !.to = Broadcast(next)]  BY <1>1, <2>1
  <2> QED  BY <1>6, <1>7, <2>2 DEF Interval
<1>10. Spans' \cup Span(interval') = Covered(networks, 1 .. taken')
  <2>1. 1 .. taken' = (1 .. taken) \cup {taken + 1}  BY <1>1, <1>6
  <2>2. Covered(networks, 1 .. taken') = Covered(networks, 1 .. taken) \cup Hosts(next)
    BY <2>1 DEF Covered
  <2>3. Spans \cup Span(interval) = Covered(networks, 1 .. taken)  BY <1>1, <1>2, <1>4 DEF RenderInv
  <2>4. Span(interval') = Span(interval) \cup Hosts(next)
    BY <1>5, <1>6, <1>7, <1>8, <1>9 DEF Span, Hosts
  <2>5. Spans' = Spans  BY <1>1 DEF Spans, Span
  <2> QED  BY <2>2, <2>3, <2>4, <2>5
<1>11. Len(elements) + 1 = 1 + Cardinality(Gaps(networks, taken + 1))
  <2>1. Len(elements) + 1 = 1 + Cardinality(Gaps(networks, taken))
    BY <1>1, <1>2, <1>4, <1>5, <1>6 DEF RenderInv
  <2>2. ~GapAfter(Broadcast(networks[taken]), networks[taken + 1])  BY <1>1, <1>5
  <2>3. Cardinality(Gaps(networks, taken + 1)) = Cardinality(Gaps(networks, taken))
    BY <1>5, <1>6, <2>2, GapsGrow
  <2> QED  BY <2>1, <2>3
<1>12. RenderInv'
  <2>1. taken' =< written' /\ taken' > 0 /\ taken' # 0  BY <1>1, <1>3, <1>6
  <2>2. Covered(networks, 1 .. taken)' = Covered(networks, 1 .. taken')
    BY <1>3 DEF Covered, Hosts, Broadcast
  <2>3. Gaps(networks, taken)' = Gaps(networks, taken + 1)
    BY <1>1, <1>3 DEF Gaps, GapAfter, Broadcast, SaturatingAdd
  <2>5. \A i, j \in 1 .. Len(elements) : i < j => elements[i].to + 1 < elements[j].from
    BY <1>2, <1>4 DEF RenderInv
  <2>6. Broadcast(networks[taken])' = Broadcast(next)
    BY <1>1, <1>3 DEF Broadcast
  <2>7. (Spans \cup (IF at = "extend" THEN Span(interval) ELSE {}))' = Spans' \cup Span(interval')
    BY <1>1 DEF Span
  <2>8. (Len(elements) + (IF at = "extend" THEN 1 ELSE 0))' = Len(elements) + 1
    BY <1>1
  <2>9. ((IF taken = 0 THEN 0 ELSE 1) + Cardinality(Gaps(networks, taken)))'
          = 1 + Cardinality(Gaps(networks, taken + 1))
    BY <2>1, <2>3
  <2>10. interval'.from =< interval'.to  BY <1>5, <1>6, <1>7, <1>9
  <2> QED  BY <1>1, <1>3, <1>5, <1>9, <1>10, <1>11, <2>1, <2>2, <2>5, <2>6, <2>7, <2>8, <2>9, <2>10 DEF RenderInv
<1>13. taken' \in 0 .. Len(networks)  BY <1>1, <1>6
<1> QED  BY <1>1, <1>6, <1>9, <1>12, <1>13, RenderKeeps

\* WriteElement: the interval in hand ends before a gap, or before the end.
LEMMA WriteElementStep ==
    ASSUME GeoInv, WriteElement PROVE GeoInv'
<1>1. /\ at = "extend" /\ at' = "append"
      /\ taken < Len(networks) => GapAfter(interval.to, networks[taken + 1])
      /\ elements' = Append(elements, interval)
      /\ UNCHANGED <<built, searched, taken, interval>>
  BY DEF WriteElement
<1>2. Rendering  BY <1>1 DEF Rendering
<1>3. UNCHANGED <<networks, written>>  BY <1>1 DEF built
<1>4. RenderInv  BY DEF GeoInv
<1>5. /\ taken > 0 /\ interval.to = Broadcast(networks[taken]) /\ interval.from =< interval.to
      /\ \A i \in 1 .. Len(elements) : elements[i].to + 1 < interval.from
  BY <1>1, <1>2, <1>4 DEF RenderInv
<1>6. /\ taken \in Nat /\ written \in Nat /\ written = Len(networks) /\ taken =< written
      /\ taken \in 1 .. written
      /\ ~Building /\ elements \in Seq(Interval) /\ Len(elements) \in Nat /\ interval \in Interval
      /\ interval.from \in Nat /\ interval.to \in 0 .. Top /\ interval.to \in Nat /\ Top \in Nat
      /\ \A i \in 1 .. Len(elements) : elements[i].from \in Nat /\ elements[i].to \in Nat
  BY <1>1, <1>2, <1>5, RenderFacts
<1>7. /\ elements' \in Seq(Interval) /\ Len(elements') = Len(elements) + 1
      /\ elements'[Len(elements) + 1] = interval
      /\ \A i \in 1 .. Len(elements) : elements'[i] = elements[i]
  BY <1>1, <1>6
<1>8. 1 .. Len(elements') = (1 .. Len(elements)) \cup {Len(elements) + 1}  BY <1>6, <1>7
<1>9. Spans' = Spans \cup Span(interval)
  <2>1. Spans' = UNION {Span(elements'[i]) : i \in 1 .. Len(elements')}  BY DEF Spans, Span
  <2> QED  BY <2>1, <1>7, <1>8 DEF Spans
<1>10. ASSUME NEW i \in 1 .. Len(elements'), NEW j \in 1 .. Len(elements'), i < j
       PROVE  elements'[i].to + 1 < elements'[j].from
  <2>1. i \in 1 .. Len(elements)  BY <1>6, <1>7, <1>10
  <2>2. CASE j = Len(elements) + 1  BY <1>5, <1>7, <2>1, <2>2
  <2>3. CASE j \in 1 .. Len(elements)  BY <1>2, <1>4, <1>7, <1>10, <2>1, <2>3 DEF RenderInv
  <2> QED  BY <1>8, <2>2, <2>3
<1>11. ASSUME taken < written
       PROVE  /\ \A i \in 1 .. Len(elements') : elements'[i].to + 1 < networks[taken + 1].addr
              /\ GapAfter(Broadcast(networks[taken]), networks[taken + 1])
  <2>1. GapAfter(interval.to, networks[taken + 1])  BY <1>1, <1>6, <1>11
  <2>2. networks[taken + 1].addr \in Nat /\ networks[taken + 1].addr \in 0 .. Top
    <3>1. taken + 1 \in 1 .. written  BY <1>6, <1>11
    <3> QED  BY <1>2, <3>1, RenderFacts
  <2>3. interval.to + 1 < networks[taken + 1].addr
    BY <1>6, <2>1, <2>2 DEF GapAfter, SaturatingAdd
  <2>4. ASSUME NEW i \in 1 .. Len(elements') PROVE elements'[i].to + 1 < networks[taken + 1].addr
    <3>1. CASE i = Len(elements) + 1  BY <1>7, <2>3, <3>1
    <3>2. CASE i \in 1 .. Len(elements)
      <4>1. elements[i].to \in Nat /\ elements[i].to + 1 < interval.from  BY <1>5, <1>6, <3>2
      <4>2. interval.from \in Nat /\ interval.to \in Nat /\ interval.from =< interval.to
            /\ networks[taken + 1].addr \in Nat
        BY <1>5, <1>6, <2>2
      <4>3. \A x, y, z, v \in Nat : x + 1 < y /\ y =< z /\ z + 1 < v => x + 1 < v  OBVIOUS
      <4>4. elements[i].to + 1 < networks[taken + 1].addr  BY <2>3, <4>1, <4>2, <4>3
      <4> QED  BY <1>7, <3>2, <4>4
    <3> QED  BY <1>8, <3>1, <3>2
  <2> QED  BY <1>5, <2>1, <2>4
<1>12. RenderInv'
  <2>1. taken' =< written' /\ taken' # 0  BY <1>1, <1>3, <1>5, <1>6
  <2>2. Covered(networks, 1 .. taken)' = Covered(networks, 1 .. taken)
    BY <1>1, <1>3 DEF Covered, Hosts, Broadcast
  <2>3. Gaps(networks, taken)' = Gaps(networks, taken)
    BY <1>1, <1>3 DEF Gaps, GapAfter, Broadcast, SaturatingAdd
  <2>4. Spans \cup Span(interval) = Covered(networks, 1 .. taken)  BY <1>1, <1>2, <1>4 DEF RenderInv
  <2>5. (Spans \cup (IF at = "extend" THEN Span(interval) ELSE {}))' = Spans'
    BY <1>1
  <2>6. (Len(elements) + (IF at = "extend" THEN 1 ELSE 0))' = Len(elements) + 1
    BY <1>1, <1>6, <1>7
  <2>7. Len(elements) + 1 = 1 + Cardinality(Gaps(networks, taken))
    BY <1>1, <1>2, <1>4, <1>5, <1>6 DEF RenderInv
  <2>8. ((IF taken = 0 THEN 0 ELSE 1) + Cardinality(Gaps(networks, taken)))'
          = 1 + Cardinality(Gaps(networks, taken))
    BY <2>1, <2>3
  <2>9. (taken < written)' <=> taken < written  BY <1>1, <1>3
  <2>10. GapAfter(Broadcast(networks[taken]), networks[taken + 1])'
          <=> GapAfter(Broadcast(networks[taken]), networks[taken + 1])
    BY <1>1, <1>3 DEF GapAfter, Broadcast, SaturatingAdd
  <2> QED  BY <1>1, <1>3, <1>9, <1>10, <1>11, <2>1, <2>2, <2>4, <2>5, <2>6, <2>7, <2>8, <2>9, <2>10 DEF RenderInv
<1>13. taken' \in 0 .. Len(networks)  BY <1>1, <1>6
<1> QED  BY <1>1, <1>6, <1>7, <1>12, <1>13, RenderKeeps

\* The first state has read nothing.
LEMMA GeoStarts == GeoInit => GeoInv
<1> SUFFICES ASSUME GeoInit PROVE GeoInv  OBVIOUS
<1>1. /\ at = "read" /\ networks = listed /\ read = 0 /\ written = 0 /\ network = Anywhere
      /\ ip = 0 /\ low = 0 /\ high = 0
      /\ taken = 0 /\ interval = [from |-> 0, to |-> 0] /\ elements = <<>>
      /\ \A i, j \in 1 .. Len(listed) : i < j => AtMost(listed[i], listed[j])
  BY DEF GeoInit
<1>2. listed \in Seq(Network) /\ Len(listed) \in Nat
  <2>1. PICK n \in 0 .. MaxNetworks : listed \in [1 .. n -> Network]  BY DEF GeoInit
  <2> QED  BY <2>1, NetworksAreBounded
<1>3. Anywhere \in Network
  <2>1. 0 \in 0 .. Top /\ 0 \in 0 .. Width /\ Size(0) \in Nat /\ Size(0) > 0
    BY SizesArePositive
  <2>2. 0 % Size(0) = 0  BY <2>1
  <2> QED  BY <2>1, <2>2 DEF Anywhere, Network
<1>4. GeoTypeOK
  <2>1. interval \in Interval /\ ip \in 0 .. Top  BY <1>1, SizesArePositive DEF Interval
  <2>2. 0 \in 0 .. Len(listed)  BY <1>2
  <2> QED  BY <1>1, <1>2, <1>3, <2>1, <2>2 DEF GeoTypeOK
<1>5. Unread = 1 .. Len(listed) /\ Hand = {}  BY <1>1 DEF Unread, Hand
<1>6. ListInv  BY <1>1, <1>2, <1>5 DEF ListInv, Building
<1>7. ResultInv  BY <1>1, <1>2 DEF ResultInv
<1>8. CoverInv
  <2>1. Covered(networks, 1 .. written) = {}  BY <1>1 DEF Covered
  <2> QED  BY <2>1, <1>5 DEF CoverInv, All
<1>9. SearchInv /\ RenderInv  BY <1>1 DEF SearchInv, RenderInv, Rendering
<1> QED  BY <1>4, <1>6, <1>7, <1>8, <1>9 DEF GeoInv

\* Every step of aggregation, lookup and rendering keeps the invariant.
LEMMA GeoSteps == GeoInv /\ [GeoNext]_geoVars => GeoInv'
<1> SUFFICES ASSUME GeoInv, [GeoNext]_geoVars PROVE GeoInv'  OBVIOUS
<1>1. CASE ReadNext  BY <1>1, SkipStep, TakeStep
<1>2. CASE Merge  BY <1>2, MergeStep
<1>3. CASE Place  BY <1>3, PlaceStep
<1>4. CASE Truncate  BY <1>4, TruncateStep
<1>5. CASE (\E x \in 0 .. Top : Lookup(x)) \/ Bisect \/ Matched  BY <1>5, SearchSteps
<1>6. CASE Render \/ Rendered  BY <1>6, RenderEnds
<1>7. CASE TakeNetwork  BY <1>7, TakeNetworkStep
<1>8. CASE Extend  BY <1>8, ExtendStep
<1>9. CASE WriteElement  BY <1>9, WriteElementStep
<1>10. CASE UNCHANGED geoVars
  <2>1. /\ UNCHANGED <<listed, networks, read, written, network, ip, low, high>>
        /\ UNCHANGED <<taken, interval, elements, at>>
    BY <1>10 DEF geoVars, built, searched, rendered
  <2>2. GeoTypeOK'  BY <2>1 DEF GeoInv, GeoTypeOK
  <2>3. ListInv'  BY <2>1 DEF GeoInv, ListInv, Building, Unread, AtMost
  <2>4. ResultInv'
    BY <2>1 DEF GeoInv, ResultInv, Unread, AtMost, Broadcast, Siblings, Contains, Hosts, Supernet
  <2>5. CoverInv'  BY <2>1 DEF GeoInv, CoverInv, Covered, All, Hand, Unread, Hosts, Broadcast
  <2>6. SearchInv'  BY <2>1 DEF GeoInv, SearchInv
  <2>7. RenderInv'
    <3>1. /\ Spans' = Spans /\ Covered(networks, 1 .. taken)' = Covered(networks, 1 .. taken)
          /\ Span(interval)' = Span(interval)
      BY <2>1 DEF Spans, Span, Covered, Hosts, Broadcast
    <3>2. Gaps(networks, taken)' = Gaps(networks, taken)
      BY <2>1 DEF Gaps, GapAfter, SaturatingAdd, Broadcast
    <3> QED  BY <2>1, <3>1, <3>2 DEF GeoInv, RenderInv, Rendering, GapAfter, SaturatingAdd, Broadcast
  <2> QED  BY <2>2, <2>3, <2>4, <2>5, <2>6, <2>7 DEF GeoInv
<1> QED  BY <1>1, <1>2, <1>3, <1>4, <1>5, <1>6, <1>7, <1>8, <1>9, <1>10 DEF GeoNext

\* While the vector is rewritten nothing is lost.
LEMMA NothingLost == GeoInv => NothingIsLost
<1> SUFFICES ASSUME GeoInv, at \in {"read", "merge"} PROVE NothingIsLost  BY DEF NothingIsLost
<1>1. ListInv /\ CoverInv /\ Building  BY DEF GeoInv, Building
<1>2. Unread = (IF at = "merge" THEN read + 2 ELSE read + 1) .. Len(listed)  BY DEF Unread
<1>3. written =< read /\ Len(networks) = Len(listed) /\ \A i \in Unread : networks[i] = listed[i]
  BY <1>1 DEF ListInv
<1>4. Covered(networks, 1 .. written) \cup Hand \cup Covered(listed, Unread) = All
  BY <1>1 DEF CoverInv
<1> QED  BY <1>2, <1>3, <1>4 DEF NothingIsLost, Hand

\* The partition point answers for the whole list.
LEMMA BisectionAnswers ==
    ASSUME GeoInv, at = "search", low >= high
    PROVE  MatchesIp <=> ip \in All
<1>1. ~Building  BY DEF Building
<1>2. /\ written = Len(networks) /\ written \in Nat /\ \A i \in 1 .. written : networks[i] \in Network
  BY <1>1, ResultLength
<1>3. low \in Nat /\ high \in Nat /\ ip \in Nat  BY SizesArePositive DEF GeoInv, GeoTypeOK
<1>4. /\ low = high /\ low =< written
      /\ \A i \in 1 .. low : networks[i].addr =< ip
      /\ \A i \in low + 1 .. written : ip < networks[i].addr
  BY <1>3 DEF GeoInv, SearchInv
<1>5. All = Covered(networks, 1 .. written)
  <2>1. Unread = {} /\ Hand = {}  BY DEF Unread, Hand
  <2>2. Covered(listed, Unread) = {}  BY <2>1 DEF Covered
  <2> QED  BY <2>1, <2>2 DEF GeoInv, CoverInv
<1>6. \A i \in 1 .. written : networks[i].addr \in Nat /\ Broadcast(networks[i]) \in Nat
  BY <1>2, NetworkFields, NetworkEnds, SizesArePositive
<1>7. ASSUME MatchesIp PROVE ip \in All
  BY <1>2, <1>3, <1>4, <1>5, <1>7 DEF MatchesIp, Covered
<1>8. ASSUME ip \in All PROVE MatchesIp
  <2>1. PICK i \in 1 .. written : ip \in Hosts(networks[i])  BY <1>5, <1>8 DEF Covered
  <2>2. networks[i].addr =< ip /\ ip =< Broadcast(networks[i])  BY <1>3, <1>6, <2>1 DEF Hosts
  <2>3. i \in 1 .. low
    <3>1. ASSUME i \in low + 1 .. written PROVE FALSE
      <4>1. ip < networks[i].addr  BY <1>4, <3>1
      <4> QED  BY <1>3, <1>6, <2>2, <4>1
    <3> QED  BY <1>2, <1>3, <3>1
  <2>4. low \in 1 .. written /\ low \in 1 .. low  BY <1>2, <1>3, <1>4, <2>3
  <2>5. ASSUME i < low PROVE FALSE
    <3>1. Broadcast(networks[i]) < networks[low].addr  BY <2>4, <2>5 DEF GeoInv, ResultInv
    <3>2. networks[low].addr =< ip  BY <1>4, <2>4
    <3> QED  BY <1>3, <1>6, <2>2, <2>4, <3>1, <3>2
  <2>6. i = low  BY <1>3, <2>3, <2>5
  <2> QED  BY <2>1, <2>4, <2>6 DEF MatchesIp
<1> QED  BY <1>7, <1>8

\* The result is sorted, disjoint and shortest, and found by bisection.
LEMMA Searchable == GeoInv => ResultIsSearchable
<1> SUFFICES ASSUME GeoInv PROVE ResultIsSearchable  OBVIOUS
<1>1. ASSUME at \notin {"read", "merge"}, NEW i \in 1 .. Len(networks) - 1
      PROVE  Broadcast(networks[i]) < networks[i + 1].addr /\ ~Siblings(networks[i], networks[i + 1])
  <2>1. ~Building  BY <1>1 DEF Building
  <2>2. written = Len(networks) /\ written \in Nat  BY <2>1, ResultLength
  <2>3. i \in 1 .. written - 1 /\ i \in 1 .. written /\ i + 1 \in 1 .. written /\ i < i + 1  BY <2>2
  <2> QED  BY <2>3 DEF GeoInv, ResultInv
<1> QED  BY <1>1, BisectionAnswers DEF ResultIsSearchable

\* The elements are the list, apart, and as many as select counted.
LEMMA KernelSame == GeoInv => KernelAgrees
<1> SUFFICES ASSUME GeoInv, Complete PROVE KernelAgrees
  BY DEF KernelAgrees, KernelGetsTheSame, BudgetCountsElements
<1>1. at = "append" /\ taken = Len(networks) /\ Rendering  BY DEF Complete, Rendering
<1>2. /\ ~Building /\ taken = written /\ Len(elements) \in Nat /\ written \in Nat
      /\ written = Len(networks)
  BY <1>1, RenderFacts
<1>3. RenderInv /\ CoverInv  BY DEF GeoInv
<1>4. Spans = All
  <2>1. Spans = Covered(networks, 1 .. written)  BY <1>1, <1>2, <1>3 DEF RenderInv
  <2>2. Unread = {} /\ Hand = {}  BY <1>1 DEF Unread, Hand
  <2>3. Covered(listed, Unread) = {}  BY <2>2 DEF Covered
  <2> QED  BY <1>3, <2>1, <2>2, <2>3 DEF CoverInv
<1>5. UNION {elements[i].from .. elements[i].to : i \in 1 .. Len(elements)} = All
  BY <1>4 DEF Spans, Span
<1>6. ASSUME NEW i \in 1 .. Len(elements) - 1 PROVE elements[i].to + 1 < elements[i + 1].from
  <2>1. i \in 1 .. Len(elements) /\ i + 1 \in 1 .. Len(elements) /\ i < i + 1  BY <1>2
  <2> QED  BY <1>1, <1>3, <2>1 DEF RenderInv
<1>7. Len(elements) = IntervalCount(networks)
  <2>1. Len(elements) = (IF written = 0 THEN 0 ELSE 1) + Cardinality(Gaps(networks, written))
    BY <1>1, <1>2, <1>3 DEF RenderInv
  <2>2. networks = <<>> <=> written = 0
    <3>1. networks \in Seq(Network)  BY DEF GeoInv, GeoTypeOK
    <3> QED  BY <1>2, <3>1
  <2> QED  BY <1>2, <2>1, <2>2 DEF IntervalCount
<1>8. KernelGetsTheSame  BY <1>5, <1>6 DEF KernelGetsTheSame
<1>9. BudgetCountsElements  BY <1>7 DEF BudgetCountsElements, Accepted
<1> QED  BY <1>8, <1>9 DEF KernelAgrees

\* The invariant that the three loops keep: the result of aggregate_ipv4 so
\* far is sorted, disjoint, shortest and ahead of everything unread; the
\* partition point of matches_ip is between low and high; append_networks has
\* written what it has taken.
THEOREM GeoInvariant == GeoSpec => []GeoInv
<1>1. GeoInit => GeoInv  BY GeoStarts
<1>2. GeoInv /\ [GeoNext]_geoVars => GeoInv'  BY GeoSteps
<1> QED  BY <1>1, <1>2, PTL DEF GeoSpec

\* For every width of the addresses, every list and every address asked for:
\* aggregate_ipv4 loses no address of the vector it rewrites in place, its
\* result is sorted, disjoint and without halves left to merge, and matches_ip
\* finds in it exactly the addresses of the list.
THEOREM Aggregation == GeoSpec => []AggregationIsExact
<1>1. GeoInv => AggregationIsExact
  BY NothingLost, Searchable DEF AggregationIsExact, GeoInv
<1> QED  BY <1>1, GeoInvariant, PTL

\* For every width and every list: append_networks writes exactly the list's
\* addresses, in intervals that do not touch, also where the end saturates,
\* and exactly as many as select counted against the budget.
THEOREM KernelIntervals == GeoSpec => []KernelAgrees
BY KernelSame, GeoInvariant, PTL
=============================================================================
