--------------------------- MODULE ExposureProofs ---------------------------
(***************************************************************************)
(* The records of module Exposure tell the truth for every network, every  *)
(* number of VNICs, subnets, lists and rules, and every part of the        *)
(* network that may be missing from the evidence.                          *)
(***************************************************************************)
EXTENDS Exposure, TLAPS

USE NetworksAssumption, MaxPortAssumption

\* The part of TypeOK about the state; the rest of it speaks of what is derived.
StateOK == network \in Networks /\ seen \subseteq Evidence

\* What is there never changes, and only parts of it are seen.
LEMMA StateInvariance == Spec => []StateOK
<1>1. Init => StateOK
  BY DEF Init, StateOK
<1>2. StateOK /\ [Next]_vars => StateOK'
  BY DEF StateOK, Next, Collect, vars, Evidence, Subnets, RouteTables, RuleLists
<1> QED
  BY <1>1, <1>2, PTL DEF Spec

-----------------------------------------------------------------------------
(* The three ways a record comes about.                                     *)

\* A network has addresses for every VNIC, and rules for every list.
LEMMA NetworkShape ==
  ASSUME StateOK
  PROVE  /\ network.families \in [Vnic -> SUBSET Family]
         /\ network.rules \in [RuleLists -> SUBSET Rule]
  BY DEF StateOK, NetworksAssumption

\* The rules found are rules, each of a list of a VNIC examined.
LEMMA PublicRules ==
  ASSUME StateOK, NEW r \in public_rules
  PROVE  /\ r \in Rule
         /\ \E v \in examined : \E l \in ListsOf(v) \cap seen :
              r \in network.rules[l] /\ FromPublic(r, network.families[v])
<1>1. PICK v \in examined : \E l \in ListsOf(v) \cap seen :
        r \in network.rules[l] /\ FromPublic(r, network.families[v])
  BY DEF public_rules
<1>2. PICK l \in ListsOf(v) \cap seen :
        r \in network.rules[l] /\ FromPublic(r, network.families[v])
  BY <1>1
<1>3. l \in RuleLists
  BY <1>2 DEF RuleLists, ListsOf, examined, public_vnics
<1> QED
  BY <1>2, <1>3, NetworkShape

\* A rule of a list that was seen, that admits the public addresses of a VNIC examined, is found.
LEMMA InPublicRules ==
  ASSUME NEW v \in examined, NEW l \in ListsOf(v) \cap seen,
         NEW r \in network.rules[l], FromPublic(r, network.families[v])
  PROVE  r \in public_rules
  BY DEF public_rules

\* A definite record of an instance with a public address rests on complete evidence.
LEMMA DefiniteShape ==
  ASSUME Definite
  PROVE  /\ vnics_known
         /\ \/ /\ public_vnics = {}
               /\ facts = PublicIngressFacts("no", {}, "no", {})
            \/ /\ public_vnics # {}
               /\ route_evidence_complete /\ ingress_evidence_complete
               /\ facts = IF ~has_igw_route
                          THEN PublicIngressFacts("yes", {}, "no", {})
                          ELSE PublicIngressFacts("yes", named_ports,
                                 IF ranges = {} THEN "no" ELSE "yes", ranges)
<1>1. CASE ~vnics_known
  BY <1>1 DEF Definite, facts, PublicIngressFacts
<1>2. CASE vnics_known /\ public_vnics = {}
  BY <1>2 DEF facts
<1>3. CASE vnics_known /\ public_vnics # {}
  BY <1>3 DEF Definite, facts, PublicIngressFacts
<1> QED
  BY <1>1, <1>2, <1>3

-----------------------------------------------------------------------------
(* Soundness: what may be reached is reported.                              *)

\* In one state: a port that may be reached is a named port or lies in a range.
LEMMA SoundStep ==
  ASSUME StateOK, Definite, InternetGateway \subseteq seen, RoutedByDefault, NEW p \in Port, MayReach(p)
  PROVE  Reports(p)
<1>a. PICK v \in Vnic : \E f \in network.families[v] :
        /\ Routed(v, f)
        /\ \E l \in ListsOf(v) : \E r \in network.rules[l] : MayAdmit(r, f) /\ Between(r, p)
  BY DEF MayReach
<1>b. PICK f \in network.families[v] :
        /\ Routed(v, f)
        /\ \E l \in ListsOf(v) : \E r \in network.rules[l] : MayAdmit(r, f) /\ Between(r, p)
  BY <1>a
<1>c. PICK l \in ListsOf(v) : \E r \in network.rules[l] : MayAdmit(r, f) /\ Between(r, p)
  BY <1>b
<1>d. PICK r \in network.rules[l] : MayAdmit(r, f) /\ Between(r, p)
  BY <1>c
<1>1. Routed(v, f) /\ MayAdmit(r, f) /\ Between(r, p)
  BY <1>b, <1>d
<1>2. v \in public_vnics
  BY <1>1 DEF public_vnics
<1>3. /\ route_evidence_complete /\ ingress_evidence_complete
      /\ facts = IF ~has_igw_route
                 THEN PublicIngressFacts("yes", {}, "no", {})
                 ELSE PublicIngressFacts("yes", named_ports,
                        IF ranges = {} THEN "no" ELSE "yes", ranges)
  BY <1>2, DefiniteShape
<1>4. /\ v \in examined /\ l \in ListsOf(v) \cap seen
      /\ RouteTableOf[SubnetOf[v]] \in seen /\ ~Opaque(r)
  BY <1>1, <1>2, <1>3 DEF examined, route_evidence_complete, ingress_evidence_complete
<1>5. has_igw_route
  <2>1. PICK w \in Vnic : \E route \in Routes(w) :
          route.default /\ route.family \in network.families[w] /\ route.target \in InternetGateway
    BY <1>b DEF RoutedByDefault
  <2>2. w \in public_vnics
    BY <2>1 DEF public_vnics
  <2>3. w \in examined /\ RouteTableOf[SubnetOf[w]] \in seen
    BY <1>3, <2>2 DEF examined, route_evidence_complete
  <2> QED
    BY <2>1, <2>3 DEF has_igw_route
<1>6. r \in public_rules
  <2>1. FromPublic(r, network.families[v])
    BY <1>1, <1>4 DEF MayAdmit, FromPublic
  <2> QED
    BY <1>4, <2>1, InPublicRules
<1>7. facts.public_ingress_ports = named_ports /\ facts.public_ingress_port_ranges = ranges
  BY <1>3, <1>5 DEF PublicIngressFacts
<1>8. r \in Rule
  BY <1>6, PublicRules
<1>9. CASE IsNamedPort(r)
  <2>1. r.min = p
    BY <1>1, <1>8, <1>9 DEF IsNamedPort, Between, Rule, Port, Absent
  <2> QED
    BY <1>6, <1>7, <1>9, <2>1 DEF named_ports, Reports
<1>10. CASE ~IsNamedPort(r)
  <2>1. PortRange(r) \in ranges
    BY <1>6, <1>10 DEF ranges
  <2>2. PortRange(r)[1] <= p /\ p <= PortRange(r)[2]
    BY <1>1, <1>8 DEF PortRange, Between, Rule, Port, Absent, _ALL_PORTS
  <2> QED
    BY <1>7, <2>1, <2>2 DEF Reports
<1> QED
  BY <1>9, <1>10

\* A definite record leaves out no port the internet may reach, by whatever route, where
\* some VNIC of the instance has its gateway by a default route.
THEOREM Soundness == Spec => []DefiniteIsSound
<1>1. StateOK => DefiniteIsSound
  BY SoundStep DEF DefiniteIsSound
<1> QED
  BY <1>1, StateInvariance, PTL

-----------------------------------------------------------------------------
(* Exactness: what is reported may be reached.                              *)

\* In one state: the rule behind a reported port admits the internet to it.
LEMMA ExactStep ==
  ASSUME StateOK, Definite, NEW p \in Port, Reports(p),
         \A v \in Vnic : \A f \in network.families[v] : Routed(v, f)
  PROVE  MayReach(p)
<1>1. facts.public_ingress_ports \subseteq named_ports
      /\ facts.public_ingress_port_ranges \subseteq ranges
  BY DefiniteShape DEF PublicIngressFacts
<1>2. PICK r \in public_rules : Between(r, p)
  <2>1. CASE p \in named_ports
    <3>1. PICK r \in public_rules : IsNamedPort(r) /\ p = r.min
      BY <2>1 DEF named_ports
    <3> QED
      BY <3>1 DEF IsNamedPort, Between, Port
  <2>2. CASE \E b \in ranges : b[1] <= p /\ p <= b[2]
    <3>1. PICK r \in public_rules : PortRange(r)[1] <= p /\ p <= PortRange(r)[2]
      BY <2>2 DEF ranges
    <3> QED
      BY <3>1 DEF PortRange, Between
  <2> QED
    BY <1>1, <2>1, <2>2 DEF Reports
<1>3. r \in Rule
  BY PublicRules
<1>a. PICK v \in examined : \E l \in ListsOf(v) \cap seen :
        r \in network.rules[l] /\ FromPublic(r, network.families[v])
  BY PublicRules
<1>4. PICK l \in ListsOf(v) \cap seen :
        r \in network.rules[l] /\ FromPublic(r, network.families[v])
  BY <1>a
<1>5. v \in Vnic /\ r.source.family \in network.families[v]
  BY <1>4 DEF examined, public_vnics, FromPublic
<1>6. r.source.type = "CIDR_BLOCK" /\ r.source.public /\ IsTcpIngress(r)
  BY <1>4 DEF FromPublic
<1>7. r.source \in [type : {"CIDR_BLOCK"}, family : {r.source.family}, public : {TRUE}]
  BY <1>3, <1>6 DEF Rule, Source
<1>8. MayAdmit(r, r.source.family)
  BY <1>6, <1>7 DEF MayAdmit
<1> QED
  BY <1>2, <1>4, <1>5, <1>8 DEF MayReach

\* Where every public address is routed to the internet, a definite record names no
\* port that is closed.
THEOREM Exactness == Spec => []DefiniteIsExact
<1>1. StateOK => DefiniteIsExact
  BY ExactStep DEF DefiniteIsExact
<1> QED
  BY <1>1, StateInvariance, PTL

-----------------------------------------------------------------------------
(* Finality: more evidence does not change a definite record.               *)

\* One part more leaves a definite record as it is.
LEMMA FinalStep ==
  ASSUME Definite, InternetGateway \subseteq seen, Next
  PROVE  facts' = facts
<1>1. seen \subseteq seen' /\ network' = network
  BY DEF Next, Collect, vars
<1>2. vnics_known /\ vnics_known'
  BY <1>1, DefiniteShape DEF vnics_known
<1>3. public_vnics' = public_vnics
  BY <1>1 DEF public_vnics
<1>4. CASE public_vnics = {}
  BY <1>2, <1>3, <1>4 DEF facts, PublicIngressFacts
<1>5. CASE public_vnics # {}
  <2>1. route_evidence_complete /\ ingress_evidence_complete
    BY <1>5, DefiniteShape
  <2>2. route_evidence_complete' /\ ingress_evidence_complete'
    BY <1>1, <1>3, <2>1 DEF route_evidence_complete, ingress_evidence_complete
  <2>3. examined = public_vnics /\ examined' = public_vnics
    BY <1>1, <1>3, <2>1 DEF examined, route_evidence_complete
  <2>4. \A v \in public_vnics : ListsOf(v) \cap seen' = ListsOf(v) \cap seen
    BY <1>1, <2>1 DEF ingress_evidence_complete
  <2>5. public_rules' = public_rules
    BY <1>1, <2>3, <2>4 DEF public_rules
  <2>6. named_ports' = named_ports /\ ranges' = ranges
    BY <2>5 DEF named_ports, ranges
  <2>7. InternetGateway \cap seen' = InternetGateway \cap seen
    BY <1>1
  <2>8. has_igw_route' = has_igw_route
    BY <1>1, <2>1, <2>3, <2>7 DEF has_igw_route, Routes, route_evidence_complete
  <2> QED
    BY <1>2, <1>3, <1>5, <2>1, <2>2, <2>6, <2>8 DEF facts
<1> QED
  BY <1>4, <1>5

\* Two runs that see different parts of one network do not contradict each other.
THEOREM Finality == Spec => DefiniteIsFinal
<1>1. [Next]_vars => [Definite /\ InternetGateway \subseteq seen => facts' = facts]_vars
  BY FinalStep
<1> QED
  BY <1>1, PTL DEF Spec, DefiniteIsFinal

-----------------------------------------------------------------------------
\* The evidence is part of the network, and the reported ports and ranges are made of
\* ports, for an instance with a public address only.
THEOREM TypeCorrect == Spec => []TypeOK
<1>1. StateOK => named_ports \subseteq Port
  BY PublicRules DEF named_ports, IsNamedPort, Rule
<1>2. StateOK => ranges \subseteq Port \X Port
  <2> SUFFICES ASSUME StateOK, NEW r \in public_rules
               PROVE  PortRange(r) \in Port \X Port
    BY DEF ranges
  <2>1. r \in Rule
    BY PublicRules
  <2> QED
    BY <2>1 DEF PortRange, Rule, Port, _ALL_PORTS, Absent
<1>3. StateOK => TypeOK
  <2>1. ASSUME StateOK, ~vnics_known
        PROVE  facts = PublicIngressFacts("null", {}, "null", {})
    BY <2>1 DEF facts
  <2>2. ASSUME StateOK, vnics_known, public_vnics = {}
        PROVE  facts = PublicIngressFacts("no", {}, "no", {})
    BY <2>2 DEF facts
  <2>3. ASSUME StateOK, vnics_known, public_vnics # {}
        PROVE  \E ranged \in {"yes", "no", "null"} :
                 \/ facts = PublicIngressFacts("yes", named_ports, ranged, ranges)
                 \/ facts = PublicIngressFacts("yes", {}, ranged, {})
    BY <2>3 DEF facts
  <2> QED
    BY <1>1, <1>2, <2>1, <2>2, <2>3 DEF TypeOK, StateOK, PublicIngressFacts
<1> QED
  BY <1>3, StateInvariance, PTL

=============================================================================
