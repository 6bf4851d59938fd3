------------------------------ MODULE Exposure ------------------------------
(***************************************************************************)
(* What transform.exposure derives about one instance from the network     *)
(* evidence at hand, next to what is true of its network.                  *)
(*                                                                         *)
(* The evidence is what the listings of the approved compartments          *)
(* returned.  Any part of the network may be missing from it: a listing    *)
(* may fail, and the parts of one network may live in compartments this    *)
(* run does not look at.  So every state is one run's evidence, and a step *)
(* is a run, or a listing, that sees one part more.                        *)
(***************************************************************************)
EXTENDS Naturals, FiniteSets

CONSTANTS
  Vnic,             \* instance.vnic_ids
  SubnetOf,         \* subnet of each VNIC
  RouteTableOf,     \* route table of each subnet
  SecurityListsOf,  \* security lists of each subnet
  NsgsOf,           \* network security groups of each VNIC
  InternetGateway,  \* the internet gateways among the targets of routes
  MaxPort,          \* 65535
  Networks          \* the networks to consider

Family == {4, 6}
Port == 1..MaxPort
_ALL_PORTS == <<1, MaxPort>>
Absent == 0

\* A source that is an address block and whether it overlaps publicSourceCidrs (both
\* as the ipaddress library decides), the two kinds of source that say nothing of
\* addresses, or one that cannot be read.
Source ==
  [type : {"CIDR_BLOCK"}, family : Family, public : BOOLEAN]
    \cup [type : {"SERVICE_CIDR_BLOCK", "NETWORK_SECURITY_GROUP", "unreadable"}]

\* min and max are those of destination_port_range, both absent if there is none.
Rule ==
  [direction : {"INGRESS", "EGRESS"}, protocol : {"6", "all", "17"}, source : Source,
   min : Port \cup {Absent}, max : Port \cup {Absent}]

Subnets == {SubnetOf[v] : v \in Vnic}
RouteTables == {RouteTableOf[s] : s \in Subnets}
RuleLists == UNION {SecurityListsOf[SubnetOf[v]] \cup NsgsOf[v] : v \in Vnic}

\* The rules that apply to a VNIC: those of its subnet and its own.
ListsOf(v) == SecurityListsOf[SubnetOf[v]] \cup NsgsOf[v]

\* public_addresses of each VNIC by family, the routes of each table that lead to public
\* addresses (default: to all of them, 0.0.0.0/0 or ::/0), and the rules of each list.
NetworksAssumption ==
  \A n \in Networks :
    /\ n.families \in [Vnic -> SUBSET Family]
    /\ DOMAIN n.routes = RouteTables
    /\ \A t \in RouteTables : \A route \in n.routes[t] :
         route.family \in Family /\ route.default \in BOOLEAN
    /\ n.rules \in [RuleLists -> SUBSET Rule]

ASSUME NetworksAssumption
ASSUME MaxPortAssumption == MaxPort \in Nat \ {0}

VARIABLES
  network,  \* what is there
  seen      \* the parts of it the collectors returned

vars == <<network, seen>>

Evidence == Vnic \cup Subnets \cup RouteTables \cup RuleLists \cup InternetGateway

-----------------------------------------------------------------------------
(* _public_ingress_from_rules: what one rule of a list says.                *)

IsTcpIngress(r) == r.direction = "INGRESS" /\ r.protocol \in {"6", "all"}

\* A rule that cannot be judged: its source is a group whose members are not
\* resolved, or does not parse.
Opaque(r) == IsTcpIngress(r) /\ r.source.type \in {"NETWORK_SECURITY_GROUP", "unreadable"}

\* A source of the other family counts.
AnyFamily(r, families) ==
  IsTcpIngress(r) /\ r.source.type = "CIDR_BLOCK" /\ r.source.public

FromPublic(r, families) ==
  /\ IsTcpIngress(r)
  /\ r.source.type = "CIDR_BLOCK" /\ r.source.public
  /\ r.source.family \in families

\* Equal bounds, even if both are absent.
EqualBounds(r) == r.min = r.max

IsNamedPort(r) == r.min # Absent /\ r.min = r.max

PortRange(r) ==
  <<IF r.min = Absent THEN _ALL_PORTS[1] ELSE r.min,
    IF r.max = Absent THEN _ALL_PORTS[2] ELSE r.max>>

-----------------------------------------------------------------------------
(* _derive_public_ingress_one.                                              *)

vnics_known == Vnic # {} /\ Vnic \subseteq seen

public_vnics == {v \in Vnic : network.families[v] # {}}

\* A VNIC whose subnet is missing is skipped.
examined == {v \in public_vnics : SubnetOf[v] \in seen}

\* The rules found that admit a public source to some public address.
public_rules ==
  UNION {UNION {{r \in network.rules[l] : FromPublic(r, network.families[v])} :
                l \in ListsOf(v) \cap seen} : v \in examined}

named_ports == {r.min : r \in {x \in public_rules : IsNamedPort(x)}}

ranges == {PortRange(r) : r \in {x \in public_rules : ~IsNamedPort(x)}}

\* A missing list of rules is taken for an empty one.
MissingListIsEmpty ==
  \A v \in public_vnics :
    /\ SubnetOf[v] \in seen
    /\ \A l \in ListsOf(v) \cap seen : \A r \in network.rules[l] : ~Opaque(r)

ingress_evidence_complete ==
  \A v \in public_vnics :
    /\ SubnetOf[v] \in seen
    /\ ListsOf(v) \subseteq seen
    /\ \A l \in ListsOf(v) : \A r \in network.rules[l] : ~Opaque(r)

\* A missing route table is taken for an empty one.
MissingTableIsEmpty == \A v \in public_vnics : SubnetOf[v] \in seen

route_evidence_complete ==
  \A v \in public_vnics : SubnetOf[v] \in seen /\ RouteTableOf[SubnetOf[v]] \in seen

Routes(v) == network.routes[RouteTableOf[SubnetOf[v]]]

\* _has_igw_route: a default route, in the families of the VNIC's public addresses.
has_igw_route ==
  \E v \in examined :
    /\ RouteTableOf[SubnetOf[v]] \in seen
    /\ \E route \in Routes(v) :
         /\ route.default /\ route.family \in network.families[v]
         /\ route.target \in InternetGateway \cap seen

PublicIngressFacts(address, ports, ranged, port_ranges) ==
  [has_public_address |-> address, public_ingress_ports |-> ports,
   has_ranged_public_ingress |-> ranged, public_ingress_port_ranges |-> port_ranges]

\* The facts of the record, "null" where the evidence does not decide.
facts ==
  IF ~vnics_known THEN PublicIngressFacts("null", {}, "null", {})
  ELSE IF public_vnics = {} THEN PublicIngressFacts("no", {}, "no", {})
  ELSE IF ~route_evidence_complete \/ ~ingress_evidence_complete
       THEN PublicIngressFacts("yes", named_ports, "null", ranges)
  ELSE IF ~has_igw_route THEN PublicIngressFacts("yes", {}, "no", {})
  ELSE PublicIngressFacts("yes", named_ports, IF ranges = {} THEN "no" ELSE "yes", ranges)

-----------------------------------------------------------------------------
Init == network \in Networks /\ seen = {}

\* A listing returns one part more.
Collect(e) ==
  /\ e \notin seen
  /\ seen' = seen \cup {e}
  /\ UNCHANGED network

Next ==
  \/ \E e \in Evidence : Collect(e)
  \/ seen = Evidence /\ UNCHANGED vars

Spec == Init /\ [][Next]_vars

-----------------------------------------------------------------------------
(* What is true of the network.                                             *)

\* The VNIC has a way to an internet gateway for some public addresses of the family, by a
\* default route or by one for part of the internet (0.0.0.0/1, a partner's block).
Routed(v, f) ==
  \E route \in Routes(v) : route.family = f /\ route.target \in InternetGateway

Between(r, p) == (r.min = Absent \/ r.min <= p) /\ (r.max = Absent \/ p <= r.max)

\* Some member of the source may be on the internet; of an opaque one nobody knows.
MayAdmit(r, f) ==
  \/ IsTcpIngress(r) /\ r.source \in [type : {"CIDR_BLOCK"}, family : {f}, public : {TRUE}]
  \/ Opaque(r)

\* A connection from the internet to a port of the instance may get through.
MayReach(p) ==
  \E v \in Vnic : \E f \in network.families[v] :
    /\ Routed(v, f)
    /\ \E l \in ListsOf(v) : \E r \in network.rules[l] : MayAdmit(r, f) /\ Between(r, p)

\* The record says the port is open, by its number or by a range.
Reports(p) ==
  \/ p \in facts.public_ingress_ports
  \/ \E b \in facts.public_ingress_port_ranges : b[1] <= p /\ p <= b[2]

Definite == facts.has_ranged_public_ingress # "null"

-----------------------------------------------------------------------------
(* Properties.                                                              *)

\* The evidence is part of the network; every reported port is a port, every
\* reported range a pair of ports, and an instance with no public address reports none.
TypeOK ==
  /\ network \in Networks
  /\ seen \subseteq Evidence
  /\ facts.has_public_address \in {"yes", "no", "null"}
  /\ facts.public_ingress_ports \subseteq Port
  /\ facts.has_ranged_public_ingress \in {"yes", "no", "null"}
  /\ facts.public_ingress_port_ranges \subseteq Port \X Port
  /\ facts.has_public_address # "yes" =>
       facts.public_ingress_ports = {} /\ facts.public_ingress_port_ranges = {}

\* If anything of the instance has a way to the internet, something of it has one by a
\* default route.  The code knows no other: of an instance that reaches its gateway by
\* 0.0.0.0/1 and 128.0.0.0/1 it says definitely that no port is open.
RoutedByDefault ==
  (\E v \in Vnic : \E f \in network.families[v] : Routed(v, f)) =>
    \E v \in Vnic : \E route \in Routes(v) :
      route.default /\ route.family \in network.families[v] /\ route.target \in InternetGateway

\* A definite record leaves out no port the internet may reach, whatever is missing
\* from the evidence but the internet gateways, where gateways are reached by default
\* routes: one such route of one VNIC opens the rules of all, those included that only
\* another route or another VNIC makes reachable.
DefiniteIsSound ==
  Definite /\ InternetGateway \subseteq seen /\ RoutedByDefault =>
    \A p \in Port : MayReach(p) => Reports(p)

\* It claims no port that is closed either, if every public address has a route to the
\* internet (else the routes of one VNIC and the rules of another add up).
DefiniteIsExact ==
  /\ Definite /\ InternetGateway \subseteq seen
  /\ \A v \in Vnic : \A f \in network.families[v] : Routed(v, f)
  => \A p \in Port : Reports(p) => MayReach(p)

\* More evidence never changes a definite record: two runs that see different parts of
\* an unchanged network never contradict each other.
DefiniteIsFinal ==
  [][Definite /\ InternetGateway \subseteq seen => facts' = facts]_vars

\* The module's docstring (exposure.py:5-6): "Missing route/rule/membership evidence
\* yields a null/incomplete fact; only no public address short-circuits to a definite
\* not-exposed".  Not so of a gateway that was not listed: the route to it counts
\* for nothing, and the record says definitely that no port is open.
MissingEvidenceIsNull ==
  Definite /\ RoutedByDefault => \A p \in Port : MayReach(p) => Reports(p)

=============================================================================
