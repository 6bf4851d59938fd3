----------------------------- MODULE MCExposure -----------------------------
(* Two VNICs in two subnets that share a security list; the first also has  *)
(* a group of its own.  Four ports stand for 65535.  A route for one half of *)
(* the internet may lead to the gateway.                                    *)
EXTENDS Exposure, TLC

CONSTANTS v1, v2, s1, s2, t1, t2, list, group, gateway, nat

MCVnic == {v1, v2}
MCSubnetOf == v1 :> s1 @@ v2 :> s2
MCRouteTableOf == s1 :> t1 @@ s2 :> t2
MCSecurityListsOf == s1 :> {list} @@ s2 :> {list}
MCNsgsOf == v1 :> {group} @@ v2 :> {}

Cidr(f, public) == [type |-> "CIDR_BLOCK", family |-> f, public |-> public]
Tcp(source, min, max) ==
  [direction |-> "INGRESS", protocol |-> "6", source |-> source, min |-> min, max |-> max]

one4 == Tcp(Cidr(4, TRUE), 2, 2)
upTo6 == Tcp(Cidr(6, TRUE), Absent, 3)
all4 == [Tcp(Cidr(4, TRUE), Absent, Absent) EXCEPT !.protocol = "all"]
private == Tcp(Cidr(4, FALSE), 1, 1)
opaque == Tcp([type |-> "NETWORK_SECURITY_GROUP"], 4, 4)
service == Tcp([type |-> "SERVICE_CIDR_BLOCK"], 3, 3)
udp == [one4 EXCEPT !.protocol = "17", !.source = [type |-> "unreadable"]]
egress == [all4 EXCEPT !.direction = "EGRESS"]

Route(f, target) == [family |-> f, default |-> TRUE, target |-> target]
half == [Route(4, gateway) EXCEPT !.default = FALSE]

MCNetworks ==
  [families : [MCVnic -> {{}, {4}, {4, 6}}],
   routes : {t1 :> x @@ t2 :> y :
               x \in {{Route(4, nat), half}, {Route(4, gateway), Route(6, nat)}},
               y \in {{}, {half}, {Route(4, gateway), Route(6, gateway)}}},
   rules : {list :> x @@ group :> y :
              x \in {{private, one4}, {upTo6, service}, {all4}, {udp}},
              y \in {{egress}, {opaque}, {upTo6, one4}}}]
=============================================================================
