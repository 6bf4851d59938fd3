SPECIFICATION Spec
CONSTANTS
  v1 = v1
  v2 = v2
  s1 = s1
  s2 = s2
  t1 = t1
  t2 = t2
  list = list
  group = group
  gateway = gateway
  nat = nat
  InternetGateway = {gateway}
  MaxPort = 4
  Vnic <- MCVnic
  SubnetOf <- MCSubnetOf
  RouteTableOf <- MCRouteTableOf
  SecurityListsOf <- MCSecurityListsOf
  NsgsOf <- MCNsgsOf
  Networks <- MCNetworks
INVARIANT
  MissingEvidenceIsNull
