SPECIFICATION Spec
CONSTANTS
  vm = vm
  other = other
  v4 = v4
  v6 = v6
  w = w
  ip4 = ip4
  ip6 = ip6
  Instance = {vm, other}
  Vnic = {v4, v6, w}
  InstanceOf <- MCInstanceOf
  Private = {ip4}
  Ipv6 = {ip6}
  VnicOf <- MCVnicOf
  Compartments = 2
  MaxWorkers = 2
  MaxChanges = 1
  MaxFaults = 1
INVARIANTS TypeOK NoIsSeen YesIsSeen StillIsExact
