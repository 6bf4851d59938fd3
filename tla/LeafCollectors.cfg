SPECIFICATION LeafSpec
CONSTANTS
  p = p
  q = q
  a = a
  b = b
  Kind = {"vpn", "networking", "load_balancer", "kms_vault", "object_storage", "storage"}
  Item = {p, q}
  Child = {a, b}
  ParentOf <- MCParentOf
  NameOf <- MCNameOf
  WithEndpoint = {p}
  Compartments = 2
  MaxChanges <- MCMaxChanges
  MaxFaults = 1
INVARIANTS
  LeafTypeOK
  CountsAreSeen
  SteadyIsReported
  ReportedIsSeen
