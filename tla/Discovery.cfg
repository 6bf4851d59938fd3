SPECIFICATION Spec
CONSTANTS
  T = T
  c1 = c1
  c2 = c2
  c3 = c3
  Tenancy = T
  Compartment <- MCCompartment
  Region = {"r1", "r2"}
  Tenancies <- MCTenancies
  Scopes <- MCScopes
INVARIANTS
  TypeOK
  ExpandsToSubtrees
  CompleteMeansEverything
  CoveredExclusionHolds
PROPERTIES
  Terminates
