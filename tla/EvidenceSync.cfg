SPECIFICATION Spec
CONSTANTS
  parent = parent
  child = child
  Root = Root
  Resource <- MCResource
  Parent <- MCParent
  Lineage <- MCLineage
  Reusable = {child}
  Run = {1, 2}
  MaxLate = 1
  Forgetful = FALSE
INVARIANTS
  TypeOK
PROPERTIES
  OnlyTheDeadAreErased
  Converges
