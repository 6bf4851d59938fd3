SPECIFICATION Spec
CONSTANTS
  parent = parent
  child = child
  Root = Root
  Resource <- MCResource
  Parent <- MCParent
  Lineage <- MCLineage
  Reusable = {}
  Run = {1}
  MaxLate = 1
  Forgetful = TRUE
PROPERTY
  FailedDeleteIsRetried
