SPECIFICATION Spec
CONSTANTS
  i1 = i1
  a1 = a1
  v1 = v1
  b1 = b1
  b2 = b2
  Resource <- MCResource
  EvidenceType <- MCEvidenceType
  Compartment <- MCCompartment
  Collector <- MCCollector
  MaxWorkers = 2
  MaxAttempts = 1
  MaxChanges = 2
  Starts <- MCStarts
  Key <- MCKey
  Above <- MCAbove
  Credential = {"apiTokenSecretRef"}
  Kind <- MCKind
  Fields <- MCFields
  BaseUrl = "baseUrl"
  AllowAlternateHost = "allowAlternateHost"
  DryRun = "dryRun"
  Setups <- MCSetups
  Unreadable = Unreadable
INVARIANTS
  TypeOK
  SecretsStayReferences
  DryRunSendsNothing
  WithheldUntouched
  DeletesOnlyTheDead
  UploadedMeansComplete
PROPERTIES
  Exits
