SPECIFICATION Spec
CONSTANTS
  r1 = r1
  r2 = r2
  s1 = s1
  s2 = s2
  Id <- MCId
  Workloads <- MCWorkloads
  MaxAttempts = 2
INVARIANT
  FailureUploadsNothing
