SPECIFICATION Spec
CONSTANTS
  a = a
  b = b
  NoDeadline = NoDeadline
  MaxAttempts = 3
  MaxDelay = 2
  MaxCall = 1
  Operation <- MCOperation
  Plans <- MCPlans
  Deadlines <- MCDeadlines
INVARIANTS
  TypeOK
  CompleteMeansWhole
  AtMostOneLateRequest
  WindsDownInTime
PROPERTIES
  Terminates
