SPECIFICATION Spec
CONSTANTS
  Configs = {c1, c2}
  Instances = {i1}
  MaxAttempts = 1
  BackoffCap = 0
  RequestTimeout = 1
  ClaimExpiry = 1
  NoMarker = NoMarker
  Healthy = FALSE
  Faults = {"claim"}
  MaxFaults = 1
  MaxCrashes = 1
  MaxGeneration = 2
SYMMETRY Symmetry
CHECK_DEADLOCK FALSE
INVARIANTS
  AttemptsWithinBudget
  OwedIsRecoverable
PROPERTIES
  OutcomeIsFinal
