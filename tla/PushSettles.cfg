SPECIFICATION MCSpec
CONSTANTS
  Configs = {c1, c2}
  Instances = {i1}
  MaxAttempts = 2
  BackoffCap = 1
  RequestTimeout = 1
  ClaimExpiry = 3
  NoMarker = NoMarker
  Healthy = TRUE
  Faults = {"read", "list", "refresh", "claim", "attempt", "persist"}
  MaxFaults = 1
  MaxCrashes = 1
  MaxGeneration = 4
CHECK_DEADLOCK FALSE
INVARIANTS
  HealthyClaimLasts
PROPERTIES
  EveryDeliverySettles
