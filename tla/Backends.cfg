CONSTANTS
  c1 = c1
  c2 = c2
  c3 = c3
  k1 = k1
  a1 = a1
  None = None
  Backends <- AllBackends
  Callers <- MCCallers
  Configs = {k1}
  Artifacts = {a1}
  MaxSeq = 4
  MaxPosts = 2
SPECIFICATION Spec
SYMMETRY CallerSymmetry
\* Every call ends.
CHECK_DEADLOCK FALSE
INVARIANTS
  SqliteEligibleHasMarker
  SqliteManifestHasBodies
PROPERTIES
  NumbersOnlyGrow
  OnlyMessagesRevive
  KnownConfigsGetMarker
  CancelStaysListed
  OutcomesAreFenced
  SweepKeepsRenewedLease
