SPECIFICATION Spec
CONSTANTS
  Tasks = {t1}
  Owners = {o1, o2}
  Items = {i1}
  Configs = {c1}
  Writers = {w1, w2}
  LeaseTimes = {1}
  NoLease = NoLease
  PushEnabled = TRUE
  MaxSeq = 4
  MaxAttempts = 2
SYMMETRY Symmetry
INVARIANTS
  TerminalEndsLog
  FloorIsCounter
  EligibleHasMarker
PROPERTIES
  LogOnlyGrowsAtItsEnd
  MarkersSurviveRewrites
  ImplementsVerdict
