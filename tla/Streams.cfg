SPECIFICATION StreamSpec
CONSTANTS
  Tasks = {t1}
  Owners = {o1}
  Items = {i1}
  Configs = {}
  Writers = {w1}
  LeaseTimes = {}
  NoLease = NoLease
  PushEnabled = FALSE
  MaxSeq = 4
  MaxAttempts = 1
  Streams = {s1}
CHECK_DEADLOCK FALSE
INVARIANTS
  NothingMissed
  EndsOnVerdict
  NoLostWakeup
PROPERTIES
  TerminalReachesStream
