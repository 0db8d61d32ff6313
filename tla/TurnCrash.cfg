SPECIFICATION TurnSpec
CONSTANTS
  Tasks = {t1}
  Task = t1
  Owners = {o1}
  Owner = o1
  Items = {s1, a1}
  Configs = {}
  Writers = {s1}
  LeaseTimes = {"fresh", "lapsed"}
  NoLease = NoLease
  PushEnabled = FALSE
  MaxSeq = 5
  MaxAttempts = 1
  Instances = {i1, i2}
  Sends = {s1}
  Immediate = {}
  Cancels = {c1}
  Loops = {"lease", "stall"}
  Emits = {"Completed", "InputRequired"}
  Artifacts = {a1}
  TimeoutsElapse = TRUE
  NoTurn = NoTurn
  MaxCrashes = 1
  MaxLost = 1
  MaxDrops = 0
CHECK_DEADLOCK FALSE
INVARIANTS
  WorkingIsLeased
PROPERTIES
  WorkingEnds
  SendsAnswered
