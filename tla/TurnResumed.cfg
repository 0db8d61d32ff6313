SPECIFICATION TurnSpec
CONSTANTS
  Tasks = {t1}
  Task = t1
  Owners = {o1}
  Owner = o1
  Items = {s1, a1}
  Configs = {}
  Writers = {s1}
  LeaseTimes = {"fresh", "lapsed"}
  NoLease = NoLease
  PushEnabled = FALSE
  MaxSeq = 6
  MaxAttempts = 1
  Instances = {i1}
  Sends = {s1}
  Immediate = {s1}
  Cancels = {c1}
  Loops = {"lease"}
  Emits = {"InputRequired", "Working"}
  Artifacts = {}
  TimeoutsElapse = TRUE
  NoTurn = NoTurn
  MaxCrashes = 0
  MaxLost = 0
  MaxDrops = 0
CHECK_DEADLOCK FALSE
INVARIANTS
  WorkingIsLeased
