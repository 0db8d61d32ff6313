SPECIFICATION TurnSpec
CONSTANTS
  Tasks = {t1}
  Task = t1
  Owners = {o1}
  Owner = o1
  Items = {s1, s2, s3}
  Configs = {}
  Writers = {s1, s2, s3}
  LeaseTimes = {"fresh", "lapsed"}
  NoLease = NoLease
  PushEnabled = FALSE
  MaxSeq = 9
  MaxAttempts = 1
  Instances = {i1}
  Sends = {s1, s2, s3}
  Immediate = {s2, s3}
  Cancels = {c1}
  Loops = {"idle"}
  Emits = {"Completed", "InputRequired"}
  Artifacts = {}
  TimeoutsElapse = TRUE
  NoTurn = NoTurn
  MaxCrashes = 0
  MaxLost = 0
  MaxDrops = 1
SYMMETRY Symmetry
CHECK_DEADLOCK FALSE
INVARIANTS
  AnswerIsVerdict
  RunningIsRegistered
