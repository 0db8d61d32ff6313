SPECIFICATION MCSpec
CONSTANTS
  Tasks = {t1}
  Task = t1
  Owners = {o1}
  Owner = o1
  Items = {s1}
  Configs = {s1}
  Writers = {}
  LeaseTimes = {}
  NoLease = NoLease
  PushEnabled = TRUE
  MaxSeq = 4
  MaxAttempts = 1
  Sends = {s1}
  Inline = {s1}
  Workers = {w1}
  Cancels = {}
  Emits = {"Completed"}
  IdleSweep = FALSE
  NoJob = NoJob
  MaxReceives = 1
  MaxFaults = 0
  Deployments = {{"inline", "stream"}}
  MaxInserts = 2
CHECK_DEADLOCK FALSE
PROPERTIES
  RecoveryQuiesces
