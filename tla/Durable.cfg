SPECIFICATION MCSpec
CONSTANTS
  Tasks = {t1}
  Task = t1
  Owners = {o1}
  Owner = o1
  Items = {s1, s2}
  Configs = {s1}
  Writers = {}
  LeaseTimes = {}
  NoLease = NoLease
  PushEnabled = TRUE
  MaxSeq = 6
  MaxAttempts = 1
  Sends = {s1, s2}
  Inline = {s1}
  Workers = {w1}
  Cancels = {c1}
  Emits = {"Completed", "InputRequired"}
  IdleSweep = TRUE
  NoJob = NoJob
  MaxReceives = 2
  MaxFaults = 1
  Deployments = {{}, {"inline", "stream"}, {"inline", "tick"}}
  MaxInserts = 2
CHECK_DEADLOCK FALSE
INVARIANTS
  HeldHasJob
  ExecutorHasCallback
  MarkedJobNeverRuns
PROPERTIES
  TurnsMoveOn
  DispatchHappens
