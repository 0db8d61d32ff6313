SPECIFICATION Spec
CONSTANTS
  Callers = {a, b, c}
  PushEnabled = TRUE
  MaxAttempts = 2
INVARIANTS
  NoOtherCircle
PROPERTIES
  CallsReturn
