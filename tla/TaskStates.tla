------------------------------ MODULE TaskStates ------------------------------
(***************************************************************************)
(* The task state machine: the states a task may be in, who is expected to *)
(* move it on, and the transitions every backend validates.                *)
(***************************************************************************)

\* No transition leaves these.
TERMINAL_STATES == {"Completed", "Failed", "Canceled", "Rejected"}

\* A running executor is expected to move the task on.
EXECUTOR_HELD_STATES == {"Submitted", "Working"}

\* The task waits for its client.
CLIENT_HELD_STATES == {"InputRequired", "AuthRequired"}

TaskState == TERMINAL_STATES \cup EXECUTOR_HELD_STATES \cup CLIENT_HELD_STATES

\* validate_transition returns Ok exactly for these pairs; a terminal
\* `current` is its TerminalState error, every other pair InvalidTransition.
ValidTransition(current, requested) ==
  \/ current = "Submitted"
     /\ requested \in {"Working", "Rejected", "Failed", "Canceled"}
  \/ current = "Working"
     /\ requested \in TERMINAL_STATES \cup CLIENT_HELD_STATES
  \/ current = "InputRequired"
     /\ requested \in TERMINAL_STATES \cup {"Working"}
  \/ current = "AuthRequired"
     /\ requested \in {"Working", "Failed", "Canceled", "Rejected"}
===============================================================================
