------------------------------ MODULE TaskVerdict ------------------------------
(***************************************************************************)
(* What clients are promised about a task, whoever writes to it: it opens  *)
(* once, it is settled at most once, by one of the four terminal states,   *)
(* the verdict is never revised, and only a settled task is ever removed.  *)
(***************************************************************************)
EXTENDS TaskStates

CONSTANT Tasks

VARIABLE life

Verdict == TERMINAL_STATES

TypeOK == life \in [Tasks -> {"absent", "open", "removed"} \cup Verdict]

Init == life = [t \in Tasks |-> "absent"]

Open(t) == life[t] = "absent" /\ life' = [life EXCEPT ![t] = "open"]

Settle(t) ==
  /\ life[t] = "open"
  /\ \E v \in Verdict : life' = [life EXCEPT ![t] = v]

Remove(t) == life[t] \in Verdict /\ life' = [life EXCEPT ![t] = "removed"]

Next == \E t \in Tasks : Open(t) \/ Settle(t) \/ Remove(t)

Spec == Init /\ [][Next]_life
===============================================================================
