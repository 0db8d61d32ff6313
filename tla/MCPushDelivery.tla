---------------------------- MODULE MCPushDelivery ----------------------------
(***************************************************************************)
(* TLC instances of PushDelivery.                                          *)
(***************************************************************************)
EXTENDS PushDelivery, TLC

Symmetry == Permutations(Instances) \cup Permutations(Configs)

\* At most one config is registered before the event.
OneConfig == Init /\ Cardinality({c \in Configs : Exists(c)}) <= 1

\* A server died with a POST to every config under way: the next sweep has all
\* their claims, and the marker, to see to.
AfterCrash ==
  /\ task = "terminal"
  /\ configs = [c \in Configs |-> "eligible"]
  /\ marker = 0
  /\ \E i \in Instances :
       claims = [c \in Configs |-> [status |-> "Attempting", claimant |-> i,
                   generation |-> 1, count |-> 1, ttl |-> ClaimExpiry]]
  /\ jobs = [j \in JobKeys |-> Idle]
  /\ workers = [k \in {} |-> 0]
  /\ faults = 0
  /\ crashes = MaxCrashes
  /\ lost = {}

MCSpec == (OneConfig \/ AfterCrash) /\ [][Next]_vars /\ Fairness
===============================================================================
