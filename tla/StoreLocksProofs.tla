---------------------------- MODULE StoreLocksProofs ----------------------------
(***************************************************************************)
(* TLAPS proof that the in-memory store's calls wait for one another in a  *)
(* circle only where a create_config and a status commit stand against     *)
(* each other, for any number of callers, with push on or off.  Callers    *)
(* that each wait for a lock above all they hold, in whatever order of the *)
(* locks, form no circle.  Without a create_config that waits for the      *)
(* configs, one order has this property; without a status commit that      *)
(* waits for the rows, another.                                            *)
(***************************************************************************)
EXTENDS StoreLocks, WellFoundedInduction, TLAPS

\* An order of the locks with the configs before the rows, and one the other
\* way round.
ConfigsFirst == [l \in Locks |-> CASE l = "tasks" -> 2
                                   [] l = "event_counters" -> 3
                                   [] l = "events" -> 4
                                   [] l = "pending_dispatches" -> 5
                                   [] OTHER -> 1]

RowsFirst == [l \in Locks |-> CASE l = "push_configs" -> 2
                                [] l = "event_counters" -> 3
                                [] l = "events" -> 4
                                [] l = "pending_dispatches" -> 5
                                [] OTHER -> 1]

\* The locks a call holds when it has got to p in its plan.
Held(f, p) ==
  {l \in Locks : \E q \in 1..p-1 :
     /\ Plan[f][q].lock = l
     /\ Plan[f][q].does # "drop"
     /\ \A r \in q+1..p-1 : ~(Plan[f][r].lock = l /\ Plan[f][r].does = "drop")}

-------------------------------------------------------------------------------
(* The plans *)

PlanGood(f) ==
  /\ Len(Plan[f]) \in 1..6
  /\ \A p \in 1..Len(Plan[f]) :
       /\ Plan[f][p].lock \in Locks
       /\ Plan[f][p].does \in {"read", "write", "drop"}

\* At p the call waits, if it does, for a lock above all it holds.
Climbs(rank, f, p) ==
  Plan[f][p].does # "drop" => \A l \in Held(f, p) : rank[l] < rank[Plan[f][p].lock]

LEMMA RankValues ==
  /\ ConfigsFirst \in [Locks -> 1..5] /\ RowsFirst \in [Locks -> 1..5]
  /\ ConfigsFirst["push_configs"] = 1 /\ ConfigsFirst["tasks"] = 2
  /\ RowsFirst["tasks"] = 1 /\ RowsFirst["push_configs"] = 2
  /\ ConfigsFirst["event_counters"] = 3 /\ RowsFirst["event_counters"] = 3
  /\ ConfigsFirst["events"] = 4 /\ RowsFirst["events"] = 4
  /\ ConfigsFirst["pending_dispatches"] = 5 /\ RowsFirst["pending_dispatches"] = 5
  BY DEF ConfigsFirst, RowsFirst, Locks

\* A plan of one lock.
LEMMA OneLockPlan ==
  ASSUME NEW f, NEW l \in Locks, NEW m \in {"read", "write"},
         Plan[f] = <<[does |-> m, lock |-> l]>>
  PROVE  /\ PlanGood(f)
         /\ \A p \in 1..Len(Plan[f]) : Climbs(ConfigsFirst, f, p) /\ Climbs(RowsFirst, f, p)
<1>1. Held(f, 1) = {}
  BY DEF Held
<1>2. Len(Plan[f]) = 1 /\ Plan[f][1].does = m /\ Plan[f][1].lock = l
  OBVIOUS
<1>3. QED
  BY <1>1, <1>2 DEF PlanGood, Climbs

\* The commit of a row, which a status commit with push off shares.
LEMMA CommitRowPlan ==
  ASSUME NEW f, Plan[f] = CommitRow
  PROVE  /\ PlanGood(f)
         /\ \A p \in 1..Len(Plan[f]) : Climbs(ConfigsFirst, f, p) /\ Climbs(RowsFirst, f, p)
<1>1. Len(Plan[f]) = 3 /\ Plan[f][1] = Write("tasks") /\ Plan[f][2] = Write("event_counters")
      /\ Plan[f][3] = Write("events")
  BY DEF CommitRow
<1>2. Held(f, 1) = {} /\ Held(f, 2) \subseteq {"tasks"}
      /\ Held(f, 3) \subseteq {"tasks", "event_counters"}
  BY <1>1 DEF Held, Write
<1>3. PlanGood(f)
  BY <1>1 DEF PlanGood, Write, Locks
<1>4. \A p \in 1..3 : Climbs(ConfigsFirst, f, p) /\ Climbs(RowsFirst, f, p)
  BY <1>1, <1>2, RankValues DEF Climbs, Write
<1>5. QED
  BY <1>1, <1>3, <1>4

LEMMA CreateConfigPlan ==
  /\ PlanGood("create_config")
  /\ \A p \in 1..Len(Plan["create_config"]) :
       /\ Climbs(RowsFirst, "create_config", p)
       /\ Climbs(ConfigsFirst, "create_config", p)
            \/ Plan["create_config"][p].lock = "push_configs"
<1> DEFINE f == "create_config"
<1>1. /\ Len(Plan[f]) = 5
      /\ Plan[f][1] = Read("tasks") /\ Plan[f][2] = DropGuard("tasks")
      /\ Plan[f][3] = Read("tasks") /\ Plan[f][4] = Write("push_configs")
      /\ Plan[f][5] = DropGuard("push_configs")
  BY DEF Plan
<1>2. Held(f, 1) = {} /\ Held(f, 3) = {} /\ Held(f, 4) \subseteq {"tasks"}
  BY <1>1 DEF Held, Write, Read, DropGuard
<1>3. PlanGood(f)
  BY <1>1 DEF PlanGood, Write, Read, DropGuard, Locks
<1>4. \A p \in 1..5 : /\ Climbs(RowsFirst, f, p)
                      /\ Climbs(ConfigsFirst, f, p) \/ Plan[f][p].lock = "push_configs"
  BY <1>1, <1>2, RankValues DEF Climbs, Write, Read, DropGuard
<1>5. QED
  BY <1>1, <1>3, <1>4

LEMMA CleanupPlan ==
  /\ PlanGood("cleanup_expired")
  /\ \A p \in 1..Len(Plan["cleanup_expired"]) :
       Climbs(ConfigsFirst, "cleanup_expired", p) /\ Climbs(RowsFirst, "cleanup_expired", p)
<1> DEFINE f == "cleanup_expired"
<1>1. /\ Len(Plan[f]) = 6
      /\ Plan[f][1] = Write("push_delivery_claims")
      /\ Plan[f][2] = DropGuard("push_delivery_claims")
      /\ Plan[f][3] = Write("tasks") /\ Plan[f][4] = DropGuard("tasks")
      /\ Plan[f][5] = Write("events") /\ Plan[f][6] = DropGuard("events")
  BY DEF Plan, Cleanup
<1>2. Held(f, 1) = {} /\ Held(f, 3) = {} /\ Held(f, 5) = {}
  BY <1>1 DEF Held, Write, DropGuard
<1>3. PlanGood(f)
  BY <1>1 DEF PlanGood, Write, DropGuard, Locks
<1>4. \A p \in 1..6 : Climbs(ConfigsFirst, f, p) /\ Climbs(RowsFirst, f, p)
  BY <1>1, <1>2 DEF Climbs, Write, DropGuard
<1>5. QED
  BY <1>1, <1>3, <1>4

\* A status commit with push on takes the configs before the rows.
LEMMA StatusPlan ==
  ASSUME PushEnabled
  PROVE  /\ PlanGood("update_task_status_with_events")
         /\ \A p \in 1..Len(Plan["update_task_status_with_events"]) :
              /\ Climbs(ConfigsFirst, "update_task_status_with_events", p)
              /\ Climbs(RowsFirst, "update_task_status_with_events", p)
                   \/ Plan["update_task_status_with_events"][p].lock = "tasks"
<1> DEFINE f == "update_task_status_with_events"
<1>1. Plan[f] = <<Read("push_configs")>> \o CommitRow \o <<Write("pending_dispatches")>>
  BY DEF Plan, WhenPush
<1>2. /\ Len(Plan[f]) = 5
      /\ Plan[f][1] = Read("push_configs") /\ Plan[f][2] = Write("tasks")
      /\ Plan[f][3] = Write("event_counters") /\ Plan[f][4] = Write("events")
      /\ Plan[f][5] = Write("pending_dispatches")
  BY <1>1 DEF CommitRow
<1>3. /\ Held(f, 1) = {} /\ Held(f, 2) \subseteq {"push_configs"}
      /\ Held(f, 3) \subseteq {"push_configs", "tasks"}
      /\ Held(f, 4) \subseteq {"push_configs", "tasks", "event_counters"}
      /\ Held(f, 5) \subseteq {"push_configs", "tasks", "event_counters", "events"}
  BY <1>2 DEF Held, Write, Read
<1>4. PlanGood(f)
  BY <1>2 DEF PlanGood, Write, Read, Locks
<1>5. \A p \in 1..5 : /\ Climbs(ConfigsFirst, f, p)
                      /\ Climbs(RowsFirst, f, p) \/ Plan[f][p].lock = "tasks"
  BY <1>2, <1>3, RankValues DEF Climbs, Write, Read
<1>6. QED
  BY <1>2, <1>4, <1>5

\* The plans are well formed, and each order has one exception.
LEMMA PlansClimb ==
  ASSUME NEW f \in Calls
  PROVE  /\ PlanGood(f)
         /\ \A p \in 1..Len(Plan[f]) :
              /\ \/ Climbs(ConfigsFirst, f, p)
                 \/ f = "create_config" /\ Plan[f][p].lock = "push_configs"
              /\ \/ Climbs(RowsFirst, f, p)
                 \/ /\ PushEnabled /\ f = "update_task_status_with_events"
                    /\ Plan[f][p].lock = "tasks"
<1>1. CASE \/ f \in {"create_task_with_events", "update_task_with_events"}
           \/ ~PushEnabled /\ f = "update_task_status_with_events"
  <2>1. /\ Plan["create_task_with_events"] = CommitRow
        /\ Plan["update_task_with_events"] = CommitRow
    BY DEF Plan
  <2>2. ASSUME ~PushEnabled
        PROVE  Plan["update_task_status_with_events"] = CommitRow
    BY <2>2 DEF Plan, WhenPush, CommitRow
  <2>3. QED
    BY <1>1, <2>1, <2>2, CommitRowPlan
<1>2. CASE f \in {"get_task", "append_message", "get_events_after", "list_configs",
                  "delete_config", "claim_delivery", "delete_pending_dispatch"}
  <2>1. \E l \in Locks : Plan[f] \in {<<Read(l)>>, <<Write(l)>>}
    <3>1. /\ Plan["get_task"] = <<Read("tasks")>>
          /\ Plan["append_message"] = <<Write("tasks")>>
          /\ Plan["get_events_after"] = <<Read("events")>>
          /\ Plan["list_configs"] = <<Read("push_configs")>>
          /\ Plan["delete_config"] = <<Write("push_configs")>>
          /\ Plan["claim_delivery"] = <<Write("push_delivery_claims")>>
          /\ Plan["delete_pending_dispatch"] = <<Write("pending_dispatches")>>
      BY DEF Plan
    <3>2. QED
      BY <1>2, <3>1 DEF Locks
  <2>2. QED
    BY <2>1, OneLockPlan DEF Read, Write
<1>3. CASE f = "create_config"
  BY <1>3, CreateConfigPlan
<1>4. CASE f = "cleanup_expired"
  BY <1>4, CleanupPlan
<1>5. CASE PushEnabled /\ f = "update_task_status_with_events"
  BY <1>5, StatusPlan
<1>6. QED
  BY <1>1, <1>2, <1>3, <1>4, <1>5 DEF Calls, Plan

-------------------------------------------------------------------------------
(* Who holds and who waits *)

\* A guard is alive because the plan of its call took it and has not dropped it.
GuardsGood ==
  \A l \in Locks : \A g \in holders[l] :
    ~Idle(g.caller) /\ l \in Held(call[g.caller], pc[g.caller])

\* A request in a queue is the step its caller is at.
AtRequest(c, l) == Running(c) /\ Step(c).does # "drop" /\ Step(c).lock = l

RequestsGood == \A l \in Locks, c \in Callers : Waits(c, l) => AtRequest(c, l)

\* No caller is in a queue twice.
OnePlace ==
  \A l \in Locks : \A i, j \in DOMAIN queue[l] :
    queue[l][i].caller = queue[l][j].caller => i = j

LockInv ==
  /\ TypeOK
  /\ GuardsGood
  /\ RequestsGood
  /\ OnePlace

LEMMA HeldGrows ==
  ASSUME NEW f \in Calls, NEW p \in 1..Len(Plan[f]), NEW l \in Locks
  PROVE  /\ l \in Held(f, p) /\ ~(Plan[f][p].lock = l /\ Plan[f][p].does = "drop")
              => l \in Held(f, p + 1)
         /\ l = Plan[f][p].lock /\ Plan[f][p].does # "drop" => l \in Held(f, p + 1)
<1>1. p \in Nat \ {0} /\ p \in 1..(p + 1) - 1
  BY PlansClimb DEF PlanGood
<1>2. ASSUME l \in Held(f, p), ~(Plan[f][p].lock = l /\ Plan[f][p].does = "drop")
      PROVE  l \in Held(f, p + 1)
  <2>1. PICK q \in 1..p-1 :
          /\ Plan[f][q].lock = l
          /\ Plan[f][q].does # "drop"
          /\ \A r \in q+1..p-1 : ~(Plan[f][r].lock = l /\ Plan[f][r].does = "drop")
    BY <1>2 DEF Held
  <2>2. q \in 1..(p + 1) - 1 /\ \A r \in q+1..(p + 1) - 1 : r \in q+1..p-1 \/ r = p
    BY <1>1
  <2>3. QED
    BY <1>2, <2>1, <2>2 DEF Held
<1>3. ASSUME l = Plan[f][p].lock, Plan[f][p].does # "drop"
      PROVE  l \in Held(f, p + 1)
  <2>1. p+1..(p + 1) - 1 = {}
    BY <1>1
  <2>2. QED
    BY <1>1, <1>3, <2>1 DEF Held
<1>4. QED
  BY <1>2, <1>3

\* A queue without the request at i.
LEMMA Removed ==
  ASSUME NEW S, NEW q \in Seq(S), NEW i \in 1..Len(q)
  PROVE  /\ RemoveAt(q, i) \in Seq(S)
         /\ Len(RemoveAt(q, i)) = Len(q) - 1
         /\ \A j \in 1..Len(q)-1 : RemoveAt(q, i)[j] = IF j < i THEN q[j] ELSE q[j+1]
<1> DEFINE before == SubSeq(q, 1, i-1)
           behind == SubSeq(q, i+1, Len(q))
<1>1. /\ before \in Seq(S) /\ Len(before) = i - 1
      /\ \A j \in 1..i-1 : before[j] = q[j]
  OBVIOUS
<1>2. /\ behind \in Seq(S) /\ Len(behind) = Len(q) - i
      /\ \A j \in 1..Len(q)-i : behind[j] = q[i+j]
  OBVIOUS
<1>3. RemoveAt(q, i) = before \o behind
  BY DEF RemoveAt
<1> HIDE DEF before, behind
<1>4. RemoveAt(q, i) \in Seq(S) /\ Len(RemoveAt(q, i)) = Len(q) - 1
  BY <1>1, <1>2, <1>3
<1>5. ASSUME NEW j \in 1..Len(q)-1
      PROVE  RemoveAt(q, i)[j] = IF j < i THEN q[j] ELSE q[j+1]
  <2>1. CASE j < i
    BY <1>1, <1>2, <1>3, <2>1
  <2>2. CASE ~(j < i)
    <3>1. j - (i - 1) \in 1..Len(q)-i /\ i + (j - (i - 1)) = j + 1
      BY <2>2
    <3>2. (before \o behind)[j] = behind[j - (i - 1)]
      BY <1>1, <1>2, <2>2
    <3>3. QED
      BY <1>2, <1>3, <2>2, <3>1, <3>2
  <2>3. QED
    BY <2>1, <2>2
<1>6. QED
  BY <1>4, <1>5

\* The request at the head is granted.
LEMMA Granted ==
  ASSUME NEW q \in Seq(Guard), q # <<>>
  PROVE  /\ Head(q) \in Guard /\ Head(q) = q[1] /\ 1 \in DOMAIN q
         /\ Tail(q) \in Seq(Guard)
         /\ DOMAIN Tail(q) = 1..Len(q)-1
         /\ \A j \in 1..Len(q)-1 : Tail(q)[j] = q[j+1]
  OBVIOUS

LEMMA LockInit == Init => LockInv
<1> SUFFICES ASSUME Init PROVE LockInv
  OBVIOUS
<1>1. 0 \in 0..MaxAttempts-1 /\ 1 \in 1..7 /\ <<>> \in Seq(Guard)
  BY AttemptsAssumption
<1>2. TypeOK
  BY <1>1 DEF Init, TypeOK
<1>3. QED
  BY <1>2 DEF Init, LockInv, GuardsGood, RequestsGood, OnePlace, Waits

LEMMA CallerFacts ==
  ASSUME LockInv, NEW c \in Callers, Running(c)
  PROVE  /\ call[c] \in Calls /\ pc[c] \in 1..Len(Plan[call[c]])
         /\ Step(c).lock \in Locks /\ pc[c] + 1 \in 1..7
         /\ Step(c).does # "drop" => Request(c) \in Guard
         /\ Plan[call[c]][pc[c]] = Step(c)
<1>1. call[c] \in Calls /\ pc[c] \in 1..7 /\ ~(pc[c] > Len(Plan[call[c]]))
  BY DEF LockInv, TypeOK, Running, Done, Idle
<1>2. PlanGood(call[c])
  BY <1>1, PlansClimb
<1>3. pc[c] \in 1..Len(Plan[call[c]]) /\ pc[c] + 1 \in 1..7
  BY <1>1, <1>2 DEF PlanGood
<1>4. QED
  BY <1>1, <1>2, <1>3 DEF PlanGood, Step, Request, Guard

LEMMA QueueFacts ==
  ASSUME LockInv, NEW l \in Locks
  PROVE  /\ queue[l] \in Seq(Guard) /\ Len(queue[l]) \in Nat
         /\ DOMAIN queue[l] = 1..Len(queue[l])
         /\ \A i \in DOMAIN queue[l] :
              queue[l][i] \in Guard /\ queue[l][i].caller \in Callers
<1>1. queue[l] \in Seq(Guard)
  BY DEF LockInv, TypeOK
<1>2. \A i \in 1..Len(queue[l]) : queue[l][i] \in Guard
  BY <1>1
<1>3. \A g \in Guard : g.caller \in Callers
  BY DEF Guard
<1>4. QED
  BY <1>1, <1>2, <1>3

\* A caller that does not move stays at its request.
LEMMA StaysAt ==
  ASSUME NEW d \in Callers, NEW l \in Locks, call'[d] = call[d], pc'[d] = pc[d],
         AtRequest(d, l)
  PROVE  AtRequest(d, l)'
  BY DEF AtRequest, Running, Done, Idle, Step

\* The step of a caller that goes on in its plan: no guard loses its ground.
LEMMA AdvanceKeepsGuards ==
  ASSUME LockInv, NEW c \in Callers, Running(c), Advance(c),
         \A l \in Locks : \A g \in holders'[l] :
           \/ g \in holders[l] /\ ~(g.caller = c /\ Step(c).lock = l /\ Step(c).does = "drop")
           \/ g.caller = c /\ l = Step(c).lock /\ Step(c).does # "drop"
  PROVE  GuardsGood'
<1> SUFFICES ASSUME NEW l \in Locks, NEW g \in holders'[l]
             PROVE  ~Idle(g.caller)' /\ l \in Held(call'[g.caller], pc'[g.caller])
  BY DEF GuardsGood, Idle
<1>1. /\ call' = call /\ pc'[c] = pc[c] + 1 /\ \A d \in Callers \ {c} : pc'[d] = pc[d]
      /\ call[c] # "idle"
  BY DEF Advance, LockInv, TypeOK, Running, Idle
<1>2. g \in holders[l] => /\ g.caller \in Callers /\ call[g.caller] # "idle"
                          /\ l \in Held(call[g.caller], pc[g.caller])
  BY DEF LockInv, TypeOK, GuardsGood, Guard, Idle
<1>3. CASE g.caller = c
  BY <1>1, <1>2, <1>3, CallerFacts, HeldGrows DEF Idle
<1>4. CASE g.caller # c
  BY <1>1, <1>2, <1>4 DEF Idle
<1>5. QED
  BY <1>3, <1>4

\* The queues when one caller goes on that is in none of them.
LEMMA AdvanceKeepsQueues ==
  ASSUME LockInv, NEW c \in Callers, Advance(c), UNCHANGED queue,
         \A l \in Locks : ~Waits(c, l)
  PROVE  RequestsGood' /\ OnePlace'
<1>1. \A d \in Callers \ {c} : pc'[d] = pc[d] /\ call'[d] = call[d]
  BY DEF Advance, LockInv, TypeOK
<1>2. OnePlace'
  BY DEF LockInv, OnePlace
<1>3. ASSUME NEW l \in Locks, NEW d \in Callers, Waits(d, l)
      PROVE  AtRequest(d, l)'
  BY <1>1, <1>3, StaysAt DEF LockInv, RequestsGood
<1>4. RequestsGood'
  BY <1>3 DEF RequestsGood, Waits
<1>5. QED
  BY <1>2, <1>4

LEMMA BeginKeeps ==
  ASSUME LockInv, NEW c \in Callers, NEW f \in Calls, Begin(c, f)
  PROVE  LockInv'
<1>1. 0 \in 0..MaxAttempts-1
  BY AttemptsAssumption
<1>2. TypeOK'
  BY <1>1 DEF Begin, LockInv, TypeOK
<1>3. /\ \A d \in Callers \ {c} : pc'[d] = pc[d] /\ call'[d] = call[d]
      /\ call[c] = "idle" /\ UNCHANGED <<holders, queue>>
  BY DEF Begin, LockInv, TypeOK, Idle
<1>4. GuardsGood'
  BY <1>3 DEF LockInv, TypeOK, GuardsGood, Guard, Idle
<1>5. \A l \in Locks : ~Waits(c, l)
  BY <1>3 DEF LockInv, RequestsGood, AtRequest, Running, Idle
<1>6. RequestsGood' /\ OnePlace'
  <2>1. ASSUME NEW l \in Locks, NEW d \in Callers, Waits(d, l)
        PROVE  AtRequest(d, l)'
    BY <1>3, <1>5, <2>1, StaysAt DEF LockInv, RequestsGood
  <2>2. QED
    BY <1>3, <2>1 DEF LockInv, OnePlace, RequestsGood, Waits
<1>7. QED
  BY <1>2, <1>4, <1>6 DEF LockInv

LEMMA AcquireKeeps ==
  ASSUME LockInv, NEW c \in Callers, Acquire(c)
  PROVE  LockInv'
<1> DEFINE l0 == Step(c).lock
<1>1. /\ Running(c) /\ Advance(c) /\ Step(c).does # "drop" /\ UNCHANGED queue
      /\ queue[l0] = <<>> /\ holders' = [holders EXCEPT ![l0] = @ \cup {Request(c)}]
  BY DEF Acquire
<1>2. TypeOK'
  BY <1>1, CallerFacts DEF Advance, LockInv, TypeOK
<1>3. GuardsGood'
  <2>1. \A l \in Locks : \A g \in holders'[l] :
          g \in holders[l] \/ (g.caller = c /\ l = l0)
    BY <1>1 DEF LockInv, TypeOK, Request
  <2>2. QED
    BY <1>1, <2>1, AdvanceKeepsGuards
<1>4. \A l \in Locks : ~Waits(c, l)
  BY <1>1 DEF LockInv, RequestsGood, AtRequest, Waits
<1>5. QED
  BY <1>1, <1>2, <1>3, <1>4, AdvanceKeepsQueues DEF LockInv

LEMMA ReleaseKeeps ==
  ASSUME LockInv, NEW c \in Callers, Release(c)
  PROVE  LockInv'
<1> DEFINE l0 == Step(c).lock
<1>1. /\ Running(c) /\ Advance(c) /\ Step(c).does = "drop" /\ UNCHANGED queue
      /\ holders' = [holders EXCEPT ![l0] = Without(@, c)]
  BY DEF Release
<1>2. TypeOK'
  BY <1>1, CallerFacts DEF Advance, LockInv, TypeOK, Without
<1>3. GuardsGood'
  <2>1. \A l \in Locks : \A g \in holders'[l] :
          g \in holders[l] /\ ~(g.caller = c /\ l = l0)
    BY <1>1 DEF LockInv, TypeOK, Without
  <2>2. QED
    BY <1>1, <2>1, AdvanceKeepsGuards
<1>4. \A l \in Locks : ~Waits(c, l)
  BY <1>1 DEF LockInv, RequestsGood, AtRequest, Waits
<1>5. QED
  BY <1>1, <1>2, <1>3, <1>4, AdvanceKeepsQueues DEF LockInv

LEMMA EnqueueKeeps ==
  ASSUME LockInv, NEW c \in Callers, Enqueue(c)
  PROVE  LockInv'
<1> DEFINE l0 == Step(c).lock
           q == queue[l0]
<1>1. /\ Running(c) /\ Step(c).does # "drop" /\ ~Waiting(c)
      /\ queue' = [queue EXCEPT ![l0] = Append(q, Request(c))]
      /\ UNCHANGED <<call, pc, attempt, holders>>
  BY DEF Enqueue
<1>2. l0 \in Locks /\ Request(c) \in Guard /\ Request(c).caller = c /\ q \in Seq(Guard)
  BY <1>1, CallerFacts DEF Request, LockInv, TypeOK
<1>3. \A l \in Locks : \A i \in DOMAIN queue[l] : queue[l][i].caller # c
  BY <1>1 DEF Waiting, Waits
<1>4. /\ Append(q, Request(c)) \in Seq(Guard)
      /\ DOMAIN Append(q, Request(c)) = 1..Len(q)+1
      /\ DOMAIN q = 1..Len(q) /\ Len(q) \in Nat
      /\ \A i \in 1..Len(q) : Append(q, Request(c))[i] = q[i]
      /\ Append(q, Request(c))[Len(q)+1] = Request(c)
  BY <1>2
<1> DEFINE longer == Append(q, Request(c))
<1>5. \A l \in Locks : queue'[l] = IF l = l0 THEN longer ELSE queue[l]
  BY <1>1 DEF LockInv, TypeOK
<1> HIDE DEF longer
<1>6. TypeOK'
  BY <1>1, <1>4, <1>5 DEF LockInv, TypeOK, longer
<1>7. GuardsGood'
  BY <1>1 DEF LockInv, GuardsGood, Idle
<1>8. RequestsGood'
  <2>1. ASSUME NEW l \in Locks, l = l0
        PROVE  AtRequest(c, l)'
    BY <1>1, <2>1 DEF AtRequest, Running, Done, Idle, Step
  <2>2. ASSUME NEW l \in Locks, NEW d \in Callers, Waits(d, l)
        PROVE  AtRequest(d, l)'
    BY <1>1, <2>2, StaysAt DEF LockInv, RequestsGood
  <2>3. ASSUME NEW l \in Locks, NEW d \in Callers, Waits(d, l)'
        PROVE  Waits(d, l) \/ (d = c /\ l = l0)
    <3>1. PICK i \in DOMAIN queue'[l] : queue'[l][i].caller = d
      BY <2>3 DEF Waits
    <3>2. CASE l # l0
      BY <1>5, <3>1, <3>2 DEF Waits
    <3>3. CASE l = l0
      <4>1. i \in 1..Len(q)+1 /\ longer[i].caller = d
        BY <1>4, <1>5, <3>1, <3>3 DEF longer
      <4>2. CASE i \in 1..Len(q)
        BY <1>4, <3>3, <4>1, <4>2 DEF Waits, longer
      <4>3. CASE i = Len(q) + 1
        BY <1>2, <1>4, <3>3, <4>1, <4>3 DEF longer
      <4>4. QED
        BY <1>4, <4>1, <4>2, <4>3
    <3>4. QED
      BY <3>2, <3>3
  <2>4. QED
    BY <2>1, <2>2, <2>3 DEF RequestsGood
<1>9. OnePlace'
  BY <1>1, <1>2, <1>3, <1>4, <1>5 DEF LockInv, OnePlace, longer
<1>10. QED
  BY <1>6, <1>7, <1>8, <1>9 DEF LockInv

\* The head of the queue has its caller's only request.
LEMMA GrantKeeps ==
  ASSUME LockInv, NEW c \in Callers, Grant(c)
  PROVE  LockInv'
<1>1. PICK l0 \in Locks :
        /\ queue[l0] # <<>>
        /\ Head(queue[l0]).caller = c
        /\ holders' = [holders EXCEPT ![l0] = @ \cup {Head(queue[l0])}]
        /\ queue' = [queue EXCEPT ![l0] = Tail(@)]
  BY DEF Grant
<1> DEFINE q == queue[l0]
           rest == Tail(q)
<1>2. /\ q \in Seq(Guard) /\ Len(q) \in Nat /\ DOMAIN q = 1..Len(q)
      /\ Head(q) \in Guard /\ Head(q) = q[1] /\ 1 \in DOMAIN q
      /\ rest \in Seq(Guard)
      /\ DOMAIN rest = 1..Len(q)-1
      /\ \A j \in 1..Len(q)-1 : rest[j] = q[j+1] /\ j + 1 \in DOMAIN q /\ j + 1 # 1
  BY <1>1, QueueFacts, Granted
<1> HIDE DEF rest
<1>3. /\ Advance(c) /\ Waits(c, l0)
      /\ \A l \in Locks : queue'[l] = IF l = l0 THEN rest ELSE queue[l]
  BY <1>1, <1>2 DEF Grant, Waits, LockInv, TypeOK, rest
<1>4. Running(c) /\ Step(c).does # "drop" /\ Step(c).lock = l0
  BY <1>3 DEF LockInv, RequestsGood, AtRequest
<1>5. TypeOK'
  BY <1>1, <1>2, <1>3, <1>4, CallerFacts DEF Advance, LockInv, TypeOK, rest
<1>6. GuardsGood'
  <2>1. \A l \in Locks : \A g \in holders'[l] :
          g \in holders[l] \/ (g.caller = c /\ l = l0)
    BY <1>1 DEF LockInv, TypeOK
  <2>2. QED
    BY <1>3, <1>4, <2>1, AdvanceKeepsGuards
<1>7. ASSUME NEW l \in Locks, NEW i \in DOMAIN queue'[l]
      PROVE  \E j \in DOMAIN queue[l] :
               /\ j = (IF l = l0 THEN i + 1 ELSE i)
               /\ queue'[l][i] = queue[l][j] /\ queue[l][j].caller \in Callers \ {c}
  <2>1. CASE l = l0
    BY <1>1, <1>2, <1>3, <2>1, QueueFacts DEF LockInv, OnePlace
  <2>2. CASE l # l0
    <3>1. ~Waits(c, l)
      BY <1>4, <2>2 DEF LockInv, RequestsGood, AtRequest
    <3>2. QED
      BY <1>3, <2>2, <3>1, QueueFacts DEF Waits
  <2>3. QED
    BY <2>1, <2>2
<1>8. RequestsGood'
  <2>1. ASSUME NEW l \in Locks, NEW d \in Callers, Waits(d, l)'
        PROVE  Waits(d, l) /\ d # c
    BY <1>7, <2>1 DEF Waits
  <2>2. ASSUME NEW l \in Locks, NEW d \in Callers \ {c}, Waits(d, l)
        PROVE  AtRequest(d, l)'
    BY <1>3, <2>2, StaysAt DEF LockInv, TypeOK, RequestsGood, Advance
  <2>3. QED
    BY <2>1, <2>2 DEF RequestsGood
<1>9. OnePlace'
  <2>1. SUFFICES ASSUME NEW l \in Locks, NEW i \in DOMAIN queue'[l], NEW j \in DOMAIN queue'[l],
                        queue'[l][i].caller = queue'[l][j].caller
                 PROVE  i = j
    BY DEF OnePlace
  <2>2. (IF l = l0 THEN i + 1 ELSE i) = (IF l = l0 THEN j + 1 ELSE j)
    BY <1>7, <2>1 DEF LockInv, OnePlace
  <2>3. i \in Int /\ j \in Int
    BY <1>2, <1>3, QueueFacts
  <2>4. QED
    BY <2>2, <2>3
<1>10. QED
  BY <1>5, <1>6, <1>8, <1>9 DEF LockInv

\* A caller that lets go of everything leaves the others where they are.
LEMMA LetGoKeeps ==
  ASSUME LockInv, NEW c \in Callers, LetGoOfAll(c),
         call' \in [Callers -> Calls \cup {"idle"}],
         pc' \in [Callers -> 1..7],
         attempt' \in [Callers -> 0..MaxAttempts-1],
         \A d \in Callers \ {c} : call'[d] = call[d] /\ pc'[d] = pc[d]
  PROVE  LockInv'
<1>1. ASSUME NEW l \in Locks
      PROVE  \/ queue'[l] = queue[l] /\ ~Waits(c, l)
             \/ \E i \in DOMAIN queue[l] :
                  queue'[l] = RemoveAt(queue[l], i) /\ queue[l][i].caller = c
  <2>1. CASE Waits(c, l)
    BY <2>1 DEF LetGoOfAll, Place, Waits
  <2>2. CASE ~Waits(c, l)
    BY <2>2 DEF LetGoOfAll
  <2>3. QED
    BY <2>1, <2>2
<1>2. ASSUME NEW l \in Locks
      PROVE  /\ queue'[l] \in Seq(Guard)
             /\ \/ queue'[l] = queue[l] /\ ~Waits(c, l)
                \/ \E i \in DOMAIN queue[l] :
                     /\ queue[l][i].caller = c
                     /\ DOMAIN queue'[l] = 1..Len(queue[l])-1
                     /\ \A j \in 1..Len(queue[l])-1 :
                          queue'[l][j] = IF j < i THEN queue[l][j] ELSE queue[l][j+1]
  <2>1. CASE queue'[l] = queue[l] /\ ~Waits(c, l)
    BY <2>1, QueueFacts
  <2>2. ASSUME NEW i \in DOMAIN queue[l], queue'[l] = RemoveAt(queue[l], i),
               queue[l][i].caller = c
        PROVE  /\ queue'[l] \in Seq(Guard)
               /\ DOMAIN queue'[l] = 1..Len(queue[l])-1
               /\ \A j \in 1..Len(queue[l])-1 :
                    queue'[l][j] = IF j < i THEN queue[l][j] ELSE queue[l][j+1]
    <3>1. queue[l] \in Seq(Guard) /\ i \in 1..Len(queue[l])
      BY QueueFacts
    <3> DEFINE q == queue[l]
               less == RemoveAt(q, i)
    <3> HIDE DEF q
    <3>2. /\ less \in Seq(Guard) /\ Len(less) = Len(q) - 1
          /\ \A j \in 1..Len(q)-1 : less[j] = IF j < i THEN q[j] ELSE q[j+1]
      BY <3>1, Removed DEF q
    <3>3. queue'[l] = less
      BY <2>2 DEF q
    <3> HIDE DEF less
    <3>4. DOMAIN less = 1..Len(q)-1
      BY <3>2
    <3>5. QED
      BY <3>2, <3>3, <3>4 DEF q
  <2>3. QED
    BY <1>1, <2>1, <2>2
\* Where a place of the new queue was in the old one.
<1>3. ASSUME NEW l \in Locks
      PROVE  \E was \in [DOMAIN queue'[l] -> DOMAIN queue[l]] :
               /\ \A i \in DOMAIN queue'[l] :
                    queue'[l][i] = queue[l][was[i]] /\ queue[l][was[i]].caller # c
               /\ \A i, j \in DOMAIN queue'[l] : was[i] = was[j] => i = j
  <2>1. CASE queue'[l] = queue[l] /\ ~Waits(c, l)
    <3> DEFINE was == [i \in DOMAIN queue[l] |-> i]
    <3>1. was \in [DOMAIN queue'[l] -> DOMAIN queue[l]]
      BY <2>1
    <3>2. \A i \in DOMAIN queue'[l] : was[i] = i
      BY <2>1
    <3> HIDE DEF was
    <3>3. QED
      BY <2>1, <3>1, <3>2 DEF Waits
  <2>2. ASSUME NEW i \in DOMAIN queue[l],
               queue[l][i].caller = c,
               DOMAIN queue'[l] = 1..Len(queue[l])-1,
               \A j \in 1..Len(queue[l])-1 :
                 queue'[l][j] = IF j < i THEN queue[l][j] ELSE queue[l][j+1]
        PROVE  \E was \in [DOMAIN queue'[l] -> DOMAIN queue[l]] :
                 /\ \A j \in DOMAIN queue'[l] :
                      queue'[l][j] = queue[l][was[j]] /\ queue[l][was[j]].caller # c
                 /\ \A j, k \in DOMAIN queue'[l] : was[j] = was[k] => j = k
    <3> DEFINE n == Len(queue[l])
               was == [j \in 1..n-1 |-> IF j < i THEN j ELSE j + 1]
    <3>1. n \in Nat /\ DOMAIN queue[l] = 1..n /\ i \in 1..n
      BY QueueFacts
    <3>2. \A j \in 1..n-1 : was[j] \in 1..n /\ was[j] # i
      BY <3>1
    <3>3. \A j, k \in 1..n-1 : was[j] = was[k] => j = k
      BY <3>1
    <3>4. \A j \in 1..n-1 : queue'[l][j] = queue[l][was[j]]
      BY <2>2
    <3>5. \A j \in 1..n-1 : queue[l][was[j]].caller # c
      BY <2>2, <3>1, <3>2 DEF LockInv, OnePlace
    <3>6. was \in [DOMAIN queue'[l] -> DOMAIN queue[l]]
      BY <2>2, <3>1, <3>2
    <3>7. DOMAIN queue'[l] = 1..n-1
      BY <2>2
    <3> HIDE DEF was, n
    <3>8. /\ \A j \in DOMAIN queue'[l] :
                queue'[l][j] = queue[l][was[j]] /\ queue[l][was[j]].caller # c
          /\ \A j, k \in DOMAIN queue'[l] : was[j] = was[k] => j = k
      BY <3>3, <3>4, <3>5, <3>7
    <3>9. QED
      BY <3>6, <3>8, Zenon
  <2>3. QED
    BY <1>2, <2>1, <2>2
<1>4. TypeOK'
  <2>1. holders' \in [Locks -> SUBSET Guard]
    BY DEF LetGoOfAll, Without, LockInv, TypeOK
  <2>2. queue' \in [Locks -> Seq(Guard)]
    BY <1>2 DEF LetGoOfAll
  <2>3. QED
    BY <2>1, <2>2 DEF TypeOK
<1>5. GuardsGood'
  <2>1. \A l \in Locks : \A g \in holders'[l] :
          g \in holders[l] /\ g.caller \in Callers \ {c}
    BY DEF LetGoOfAll, Without, LockInv, TypeOK, Guard
  <2>2. QED
    BY <2>1 DEF LockInv, GuardsGood, Idle
<1>6. RequestsGood'
  <2>1. ASSUME NEW l \in Locks, NEW d \in Callers, Waits(d, l)'
        PROVE  Waits(d, l) /\ d # c
    BY <1>3, <2>1 DEF Waits
  <2>2. ASSUME NEW l \in Locks, NEW d \in Callers \ {c}, Waits(d, l)
        PROVE  AtRequest(d, l)'
    BY <2>2, StaysAt DEF LockInv, RequestsGood
  <2>3. QED
    BY <2>1, <2>2 DEF RequestsGood
<1>7. OnePlace'
  <2>1. SUFFICES ASSUME NEW l \in Locks, NEW i \in DOMAIN queue'[l], NEW j \in DOMAIN queue'[l],
                        queue'[l][i].caller = queue'[l][j].caller
                 PROVE  i = j
    BY DEF OnePlace
  <2>2. PICK was \in [DOMAIN queue'[l] -> DOMAIN queue[l]] :
          /\ \A k \in DOMAIN queue'[l] : queue'[l][k] = queue[l][was[k]]
          /\ \A k, m \in DOMAIN queue'[l] : was[k] = was[m] => k = m
    BY <1>3
  <2>3. was[i] = was[j]
    BY <2>1, <2>2 DEF LockInv, OnePlace
  <2>4. QED
    BY <2>2, <2>3
<1>8. QED
  BY <1>4, <1>5, <1>6, <1>7 DEF LockInv

LEMMA LockStep ==
  ASSUME LockInv, [Next]_vars
  PROVE  LockInv'
<1>1. 1 \in 1..7
  OBVIOUS
<1>2. ASSUME NEW c \in Callers, NEW f \in Calls, Begin(c, f)
      PROVE  LockInv'
  BY <1>2, BeginKeeps
<1>3. ASSUME NEW c \in Callers, Return(c) \/ Cancelled(c)
      PROVE  LockInv'
  <2>1. /\ LetGoOfAll(c) /\ UNCHANGED attempt
        /\ call' = [call EXCEPT ![c] = "idle"] /\ pc' = [pc EXCEPT ![c] = 1]
    BY <1>3 DEF Return, Cancelled
  <2>2. QED
    BY <1>1, <2>1, LetGoKeeps DEF LockInv, TypeOK
<1>4. ASSUME NEW c \in Callers, CasConflict(c)
      PROVE  LockInv'
  <2>1. /\ LetGoOfAll(c) /\ pc' = [pc EXCEPT ![c] = 1]
        /\ call' \in {call, [call EXCEPT ![c] = "idle"]}
    BY <1>4 DEF CasConflict
  <2>2. attempt' \in [Callers -> 0..MaxAttempts-1]
    <3>1. CASE attempt[c] + 1 >= MaxAttempts
      BY <1>4, <3>1 DEF CasConflict, LockInv, TypeOK
    <3>2. CASE ~(attempt[c] + 1 >= MaxAttempts)
      <4>1. attempt[c] + 1 \in 0..MaxAttempts-1
        BY <3>2, AttemptsAssumption DEF LockInv, TypeOK
      <4>2. QED
        BY <1>4, <3>2, <4>1 DEF CasConflict, LockInv, TypeOK
    <3>3. QED
      BY <3>1, <3>2
  <2>3. QED
    BY <1>1, <2>1, <2>2, LetGoKeeps DEF LockInv, TypeOK
<1>5. ASSUME NEW c \in Callers, Progress(c)
      PROVE  LockInv'
  BY <1>3, <1>5, AcquireKeeps, EnqueueKeeps, GrantKeeps, ReleaseKeeps DEF Progress
<1>6. CASE UNCHANGED vars
  BY <1>6
  DEF vars, LockInv, TypeOK, GuardsGood, RequestsGood, OnePlace, AtRequest, Waits, Running,
      Done, Idle, Step
<1>7. QED
  BY <1>2, <1>3, <1>4, <1>5, <1>6 DEF Next

-------------------------------------------------------------------------------
(* No circle *)

\* A set of natural numbers with an element has a least one.
LEMMA Least ==
  ASSUME NEW T \in SUBSET Nat, T # {}
  PROVE  \E x \in T : \A y \in T : x <= y
<1> DEFINE R == {ss \in Nat \X Nat : ss[1] < ss[2]}
<1>1. IsWellFoundedOn(R, Nat)
  BY NatLessThanWellFounded, Zenon DEF OpToRel
<1>2. PICK x \in T : \A y \in T : <<y, x>> \notin R
  BY <1>1, WFMin, Zenon
<1>3. \A y \in T : x <= y \/ <<y, x>> \in R
  OBVIOUS
<1>4. QED
  BY <1>2, <1>3, Zenon

\* If those of S that wait do so for a lock above all they hold, one of S waits for
\* nobody of S: of those that wait for the highest lock, the one that has waited
\* longest.
LEMMA ClimbersMove ==
  ASSUME LockInv, NEW rank \in [Locks -> 1..5], NEW S \in SUBSET Callers, S # {},
         \A c \in S : Running(c) => Climbs(rank, call[c], pc[c])
  PROVE  \E c \in S : \A d \in S : ~BlockedBy(c, d)
<1> SUFFICES ASSUME \A c \in S : \E d \in S : BlockedBy(c, d)
             PROVE  FALSE
  OBVIOUS
<1>1. ASSUME NEW c \in S
      PROVE  \E l \in Locks : Waits(c, l)
  BY <1>1 DEF BlockedBy, Waits
<1>2. ASSUME NEW c \in S, NEW l \in Locks, Waits(c, l)
      PROVE  Running(c) /\ Step(c).does # "drop" /\ Step(c).lock = l
  BY <1>2 DEF LockInv, RequestsGood, AtRequest
<1>3. \A c \in S : Step(c).lock \in Locks /\ Running(c)
  BY <1>1, <1>2
<1>4. \A l \in Locks : rank[l] \in 1..5
  OBVIOUS
<1> DEFINE left == {5 - rank[Step(c).lock] : c \in S}
<1>5. left \in SUBSET Nat /\ left # {}
  BY <1>3, <1>4
<1>6. PICK x \in left : \A y \in left : x <= y
  BY <1>5, Least
<1>7. PICK top \in S : x = 5 - rank[Step(top).lock]
  BY <1>6
<1> DEFINE l0 == Step(top).lock
<1>8. \A c \in S : rank[Step(c).lock] <= rank[l0]
  <2>1. \A c \in S : 5 - rank[l0] <= 5 - rank[Step(c).lock]
    BY <1>6, <1>7
  <2>2. QED
    BY <1>3, <1>4, <2>1
<1> DEFINE places == {i \in DOMAIN queue[l0] : queue[l0][i].caller \in S}
<1>9. l0 \in Locks /\ DOMAIN queue[l0] \subseteq Nat
  BY <1>3, QueueFacts
<1>10. Waits(top, l0)
  BY <1>1, <1>2
<1>11. places \in SUBSET Nat /\ places # {}
  BY <1>9, <1>10 DEF Waits
<1>12. PICK first \in places : \A i \in places : first <= i
  BY <1>11, Least
<1> DEFINE c0 == queue[l0][first].caller
<1>13. c0 \in S /\ Waits(c0, l0) /\ first \in DOMAIN queue[l0]
  BY <1>12 DEF Waits
<1>14. PICK d \in S : BlockedBy(c0, d)
  BY <1>13
<1>15a. PICK l \in Locks : \E i \in DOMAIN queue[l] :
          /\ queue[l][i].caller = c0
          /\ \/ \E h \in holders[l] : h.caller = d
             \/ \E j \in 1..i-1 : queue[l][j].caller = d
  BY <1>14 DEF BlockedBy
<1>15. PICK i \in DOMAIN queue[l] :
         /\ queue[l][i].caller = c0
         /\ \/ \E h \in holders[l] : h.caller = d
            \/ \E j \in 1..i-1 : queue[l][j].caller = d
  BY <1>15a
<1>16. l = l0
  <2>1. Waits(c0, l)
    BY <1>15 DEF Waits
  <2>2. QED
    BY <1>2, <1>9, <1>13, <2>1
<1>17. i = first
  BY <1>13, <1>15, <1>16 DEF LockInv, OnePlace
<1>18. CASE \E h \in holders[l] : h.caller = d
  <2>1. l0 \in Held(call[d], pc[d])
    BY <1>15, <1>16, <1>18 DEF LockInv, GuardsGood
  <2>2. Running(d) /\ Step(d).does # "drop"
    BY <1>1, <1>2
  <2>3. rank[l0] < rank[Step(d).lock]
    BY <2>1, <2>2, CallerFacts DEF Climbs
  <2>4. rank[Step(d).lock] <= rank[l0] /\ Step(d).lock \in Locks
    BY <1>3, <1>8
  <2>5. QED
    BY <1>4, <1>9, <2>3, <2>4
<1>19. CASE \E j \in 1..i-1 : queue[l][j].caller = d
  <2>1. PICK j \in 1..i-1 : queue[l0][j].caller = d
    BY <1>16, <1>19
  <2>2. i \in 1..Len(queue[l0]) /\ Len(queue[l0]) \in Nat
    BY <1>9, <1>13, <1>17, QueueFacts
  <2>3. j \in places /\ j < i
    BY <1>9, <2>1, <2>2, QueueFacts
  <2>4. QED
    BY <1>12, <1>17, <2>2, <2>3
<1>20. QED
  BY <1>15, <1>18, <1>19

\* Take out of a circle what one order makes an exception of, and there is none.
LEMMA InvNoCircle ==
  ASSUME LockInv
  PROVE  NoOtherCircle
<1> SUFFICES ASSUME NEW S \in SUBSET Callers, S # {},
                    \A c \in S : \E d \in S : BlockedBy(c, d)
             PROVE  PushEnabled /\ \E c, d \in S : StandsAgainst(c, d)
  BY DEF NoOtherCircle
<1>1. ASSUME NEW c \in S
      PROVE  /\ Running(c) /\ call[c] \in Calls /\ pc[c] \in 1..Len(Plan[call[c]])
             /\ Waits(c, Plan[call[c]][pc[c]].lock)
  <2>1. PICK l \in Locks : Waits(c, l)
    BY DEF BlockedBy, Waits
  <2>2. Running(c) /\ Step(c).lock = l
    BY <2>1 DEF LockInv, RequestsGood, AtRequest
  <2>3. QED
    BY <2>1, <2>2, CallerFacts
<1>2. \E c \in S : call[c] = "create_config" /\ Waits(c, "push_configs")
  <2>1. PICK c \in S : ~Climbs(ConfigsFirst, call[c], pc[c])
    BY ClimbersMove, RankValues
  <2>2. call[c] = "create_config" /\ Plan[call[c]][pc[c]].lock = "push_configs"
    BY <1>1, <2>1, PlansClimb
  <2>3. QED
    BY <1>1, <2>2
<1>3. PushEnabled /\ \E d \in S : /\ call[d] = "update_task_status_with_events"
                                  /\ Waits(d, "tasks")
  <2>1. PICK d \in S : ~Climbs(RowsFirst, call[d], pc[d])
    BY ClimbersMove, RankValues
  <2>2. /\ PushEnabled /\ call[d] = "update_task_status_with_events"
        /\ Plan[call[d]][pc[d]].lock = "tasks"
    BY <1>1, <2>1, PlansClimb
  <2>3. QED
    BY <1>1, <2>2
<1>4. QED
  BY <1>2, <1>3 DEF StandsAgainst

\* However many callers are in the in-memory store, and wherever one of them is
\* cancelled, its calls wait for one another in a circle only if a create_config
\* that holds the rows and a status commit that holds the configs are among them.
THEOREM NoOtherCircleAlways == Spec => []NoOtherCircle
<1>1. Init => LockInv
  BY LockInit
<1>2. LockInv /\ [Next]_vars => LockInv'
  BY LockStep
<1>3. LockInv => NoOtherCircle
  BY InvNoCircle
<1>4. QED
  BY <1>1, <1>2, <1>3, PTL DEF Spec

===============================================================================
