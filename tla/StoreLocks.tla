------------------------------- MODULE StoreLocks -------------------------------
(***************************************************************************)
(* Why TaskStore may treat a storage call as one step, and whether such a  *)
(* call always returns: the RwLocks of the in-memory backend, one per      *)
(* table, and the order in which each call takes and drops them.           *)
(*                                                                         *)
(* The locks are tokio's: a request that cannot be granted waits in a FIFO *)
(* queue, and a read behind a waiting write waits too.  A guard lives to   *)
(* the end of its call unless the code drops it.  A call whose future is   *)
(* dropped (client gone, turn aborted) gives up its guards and its place.  *)
(***************************************************************************)
EXTENDS Integers, SequencesExt

CONSTANTS
  Callers,      \* concurrent tasks of the runtime that call the store
  PushEnabled,  \* push_dispatch_enabled
  MaxAttempts   \* create_config's MAX_ATTEMPTS

ASSUME PushAssumption == PushEnabled \in BOOLEAN
ASSUME AttemptsAssumption == MaxAttempts \in Nat \ {0}

VARIABLES
  call,     \* the storage call each caller is in
  pc,       \* its position in the plan of that call
  attempt,  \* of create_config
  holders,  \* lock -> the guards that are alive
  queue     \* lock -> the requests waiting for it, oldest first

vars == <<call, pc, attempt, holders, queue>>

Locks == {"tasks", "event_counters", "events", "push_configs",
          "push_delivery_claims", "pending_dispatches"}

Read(l) == [does |-> "read", lock |-> l]
Write(l) == [does |-> "write", lock |-> l]
DropGuard(l) == [does |-> "drop", lock |-> l]

CommitRow == <<Write("tasks"), Write("event_counters"), Write("events")>>

WhenPush(step) == IF PushEnabled THEN <<step>> ELSE <<>>

\* (mutant) One sweep over the tables, the events before their tasks.
CleanupAtOnce == <<Write("push_delivery_claims"), Write("events"), Write("tasks")>>

\* Each of the retention sweeps lets go of its table before the next one.
Cleanup ==
  <<Write("push_delivery_claims"), DropGuard("push_delivery_claims"),
    Write("tasks"), DropGuard("tasks"), Write("events"), DropGuard("events")>>

\* The lock operations of every call, in the order of the code.
Plan ==
  [create_task_with_events |-> CommitRow,
   update_task_with_events |-> CommitRow,
   update_task_status_with_events |->
     WhenPush(Read("push_configs")) \o CommitRow \o WhenPush(Write("pending_dispatches")),
   create_config |->
     <<Read("tasks"), DropGuard("tasks"),
       Read("tasks"), Write("push_configs"), DropGuard("push_configs")>>,
   cleanup_expired |-> Cleanup,
   get_task |-> <<Read("tasks")>>,
   append_message |-> <<Write("tasks")>>,
   get_events_after |-> <<Read("events")>>,
   list_configs |-> <<Read("push_configs")>>,
   delete_config |-> <<Write("push_configs")>>,
   claim_delivery |-> <<Write("push_delivery_claims")>>,
   delete_pending_dispatch |-> <<Write("pending_dispatches")>>]

Calls == DOMAIN Plan

\* The point of create_config's plan where the second read may differ.
SecondRead == 4

Idle(c) == call[c] = "idle"
Done(c) == ~Idle(c) /\ pc[c] > Len(Plan[call[c]])
Running(c) == ~Idle(c) /\ ~Done(c)
Step(c) == Plan[call[c]][pc[c]]

Request(c) == [caller |-> c, mode |-> Step(c).does]
Waits(c, l) == \E i \in DOMAIN queue[l] : queue[l][i].caller = c
Waiting(c) == \E l \in Locks : Waits(c, l)

Guard == [caller : Callers, mode : {"read", "write"}]
Conflicts(g, h) == g.mode = "write" \/ h.mode = "write"
Grantable(g, l) == \A h \in holders[l] : ~Conflicts(g, h)

TypeOK ==
  /\ call \in [Callers -> Calls \cup {"idle"}]
  /\ pc \in [Callers -> 1..7]
  /\ attempt \in [Callers -> 0..MaxAttempts-1]
  /\ holders \in [Locks -> SUBSET Guard]
  /\ queue \in [Locks -> Seq(Guard)]

Init ==
  /\ call = [c \in Callers |-> "idle"]
  /\ pc = [c \in Callers |-> 1]
  /\ attempt = [c \in Callers |-> 0]
  /\ holders = [l \in Locks |-> {}]
  /\ queue = [l \in Locks |-> <<>>]

Advance(c) == pc' = [pc EXCEPT ![c] = @ + 1] /\ UNCHANGED <<call, attempt>>

Without(guards, c) == {g \in guards : g.caller # c}

Place(c, l) == CHOOSE i \in DOMAIN queue[l] : queue[l][i].caller = c

\* Every guard of c dies, and its place in a queue.
LetGoOfAll(c) ==
  /\ holders' = [l \in Locks |-> Without(holders[l], c)]
  /\ queue' = [l \in Locks |->
       IF Waits(c, l) THEN RemoveAt(queue[l], Place(c, l)) ELSE queue[l]]

-------------------------------------------------------------------------------
Begin(c, f) ==
  /\ Idle(c)
  /\ call' = [call EXCEPT ![c] = f]
  /\ pc' = [pc EXCEPT ![c] = 1]
  /\ attempt' = [attempt EXCEPT ![c] = 0]
  /\ UNCHANGED <<holders, queue>>

\* read().await or write().await with nobody waiting and no conflicting guard.
Acquire(c) ==
  /\ Running(c)
  /\ Step(c).does # "drop"
  /\ LET l == Step(c).lock
     IN  /\ queue[l] = <<>>
         /\ Grantable(Request(c), l)
         /\ holders' = [holders EXCEPT ![l] = @ \cup {Request(c)}]
  /\ Advance(c)
  /\ UNCHANGED queue

\* The same, and it has to wait.
Enqueue(c) ==
  /\ Running(c)
  /\ Step(c).does # "drop"
  /\ ~Waiting(c)
  /\ LET l == Step(c).lock
     IN  /\ queue[l] # <<>> \/ ~Grantable(Request(c), l)
         /\ queue' = [queue EXCEPT ![l] = Append(@, Request(c))]
  /\ UNCHANGED <<call, pc, attempt, holders>>

\* The oldest request has become grantable.
Grant(c) ==
  /\ \E l \in Locks :
       /\ queue[l] # <<>>
       /\ Head(queue[l]).caller = c
       /\ Grantable(Head(queue[l]), l)
       /\ holders' = [holders EXCEPT ![l] = @ \cup {Head(queue[l])}]
       /\ queue' = [queue EXCEPT ![l] = Tail(@)]
  /\ Advance(c)

Release(c) ==
  /\ Running(c)
  /\ Step(c).does = "drop"
  /\ holders' = [holders EXCEPT ![Step(c).lock] = Without(@, c)]
  /\ Advance(c)
  /\ UNCHANGED queue

\* create_config's second read differs: it drops the rows, backs off and reads
\* again, or gives up after the last attempt.
CasConflict(c) ==
  /\ call[c] = "create_config"
  /\ pc[c] = SecondRead
  /\ ~Waiting(c)
  /\ LetGoOfAll(c)
  /\ pc' = [pc EXCEPT ![c] = 1]
  /\ IF attempt[c] + 1 >= MaxAttempts
     THEN call' = [call EXCEPT ![c] = "idle"] /\ UNCHANGED attempt
     ELSE attempt' = [attempt EXCEPT ![c] = @ + 1] /\ UNCHANGED call

Return(c) ==
  /\ Done(c)
  /\ LetGoOfAll(c)
  /\ call' = [call EXCEPT ![c] = "idle"]
  /\ pc' = [pc EXCEPT ![c] = 1]
  /\ UNCHANGED attempt

\* The future is dropped at an await.
Cancelled(c) ==
  /\ Waiting(c)
  /\ LetGoOfAll(c)
  /\ call' = [call EXCEPT ![c] = "idle"]
  /\ pc' = [pc EXCEPT ![c] = 1]
  /\ UNCHANGED attempt

Progress(c) == Acquire(c) \/ Enqueue(c) \/ Grant(c) \/ Release(c) \/ Return(c)

Next ==
  \E c \in Callers :
    \/ \E f \in Calls : Begin(c, f)
    \/ Progress(c)
    \/ CasConflict(c)
    \/ Cancelled(c)

\* The runtime polls a caller that can go on; nothing makes it start a call,
\* find its floor moved, or be cancelled.
Fairness == \A c \in Callers : WF_vars(Progress(c))

Spec == Init /\ [][Next]_vars /\ Fairness

-------------------------------------------------------------------------------
\* c cannot be granted before d lets go of, or leaves the queue of, a lock.
BlockedBy(c, d) ==
  \E l \in Locks : \E i \in DOMAIN queue[l] :
    /\ queue[l][i].caller = c
    /\ \/ \E h \in holders[l] : h.caller = d /\ Conflicts(queue[l][i], h)
       \/ \E j \in 1..i-1 : queue[l][j].caller = d

\* c registers a config and waits for their table, holding the rows; d commits a
\* status and waits for the rows, holding a snapshot of the configs.
StandsAgainst(c, d) ==
  /\ call[c] = "create_config" /\ Waits(c, "push_configs")
  /\ call[d] = "update_task_status_with_events" /\ Waits(d, "tasks")

\* Whenever calls wait for one another in a circle, one of them is a create_config
\* that holds the rows and another a status commit that holds the configs, the one
\* pair the code lets take two locks in opposite order.  Without push, when no
\* commit takes the configs, there is no circle: the comment "Acquire all locks in
\* consistent order" above the acquisitions of update_task_status_with_events.
NoOtherCircle ==
  \A S \in (SUBSET Callers) \ {{}} :
    \/ \E c \in S : \A d \in S : ~BlockedBy(c, d)
    \/ PushEnabled /\ \E c, d \in S : StandsAgainst(c, d)

\* A storage call returns, however many others contend for its tables, unless a
\* create_config and a status commit come to stand against each other: no reader
\* or writer is overtaken for ever.
CallsReturn ==
  \A c \in Callers :
    ~Idle(c) ~> Idle(c) \/ \E d, e \in Callers : StandsAgainst(d, e)
===============================================================================
