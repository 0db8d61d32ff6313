---------------------------- MODULE TaskStoreProofs ----------------------------
(***************************************************************************)
(* TLAPS proofs about TaskStore, for every number of tasks, sinks, owners  *)
(* and configurations.  IInv adds to the promises of TaskStore what makes  *)
(* them inductive: sequence numbers stay below the counter, and a sink     *)
(* that read a terminal row can only find it terminal (or reaped) later.   *)
(***************************************************************************)
EXTENDS TaskStore, TLAPS

SeqsBelowCounter ==
  \A t \in Tasks : \A e \in events[t] : e.seq <= event_counters[t]

RowsCounted == \A t \in DOMAIN tasks : event_counters[t] > 0

SnapshotsBehindRows ==
  \A w \in DOMAIN snapshots :
    LET s == snapshots[w] IN
      /\ event_counters[s.task] > 0
      /\ Present(s.task) /\ s.status \in TERMINAL_STATES => Terminal(s.task)

IInv ==
  /\ TypeOK
  /\ SeqsBelowCounter
  /\ RowsCounted
  /\ SnapshotsBehindRows
  /\ TerminalEndsLog
  /\ TerminalIsAnnounced
  /\ FloorIsCounter
  /\ EligibleHasMarker

LEMMA PutMap ==
  ASSUME NEW K, NEW R, NEW f, MapOf(f, K, R), NEW k \in K, NEW v \in R
  PROVE  MapOf(Put(f, k, v), K, R)
  BY DEF Put, MapOf

LEMMA DropMap ==
  ASSUME NEW K, NEW R, NEW f, MapOf(f, K, R), NEW k
  PROVE  MapOf(Drop(f, k), K, R)
  BY DEF Drop, MapOf

LEMMA SetMap ==
  ASSUME NEW K, NEW R, NEW f, MapOf(f, K, R), NEW k \in DOMAIN f, NEW v \in R
  PROVE  MapOf([f EXCEPT ![k] = v], K, R)
  BY DEF MapOf

\* A valid transition never starts at a terminal state and stays in TaskState.
LEMMA TransitionFacts ==
  ASSUME NEW s, NEW r, ValidTransition(s, r)
  PROVE  s \notin TERMINAL_STATES /\ r \in TaskState
  BY DEF ValidTransition, TERMINAL_STATES, CLIENT_HELD_STATES,
         EXECUTOR_HELD_STATES, TaskState

\* Appending an event keeps counters and logs well typed.
LEMMA AppendType ==
  ASSUME TypeOK, NEW t \in Tasks, NEW s \in TaskState \cup {"Artifact"},
         AppendEvent(t, s)
  PROVE  /\ event_counters' \in [Tasks -> Nat]
         /\ events' \in [Tasks -> SUBSET Event]
         /\ NextSeq(t) \in Nat \ {0}
  BY DEF TypeOK, AppendEvent, NextSeq, Event

-------------------------------------------------------------------------------
(* Type correctness *)

LEMMA InitType == Init => TypeOK
  BY DEF Init, TypeOK, MapOf

LEMMA TaskCallType ==
  ASSUME TypeOK, NEW t \in Tasks, TaskCall(t)
  PROVE  TypeOK'
<1>1. CASE \E o \in Owners, i \in Items : CreateTaskWithEvents(t, o, i)
  <2>1. PICK o \in Owners, i \in Items : CreateTaskWithEvents(t, o, i)
    BY <1>1
  <2> DEFINE row == [owner |-> o, status |-> "Submitted", content |-> {i},
                     cancel_requested |-> FALSE, lease_expires_at |-> NoLease,
                     latest_event_sequence |-> NextSeq(t)]
  <2>2. AppendEvent(t, "Submitted") /\ "Submitted" \in TaskState
    BY <2>1 DEF CreateTaskWithEvents, TaskState, EXECUTOR_HELD_STATES
  <2>3. row \in Row
    BY <2>2, AppendType DEF Row
  <2>4. MapOf(tasks, Tasks, Row)' 
    BY <2>1, <2>3, PutMap DEF TypeOK, CreateTaskWithEvents
  <2>5. QED
    BY <2>1, <2>2, <2>4, AppendType DEF TypeOK, CreateTaskWithEvents
<1>2. CASE \E o \in Owners, i \in Items : AppendMessage(t, o, i)
  <2>1. PICK o \in Owners, i \in Items : AppendMessage(t, o, i)
    BY <1>2
  <2>2. t \in DOMAIN tasks /\ tasks[t] \in Row
    BY <2>1 DEF TypeOK, MapOf, AppendMessage, OwnedBy, Present
  <2>3. [tasks[t] EXCEPT !.content = tasks[t].content \cup {i}] \in Row
    BY <2>2 DEF Row
  <2>4. MapOf(tasks, Tasks, Row)'
    BY <2>1, <2>2, <2>3, SetMap, Zenon DEF TypeOK, AppendMessage
  <2>5. QED
    BY <2>1, <2>4 DEF TypeOK, AppendMessage
<1>3. CASE \E o \in Owners, s \in TaskState : UpdateTaskStatusWithEvents(t, o, s)
  <2>1. PICK o \in Owners, s \in TaskState : UpdateTaskStatusWithEvents(t, o, s)
    BY <1>3
  <2>2. AppendEvent(t, s)
    BY <2>1 DEF UpdateTaskStatusWithEvents
  <2> DEFINE row == [tasks[t] EXCEPT !.status = s,
                                     !.latest_event_sequence = NextSeq(t)]
  <2>3. t \in DOMAIN tasks /\ tasks[t] \in Row
    BY <2>1 DEF TypeOK, MapOf, UpdateTaskStatusWithEvents, OwnedBy, Present
  <2>6. row \in Row
    BY <2>2, <2>3, AppendType DEF Row
  <2>7. MapOf(tasks, Tasks, Row)'
    BY <2>1, <2>3, <2>6, SetMap DEF TypeOK, UpdateTaskStatusWithEvents
  <2>4. pending_dispatches' \subseteq Tasks \X (Nat \ {0})
    BY <2>1, <2>2, AppendType DEF TypeOK, UpdateTaskStatusWithEvents
  <2>5. QED
    BY <2>1, <2>2, <2>7, <2>4, AppendType DEF TypeOK, UpdateTaskStatusWithEvents
<1>4. CASE \E o \in Owners : SetCancelRequested(t, o)
  <2>0. PICK o \in Owners : SetCancelRequested(t, o)
    BY <1>4
  <2>1. t \in DOMAIN tasks /\ tasks[t] \in Row
    BY <2>0 DEF TypeOK, MapOf, SetCancelRequested, OwnedBy, Present
  <2>2. [tasks[t] EXCEPT !.cancel_requested = TRUE] \in Row
    BY <2>1 DEF Row
  <2>3. MapOf(tasks, Tasks, Row)'
    BY <2>0, <2>1, <2>2, SetMap, Zenon DEF TypeOK, SetCancelRequested
  <2>4. QED
    BY <2>0, <2>3 DEF TypeOK, SetCancelRequested
<1>5. CASE \E e \in LeaseTimes \cup {NoLease} : RenewExecutorLeases({t}, e)
  BY <1>5 DEF TypeOK, MapOf, Row, RenewExecutorLeases
<1>6. CASE CleanupTask(t)
  BY <1>6, DropMap DEF TypeOK, CleanupTask
<1>7. CASE \E n \in 1..MaxSeq : CleanupEvents(t, n)
  BY <1>7 DEF TypeOK, CleanupEvents
<1>8. QED
  BY <1>1, <1>2, <1>3, <1>4, <1>5, <1>6, <1>7 DEF TaskCall

LEMMA SinkCallType ==
  ASSUME TypeOK, NEW w \in Writers, SinkCall(w)
  PROVE  TypeOK'
<1>1. CASE \E t \in Tasks, o \in Owners : GetTask(w, t, o)
  <2>1. PICK t \in Tasks, o \in Owners : GetTask(w, t, o)
    BY <1>1
  <2>2. t \in DOMAIN tasks /\ tasks[t] \in Row
    BY <2>1 DEF TypeOK, MapOf, GetTask, OwnedBy, Present
  <2>3. [task |-> t, owner |-> o, status |-> tasks[t].status, content |-> tasks[t].content]
          \in Snapshot
    BY <2>2 DEF Row, Snapshot
  <2>4. MapOf(snapshots, Writers, Snapshot)'
    BY <2>1, <2>3, PutMap DEF TypeOK, GetTask
  <2>5. QED
    BY <2>1, <2>4 DEF TypeOK, GetTask
<1>2. CASE \E i \in Items : UpdateTaskWithEvents(w, i)
  <2>1. PICK i \in Items : UpdateTaskWithEvents(w, i)
    BY <1>2
  <2> DEFINE s == snapshots[w]
             t == s.task
             row == [tasks[t] EXCEPT !.status = s.status,
                                     !.content = s.content \cup {i},
                                     !.latest_event_sequence = NextSeq(t)]
  <2>2. s \in Snapshot
    BY <2>1 DEF TypeOK, MapOf, UpdateTaskWithEvents
  <2>3. t \in Tasks /\ AppendEvent(t, "Artifact")
    BY <2>1, <2>2 DEF UpdateTaskWithEvents, Snapshot
  <2>4. t \in DOMAIN tasks /\ tasks[t] \in Row
    BY <2>1 DEF TypeOK, MapOf, UpdateTaskWithEvents, OwnedBy, Present
  <2>5. row \in Row
    BY <2>2, <2>3, <2>4, AppendType DEF Row, Snapshot
  <2>6. MapOf(tasks, Tasks, Row)'
    BY <2>1, <2>4, <2>5, SetMap, Zenon DEF TypeOK, UpdateTaskWithEvents
  <2>7. QED
    BY <2>1, <2>3, <2>6, AppendType, DropMap DEF TypeOK, UpdateTaskWithEvents
<1>3. CASE UpdateTaskWithEventsRefused(w)
  BY <1>3, DropMap DEF TypeOK, UpdateTaskWithEventsRefused
<1>4. QED
  BY <1>1, <1>2, <1>3 DEF SinkCall

LEMMA ConfigCallType ==
  ASSUME TypeOK, NEW k \in ConfigKeys, ConfigCall(k)
  PROVE  TypeOK'
<1>1. FloorOf(k[1]) \in Nat
  BY DEF TypeOK, MapOf, FloorOf, Present, Row
<1>2. CASE CreateConfigRead(k)
  <2>1. CASE k \notin DOMAIN registering
    <3> DEFINE call == [seq_read |-> FloorOf(k[1]), reading |-> TRUE, attempt |-> 0]
    <3>1. call \in Registration
      BY <1>1, BoundsAssumption DEF Registration
    <3>4. registering' = Put(registering, k, call)
      BY <1>2, <2>1 DEF CreateConfigRead
    <3>5. MapOf(Put(registering, k, call), ConfigKeys, Registration)
      BY <3>1, PutMap, Zenon DEF TypeOK
    <3>2. MapOf(registering, ConfigKeys, Registration)'
      BY <3>4, <3>5
    <3>3. QED
      BY <1>2, <3>2 DEF TypeOK, CreateConfigRead
  <2>2. CASE k \in DOMAIN registering
    <3>1. registering[k] \in Registration
      BY <2>2 DEF TypeOK, MapOf
    <3>2. [registering[k] EXCEPT !.seq_read = FloorOf(k[1]), !.reading = TRUE] \in Registration
      BY <1>1, <3>1 DEF Registration
    <3>5. registering' = [registering EXCEPT ![k] =
                            [registering[k] EXCEPT !.seq_read = FloorOf(k[1]), !.reading = TRUE]]
      BY <1>2, <2>2 DEF CreateConfigRead
    <3>3. MapOf(registering, ConfigKeys, Registration)'
      BY <2>2, <3>2, <3>5, SetMap, Zenon DEF TypeOK
    <3>4. QED
      BY <1>2, <3>3 DEF TypeOK, CreateConfigRead
  <2>3. QED
    BY <2>1, <2>2
<1>3. CASE CreateConfigInsert(k)
  <2>1. registering[k].seq_read \in Nat
    BY <1>3 DEF TypeOK, MapOf, CreateConfigInsert, Registration
  <2>2. QED
    BY <1>3, <2>1, PutMap, DropMap DEF TypeOK, CreateConfigInsert
<1>4. CASE CreateConfigConflict(k)
  <2>1. CASE registering[k].attempt + 1 >= MaxAttempts
    BY <1>4, <2>1, DropMap DEF TypeOK, CreateConfigConflict
  <2>2. CASE ~(registering[k].attempt + 1 >= MaxAttempts)
    <3>1. k \in DOMAIN registering /\ registering[k] \in Registration
      BY <1>4 DEF TypeOK, MapOf, CreateConfigConflict
    <3>5. registering[k].attempt + 1 \in 0..MaxAttempts-1
      BY <2>2, <3>1, BoundsAssumption DEF Registration
    <3>2. [registering[k] EXCEPT !.reading = FALSE,
                                 !.attempt = registering[k].attempt + 1] \in Registration
      BY <3>1, <3>5 DEF Registration
    <3>3. MapOf(registering, ConfigKeys, Registration)'
      BY <1>4, <2>2, <3>1, <3>2, SetMap, Zenon DEF TypeOK, CreateConfigConflict
    <3>4. QED
      BY <1>4, <3>3 DEF TypeOK, CreateConfigConflict
  <2>3. QED
    BY <2>1, <2>2
<1>5. CASE DeleteConfig(k)
  BY <1>5, DropMap DEF TypeOK, DeleteConfig
<1>6. QED
  BY <1>2, <1>3, <1>4, <1>5 DEF ConfigCall

LEMMA StepType == TypeOK /\ [Next]_vars => TypeOK'
<1> SUFFICES ASSUME TypeOK, [Next]_vars PROVE TypeOK'
  OBVIOUS
<1>1. CASE \E t \in Tasks : TaskCall(t)
  BY <1>1, TaskCallType
<1>2. CASE \E w \in Writers : SinkCall(w)
  BY <1>2, SinkCallType
<1>3. CASE \E k \in ConfigKeys : ConfigCall(k)
  BY <1>3, ConfigCallType
<1>4. CASE \E ws \in SUBSET Writers : SinksDropped(ws)
  BY <1>4 DEF TypeOK, MapOf, SinksDropped
<1>5. CASE UNCHANGED vars
  BY <1>5 DEF TypeOK, MapOf, vars
<1>6. QED
  BY <1>1, <1>2, <1>3, <1>4, <1>5 DEF Next

\* Every reachable state is well typed.
THEOREM TypeCorrect == Spec => []TypeOK
  BY InitType, StepType, PTL DEF Spec

-------------------------------------------------------------------------------
(* The inductive invariant *)

LEMMA InitInv == Init => IInv
  BY InitType
  DEF Init, IInv, SeqsBelowCounter, RowsCounted, SnapshotsBehindRows,
      TerminalEndsLog, TerminalEvents, TerminalIsAnnounced, FloorIsCounter,
      EligibleHasMarker

\* Calls that touch neither the states, floors and presence of the rows nor the
\* logs, the configs and the markers.
SameShape ==
  /\ DOMAIN tasks' = DOMAIN tasks
  /\ \A t \in DOMAIN tasks :
       /\ tasks'[t].status = tasks[t].status
       /\ tasks'[t].latest_event_sequence = tasks[t].latest_event_sequence
  /\ UNCHANGED <<event_counters, events, push_configs, pending_dispatches>>

LEMMA FrameInv ==
  ASSUME IInv, TypeOK', SameShape, UNCHANGED snapshots
  PROVE  IInv'
<1> USE DEF IInv, SameShape
<1>1. SeqsBelowCounter' /\ RowsCounted' /\ FloorIsCounter'
  BY DEF SeqsBelowCounter, RowsCounted, FloorIsCounter
<1>2. SnapshotsBehindRows'
  BY DEF SnapshotsBehindRows, Present, Terminal
<1>3. TerminalEndsLog' /\ TerminalIsAnnounced'
  BY DEF TerminalEndsLog, TerminalEvents, TerminalIsAnnounced, Present, Terminal
<1>4. EligibleHasMarker'
  BY DEF EligibleHasMarker, EligibleAtEvent, TerminalEvents
<1>5. QED
  BY <1>1, <1>2, <1>3, <1>4

\* What one append does, given that all earlier events are below the counter.
LEMMA AppendFacts ==
  ASSUME TypeOK, SeqsBelowCounter, NEW t \in Tasks,
         NEW s \in TaskState \cup {"Artifact"}, AppendEvent(t, s)
  PROVE  /\ event_counters[t] \in Nat
         /\ event_counters'[t] = event_counters[t] + 1
         /\ events'[t] = events[t] \cup {[seq |-> event_counters[t] + 1, state |-> s]}
         /\ \A e \in events[t] : e.seq \in Nat /\ e.seq <= event_counters[t]
         /\ \A u \in Tasks \ {t} : event_counters'[u] = event_counters[u]
                                   /\ events'[u] = events[u]
  BY DEF TypeOK, SeqsBelowCounter, AppendEvent, NextSeq, Event

LEMMA AppendCounts ==
  ASSUME IInv, NEW t \in Tasks, NEW s \in TaskState \cup {"Artifact"},
         AppendEvent(t, s)
  PROVE  SeqsBelowCounter'
<1> SUFFICES ASSUME NEW u \in Tasks, NEW e \in events'[u]
             PROVE  e.seq <= event_counters'[u]
  BY DEF SeqsBelowCounter
<1>1. CASE u = t
  BY <1>1, AppendFacts DEF IInv
<1>2. CASE u # t
  BY <1>2, AppendFacts DEF IInv, SeqsBelowCounter
<1>3. QED
  BY <1>1, <1>2

LEMMA CreateTaskInv ==
  ASSUME IInv, TypeOK', NEW t \in Tasks, NEW o \in Owners, NEW i \in Items,
         CreateTaskWithEvents(t, o, i)
  PROVE  IInv'
<1> DEFINE new == [seq |-> event_counters[t] + 1, state |-> "Submitted"]
<1>1. /\ event_counters[t] = 0
      /\ AppendEvent(t, "Submitted")
      /\ "Submitted" \in TaskState
      /\ "Submitted" \notin TERMINAL_STATES
      /\ DOMAIN tasks' = DOMAIN tasks \cup {t}
      /\ tasks'[t].status = "Submitted"
      /\ tasks'[t].latest_event_sequence = NextSeq(t)
      /\ \A u \in DOMAIN tasks \ {t} : tasks'[u] = tasks[u]
      /\ UNCHANGED <<push_configs, pending_dispatches, snapshots>>
  BY DEF CreateTaskWithEvents, Put, TaskState, EXECUTOR_HELD_STATES, TERMINAL_STATES
<1>2. SeqsBelowCounter'
  BY <1>1, AppendCounts
<1>3. t \notin DOMAIN tasks /\ events[t] = {}
  BY <1>1, AppendFacts DEF IInv, RowsCounted, TypeOK, Event
<1>4. \A u \in Tasks : TerminalEvents(u)' = TerminalEvents(u)
  BY <1>1, <1>3, AppendFacts DEF IInv, TerminalEvents
<1>5. RowsCounted' /\ FloorIsCounter'
  BY <1>1, AppendFacts DEF IInv, RowsCounted, FloorIsCounter, NextSeq, TypeOK, MapOf
<1>6. SnapshotsBehindRows'
  BY <1>1, <1>3, AppendFacts
  DEF IInv, SnapshotsBehindRows, Present, Terminal, TypeOK, MapOf, Snapshot
<1>7. TerminalEndsLog'
  BY <1>1, <1>3, <1>4, AppendFacts DEF IInv, TerminalEndsLog, TerminalEvents, Present
<1>8. TerminalIsAnnounced'
  BY <1>1, <1>3, AppendFacts
  DEF IInv, TerminalIsAnnounced, Terminal, TypeOK, MapOf
<1>9. EligibleHasMarker'
  BY <1>1, <1>3, <1>4
  DEF IInv, EligibleHasMarker, EligibleAtEvent, TerminalEvents, TypeOK, MapOf
<1>10. QED
  BY <1>2, <1>5, <1>6, <1>7, <1>8, <1>9 DEF IInv

LEMMA UpdateStatusInv ==
  ASSUME IInv, TypeOK', NEW t \in Tasks, NEW o \in Owners, NEW s \in TaskState,
         UpdateTaskStatusWithEvents(t, o, s)
  PROVE  IInv'
<1>1. /\ AppendEvent(t, s)
      /\ t \in DOMAIN tasks
      /\ tasks[t].status \notin TERMINAL_STATES
      /\ UNCHANGED <<push_configs, snapshots>>
  BY TransitionFacts DEF UpdateTaskStatusWithEvents, OwnedBy, Present
<1>2. /\ DOMAIN tasks' = DOMAIN tasks
      /\ tasks'[t].status = s
      /\ tasks'[t].latest_event_sequence = event_counters[t] + 1
      /\ \A u \in DOMAIN tasks \ {t} : tasks'[u] = tasks[u]
  <2>1. tasks[t] \in Row
    BY <1>1 DEF IInv, TypeOK, MapOf
  <2>2. tasks' = [tasks EXCEPT ![t] =
          [tasks[t] EXCEPT !.status = s, !.latest_event_sequence = event_counters[t] + 1]]
    BY DEF UpdateTaskStatusWithEvents, NextSeq
  <2>3. QED
    BY <1>1, <2>1, <2>2 DEF Row
<1>3. SeqsBelowCounter'
  BY <1>1, AppendCounts
<1>4. \A e \in events[t] : e.state \notin TERMINAL_STATES
  BY <1>1 DEF IInv, TerminalEndsLog, TerminalEvents, Present
<1>5. RowsCounted' /\ FloorIsCounter'
  BY <1>1, <1>2, AppendFacts DEF IInv, RowsCounted, FloorIsCounter, TypeOK, MapOf
<1>6. SnapshotsBehindRows'
  BY <1>1, <1>2, AppendFacts
  DEF IInv, SnapshotsBehindRows, Present, Terminal, TypeOK, MapOf, Snapshot
<1>7. TerminalEndsLog'
  <2> SUFFICES ASSUME NEW u \in Tasks, NEW e \in TerminalEvents(u)'
               PROVE  /\ \A f \in events'[u] : f # e => f.seq < e.seq
                      /\ e.seq = event_counters'[u]
                      /\ u \in DOMAIN tasks' => tasks'[u].status = e.state
    BY DEF TerminalEndsLog, Present
  <2>1. CASE u = t
    BY <2>1, <1>1, <1>2, <1>4, AppendFacts DEF IInv, TerminalEvents
  <2>2. CASE u # t
    BY <2>2, <1>1, <1>2, AppendFacts DEF IInv, TerminalEndsLog, TerminalEvents, Present
  <2>3. QED
    BY <2>1, <2>2
<1>8. TerminalIsAnnounced'
  BY <1>1, <1>2, AppendFacts
  DEF IInv, TerminalIsAnnounced, Terminal, TypeOK, MapOf
<1>9. EligibleHasMarker'
  <2> SUFFICES ASSUME PushEnabled, NEW u \in DOMAIN tasks', NEW e \in TerminalEvents(u)',
                      EligibleAtEvent(u, e.seq)' # {}
               PROVE  <<u, e.seq>> \in pending_dispatches'
    BY DEF EligibleHasMarker
  <2>0. u \in Tasks
    BY <1>2 DEF IInv, TypeOK, MapOf
  <2>1. CASE u = t
    <3>1. e = [seq |-> NextSeq(t), state |-> s] /\ s \in TERMINAL_STATES
      BY <2>1, <1>1, <1>4, AppendFacts DEF IInv, TerminalEvents, NextSeq
    <3>2. HasConfigs(t)
      BY <2>1, <1>1 DEF EligibleAtEvent, HasConfigs
    <3>3. QED
      BY <2>1, <3>1, <3>2 DEF UpdateTaskStatusWithEvents
  <2>2. CASE u # t
    <3>1. e \in TerminalEvents(u) /\ EligibleAtEvent(u, e.seq) # {}
      BY <2>0, <2>2, <1>1, AppendFacts DEF IInv, TerminalEvents, EligibleAtEvent
    <3>2. <<u, e.seq>> \in pending_dispatches
      BY <3>1, <1>2 DEF IInv, EligibleHasMarker
    <3>3. QED
      BY <3>2 DEF UpdateTaskStatusWithEvents
  <2>3. QED
    BY <2>1, <2>2
<1>10. QED
  BY <1>3, <1>5, <1>6, <1>7, <1>8, <1>9 DEF IInv

LEMMA UpdateTaskInv ==
  ASSUME IInv, TypeOK', NEW w \in Writers, NEW i \in Items,
         UpdateTaskWithEvents(w, i)
  PROVE  IInv'
<1> DEFINE s == snapshots[w]
           t == s.task
<1>1. /\ t \in Tasks
      /\ s.status \in TaskState
      /\ w \in DOMAIN snapshots
      /\ t \in DOMAIN tasks
      /\ tasks[t] \in Row
      /\ tasks[t].status \notin TERMINAL_STATES
      /\ AppendEvent(t, "Artifact")
      /\ UNCHANGED <<push_configs, pending_dispatches>>
  BY DEF UpdateTaskWithEvents, OwnedBy, Present, Terminal, IInv, TypeOK, MapOf, Snapshot
<1>2. /\ DOMAIN tasks' = DOMAIN tasks
      /\ tasks'[t].status = s.status
      /\ tasks'[t].latest_event_sequence = event_counters[t] + 1
      /\ \A u \in DOMAIN tasks \ {t} : tasks'[u] = tasks[u]
  <2>1. tasks' = [tasks EXCEPT ![t] =
          [tasks[t] EXCEPT !.status = s.status, !.content = s.content \cup {i},
                           !.latest_event_sequence = event_counters[t] + 1]]
    BY DEF UpdateTaskWithEvents, NextSeq
  <2>2. QED
    BY <1>1, <2>1 DEF Row
<1>3. s.status \notin TERMINAL_STATES
  BY <1>1 DEF IInv, SnapshotsBehindRows, Present, Terminal
<1>4. /\ DOMAIN snapshots' = DOMAIN snapshots \ {w}
      /\ \A x \in DOMAIN snapshots' : snapshots'[x] = snapshots[x]
  BY DEF UpdateTaskWithEvents, Drop
<1>5. SeqsBelowCounter'
  BY <1>1, AppendCounts
<1>6. "Artifact" \notin TERMINAL_STATES
  BY DEF TERMINAL_STATES
<1>7. \A u \in Tasks : TerminalEvents(u)' = TerminalEvents(u)
  BY <1>1, <1>6, AppendFacts DEF IInv, TerminalEvents
<1>8. TerminalEvents(t) = {}
  BY <1>1 DEF IInv, TerminalEndsLog, TerminalEvents, Present
<1>9. RowsCounted' /\ FloorIsCounter'
  BY <1>1, <1>2, AppendFacts DEF IInv, RowsCounted, FloorIsCounter, TypeOK, MapOf
<1>10. SnapshotsBehindRows'
  <2> SUFFICES ASSUME NEW x \in DOMAIN snapshots'
               PROVE  LET r == snapshots[x] IN
                        /\ event_counters'[r.task] > 0
                        /\ r.task \in DOMAIN tasks' /\ r.status \in TERMINAL_STATES
                             => tasks'[r.task].status \in TERMINAL_STATES
    BY <1>4 DEF SnapshotsBehindRows, Present, Terminal
  <2>1. x \in DOMAIN snapshots /\ snapshots[x].task \in Tasks
    BY <1>4 DEF IInv, TypeOK, MapOf, Snapshot
  <2>2. CASE snapshots[x].task = t
    BY <2>1, <2>2, <1>1, AppendFacts DEF IInv, SnapshotsBehindRows, Present, Terminal
  <2>3. CASE snapshots[x].task # t
    BY <2>1, <2>3, <1>1, <1>2, AppendFacts
    DEF IInv, SnapshotsBehindRows, Present, Terminal
  <2>4. QED
    BY <2>2, <2>3
<1>11. TerminalEndsLog'
  <2> SUFFICES ASSUME NEW u \in Tasks, NEW e \in TerminalEvents(u)
               PROVE  /\ \A f \in events'[u] : f # e => f.seq < e.seq
                      /\ e.seq = event_counters'[u]
                      /\ u \in DOMAIN tasks' => tasks'[u].status = e.state
    BY <1>7 DEF TerminalEndsLog, Present
  <2>1. u # t
    BY <1>8
  <2>2. QED
    BY <2>1, <1>1, <1>2, AppendFacts DEF IInv, TerminalEndsLog, Present
<1>12. TerminalIsAnnounced'
  BY <1>1, <1>2, <1>3, AppendFacts DEF IInv, TerminalIsAnnounced, Terminal, TypeOK, MapOf
<1>13. EligibleHasMarker'
  BY <1>1, <1>2, <1>7 DEF IInv, EligibleHasMarker, EligibleAtEvent, TypeOK, MapOf
<1>14. QED
  BY <1>5, <1>9, <1>10, <1>11, <1>12, <1>13 DEF IInv

LEMMA CleanupTaskInv ==
  ASSUME IInv, TypeOK', NEW t \in Tasks, CleanupTask(t)
  PROVE  IInv'
<1>1. /\ DOMAIN tasks' = DOMAIN tasks \ {t}
      /\ \A u \in DOMAIN tasks' : tasks'[u] = tasks[u]
      /\ UNCHANGED <<event_counters, events, push_configs, pending_dispatches, snapshots>>
  BY DEF CleanupTask, Drop
<1>2. SeqsBelowCounter' /\ RowsCounted' /\ FloorIsCounter'
  BY <1>1 DEF IInv, SeqsBelowCounter, RowsCounted, FloorIsCounter
<1>3. SnapshotsBehindRows'
  BY <1>1 DEF IInv, SnapshotsBehindRows, Present, Terminal
<1>4. TerminalEndsLog' /\ TerminalIsAnnounced'
  BY <1>1 DEF IInv, TerminalEndsLog, TerminalEvents, TerminalIsAnnounced, Present, Terminal
<1>5. EligibleHasMarker'
  BY <1>1 DEF IInv, EligibleHasMarker, EligibleAtEvent, TerminalEvents
<1>6. QED
  BY <1>2, <1>3, <1>4, <1>5 DEF IInv

LEMMA CleanupEventsInv ==
  ASSUME IInv, TypeOK', NEW t \in Tasks, NEW n \in 1..MaxSeq, CleanupEvents(t, n)
  PROVE  IInv'
<1>1. /\ \A u \in Tasks : events'[u] \subseteq events[u]
      /\ UNCHANGED <<tasks, event_counters, push_configs, pending_dispatches, snapshots>>
  BY DEF CleanupEvents, IInv, TypeOK
<1>2. SeqsBelowCounter' /\ RowsCounted' /\ FloorIsCounter'
  BY <1>1 DEF IInv, SeqsBelowCounter, RowsCounted, FloorIsCounter
<1>3. SnapshotsBehindRows'
  BY <1>1 DEF IInv, SnapshotsBehindRows, Present, Terminal
<1>4. TerminalEndsLog'
  BY <1>1 DEF IInv, TerminalEndsLog, TerminalEvents, Present
<1>5. TerminalIsAnnounced' /\ EligibleHasMarker'
  BY <1>1 DEF IInv, TerminalIsAnnounced, Terminal, EligibleHasMarker, EligibleAtEvent,
              TerminalEvents, TypeOK, MapOf
<1>6. QED
  BY <1>2, <1>3, <1>4, <1>5 DEF IInv

LEMMA TaskCallInv ==
  ASSUME IInv, TypeOK', NEW t \in Tasks, TaskCall(t)
  PROVE  IInv'
<1>1. CASE \E o \in Owners, i \in Items : CreateTaskWithEvents(t, o, i)
  BY <1>1, CreateTaskInv
<1>2. CASE \E o \in Owners, i \in Items : AppendMessage(t, o, i)
  <2>1. PICK o \in Owners, i \in Items : AppendMessage(t, o, i)
    BY <1>2
  <2>2. t \in DOMAIN tasks /\ tasks[t] \in Row
    BY <2>1 DEF AppendMessage, OwnedBy, Present, IInv, TypeOK, MapOf
  <2>3. SameShape
    BY <2>1, <2>2 DEF AppendMessage, SameShape, Row
  <2>4. QED
    BY <2>1, <2>3, FrameInv DEF AppendMessage
<1>3. CASE \E o \in Owners, s \in TaskState : UpdateTaskStatusWithEvents(t, o, s)
  BY <1>3, UpdateStatusInv
<1>4. CASE \E o \in Owners : SetCancelRequested(t, o)
  <2>1. PICK o \in Owners : SetCancelRequested(t, o)
    BY <1>4
  <2>2. t \in DOMAIN tasks /\ tasks[t] \in Row
    BY <2>1 DEF SetCancelRequested, OwnedBy, Present, IInv, TypeOK, MapOf
  <2>3. SameShape
    BY <2>1, <2>2 DEF SetCancelRequested, SameShape, Row
  <2>4. QED
    BY <2>1, <2>3, FrameInv DEF SetCancelRequested
<1>5. CASE \E e \in LeaseTimes \cup {NoLease} : RenewExecutorLeases({t}, e)
  <2>1. PICK e \in LeaseTimes \cup {NoLease} : RenewExecutorLeases({t}, e)
    BY <1>5
  <2>2. \A u \in DOMAIN tasks : tasks[u] \in Row
    BY DEF IInv, TypeOK, MapOf
  <2>3. SameShape
    BY <2>1, <2>2 DEF RenewExecutorLeases, SameShape, Row
  <2>4. QED
    BY <2>1, <2>3, FrameInv DEF RenewExecutorLeases
<1>6. CASE CleanupTask(t)
  BY <1>6, CleanupTaskInv
<1>7. CASE \E n \in 1..MaxSeq : CleanupEvents(t, n)
  BY <1>7, CleanupEventsInv
<1>8. QED
  BY <1>1, <1>2, <1>3, <1>4, <1>5, <1>6, <1>7 DEF TaskCall

LEMMA SinkCallInv ==
  ASSUME IInv, TypeOK', NEW w \in Writers, SinkCall(w)
  PROVE  IInv'
<1>1. CASE \E t \in Tasks, o \in Owners : GetTask(w, t, o)
  <2>1. PICK t \in Tasks, o \in Owners : GetTask(w, t, o)
    BY <1>1
  <2>2. /\ t \in DOMAIN tasks
        /\ snapshots'[w].task = t
        /\ snapshots'[w].status = tasks[t].status
        /\ DOMAIN snapshots' = DOMAIN snapshots \cup {w}
        /\ \A x \in DOMAIN snapshots \ {w} : snapshots'[x] = snapshots[x]
    BY <2>1 DEF GetTask, OwnedBy, Present, Put
  <2>3. SnapshotsBehindRows'
    BY <2>1, <2>2 DEF GetTask, IInv, SnapshotsBehindRows, RowsCounted, Present, Terminal
  <2>4. QED
    BY <2>1, <2>3
    DEF GetTask, IInv, SeqsBelowCounter, RowsCounted, TerminalEndsLog, TerminalEvents,
        TerminalIsAnnounced, FloorIsCounter, EligibleHasMarker, EligibleAtEvent,
        Present, Terminal
<1>2. CASE \E i \in Items : UpdateTaskWithEvents(w, i)
  BY <1>2, UpdateTaskInv
<1>3. CASE UpdateTaskWithEventsRefused(w)
  <2>1. SnapshotsBehindRows'
    BY <1>3 DEF UpdateTaskWithEventsRefused, Drop, IInv, SnapshotsBehindRows, Present, Terminal
  <2>2. QED
    BY <1>3, <2>1
    DEF UpdateTaskWithEventsRefused, IInv, SeqsBelowCounter, RowsCounted,
        TerminalEndsLog, TerminalEvents, TerminalIsAnnounced, FloorIsCounter,
        EligibleHasMarker, EligibleAtEvent, Present, Terminal
<1>4. QED
  BY <1>1, <1>2, <1>3 DEF SinkCall

\* Only CreateConfigInsert can make a config eligible, and the floor it stamps
\* is the number of the last event, so never for an event already committed.
LEMMA ConfigCallInv ==
  ASSUME IInv, TypeOK', NEW k \in ConfigKeys, ConfigCall(k)
  PROVE  IInv'
<1>1. CASE CreateConfigRead(k) \/ CreateConfigConflict(k)
  <2>1. SameShape /\ UNCHANGED snapshots
    BY <1>1 DEF CreateConfigRead, CreateConfigConflict, SameShape
  <2>2. QED
    BY <2>1, FrameInv
<1>2. CASE CreateConfigInsert(k) \/ DeleteConfig(k)
  <2>1. UNCHANGED <<tasks, event_counters, events, pending_dispatches, snapshots>>
    BY <1>2 DEF CreateConfigInsert, DeleteConfig
  <2>2. SUFFICES EligibleHasMarker'
    BY <2>1 DEF IInv, SeqsBelowCounter, RowsCounted, SnapshotsBehindRows,
                TerminalEndsLog, TerminalEvents, TerminalIsAnnounced, FloorIsCounter,
                Present, Terminal
  <2>3. SUFFICES ASSUME PushEnabled, NEW t \in DOMAIN tasks, NEW e \in TerminalEvents(t),
                        NEW c \in EligibleAtEvent(t, e.seq)'
                 PROVE  c \in EligibleAtEvent(t, e.seq)
    BY <2>1 DEF EligibleHasMarker, TerminalEvents, IInv
  <2>4. /\ t \in Tasks /\ e \in events[t] /\ e.seq \in Nat
        /\ tasks[t].latest_event_sequence \in Nat
        /\ e.seq = tasks[t].latest_event_sequence
    BY DEF IInv, TypeOK, MapOf, Row, TerminalEvents, Event, TerminalEndsLog, FloorIsCounter
  <2>5. CASE CreateConfigInsert(k)
    <3>1. /\ \A x \in DOMAIN push_configs' \ {k} :
               x \in DOMAIN push_configs /\ push_configs'[x] = push_configs[x]
          /\ push_configs'[k] = FloorOf(k[1])
      BY <2>5 DEF CreateConfigInsert, Put
    <3>2. c # k
      BY <2>4, <3>1 DEF EligibleAtEvent, FloorOf, Present
    <3>3. QED
      BY <3>1, <3>2 DEF EligibleAtEvent
  <2>6. CASE DeleteConfig(k)
    BY <2>6 DEF DeleteConfig, Drop, EligibleAtEvent
  <2>7. QED
    BY <1>2, <2>5, <2>6
<1>3. QED
  BY <1>1, <1>2 DEF ConfigCall

LEMMA StepInv == IInv /\ [Next]_vars => IInv'
<1> SUFFICES ASSUME IInv, [Next]_vars PROVE IInv'
  OBVIOUS
<1>0. TypeOK'
  BY StepType DEF IInv
<1>1. CASE \E t \in Tasks : TaskCall(t)
  BY <1>0, <1>1, TaskCallInv
<1>2. CASE \E w \in Writers : SinkCall(w)
  BY <1>0, <1>2, SinkCallInv
<1>3. CASE \E k \in ConfigKeys : ConfigCall(k)
  BY <1>0, <1>3, ConfigCallInv
<1>4. CASE \E ws \in SUBSET Writers : SinksDropped(ws)
  <2>1. SnapshotsBehindRows'
    BY <1>4 DEF SinksDropped, IInv, SnapshotsBehindRows, Present, Terminal
  <2>2. QED
    BY <1>0, <1>4, <2>1
    DEF SinksDropped, IInv, SeqsBelowCounter, RowsCounted, TerminalEndsLog,
        TerminalEvents, TerminalIsAnnounced, FloorIsCounter, EligibleHasMarker,
        EligibleAtEvent, Present, Terminal
<1>5. CASE UNCHANGED vars
  BY <1>0, <1>5, FrameInv DEF SameShape, vars
<1>6. QED
  BY <1>1, <1>2, <1>3, <1>4, <1>5 DEF Next

LEMMA Inductive == Spec => []IInv
  BY InitInv, StepInv, PTL DEF Spec

\* At most one terminal event, nothing after it, and the row agrees with it.
THEOREM TerminalEndsLogAlways == Spec => [](TerminalEndsLog /\ TerminalIsAnnounced)
<1>1. IInv => TerminalEndsLog /\ TerminalIsAnnounced
  BY DEF IInv
<1>2. QED
  BY <1>1, Inductive, PTL

\* The floor of a row is the counter that numbers its events.
THEOREM FloorIsCounterAlways == Spec => []FloorIsCounter
<1>1. IInv => FloorIsCounter
  BY DEF IInv
<1>2. QED
  BY <1>1, Inductive, PTL

\* No config is eligible for a terminal event that left no marker.
THEOREM EligibleHasMarkerAlways == Spec => []EligibleHasMarker
<1>1. IInv => EligibleHasMarker
  BY DEF IInv
<1>2. QED
  BY <1>1, Inductive, PTL

-------------------------------------------------------------------------------
(* What a step may do to a log *)

LEMMA LogStep ==
  IInv /\ [Next]_vars =>
    [\A t \in Tasks :
       /\ event_counters'[t] >= event_counters[t]
       /\ \A e \in events'[t] \ events[t] : e.seq > event_counters[t]]_vars
<1> SUFFICES ASSUME IInv, Next, NEW t \in Tasks
             PROVE  /\ event_counters'[t] >= event_counters[t]
                    /\ \A e \in events'[t] \ events[t] : e.seq > event_counters[t]
  OBVIOUS
<1>0. event_counters[t] \in Nat
  BY DEF IInv, TypeOK
<1>1. ASSUME NEW u \in Tasks, NEW s \in TaskState \cup {"Artifact"}, AppendEvent(u, s)
      PROVE  /\ event_counters'[t] >= event_counters[t]
             /\ \A e \in events'[t] \ events[t] : e.seq > event_counters[t]
  <2>1. CASE u = t
    BY <1>0, <1>1, <2>1, AppendFacts DEF IInv
  <2>2. CASE u # t
    BY <1>0, <1>1, <2>2, AppendFacts DEF IInv
  <2>3. QED
    BY <2>1, <2>2
<1>2. CASE \E u \in Tasks : TaskCall(u)
  <2>1. PICK u \in Tasks : TaskCall(u)
    BY <1>2
  <2>2. \/ \E s \in TaskState : AppendEvent(u, s)
        \/ events'[t] \subseteq events[t] /\ event_counters' = event_counters
    BY <2>1
    DEF TaskCall, CreateTaskWithEvents, AppendMessage, UpdateTaskStatusWithEvents,
        SetCancelRequested, RenewExecutorLeases, CleanupTask, CleanupEvents, IInv,
        TypeOK, TaskState, EXECUTOR_HELD_STATES
  <2>3. QED
    BY <1>0, <1>1, <2>2
<1>3. CASE \E w \in Writers : SinkCall(w)
  <2>1. PICK w \in Writers : SinkCall(w)
    BY <1>3
  <2>2. \/ \E u \in Tasks : AppendEvent(u, "Artifact")
        \/ events'[t] \subseteq events[t] /\ event_counters' = event_counters
    BY <2>1
    DEF SinkCall, GetTask, UpdateTaskWithEvents, UpdateTaskWithEventsRefused, IInv,
        TypeOK, MapOf, Snapshot
  <2>3. QED
    BY <1>0, <1>1, <2>2
<1>4. CASE \E k \in ConfigKeys : ConfigCall(k)
  BY <1>0, <1>4 DEF ConfigCall, CreateConfigRead, CreateConfigInsert,
                    CreateConfigConflict, DeleteConfig
<1>5. CASE \E ws \in SUBSET Writers : SinksDropped(ws)
  BY <1>0, <1>5 DEF SinksDropped
<1>6. QED
  BY <1>2, <1>3, <1>4, <1>5 DEF Next

\* Every step appends above the counter or not at all.
THEOREM LogOnlyGrowsAlways == Spec => LogOnlyGrowsAtItsEnd
  BY LogStep, Inductive, PTL DEF Spec, LogOnlyGrowsAtItsEnd

-------------------------------------------------------------------------------
(* What a rewrite of a row leaves alone *)

MarkersKept(t) ==
  /\ tasks[t].cancel_requested => tasks'[t].cancel_requested
  /\ events'[t] # events[t] => tasks'[t].lease_expires_at = tasks[t].lease_expires_at

\* A row that is there is never created: its key has been counted.
LEMMA TaskCallMarkers ==
  ASSUME IInv, NEW u \in Tasks, TaskCall(u),
         NEW t \in DOMAIN tasks \cap DOMAIN tasks'
  PROVE  MarkersKept(t)
<1>0. t \in Tasks /\ tasks[t] \in Row /\ event_counters[t] \in Nat /\ event_counters[t] > 0
  BY DEF IInv, TypeOK, MapOf, RowsCounted
<1>1. CASE \E o \in Owners, i \in Items : CreateTaskWithEvents(u, o, i)
  <2>1. t # u
    BY <1>0, <1>1 DEF CreateTaskWithEvents
  <2>2. tasks'[t] = tasks[t]
    BY <1>1, <2>1 DEF CreateTaskWithEvents, Put
  <2>3. QED
    BY <2>2 DEF MarkersKept
<1>2. CASE \E o \in Owners, i \in Items : AppendMessage(u, o, i)
  BY <1>0, <1>2 DEF AppendMessage, MarkersKept, Row
<1>3. CASE \E o \in Owners, s \in TaskState : UpdateTaskStatusWithEvents(u, o, s)
  BY <1>0, <1>3 DEF UpdateTaskStatusWithEvents, MarkersKept, Row
<1>4. CASE \E o \in Owners : SetCancelRequested(u, o)
  BY <1>0, <1>4 DEF SetCancelRequested, MarkersKept, Row
<1>5. CASE \E e \in LeaseTimes \cup {NoLease} : RenewExecutorLeases({u}, e)
  BY <1>0, <1>5 DEF RenewExecutorLeases, MarkersKept, Row
<1>6. CASE CleanupTask(u)
  BY <1>0, <1>6 DEF CleanupTask, Drop, MarkersKept
<1>7. CASE \E n \in 1..MaxSeq : CleanupEvents(u, n)
  BY <1>0, <1>7 DEF CleanupEvents, MarkersKept
<1>8. QED
  BY <1>1, <1>2, <1>3, <1>4, <1>5, <1>6, <1>7 DEF TaskCall

LEMMA SinkCallMarkers ==
  ASSUME IInv, NEW w \in Writers, SinkCall(w),
         NEW t \in DOMAIN tasks \cap DOMAIN tasks'
  PROVE  MarkersKept(t)
<1>1. CASE \E i \in Items : UpdateTaskWithEvents(w, i)
  <2>1. PICK i \in Items : UpdateTaskWithEvents(w, i)
    BY <1>1
  <2> DEFINE u == snapshots[w].task
             row == [tasks[u] EXCEPT !.status = snapshots[w].status,
                                     !.content = snapshots[w].content \cup {i},
                                     !.latest_event_sequence = NextSeq(u)]
  <2>2. tasks' = [tasks EXCEPT ![u] = row]
    BY <2>1 DEF UpdateTaskWithEvents
  <2>3. tasks[t] \in Row
    BY DEF IInv, TypeOK, MapOf
  <2>4. CASE t = u
    <3>1. tasks'[t] = row
      BY <2>2, <2>4
    <3>2. QED
      BY <2>3, <2>4, <3>1 DEF MarkersKept, Row
  <2>5. CASE t # u
    <3>1. tasks'[t] = tasks[t]
      BY <2>2, <2>5
    <3>2. QED
      BY <3>1 DEF MarkersKept
  <2>6. QED
    BY <2>4, <2>5
<1>2. CASE UNCHANGED <<tasks, events>>
  BY <1>2 DEF MarkersKept
<1>3. QED
  BY <1>1, <1>2 DEF SinkCall, GetTask, UpdateTaskWithEventsRefused

LEMMA MarkersStep ==
  IInv /\ [Next]_vars =>
    [\A t \in DOMAIN tasks \cap DOMAIN tasks' :
       /\ tasks[t].cancel_requested => tasks'[t].cancel_requested
       /\ events'[t] # events[t] =>
            tasks'[t].lease_expires_at = tasks[t].lease_expires_at]_vars
<1>1. ASSUME IInv, Next, NEW t \in DOMAIN tasks \cap DOMAIN tasks'
      PROVE  MarkersKept(t)
  <2>1. CASE \E u \in Tasks : TaskCall(u)
    BY <1>1, <2>1, TaskCallMarkers
  <2>2. CASE \E w \in Writers : SinkCall(w)
    BY <1>1, <2>2, SinkCallMarkers
  <2>3. CASE \E k \in ConfigKeys : ConfigCall(k)
    BY <2>3 DEF ConfigCall, CreateConfigRead, CreateConfigInsert, CreateConfigConflict,
                DeleteConfig, MarkersKept
  <2>4. CASE \E ws \in SUBSET Writers : SinksDropped(ws)
    BY <2>4 DEF SinksDropped, MarkersKept
  <2>5. QED
    BY <1>1, <2>1, <2>2, <2>3, <2>4 DEF Next
<1>2. QED
  BY <1>1, Zenon DEF MarkersKept

\* A cancel marker lasts as long as its row, and no commit of an event moves the
\* lease: not even a sink that read the row long before.
THEOREM MarkersSurviveAlways == Spec => MarkersSurviveRewrites
  BY MarkersStep, Inductive, PTL DEF Spec, MarkersSurviveRewrites

-------------------------------------------------------------------------------
(* TaskStore implements TaskVerdict *)

Life == [t \in Tasks |-> LifeOf(t)]

\* A step that changes what one row amounts to leaves the others alone.
LEMMA LifeChanges ==
  ASSUME NEW t \in Tasks,
         \A u \in Tasks \ {t} : LifeOf(u)' = LifeOf(u)
  PROVE  Life' = [Life EXCEPT ![t] = LifeOf(t)']
  BY DEF Life

LEMMA SameLife ==
  ASSUME SameShape
  PROVE  Life' = Life
<1>1. \A t \in Tasks : LifeOf(t)' = LifeOf(t)
  BY DEF SameShape, LifeOf, Present, Terminal
<1>2. QED
  BY <1>1 DEF Life

LEMMA VerdictInit == Init => V!Init
  BY DEF Init, V!Init, LifeOf, Present

LEMMA TaskCallVerdict ==
  ASSUME IInv, NEW t \in Tasks, TaskCall(t)
  PROVE  V!Next \/ Life' = Life
<1>1. CASE \E o \in Owners, i \in Items : CreateTaskWithEvents(t, o, i)
  <2>1. PICK o \in Owners, i \in Items : CreateTaskWithEvents(t, o, i)
    BY <1>1
  <2>2. /\ t \notin DOMAIN tasks
        /\ AppendEvent(t, "Submitted")
        /\ "Submitted" \in TaskState
        /\ DOMAIN tasks' = DOMAIN tasks \cup {t}
        /\ tasks'[t].status = "Submitted"
        /\ \A u \in DOMAIN tasks \ {t} : tasks'[u] = tasks[u]
    BY <2>1 DEF CreateTaskWithEvents, Put, TaskState, EXECUTOR_HELD_STATES, IInv, RowsCounted
  <2>3. LifeOf(t) = "absent" /\ LifeOf(t)' = "open"
    BY <2>1, <2>2 DEF LifeOf, Present, Terminal, TERMINAL_STATES, CreateTaskWithEvents
  <2>4. \A u \in Tasks \ {t} : LifeOf(u)' = LifeOf(u)
    BY <2>2, AppendFacts DEF IInv, LifeOf, Present, Terminal
  <2>5. V!Open(t)
    BY <2>3, <2>4, LifeChanges DEF V!Open, Life
  <2>6. QED
    BY <2>5 DEF V!Next
<1>2. CASE \E o \in Owners, s \in TaskState : UpdateTaskStatusWithEvents(t, o, s)
  <2>1. PICK o \in Owners, s \in TaskState : UpdateTaskStatusWithEvents(t, o, s)
    BY <1>2
  <2>2. /\ t \in DOMAIN tasks
        /\ tasks[t] \in Row
        /\ tasks[t].status \notin TERMINAL_STATES
        /\ AppendEvent(t, s)
    BY <2>1, TransitionFacts
    DEF UpdateTaskStatusWithEvents, OwnedBy, Present, IInv, TypeOK, MapOf
  <2>3. /\ DOMAIN tasks' = DOMAIN tasks
        /\ tasks'[t].status = s
        /\ \A u \in DOMAIN tasks \ {t} : tasks'[u] = tasks[u]
    BY <2>1, <2>2 DEF UpdateTaskStatusWithEvents, Row
  <2>4. \A u \in Tasks \ {t} : LifeOf(u)' = LifeOf(u)
    BY <2>2, <2>3, AppendFacts DEF IInv, LifeOf, Present, Terminal
  <2>5. LifeOf(t) = "open"
    BY <2>2 DEF LifeOf, Present, Terminal
  <2>6. CASE s \in TERMINAL_STATES
    <3>1. LifeOf(t)' = s
      BY <2>2, <2>3, <2>6 DEF LifeOf, Present, Terminal
    <3>2. V!Settle(t)
      BY <2>4, <2>5, <2>6, <3>1, LifeChanges DEF V!Settle, V!Verdict, V!TERMINAL_STATES, TERMINAL_STATES, Life
    <3>3. QED
      BY <3>2 DEF V!Next
  <2>7. CASE s \notin TERMINAL_STATES
    <3>1. LifeOf(t)' = "open"
      BY <2>2, <2>3, <2>7 DEF LifeOf, Present, Terminal
    <3>2. QED
      BY <2>4, <2>5, <3>1 DEF Life
  <2>8. QED
    BY <2>6, <2>7
<1>3. CASE CleanupTask(t)
  <2>1. /\ t \in DOMAIN tasks
        /\ tasks[t].status \in TERMINAL_STATES
        /\ DOMAIN tasks' = DOMAIN tasks \ {t}
        /\ \A u \in DOMAIN tasks' : tasks'[u] = tasks[u]
        /\ UNCHANGED event_counters
        /\ event_counters[t] # 0
    BY <1>3 DEF CleanupTask, Present, Terminal, Drop, IInv, RowsCounted
  <2>2. LifeOf(t) \in TERMINAL_STATES /\ LifeOf(t)' = "removed"
    BY <2>1 DEF LifeOf, Present, Terminal
  <2>3. \A u \in Tasks \ {t} : LifeOf(u)' = LifeOf(u)
    BY <2>1 DEF LifeOf, Present, Terminal
  <2>4. V!Remove(t)
    BY <2>2, <2>3, LifeChanges DEF V!Remove, V!Verdict, V!TERMINAL_STATES, TERMINAL_STATES, Life
  <2>5. QED
    BY <2>4 DEF V!Next
<1>4. CASE \E n \in 1..MaxSeq : CleanupEvents(t, n)
  BY <1>4 DEF CleanupEvents, Life, LifeOf, Present, Terminal
<1>5. CASE \/ \E o \in Owners, i \in Items : AppendMessage(t, o, i)
           \/ \E o \in Owners : SetCancelRequested(t, o)
           \/ \E e \in LeaseTimes \cup {NoLease} : RenewExecutorLeases({t}, e)
  <2>1. \A u \in DOMAIN tasks : tasks[u] \in Row
    BY DEF IInv, TypeOK, MapOf
  <2>2. DOMAIN tasks' = DOMAIN tasks /\ UNCHANGED event_counters
    BY <1>5 DEF AppendMessage, SetCancelRequested, RenewExecutorLeases
  <2>3. \A u \in DOMAIN tasks : tasks'[u].status = tasks[u].status
    BY <1>5, <2>1 DEF AppendMessage, SetCancelRequested, RenewExecutorLeases, Row
  <2>4. QED
    BY <2>2, <2>3 DEF Life, LifeOf, Present, Terminal
<1>6. QED
  BY <1>1, <1>2, <1>3, <1>4, <1>5 DEF TaskCall

LEMMA SinkCallVerdict ==
  ASSUME IInv, NEW w \in Writers, SinkCall(w)
  PROVE  Life' = Life
<1>1. CASE \E i \in Items : UpdateTaskWithEvents(w, i)
  <2>1. PICK i \in Items : UpdateTaskWithEvents(w, i)
    BY <1>1
  <2>0. PICK t \in Tasks : t = snapshots[w].task
    BY <2>1 DEF UpdateTaskWithEvents, IInv, TypeOK, MapOf, Snapshot
  <2>2. /\ t \in DOMAIN tasks
        /\ tasks[t] \in Row
        /\ tasks[t].status \notin TERMINAL_STATES
        /\ snapshots[w].status \notin TERMINAL_STATES
        /\ AppendEvent(t, "Artifact")
    BY <2>0, <2>1 DEF UpdateTaskWithEvents, OwnedBy, Present, Terminal, IInv, TypeOK, MapOf,
                Snapshot, SnapshotsBehindRows
  <2>3. /\ DOMAIN tasks' = DOMAIN tasks
        /\ tasks'[t].status = snapshots[w].status
        /\ \A u \in DOMAIN tasks \ {t} : tasks'[u] = tasks[u]
    BY <2>0, <2>1, <2>2 DEF UpdateTaskWithEvents, Row
  <2>4. \A u \in Tasks \ {t} : LifeOf(u)' = LifeOf(u)
    BY <2>2, <2>3, AppendFacts DEF IInv, LifeOf, Present, Terminal
  <2>5. LifeOf(t)' = LifeOf(t)
    BY <2>2, <2>3 DEF LifeOf, Present, Terminal
  <2>6. QED
    BY <2>4, <2>5 DEF Life
<1>2. CASE (\E t \in Tasks, o \in Owners : GetTask(w, t, o)) \/ UpdateTaskWithEventsRefused(w)
  BY <1>2 DEF GetTask, UpdateTaskWithEventsRefused, Life, LifeOf, Present, Terminal
<1>3. QED
  BY <1>1, <1>2 DEF SinkCall

LEMMA VerdictStep == IInv /\ [Next]_vars => [V!Next]_Life
<1> SUFFICES ASSUME IInv, [Next]_vars PROVE V!Next \/ Life' = Life
  OBVIOUS
<1>1. CASE \E t \in Tasks : TaskCall(t)
  BY <1>1, TaskCallVerdict
<1>2. CASE \E w \in Writers : SinkCall(w)
  BY <1>2, SinkCallVerdict
<1>3. CASE \E k \in ConfigKeys : ConfigCall(k)
  BY <1>3 DEF ConfigCall, CreateConfigRead, CreateConfigInsert, CreateConfigConflict,
              DeleteConfig, Life, LifeOf, Present, Terminal
<1>4. CASE (\E ws \in SUBSET Writers : SinksDropped(ws)) \/ UNCHANGED vars
  BY <1>4 DEF SinksDropped, vars, Life, LifeOf, Present, Terminal
<1>5. QED
  BY <1>1, <1>2, <1>3, <1>4 DEF Next

\* Every behaviour of the store is a behaviour of TaskVerdict: a task is settled
\* at most once, the verdict is never revised, and only retention removes it.
THEOREM StoreImplementsVerdict == Spec => ImplementsVerdict
  BY VerdictInit, VerdictStep, Inductive, PTL DEF Spec, ImplementsVerdict, V!Spec, Life
===============================================================================
