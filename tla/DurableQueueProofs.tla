--------------------------- MODULE DurableQueueProofs ---------------------------
(***************************************************************************)
(* TLAPS proofs about queued turns and the recovery handlers beside them,  *)
(* for every number of sends, workers, cancels and redeliveries.  QueueInv *)
(* names who moves a held task on: a request on its way to the queue, a    *)
(* stored record whose run is not over, or the dead letters.               *)
(***************************************************************************)
EXTENDS LambdaRecovery, TaskStoreProofs

(* The store under the queue *)

StoreInv ==
  /\ TypeOK
  /\ Present(Task) => event_counters[Task] > 0
  /\ FloorOf(Task) <= event_counters[Task]
  /\ \A k \in DOMAIN push_configs : k[1] = Task => push_configs[k] <= event_counters[Task]
  /\ pending_dispatches # {} => event_counters[Task] > 0

-------------------------------------------------------------------------------
(* The queue *)

\* The turn is committed WORKING and its job not queued.
Committed(s) == send[s].pc \in {"working", "registered", "compensating"}

Submitted == Present(Task) /\ Status = "Submitted"

\* No request drives and no job stands before the task is there, and none is
\* committed while it is SUBMITTED; a job is queued behind its request, and behind
\* its configuration, which nothing then removes.
RequestPart(s) ==
  /\ event_counters[Task] = 0 =>
       send[s].pc # "begun" /\ ~Committed(s) /\ queue[s].state = "none"
  /\ Submitted => ~Committed(s) /\ queue[s].state = "none"
  /\ send[s].pc \notin {"compensating", "done"} => queue[s].state = "none"
  /\ s \in Inline /\ (send[s].pc = "registered" \/ queue[s].state # "none") =>
       <<Task, s>> \in DOMAIN push_configs

\* A delivery that was taken under the marker meets the marker, or no task, at
\* its check, unless it cannot be read.
MarkIsMet(w) ==
  worker[w].marked =>
    CASE worker[w].pc = "cleared" -> faults.unmarked \/ ~Present(Task)
      [] worker[w].pc = "running" -> faults.unmarked
      [] worker[w].pc \in {"received", "loaded"} -> Present(Task) => Marked
      [] OTHER -> TRUE

\* An invocation has a record exactly while it works, and a record was queued.
DeliveryPart(w) ==
  /\ event_counters[Task] = 0 \/ Submitted => worker[w].pc = "idle"
  /\ IF worker[w].pc = "idle" THEN worker[w] = Resting
     ELSE Job(w) \in Sends /\ queue[Job(w)].state # "none"
  /\ MarkIsMet(w)

\* The executor of this delivery has nothing more to commit.
RunOver(w) == worker[w].pc = "returned" \/ worker[w].closed \/ worker[w].client_held

\* A stored record of which no delivery is through its run.
Fresh(s) == queue[s].state = "stored" /\ \A w \in Workers : Job(w) = s => ~RunOver(w)

Anchor(s) == Committed(s) \/ queue[s].state = "dead" \/ Fresh(s)
Anchored == (\E s \in Sends : Anchor(s)) \/ faults.stranded

HeldIsAnchored ==
  Held => \/ Anchored
          \/ Status = "Submitted" /\ \E s \in Sends : send[s].pc = "begun"

QueueInv ==
  /\ \A s \in Sends : RequestPart(s)
  /\ \A w \in Workers : DeliveryPart(w)
  /\ HeldIsAnchored

\* The handlers work for a task that was there.
HandlersBegun ==
  inserts > 0 \/ (\E h \in Handlers : handler[h] # "idle") => event_counters[Task] > 0

LambdaInv == StoreInv /\ RecoveryTypeOK /\ QueueInv /\ HandlersBegun

-------------------------------------------------------------------------------
(* What a step does to the store *)

QueueWrite ==
  \/ \E s \in Sends : CreateTaskWithEvents(Task, Owner, s) \/ AppendMessage(Task, Owner, s)
  \/ \E st \in TaskState : UpdateTaskStatusWithEvents(Task, Owner, st)
  \/ SetCancelRequested(Task, Owner)
  \/ CleanupTask(Task)
  \/ \E k \in ConfigKeys : CreateConfigRead(k) \/ CreateConfigInsert(k) \/ CreateConfigConflict(k)

\* A recovery handler puts the marker of the terminal event, or deletes it.
MarkerWrite ==
  /\ event_counters[Task] > 0
  /\ pending_dispatches' \subseteq pending_dispatches \cup {<<Task, TerminalSeq>>}
  /\ UNCHANGED OtherRows

StoreMoves ==
  /\ event_counters[Task] <= event_counters'[Task]
  /\ Present(Task)' => Present(Task) \/ event_counters[Task] = 0
  /\ Marked /\ Present(Task)' => Marked'
  /\ Submitted' => Submitted \/ event_counters[Task] = 0
  /\ DOMAIN push_configs \subseteq DOMAIN push_configs'

LEMMA StoreTypes ==
  ASSUME StoreInv, QueueWrite \/ MarkerWrite \/ UNCHANGED vars
  PROVE  TypeOK'
<1>1. CASE QueueWrite
  <2>1. (\E t \in Tasks : TaskCall(t)) \/ (\E k \in ConfigKeys : ConfigCall(k))
    BY <1>1, DurableAssumption DEF QueueWrite, TaskCall, ConfigCall
  <2>2. QED
    BY <2>1, StepType DEF Next, StoreInv
<1>2. CASE MarkerWrite
  <2>1. <<Task, TerminalSeq>> \in Tasks \X (Nat \ {0})
    BY <1>2, DurableAssumption DEF StoreInv, TypeOK, MarkerWrite, TerminalSeq
  <2>2. QED
    BY <1>2, <2>1 DEF StoreInv, TypeOK, MarkerWrite, OtherRows, MapOf
<1>3. CASE UNCHANGED vars
  BY <1>3, StepType DEF StoreInv
<1>4. QED
  BY <1>1, <1>2, <1>3

LEMMA AppendsOne ==
  ASSUME TypeOK, NEW st, AppendEvent(Task, st)
  PROVE  /\ event_counters[Task] \in Nat
         /\ event_counters'[Task] = event_counters[Task] + 1
         /\ NextSeq(Task) = event_counters[Task] + 1
  BY DurableAssumption DEF TypeOK, AppendEvent, NextSeq

\* The rows of the configurations are numbers below the counter.
LEMMA FloorsKept ==
  ASSUME StoreInv, TypeOK', UNCHANGED push_configs,
         event_counters[Task] <= event_counters'[Task]
  PROVE  \A k \in DOMAIN push_configs' : k[1] = Task => push_configs'[k] <= event_counters'[Task]
<1>1. event_counters[Task] \in Nat /\ event_counters'[Task] \in Nat
  BY DurableAssumption DEF StoreInv, TypeOK
<1>2. \A k \in DOMAIN push_configs : push_configs[k] \in Nat
  BY DEF StoreInv, TypeOK, MapOf
<1>3. QED
  BY <1>1, <1>2 DEF StoreInv

LEMMA StoreStep ==
  ASSUME StoreInv, QueueWrite \/ MarkerWrite \/ UNCHANGED vars
  PROVE  StoreInv' /\ StoreMoves
<1> USE DEF StoreInv, StoreMoves
<1>0. TypeOK'
  BY StoreTypes
<1>n. event_counters[Task] \in Nat
  BY DurableAssumption DEF TypeOK
<1>1. ASSUME NEW s \in Sends, CreateTaskWithEvents(Task, Owner, s)
      PROVE  StoreInv' /\ StoreMoves
  <2>1. event_counters[Task] = 0 /\ event_counters'[Task] = 1 /\ NextSeq(Task) = 1
    BY <1>1, AppendsOne DEF CreateTaskWithEvents
  <2>2. Present(Task)' /\ tasks'[Task].latest_event_sequence = 1 /\ ~Present(Task)
    BY <1>1, <2>1, <1>n DEF CreateTaskWithEvents, Put, Present
  <2>3. UNCHANGED <<push_configs, pending_dispatches>>
    BY <1>1 DEF CreateTaskWithEvents
  <2>4. \A k \in DOMAIN push_configs' : k[1] = Task => push_configs'[k] <= event_counters'[Task]
    BY <1>0, <2>1, <2>3, FloorsKept
  <2>5. QED
    BY <1>0, <2>1, <2>2, <2>3, <2>4 DEF FloorOf, Marked, Submitted, Status
<1>2. ASSUME NEW st \in TaskState, UpdateTaskStatusWithEvents(Task, Owner, st)
      PROVE  StoreInv' /\ StoreMoves
  <2>1. event_counters'[Task] = event_counters[Task] + 1
        /\ NextSeq(Task) = event_counters[Task] + 1
    BY <1>2, AppendsOne DEF UpdateTaskStatusWithEvents
  <2>2. /\ Present(Task) /\ Present(Task)'
        /\ tasks'[Task].latest_event_sequence = NextSeq(Task)
        /\ tasks'[Task].status = st /\ st # "Submitted"
        /\ tasks'[Task].cancel_requested = tasks[Task].cancel_requested
    BY <1>2 DEF UpdateTaskStatusWithEvents, OwnedBy, Present, TypeOK, MapOf, Row, ValidTransition,
              TERMINAL_STATES, CLIENT_HELD_STATES
  <2>3. UNCHANGED push_configs
    BY <1>2 DEF UpdateTaskStatusWithEvents
  <2>4. \A k \in DOMAIN push_configs' : k[1] = Task => push_configs'[k] <= event_counters'[Task]
    BY <1>0, <1>n, <2>1, <2>3, FloorsKept
  <2>5. QED
    BY <1>0, <1>n, <2>1, <2>2, <2>3, <2>4 DEF FloorOf, Marked, Submitted, Status
<1>3. ASSUME \/ \E s \in Sends : AppendMessage(Task, Owner, s)
             \/ SetCancelRequested(Task, Owner)
      PROVE  StoreInv' /\ StoreMoves
  <2>1. /\ Present(Task) /\ Present(Task)'
        /\ tasks'[Task].latest_event_sequence = tasks[Task].latest_event_sequence
        /\ tasks'[Task].status = tasks[Task].status
        /\ tasks[Task].cancel_requested => tasks'[Task].cancel_requested
    BY <1>3 DEF AppendMessage, SetCancelRequested, OwnedBy, Present, TypeOK, MapOf, Row
  <2>2. UNCHANGED <<event_counters, push_configs, pending_dispatches>>
    BY <1>3 DEF AppendMessage, SetCancelRequested
  <2>3. QED
    BY <1>0, <1>n, <2>1, <2>2 DEF FloorOf, Marked, Submitted, Status
<1>4. CASE CleanupTask(Task)
  BY <1>0, <1>n, <1>4 DEF CleanupTask, Drop, FloorOf, Present, Marked, Submitted, Status
<1>5. ASSUME NEW k \in ConfigKeys,
             CreateConfigRead(k) \/ CreateConfigInsert(k) \/ CreateConfigConflict(k)
      PROVE  StoreInv' /\ StoreMoves
  <2>1. UNCHANGED <<tasks, event_counters, pending_dispatches>>
    BY <1>5 DEF CreateConfigRead, CreateConfigInsert, CreateConfigConflict
  <2>2. UNCHANGED push_configs \/ push_configs' = Put(push_configs, k, FloorOf(k[1]))
    BY <1>5 DEF CreateConfigRead, CreateConfigInsert, CreateConfigConflict
  <2>3. /\ DOMAIN push_configs \subseteq DOMAIN push_configs'
        /\ \A c \in DOMAIN push_configs' : c[1] = Task =>
             push_configs'[c] <= event_counters'[Task]
    BY <2>1, <2>2 DEF Put
  <2>4. QED
    BY <1>0, <1>n, <2>1, <2>3 DEF FloorOf, Marked, Present, Submitted, Status
<1>6. CASE MarkerWrite
  BY <1>0, <1>n, <1>6 DEF MarkerWrite, OtherRows, FloorOf, Marked, Present, Submitted, Status
<1>7. CASE UNCHANGED vars
  BY <1>0, <1>n, <1>7 DEF vars, FloorOf, Marked, Present, Submitted, Status
<1>8. QED
  BY <1>1, <1>2, <1>3, <1>4, <1>5, <1>6, <1>7 DEF QueueWrite

-------------------------------------------------------------------------------
(* Types of the queue *)

QueueTypes ==
  /\ send \in [Sends -> Send]
  /\ queue \in [Sends -> Record]
  /\ worker \in [Workers -> Worker]
  /\ cancel \in [Cancels -> {"idle", "marked", "done"}]
  /\ sweep \in BOOLEAN
  /\ faults \in [count: 0..MaxFaults, stranded: BOOLEAN, unmarked: BOOLEAN]

FlagsKept ==
  /\ faults' \in [count: 0..MaxFaults, stranded: BOOLEAN, unmarked: BOOLEAN]
  /\ faults.stranded => faults'.stranded
  /\ faults.unmarked => faults'.unmarked

LEMMA FaultFacts ==
  ASSUME QueueTypes
  PROVE  /\ Fault \/ Strands \/ Unmarks \/ UNCHANGED faults => FlagsKept
         /\ Strands => faults'.stranded
         /\ Unmarks => faults'.unmarked
<1>1. MaxFaults \in Nat
  BY DurableAssumption
<1>2. ASSUME NEW fault \in [count: 0..MaxFaults, stranded: BOOLEAN, unmarked: BOOLEAN],
             fault.count = faults.count, FaultWith(fault)
      PROVE  /\ faults' \in [count: 0..MaxFaults, stranded: BOOLEAN, unmarked: BOOLEAN]
             /\ faults'.stranded = fault.stranded /\ faults'.unmarked = fault.unmarked
  <2>1. fault.count + 1 \in 0..MaxFaults
    BY <1>1, <1>2 DEF FaultWith
  <2>2. QED
    BY <1>2, <2>1 DEF FaultWith
<1>3. faults \in [count: 0..MaxFaults, stranded: BOOLEAN, unmarked: BOOLEAN]
  BY DEF QueueTypes
<1>4. Fault => FlagsKept
  BY <1>2, <1>3 DEF Fault, FlagsKept
<1>5. ASSUME Strands PROVE FlagsKept /\ faults'.stranded
  <2> DEFINE after == [faults EXCEPT !.stranded = TRUE]
  <2>1. /\ after \in [count: 0..MaxFaults, stranded: BOOLEAN, unmarked: BOOLEAN]
        /\ after.count = faults.count /\ after.stranded = TRUE
        /\ after.unmarked = faults.unmarked
    BY <1>3
  <2>2. FaultWith(after)
    BY <1>5 DEF Strands
  <2> HIDE DEF after
  <2>3. QED
    BY <1>2, <2>1, <2>2 DEF FlagsKept
<1>6. ASSUME Unmarks PROVE FlagsKept /\ faults'.unmarked
  <2> DEFINE after == [faults EXCEPT !.unmarked = TRUE]
  <2>1. /\ after \in [count: 0..MaxFaults, stranded: BOOLEAN, unmarked: BOOLEAN]
        /\ after.count = faults.count /\ after.unmarked = TRUE
        /\ after.stranded = faults.stranded
    BY <1>3
  <2>2. FaultWith(after)
    BY <1>6 DEF Unmarks
  <2> HIDE DEF after
  <2>3. QED
    BY <1>2, <2>1, <2>2 DEF FlagsKept
<1>7. UNCHANGED faults => FlagsKept
  BY <1>3 DEF FlagsKept
<1>8. QED
  BY <1>4, <1>5, <1>6, <1>7

LEMMA RestingType == Resting \in Worker
  BY DEF Resting, Worker

LEMMA SendSet ==
  ASSUME QueueTypes, NEW s \in Sends,
         NEW pc \in {"idle", "resolved", "begun", "working", "registered", "compensating", "done"},
         Goto(s, pc)
  PROVE  /\ send' \in [Sends -> Send]
         /\ send'[s].pc = pc
         /\ \A r \in Sends \ {s} : send'[r] = send[r]
  BY DEF QueueTypes, Goto, Send

LEMMA WorkSet ==
  ASSUME QueueTypes, NEW w \in Workers,
         NEW pc \in {"idle", "received", "loaded", "canceling", "cleared", "running", "returned"},
         Work(w, pc)
  PROVE  /\ worker' \in [Workers -> Worker]
         /\ worker'[w] = [worker[w] EXCEPT !.pc = pc]
         /\ \A v \in Workers \ {w} : worker'[v] = worker[v]
  BY DEF QueueTypes, Work, Worker

\* A record is acknowledged: deleted when it was stored.
LEMMA AckSet ==
  ASSUME QueueTypes, NEW w \in Workers, Job(w) \in Sends, Ack(w)
  PROVE  /\ worker' \in [Workers -> Worker] /\ queue' \in [Sends -> Record]
         /\ worker'[w] = Resting
         /\ \A v \in Workers \ {w} : worker'[v] = worker[v]
         /\ \A s \in Sends \ {Job(w)} : queue'[s] = queue[s]
         /\ queue'[Job(w)].state \in {queue[Job(w)].state, "deleted"}
         /\ queue[Job(w)].state = "none" => queue'[Job(w)].state = "none"
         /\ queue[Job(w)].state = "dead" => queue'[Job(w)].state = "dead"
  BY RestingType DEF QueueTypes, Ack, Record

LEMMA RetrySet ==
  ASSUME QueueTypes, NEW w \in Workers, Retry(w)
  PROVE  /\ worker' \in [Workers -> Worker] /\ UNCHANGED queue
         /\ worker'[w] = Resting
         /\ \A v \in Workers \ {w} : worker'[v] = worker[v]
  BY RestingType DEF QueueTypes, Retry

LEMMA StoredSet ==
  ASSUME QueueTypes, NEW s \in Sends, NEW st \in {"none", "stored", "deleted", "dead"},
         queue' = [queue EXCEPT ![s].state = st]
  PROVE  /\ queue' \in [Sends -> Record]
         /\ queue'[s].state = st
         /\ \A r \in Sends \ {s} : queue'[r] = queue[r]
  BY DEF QueueTypes, Record

\* What each action of a request does to the store.
LEMMA RequestWrites ==
  ASSUME StoreInv, NEW s \in Sends,
         ResolveNew(s) \/ ResolveFollowUp(s) \/ PayloadTooLarge(s) \/ Request(s)
           \/ (\E b \in BOOLEAN : EnqueueFails(s, b)) \/ RequestKilled(s) \/ DeadLetter(s)
  PROVE  QueueWrite \/ UNCHANGED vars
<1>1. CASE BeginTurn(s)
  BY <1>1 DEF BeginTurn, QueueWrite
<1>2. CASE CommitWorking(s)
  BY <1>2 DEF CommitWorking, QueueWrite, TaskState, EXECUTOR_HELD_STATES
<1>3. CASE Register(s)
  <2>1. s \in Inline => <<Task, s>> \in ConfigKeys
    BY DurableAssumption DEF ConfigKeys
  <2>2. CreateConfigInsert(<<Task, s>>) \/ CreateConfigConflict(<<Task, s>>)
          => <<Task, s>> \in ConfigKeys
    BY DEF StoreInv, TypeOK, MapOf, CreateConfigInsert, CreateConfigConflict
  <2>3. \/ \E k \in ConfigKeys :
             CreateConfigRead(k) \/ CreateConfigInsert(k) \/ CreateConfigConflict(k)
        \/ UNCHANGED vars
    BY <1>3, <2>1, <2>2 DEF Register
  <2>4. QED
    BY <2>3 DEF QueueWrite
<1>4. CASE Compensate(s)
  BY <1>4 DEF Compensate, CommitTerminal, QueueWrite, TaskState, TERMINAL_STATES
<1>5. QED
  BY <1>1, <1>2, <1>3, <1>4
  DEF ResolveNew, ResolveFollowUp, PayloadTooLarge, Request, CommitWorkingRefused, Enqueue,
      EnqueueFails, RequestKilled, DeadLetter

LEMMA WorkerWrites ==
  ASSUME NEW w \in Workers,
         (\E s \in Sends : Receive(w, s)) \/ Consume(w) \/ WorkerDies(w)
  PROVE  QueueWrite \/ UNCHANGED vars
<1>1. CASE CommitCanceled(w)
  BY <1>1 DEF CommitCanceled, CommitTerminal, QueueWrite, TaskState, TERMINAL_STATES
<1>2. CASE Run(w)
  BY <1>2 DEF Run, SinkCommits, SinkRefused, ExecutorReturns, QueueWrite
<1>3. QED
  BY <1>1, <1>2
  DEF Consume, Receive, Load, CheckMarker, StartExecutor, FinishRecord, WorkerDies

LEMMA QueueWrites ==
  ASSUME StoreInv, QueueNext
  PROVE  QueueWrite \/ UNCHANGED vars
<1>1. ASSUME NEW c \in Cancels, CancelMarks(c) \/ CancelEnds(c)
      PROVE  QueueWrite \/ UNCHANGED vars
  BY <1>1 DEF CancelMarks, CancelEnds, CommitTerminal, QueueWrite, TaskState, TERMINAL_STATES
<1>2. CASE IdleList \/ IdleCommit \/ Maintain
  BY <1>2 DEF IdleList, IdleCommit, Maintain, CommitTerminal, QueueWrite, TaskState,
              TERMINAL_STATES
<1>3. QED
  BY <1>1, <1>2, RequestWrites, WorkerWrites DEF QueueNext

FaultsMove == Fault \/ Strands \/ Unmarks \/ UNCHANGED faults

LEMMA RequestTypes ==
  ASSUME QueueTypes, NEW s \in Sends,
         ResolveNew(s) \/ ResolveFollowUp(s) \/ PayloadTooLarge(s) \/ Request(s)
           \/ (\E b \in BOOLEAN : EnqueueFails(s, b)) \/ RequestKilled(s) \/ DeadLetter(s)
  PROVE  QueueTypes' /\ FaultsMove
<1>0. FaultsMove /\ UNCHANGED <<worker, cancel, sweep>>
  BY DEF ResolveNew, ResolveFollowUp, PayloadTooLarge, Request, BeginTurn, CommitWorking,
         CommitWorkingRefused, Register, Enqueue, Compensate, EnqueueFails, RequestKilled,
         DeadLetter, FaultsMove
<1>1. send' \in [Sends -> Send]
  <2>1. CASE ResolveFollowUp(s)
    BY <2>1 DEF ResolveFollowUp, QueueTypes, Answer, Goto, Send
  <2>2. CASE DeadLetter(s)
    BY <2>2 DEF DeadLetter, QueueTypes
  <2>3. CASE \/ ResolveNew(s) \/ PayloadTooLarge(s) \/ Request(s)
             \/ (\E b \in BOOLEAN : EnqueueFails(s, b)) \/ RequestKilled(s)
    <3>1. \/ UNCHANGED send
          \/ \E pc \in {"resolved", "begun", "working", "registered", "compensating", "done"} :
               Goto(s, pc)
      BY <2>3
      DEF ResolveNew, PayloadTooLarge, Request, BeginTurn, CommitWorking, CommitWorkingRefused,
          Register, Enqueue, Compensate, EnqueueFails, RequestKilled, Answer
    <3>2. QED
      BY <3>1, SendSet DEF QueueTypes
  <2>4. QED
    BY <2>1, <2>2, <2>3
<1>2. queue' \in [Sends -> Record]
  <2>1. UNCHANGED queue \/ \E st \in {"stored", "dead"} : queue' = [queue EXCEPT ![s].state = st]
    BY DEF ResolveNew, ResolveFollowUp, PayloadTooLarge, Request, BeginTurn, CommitWorking,
           CommitWorkingRefused, Register, Enqueue, Compensate, EnqueueFails, RequestKilled,
           DeadLetter
  <2>2. QED
    BY <2>1, StoredSet DEF QueueTypes
<1>3. QED
  BY <1>0, <1>1, <1>2, FaultFacts DEF QueueTypes, FaultsMove, FlagsKept

WorkerPc == {"idle", "received", "loaded", "canceling", "cleared", "running", "returned"}

LEMMA RunRow ==
  ASSUME NEW row \in Worker, NEW pc \in WorkerPc, NEW b \in BOOLEAN, NEW d \in BOOLEAN
  PROVE  /\ [row EXCEPT !.closed = b, !.pc = pc] \in Worker
         /\ [row EXCEPT !.closed = b, !.client_held = d, !.pc = pc] \in Worker
  BY DEF Worker, WorkerPc

LEMMA WorkerTypes ==
  ASSUME QueueTypes, NEW w \in Workers, DeliveryPart(w),
         (\E s \in Sends : Receive(w, s)) \/ Consume(w) \/ WorkerDies(w)
  PROVE  QueueTypes' /\ FaultsMove
<1>0. /\ FaultsMove
      /\ UNCHANGED <<send, cancel, sweep>>
  BY DEF Receive, Consume, Load, CheckMarker, CommitCanceled, StartExecutor, Run, SinkCommits,
         SinkRefused, ExecutorReturns, FinishRecord, WorkerDies, FaultsMove
<1>1. worker[w].pc # "idle" => Job(w) \in Sends
  BY DEF DeliveryPart
<1>2. ASSUME NEW s \in Sends, Receive(w, s)
      PROVE  worker' \in [Workers -> Worker] /\ queue' \in [Sends -> Record]
  <2>0. queue[s].receives < MaxReceives /\ queue[s].receives \in 0..MaxReceives
    BY <1>2 DEF Receive, QueueTypes, Record
  <2>1. queue[s].receives + 1 \in 0..MaxReceives
    BY <2>0, DurableAssumption
  <2>2. queue' \in [Sends -> Record]
    BY <1>2, <2>1 DEF Receive, QueueTypes, Record
  <2>3. Marked \in BOOLEAN => [Resting EXCEPT !.pc = "received", !.job = s, !.marked = Marked] \in Worker
    BY DEF Resting, Worker
  <2>4. Marked \in BOOLEAN
    BY DEF Marked
  <2>5. QED
    BY <1>2, <2>2, <2>3, <2>4 DEF Receive, QueueTypes
<1>3. ASSUME NEW st \in TaskState, NEW r \in BOOLEAN, SinkCommits(w, st, r) \/ SinkRefused(w, r)
      PROVE  worker' \in [Workers -> Worker] /\ queue' \in [Sends -> Record]
  <2>1. worker[w] \in Worker /\ \A pc \in {worker[w].pc, "returned"} : pc \in WorkerPc
    BY DEF QueueTypes, Worker, WorkerPc
  <2>2. \A row \in Worker :
          worker' = [worker EXCEPT ![w] = row] => worker' \in [Workers -> Worker]
    BY DEF QueueTypes
  <2>3. worker[w].closed \in BOOLEAN
    BY DEF QueueTypes, Worker
  <2>4. (IF r THEN "returned" ELSE worker[w].pc) \in WorkerPc
    BY <2>1
  <2>5. worker' \in [Workers -> Worker]
    <3>1. CASE SinkCommits(w, st, r)
      <4>1. (worker[w].closed \/ st \in TERMINAL_STATES) \in BOOLEAN
            /\ (st \in CLIENT_HELD_STATES) \in BOOLEAN
        BY <2>3
      <4>2. worker' = [worker EXCEPT ![w] = [worker[w] EXCEPT
               !.closed = (worker[w].closed \/ st \in TERMINAL_STATES),
               !.client_held = (st \in CLIENT_HELD_STATES),
               !.pc = IF r THEN "returned" ELSE worker[w].pc]]
        BY <3>1 DEF SinkCommits, QueueTypes, Worker
      <4>3. [worker[w] EXCEPT
               !.closed = (worker[w].closed \/ st \in TERMINAL_STATES),
               !.client_held = (st \in CLIENT_HELD_STATES),
               !.pc = IF r THEN "returned" ELSE worker[w].pc] \in Worker
        BY <2>1, <2>4, <4>1, RunRow
      <4>4. QED
        BY <2>2, <4>2, <4>3
    <3>2. CASE SinkRefused(w, r)
      <4>1. Settled \in BOOLEAN
        BY DEF Settled
      <4>2. worker' = [worker EXCEPT ![w] = [worker[w] EXCEPT
               !.closed = Settled, !.pc = IF r THEN "returned" ELSE worker[w].pc]]
        BY <3>2 DEF SinkRefused, QueueTypes, Worker
      <4>3. [worker[w] EXCEPT
               !.closed = Settled, !.pc = IF r THEN "returned" ELSE worker[w].pc] \in Worker
        BY <2>1, <2>4, <4>1, RunRow
      <4>4. QED
        BY <2>2, <4>2, <4>3
    <3>3. QED
      BY <1>3, <3>1, <3>2
  <2>6. QED
    BY <1>3, <2>5 DEF SinkCommits, SinkRefused, QueueTypes
<1>4. ASSUME NEW pc \in {"loaded", "canceling", "cleared", "running", "returned"},
             Work(w, pc), UNCHANGED queue
      PROVE  worker' \in [Workers -> Worker] /\ queue' \in [Sends -> Record]
  BY <1>4, WorkSet DEF QueueTypes
<1>5. ASSUME worker[w].pc # "idle", Ack(w) \/ Retry(w)
      PROVE  worker' \in [Workers -> Worker] /\ queue' \in [Sends -> Record]
  BY <1>1, <1>5, AckSet, RetrySet DEF QueueTypes
<1>6. ASSUME Consume(w) \/ WorkerDies(w)
      PROVE  worker' \in [Workers -> Worker] /\ queue' \in [Sends -> Record]
  <2>1. CASE Run(w) /\ ~ExecutorReturns(w)
    <3>1. \/ \E st \in TaskState, r \in BOOLEAN : SinkCommits(w, st, r)
          \/ \E r \in BOOLEAN : SinkRefused(w, r)
      BY <2>1 DEF Run
    <3>2. "Failed" \in TaskState
      BY DEF TaskState, TERMINAL_STATES
    <3>3. QED
      BY <1>3, <3>1, <3>2
  <2>2. CASE ~Run(w) \/ ExecutorReturns(w)
    <3>1. \/ UNCHANGED queue
             /\ \E pc \in {"loaded", "canceling", "cleared", "running", "returned"} : Work(w, pc)
          \/ worker[w].pc # "idle" /\ (Ack(w) \/ Retry(w))
      BY <1>6, <2>2
      DEF Consume, Run, Load, CheckMarker, CommitCanceled, StartExecutor, ExecutorReturns,
          FinishRecord, WorkerDies
    <3>2. QED
      BY <1>4, <1>5, <3>1
  <2>3. QED
    BY <2>1, <2>2
<1>7. worker' \in [Workers -> Worker] /\ queue' \in [Sends -> Record]
  BY <1>2, <1>6
<1>8. QED
  BY <1>0, <1>7, FaultFacts DEF QueueTypes, FaultsMove, FlagsKept

LEMMA QueueStepTypes ==
  ASSUME QueueTypes, \A w \in Workers : DeliveryPart(w), QueueNext
  PROVE  QueueTypes' /\ FlagsKept
<1>1. ASSUME NEW c \in Cancels, CancelMarks(c) \/ CancelEnds(c)
      PROVE  QueueTypes' /\ FaultsMove
  <2>1. cancel' \in [Cancels -> {"idle", "marked", "done"}]
    BY <1>1 DEF CancelMarks, CancelEnds, QueueTypes
  <2>2. FaultsMove /\ UNCHANGED <<send, queue, worker, sweep>>
    BY <1>1 DEF CancelMarks, CancelEnds, FaultsMove
  <2>3. QED
    BY <2>1, <2>2, FaultFacts DEF QueueTypes, FaultsMove, FlagsKept
<1>2. ASSUME IdleList \/ IdleCommit \/ Maintain
      PROVE  QueueTypes' /\ FaultsMove
  <2>1. UNCHANGED <<send, queue, worker, cancel, faults>>
    BY <1>2 DEF IdleList, IdleCommit, Maintain, queueVars
  <2>2. sweep' \in BOOLEAN
    BY <1>2 DEF IdleList, IdleCommit, Maintain, queueVars, QueueTypes
  <2>3. FaultsMove
    BY <2>1 DEF FaultsMove
  <2>4. QueueTypes'
    BY <2>1, <2>2 DEF QueueTypes
  <2>5. QED
    BY <2>3, <2>4
<1>3. ASSUME NEW s \in Sends,
             ResolveNew(s) \/ ResolveFollowUp(s) \/ PayloadTooLarge(s) \/ Request(s)
               \/ (\E b \in BOOLEAN : EnqueueFails(s, b)) \/ RequestKilled(s) \/ DeadLetter(s)
      PROVE  QueueTypes' /\ FaultsMove
  BY <1>3, RequestTypes
<1>4. ASSUME NEW w \in Workers,
             (\E s \in Sends : Receive(w, s)) \/ Consume(w) \/ WorkerDies(w)
      PROVE  QueueTypes' /\ FaultsMove
  BY <1>4, WorkerTypes
<1>5. QueueTypes' /\ FaultsMove
  BY <1>1, <1>2, <1>3, <1>4 DEF QueueNext
<1>6. QED
  BY <1>5, FaultFacts DEF FaultsMove

-------------------------------------------------------------------------------
(* Parts of the invariant a step leaves alone *)

\* A job is there after the step as before.
JobsStay == \A s \in Sends : queue[s].state = "none" <=> queue'[s].state = "none"

LEMMA RequestKept ==
  ASSUME StoreInv, StoreInv', StoreMoves, NEW s \in Sends, RequestPart(s),
         send'[s] = send[s], queue'[s].state = "none" <=> queue[s].state = "none"
  PROVE  RequestPart(s)'
<1>1. event_counters'[Task] = 0 => event_counters[Task] = 0
  BY DurableAssumption DEF StoreMoves, StoreInv, TypeOK
<1>2. QED
  BY <1>1 DEF StoreMoves, RequestPart, Committed

LEMMA DeliveryKept ==
  ASSUME StoreInv, StoreInv', StoreMoves, FlagsKept, NEW w \in Workers, DeliveryPart(w),
         worker'[w] = worker[w],
         Job(w) \in Sends /\ queue[Job(w)].state # "none" => queue'[Job(w)].state # "none"
  PROVE  DeliveryPart(w)'
<1>1. event_counters'[Task] = 0 => event_counters[Task] = 0
  BY DurableAssumption DEF StoreMoves, StoreInv, TypeOK
<1>2. CASE worker[w].pc = "idle"
  BY <1>1, <1>2 DEF DeliveryPart, MarkIsMet, Resting
<1>3. CASE worker[w].pc # "idle"
  <2>1. event_counters[Task] # 0 /\ ~Submitted /\ ~Submitted'
    BY <1>3 DEF DeliveryPart, StoreMoves
  <2>2. Present(Task)' => Present(Task)
    BY <2>1 DEF StoreMoves
  <2>3. MarkIsMet(w)'
    BY <2>2 DEF DeliveryPart, MarkIsMet, StoreMoves, FlagsKept, Marked
  <2>4. QED
    BY <1>1, <1>3, <2>1, <2>3 DEF DeliveryPart, Job
<1>4. QED
  BY <1>2, <1>3

\* The task is held after the step only as it was before.
KeepsStatus == Held' => Held /\ Status' = Status

LEMMA AnchorsKept ==
  ASSUME HeldIsAnchored, KeepsStatus, FlagsKept,
         \A s \in Sends : Anchor(s) => Anchor(s)',
         \A s \in Sends : send[s].pc = "begun" => send'[s].pc = "begun"
  PROVE  HeldIsAnchored'
  BY DEF HeldIsAnchored, KeepsStatus, FlagsKept, Anchored, Status

\* Nothing moves but the store and the flags.
LEMMA QuietKept ==
  ASSUME StoreInv, StoreInv', StoreMoves, FlagsKept, KeepsStatus, QueueInv,
         UNCHANGED <<send, queue, worker>>
  PROVE  QueueInv'
<1>1. \A s \in Sends : RequestPart(s)'
  BY RequestKept DEF QueueInv
<1>2. \A w \in Workers : DeliveryPart(w)'
  BY DeliveryKept DEF QueueInv
<1>3. HeldIsAnchored'
  BY AnchorsKept DEF QueueInv, Anchor, Committed, Fresh, RunOver, Job
<1>4. QED
  BY <1>1, <1>2, <1>3 DEF QueueInv

LEMMA StatusKept ==
  ASSUME StoreInv,
         \/ UNCHANGED vars
         \/ UNCHANGED tasks
         \/ \E s \in Sends : AppendMessage(Task, Owner, s)
         \/ SetCancelRequested(Task, Owner)
         \/ CleanupTask(Task)
         \/ \E st \in TERMINAL_STATES \cup CLIENT_HELD_STATES :
              UpdateTaskStatusWithEvents(Task, Owner, st)
  PROVE  KeepsStatus
<1>1. CASE UNCHANGED vars \/ UNCHANGED tasks
  BY <1>1 DEF vars, KeepsStatus, Held, Present, Status
<1>2. CASE \/ \E s \in Sends : AppendMessage(Task, Owner, s)
           \/ SetCancelRequested(Task, Owner)
  <2>1. Present(Task) /\ tasks'[Task].status = tasks[Task].status
    BY <1>2 DEF AppendMessage, SetCancelRequested, OwnedBy, Present, StoreInv, TypeOK, MapOf, Row
  <2>2. QED
    BY <2>1 DEF KeepsStatus, Held, Status
<1>3. CASE CleanupTask(Task)
  BY <1>3 DEF CleanupTask, Drop, KeepsStatus, Held, Present
<1>4. ASSUME NEW st \in TERMINAL_STATES \cup CLIENT_HELD_STATES,
             UpdateTaskStatusWithEvents(Task, Owner, st)
      PROVE  KeepsStatus
  <2>1. tasks'[Task].status = st
    BY <1>4 DEF UpdateTaskStatusWithEvents, OwnedBy, Present, StoreInv, TypeOK, MapOf, Row
  <2>2. QED
    BY <2>1 DEF KeepsStatus, Held, Status, EXECUTOR_HELD_STATES, TERMINAL_STATES,
                CLIENT_HELD_STATES
<1>5. QED
  BY <1>1, <1>2, <1>3, <1>4

-------------------------------------------------------------------------------
(* The steps of a request *)

LEMMA RequestFrame ==
  ASSUME QueueTypes, NEW s \in Sends,
         ResolveNew(s) \/ ResolveFollowUp(s) \/ PayloadTooLarge(s) \/ Request(s)
           \/ (\E b \in BOOLEAN : EnqueueFails(s, b)) \/ RequestKilled(s) \/ DeadLetter(s)
  PROVE  /\ UNCHANGED worker
         /\ \A r \in Sends \ {s} : send'[r] = send[r] /\ queue'[r] = queue[r]
<1>1. UNCHANGED worker
  BY DEF ResolveNew, ResolveFollowUp, PayloadTooLarge, Request, BeginTurn, CommitWorking,
         CommitWorkingRefused, Register, Enqueue, Compensate, EnqueueFails, RequestKilled,
         DeadLetter
<1>2. UNCHANGED queue \/ \E st \in {"stored", "dead"} : queue' = [queue EXCEPT ![s].state = st]
  BY DEF ResolveNew, ResolveFollowUp, PayloadTooLarge, Request, BeginTurn, CommitWorking,
         CommitWorkingRefused, Register, Enqueue, Compensate, EnqueueFails, RequestKilled,
         DeadLetter
<1>3. \/ UNCHANGED send
      \/ \E row : send' = [send EXCEPT ![s] = row]
  BY DEF ResolveNew, ResolveFollowUp, PayloadTooLarge, Request, BeginTurn, CommitWorking,
         CommitWorkingRefused, Register, Enqueue, Compensate, EnqueueFails, RequestKilled,
         DeadLetter, Goto, Answer
<1>4. QED
  BY <1>1, <1>2, <1>3 DEF QueueTypes

\* What is left to show of a step of request s: its own part, and who moves the
\* task on.
LEMMA RequestKeeps ==
  ASSUME StoreInv, StoreInv', StoreMoves, FlagsKept, QueueInv, NEW s \in Sends,
         UNCHANGED worker,
         \A r \in Sends \ {s} : send'[r] = send[r] /\ queue'[r] = queue[r],
         queue[s].state # "none" => queue'[s].state # "none",
         RequestPart(s)',
         \/ Held' => Anchor(s)' \/ faults'.stranded
         \/ KeepsStatus /\ (Anchor(s) => Anchor(s)') /\ (send[s].pc = "begun" => send'[s].pc = "begun")
         \/ Held' => Status' = "Submitted" /\ send'[s].pc = "begun"
  PROVE  QueueInv'
<1>1. \A r \in Sends : RequestPart(r)'
  BY RequestKept DEF QueueInv
<1>2. \A w \in Workers : DeliveryPart(w)'
  <2>1. \A r \in Sends : queue[r].state # "none" => queue'[r].state # "none"
    OBVIOUS
  <2>2. QED
    BY <2>1, DeliveryKept DEF QueueInv
<1>3. HeldIsAnchored'
  <2>1. \A r \in Sends \ {s} : Anchor(r) => Anchor(r)'
    BY DEF Anchor, Committed, Fresh, RunOver, Job
  <2>2. CASE Held' => Anchor(s)' \/ faults'.stranded
    BY <2>2 DEF HeldIsAnchored, Anchored
  <2>3. CASE KeepsStatus /\ (Anchor(s) => Anchor(s)')
             /\ (send[s].pc = "begun" => send'[s].pc = "begun")
    BY <2>1, <2>3, AnchorsKept DEF QueueInv
  <2>4. CASE Held' => Status' = "Submitted" /\ send'[s].pc = "begun"
    BY <2>4 DEF HeldIsAnchored
  <2>5. QED
    BY <2>2, <2>3, <2>4
<1>4. QED
  BY <1>1, <1>2, <1>3 DEF QueueInv

LEMMA RequestStep ==
  ASSUME StoreInv, QueueTypes, QueueInv, NEW s \in Sends,
         ResolveNew(s) \/ ResolveFollowUp(s) \/ PayloadTooLarge(s) \/ Request(s)
           \/ (\E b \in BOOLEAN : EnqueueFails(s, b)) \/ RequestKilled(s) \/ DeadLetter(s)
  PROVE  QueueInv'
<1>1. StoreInv' /\ StoreMoves
  BY RequestWrites, StoreStep
<1>2. FlagsKept
  BY RequestTypes, FaultFacts DEF FaultsMove
<1>3. UNCHANGED worker /\ \A r \in Sends \ {s} : send'[r] = send[r] /\ queue'[r] = queue[r]
  BY RequestFrame
<1>4. RequestPart(s) /\ HeldIsAnchored /\ send[s] \in Send /\ queue[s] \in Record
  BY DEF QueueInv, QueueTypes
<1>5. event_counters[Task] \in Nat /\ event_counters'[Task] \in Nat
      /\ event_counters[Task] <= event_counters'[Task]
      /\ (Present(Task) => event_counters[Task] > 0)
  BY <1>1, DurableAssumption DEF StoreInv, TypeOK, StoreMoves
\* The turn has not begun: nothing that counts has changed.
<1>6. ASSUME ResolveNew(s) \/ ResolveFollowUp(s) \/ PayloadTooLarge(s)
      PROVE  QueueInv'
  <2>1. send[s].pc \in {"idle", "resolved"} /\ send'[s].pc \in {"resolved", "done"}
        /\ UNCHANGED <<vars, queue>>
    <3>1. CASE ResolveNew(s)
      BY <1>4, <3>1 DEF ResolveNew, QueueTypes, Goto
    <3>2. CASE ResolveFollowUp(s)
      <4>1. \/ send' = [send EXCEPT ![s].pc = "resolved", ![s].follows = TRUE]
            \/ send' = [send EXCEPT ![s].pc = "done"]
        BY <3>2 DEF ResolveFollowUp, Answer, Goto
      <4>2. send'[s].pc \in {"resolved", "done"}
        BY <4>1 DEF QueueTypes, Send
      <4>3. QED
        BY <3>2, <4>2 DEF ResolveFollowUp
    <3>3. CASE PayloadTooLarge(s)
      BY <1>4, <3>3 DEF PayloadTooLarge, QueueTypes, Answer, Goto
    <3>4. QED
      BY <1>6, <3>1, <3>2, <3>3
  <2>2. RequestPart(s)'
    BY <1>1, <1>4, <1>5, <2>1 DEF RequestPart, Committed, StoreMoves
  <2>3. KeepsStatus
    BY <2>1, StatusKept
  <2>4. Anchor(s) => Anchor(s)'
    BY <1>3, <2>1 DEF Anchor, Committed, Fresh, RunOver, Job
  <2>5. QED
    BY <1>1, <1>2, <1>3, <2>1, <2>2, <2>3, <2>4, RequestKeeps
<1>7. ASSUME BeginTurn(s)
      PROVE  QueueInv'
  <2>1. send[s].pc = "resolved" /\ send'[s].pc = "begun" /\ UNCHANGED <<queue, faults>>
    BY <1>7 DEF BeginTurn, QueueTypes, Goto
  <2>2. CASE AppendMessage(Task, Owner, s)
    <3>1. Present(Task)
      BY <2>2 DEF AppendMessage, OwnedBy
    <3>2. RequestPart(s)'
      BY <1>1, <1>4, <1>5, <2>1, <3>1 DEF RequestPart, Committed, StoreMoves
    <3>3. KeepsStatus
      BY <2>2, StatusKept
    <3>4. Anchor(s) => Anchor(s)'
      BY <1>3, <2>1 DEF Anchor, Committed, Fresh, RunOver, Job
    <3>5. QED
      BY <1>1, <1>2, <1>3, <2>1, <3>2, <3>3, <3>4, RequestKeeps
  <2>3. CASE CreateTaskWithEvents(Task, Owner, s)
    <3>1. event_counters[Task] = 0 /\ event_counters'[Task] = 1
      BY <2>3, AppendsOne DEF CreateTaskWithEvents, StoreInv
    <3>2. Status' = "Submitted"
      BY <2>3 DEF CreateTaskWithEvents, Put, Status
    <3>3. RequestPart(s)'
      BY <1>1, <1>4, <2>1, <3>1 DEF RequestPart, Committed
    <3>4. QED
      BY <1>1, <1>2, <1>3, <2>1, <3>2, <3>3, RequestKeeps
  <2>4. QED
    BY <1>7, <2>2, <2>3 DEF BeginTurn
<1>8. ASSUME CommitWorking(s)
      PROVE  QueueInv'
  <2>1. send[s].pc = "begun" /\ send'[s].pc = "working" /\ UNCHANGED <<queue, faults>>
    BY <1>8 DEF CommitWorking, QueueTypes, Goto
  <2>2. Present(Task) /\ Status' = "Working"
    BY <1>8 DEF CommitWorking, UpdateTaskStatusWithEvents, OwnedBy, Present, StoreInv, TypeOK,
                MapOf, Row, Status
  <2>3. RequestPart(s)' /\ Anchor(s)'
    BY <1>1, <1>4, <1>5, <2>1, <2>2 DEF RequestPart, Committed, Anchor, Submitted, StoreMoves
  <2>4. QED
    BY <1>1, <1>2, <1>3, <2>1, <2>3, RequestKeeps
<1>9. ASSUME CommitWorkingRefused(s)
      PROVE  QueueInv'
  <2>1. send[s].pc = "begun" /\ send'[s].pc = "done" /\ UNCHANGED <<vars, queue, faults>>
    BY <1>9 DEF CommitWorkingRefused, QueueTypes, Answer, Goto
  <2>2. RequestPart(s)'
    BY <1>1, <1>4, <1>5, <2>1 DEF RequestPart, Committed, StoreMoves
  \* Refused while the task is held means that it is WORKING already.
  <2>3. Held => Status = "Working"
    BY <1>9 DEF CommitWorkingRefused, Held, EXECUTOR_HELD_STATES, ValidTransition
  <2>4. KeepsStatus
    BY <2>1, StatusKept
  <2>5. \A r \in Sends : Anchor(r) => Anchor(r)'
    BY <1>3, <2>1 DEF Anchor, Committed, Fresh, RunOver, Job
  <2>6. HeldIsAnchored'
    BY <1>4, <2>1, <2>3, <2>4, <2>5 DEF HeldIsAnchored, KeepsStatus, Anchored
  <2>7. \A r \in Sends : RequestPart(r)'
    BY <1>1, <1>3, <2>2, RequestKept DEF QueueInv
  <2>8. \A w \in Workers : DeliveryPart(w)'
    BY <1>1, <1>2, <1>3, <2>1, DeliveryKept DEF QueueInv
  <2>9. QED
    BY <2>6, <2>7, <2>8 DEF QueueInv
<1>10. ASSUME Register(s)
       PROVE  QueueInv'
  <2>1. /\ send[s].pc = "working" /\ UNCHANGED queue
        /\ send'[s].pc \in {"working", "registered", "compensating"}
        /\ send'[s].pc = "registered" =>
             s \notin Inline \/ CreateConfigInsert(<<Task, s>>)
    <3>1. send[s].pc = "working" /\ UNCHANGED queue
      BY <1>10 DEF Register
    <3>2. \/ UNCHANGED send
          \/ \E pc \in {"working", "compensating"} : Goto(s, pc)
          \/ Goto(s, "registered") /\ (s \notin Inline \/ CreateConfigInsert(<<Task, s>>))
      BY <1>10 DEF Register
    <3>3. QED
      BY <3>1, <3>2, SendSet
  <2>2. UNCHANGED tasks
    BY <1>10 DEF Register, vars, CreateConfigRead, CreateConfigInsert, CreateConfigConflict
  <2>3. send'[s].pc = "registered" /\ s \in Inline => <<Task, s>> \in DOMAIN push_configs'
    BY <2>1 DEF CreateConfigInsert, Put
  <2>4. RequestPart(s)' /\ Anchor(s)'
    BY <1>1, <1>4, <1>5, <2>1, <2>3 DEF RequestPart, Committed, StoreMoves, Anchor
  <2>5. QED
    BY <1>1, <1>2, <1>3, <2>1, <2>4, RequestKeeps
<1>11. ASSUME Enqueue(s) \/ \E b \in BOOLEAN : EnqueueFails(s, b)
       PROVE  QueueInv'
  <2>1. /\ send[s].pc = "registered" /\ send'[s].pc \in {"done", "compensating"}
        /\ queue'[s].state \in {"none", "stored"} /\ queue[s].state = "none"
        /\ UNCHANGED vars
        /\ send'[s].pc = "done" => queue'[s].state = "stored"
    <3>1. /\ send[s].pc = "registered" /\ UNCHANGED vars
          /\ UNCHANGED queue \/ queue' = [queue EXCEPT ![s].state = "stored"]
          /\ \/ Goto(s, "done") /\ queue' = [queue EXCEPT ![s].state = "stored"]
             \/ Goto(s, "compensating")
      BY <1>11 DEF Enqueue, EnqueueFails, Answer
    <3>2. queue[s].state = "none"
      BY <1>4, <3>1 DEF RequestPart
    <3>3. queue' = [queue EXCEPT ![s].state = "stored"] => queue'[s].state = "stored"
      BY StoredSet
    <3>4. Goto(s, "done") \/ Goto(s, "compensating") =>
            send'[s].pc \in {"done", "compensating"}
      BY SendSet
    <3>5. Goto(s, "compensating") => send'[s].pc # "done"
      BY SendSet
    <3>6. QED
      BY <3>1, <3>2, <3>3, <3>4, <3>5
  <2>2. RequestPart(s)'
    BY <1>1, <1>4, <1>5, <2>1 DEF RequestPart, Committed, StoreMoves
  \* Nobody has taken a record that was not there.
  <2>3. \A w \in Workers : Job(w) # s
    BY <2>1, DurableAssumption DEF QueueInv, DeliveryPart, Resting, Job
  <2>4. Anchor(s)'
    BY <1>3, <2>1, <2>3 DEF Anchor, Committed, Fresh, Job
  <2>5. QED
    BY <1>1, <1>2, <1>3, <2>1, <2>2, <2>4, RequestKeeps
<1>12. ASSUME Compensate(s)
       PROVE  QueueInv'
  <2>1. send[s].pc = "compensating" /\ send'[s].pc = "done" /\ UNCHANGED queue
    BY <1>12 DEF Compensate, QueueTypes, Answer, Goto
  <2>2. RequestPart(s)'
    BY <1>1, <1>4, <1>5, <2>1 DEF RequestPart, Committed, StoreMoves
  <2>3. Held' => faults'.stranded
    <3>1. CASE CommitTerminal("Failed")
      <4>1. tasks'[Task].status = "Failed"
        BY <3>1 DEF CommitTerminal, UpdateTaskStatusWithEvents, OwnedBy, Present, StoreInv,
                    TypeOK, MapOf, Row
      <4>2. QED
        BY <4>1 DEF Held, Status, EXECUTOR_HELD_STATES
    <3>2. CASE (Present(Task) => Settled) /\ UNCHANGED vars
      BY <3>2 DEF Settled, Held, Present, Status, Terminal, vars, TERMINAL_STATES,
                  EXECUTOR_HELD_STATES
    <3>3. CASE Strands
      BY <3>3, FaultFacts
    <3>4. QED
      BY <1>12, <3>1, <3>2, <3>3 DEF Compensate
  <2>4. QED
    BY <1>1, <1>2, <1>3, <2>1, <2>2, <2>3, RequestKeeps
<1>13. ASSUME RequestKilled(s)
       PROVE  QueueInv'
  <2>1. /\ send[s].pc \notin {"idle", "done"} /\ send'[s].pc = "done"
        /\ UNCHANGED queue /\ faults'.stranded
    BY <1>13, FaultFacts DEF RequestKilled, QueueTypes, Answer, Goto
  <2>2. RequestPart(s)'
    BY <1>1, <1>4, <1>5, <2>1 DEF RequestPart, Committed, StoreMoves
  <2>3. QED
    BY <1>1, <1>2, <1>3, <2>1, <2>2, RequestKeeps
<1>14. ASSUME DeadLetter(s)
       PROVE  QueueInv'
  <2>1. queue[s].state = "stored" /\ queue'[s].state = "dead" /\ UNCHANGED <<send, vars>>
    BY <1>14 DEF DeadLetter, QueueTypes
  <2>2. RequestPart(s)' /\ Anchor(s)'
    BY <1>1, <1>4, <1>5, <2>1 DEF RequestPart, Committed, StoreMoves, Anchor
  <2>3. QED
    BY <1>1, <1>2, <1>3, <2>1, <2>2, RequestKeeps
<1>15. QED
  BY <1>6, <1>7, <1>8, <1>9, <1>10, <1>11, <1>12, <1>13, <1>14 DEF Request

-------------------------------------------------------------------------------
(* The steps of an invocation that works on a record *)

LEMMA WorkerKeeps ==
  ASSUME StoreInv, StoreInv', StoreMoves, FlagsKept, QueueInv, NEW w \in Workers,
         UNCHANGED send, JobsStay,
         \A v \in Workers \ {w} : worker'[v] = worker[v],
         DeliveryPart(w)',
         \/ ~Held' \/ faults'.stranded
         \/ /\ KeepsStatus
            /\ \A s \in Sends : queue[s].state = "dead" => queue'[s].state = "dead"
            /\ \A s \in Sends : Fresh(s) => Fresh(s)'
  PROVE  QueueInv'
<1>1. \A s \in Sends : RequestPart(s)'
  BY RequestKept DEF QueueInv, JobsStay
<1>2. \A v \in Workers : DeliveryPart(v)'
  BY DeliveryKept DEF QueueInv, JobsStay
<1>3. HeldIsAnchored'
  <2>1. CASE ~Held' \/ faults'.stranded
    BY <2>1 DEF HeldIsAnchored, Anchored
  <2>2. CASE /\ KeepsStatus
             /\ \A s \in Sends : queue[s].state = "dead" => queue'[s].state = "dead"
             /\ \A s \in Sends : Fresh(s) => Fresh(s)'
    <3>1. \A s \in Sends : Anchor(s) => Anchor(s)'
      BY <2>2 DEF Anchor, Committed
    <3>2. QED
      BY <2>2, <3>1, AnchorsKept DEF QueueInv
  <2>3. QED
    BY <2>1, <2>2
<1>4. QED
  BY <1>1, <1>2, <1>3 DEF QueueInv

\* The invocation lets go of its record.
LEMMA RestingPart ==
  ASSUME NEW w \in Workers, worker'[w] = Resting
  PROVE  DeliveryPart(w)'
  BY DEF DeliveryPart, MarkIsMet, Resting

\* The invocation stays with its record.
LEMMA WorkingPart ==
  ASSUME StoreInv, StoreInv', StoreMoves, JobsStay, NEW w \in Workers, DeliveryPart(w),
         worker[w].pc # "idle", worker'[w].pc # "idle", Job(w)' = Job(w),
         MarkIsMet(w)'
  PROVE  DeliveryPart(w)'
<1>1. event_counters'[Task] = 0 => event_counters[Task] = 0
  BY DurableAssumption DEF StoreMoves, StoreInv, TypeOK
<1>2. QED
  BY <1>1 DEF DeliveryPart, StoreMoves, JobsStay, Job

LEMMA FreshKept ==
  ASSUME NEW w \in Workers, \A v \in Workers \ {w} : worker'[v] = worker[v],
         NEW s \in Sends, Fresh(s), queue'[s].state = queue[s].state,
         Job(w)' = s => \/ Job(w) = s /\ (RunOver(w)' => RunOver(w))
                        \/ ~RunOver(w)'
  PROVE  Fresh(s)'
  BY DEF Fresh, Job, RunOver

LEMMA WorkerStep ==
  ASSUME StoreInv, QueueTypes, QueueInv, NEW w \in Workers,
         (\E s \in Sends : Receive(w, s)) \/ Consume(w) \/ WorkerDies(w)
  PROVE  QueueInv'
<1>1. StoreInv' /\ StoreMoves
  BY WorkerWrites, StoreStep
<1>2. FlagsKept
  BY WorkerTypes, FaultFacts DEF FaultsMove, QueueInv
<1>3. UNCHANGED send
  BY DEF Receive, Consume, Load, CheckMarker, CommitCanceled, StartExecutor, Run, SinkCommits,
         SinkRefused, ExecutorReturns, FinishRecord, WorkerDies
<1>4. DeliveryPart(w) /\ worker[w] \in Worker
  BY DEF QueueInv, QueueTypes
<1>5. worker[w].pc # "idle" => /\ Job(w) \in Sends /\ queue[Job(w)].state # "none"
                               /\ ~Submitted /\ (Present(Task)' => Present(Task))
  BY <1>1, <1>4 DEF DeliveryPart, StoreMoves
<1>6. NoJob \notin Sends /\ Resting.job = NoJob
  BY DurableAssumption DEF Resting
\* The record goes back, or is acknowledged for a task that has moved on.
<1>7. ASSUME worker[w].pc # "idle", KeepsStatus, Retry(w) \/ (Ack(w) /\ (RunOver(w) \/ ~Held'))
      PROVE  QueueInv'
  <2>1. /\ worker'[w] = Resting /\ \A v \in Workers \ {w} : worker'[v] = worker[v]
        /\ JobsStay
        /\ \A s \in Sends : queue[s].state = "dead" => queue'[s].state = "dead"
        /\ \A s \in Sends \ {Job(w)} : queue'[s].state = queue[s].state
        /\ Retry(w) => UNCHANGED queue
    BY <1>5, <1>7, AckSet, RetrySet DEF JobsStay
  <2>2. DeliveryPart(w)'
    BY <2>1, RestingPart
  <2>3. CASE ~Held'
    BY <1>1, <1>2, <1>3, <2>1, <2>2, <2>3, WorkerKeeps
  <2>4. CASE Held'
    <3>1. \A s \in Sends : Fresh(s) => queue'[s].state = queue[s].state
      BY <1>7, <2>1, <2>4 DEF Fresh
    <3>2. \A s \in Sends : Job(w)' # s
      BY <1>6, <2>1 DEF Job
    <3>3. \A s \in Sends : Fresh(s) => Fresh(s)'
      BY <2>1, <3>1, <3>2, FreshKept
    <3>4. QED
      BY <1>1, <1>2, <1>3, <1>7, <2>1, <2>2, <3>3, WorkerKeeps
  <2>5. QED
    BY <2>3, <2>4
\* The delivery goes on to another place without a commit.
<1>8. ASSUME NEW pc \in {"loaded", "canceling", "cleared", "running", "returned"},
             worker[w].pc # "idle", Work(w, pc), UNCHANGED <<vars, queue>>,
             pc \in {"loaded", "cleared", "running"} /\ worker[w].marked => MarkIsMet(w)',
             pc = "returned" => RunOver(w) \/ ~Held \/ faults'.stranded
      PROVE  QueueInv'
  <2>1. /\ worker'[w] = [worker[w] EXCEPT !.pc = pc]
        /\ \A v \in Workers \ {w} : worker'[v] = worker[v]
    BY <1>8, WorkSet
  <2>2. /\ worker'[w].pc = pc /\ worker'[w].job = worker[w].job
        /\ worker'[w].marked = worker[w].marked
        /\ worker'[w].closed = worker[w].closed
        /\ worker'[w].client_held = worker[w].client_held
    BY <1>4, <2>1 DEF Worker
  <2>3. MarkIsMet(w)'
    BY <1>8, <2>2 DEF MarkIsMet
  <2>4. JobsStay
    BY <1>8 DEF JobsStay
  <2>5. DeliveryPart(w)'
    BY <1>1, <1>4, <1>8, <2>2, <2>3, <2>4, WorkingPart DEF Job
  <2>6. KeepsStatus
    BY <1>8, StatusKept
  <2>7. CASE pc = "returned" /\ ~RunOver(w)
    BY <1>1, <1>2, <1>3, <1>8, <2>1, <2>4, <2>5, <2>6, <2>7, WorkerKeeps DEF KeepsStatus
  <2>8. CASE pc # "returned" \/ RunOver(w)
    <3>1. Job(w)' = Job(w) /\ (RunOver(w)' => RunOver(w))
      BY <2>2, <2>8 DEF Job, RunOver
    <3>2. \A s \in Sends : Fresh(s) => Fresh(s)'
      BY <1>8, <2>1, <3>1, FreshKept
    <3>3. QED
      BY <1>1, <1>2, <1>3, <1>8, <2>1, <2>4, <2>5, <2>6, <3>2, WorkerKeeps
  <2>9. QED
    BY <2>7, <2>8
<1>9. ASSUME NEW s \in Sends, Receive(w, s)
      PROVE  QueueInv'
  <2>1. /\ worker[w].pc = "idle" /\ queue[s].state = "stored" /\ UNCHANGED vars
        /\ worker'[w] = [Resting EXCEPT !.pc = "received", !.job = s, !.marked = Marked]
        /\ \A v \in Workers \ {w} : worker'[v] = worker[v]
        /\ \A r \in Sends : queue'[r].state = queue[r].state
    BY <1>9 DEF Receive, QueueTypes, Record
  <2>2. /\ worker'[w].pc = "received" /\ worker'[w].job = s /\ worker'[w].marked = Marked
        /\ ~worker'[w].closed /\ ~worker'[w].client_held
    BY <2>1 DEF Resting
  <2>3. event_counters[Task] # 0 /\ ~Submitted
    BY <2>1 DEF QueueInv, RequestPart
  <2>4. DeliveryPart(w)'
    <3>1. event_counters'[Task] # 0 /\ ~Submitted' /\ (Marked => Marked')
      BY <2>1, <2>3 DEF vars, Submitted, Marked, Present, Status
    <3>2. MarkIsMet(w)'
      BY <2>2, <3>1 DEF MarkIsMet
    <3>3. QED
      BY <2>1, <2>2, <3>1, <3>2 DEF DeliveryPart, Job
  <2>5. \A r \in Sends : Fresh(r) => Fresh(r)'
    BY <2>1, <2>2, FreshKept DEF RunOver
  <2>6. KeepsStatus
    BY <2>1, StatusKept
  <2>7. QED
    BY <1>1, <1>2, <1>3, <2>1, <2>4, <2>5, <2>6, WorkerKeeps DEF JobsStay
<1>10. Settled => ~Held
  BY DEF Settled, Held, Present, Status, Terminal, TERMINAL_STATES, EXECUTOR_HELD_STATES
<1>11. UNCHANGED vars => KeepsStatus /\ (Held' => Held)
  BY StatusKept DEF KeepsStatus
<1>12. ASSUME Load(w)
       PROVE  QueueInv'
  <2>1. worker[w].pc = "received" /\ UNCHANGED vars
    BY <1>12 DEF Load
  <2>2. CASE Settled /\ Ack(w)
    BY <1>7, <1>10, <1>11, <2>1, <2>2
  <2>3. CASE Retry(w)
    BY <1>7, <1>11, <2>1, <2>3
  <2>4. CASE Work(w, "loaded") /\ UNCHANGED queue
    <3>1. worker[w].marked /\ worker'[w].pc = "loaded" => MarkIsMet(w)'
      BY <1>4, <2>1 DEF DeliveryPart, MarkIsMet, vars, Present, Marked
    <3>2. worker'[w].pc = "loaded"
      BY <2>4, <1>4, WorkSet DEF Worker
    <3>3. QED
      BY <1>8, <2>1, <2>4, <3>1, <3>2
  <2>5. QED
    BY <1>12, <2>2, <2>3, <2>4 DEF Load
<1>13. ASSUME CheckMarker(w)
       PROVE  QueueInv'
  <2>1. worker[w].pc = "loaded" /\ UNCHANGED <<vars, queue>>
    BY <1>13 DEF CheckMarker
  <2>2. CASE Work(w, "canceling")
    BY <1>8, <2>1, <2>2
  <2>3. CASE Work(w, "cleared") /\ (~Marked \/ faults'.unmarked)
    <3>0. Work(w, "cleared")
      BY <2>3
    <3>1. worker'[w].pc = "cleared"
      BY <3>0, <1>4, WorkSet DEF Worker
    <3>2. worker[w].marked => faults'.unmarked \/ ~Present(Task)'
      BY <1>4, <2>1, <2>3 DEF DeliveryPart, MarkIsMet, vars, Present
    <3>3. worker[w].marked => MarkIsMet(w)'
      BY <3>1, <3>2 DEF MarkIsMet
    <3>4. QED
      BY <1>8, <2>1, <2>3, <3>3
  <2>4. QED
    BY <1>13, <2>2, <2>3, FaultFacts DEF CheckMarker
<1>14. ASSUME CommitCanceled(w)
       PROVE  QueueInv'
  <2>1. worker[w].pc = "canceling"
    BY <1>14 DEF CommitCanceled
  <2>2. CASE CommitTerminal("Canceled") /\ Ack(w)
    <3>1. UpdateTaskStatusWithEvents(Task, Owner, "Canceled")
      BY <2>2 DEF CommitTerminal
    <3>2. KeepsStatus
      BY <3>1, StatusKept DEF TERMINAL_STATES
    <3>3. tasks'[Task].status = "Canceled"
      BY <3>1 DEF UpdateTaskStatusWithEvents, OwnedBy, Present, StoreInv, TypeOK, MapOf, Row
    <3>4. ~Held'
      BY <3>3 DEF Held, Status, EXECUTOR_HELD_STATES
    <3>5. QED
      BY <1>7, <2>1, <2>2, <3>2, <3>4
  <2>3. CASE Settled /\ Ack(w) /\ UNCHANGED vars
    BY <1>7, <1>10, <1>11, <2>1, <2>3
  <2>4. CASE Retry(w) /\ UNCHANGED vars
    BY <1>7, <1>11, <2>1, <2>4
  <2>5. QED
    BY <1>14, <2>2, <2>3, <2>4 DEF CommitCanceled
<1>15. ASSUME StartExecutor(w)
       PROVE  QueueInv'
  <2>1. worker[w].pc = "cleared" /\ UNCHANGED <<vars, queue, faults>>
    BY <1>15 DEF StartExecutor
  <2>2. CASE Present(Task) /\ Work(w, "running")
    <3>1. worker[w].marked => faults'.unmarked
      BY <1>4, <2>1, <2>2 DEF DeliveryPart, MarkIsMet
    <3>2. worker'[w].pc = "running"
      BY <2>2, <1>4, WorkSet DEF Worker
    <3>3. worker[w].marked => MarkIsMet(w)'
      BY <3>1, <3>2 DEF MarkIsMet
    <3>4. QED
      BY <1>8, <2>1, <2>2, <3>3
  <2>3. CASE ~Present(Task) /\ Work(w, "returned")
    BY <1>8, <2>1, <2>3 DEF Held
  <2>4. QED
    BY <1>15, <2>2, <2>3 DEF StartExecutor
\* The run commits, or is refused: in either case the task is not held by then
\* when the delivery is through its run.
<1>16. ASSUME NEW r \in BOOLEAN,
              SinkRefused(w, r) \/ \E st \in TaskState : SinkCommits(w, st, r)
       PROVE  QueueInv'
  <2>1. /\ worker[w].pc = "running" /\ UNCHANGED <<queue, faults>>
        /\ worker'[w].pc \in {"running", "returned"}
        /\ worker'[w].job = worker[w].job /\ worker'[w].marked = worker[w].marked
        /\ \A v \in Workers \ {w} : worker'[v] = worker[v]
    <3>1. worker[w].pc = "running" /\ UNCHANGED <<queue, faults>>
      BY <1>16 DEF SinkRefused, SinkCommits
    <3>2. worker \in [Workers -> Worker]
      BY DEF QueueTypes
    <3>3. CASE SinkRefused(w, r)
      <4>1. worker' = [worker EXCEPT ![w] = [worker[w] EXCEPT
               !.closed = Settled, !.pc = IF r THEN "returned" ELSE worker[w].pc]]
        BY <3>2, <3>3 DEF SinkRefused, Worker
      <4>2. QED
        BY <1>4, <3>1, <3>2, <4>1 DEF Worker
    <3>4. ASSUME NEW st \in TaskState, SinkCommits(w, st, r)
          PROVE  /\ worker'[w].pc \in {"running", "returned"}
                 /\ worker'[w].job = worker[w].job /\ worker'[w].marked = worker[w].marked
                 /\ \A v \in Workers \ {w} : worker'[v] = worker[v]
      <4>1. worker' = [worker EXCEPT ![w] = [worker[w] EXCEPT
               !.closed = (worker[w].closed \/ st \in TERMINAL_STATES),
               !.client_held = (st \in CLIENT_HELD_STATES),
               !.pc = IF r THEN "returned" ELSE worker[w].pc]]
        BY <3>2, <3>4 DEF SinkCommits, Worker
      <4>2. QED
        BY <1>4, <3>1, <3>2, <4>1 DEF Worker
    <3>5. QED
      BY <1>16, <3>1, <3>3, <3>4
  <2>2. MarkIsMet(w)'
    BY <1>4, <2>1 DEF DeliveryPart, MarkIsMet
  <2>3. JobsStay
    BY <2>1 DEF JobsStay
  <2>4. DeliveryPart(w)'
    BY <1>1, <1>4, <2>1, <2>2, <2>3, WorkingPart DEF Job
  <2>5. CASE \E st \in TaskState : SinkCommits(w, st, r)
    <3>1. PICK st \in TaskState : SinkCommits(w, st, r)
      BY <2>5
    <3>2. st \in TERMINAL_STATES \cup CLIENT_HELD_STATES
      BY <3>1, DurableAssumption DEF SinkCommits, TaskState, TERMINAL_STATES
    <3>3. tasks'[Task].status = st
      BY <3>1 DEF SinkCommits, UpdateTaskStatusWithEvents, OwnedBy, Present, StoreInv, TypeOK,
                  MapOf, Row
    <3>4. ~Held'
      BY <3>2, <3>3 DEF Held, Status, EXECUTOR_HELD_STATES, TERMINAL_STATES, CLIENT_HELD_STATES
    <3>5. QED
      BY <1>1, <1>2, <1>3, <2>1, <2>3, <2>4, <3>4, WorkerKeeps
  <2>6. CASE SinkRefused(w, r)
    <3>1. UNCHANGED vars
      BY <2>6 DEF SinkRefused
    <3>2. Status = "Working" => \A st \in Emits \cup {"Failed"} : ValidTransition(Status, st)
      BY DurableAssumption
      DEF ValidTransition, TaskState, TERMINAL_STATES, CLIENT_HELD_STATES, EXECUTOR_HELD_STATES
    \* SUBMITTED, or WORKING with an answer that is always taken.
    <3>3. ~Held
      BY <1>5, <2>1, <2>6, <3>2 DEF SinkRefused, Held, Submitted, EXECUTOR_HELD_STATES
    <3>4. ~Held'
      BY <1>11, <3>1, <3>3
    <3>5. QED
      BY <1>1, <1>2, <1>3, <2>1, <2>3, <2>4, <3>4, WorkerKeeps
  <2>7. QED
    BY <1>16, <2>5, <2>6
<1>17. ASSUME ExecutorReturns(w)
       PROVE  QueueInv'
  <2>1. worker[w].pc = "running" /\ Work(w, "returned") /\ UNCHANGED <<vars, queue>>
    BY <1>17 DEF ExecutorReturns
  <2>2. RunOver(w) \/ faults'.stranded
    BY <1>17, FaultFacts DEF ExecutorReturns, RunOver
  <2>3. QED
    BY <1>8, <2>1, <2>2
<1>18. ASSUME FinishRecord(w) \/ WorkerDies(w)
       PROVE  QueueInv'
  <2>1. /\ worker[w].pc # "idle" /\ UNCHANGED vars
        /\ Retry(w) \/ (Ack(w) /\ RunOver(w))
    BY <1>18 DEF FinishRecord, WorkerDies, RunOver
  <2>2. QED
    BY <1>7, <1>11, <2>1
<1>19. QED
  BY <1>9, <1>12, <1>13, <1>14, <1>15, <1>16, <1>17, <1>18 DEF Consume, Run

-------------------------------------------------------------------------------
(* Every step *)

LEMMA QueueNextKeeps ==
  ASSUME StoreInv, QueueTypes, QueueInv, QueueNext
  PROVE  StoreInv' /\ QueueTypes' /\ QueueInv'
<1>1. StoreInv' /\ StoreMoves
  BY QueueWrites, StoreStep
<1>2. QueueTypes' /\ FlagsKept
  BY QueueStepTypes DEF QueueInv
\* A cancel, the sweep or the retention moves the store alone.
<1>3. ASSUME UNCHANGED <<send, queue, worker>>, KeepsStatus
      PROVE  QueueInv'
  BY <1>1, <1>2, <1>3, QuietKept
<1>4. ASSUME NEW st \in {"Canceled"}, CommitTerminal(st)
      PROVE  KeepsStatus
  BY <1>4, StatusKept DEF CommitTerminal, TERMINAL_STATES
<1>5. ASSUME NEW c \in Cancels, CancelMarks(c) \/ CancelEnds(c)
      PROVE  QueueInv'
  <2>1. KeepsStatus
    BY <1>4, <1>5, StatusKept DEF CancelMarks, CancelEnds
  <2>2. QED
    BY <1>3, <1>5, <2>1 DEF CancelMarks, CancelEnds
<1>6. ASSUME IdleList \/ IdleCommit \/ Maintain
      PROVE  QueueInv'
  <2>1. KeepsStatus
    BY <1>4, <1>6, StatusKept DEF IdleList, IdleCommit, Maintain
  <2>2. QED
    BY <1>3, <1>6, <2>1 DEF IdleList, IdleCommit, Maintain, queueVars
<1>7. ASSUME NEW s \in Sends,
             ResolveNew(s) \/ ResolveFollowUp(s) \/ PayloadTooLarge(s) \/ Request(s)
               \/ (\E b \in BOOLEAN : EnqueueFails(s, b)) \/ RequestKilled(s) \/ DeadLetter(s)
      PROVE  QueueInv'
  BY <1>7, RequestStep
<1>8. ASSUME NEW w \in Workers,
             (\E s \in Sends : Receive(w, s)) \/ Consume(w) \/ WorkerDies(w)
      PROVE  QueueInv'
  BY <1>8, WorkerStep
<1>9. QED
  BY <1>1, <1>2, <1>5, <1>6, <1>7, <1>8 DEF QueueNext

Recovers == InlineLost \/ StreamTakes \/ TickLists \/ MarkerAges \/ \E h \in Handlers : Recover(h)

\* A recovery step moves the marker and the fault count, and works for a task
\* that was there.
LEMMA RecoveryFrame ==
  ASSUME StoreInv, HandlersBegun, Recovers
  PROVE  /\ MarkerWrite \/ UNCHANGED vars
         /\ UNCHANGED <<send, queue, worker, cancel, sweep, deployed>>
         /\ Fault \/ UNCHANGED faults
         /\ event_counters[Task] > 0
<1>1. CASE InlineLost \/ StreamTakes \/ TickLists \/ MarkerAges
  <2>1. event_counters[Task] > 0
    BY <1>1 DEF InlineLost, StreamTakes, TickLists, MarkerAges, HandlersBegun, StoreInv,
                MarkerPresent, Handlers
  <2>2. QED
    BY <1>1, <2>1 DEF InlineLost, StreamTakes, TickLists, MarkerAges, queueVars
<1>2. ASSUME NEW h \in Handlers, Recover(h)
      PROVE  /\ MarkerWrite \/ UNCHANGED vars
             /\ UNCHANGED <<send, queue, worker, cancel, sweep, deployed>>
             /\ Fault \/ UNCHANGED faults
             /\ event_counters[Task] > 0
  <2>1. handler[h] # "idle"
    BY <1>2 DEF Recover, LoadForDispatch, Refresh, FanOut, DeleteAfterFanOut
  <2>2. event_counters[Task] > 0
    BY <2>1 DEF HandlersBegun
  <2>3. \/ PutMarker /\ UNCHANGED OtherRows
        \/ DeleteMarker /\ UNCHANGED OtherRows
        \/ UNCHANGED vars
    BY <1>2 DEF Recover, LoadForDispatch, Refresh, FanOut, DeleteAfterFanOut
  <2>4. MarkerWrite \/ UNCHANGED vars
    BY <2>2, <2>3 DEF MarkerWrite, PutMarker, DeleteMarker
  <2>5. QED
    BY <1>2, <2>2, <2>4 DEF Recover, LoadForDispatch, Refresh, FanOut, DeleteAfterFanOut
<1>3. QED
  BY <1>1, <1>2 DEF Recovers

LEMMA RecoveryKeeps ==
  ASSUME StoreInv, QueueTypes, QueueInv, HandlersBegun, Recovers
  PROVE  StoreInv' /\ QueueTypes' /\ QueueInv'
<1>1. /\ MarkerWrite \/ UNCHANGED vars
      /\ UNCHANGED <<send, queue, worker, cancel, sweep>>
      /\ Fault \/ UNCHANGED faults
  BY RecoveryFrame
<1>2. StoreInv' /\ StoreMoves
  BY <1>1, StoreStep
<1>3. FlagsKept
  BY <1>1, FaultFacts
<1>4. QueueTypes'
  BY <1>1, <1>3 DEF QueueTypes, FlagsKept
<1>5. KeepsStatus
  BY <1>1, StatusKept DEF MarkerWrite, OtherRows, vars
<1>6. QED
  BY <1>1, <1>2, <1>3, <1>4, <1>5, QuietKept

HandlerTypes ==
  /\ deployed \in Deployments
  /\ inserts \in 0..MaxInserts
  /\ handler \in [Handlers -> {"idle", "taken", "refreshing", "fanout", "deleting"}]
  /\ stale \in BOOLEAN /\ dispatched \in BOOLEAN

LEMMA TypesSplit == RecoveryTypeOK <=> TypeOK /\ QueueTypes /\ HandlerTypes
  BY DEF RecoveryTypeOK, QueueTypeOK, QueueTypes, HandlerTypes

\* The marker is put for a task that was there.
LEMMA StreamedKeeps ==
  ASSUME inserts \in 0..MaxInserts, Streamed
  PROVE  /\ inserts' \in 0..MaxInserts
         /\ inserts' > 0 => inserts > 0 \/ pending_dispatches' # {}
  BY RecoveryAssumption DEF Streamed, MarkerInserted

LEMMA QueueStepHandlers ==
  ASSUME StoreInv, StoreInv', StoreMoves, HandlerTypes, HandlersBegun, QueueStep
  PROVE  HandlerTypes' /\ HandlersBegun'
<1>1. event_counters[Task] \in Nat /\ event_counters'[Task] \in Nat
      /\ event_counters[Task] <= event_counters'[Task]
  BY DurableAssumption DEF StoreInv, TypeOK, StoreMoves
<1>2. /\ inserts' \in 0..MaxInserts
      /\ inserts' > 0 => inserts > 0 \/ pending_dispatches' # {}
  BY StreamedKeeps DEF QueueStep, Lifted, HandlerTypes
<1>3. /\ UNCHANGED handler \/ (handler' = [handler EXCEPT !["inline"] = "fanout"] /\ MarkerInserted)
      /\ UNCHANGED <<deployed, stale, dispatched>>
  BY DEF QueueStep, Lifted
<1>4. HandlerTypes'
  BY <1>2, <1>3 DEF HandlerTypes
<1>5. MarkerInserted => pending_dispatches' # {}
  BY DEF MarkerInserted
<1>6. HandlersBegun'
  BY <1>1, <1>2, <1>3, <1>5 DEF HandlersBegun, StoreInv
<1>7. QED
  BY <1>4, <1>6

LEMMA RecoveryHandlers ==
  ASSUME StoreInv, StoreInv', StoreMoves, HandlerTypes, HandlersBegun, Recovers
  PROVE  HandlerTypes' /\ HandlersBegun'
<1>1. event_counters[Task] \in Nat /\ event_counters'[Task] \in Nat
      /\ event_counters[Task] <= event_counters'[Task] /\ event_counters[Task] > 0
  BY DurableAssumption, RecoveryFrame DEF StoreInv, TypeOK, StoreMoves
<1>2. HandlersBegun'
  BY <1>1 DEF HandlersBegun
<1>3. UNCHANGED deployed
  BY RecoveryFrame
<1>4. inserts \in Nat /\ inserts <= MaxInserts /\ MaxInserts \in Nat
  BY RecoveryAssumption DEF HandlerTypes
<1>5. inserts' \in 0..MaxInserts
  <2>1. CASE Streamed
    BY <2>1, StreamedKeeps DEF HandlerTypes
  <2>2. CASE UNCHANGED inserts \/ (inserts > 0 /\ inserts' = inserts - 1)
             \/ (inserts < MaxInserts /\ inserts' = inserts + 1)
    BY <1>4, <2>2
  <2>3. QED
    BY <2>1, <2>2
    DEF Recovers, InlineLost, StreamTakes, TickLists, MarkerAges, Recover, LoadForDispatch,
        Refresh, FanOut, DeleteAfterFanOut, Fails
<1>6. stale' \in BOOLEAN /\ dispatched' \in BOOLEAN
  BY DEF HandlerTypes, Recovers, InlineLost, StreamTakes, TickLists, MarkerAges, Recover,
         LoadForDispatch, Refresh, FanOut, DeleteAfterFanOut
<1>7. \/ UNCHANGED handler
      \/ \E h \in Handlers, pc \in {"idle", "taken", "refreshing", "fanout", "deleting"} :
           Handle(h, pc)
  BY DEF Recovers, InlineLost, StreamTakes, TickLists, MarkerAges, Recover, LoadForDispatch,
         Refresh, FanOut, DeleteAfterFanOut, Fails, Handlers
<1>8. HandlerTypes'
  BY <1>3, <1>5, <1>6, <1>7 DEF HandlerTypes, Handle
<1>9. QED
  BY <1>2, <1>8

LEMMA LambdaInvInit == LambdaInit => LambdaInv
<1> SUFFICES ASSUME LambdaInit PROVE LambdaInv
  OBVIOUS
<1> USE DEF LambdaInit, QueueInit, RecoveryInit
<1>1. TypeOK
  BY InitType
<1>2. event_counters[Task] = 0 /\ ~Present(Task) /\ pending_dispatches = {}
      /\ DOMAIN push_configs = {}
  BY DurableAssumption DEF Init, Present
<1>3. StoreInv
  BY <1>1, <1>2 DEF StoreInv, FloorOf
<1>4. MaxFaults \in Nat /\ MaxReceives \in Nat /\ MaxInserts \in Nat
  BY DurableAssumption, RecoveryAssumption
<1>5. QueueTypes
  <2>1. 0 \in 0..MaxFaults /\ 0 \in 0..MaxReceives
    BY <1>4
  <2>2. send \in [Sends -> Send]
    BY DEF Send
  <2>3. queue \in [Sends -> Record]
    BY <2>1 DEF Record
  <2>4. worker \in [Workers -> Worker]
    BY RestingType
  <2>5. faults \in [count: 0..MaxFaults, stranded: BOOLEAN, unmarked: BOOLEAN]
    BY <2>1
  <2>6. cancel \in [Cancels -> {"idle", "marked", "done"}] /\ sweep \in BOOLEAN
    OBVIOUS
  <2>7. QED
    BY <2>2, <2>3, <2>4, <2>5, <2>6 DEF QueueTypes
<1>6. HandlerTypes
  <2>1. 0 \in 0..MaxInserts
    BY <1>4
  <2>2. QED
    BY <2>1 DEF HandlerTypes
<1>7. QueueInv
  BY <1>2 DEF QueueInv, RequestPart, DeliveryPart, MarkIsMet, HeldIsAnchored, Held, Committed,
              Submitted, Resting
<1>8. HandlersBegun
  BY DEF HandlersBegun
<1>9. QED
  BY <1>1, <1>3, <1>5, <1>6, <1>7, <1>8, TypesSplit DEF LambdaInv

LEMMA LambdaInvNext == LambdaInv /\ [LambdaNext]_lambdaVars => LambdaInv'
<1> SUFFICES ASSUME LambdaInv, [LambdaNext]_lambdaVars PROVE LambdaInv'
  OBVIOUS
<1>1. StoreInv /\ TypeOK /\ QueueTypes /\ HandlerTypes /\ QueueInv /\ HandlersBegun
  BY TypesSplit DEF LambdaInv
<1>2. SUFFICES StoreInv' /\ QueueTypes' /\ HandlerTypes' /\ QueueInv' /\ HandlersBegun'
  BY TypesSplit DEF LambdaInv, StoreInv, RecoveryTypeOK, QueueTypeOK, QueueTypes, HandlerTypes
<1>3. CASE QueueStep
  <2>1. QueueNext
    BY <1>3 DEF QueueStep, Lifted
  <2>2. StoreInv' /\ QueueTypes' /\ QueueInv'
    BY <1>1, <2>1, QueueNextKeeps
  <2>3. StoreMoves
    BY <1>1, <2>1, QueueWrites, StoreStep
  <2>4. QED
    BY <1>1, <1>3, <2>2, <2>3, QueueStepHandlers
<1>4. CASE Recovers
  <2>1. StoreInv' /\ QueueTypes' /\ QueueInv'
    BY <1>1, <1>4, RecoveryKeeps
  <2>2. StoreMoves
    BY <1>1, <1>4, RecoveryFrame, StoreStep
  <2>3. QED
    BY <1>1, <1>4, <2>1, <2>2, RecoveryHandlers
<1>5. CASE UNCHANGED lambdaVars
  <2>1. UNCHANGED <<vars, queueVars, recoveryVars>>
    BY <1>5 DEF lambdaVars
  <2>2. UNCHANGED <<send, queue, worker, cancel, sweep, faults>>
    BY <2>1 DEF queueVars
  <2>3. StoreInv' /\ StoreMoves
    BY <1>1, <2>1, StoreStep
  <2>4. FlagsKept /\ KeepsStatus
    BY <1>1, <2>1, <2>2, FaultFacts, StatusKept
  <2>5. QueueInv'
    BY <1>1, <2>2, <2>3, <2>4, QuietKept
  <2>6. QueueTypes'
    BY <1>1, <2>2 DEF QueueTypes
  <2>7. HandlerTypes' /\ HandlersBegun'
    BY <1>1, <2>1 DEF recoveryVars, HandlerTypes, HandlersBegun, vars
  <2>8. QED
    BY <2>3, <2>5, <2>6, <2>7
<1>6. QED
  BY <1>3, <1>4, <1>5 DEF LambdaNext, Recovers

LEMMA LambdaInvAlways == LambdaSpec => []LambdaInv
  BY LambdaInvInit, LambdaInvNext, PTL DEF LambdaSpec

-------------------------------------------------------------------------------
(* What follows for every number of sends, invocations and redeliveries *)

\* The variables keep their types: receive counts, faults and waiting stream
\* records stay within their bounds, and a delivery names a send.
THEOREM LambdaTypeCorrect == LambdaSpec => []RecoveryTypeOK
<1>1. LambdaInv => RecoveryTypeOK
  BY DEF LambdaInv
<1>2. QED
  BY <1>1, LambdaInvAlways, PTL

\* No ordering of requests, compensations, redeliveries, cancels, sweeps and
\* recovery handlers leaves a task SUBMITTED or WORKING with nobody to move it on,
\* but for a failed compensation, a killed request or a dead-lettered job.
THEOREM HeldHasJobAlways == LambdaSpec => []HeldHasJob
<1>1. LambdaInv => HeldHasJob
  BY DEF LambdaInv, QueueInv, HeldIsAnchored, HeldHasJob, Anchored, Anchor, Committed, Fresh,
         HasJob
<1>2. QED
  BY <1>1, LambdaInvAlways, PTL

\* Whenever the executor of an inline send runs, in whichever delivery, its push
\* configuration is stored under a floor below the next event's number.
THEOREM ExecutorHasCallbackAlways == LambdaSpec => []ExecutorHasCallback
<1>1. LambdaInv => ExecutorHasCallback
  <2> SUFFICES ASSUME LambdaInv, NEW w \in Workers, worker[w].pc = "running", Job(w) \in Inline
               PROVE  /\ <<Task, Job(w)>> \in DOMAIN push_configs
                      /\ push_configs[<<Task, Job(w)>>] < NextSeq(Task)
    BY DEF ExecutorHasCallback
  <2>1. queue[Job(w)].state # "none" /\ Job(w) \in Sends
    BY DEF LambdaInv, QueueInv, DeliveryPart
  <2>2. <<Task, Job(w)>> \in DOMAIN push_configs
    BY <2>1 DEF LambdaInv, QueueInv, RequestPart
  <2>3. push_configs[<<Task, Job(w)>>] <= event_counters[Task]
    BY <2>2 DEF LambdaInv, StoreInv
  <2>4. event_counters[Task] \in Nat /\ push_configs[<<Task, Job(w)>>] \in Nat
    BY <2>2, DurableAssumption DEF LambdaInv, StoreInv, TypeOK, MapOf
  <2>5. QED
    BY <2>2, <2>3, <2>4 DEF NextSeq
<1>2. QED
  BY <1>1, LambdaInvAlways, PTL

\* A task whose cancel marker was there when its job was taken is not executed by
\* that delivery, unless reading the marker failed.
THEOREM MarkedJobNeverRunsAlways == LambdaSpec => []MarkedJobNeverRuns
<1>1. LambdaInv => MarkedJobNeverRuns
  BY DEF LambdaInv, QueueInv, DeliveryPart, MarkIsMet, MarkedJobNeverRuns
<1>2. QED
  BY <1>1, LambdaInvAlways, PTL
===============================================================================
