---------------------------- MODULE TaskTurnProofs ----------------------------
(***************************************************************************)
(* TLAPS proofs about TaskTurn, for every number of sends, cancels and     *)
(* instances: the turns run on the store's calls and nothing else, so they *)
(* inherit its theorems, no client is ever told a terminal state the task  *)
(* does not keep, an instance runs one executor for it, and a WORKING task *)
(* is leased while its turns follow one another.                           *)
(***************************************************************************)
EXTENDS TaskTurn, TaskStoreProofs

-------------------------------------------------------------------------------
(* The store calls a turn makes *)

RowCall ==
  \/ \E i \in Items : CreateTaskWithEvents(Task, Owner, i) \/ AppendMessage(Task, Owner, i)
  \/ \E s \in TaskState : UpdateTaskStatusWithEvents(Task, Owner, s)
  \/ SetCancelRequested(Task, Owner)
  \/ \E e \in LeaseTimes \cup {NoLease} : RenewExecutorLeases({Task}, e)

ArtifactCall ==
  \/ \E w \in Writers : \/ GetTask(w, Task, Owner)
                        \/ \E i \in Items : UpdateTaskWithEvents(w, i)
                        \/ UpdateTaskWithEventsRefused(w)
  \/ \E ws \in SUBSET Writers : SinksDropped(ws)

StoreStep == RowCall \/ ArtifactCall \/ UNCHANGED vars

LEMMA StoreStepIsNext == StoreStep => [Next]_vars
<1> SUFFICES ASSUME StoreStep PROVE [Next]_vars
  OBVIOUS
<1>1. CASE RowCall
  <2>1. TaskCall(Task)
    BY <1>1, TaskAssumption DEF RowCall, TaskCall
  <2>2. QED
    BY <2>1, TaskAssumption DEF Next
<1>2. CASE ArtifactCall
  <2>1. CASE \E ws \in SUBSET Writers : SinksDropped(ws)
    BY <2>1 DEF Next
  <2>2. CASE \E w \in Writers : \/ GetTask(w, Task, Owner)
                                \/ \E i \in Items : UpdateTaskWithEvents(w, i)
                                \/ UpdateTaskWithEventsRefused(w)
    <3>1. PICK w \in Writers : \/ GetTask(w, Task, Owner)
                               \/ \E i \in Items : UpdateTaskWithEvents(w, i)
                               \/ UpdateTaskWithEventsRefused(w)
      BY <2>2
    <3>2. SinkCall(w)
      BY <3>1, TaskAssumption DEF SinkCall
    <3>3. QED
      BY <3>2 DEF Next
  <2>3. QED
    BY <1>2, <2>1, <2>2 DEF ArtifactCall
<1>3. QED
  BY <1>1, <1>2 DEF StoreStep

\* A status write for the task, whoever makes it, and a lease write.
LEMMA StatusCall ==
  ASSUME NEW s \in TaskState, UpdateTaskStatusWithEvents(Task, Owner, s)
  PROVE  StoreStep
  BY DEF StoreStep, RowCall

LEMMA TerminalCall ==
  ASSUME NEW s \in TERMINAL_STATES, CommitTerminal(s)
  PROVE  StoreStep
  BY StatusCall DEF CommitTerminal, TaskState

LEMMA LeaseCall ==
  ASSUME NEW e \in {"fresh", "lapsed", NoLease}, RenewExecutorLeases({Task}, e)
  PROVE  StoreStep
  BY LeaseAssumption DEF StoreStep, RowCall

LEMMA NoCall == UNCHANGED vars => StoreStep
  BY DEF StoreStep

LEMMA StatesAreStates ==
  /\ TERMINAL_STATES \subseteq TaskState
  /\ {"Working", "Failed", "Canceled"} \subseteq TaskState
  /\ {"Failed", "Canceled"} \subseteq TERMINAL_STATES
  BY DEF TaskState, TERMINAL_STATES, EXECUTOR_HELD_STATES

LEMMA SendStoreStep ==
  ASSUME NEW s \in Sends,
         ResolveNew(s) \/ ResolveFollowUp(s) \/ Start(s) \/ Wait(s) \/ RequestDropped(s)
  PROVE  StoreStep
<1>1. CASE BeginTurn(s)
  <2>1. s \in Items
    BY TurnAssumption
  <2>2. QED
    BY <1>1, <2>1 DEF BeginTurn, StoreStep, RowCall
<1>2. CASE StampLease(s)
  BY <1>2, LeaseCall, NoCall DEF StampLease
<1>3. CASE CommitWorking(s)
  BY <1>3, StatusCall, StatesAreStates DEF CommitWorking
<1>4. CASE ForceFailed(s)
  BY <1>4, TerminalCall, StatesAreStates, NoCall DEF ForceFailed
<1>5. CASE ResolveNew(s) \/ ResolveFollowUp(s) \/ RequestDropped(s)
  BY <1>5, NoCall DEF ResolveNew, ResolveFollowUp, RequestDropped, vars
<1>6. CASE CommitWorkingRefused(s) \/ Spawn(s) \/ SpawnCollides(s)
  BY <1>6, NoCall DEF CommitWorkingRefused, Spawn, SpawnCollides, vars
<1>7. CASE \/ Yielded(s) \/ SoftDeadline(s) \/ CancelSeen(s)
           \/ PollSeesTerminal(s) \/ HardDeadline(s)
  BY <1>7, NoCall
  DEF Yielded, SoftDeadline, CancelSeen, PollSeesTerminal, HardDeadline, vars
<1>8. QED
  BY <1>1, <1>2, <1>3, <1>4, <1>5, <1>6, <1>7 DEF Start, Wait

LEMMA ExecutorStoreStep ==
  ASSUME NEW s \in Sends,
         \/ Executor(s) \/ SinkAnswered(s) \/ AbortTimer(s) \/ AbortLands(s)
         \/ Supervisor(s)
  PROVE  StoreStep
<1>0. s \in Writers
  BY TurnAssumption
<1>1. CASE \E st \in TaskState, r \in BOOLEAN : SinkCommits(s, st, r)
  BY <1>1, StatusCall DEF SinkCommits
<1>2. CASE \E r \in BOOLEAN : SinkRefused(s, r)
  BY <1>2, NoCall DEF SinkRefused, vars
<1>3. CASE ExecutorReturns(s) \/ PostExecuteLost(s)
  BY <1>3, NoCall DEF ExecutorReturns, PostExecuteLost, vars
<1>4. CASE ArtifactRead(s)
  BY <1>0, <1>4 DEF ArtifactRead, StoreStep, ArtifactCall
<1>5. CASE \E a \in Artifacts : ArtifactWrite(s, a)
  <2>1. PICK a \in Artifacts : ArtifactWrite(s, a)
    BY <1>5
  <2>2. a \in Items
    BY TurnAssumption
  <2>3. QED
    BY <1>0, <2>1, <2>2 DEF ArtifactWrite, StoreStep, ArtifactCall
<1>6. CASE ArtifactRefused(s)
  BY <1>0, <1>6 DEF ArtifactRefused, StoreStep, ArtifactCall
<1>7. CASE SinkAnswered(s) \/ AbortTimer(s)
  BY <1>7, NoCall DEF SinkAnswered, AbortTimer, vars
<1>8. CASE AbortLands(s)
  <2>1. {s} \in SUBSET Writers
    BY <1>0
  <2>2. QED
    BY <1>8, <2>1 DEF AbortLands, StoreStep, ArtifactCall
<1>9. CASE SupervisorLeaves(s)
  BY <1>9, NoCall DEF SupervisorLeaves, vars
<1>10. CASE SupervisorClears(s)
  BY <1>10, LeaseCall DEF SupervisorClears
<1>11. QED
  BY <1>1, <1>2, <1>3, <1>4, <1>5, <1>6, <1>7, <1>8, <1>9, <1>10
  DEF Executor, Supervisor

LEMMA CancelStoreStep ==
  ASSUME NEW c \in Cancels, CancelCall(c)
  PROVE  StoreStep
<1>1. CASE CancelMarks(c)
  BY <1>1 DEF CancelMarks, StoreStep, RowCall
<1>2. CASE CancelTrips(c)
  BY <1>2, NoCall DEF CancelTrips, vars
<1>3. CASE CancelEnds(c)
  BY <1>3, TerminalCall, StatesAreStates, NoCall DEF CancelEnds
<1>4. QED
  BY <1>1, <1>2, <1>3 DEF CancelCall

LEMMA LoopStoreStep ==
  ASSUME NEW i \in Instances,
         CancelPoll(i) \/ Renew(i) \/ Reap(i) \/ Stall(i) \/ Idle(i) \/ Crash(i)
  PROVE  StoreStep
<1>1. CASE CancelPoll(i) \/ RenewSnapshot(i) \/ ReapList(i) \/ StallList(i) \/ IdleList(i)
  BY <1>1, NoCall DEF CancelPoll, RenewSnapshot, ReapList, StallList, IdleList, vars
<1>2. CASE RenewStamp(i) \/ ReapClear(i)
  BY <1>2, LeaseCall DEF RenewStamp, ReapClear
<1>3. CASE ReapCommit(i)
  BY <1>3, TerminalCall, StatesAreStates, NoCall DEF ReapCommit
<1>4. CASE StallCommit(i)
  BY <1>4, TerminalCall, StatesAreStates, NoCall DEF StallCommit
<1>5. CASE IdleCommit(i)
  BY <1>5, TerminalCall, StatesAreStates, NoCall DEF IdleCommit, vars
<1>6. CASE Crash(i)
  <2>1. {s \in Sends : send[s].at = i} \in SUBSET Writers
    BY TurnAssumption
  <2>2. QED
    BY <1>6, <2>1 DEF Crash, StoreStep, ArtifactCall
<1>7. QED
  BY <1>1, <1>2, <1>3, <1>4, <1>5, <1>6 DEF Renew, Reap, Stall, Idle

LEMMA TurnStoreStep == [TurnNext]_turnVars => StoreStep
<1>1. ASSUME UNCHANGED turnVars PROVE StoreStep
  BY <1>1, NoCall DEF turnVars
<1>2. ASSUME LeaseLapses PROVE StoreStep
  BY <1>2, LeaseCall DEF LeaseLapses
<1>3. QED
  BY <1>1, <1>2, SendStoreStep, ExecutorStoreStep, CancelStoreStep, LoopStoreStep
  DEF TurnNext

\* Every step of the sends, executors, cancels and loops is one store call or
\* leaves the store alone: the layer above has no other way to write a task.
THEOREM TurnRunsOnStore == TurnSpec => Spec
<1>1. TurnInit => Init
  BY DEF TurnInit
<1>2. [TurnNext]_turnVars => [Next]_vars
  BY TurnStoreStep, StoreStepIsNext
<1>3. QED
  BY <1>1, <1>2, PTL DEF TurnSpec, Spec

\* So racing executors, cancels, deadlines, reapers and watchdogs leave one
\* terminal event, at the end of the log, and a row that agrees with it.
THEOREM TurnEndsLogOnce == TurnSpec => [](TerminalEndsLog /\ TerminalIsAnnounced)
  BY TurnRunsOnStore, TerminalEndsLogAlways, PTL

-------------------------------------------------------------------------------
(* What clients are told: the inductive invariant *)

\* The task is there and has this state.
Is(st) == Present(Task) /\ Status = st

\* st, if terminal, is what the task ended in.
Kept(st) == st \in TERMINAL_STATES => Is(st)

\* From BeginTurn to Spawn the task a send is about exists.
SendInv ==
  /\ send \in [Sends -> Send]
  /\ \A s \in Sends : Driving(s) => Present(Task)
  /\ \A s \in Sends : Kept(send[s].answer)

\* A terminal the sink has committed, or handed to its waiter, is the task's.
HandleInv ==
  /\ turn \in [Sends -> Handle]
  /\ \A s \in Sends : Kept(turn[s].stored) /\ Kept(turn[s].yielded)

CancelInv ==
  /\ cancel \in [Cancels -> Cancel]
  /\ \A c \in Cancels : Kept(cancel[c].answer)

RegistryType == in_flight \in [Instances -> Sends \cup {NoTurn}]
LoopType == loop \in [Instances -> Loop]
FaultType ==
  faults \in [crashes: 0..MaxCrashes, lost: 0..MaxLost, drops: 0..MaxDrops]

TurnInv ==
  IInv /\ SendInv /\ HandleInv /\ CancelInv /\ RegistryType /\ LoopType /\ FaultType

\* The task, once there, stays, and once terminal keeps its state: none of the
\* calls removes a row or overwrites a terminal one.
LEMMA StoreStepKeeps ==
  ASSUME IInv, StoreStep, Present(Task)
  PROVE  /\ Present(Task)'
         /\ Status \in TERMINAL_STATES => Status' = Status
<1>0. Task \in DOMAIN tasks /\ tasks[Task] \in Row
  BY DEF IInv, TypeOK, MapOf, Present
<1>1. ~\E i \in Items : CreateTaskWithEvents(Task, Owner, i)
  <2>1. event_counters[Task] > 0
    BY <1>0 DEF IInv, RowsCounted
  <2>2. ~(event_counters[Task] = 0)
    BY <2>1, SMT
  <2>3. QED
    BY <2>2, Zenon DEF CreateTaskWithEvents
<1>2. CASE \E i \in Items : AppendMessage(Task, Owner, i)
  BY <1>0, <1>2 DEF AppendMessage, Present, Row, Status
<1>3. CASE \E s \in TaskState : UpdateTaskStatusWithEvents(Task, Owner, s)
  BY <1>0, <1>3, TransitionFacts DEF UpdateTaskStatusWithEvents, Present, Row, Status
<1>4. CASE SetCancelRequested(Task, Owner)
  BY <1>0, <1>4 DEF SetCancelRequested, Present, Row, Status
<1>5. CASE \E e \in LeaseTimes \cup {NoLease} : RenewExecutorLeases({Task}, e)
  BY <1>0, <1>5 DEF RenewExecutorLeases, Present, Row, Status
<1>6. CASE \E w \in Writers, i \in Items : UpdateTaskWithEvents(w, i)
  <2>1. PICK w \in Writers, i \in Items : UpdateTaskWithEvents(w, i)
    BY <1>6
  <2>2. CASE snapshots[w].task = Task
    BY <1>0, <2>1, <2>2 DEF UpdateTaskWithEvents, Terminal, Present, Row, Status
  <2>3. CASE snapshots[w].task # Task
    BY <1>0, <2>1, <2>3 DEF UpdateTaskWithEvents, Present, Row, Status
  <2>4. QED
    BY <2>2, <2>3
<1>7. CASE UNCHANGED tasks
  BY <1>7 DEF Present, Status
<1>8. CASE ArtifactCall
  BY <1>6, <1>7, <1>8
  DEF ArtifactCall, GetTask, UpdateTaskWithEventsRefused, SinksDropped
<1>9. CASE RowCall
  BY <1>1, <1>2, <1>3, <1>4, <1>5, <1>9 DEF RowCall
<1>10. QED
  BY <1>7, <1>8, <1>9 DEF StoreStep, vars

\* st, if terminal, is what the task has ended in after the step.
KeptNext(st) == st \in TERMINAL_STATES => Present(Task)' /\ Status' = st

LEMMA KeptStays ==
  ASSUME IInv, StoreStep, NEW st, Kept(st)
  PROVE  KeptNext(st)
  BY StoreStepKeeps DEF Kept, Is, KeptNext

LEMMA StatusKept ==
  ASSUME IInv, StoreStep, Present(Task)
  PROVE  Status \in TaskState /\ KeptNext(Status)
<1>1. tasks[Task] \in Row
  BY DEF IInv, TypeOK, MapOf, Present
<1>2. Status \in TaskState
  BY <1>1 DEF Row, Status
<1>3. QED
  BY <1>2, KeptStays DEF Kept, Is

\* A terminal that was just committed is the task's.
LEMMA CommitKept ==
  ASSUME IInv, NEW st \in TaskState, UpdateTaskStatusWithEvents(Task, Owner, st)
  PROVE  KeptNext(st)
<1>1. Task \in DOMAIN tasks /\ tasks[Task] \in Row
  BY DEF UpdateTaskStatusWithEvents, OwnedBy, Present, IInv, TypeOK, MapOf
<1>2. QED
  BY <1>1 DEF UpdateTaskStatusWithEvents, KeptNext, Present, Status, Row

LEMMA NoState ==
  \A e \in Errors : e \notin TERMINAL_STATES /\ KeptNext(e)
  BY DEF Errors, TERMINAL_STATES, KeptNext

LEMMA SendSame ==
  ASSUME IInv, StoreStep, SendInv, UNCHANGED send
  PROVE  SendInv'
<1>1. ASSUME NEW s \in Sends, Driving(s)' PROVE Present(Task)'
  BY <1>1, StoreStepKeeps DEF SendInv, Driving
<1>2. ASSUME NEW s \in Sends PROVE Kept(send[s].answer)'
  BY <1>2, KeptStays DEF SendInv, Kept, Is, KeptNext
<1>3. QED
  BY <1>1, <1>2 DEF SendInv

LEMMA SendGoto ==
  ASSUME IInv, StoreStep, SendInv, NEW s \in Sends, NEW pc \in SendPc, Goto(s, pc),
         pc \in {"begun", "leased", "working"} => Present(Task)'
  PROVE  SendInv'
<1>1. send' \in [Sends -> Send]
  BY DEF SendInv, Goto, Send
<1>2. \A r \in Sends : /\ send'[r].answer = send[r].answer
                       /\ send'[r].pc = IF r = s THEN pc ELSE send[r].pc
  BY DEF SendInv, Goto, Send
<1>3. ASSUME NEW r \in Sends, Driving(r)' PROVE Present(Task)'
  BY <1>2, <1>3, StoreStepKeeps DEF SendInv, Driving
<1>4. ASSUME NEW r \in Sends PROVE Kept(send[r].answer)'
  BY <1>2, <1>4, KeptStays DEF SendInv, Kept, Is, KeptNext
<1>5. QED
  BY <1>1, <1>3, <1>4 DEF SendInv

LEMMA SendAnswer ==
  ASSUME IInv, StoreStep, SendInv, NEW s \in Sends, NEW a \in TaskState \cup Errors,
         KeptNext(a), Answer(s, a)
  PROVE  SendInv'
<1>1. send' \in [Sends -> Send]
  BY DEF SendInv, Answer, Send, SendPc
<1>2. \A r \in Sends : /\ send'[r].answer = IF r = s THEN a ELSE send[r].answer
                       /\ send'[r].pc = IF r = s THEN "done" ELSE send[r].pc
  BY DEF SendInv, Answer, Send
<1>3. ASSUME NEW r \in Sends, Driving(r)' PROVE Present(Task)'
  BY <1>2, <1>3, StoreStepKeeps DEF SendInv, Driving
<1>4. ASSUME NEW r \in Sends PROVE Kept(send[r].answer)'
  BY <1>2, <1>4, KeptStays DEF SendInv, Kept, Is, KeptNext
<1>5. QED
  BY <1>1, <1>3, <1>4 DEF SendInv

LEMMA HandleSame ==
  ASSUME IInv, StoreStep, HandleInv, UNCHANGED turn
  PROVE  HandleInv'
  BY KeptStays DEF HandleInv, Kept, Is, KeptNext

LEMMA HandleSet ==
  ASSUME IInv, StoreStep, HandleInv, NEW s \in Sends, NEW h \in Handle, SetTurn(s, h),
         h.stored = turn[s].stored \/ KeptNext(h.stored),
         h.yielded = turn[s].yielded \/ KeptNext(h.yielded)
  PROVE  HandleInv'
<1>1. turn' \in [Sends -> Handle]
  BY DEF HandleInv, SetTurn
<1>2. turn'[s] = h /\ \A r \in Sends \ {s} : turn'[r] = turn[r]
  BY DEF HandleInv, SetTurn
<1>3. ASSUME NEW r \in Sends PROVE Kept(turn[r].stored)' /\ Kept(turn[r].yielded)'
  BY <1>2, <1>3, KeptStays DEF HandleInv, Kept, Is, KeptNext
<1>4. QED
  BY <1>1, <1>3 DEF HandleInv

LEMMA CancelSame ==
  ASSUME IInv, StoreStep, CancelInv, UNCHANGED cancel
  PROVE  CancelInv'
  BY KeptStays DEF CancelInv, Kept, Is, KeptNext

\* What the steps of a group must establish besides IInv'.
Others == RegistryType /\ LoopType /\ FaultType

LEMMA SendStepInv ==
  ASSUME TurnInv, StoreStep, NEW s \in Sends,
         ResolveNew(s) \/ ResolveFollowUp(s) \/ Start(s) \/ Wait(s) \/ RequestDropped(s)
  PROVE  SendInv' /\ HandleInv' /\ CancelInv' /\ Others'
<1> USE DEF TurnInv, Others
<1>a. /\ turn[s] \in Handle /\ send[s] \in Send
      /\ send[s].at \in Instances
      /\ {"refused", "collision", "gone"} \subseteq Errors
      /\ NewHandle \in Handle /\ NewHandle.stored = "none" /\ NewHandle.yielded = "none"
      /\ KeptNext("none")
  BY NoState DEF SendInv, HandleInv, Send, Errors, NewHandle, Handle
<1>b. [turn[s] EXCEPT !.cancelled = TRUE] \in Handle
  BY <1>a DEF Handle
<1>c. [turn[s] EXCEPT !.cancelled = TRUE, !.aborting = TRUE] \in Handle
  BY <1>a DEF Handle
<1>1. CASE ResolveNew(s)
  <2>1. send' = [send EXCEPT ![s].pc = "resolved"]
    BY <1>1 DEF ResolveNew
  <2>2. SendInv'
    BY <2>1, SendGoto DEF Goto, SendPc
  <2>3. QED
    BY <1>1, <2>2, HandleSame, CancelSame DEF ResolveNew, RegistryType, LoopType, FaultType
<1>2. CASE ResolveFollowUp(s)
  <2>1. SendInv'
    <3>1. CASE Answer(s, "refused")
      BY <1>a, <3>1, NoState, SendAnswer
    <3>2. CASE send' = [send EXCEPT ![s].pc = "resolved", ![s].follows = TRUE]
      <4>1. send' \in [Sends -> Send]
        BY <1>a, <3>2 DEF SendInv, Send, SendPc
      <4>2. \A r \in Sends : /\ send'[r].answer = send[r].answer
                             /\ send'[r].pc = IF r = s THEN "resolved" ELSE send[r].pc
        BY <1>a, <3>2 DEF SendInv, Send
      <4>3. ASSUME NEW r \in Sends, Driving(r)' PROVE Present(Task)'
        BY <4>2, <4>3, StoreStepKeeps DEF SendInv, Driving
      <4>4. ASSUME NEW r \in Sends PROVE Kept(send[r].answer)'
        BY <4>2, <4>4, KeptStays DEF SendInv, Kept, Is, KeptNext
      <4>5. QED
        BY <4>1, <4>3, <4>4 DEF SendInv
    <3>3. QED
      BY <1>2, <3>1, <3>2 DEF ResolveFollowUp
  <2>2. QED
    BY <1>2, <2>1, HandleSame, CancelSame DEF ResolveFollowUp, RegistryType, LoopType, FaultType
<1>3. CASE BeginTurn(s)
  <2>1. Present(Task)'
    <3>1. CASE AppendMessage(Task, Owner, s)
      BY <3>1, StoreStepKeeps DEF AppendMessage, OwnedBy
    <3>2. CASE CreateTaskWithEvents(Task, Owner, s)
      BY <3>2 DEF CreateTaskWithEvents, Put, Present
    <3>3. QED
      BY <1>3, <3>1, <3>2 DEF BeginTurn
  <2>2. SendInv'
    BY <1>3, <2>1, SendGoto DEF BeginTurn, SendPc
  <2>3. QED
    BY <1>3, <2>2, HandleSame, CancelSame DEF BeginTurn, RegistryType, LoopType, FaultType
<1>4. CASE StampLease(s) \/ CommitWorking(s)
  <2>1. Present(Task)'
    BY <1>4, StoreStepKeeps DEF StampLease, CommitWorking, SendInv, Driving
  <2>2. SendInv'
    BY <1>4, <2>1, SendGoto DEF StampLease, CommitWorking, SendPc
  <2>3. QED
    BY <1>4, <2>2, HandleSame, CancelSame
    DEF StampLease, CommitWorking, RegistryType, LoopType, FaultType
<1>5. CASE CommitWorkingRefused(s) \/ SpawnCollides(s) \/ RequestDropped(s)
  <2>1. SendInv'
    BY <1>a, <1>5, NoState, SendAnswer DEF CommitWorkingRefused, SpawnCollides, RequestDropped
  <2>2. FaultType'
    <3>1. CASE UNCHANGED faults
      BY <3>1 DEF FaultType
    <3>2. CASE /\ faults.drops < MaxDrops
               /\ faults' = [faults EXCEPT !.drops = @ + 1]
      BY <3>2, TurnAssumption DEF FaultType
    <3>3. QED
      BY <1>5, <3>1, <3>2 DEF CommitWorkingRefused, SpawnCollides, RequestDropped
  <2>3. QED
    BY <1>5, <2>1, <2>2, HandleSame, CancelSame
    DEF CommitWorkingRefused, SpawnCollides, RequestDropped, RegistryType, LoopType
<1>6. CASE Spawn(s)
  <2>1. Status \in TaskState /\ KeptNext(Status)
    BY <1>6, StatusKept DEF Spawn, SendInv, Driving
  <2>2. SendInv'
    BY <1>6, <2>1, SendAnswer, SendGoto DEF Spawn, SendPc
  <2>3. HandleInv'
    BY <1>a, <1>6, HandleSet DEF Spawn
  <2>4. RegistryType'
    BY <1>6 DEF Spawn, RegistryType
  <2>5. QED
    BY <1>6, <2>2, <2>3, <2>4, CancelSame DEF Spawn, LoopType, FaultType
<1>7. CASE Yielded(s)
  <2>1. turn[s].yielded \in TaskState /\ KeptNext(turn[s].yielded)
    BY <1>a, <1>7, KeptStays DEF Yielded, HandleInv, Handle
  <2>2. SendInv'
    BY <1>7, <2>1, SendAnswer DEF Yielded
  <2>3. QED
    BY <1>7, <2>2, HandleSame, CancelSame DEF Yielded, RegistryType, LoopType, FaultType
<1>8. CASE SoftDeadline(s) \/ HardDeadline(s)
  <2>1. SendInv'
    BY <1>8, SendGoto DEF SoftDeadline, HardDeadline, SendPc
  <2>2. HandleInv'
    <3>1. CASE SoftDeadline(s)
      BY <1>a, <1>b, <3>1, HandleSet DEF SoftDeadline, Handle
    <3>2. CASE HardDeadline(s)
      BY <1>a, <1>c, <3>2, HandleSet DEF HardDeadline, Handle
    <3>3. QED
      BY <1>8, <3>1, <3>2
  <2>3. QED
    BY <1>8, <2>1, <2>2, CancelSame DEF SoftDeadline, HardDeadline, RegistryType, LoopType, FaultType
<1>9. CASE CancelSeen(s)
  <2>1. SendInv'
    BY <1>9, SendGoto DEF CancelSeen, SendPc
  <2>2. QED
    BY <1>9, <2>1, HandleSame, CancelSame DEF CancelSeen, RegistryType, LoopType, FaultType
<1>10. CASE PollSeesTerminal(s)
  <2>1. Status \in TaskState /\ KeptNext(Status)
    BY <1>10, StatusKept DEF PollSeesTerminal, Settled
  <2>2. SendInv'
    BY <1>10, <2>1, SendAnswer DEF PollSeesTerminal
  <2>3. QED
    BY <1>10, <2>2, HandleSame, CancelSame DEF PollSeesTerminal, RegistryType, LoopType, FaultType
<1>11. CASE ForceFailed(s)
  <2>1. SendInv'
    <3>1. CASE CommitTerminal("Failed") /\ Answer(s, "Failed")
      BY <3>1, CommitKept, StatesAreStates, SendAnswer DEF CommitTerminal
    <3>2. CASE Settled /\ Answer(s, Status)
      BY <3>2, StatusKept, SendAnswer DEF Settled
    <3>3. QED
      BY <1>11, <3>1, <3>2 DEF ForceFailed
  <2>2. QED
    BY <1>11, <2>1, HandleSame, CancelSame DEF ForceFailed, RegistryType, LoopType, FaultType
<1>12. QED
  BY <1>1, <1>2, <1>3, <1>4, <1>5, <1>6, <1>7, <1>8, <1>9, <1>10, <1>11 DEF Start, Wait

LEMMA ExecutorStepInv ==
  ASSUME TurnInv, StoreStep, NEW s \in Sends,
         \/ Executor(s) \/ SinkAnswered(s) \/ AbortTimer(s) \/ AbortLands(s)
         \/ Supervisor(s)
  PROVE  SendInv' /\ HandleInv' /\ CancelInv' /\ Others'
<1> USE DEF TurnInv, Others
<1>a. turn[s] \in Handle /\ KeptNext("none")
  BY DEF HandleInv, KeptNext, TERMINAL_STATES
<1>b. [turn[s] EXCEPT !.exec = "exited"] \in Handle
  BY <1>a DEF Handle
<1>1. CASE \E st \in TaskState, r \in BOOLEAN : SinkCommits(s, st, r)
  <2>1. PICK st \in TaskState, r \in BOOLEAN : SinkCommits(s, st, r)
    BY <1>1
  <2>2. KeptNext(st)
    BY <2>1, CommitKept DEF SinkCommits
  <2>3. [turn[s] EXCEPT !.stored = st, !.returning = r] \in Handle
    BY <1>a DEF Handle
  <2>4. HandleInv'
    BY <1>a, <2>1, <2>2, <2>3, HandleSet DEF SinkCommits, Handle
  <2>5. QED
    BY <2>1, <2>4, SendSame, CancelSame DEF SinkCommits, RegistryType, LoopType, FaultType
<1>2. CASE \E r \in BOOLEAN : SinkRefused(s, r)
  <2>1. PICK r \in BOOLEAN : SinkRefused(s, r)
    BY <1>2
  <2>2. [turn[s] EXCEPT !.closed = TRUE,
                        !.exec = IF r THEN "exited" ELSE "running"] \in Handle
    BY <1>a DEF Handle
  <2>3. HandleInv'
    <3> DEFINE h == [turn[s] EXCEPT !.closed = TRUE,
                                    !.exec = IF r THEN "exited" ELSE "running"]
    <3>1. h.stored = turn[s].stored /\ h.yielded = turn[s].yielded
      BY <1>a DEF Handle
    <3>2. SetTurn(s, h)
      BY <2>1 DEF SinkRefused
    <3> HIDE DEF h
    <3>3. QED
      BY <2>2, <3>1, <3>2, HandleSet DEF h
  <2>4. QED
    BY <2>1, <2>3, SendSame, CancelSame DEF SinkRefused, RegistryType, LoopType, FaultType
<1>3. CASE ExecutorReturns(s) \/ PostExecuteLost(s)
  <2>1. HandleInv'
    <3> DEFINE h == [turn[s] EXCEPT !.exec = "exited"]
    <3>1. SetTurn(s, h)
      BY <1>3 DEF ExecutorReturns, PostExecuteLost, Exits
    <3>2. h.stored = turn[s].stored /\ h.yielded = turn[s].yielded
      BY <1>a DEF Handle
    <3> HIDE DEF h
    <3>3. QED
      BY <1>b, <3>1, <3>2, HandleSet DEF h
  <2>2. FaultType'
    <3>1. CASE UNCHANGED faults
      BY <3>1 DEF FaultType
    <3>2. CASE faults.lost < MaxLost /\ faults' = [faults EXCEPT !.lost = @ + 1]
      BY <3>2, TurnAssumption DEF FaultType
    <3>3. QED
      BY <1>3, <3>1, <3>2 DEF ExecutorReturns, PostExecuteLost
  <2>3. QED
    BY <1>3, <2>1, <2>2, SendSame, CancelSame
    DEF ExecutorReturns, PostExecuteLost, RegistryType, LoopType
<1>4. CASE ArtifactRead(s) \/ (\E a \in Artifacts : ArtifactWrite(s, a))
  BY <1>4, SendSame, HandleSame, CancelSame
  DEF ArtifactRead, ArtifactWrite, RegistryType, LoopType, FaultType
<1>5. CASE ArtifactRefused(s)
  <2>1. [turn[s] EXCEPT !.closed = TRUE] \in Handle
    BY <1>a DEF Handle
  <2>2. HandleInv'
    BY <1>a, <1>5, <2>1, HandleSet DEF ArtifactRefused, Handle
  <2>3. QED
    BY <1>5, <2>2, SendSame, CancelSame DEF ArtifactRefused, RegistryType, LoopType, FaultType
<1>6. CASE SinkAnswered(s)
  <2> DEFINE h == AfterCommit(turn[s])
             final == turn[s].stored \in TERMINAL_STATES
             held == turn[s].stored \in CLIENT_HELD_STATES
             closed == turn[s].closed \/ final
             ended == turn[s].terminal_committed \/ final
             told == IF turn[s].yielded = "none" /\ (final \/ held)
                     THEN turn[s].stored ELSE turn[s].yielded
             exec == IF turn[s].returning THEN "exited" ELSE turn[s].exec
  <2>0. h = [turn[s] EXCEPT !.stored = "none", !.client_held = held,
                            !.closed = closed, !.terminal_committed = ended,
                            !.yielded = told, !.exec = exec]
    BY DEF AfterCommit
  <2>a. held \in BOOLEAN /\ closed \in BOOLEAN /\ ended \in BOOLEAN
    BY <1>a DEF Handle
  <2>b. told \in {turn[s].yielded, turn[s].stored} /\ exec \in {"exited", turn[s].exec}
    OBVIOUS
  <2>c. /\ told \in TaskState \cup {"none"}
        /\ exec \in {"none", "running", "exited"}
    BY <1>a, <2>b DEF Handle
  <2> HIDE DEF h, held, closed, ended, told, exec
  <2>1. h \in Handle
    <3>1. [turn[s] EXCEPT !.stored = "none", !.client_held = held, !.closed = closed] \in Handle
      BY <1>a, <2>a DEF Handle
    <3>2. h = [[turn[s] EXCEPT !.stored = "none", !.client_held = held, !.closed = closed]
                 EXCEPT !.terminal_committed = ended, !.yielded = told, !.exec = exec]
      BY <1>a, <2>0 DEF Handle
    <3>3. QED
      BY <2>a, <2>c, <3>1, <3>2 DEF Handle
  <2>2. h.stored = "none" /\ h.yielded \in {turn[s].yielded, turn[s].stored}
    BY <1>a, <2>0, <2>a, <2>b DEF Handle
  <2>3. KeptNext(turn[s].stored)
    BY KeptStays DEF HandleInv
  <2>4. HandleInv'
    BY <1>a, <1>6, <2>1, <2>2, <2>3, HandleSet DEF SinkAnswered, h
  <2>5. QED
    BY <1>6, <2>4, SendSame, CancelSame DEF SinkAnswered, RegistryType, LoopType, FaultType
<1>7. CASE AbortTimer(s)
  <2>1. [turn[s] EXCEPT !.abort_timer = "spent",
                        !.aborting = @ \/ ~turn[s].terminal_committed] \in Handle
    BY <1>a DEF Handle
  <2>2. HandleInv'
    <3> DEFINE h == [turn[s] EXCEPT !.abort_timer = "spent",
                                    !.aborting = @ \/ ~turn[s].terminal_committed]
    <3>1. h.stored = turn[s].stored /\ h.yielded = turn[s].yielded
      BY <1>a DEF Handle
    <3>2. SetTurn(s, h)
      BY <1>7 DEF AbortTimer
    <3> HIDE DEF h
    <3>3. QED
      BY <2>1, <3>1, <3>2, HandleSet DEF h
  <2>3. QED
    BY <1>7, <2>2, SendSame, CancelSame DEF AbortTimer, RegistryType, LoopType, FaultType
<1>8. CASE AbortLands(s)
  <2>1. [turn[s] EXCEPT !.exec = "exited", !.stored = "none"] \in Handle
    BY <1>a DEF Handle
  <2>2. HandleInv'
    BY <1>a, <1>8, <2>1, HandleSet DEF AbortLands, Handle
  <2>3. QED
    BY <1>8, <2>2, SendSame, CancelSame DEF AbortLands, RegistryType, LoopType, FaultType
<1>9. CASE SupervisorLeaves(s)
  <2>1. \A p \in {"clearing", "done"} : [turn[s] EXCEPT !.supervisor = p] \in Handle
    BY <1>a DEF Handle
  <2>2. HandleInv'
    <3>1. PICK p \in {"clearing", "done"} : SetTurn(s, [turn[s] EXCEPT !.supervisor = p])
      BY <1>9 DEF SupervisorLeaves
    <3>2. QED
      BY <1>a, <2>1, <3>1, HandleSet DEF Handle
  <2>3. RegistryType'
    BY <1>9 DEF SupervisorLeaves, RegistryType
  <2>4. QED
    BY <1>9, <2>2, <2>3, SendSame, CancelSame DEF SupervisorLeaves, LoopType, FaultType
<1>10. CASE SupervisorClears(s)
  <2>1. [turn[s] EXCEPT !.supervisor = "done"] \in Handle
    BY <1>a DEF Handle
  <2>2. HandleInv'
    BY <1>a, <1>10, <2>1, HandleSet DEF SupervisorClears, Handle
  <2>3. QED
    BY <1>10, <2>2, SendSame, CancelSame DEF SupervisorClears, RegistryType, LoopType, FaultType
<1>11. QED
  BY <1>1, <1>2, <1>3, <1>4, <1>5, <1>6, <1>7, <1>8, <1>9, <1>10 DEF Executor, Supervisor

LEMMA TripInv ==
  ASSUME TurnInv, StoreStep, NEW s \in Sends \cup {NoTurn}, Trip(s)
  PROVE  HandleInv'
<1> USE DEF TurnInv
<1>1. CASE s = NoTurn
  BY <1>1, HandleSame DEF Trip
<1>2. CASE s \in Sends
  <2>1. turn[s] \in Handle
    BY <1>2 DEF HandleInv
  <2>2. CancelThenAbort(turn[s]) \in Handle
    BY <2>1 DEF CancelThenAbort, Handle
  <2>3. /\ CancelThenAbort(turn[s]).stored = turn[s].stored
        /\ CancelThenAbort(turn[s]).yielded = turn[s].yielded
    BY <2>1 DEF CancelThenAbort, Handle
  <2>4. SetTurn(s, CancelThenAbort(turn[s]))
    BY <1>2, TurnAssumption DEF Trip
  <2>5. QED
    BY <1>2, <2>2, <2>3, <2>4, HandleSet
<1>3. QED
  BY <1>1, <1>2

\* A cancel call moves on, with an answer that is the task's if it is terminal.
LEMMA CancelSet ==
  ASSUME IInv, StoreStep, CancelInv, NEW c \in Cancels,
         NEW k \in Cancel, KeptNext(k.answer), cancel' = [cancel EXCEPT ![c] = k]
  PROVE  CancelInv'
<1>1. cancel' \in [Cancels -> Cancel]
  BY DEF CancelInv
<1>2. \A d \in Cancels : cancel'[d] = IF d = c THEN k ELSE cancel[d]
  BY DEF CancelInv
<1>3. ASSUME NEW d \in Cancels PROVE Kept(cancel[d].answer)'
  BY <1>2, <1>3, KeptStays DEF CancelInv, Kept, Is, KeptNext
<1>4. QED
  BY <1>1, <1>3 DEF CancelInv

LEMMA CancelStepInv ==
  ASSUME TurnInv, StoreStep, NEW c \in Cancels, CancelCall(c)
  PROVE  SendInv' /\ HandleInv' /\ CancelInv' /\ Others'
<1> USE DEF TurnInv, Others
<1>a. /\ cancel[c] \in Cancel /\ KeptNext(cancel[c].answer)
      /\ cancel = [d \in Cancels |-> cancel[d]]
  BY KeptStays DEF CancelInv
<1>1. CASE CancelMarks(c)
  <2> DEFINE k == [cancel[c] EXCEPT !.pc = "marked"]
  <2>1. k \in Cancel /\ k.answer = cancel[c].answer
    BY <1>a DEF Cancel
  <2>2. cancel' = [cancel EXCEPT ![c] = k]
    BY <1>1, <1>a DEF CancelMarks
  <2>3. CancelInv'
    BY <1>a, <2>1, <2>2, CancelSet
  <2>4. QED
    BY <1>1, <2>3, SendSame, HandleSame DEF CancelMarks, RegistryType, LoopType, FaultType
<1>2. CASE CancelTrips(c)
  <2> DEFINE k == [cancel[c] EXCEPT !.pc = "grace"]
  <2>1. k \in Cancel /\ k.answer = cancel[c].answer
    BY <1>a DEF Cancel
  <2>2. cancel' = [cancel EXCEPT ![c] = k]
    BY <1>2, <1>a DEF CancelTrips
  <2>3. CancelInv'
    BY <1>a, <2>1, <2>2, CancelSet
  <2>4. in_flight[cancel[c].at] \in Sends \cup {NoTurn}
    BY <1>a DEF Cancel, RegistryType
  <2>5. HandleInv'
    BY <1>2, <2>4, TripInv DEF CancelTrips
  <2>6. QED
    BY <1>2, <2>3, <2>5, SendSame DEF CancelTrips, RegistryType, LoopType, FaultType
<1>3. CASE CancelEnds(c)
  <2>1. PICK a \in TaskState : KeptNext(a) /\ EndCancel(c, a)
    <3>1. CASE CommitTerminal("Canceled") /\ EndCancel(c, "Canceled")
      BY <3>1, CommitKept, StatesAreStates DEF CommitTerminal
    <3>2. CASE Settled /\ EndCancel(c, Status)
      BY <3>2, StatusKept DEF Settled
    <3>3. QED
      BY <1>3, <3>1, <3>2 DEF CancelEnds
  <2> DEFINE k == [cancel[c] EXCEPT !.pc = "done", !.answer = a]
  <2>2. k \in Cancel /\ k.answer = a
    BY <1>a DEF Cancel
  <2>3. cancel' = [cancel EXCEPT ![c] = k]
    BY <2>1 DEF EndCancel
  <2>4. CancelInv'
    BY <2>1, <2>2, <2>3, CancelSet
  <2>5. QED
    BY <1>3, <2>4, SendSame, HandleSame DEF CancelEnds, RegistryType, LoopType, FaultType
<1>4. QED
  BY <1>1, <1>2, <1>3 DEF CancelCall

LEMMA LoopStepInv ==
  ASSUME TurnInv, StoreStep, NEW i \in Instances,
         CancelPoll(i) \/ Renew(i) \/ Reap(i) \/ Stall(i) \/ Idle(i)
  PROVE  SendInv' /\ HandleInv' /\ CancelInv' /\ Others'
<1> USE DEF TurnInv, Others
<1>a. loop[i] \in Loop /\ in_flight[i] \in Sends \cup {NoTurn}
  BY DEF LoopType, RegistryType
<1>1. SendInv' /\ CancelInv'
  BY SendSame, CancelSame
  DEF CancelPoll, Renew, RenewSnapshot, RenewStamp, Reap, ReapList, ReapCommit,
      ReapClear, Stall, StallList, StallCommit, Idle, IdleList, IdleCommit
<1>2. RegistryType' /\ FaultType'
  BY DEF CancelPoll, Renew, RenewSnapshot, RenewStamp, Reap, ReapList, ReapCommit,
      ReapClear, Stall, StallList, StallCommit, Idle, IdleList, IdleCommit,
      RegistryType, FaultType
<1>3. HandleInv'
  <2>1. CASE Renew(i) \/ Reap(i) \/ StallList(i) \/ IdleList(i)
    BY <2>1, HandleSame
    DEF Renew, RenewSnapshot, RenewStamp, Reap, ReapList, ReapCommit, ReapClear,
        StallList, IdleList
  <2>2. CASE CancelPoll(i)
    BY <1>a, <2>2, TripInv DEF CancelPoll
  <2>3. CASE StallCommit(i)
    <3>1. loop[i].stall \in Sends \cup {NoTurn}
      BY <1>a DEF Loop
    <3>2. QED
      BY <2>3, <3>1, TripInv DEF StallCommit
  <2>4. CASE IdleCommit(i)
    BY <1>a, <2>4, TripInv, HandleSame DEF IdleCommit
  <2>5. QED
    BY <2>1, <2>2, <2>3, <2>4 DEF Stall, Idle
<1>4. LoopType'
  <2>1. CASE UNCHANGED loop
    BY <2>1 DEF LoopType
  <2>2. CASE \E b \in BOOLEAN : loop' = [loop EXCEPT ![i].renew = b]
    BY <1>a, <2>2 DEF LoopType, Loop
  <2>3. CASE \E p \in {"none", "listed", "clear"} : loop' = [loop EXCEPT ![i].reap = p]
    BY <1>a, <2>3 DEF LoopType, Loop
  <2>4. CASE \E b \in BOOLEAN : loop' = [loop EXCEPT ![i].idle = b]
    BY <1>a, <2>4 DEF LoopType, Loop
  <2>5. CASE \E s \in Sends \cup {NoTurn} : loop' = [loop EXCEPT ![i].stall = s]
    BY <1>a, <2>5 DEF LoopType, Loop
  <2>6. QED
    BY <1>a, <2>1, <2>2, <2>3, <2>4, <2>5
    DEF CancelPoll, Renew, RenewSnapshot, RenewStamp, Reap, ReapList, ReapCommit,
        ReapClear, Stall, StallList, StallCommit, Idle, IdleList, IdleCommit
<1>5. QED
  BY <1>1, <1>2, <1>3, <1>4

LEMMA CrashInv ==
  ASSUME TurnInv, StoreStep, NEW i \in Instances, Crash(i)
  PROVE  SendInv' /\ HandleInv' /\ CancelInv' /\ Others'
<1> USE DEF TurnInv, Others
<1>1. SendInv'
  <2>1. \A s \in Sends : [send[s] EXCEPT !.pc = "done", !.answer = "gone"] \in Send
    BY DEF SendInv, Send, SendPc, Errors
  <2>2. send' \in [Sends -> Send]
    BY <2>1 DEF Crash, SendInv
  <2>3. ASSUME NEW s \in Sends
        PROVE  \/ send'[s] = send[s]
               \/ send'[s].pc = "done" /\ send'[s].answer = "gone"
    BY DEF Crash, SendInv, Send
  <2>4. ASSUME NEW s \in Sends, Driving(s)' PROVE Present(Task)'
    BY <2>3, <2>4, StoreStepKeeps DEF SendInv, Driving
  <2>5. ASSUME NEW s \in Sends PROVE Kept(send[s].answer)'
    BY <2>3, <2>5, KeptStays DEF SendInv, Kept, Is, KeptNext, TERMINAL_STATES
  <2>6. QED
    BY <2>2, <2>4, <2>5 DEF SendInv
<1>2. HandleInv'
  <2>1. /\ DeadHandle \in Handle
        /\ DeadHandle.stored = "none" /\ DeadHandle.yielded = "none"
    BY DEF DeadHandle, NewHandle, Handle
  <2>2. turn' \in [Sends -> Handle]
    BY <2>1 DEF Crash, HandleInv
  <2>3. \A s \in Sends : turn'[s] = turn[s] \/ turn'[s] = DeadHandle
    BY DEF Crash
  <2>4. ASSUME NEW s \in Sends PROVE Kept(turn[s].stored)' /\ Kept(turn[s].yielded)'
    BY <2>1, <2>3, KeptStays DEF HandleInv, Kept, Is, KeptNext, TERMINAL_STATES
  <2>5. QED
    BY <2>2, <2>4 DEF HandleInv
<1>3. CancelInv'
  <2>1. \A c \in Cancels : [cancel[c] EXCEPT !.pc = "done", !.answer = "gone"] \in Cancel
    BY DEF CancelInv, Cancel, Errors
  <2>2. cancel' \in [Cancels -> Cancel]
    BY <2>1 DEF Crash, CancelInv
  <2>3. ASSUME NEW c \in Cancels
        PROVE  cancel'[c].answer = cancel[c].answer \/ cancel'[c].answer = "gone"
    BY DEF Crash, CancelInv, Cancel
  <2>4. ASSUME NEW c \in Cancels PROVE Kept(cancel[c].answer)'
    BY <2>3, KeptStays DEF CancelInv, Kept, Is, KeptNext, TERMINAL_STATES
  <2>5. QED
    BY <2>2, <2>4 DEF CancelInv
<1>4. RegistryType' /\ LoopType'
  BY DEF Crash, RegistryType, LoopType, Resting, Loop
<1>5. FaultType'
  <2>1. /\ faults.crashes < MaxCrashes
        /\ faults' = [faults EXCEPT !.crashes = @ + 1]
    BY DEF Crash
  <2>2. QED
    BY <2>1, TurnAssumption DEF FaultType
<1>6. QED
  BY <1>1, <1>2, <1>3, <1>4, <1>5

LEMMA TurnInitInv == TurnInit => TurnInv
<1> SUFFICES ASSUME TurnInit PROVE TurnInv
  OBVIOUS
<1>1. IInv
  BY InitInv DEF TurnInit
<1>2. SendInv
  <2>1. ASSUME NEW s \in Sends
        PROVE  send[s] \in Send /\ send[s].pc = "idle" /\ send[s].answer = "none"
    <3>1. PICK i \in Instances : send[s] = [pc |-> "idle", at |-> i, follows |-> FALSE,
                                            answer |-> "none"]
      BY DEF TurnInit
    <3>2. QED
      BY <3>1 DEF Send, SendPc, Errors
  <2>2. send \in [Sends -> Send]
    BY <2>1 DEF TurnInit
  <2>3. QED
    BY <2>1, <2>2 DEF SendInv, Driving, Kept, TERMINAL_STATES
<1>3. HandleInv
  BY DEF TurnInit, HandleInv, NoHandle, NewHandle, Handle, Kept, TERMINAL_STATES
<1>4. CancelInv
  BY DEF TurnInit, CancelInv, Cancel, Errors, Kept, TERMINAL_STATES
<1>5. RegistryType /\ LoopType /\ FaultType
  BY TurnAssumption DEF TurnInit, RegistryType, LoopType, Resting, Loop, FaultType
<1>6. QED
  BY <1>1, <1>2, <1>3, <1>4, <1>5 DEF TurnInv

LEMMA TurnStepInv == TurnInv /\ [TurnNext]_turnVars => TurnInv'
<1> SUFFICES ASSUME TurnInv, [TurnNext]_turnVars PROVE TurnInv'
  OBVIOUS
<1>1. StoreStep
  BY TurnStoreStep
<1>2. IInv'
  BY <1>1, StoreStepIsNext, StepInv DEF TurnInv
<1>3. SendInv' /\ HandleInv' /\ CancelInv' /\ Others'
  <2>1. CASE UNCHANGED turnVars \/ LeaseLapses
    BY <1>1, <2>1, SendSame, HandleSame, CancelSame
    DEF turnVars, LeaseLapses, TurnInv, Others, RegistryType, LoopType, FaultType
  <2>2. CASE \E s \in Sends :
               \/ ResolveNew(s) \/ ResolveFollowUp(s) \/ Start(s) \/ Wait(s)
               \/ RequestDropped(s)
    BY <1>1, <2>2, SendStepInv
  <2>3. CASE \E s \in Sends :
               \/ Executor(s) \/ SinkAnswered(s) \/ AbortTimer(s) \/ AbortLands(s)
               \/ Supervisor(s)
    BY <1>1, <2>3, ExecutorStepInv
  <2>4. CASE \E c \in Cancels : CancelCall(c)
    BY <1>1, <2>4, CancelStepInv
  <2>5. CASE \E i \in Instances : CancelPoll(i) \/ Renew(i) \/ Reap(i) \/ Stall(i) \/ Idle(i)
    BY <1>1, <2>5, LoopStepInv
  <2>6. CASE \E i \in Instances : Crash(i)
    BY <1>1, <2>6, CrashInv
  <2>7. QED
    BY <2>1, <2>2, <2>3, <2>4, <2>5, <2>6 DEF TurnNext
<1>4. QED
  BY <1>2, <1>3 DEF TurnInv, Others

LEMMA TurnInductive == TurnSpec => []TurnInv
  BY TurnInitInv, TurnStepInv, PTL DEF TurnSpec

THEOREM TurnTypeCorrect == TurnSpec => []TurnTypeOK
<1>1. TurnInv => TurnTypeOK
  BY DEF TurnInv, IInv, SendInv, HandleInv, CancelInv, RegistryType, LoopType,
         FaultType, TurnTypeOK
<1>2. QED
  BY <1>1, TurnInductive, PTL

\* Whatever wins the race to end a task (executor, cancel, deadline, reaper,
\* watchdog or idle sweep) and whatever crashes, every terminal answer a send
\* or a cancel gave is the state the task is in, then and ever after.
THEOREM AnswerIsVerdictAlways == TurnSpec => []AnswerIsVerdict
<1>1. TurnInv => AnswerIsVerdict
  BY DEF TurnInv, SendInv, CancelInv, Kept, Is, AnswerIsVerdict
<1>2. QED
  BY <1>1, TurnInductive, PTL

-------------------------------------------------------------------------------
(* One executor per instance, and the registry knows it *)

StaysPut == \A s \in Sends : send'[s].at = send[s].at
NoneStarts == \A s \in Sends : turn'[s].exec = "running" => turn[s].exec = "running"

\* A step that starts no executor and leaves the registry alone.
LEMMA RegisteredFrame ==
  ASSUME RunningIsRegistered, StaysPut, NoneStarts, UNCHANGED in_flight
  PROVE  RunningIsRegistered'
  BY DEF RunningIsRegistered, StaysPut, NoneStarts, Registered

LEMMA GotoStays ==
  ASSUME SendInv, NEW s \in Sends, NEW pc, NEW a,
         Goto(s, pc) \/ Answer(s, a) \/ UNCHANGED send
  PROVE  StaysPut
  BY DEF SendInv, Send, Goto, Answer, StaysPut

LEMMA SetStarts ==
  ASSUME HandleInv, NEW s \in Sends, NEW h \in Handle, SetTurn(s, h),
         h.exec = "running" => turn[s].exec = "running"
  PROVE  NoneStarts
  BY DEF HandleInv, SetTurn, NoneStarts

LEMMA TripStarts ==
  ASSUME TurnInv, NEW s \in Sends \cup {NoTurn}, Trip(s)
  PROVE  NoneStarts
<1>1. CASE s = NoTurn
  BY <1>1 DEF Trip, NoneStarts
<1>2. CASE s \in Sends
  <2>1. turn[s] \in Handle
    BY <1>2 DEF TurnInv, HandleInv
  <2>2. /\ CancelThenAbort(turn[s]) \in Handle
        /\ CancelThenAbort(turn[s]).exec = turn[s].exec
    BY <2>1 DEF CancelThenAbort, Handle
  <2>3. QED
    BY <1>2, <2>2, SetStarts, TurnAssumption DEF Trip, TurnInv
<1>3. QED
  BY <1>1, <1>2

LEMMA SendStepRegisters ==
  ASSUME TurnInv, RunningIsRegistered, NEW s \in Sends,
         ResolveNew(s) \/ ResolveFollowUp(s) \/ Start(s) \/ Wait(s) \/ RequestDropped(s)
  PROVE  RunningIsRegistered'
<1> USE DEF TurnInv
<1>1. CASE Spawn(s)
  <2>1. StaysPut
    BY <1>1, GotoStays DEF Spawn
  <2>2. /\ turn' = [turn EXCEPT ![s] = NewHandle]
        /\ in_flight' = [in_flight EXCEPT ![send[s].at] = s]
        /\ in_flight[send[s].at] = NoTurn
    BY <1>1 DEF Spawn, SetTurn, Registered
  <2>3. ASSUME NEW r \in Sends, turn'[r].exec = "running"
        PROVE  in_flight'[send'[r].at] = r
    <3>1. send[r].at \in Instances /\ send[s].at \in Instances
      BY DEF SendInv, Send
    <3>2. CASE r = s
      BY <2>1, <2>2, <3>1, <3>2 DEF StaysPut, RegistryType
    <3>3. CASE r # s
      <4>1. in_flight[send[r].at] = r
        BY <2>2, <2>3, <3>3 DEF RunningIsRegistered, Registered, HandleInv
      <4>2. send[r].at # send[s].at
        BY <2>2, <4>1, TurnAssumption
      <4>3. QED
        BY <2>1, <2>2, <3>1, <4>1, <4>2 DEF StaysPut, RegistryType
    <3>4. QED
      BY <3>2, <3>3
  <2>4. QED
    BY <2>3 DEF RunningIsRegistered, Registered
<1>2. CASE ResolveNew(s) \/ ResolveFollowUp(s)
  <2>1. StaysPut
    BY <1>2, GotoStays DEF ResolveNew, ResolveFollowUp, SendInv, Send, StaysPut
  <2>2. NoneStarts /\ UNCHANGED in_flight
    BY <1>2 DEF ResolveNew, ResolveFollowUp, NoneStarts
  <2>3. QED
    BY <2>1, <2>2, RegisteredFrame
<1>3. CASE \/ BeginTurn(s) \/ StampLease(s) \/ CommitWorking(s)
           \/ CommitWorkingRefused(s) \/ SpawnCollides(s) \/ RequestDropped(s)
  <2>1. StaysPut
    BY <1>3, GotoStays
    DEF BeginTurn, StampLease, CommitWorking, CommitWorkingRefused, SpawnCollides,
        RequestDropped
  <2>2. NoneStarts /\ UNCHANGED in_flight
    BY <1>3
    DEF BeginTurn, StampLease, CommitWorking, CommitWorkingRefused, SpawnCollides,
        RequestDropped, NoneStarts
  <2>3. QED
    BY <2>1, <2>2, RegisteredFrame
<1>4. CASE Yielded(s) \/ CancelSeen(s) \/ PollSeesTerminal(s) \/ ForceFailed(s)
  <2>1. StaysPut
    BY <1>4, GotoStays DEF Yielded, CancelSeen, PollSeesTerminal, ForceFailed
  <2>2. NoneStarts /\ UNCHANGED in_flight
    BY <1>4 DEF Yielded, CancelSeen, PollSeesTerminal, ForceFailed, NoneStarts
  <2>3. QED
    BY <2>1, <2>2, RegisteredFrame
<1>5. CASE SoftDeadline(s) \/ HardDeadline(s)
  <2>1. StaysPut /\ UNCHANGED in_flight
    BY <1>5, GotoStays DEF SoftDeadline, HardDeadline
  <2>2. PICK h \in {[turn[s] EXCEPT !.cancelled = TRUE],
                    [turn[s] EXCEPT !.cancelled = TRUE, !.aborting = TRUE]} : SetTurn(s, h)
    BY <1>5 DEF SoftDeadline, HardDeadline
  <2>3. h \in Handle /\ h.exec = turn[s].exec
    <3>1. turn[s] \in Handle
      BY DEF HandleInv
    <3>2. CASE h = [turn[s] EXCEPT !.cancelled = TRUE]
      BY <3>1, <3>2 DEF Handle
    <3>3. CASE h = [turn[s] EXCEPT !.cancelled = TRUE, !.aborting = TRUE]
      BY <3>1, <3>3 DEF Handle
    <3>4. QED
      BY <2>2, <3>2, <3>3
  <2>4. QED
    BY <2>1, <2>2, <2>3, SetStarts, RegisteredFrame
<1>6. QED
  BY <1>1, <1>2, <1>3, <1>4, <1>5 DEF Start, Wait

LEMMA ExecutorStepRegisters ==
  ASSUME TurnInv, RunningIsRegistered, NEW s \in Sends,
         \/ Executor(s) \/ SinkAnswered(s) \/ AbortTimer(s) \/ AbortLands(s)
         \/ Supervisor(s)
  PROVE  RunningIsRegistered'
<1> USE DEF TurnInv
<1>1. UNCHANGED send
  BY DEF Executor, SinkCommits, SinkRefused, ExecutorReturns, PostExecuteLost,
         ArtifactRead, ArtifactWrite, ArtifactRefused, SinkAnswered, AbortTimer,
         AbortLands, Supervisor, SupervisorLeaves, SupervisorClears
<1>2. StaysPut
  BY <1>1 DEF StaysPut
<1>3. CASE Executor(s) \/ SinkAnswered(s) \/ AbortLands(s)
  <2>1. turn[s].exec = "running" \/ NoneStarts
    BY <1>3
    DEF Executor, SinkCommits, SinkRefused, ExecutorReturns, PostExecuteLost,
        ArtifactRead, ArtifactWrite, ArtifactRefused, SinkAnswered, AbortLands,
        SinkReady, NoneStarts
  <2>2. UNCHANGED in_flight
    BY <1>3
    DEF Executor, SinkCommits, SinkRefused, ExecutorReturns, PostExecuteLost,
        ArtifactRead, ArtifactWrite, ArtifactRefused, SinkAnswered, AbortLands
  <2>3. UNCHANGED turn \/ \E h : SetTurn(s, h)
    BY <1>3
    DEF Executor, SinkCommits, SinkRefused, ExecutorReturns, PostExecuteLost,
        ArtifactRead, ArtifactWrite, ArtifactRefused, SinkAnswered, AbortLands, Exits
  <2>4. \A r \in Sends \ {s} : turn'[r] = turn[r]
    BY <2>3 DEF SetTurn, HandleInv
  <2>5. NoneStarts
    BY <2>1, <2>4 DEF NoneStarts
  <2>6. QED
    BY <1>2, <2>2, <2>5, RegisteredFrame
<1>4. CASE AbortTimer(s)
  <2> DEFINE h == [turn[s] EXCEPT !.abort_timer = "spent",
                                  !.aborting = @ \/ ~turn[s].terminal_committed]
  <2>1. h \in Handle /\ h.exec = turn[s].exec
    BY DEF HandleInv, Handle
  <2>2. NoneStarts /\ UNCHANGED in_flight
    BY <1>4, <2>1, SetStarts DEF AbortTimer
  <2>3. QED
    BY <1>2, <2>2, RegisteredFrame
<1>5. CASE SupervisorLeaves(s)
  <2>1. PICK p \in {"clearing", "done"} : SetTurn(s, [turn[s] EXCEPT !.supervisor = p])
    BY <1>5 DEF SupervisorLeaves
  <2>2. /\ turn[s].exec = "exited"
        /\ in_flight' = [in_flight EXCEPT ![send[s].at] = IF @ = s THEN NoTurn ELSE @]
    BY <1>5 DEF SupervisorLeaves
  <2>3. ASSUME NEW r \in Sends, turn'[r].exec = "running"
        PROVE  in_flight'[send'[r].at] = r
    <3>1. r # s
      BY <2>1, <2>2, <2>3 DEF SetTurn, HandleInv, Handle
    <3>2. in_flight[send[r].at] = r
      BY <2>1, <2>3, <3>1 DEF SetTurn, HandleInv, RunningIsRegistered, Registered
    <3>3. send[r].at \in Instances
      BY DEF SendInv, Send
    <3>4. QED
      BY <1>1, <2>2, <3>1, <3>2, <3>3 DEF RegistryType
  <2>4. QED
    BY <2>3 DEF RunningIsRegistered, Registered
<1>6. CASE SupervisorClears(s)
  <2>1. [turn[s] EXCEPT !.supervisor = "done"] \in Handle
        /\ [turn[s] EXCEPT !.supervisor = "done"].exec = turn[s].exec
    BY DEF HandleInv, Handle
  <2>2. NoneStarts /\ UNCHANGED in_flight
    BY <1>6, <2>1, SetStarts DEF SupervisorClears
  <2>3. QED
    BY <1>2, <2>2, RegisteredFrame
<1>7. QED
  BY <1>3, <1>4, <1>5, <1>6 DEF Supervisor

LEMMA LoopStepRegisters ==
  ASSUME TurnInv, RunningIsRegistered,
         \/ \E c \in Cancels : CancelCall(c)
         \/ \E i \in Instances : CancelPoll(i) \/ Renew(i) \/ Reap(i) \/ Stall(i) \/ Idle(i)
         \/ LeaseLapses
  PROVE  RunningIsRegistered'
<1>1. UNCHANGED <<send, in_flight>>
  BY DEF CancelCall, CancelMarks, CancelTrips, CancelEnds, CancelPoll, Renew,
         RenewSnapshot, RenewStamp, Reap, ReapList, ReapCommit, ReapClear, Stall,
         StallList, StallCommit, Idle, IdleList, IdleCommit, LeaseLapses
<1>2. UNCHANGED turn \/ \E s \in Sends \cup {NoTurn} : Trip(s)
  <2>1. \A c \in Cancels : in_flight[cancel[c].at] \in Sends \cup {NoTurn}
    BY DEF TurnInv, CancelInv, Cancel, RegistryType
  <2>2. \A i \in Instances : in_flight[i] \in Sends \cup {NoTurn}
                             /\ loop[i].stall \in Sends \cup {NoTurn}
    BY DEF TurnInv, RegistryType, LoopType, Loop
  <2>3. QED
    BY <2>1, <2>2
    DEF CancelCall, CancelMarks, CancelTrips, CancelEnds, CancelPoll, Renew,
        RenewSnapshot, RenewStamp, Reap, ReapList, ReapCommit, ReapClear, Stall,
        StallList, StallCommit, Idle, IdleList, IdleCommit, LeaseLapses
<1>3. NoneStarts
  BY <1>2, TripStarts DEF NoneStarts
<1>4. QED
  BY <1>1, <1>3, RegisteredFrame DEF StaysPut

LEMMA CrashRegisters ==
  ASSUME TurnInv, RunningIsRegistered, NEW i \in Instances, Crash(i)
  PROVE  RunningIsRegistered'
<1>1. \A s \in Sends : /\ send[s].at \in Instances
                       /\ send'[s].at = send[s].at
  BY DEF TurnInv, SendInv, Send, Crash
<1>2. ASSUME NEW s \in Sends, turn'[s].exec = "running"
      PROVE  turn[s].exec = "running" /\ send[s].at # i
  BY <1>2 DEF Crash, DeadHandle, NewHandle
<1>3. in_flight' = [in_flight EXCEPT ![i] = NoTurn]
  BY DEF Crash
<1>4. QED
  BY <1>1, <1>2, <1>3 DEF RunningIsRegistered, Registered, TurnInv, RegistryType

\* An instance runs at most one executor for the task, the one its registry
\* holds, however many follow-ups race: cancels, deadlines and the stall
\* watchdog, which act through the registry, always reach it.
THEOREM RunningIsRegisteredAlways == TurnSpec => []RunningIsRegistered
<1>1. TurnInit => RunningIsRegistered
  <2> SUFFICES ASSUME TurnInit, NEW s \in Sends
               PROVE  turn[s].exec # "running"
    BY DEF RunningIsRegistered
  <2>1. turn[s] = NoHandle
    BY DEF TurnInit
  <2>2. QED
    BY <2>1 DEF NoHandle, NewHandle
<1>2. TurnInv /\ RunningIsRegistered /\ [TurnNext]_turnVars => RunningIsRegistered'
  <2> SUFFICES ASSUME TurnInv, RunningIsRegistered, [TurnNext]_turnVars
               PROVE  RunningIsRegistered'
    OBVIOUS
  <2>1. CASE UNCHANGED turnVars
    BY <2>1 DEF turnVars, RunningIsRegistered, Registered
  <2>2. CASE \E s \in Sends :
               \/ ResolveNew(s) \/ ResolveFollowUp(s) \/ Start(s) \/ Wait(s)
               \/ RequestDropped(s)
    BY <2>2, SendStepRegisters
  <2>3. CASE \E s \in Sends :
               \/ Executor(s) \/ SinkAnswered(s) \/ AbortTimer(s) \/ AbortLands(s)
               \/ Supervisor(s)
    BY <2>3, ExecutorStepRegisters
  <2>4. CASE \E i \in Instances : Crash(i)
    BY <2>4, CrashRegisters
  <2>5. QED
    BY <2>1, <2>2, <2>3, <2>4, LoopStepRegisters DEF TurnNext
<1>3. QED
  BY <1>1, <1>2, TurnInductive, PTL DEF TurnSpec

-------------------------------------------------------------------------------
(* A WORKING task is leased, while turns follow one another *)

\* Turn s is not between its first write and the end of its supervisor.
Over(s) == ~Driving(s) /\ turn[s].supervisor \in {"none", "done"}

\* A turn begins when the ones before it are over.  The code does not enforce
\* this: a supervisor clears the lease after it left the registry.
OneAtATime ==
  \A s \in Sends : BeginTurn(s) => \A r \in Sends \ {s} : Over(r)

\* No abort lands between the commit that resumes an interrupted turn and the
\* flag that says so.  The code does not exclude this either.
FlagsFollowCommits ==
  \A s \in Sends : AbortLands(s) => turn[s].stored # "Working"

Orderly == OneAtATime /\ FlagsFollowCommits

Leased == tasks[Task].lease_expires_at # NoLease
Early(s) == send[s].pc \in {"idle", "resolved"} \/ Driving(s)
Live(s) == turn[s].exec = "running"

OneTurn == \A r, s \in Sends : r # s => Over(r) \/ Over(s)

\* What the flags of turn s say of the task.
FlagsAt(s) ==
  /\ Early(s) => turn[s].exec = "none" /\ turn[s].supervisor = "none"
  /\ Live(s) => turn[s].supervisor = "awaiting"
  /\ turn[s].supervisor = "clearing" => turn[s].exec = "exited" /\ EndedTurn(s)
  /\ turn[s].terminal_committed => Settled
  /\ turn[s].stored # "none" => Live(s) /\ (Settled \/ Is(turn[s].stored))
  /\ /\ turn[s].supervisor \in {"awaiting", "clearing"}
     /\ turn[s].client_held
     /\ turn[s].stored # "Working"
     => ~Working

\* What sink s read is still the task's state, unless somebody settled it.
ReadAt(s) ==
  s \in DOMAIN snapshots =>
    /\ Live(s) /\ turn[s].stored = "none"
    /\ snapshots[s].task = Task
    /\ Settled \/ Is(snapshots[s].status)

\* From its stamp to the end of its executor a turn has the task leased.
LeaseAt(s) ==
  LeaseEnabled /\ (send[s].pc \in {"leased", "working"} \/ Live(s)) =>
    Settled \/ (Present(Task) /\ Leased)

TurnAt(s) == FlagsAt(s) /\ ReadAt(s) /\ LeaseAt(s)

ReapersClearSettled == \A i \in Instances : loop[i].reap = "clear" => Settled

LeaseInv ==
  OneTurn /\ (\A s \in Sends : TurnAt(s)) /\ ReapersClearSettled /\ WorkingIsLeased

\* The step settles the task, or leaves its state alone and its lease in place.
Calm ==
  IF Present(Task)
  THEN Settled' \/ (Present(Task)' /\ Status' = Status /\ (Leased => Leased'))
  ELSE ~Present(Task)'

SettledStays == Settled => Settled'

\* The step is none of turn s, or changes nothing the invariant reads of it.
Still(s) ==
  /\ \/ send'[s].pc = send[s].pc
     \/ send[s].pc = "idle" /\ send'[s].pc = "resolved"
     \/ send'[s].pc \notin {"idle", "resolved", "begun", "leased", "working"}
  /\ turn'[s].exec = turn[s].exec
  /\ turn'[s].stored = turn[s].stored
  /\ turn'[s].supervisor = turn[s].supervisor
  /\ turn'[s].terminal_committed = turn[s].terminal_committed
  /\ turn'[s].client_held = turn[s].client_held

KeepsRead(s) ==
  s \in DOMAIN snapshots' => s \in DOMAIN snapshots /\ snapshots'[s] = snapshots[s]

\* A turn that takes no part in a calm step keeps what is said of it.
LEMMA CalmKeeps ==
  ASSUME Calm, SettledStays, NEW s \in Sends, Still(s), KeepsRead(s), TurnAt(s)
  PROVE  TurnAt(s)'
<1>1. Early(s)' => Early(s)
  BY DEF Still, Early, Driving
<1>2. /\ Live(s)' = Live(s)
      /\ send'[s].pc \in {"leased", "working"} => send[s].pc \in {"leased", "working"}
      /\ EndedTurn(s) => EndedTurn(s)'
  BY DEF Still, Live, EndedTurn
<1>3. ASSUME NEW st, Settled \/ Is(st) PROVE Settled' \/ Is(st)'
  BY <1>3 DEF Calm, SettledStays, Is, Settled
<1>4. ~Working => ~Working'
  BY DEF Calm, Working, Settled, Terminal, Status, TERMINAL_STATES
<1>5. FlagsAt(s)'
  BY <1>1, <1>2, <1>3, <1>4 DEF TurnAt, FlagsAt, Still, SettledStays
<1>6. ReadAt(s)'
  BY <1>2, <1>3 DEF TurnAt, ReadAt, Still, KeepsRead
<1>7. LeaseAt(s)'
  BY <1>2 DEF TurnAt, LeaseAt, Calm, SettledStays, LeaseEnabled
<1>8. QED
  BY <1>5, <1>6, <1>7 DEF TurnAt

\* A turn that is over keeps it through any step that is not its own.
LEMMA OverKeeps ==
  ASSUME SettledStays, NEW s \in Sends, Still(s), KeepsRead(s), Over(s), TurnAt(s)
  PROVE  TurnAt(s)' /\ Over(s)'
<1>1. Early(s)' => Early(s)
  BY DEF Still, Early, Driving
<1>2. ~Live(s) /\ ~Live(s)' /\ s \notin DOMAIN snapshots
  BY DEF Still, Live, Over, TurnAt, FlagsAt, ReadAt
<1>3. ~Driving(s)' /\ send'[s].pc \notin {"leased", "working"}
  BY DEF Still, Over, Driving
<1>4. QED
  BY <1>1, <1>2, <1>3
  DEF TurnAt, FlagsAt, ReadAt, LeaseAt, Still, KeepsRead, Over, SettledStays, Live

LEMMA OverStays ==
  ASSUME NEW s \in Sends, Still(s), Over(s)
  PROVE  Over(s)'
  BY DEF Still, Over, Driving

\* What a calm step leaves to show besides the turns it is about.
LEMMA CalmRest ==
  ASSUME Calm, SettledStays, LeaseInv,
         \A s \in Sends : Over(s) => Over(s)',
         \A i \in Instances : loop'[i].reap = "clear" => loop[i].reap = "clear" \/ Settled'
  PROVE  OneTurn' /\ ReapersClearSettled' /\ WorkingIsLeased'
<1>1. OneTurn'
  BY DEF LeaseInv, OneTurn
<1>2. ReapersClearSettled'
  BY DEF LeaseInv, ReapersClearSettled, SettledStays
<1>3. WorkingIsLeased'
  BY DEF LeaseInv, WorkingIsLeased, Calm, Working, Leased, LeaseEnabled, Settled, Terminal,
         Status, TERMINAL_STATES
<1>4. QED
  BY <1>1, <1>2, <1>3

\* A calm step that takes no turn further.
LEMMA CalmStep ==
  ASSUME Calm, SettledStays, LeaseInv, \A s \in Sends : Still(s) /\ KeepsRead(s),
         \A i \in Instances : loop'[i].reap = "clear" => loop[i].reap = "clear" \/ Settled'
  PROVE  LeaseInv'
<1>1. \A s \in Sends : TurnAt(s)'
  BY CalmKeeps DEF LeaseInv
<1>2. \A s \in Sends : Over(s) => Over(s)'
  BY OverStays
<1>3. QED
  BY <1>1, <1>2, CalmRest DEF LeaseInv

\* A calm step of turn s.
LEMMA CalmTurn ==
  ASSUME Calm, SettledStays, LeaseInv, NEW s \in Sends,
         \A r \in Sends \ {s} : Still(r) /\ KeepsRead(r),
         TurnAt(s)', Over(s) => Over(s)', UNCHANGED loop
  PROVE  LeaseInv'
<1>1. \A r \in Sends : TurnAt(r)'
  BY CalmKeeps DEF LeaseInv
<1>2. \A r \in Sends : Over(r) => Over(r)'
  BY OverStays
<1>3. QED
  BY <1>1, <1>2, CalmRest DEF LeaseInv

\* A step of turn s while every other turn is over.
LEMMA SoleStep ==
  ASSUME SettledStays, LeaseInv, NEW s \in Sends,
         \A r \in Sends \ {s} : Over(r) /\ Still(r) /\ KeepsRead(r),
         TurnAt(s)', WorkingIsLeased', UNCHANGED loop
  PROVE  LeaseInv'
<1>1. \A r \in Sends \ {s} : TurnAt(r)' /\ Over(r)'
  BY OverKeeps DEF LeaseInv
<1>2. OneTurn'
  BY <1>1 DEF OneTurn
<1>3. ReapersClearSettled'
  BY DEF LeaseInv, ReapersClearSettled, SettledStays
<1>4. QED
  BY <1>1, <1>2, <1>3 DEF LeaseInv

-------------------------------------------------------------------------------
(* What the store calls do to the task *)

LEMMA RowIsThere ==
  ASSUME TurnInv, Present(Task)
  PROVE  Task \in DOMAIN tasks /\ tasks[Task] \in Row
  BY DEF TurnInv, IInv, TypeOK, MapOf, Present

LEMMA Sticky ==
  ASSUME TurnInv, StoreStep
  PROVE  SettledStays
  BY StoreStepKeeps DEF TurnInv, SettledStays, Settled, Terminal, Status

LEMMA TerminalIsCalm ==
  ASSUME TurnInv, NEW st \in TERMINAL_STATES, CommitTerminal(st)
  PROVE  Calm /\ Settled' /\ UNCHANGED snapshots
<1>1. Present(Task)
  BY DEF CommitTerminal, UpdateTaskStatusWithEvents, OwnedBy
<1>2. Settled'
  BY <1>1, RowIsThere
  DEF CommitTerminal, UpdateTaskStatusWithEvents, Settled, Present, Terminal, Row
<1>3. QED
  BY <1>1, <1>2 DEF Calm, CommitTerminal, UpdateTaskStatusWithEvents

LEMMA LeaseIsCalm ==
  ASSUME TurnInv, NEW e \in {"fresh", "lapsed"}, RenewExecutorLeases({Task}, e)
  PROVE  Calm /\ UNCHANGED snapshots /\ (Present(Task) => Present(Task)' /\ Leased')
<1>1. e # NoLease
  BY LeaseAssumption
<1>2. CASE Present(Task)
  <2>1. /\ Present(Task)' /\ Status' = Status
        /\ tasks'[Task].lease_expires_at = e
    BY <1>2, RowIsThere DEF RenewExecutorLeases, Present, Status, Row
  <2>2. QED
    BY <1>1, <1>2, <2>1 DEF Calm, Leased, RenewExecutorLeases
<1>3. CASE ~Present(Task)
  BY <1>3 DEF RenewExecutorLeases, Calm, Present
<1>4. QED
  BY <1>2, <1>3

LEMMA QuietIsCalm == UNCHANGED tasks => Calm
  BY DEF Calm, Present, Status, Leased

LEMMA MarkIsCalm ==
  ASSUME TurnInv,
         SetCancelRequested(Task, Owner) \/ \E i \in Items : AppendMessage(Task, Owner, i)
  PROVE  Calm /\ UNCHANGED snapshots
<1>1. Present(Task)
  BY DEF SetCancelRequested, AppendMessage, OwnedBy
<1>2. QED
  BY <1>1, RowIsThere
  DEF SetCancelRequested, AppendMessage, Calm, Present, Status, Leased, Row

-------------------------------------------------------------------------------
(* Which turns a step leaves still *)

LEMMA SameIsStill ==
  ASSUME NEW r \in Sends, send'[r] = send[r], turn'[r] = turn[r]
  PROVE  Still(r)
  BY DEF Still

LEMMA OthersStill ==
  ASSUME TurnInv, NEW s \in Sends,
         UNCHANGED send \/ \E pc, a : Goto(s, pc) \/ Answer(s, a),
         UNCHANGED turn \/ \E h : SetTurn(s, h)
  PROVE  \A r \in Sends \ {s} : Still(r)
<1>1. \A r \in Sends \ {s} : send'[r] = send[r]
  BY DEF TurnInv, SendInv, Goto, Answer
<1>2. \A r \in Sends \ {s} : turn'[r] = turn[r]
  BY DEF TurnInv, HandleInv, SetTurn
<1>3. QED
  BY <1>1, <1>2, SameIsStill

\* A request that goes on to a later place without touching its turn's flags.
LEMMA MovesStill ==
  ASSUME TurnInv, NEW s \in Sends,
         NEW pc \in {"waiting", "polling", "cooperative", "expired", "done"},
         Goto(s, pc) \/ \E a : pc = "done" /\ Answer(s, a),
         \/ UNCHANGED turn
         \/ SetTurn(s, [turn[s] EXCEPT !.cancelled = TRUE])
         \/ SetTurn(s, [turn[s] EXCEPT !.cancelled = TRUE, !.aborting = TRUE])
  PROVE  \A r \in Sends : Still(r)
<1>1. send'[s].pc = pc
  BY DEF TurnInv, SendInv, Send, Goto, Answer
<1>2. /\ turn'[s].exec = turn[s].exec
      /\ turn'[s].stored = turn[s].stored
      /\ turn'[s].supervisor = turn[s].supervisor
      /\ turn'[s].terminal_committed = turn[s].terminal_committed
      /\ turn'[s].client_held = turn[s].client_held
  <2>1. turn[s] \in Handle /\ turn \in [Sends -> Handle]
    BY DEF TurnInv, HandleInv
  <2>2. CASE UNCHANGED turn
    BY <2>2
  <2>3. CASE SetTurn(s, [turn[s] EXCEPT !.cancelled = TRUE])
    BY <2>1, <2>3 DEF Handle, SetTurn
  <2>4. CASE SetTurn(s, [turn[s] EXCEPT !.cancelled = TRUE, !.aborting = TRUE])
    BY <2>1, <2>4 DEF Handle, SetTurn
  <2>5. QED
    BY <2>2, <2>3, <2>4
<1>3. Still(s)
  BY <1>1, <1>2 DEF Still
<1>4. UNCHANGED send \/ \E p, a : Goto(s, p) \/ Answer(s, a)
  OBVIOUS
<1>5. UNCHANGED turn \/ \E h : SetTurn(s, h)
  OBVIOUS
<1>6. QED
  BY <1>3, <1>4, <1>5, OthersStill

LEMMA TripStill ==
  ASSUME TurnInv, NEW s \in Sends \cup {NoTurn}, Trip(s), UNCHANGED send
  PROVE  \A r \in Sends : Still(r)
<1>1. CASE s = NoTurn
  BY <1>1, SameIsStill DEF Trip
<1>2. CASE s \in Sends
  <2>1. turn[s] \in Handle
    BY <1>2 DEF TurnInv, HandleInv
  <2>2. turn' = [turn EXCEPT ![s] = CancelThenAbort(turn[s])]
    BY <1>2, TurnAssumption DEF Trip, SetTurn
  <2>3. \A r \in Sends : /\ turn'[r].exec = turn[r].exec
                         /\ turn'[r].stored = turn[r].stored
                         /\ turn'[r].supervisor = turn[r].supervisor
                         /\ turn'[r].terminal_committed = turn[r].terminal_committed
                         /\ turn'[r].client_held = turn[r].client_held
    BY <1>2, <2>1, <2>2 DEF TurnInv, HandleInv, CancelThenAbort, Handle
  <2>4. QED
    BY <2>3 DEF Still
<1>3. QED
  BY <1>1, <1>2

LEMMA ReadsKept == UNCHANGED snapshots => \A r \in Sends : KeepsRead(r)
  BY DEF KeepsRead

LEMMA ReapersSame ==
  UNCHANGED loop =>
    \A i \in Instances : loop'[i].reap = "clear" => loop[i].reap = "clear" \/ Settled'
  OBVIOUS

-------------------------------------------------------------------------------
(* The steps *)

LEMMA SendKeepsLease ==
  ASSUME TurnInv, LeaseInv, StoreStep, OneAtATime, NEW s \in Sends,
         ResolveNew(s) \/ ResolveFollowUp(s) \/ Start(s) \/ Wait(s) \/ RequestDropped(s)
  PROVE  LeaseInv'
<1>a. SettledStays /\ TurnAt(s) /\ send[s] \in Send /\ turn[s] \in Handle
  BY Sticky DEF LeaseInv, TurnInv, SendInv, HandleInv
<1>1. CASE ResolveNew(s) \/ ResolveFollowUp(s)
  <2>1. \/ send' = [send EXCEPT ![s].pc = "resolved"]
        \/ send' = [send EXCEPT ![s].pc = "resolved", ![s].follows = TRUE]
        \/ Answer(s, "refused")
    BY <1>1 DEF ResolveNew, ResolveFollowUp
  <2>2. send[s].pc = "idle" /\ UNCHANGED <<vars, turn, loop>>
    BY <1>1 DEF ResolveNew, ResolveFollowUp
  <2>3. \A r \in Sends : Still(r)
    BY <2>1, <2>2 DEF Answer, Still, TurnInv, SendInv, Send
  <2>4. Calm /\ UNCHANGED snapshots
    BY <2>2, QuietIsCalm DEF vars
  <2>5. QED
    BY <1>a, <2>2, <2>3, <2>4, ReadsKept, ReapersSame, CalmStep
<1>2. CASE \/ CommitWorkingRefused(s) \/ SpawnCollides(s) \/ RequestDropped(s)
           \/ Yielded(s) \/ CancelSeen(s) \/ PollSeesTerminal(s)
           \/ SoftDeadline(s) \/ HardDeadline(s)
  <2>1. \A r \in Sends : Still(r)
    <3>1. CASE \/ CommitWorkingRefused(s) \/ SpawnCollides(s) \/ RequestDropped(s)
               \/ Yielded(s) \/ PollSeesTerminal(s)
      <4>1. UNCHANGED turn /\ \E a : Answer(s, a)
        BY <3>1 DEF CommitWorkingRefused, SpawnCollides, RequestDropped, Yielded,
                    PollSeesTerminal
      <4>2. QED
        BY <4>1, MovesStill
    <3>2. CASE CancelSeen(s)
      BY <3>2, MovesStill DEF CancelSeen
    <3>3. CASE SoftDeadline(s)
      BY <3>3, MovesStill DEF SoftDeadline
    <3>4. CASE HardDeadline(s)
      BY <3>4, MovesStill DEF HardDeadline
    <3>5. QED
      BY <1>2, <3>1, <3>2, <3>3, <3>4
  <2>2. UNCHANGED <<vars, loop>>
    BY <1>2 DEF CommitWorkingRefused, SpawnCollides, RequestDropped, Yielded, CancelSeen,
                PollSeesTerminal, SoftDeadline, HardDeadline
  <2>3. Calm /\ UNCHANGED snapshots
    BY <2>2, QuietIsCalm DEF vars
  <2>4. QED
    BY <1>a, <2>1, <2>2, <2>3, ReadsKept, ReapersSame, CalmStep
<1>3. CASE ForceFailed(s)
  <2>1. Calm /\ UNCHANGED snapshots
    BY <1>3, TerminalIsCalm, QuietIsCalm, StatesAreStates DEF ForceFailed, vars
  <2>2. UNCHANGED <<turn, loop>> /\ \E a : Answer(s, a)
    BY <1>3 DEF ForceFailed
  <2>3. \A r \in Sends : Still(r)
    BY <2>2, MovesStill
  <2>4. QED
    BY <1>a, <2>1, <2>2, <2>3, ReadsKept, ReapersSame, CalmStep
<1>4. CASE BeginTurn(s)
  <2>1. \A r \in Sends \ {s} : Over(r) /\ Still(r)
    BY <1>4, OthersStill DEF OneAtATime, BeginTurn
  <2>2. /\ send'[s].pc = "begun" /\ send[s].pc = "resolved"
        /\ UNCHANGED <<turn, loop>>
    BY <1>4 DEF BeginTurn, Goto, TurnInv, SendInv, Send
  <2>3. UNCHANGED snapshots
    BY <1>4 DEF BeginTurn, AppendMessage, CreateTaskWithEvents
  <2>4. TurnAt(s)'
    <3>1. turn[s].exec = "none" /\ turn[s].supervisor = "none"
      BY <1>a, <2>2 DEF TurnAt, FlagsAt, Early
    <3>2. FlagsAt(s)'
      BY <1>a, <2>2, <3>1 DEF TurnAt, FlagsAt, Live, SettledStays
    <3>3. ReadAt(s)' /\ LeaseAt(s)'
      BY <1>a, <2>2, <2>3, <3>1 DEF TurnAt, ReadAt, LeaseAt, Live
    <3>4. QED
      BY <3>2, <3>3 DEF TurnAt
  <2>5. WorkingIsLeased'
    <3>1. CASE CreateTaskWithEvents(Task, Owner, s)
      BY <3>1 DEF CreateTaskWithEvents, Put, WorkingIsLeased, Working, Status
    <3>2. CASE AppendMessage(Task, Owner, s)
      <4>1. Status' = Status /\ (Leased => Leased') /\ Present(Task)
        BY <3>2, RowIsThere DEF AppendMessage, OwnedBy, Status, Leased, Row
      <4>2. QED
        BY <4>1 DEF LeaseInv, WorkingIsLeased, Working, Leased, LeaseEnabled
    <3>3. QED
      BY <1>4, <3>1, <3>2 DEF BeginTurn
  <2>6. QED
    BY <1>a, <2>1, <2>2, <2>3, <2>4, <2>5, ReadsKept, SoleStep
<1>5. CASE StampLease(s)
  <2>1. /\ send'[s].pc = "leased" /\ send[s].pc = "begun"
        /\ UNCHANGED <<turn, loop>>
    BY <1>5 DEF StampLease, Goto, TurnInv, SendInv, Send
  <2>2. \A r \in Sends \ {s} : Still(r)
    BY <1>5, OthersStill DEF StampLease
  <2>3. Present(Task)
    BY <2>1 DEF TurnInv, SendInv, Driving
  <2>4. Calm /\ UNCHANGED snapshots /\ (LeaseEnabled => Present(Task)' /\ Leased')
    BY <1>5, <2>3, LeaseIsCalm, QuietIsCalm DEF StampLease, vars
  <2>5. TurnAt(s)'
    <3>1. turn[s].exec = "none" /\ turn[s].supervisor = "none"
      BY <1>a, <2>1 DEF TurnAt, FlagsAt, Early, Driving
    <3>2. FlagsAt(s)'
      BY <1>a, <2>1, <3>1 DEF TurnAt, FlagsAt, Live, SettledStays
    <3>3. ReadAt(s)' /\ LeaseAt(s)'
      BY <1>a, <2>1, <2>4, <3>1 DEF TurnAt, ReadAt, LeaseAt, Live, LeaseEnabled
    <3>4. QED
      BY <3>2, <3>3 DEF TurnAt
  <2>6. ~Over(s)
    BY <2>1 DEF Over, Driving
  <2>7. QED
    BY <1>a, <2>1, <2>2, <2>4, <2>5, <2>6, ReadsKept, CalmTurn
<1>6. CASE CommitWorking(s)
  <2>1. /\ send'[s].pc = "working" /\ send[s].pc = "leased"
        /\ UNCHANGED <<turn, loop>>
    BY <1>6 DEF CommitWorking, Goto, TurnInv, SendInv, Send
  <2>2. \A r \in Sends \ {s} : Over(r) /\ Still(r)
    <3>1. ~Over(s)
      BY <2>1 DEF Over, Driving
    <3>2. QED
      BY <1>6, <3>1, OthersStill DEF CommitWorking, LeaseInv, OneTurn
  <2>3. Present(Task) /\ ~Settled /\ UNCHANGED snapshots
    BY <1>6, TransitionFacts
    DEF CommitWorking, UpdateTaskStatusWithEvents, OwnedBy, Settled, Terminal
  <2>4. Present(Task)' /\ (Leased => Leased')
    BY <1>6, <2>3, RowIsThere
    DEF CommitWorking, UpdateTaskStatusWithEvents, Present, Leased, Row
  <2>5. LeaseEnabled => Leased
    BY <1>a, <2>1, <2>3 DEF TurnAt, LeaseAt
  <2>6. TurnAt(s)'
    <3>1. turn[s].exec = "none" /\ turn[s].supervisor = "none"
      BY <1>a, <2>1 DEF TurnAt, FlagsAt, Early, Driving
    <3>2. FlagsAt(s)'
      BY <1>a, <2>1, <3>1 DEF TurnAt, FlagsAt, Live, SettledStays
    <3>3. ReadAt(s)' /\ LeaseAt(s)'
      BY <1>a, <2>1, <2>3, <2>4, <2>5, <3>1 DEF TurnAt, ReadAt, LeaseAt, Live, LeaseEnabled
    <3>4. QED
      BY <3>2, <3>3 DEF TurnAt
  <2>7. WorkingIsLeased'
    BY <2>4, <2>5 DEF WorkingIsLeased, LeaseEnabled, Leased
  <2>8. QED
    BY <1>a, <2>1, <2>2, <2>3, <2>6, <2>7, ReadsKept, SoleStep
<1>7. CASE Spawn(s)
  <2>1. /\ send'[s].pc \in {"waiting", "done"} /\ send[s].pc = "working"
        /\ UNCHANGED <<vars, loop>>
        /\ turn'[s] = NewHandle
    BY <1>7 DEF Spawn, Goto, Answer, SetTurn, TurnInv, SendInv, HandleInv, Send
  <2>2. \A r \in Sends \ {s} : Still(r)
    <3>1. \E pc, a : Goto(s, pc) \/ Answer(s, a)
      BY <1>7 DEF Spawn
    <3>2. QED
      BY <1>7, <3>1, OthersStill DEF Spawn
  <2>3. Calm /\ UNCHANGED snapshots
    BY <2>1, QuietIsCalm DEF vars
  <2>4. TurnAt(s)'
    <3>1. turn[s].exec = "none"
      BY <1>a, <2>1 DEF TurnAt, FlagsAt, Early, Driving
    <3>2. FlagsAt(s)'
      BY <2>1 DEF FlagsAt, Live, Early, Driving, NewHandle
    <3>3. ReadAt(s)'
      BY <1>a, <2>3, <3>1 DEF TurnAt, ReadAt, Live
    <3>4. LeaseAt(s)'
      BY <1>a, <2>1, <2>3 DEF TurnAt, LeaseAt, vars, Settled, Present, Terminal, Leased,
                              LeaseEnabled
    <3>5. QED
      BY <3>2, <3>3, <3>4 DEF TurnAt
  <2>5. ~Over(s)
    BY <2>1 DEF Over, Driving
  <2>6. QED
    BY <1>a, <2>1, <2>2, <2>3, <2>4, <2>5, ReadsKept, CalmTurn
<1>8. QED
  BY <1>1, <1>2, <1>3, <1>4, <1>5, <1>6, <1>7 DEF Start, Wait

LEMMA ExecutorKeepsLease ==
  ASSUME TurnInv, LeaseInv, StoreStep, FlagsFollowCommits, NEW s \in Sends,
         Executor(s) \/ SinkAnswered(s) \/ AbortLands(s)
  PROVE  LeaseInv'
<1>a. SettledStays /\ TurnAt(s) /\ turn[s] \in Handle
  BY Sticky DEF LeaseInv, TurnInv, HandleInv
<1>b. /\ Live(s)
      /\ UNCHANGED <<send, loop>>
  BY DEF Executor, SinkCommits, SinkRefused, ExecutorReturns, PostExecuteLost, ArtifactRead,
         ArtifactWrite, ArtifactRefused, SinkAnswered, AbortLands, SinkReady, Live
<1>c. /\ turn[s].supervisor = "awaiting" /\ ~Over(s)
      /\ ~Early(s)' /\ send'[s].pc \notin {"leased", "working"}
  BY <1>a, <1>b DEF TurnAt, FlagsAt, Live, Over, Early, Driving
<1>d. \A r \in Sends \ {s} : Over(r)
  BY <1>c DEF LeaseInv, OneTurn
<1>e. \A r \in Sends \ {s} : Still(r)
  <2>1. UNCHANGED turn \/ \E h : SetTurn(s, h)
    BY DEF Executor, SinkCommits, SinkRefused, ExecutorReturns, PostExecuteLost,
           ArtifactRead, ArtifactWrite, ArtifactRefused, SinkAnswered, AbortLands, Exits
  <2>2. QED
    BY <1>b, <2>1, OthersStill
<1>1. CASE \E st \in TaskState, b \in BOOLEAN : SinkCommits(s, st, b)
  <2>1. PICK st \in TaskState, b \in BOOLEAN : SinkCommits(s, st, b)
    BY <1>1
  <2>2. /\ turn[s].stored = "none" /\ s \notin DOMAIN snapshots
        /\ UpdateTaskStatusWithEvents(Task, Owner, st)
        /\ turn' = [turn EXCEPT ![s] = [turn[s] EXCEPT !.stored = st, !.returning = b]]
    BY <2>1 DEF SinkCommits, SinkReady, SetTurn
  <2>3. Present(Task) /\ ~Settled /\ UNCHANGED snapshots
    BY <2>2, TransitionFacts DEF UpdateTaskStatusWithEvents, OwnedBy, Settled, Terminal
  <2>4. /\ Present(Task)' /\ Status' = st
        /\ Leased => Leased'
    BY <2>2, <2>3, RowIsThere DEF UpdateTaskStatusWithEvents, Present, Status, Leased, Row
  <2>5. LeaseEnabled => Leased
    BY <1>a, <1>b, <2>3 DEF TurnAt, LeaseAt
  <2>6. /\ turn'[s].stored = st /\ turn'[s].exec = turn[s].exec
        /\ turn'[s].supervisor = turn[s].supervisor
        /\ turn'[s].terminal_committed = turn[s].terminal_committed
        /\ turn'[s].client_held = turn[s].client_held
    BY <1>a, <2>2 DEF Handle, TurnInv, HandleInv
  <2>7. FlagsAt(s)'
    BY <1>a, <1>b, <1>c, <2>3, <2>4, <2>6
    DEF TurnAt, FlagsAt, Live, Is, Working, Settled
  <2>8. ReadAt(s)' /\ LeaseAt(s)'
    BY <2>2, <2>3, <2>4, <2>5 DEF ReadAt, LeaseAt, LeaseEnabled
  <2>9. WorkingIsLeased'
    BY <2>4, <2>5 DEF WorkingIsLeased, LeaseEnabled, Leased
  <2>10. QED
    BY <1>a, <1>b, <1>d, <1>e, <2>3, <2>7, <2>8, <2>9, ReadsKept, SoleStep DEF TurnAt
<1>2. CASE \/ \E b \in BOOLEAN : SinkRefused(s, b)
           \/ ExecutorReturns(s) \/ PostExecuteLost(s)
  <2>1. /\ turn[s].stored = "none" /\ s \notin DOMAIN snapshots
        /\ UNCHANGED vars
    BY <1>2 DEF SinkRefused, ExecutorReturns, PostExecuteLost, SinkReady
  <2>2. /\ turn'[s].stored = "none" /\ turn'[s].exec \in {"running", "exited"}
        /\ turn'[s].supervisor = turn[s].supervisor
        /\ turn'[s].terminal_committed = turn[s].terminal_committed
        /\ turn'[s].client_held = turn[s].client_held
    <3>1. CASE \E b \in BOOLEAN : SinkRefused(s, b)
      BY <1>a, <2>1, <3>1 DEF SinkRefused, SetTurn, Handle, TurnInv, HandleInv
    <3>2. CASE ExecutorReturns(s) \/ PostExecuteLost(s)
      BY <1>a, <2>1, <3>2 DEF ExecutorReturns, PostExecuteLost, Exits, SetTurn, Handle,
                              TurnInv, HandleInv
    <3>3. QED
      BY <1>2, <3>1, <3>2
  <2>3. Calm /\ UNCHANGED snapshots
    BY <2>1, QuietIsCalm DEF vars
  <2>4. ~Working => ~Working'
    BY <2>1 DEF vars, Working, Present, Status
  <2>5. FlagsAt(s)'
    BY <1>a, <1>c, <2>1, <2>2, <2>4 DEF TurnAt, FlagsAt, Live, SettledStays
  <2>6. LeaseAt(s)'
    BY <1>a, <1>b, <1>c, <2>1
    DEF TurnAt, LeaseAt, LeaseEnabled, vars, Settled, Present, Terminal, Leased
  <2>7. ReadAt(s)'
    BY <2>1, <2>3 DEF ReadAt
  <2>8. QED
    BY <1>a, <1>b, <1>c, <1>e, <2>3, <2>5, <2>6, <2>7, ReadsKept, CalmTurn DEF TurnAt
<1>3. CASE ArtifactRead(s)
  <2>1. /\ s \notin DOMAIN snapshots /\ GetTask(s, Task, Owner)
        /\ UNCHANGED <<tasks, turn>> /\ turn[s].stored = "none"
    BY <1>3 DEF ArtifactRead, SinkReady, GetTask
  <2>2. Calm /\ \A r \in Sends \ {s} : KeepsRead(r)
    BY <2>1, QuietIsCalm DEF GetTask, Put, KeepsRead
  <2>3. Present(Task) /\ s \in DOMAIN snapshots'
        /\ snapshots'[s].task = Task /\ snapshots'[s].status = Status
    BY <2>1 DEF GetTask, OwnedBy, Put, Status
  <2>4. ReadAt(s)'
    BY <1>b, <2>1, <2>3 DEF ReadAt, Live, Is, Present, Status
  <2>5. ~Working => ~Working'
    BY <2>1 DEF Working, Present, Status
  <2>6. FlagsAt(s)'
    BY <1>a, <1>b, <1>c, <2>1, <2>5 DEF TurnAt, FlagsAt, Live, SettledStays, EndedTurn
  <2>7. LeaseAt(s)'
    BY <1>a, <1>b, <1>c, <2>1
    DEF TurnAt, LeaseAt, LeaseEnabled, Settled, Present, Terminal, Leased
  <2>8. QED
    BY <1>a, <1>b, <1>c, <1>e, <2>2, <2>4, <2>6, <2>7, CalmTurn DEF TurnAt
<1>4. CASE \E a \in Artifacts : ArtifactWrite(s, a)
  <2>1. PICK a \in Artifacts : UpdateTaskWithEvents(s, a) /\ UNCHANGED turn
    BY <1>4 DEF ArtifactWrite
  <2>2. /\ s \in DOMAIN snapshots /\ snapshots[s].task = Task
        /\ Present(Task) /\ ~Settled /\ snapshots[s].status = Status
        /\ turn[s].stored = "none"
    BY <1>a, <2>1 DEF TurnAt, ReadAt, UpdateTaskWithEvents, OwnedBy, Settled, Is
  <2>3. Present(Task)' /\ Status' = Status /\ (Leased => Leased')
    BY <2>1, <2>2, RowIsThere DEF UpdateTaskWithEvents, Present, Status, Leased, Row
  <2>4. Calm
    BY <2>2, <2>3 DEF Calm
  <2>5. s \notin DOMAIN snapshots' /\ \A r \in Sends \ {s} : KeepsRead(r)
    BY <2>1 DEF UpdateTaskWithEvents, Drop, KeepsRead
  <2>6. FlagsAt(s)'
    BY <1>a, <1>b, <1>c, <2>1, <2>2, <2>3
    DEF TurnAt, FlagsAt, Live, SettledStays, Working, EndedTurn
  <2>7. ReadAt(s)' /\ LeaseAt(s)'
    BY <1>a, <1>b, <2>2, <2>3, <2>5 DEF TurnAt, ReadAt, LeaseAt, LeaseEnabled
  <2>8. QED
    BY <1>a, <1>b, <1>c, <1>e, <2>4, <2>5, <2>6, <2>7, CalmTurn DEF TurnAt
<1>5. CASE ArtifactRefused(s)
  <2>1. /\ UNCHANGED tasks /\ s \in DOMAIN snapshots
        /\ snapshots' = Drop(snapshots, s)
    BY <1>5 DEF ArtifactRefused, UpdateTaskWithEventsRefused
  <2>2. Calm /\ s \notin DOMAIN snapshots' /\ \A r \in Sends : KeepsRead(r)
    BY <2>1, QuietIsCalm DEF Drop, KeepsRead
  <2>3. Still(s)
    BY <1>a, <1>5 DEF ArtifactRefused, SetTurn, Handle, Still, TurnInv, HandleInv
  <2>4. QED
    BY <1>a, <1>b, <1>e, <2>2, <2>3, ReapersSame, CalmStep
<1>6. CASE SinkAnswered(s)
  <2> DEFINE st == turn[s].stored
             final == st \in TERMINAL_STATES
             held == st \in CLIENT_HELD_STATES
  <2>1. /\ st # "none" /\ UNCHANGED vars
        /\ Settled \/ Is(st)
        /\ s \notin DOMAIN snapshots
    BY <1>a, <1>6 DEF SinkAnswered, TurnAt, FlagsAt, ReadAt
  <2>2. turn' = [turn EXCEPT ![s] = AfterCommit(turn[s])]
    BY <1>6 DEF SinkAnswered, SetTurn
  <2>3. /\ turn'[s].stored = "none" /\ turn'[s].exec \in {"running", "exited"}
        /\ turn'[s].supervisor = turn[s].supervisor
        /\ turn'[s].terminal_committed = (turn[s].terminal_committed \/ final)
        /\ turn'[s].client_held = held
    <3>1. turn'[s] = AfterCommit(turn[s])
      BY <2>2 DEF TurnInv, HandleInv
    <3>2. turn[s].exec = "running"
      BY <1>b DEF Live
    <3>3. QED
      BY <1>a, <3>1, <3>2 DEF AfterCommit, Handle
  <2>4. Calm /\ UNCHANGED snapshots
    BY <2>1, QuietIsCalm DEF vars
  <2>5. Settled' = Settled /\ Working' = Working
    BY <2>1 DEF vars, Settled, Terminal, Working, Present, Status
  <2>6. final => Settled
    BY <2>1 DEF Is, Settled, Terminal, Status
  <2>7. held => ~Working
    BY <2>1 DEF Is, Settled, Terminal, Working, Status, CLIENT_HELD_STATES, TERMINAL_STATES
  <2> HIDE DEF st, final, held
  <2>8. FlagsAt(s)'
    BY <1>a, <1>c, <2>3, <2>5, <2>6, <2>7 DEF TurnAt, FlagsAt, Live
  <2>9. ReadAt(s)' /\ LeaseAt(s)'
    BY <1>a, <1>b, <1>c, <2>1, <2>4, <2>5
    DEF TurnAt, ReadAt, LeaseAt, LeaseEnabled, vars, Present, Leased
  <2>10. QED
    BY <1>a, <1>b, <1>c, <1>e, <2>4, <2>8, <2>9, ReadsKept, CalmTurn DEF TurnAt
<1>7. CASE AbortLands(s)
  <2>1. /\ turn' = [turn EXCEPT ![s] = [turn[s] EXCEPT !.exec = "exited", !.stored = "none"]]
        /\ SinksDropped({s}) /\ UNCHANGED tasks
    BY <1>7 DEF AbortLands, SetTurn, SinksDropped
  <2>2. turn[s].stored # "Working"
    BY <1>7 DEF FlagsFollowCommits
  <2>3. /\ turn'[s].stored = "none" /\ turn'[s].exec = "exited"
        /\ turn'[s].supervisor = turn[s].supervisor
        /\ turn'[s].terminal_committed = turn[s].terminal_committed
        /\ turn'[s].client_held = turn[s].client_held
    BY <1>a, <2>1 DEF Handle, TurnInv, HandleInv
  <2>4. Calm /\ s \notin DOMAIN snapshots' /\ \A r \in Sends \ {s} : KeepsRead(r)
    BY <2>1, QuietIsCalm DEF SinksDropped, KeepsRead
  <2>5. Settled' = Settled /\ Working' = Working
    BY <2>1 DEF Settled, Terminal, Working, Present, Status
  <2>6. FlagsAt(s)'
    BY <1>a, <1>c, <2>2, <2>3, <2>5 DEF TurnAt, FlagsAt, Live
  <2>7. ReadAt(s)' /\ LeaseAt(s)'
    BY <1>c, <2>3, <2>4 DEF ReadAt, LeaseAt, Live
  <2>8. QED
    BY <1>a, <1>b, <1>c, <1>e, <2>4, <2>6, <2>7, CalmTurn DEF TurnAt
<1>8. QED
  BY <1>1, <1>2, <1>3, <1>4, <1>5, <1>6, <1>7 DEF Executor

LEMMA SupervisorKeepsLease ==
  ASSUME TurnInv, LeaseInv, StoreStep, NEW s \in Sends, AbortTimer(s) \/ Supervisor(s)
  PROVE  LeaseInv'
<1>a. SettledStays /\ TurnAt(s) /\ turn[s] \in Handle
  BY Sticky DEF LeaseInv, TurnInv, HandleInv
<1>1. CASE AbortTimer(s)
  <2>1. UNCHANGED <<vars, send, loop>>
    BY <1>1 DEF AbortTimer
  <2>2. \A r \in Sends : Still(r)
    <3>1. Still(s)
      BY <1>a, <1>1 DEF AbortTimer, SetTurn, Handle, Still, TurnInv, HandleInv
    <3>2. \A r \in Sends \ {s} : Still(r)
      BY <1>1, OthersStill DEF AbortTimer
    <3>3. QED
      BY <3>1, <3>2
  <2>3. Calm /\ UNCHANGED snapshots
    BY <2>1, QuietIsCalm DEF vars
  <2>4. QED
    BY <1>a, <2>1, <2>2, <2>3, ReadsKept, ReapersSame, CalmStep
<1>2. CASE SupervisorLeaves(s)
  <2>1. PICK p \in {"clearing", "done"} :
          /\ turn' = [turn EXCEPT ![s] = [turn[s] EXCEPT !.supervisor = p]]
          /\ p = "clearing" => EndedTurn(s)
    BY <1>2 DEF SupervisorLeaves, SetTurn
  <2>2. /\ turn[s].supervisor = "awaiting" /\ turn[s].exec = "exited"
        /\ UNCHANGED <<vars, send, loop>>
    BY <1>2 DEF SupervisorLeaves
  <2>3. /\ turn'[s].supervisor = p
        /\ turn'[s].exec = turn[s].exec /\ turn'[s].stored = turn[s].stored
        /\ turn'[s].terminal_committed = turn[s].terminal_committed
        /\ turn'[s].client_held = turn[s].client_held
    BY <1>a, <2>1 DEF Handle, TurnInv, HandleInv
  <2>4. Calm /\ UNCHANGED snapshots /\ Settled' = Settled /\ Working' = Working
    BY <2>2, QuietIsCalm DEF vars, Settled, Terminal, Working, Present, Status
  <2>5. \A r \in Sends \ {s} : Still(r)
    BY <1>2, OthersStill DEF SupervisorLeaves
  <2>6. turn[s].stored = "none" /\ ~Early(s) /\ s \notin DOMAIN snapshots
    BY <1>a, <2>2 DEF TurnAt, FlagsAt, ReadAt, Live
  <2>7. FlagsAt(s)'
    BY <1>a, <2>1, <2>2, <2>3, <2>4, <2>6 DEF TurnAt, FlagsAt, Live, Early, Driving, EndedTurn
  <2>8. ReadAt(s)' /\ LeaseAt(s)'
    BY <2>2, <2>3, <2>4, <2>6 DEF ReadAt, LeaseAt, Live, Early, Driving
  <2>9. ~Over(s)
    BY <2>2 DEF Over
  <2>10. QED
    BY <1>a, <2>2, <2>4, <2>5, <2>7, <2>8, <2>9, ReadsKept, CalmTurn DEF TurnAt
<1>3. CASE SupervisorClears(s)
  <2>1. /\ turn' = [turn EXCEPT ![s] = [turn[s] EXCEPT !.supervisor = "done"]]
        /\ turn[s].supervisor = "clearing"
        /\ RenewExecutorLeases({Task}, NoLease)
        /\ UNCHANGED <<send, loop>>
    BY <1>3 DEF SupervisorClears, SetTurn
  <2>2. /\ turn'[s].supervisor = "done"
        /\ turn'[s].exec = turn[s].exec /\ turn'[s].stored = turn[s].stored
        /\ turn'[s].terminal_committed = turn[s].terminal_committed
        /\ turn'[s].client_held = turn[s].client_held
    BY <1>a, <2>1 DEF Handle, TurnInv, HandleInv
  <2>3. /\ turn[s].exec = "exited" /\ turn[s].stored = "none" /\ ~Early(s)
        /\ s \notin DOMAIN snapshots
        /\ ~Working
    BY <1>a, <2>1
    DEF TurnAt, FlagsAt, ReadAt, Live, EndedTurn, Settled, Terminal, Working, Status,
        TERMINAL_STATES
  <2>4. \A r \in Sends \ {s} : Over(r) /\ Still(r)
    <3>1. ~Over(s)
      BY <2>1 DEF Over
    <3>2. QED
      BY <1>3, <3>1, OthersStill DEF SupervisorClears, LeaseInv, OneTurn
  <2>5. ~Working' /\ UNCHANGED snapshots
    <3>1. CASE Present(Task)
      BY <2>1, <2>3, <3>1, RowIsThere DEF RenewExecutorLeases, Working, Status, Present, Row
    <3>2. CASE ~Present(Task)
      BY <2>1, <3>2 DEF RenewExecutorLeases, Working, Present
    <3>3. QED
      BY <2>1, <3>1, <3>2 DEF RenewExecutorLeases
  <2>6. TurnAt(s)'
    BY <1>a, <2>1, <2>2, <2>3, <2>5
    DEF TurnAt, FlagsAt, ReadAt, LeaseAt, Live, Early, Driving, SettledStays
  <2>7. WorkingIsLeased'
    BY <2>5 DEF WorkingIsLeased
  <2>8. QED
    BY <1>a, <2>1, <2>4, <2>5, <2>6, <2>7, ReadsKept, SoleStep
<1>4. QED
  BY <1>1, <1>2, <1>3 DEF Supervisor

LEMMA CancelKeepsLease ==
  ASSUME TurnInv, LeaseInv, StoreStep, NEW c \in Cancels, CancelCall(c)
  PROVE  LeaseInv'
<1>1. SettledStays /\ UNCHANGED <<send, loop>>
  BY Sticky DEF CancelCall, CancelMarks, CancelTrips, CancelEnds
<1>2. Calm /\ UNCHANGED snapshots
  BY MarkIsCalm, TerminalIsCalm, QuietIsCalm, StatesAreStates
  DEF CancelCall, CancelMarks, CancelTrips, CancelEnds, vars
<1>3. \A r \in Sends : Still(r)
  <2>1. in_flight[cancel[c].at] \in Sends \cup {NoTurn}
    BY DEF TurnInv, CancelInv, Cancel, RegistryType
  <2>2. UNCHANGED turn \/ Trip(in_flight[cancel[c].at])
    BY DEF CancelCall, CancelMarks, CancelTrips, CancelEnds
  <2>3. QED
    BY <1>1, <2>1, <2>2, TripStill, SameIsStill
<1>4. QED
  BY <1>1, <1>2, <1>3, ReadsKept, ReapersSame, CalmStep

LEMMA LoopKeepsLease ==
  ASSUME TurnInv, LeaseInv, StoreStep,
         \/ \E i \in Instances : CancelPoll(i) \/ Renew(i) \/ Reap(i) \/ Stall(i) \/ Idle(i)
         \/ LeaseLapses
  PROVE  LeaseInv'
<1>1. SettledStays /\ UNCHANGED send
  BY Sticky
  DEF CancelPoll, Renew, RenewSnapshot, RenewStamp, Reap, ReapList, ReapCommit, ReapClear,
      Stall, StallList, StallCommit, Idle, IdleList, IdleCommit, LeaseLapses
<1>2. \A r \in Sends : Still(r)
  <2>1. \A i \in Instances : in_flight[i] \in Sends \cup {NoTurn}
                             /\ loop[i].stall \in Sends \cup {NoTurn}
    BY DEF TurnInv, RegistryType, LoopType, Loop
  <2>2. UNCHANGED turn \/ \E r \in Sends \cup {NoTurn} : Trip(r)
    BY <2>1
    DEF CancelPoll, Renew, RenewSnapshot, RenewStamp, Reap, ReapList, ReapCommit,
        ReapClear, Stall, StallList, StallCommit, Idle, IdleList, IdleCommit, LeaseLapses
  <2>3. QED
    BY <1>1, <2>2, TripStill, SameIsStill
<1>3. CASE \E i \in Instances : ReapCommit(i)
  <2>1. PICK i \in Instances : ReapCommit(i)
    BY <1>3
  <2>2. Calm /\ Settled' /\ UNCHANGED snapshots
    BY <2>1, TerminalIsCalm, QuietIsCalm, StatesAreStates
    DEF ReapCommit, vars, Settled, Present, Terminal
  <2>3. QED
    BY <1>1, <1>2, <2>2, ReadsKept, CalmStep
<1>4. CASE \E i \in Instances : ReapClear(i)
  <2>1. PICK i \in Instances : ReapClear(i)
    BY <1>4
  <2>2. loop[i].reap = "clear" /\ UNCHANGED snapshots
        /\ loop' = [loop EXCEPT ![i].reap = "none"]
    BY <2>1 DEF ReapClear, RenewExecutorLeases
  <2>3. Settled'
    BY <1>1, <2>2 DEF LeaseInv, ReapersClearSettled, SettledStays
  <2>4. Calm
    BY <1>1, <2>2, <2>3 DEF Calm, LeaseInv, ReapersClearSettled, Settled
  <2>5. QED
    BY <1>1, <1>2, <2>2, <2>3, <2>4, ReadsKept, CalmStep
<1>5. CASE \/ \E i \in Instances : CancelPoll(i) \/ Renew(i) \/ ReapList(i) \/ Stall(i) \/ Idle(i)
           \/ LeaseLapses
  <2>1. Calm /\ UNCHANGED snapshots
    BY <1>5, LeaseIsCalm, TerminalIsCalm, QuietIsCalm, StatesAreStates
    DEF CancelPoll, Renew, RenewSnapshot, RenewStamp, ReapList, Stall, StallList,
        StallCommit, Idle, IdleList, IdleCommit, LeaseLapses, vars
  <2>2. \A j \in Instances : loop'[j].reap = "clear" => loop[j].reap = "clear"
    BY <1>5
    DEF CancelPoll, Renew, RenewSnapshot, RenewStamp, ReapList, Stall, StallList,
        StallCommit, Idle, IdleList, IdleCommit, LeaseLapses, TurnInv, LoopType, Loop
  <2>3. QED
    BY <1>1, <1>2, <2>1, <2>2, ReadsKept, CalmStep
<1>6. QED
  BY <1>3, <1>4, <1>5 DEF Reap

LEMMA CrashKeepsLease ==
  ASSUME TurnInv, LeaseInv, StoreStep, NEW i \in Instances, Crash(i)
  PROVE  LeaseInv'
<1>1. SettledStays /\ Calm
  BY Sticky, QuietIsCalm DEF Crash, SinksDropped
<1>2. ASSUME NEW r \in Sends, send[r].at = i, turn[r].exec # "none"
      PROVE  TurnAt(r)' /\ Over(r)'
  <2>1. turn'[r] = DeadHandle
    BY <1>2 DEF Crash
  <2>2. send'[r].pc = send[r].pc \/ send'[r].pc = "done"
    BY DEF Crash, TurnInv, SendInv, Send
  <2>3. ~Early(r)
    BY <1>2 DEF LeaseInv, TurnAt, FlagsAt
  <2>4. r \notin DOMAIN snapshots'
    BY <1>2 DEF Crash, SinksDropped
  <2>5. QED
    BY <2>1, <2>2, <2>3, <2>4
    DEF TurnAt, FlagsAt, ReadAt, LeaseAt, Over, Early, Driving, Live, DeadHandle, NewHandle
<1>3. ASSUME NEW r \in Sends, send[r].at # i \/ turn[r].exec = "none"
      PROVE  Still(r) /\ KeepsRead(r)
  <2>1. turn'[r] = turn[r]
    BY <1>3 DEF Crash
  <2>2. send'[r].pc = send[r].pc \/ send'[r].pc = "done"
    BY DEF Crash, TurnInv, SendInv, Send
  <2>3. Still(r)
    BY <2>1, <2>2 DEF Still
  <2>4. KeepsRead(r)
    BY DEF Crash, SinksDropped, KeepsRead
  <2>5. QED
    BY <2>3, <2>4
<1>4. \A r \in Sends : TurnAt(r)' /\ (Over(r) => Over(r)')
  BY <1>1, <1>2, <1>3, CalmKeeps, OverStays DEF LeaseInv
<1>5. \A j \in Instances : loop'[j].reap = "clear" => loop[j].reap = "clear"
  BY DEF Crash, Resting, TurnInv, LoopType
<1>6. QED
  BY <1>1, <1>4, <1>5, CalmRest DEF LeaseInv

LEMMA LeaseInitInv == TurnInit => LeaseInv
<1> SUFFICES ASSUME TurnInit PROVE LeaseInv
  OBVIOUS
<1>1. ASSUME NEW s \in Sends
      PROVE  send[s].pc = "idle" /\ turn[s] = NoHandle /\ s \notin DOMAIN snapshots
  BY DEF TurnInit, Init
<1>2. \A s \in Sends : TurnAt(s) /\ Over(s)
  <2>1. /\ NoHandle.exec = "none" /\ NoHandle.stored = "none"
        /\ NoHandle.supervisor = "none" /\ ~NoHandle.terminal_committed
    BY DEF NoHandle, NewHandle
  <2>2. QED
    BY <1>1, <2>1 DEF TurnAt, FlagsAt, ReadAt, LeaseAt, Over, Driving, Live
<1>3. ReapersClearSettled
  BY DEF TurnInit, ReapersClearSettled, Resting
<1>4. WorkingIsLeased
  BY DEF TurnInit, Init, WorkingIsLeased, Working, Present
<1>5. QED
  BY <1>2, <1>3, <1>4 DEF LeaseInv, OneTurn

LEMMA LeaseStepInv ==
  ASSUME TurnInv, LeaseInv, [TurnNext]_turnVars, [Orderly]_turnVars
  PROVE  LeaseInv'
<1>1. StoreStep
  BY TurnStoreStep
<1>2. CASE UNCHANGED turnVars
  <2>1. Calm /\ SettledStays /\ UNCHANGED <<snapshots, loop>>
    BY <1>1, <1>2, Sticky, QuietIsCalm DEF turnVars, vars
  <2>2. \A r \in Sends : Still(r)
    BY <1>2, SameIsStill DEF turnVars
  <2>3. QED
    BY <2>1, <2>2, ReadsKept, ReapersSame, CalmStep
<1>3. CASE TurnNext /\ Orderly
  <2>1. CASE \E s \in Sends :
               \/ ResolveNew(s) \/ ResolveFollowUp(s) \/ Start(s) \/ Wait(s)
               \/ RequestDropped(s)
    BY <1>1, <1>3, <2>1, SendKeepsLease DEF Orderly
  <2>2. CASE \E s \in Sends : Executor(s) \/ SinkAnswered(s) \/ AbortLands(s)
    BY <1>1, <1>3, <2>2, ExecutorKeepsLease DEF Orderly
  <2>3. CASE \E s \in Sends : AbortTimer(s) \/ Supervisor(s)
    BY <1>1, <2>3, SupervisorKeepsLease
  <2>4. CASE \E c \in Cancels : CancelCall(c)
    BY <1>1, <2>4, CancelKeepsLease
  <2>5. CASE \E i \in Instances : Crash(i)
    BY <1>1, <2>5, CrashKeepsLease
  <2>6. CASE \/ \E i \in Instances :
                  CancelPoll(i) \/ Renew(i) \/ Reap(i) \/ Stall(i) \/ Idle(i)
             \/ LeaseLapses
    BY <1>1, <2>6, LoopKeepsLease
  <2>7. QED
    BY <1>3, <2>1, <2>2, <2>3, <2>4, <2>5, <2>6 DEF TurnNext
<1>4. QED
  BY <1>2, <1>3

\* A WORKING task carries a lease as long as turns follow one another and no abort
\* falls between a resumption and its flag.  The code ensures neither for a task of
\* several turns; FirstTurnIsLeased is what it does ensure.
LEMMA OrderlyKeepsLease == TurnSpec /\ [][Orderly]_turnVars => []WorkingIsLeased
<1>1. TurnInit => LeaseInv
  BY LeaseInitInv
<1>2. TurnInv /\ LeaseInv /\ [TurnNext]_turnVars /\ [Orderly]_turnVars => LeaseInv'
  BY LeaseStepInv
<1>3. LeaseInv => WorkingIsLeased
  BY DEF LeaseInv
<1>4. QED
  BY <1>1, <1>2, <1>3, TurnInductive, PTL DEF TurnSpec

\* No sink awaits the answer to a WORKING of its executor's.
NothingResumes == \A s \in Sends : turn[s].stored # "Working"

LEMMA StaysStored ==
  ASSUME NothingResumes, \A s \in Sends : turn'[s].stored \in {turn[s].stored, "none"}
  PROVE  NothingResumes'
  BY DEF NothingResumes

LEMMA SetStored ==
  ASSUME TurnInv, NothingResumes, NEW s \in Sends, NEW h, SetTurn(s, h),
         h.stored = turn[s].stored \/ h.stored # "Working"
  PROVE  NothingResumes'
  BY DEF NothingResumes, SetTurn, TurnInv, HandleInv

LEMMA NothingResumesStep ==
  ASSUME TurnInv, NothingResumes, "Working" \notin Emits, [TurnNext]_turnVars
  PROVE  NothingResumes'
<1>1. CASE UNCHANGED turn
  BY <1>1, StaysStored
<1>a. ASSUME NEW s \in Sends
      PROVE  \A h \in {[turn[s] EXCEPT !.cancelled = TRUE],
                       [turn[s] EXCEPT !.cancelled = TRUE, !.aborting = TRUE],
                       [turn[s] EXCEPT !.abort_timer = "spent",
                                       !.aborting = @ \/ ~turn[s].terminal_committed],
                       [turn[s] EXCEPT !.supervisor = "clearing"],
                       [turn[s] EXCEPT !.supervisor = "done"],
                       [turn[s] EXCEPT !.closed = TRUE, !.exec = "exited"],
                       [turn[s] EXCEPT !.closed = TRUE, !.exec = "running"],
                       [turn[s] EXCEPT !.closed = TRUE],
                       [turn[s] EXCEPT !.exec = "exited"],
                       CancelThenAbort(turn[s])} : h.stored = turn[s].stored
  <2>1. turn[s] \in Handle
    BY <1>a DEF TurnInv, HandleInv
  <2>2. QED
    BY <2>1 DEF Handle, CancelThenAbort
<1>2. CASE \E s \in Sends \cup {NoTurn} : Trip(s)
  <2>1. PICK s \in Sends \cup {NoTurn} : Trip(s)
    BY <1>2
  <2>2. CASE s = NoTurn
    BY <1>1, <2>1, <2>2 DEF Trip
  <2>3. CASE s \in Sends
    BY <1>a, <2>1, <2>3, SetStored, TurnAssumption DEF Trip
  <2>4. QED
    BY <2>2, <2>3
<1>3. CASE \E i \in Instances : Crash(i)
  <2>1. \A s \in Sends : turn'[s] = DeadHandle \/ turn'[s] = turn[s]
    BY <1>3 DEF Crash
  <2>2. DeadHandle.stored = "none"
    BY DEF DeadHandle, NewHandle
  <2>3. QED
    BY <2>1, <2>2, StaysStored
<1>4. CASE \E s \in Sends : Spawn(s)
  <2>1. NewHandle.stored = "none"
    BY DEF NewHandle
  <2>2. QED
    BY <1>4, <2>1, SetStored DEF Spawn
<1>5. CASE \E s \in Sends : SoftDeadline(s) \/ HardDeadline(s) \/ AbortTimer(s)
                            \/ Supervisor(s)
  <2>1. PICK s \in Sends : SoftDeadline(s) \/ HardDeadline(s) \/ AbortTimer(s)
                           \/ Supervisor(s)
    BY <1>5
  <2>2. \E h : SetTurn(s, h) /\ h.stored = turn[s].stored
    BY <1>a, <2>1
    DEF SoftDeadline, HardDeadline, AbortTimer, Supervisor, SupervisorLeaves,
        SupervisorClears
  <2>3. QED
    BY <2>2, SetStored
<1>6. CASE \E s \in Sends : SinkAnswered(s) \/ AbortLands(s)
  <2>1. PICK s \in Sends : SinkAnswered(s) \/ AbortLands(s)
    BY <1>6
  <2>2. turn[s] \in Handle
    BY DEF TurnInv, HandleInv
  <2>3. CASE SinkAnswered(s)
    <3>1. AfterCommit(turn[s]).stored = "none"
      BY <2>2 DEF AfterCommit, Handle
    <3>2. QED
      BY <2>3, <3>1, SetStored DEF SinkAnswered
  <2>4. CASE AbortLands(s)
    <3>1. [turn[s] EXCEPT !.exec = "exited", !.stored = "none"].stored = "none"
      BY <2>2 DEF Handle
    <3>2. QED
      BY <2>4, <3>1, SetStored DEF AbortLands
  <2>5. QED
    BY <2>1, <2>3, <2>4
<1>7. CASE \E s \in Sends : Executor(s)
  <2>1. PICK s \in Sends : Executor(s)
    BY <1>7
  <2>2. turn[s] \in Handle
    BY DEF TurnInv, HandleInv
  <2>3. CASE \E st \in TaskState, b \in BOOLEAN : SinkCommits(s, st, b)
    <3>1. PICK st \in TaskState, b \in BOOLEAN : SinkCommits(s, st, b)
      BY <2>3
    <3>2. st # "Working"
      BY <3>1 DEF SinkCommits
    <3>3. SetTurn(s, [turn[s] EXCEPT !.stored = st, !.returning = b])
      BY <3>1 DEF SinkCommits
    <3>4. [turn[s] EXCEPT !.stored = st, !.returning = b].stored = st
      BY <2>2 DEF Handle
    <3>5. QED
      BY <3>2, <3>3, <3>4, SetStored
  <2>4. CASE ~\E st \in TaskState, b \in BOOLEAN : SinkCommits(s, st, b)
    <3>1. UNCHANGED turn \/ \E h : SetTurn(s, h) /\ h.stored = turn[s].stored
      <4>1. CASE \E b \in BOOLEAN : SinkRefused(s, b)
        <5>1. PICK x \in {"exited", "running"} :
                SetTurn(s, [turn[s] EXCEPT !.closed = TRUE, !.exec = x])
          BY <4>1 DEF SinkRefused
        <5>2. QED
          BY <1>a, <5>1
      <4>2. QED
        BY <1>a, <2>1, <2>4, <4>1
        DEF Executor, ExecutorReturns, PostExecuteLost, Exits, ArtifactRead,
            ArtifactWrite, ArtifactRefused
    <3>2. QED
      BY <1>1, <3>1, SetStored
  <2>5. QED
    BY <2>3, <2>4
<1>8. ASSUME NEW s \in Sends, ResolveNew(s) \/ ResolveFollowUp(s) \/ Start(s) \/ Wait(s)
                             \/ RequestDropped(s)
      PROVE  UNCHANGED turn \/ Spawn(s) \/ SoftDeadline(s) \/ HardDeadline(s)
  BY <1>8 DEF ResolveNew, ResolveFollowUp, Start, Wait, RequestDropped, BeginTurn,
              StampLease, CommitWorking, CommitWorkingRefused, SpawnCollides, Yielded,
              CancelSeen, PollSeesTerminal, ForceFailed
<1>9. ASSUME NEW c \in Cancels, CancelCall(c)
      PROVE  UNCHANGED turn \/ \E s \in Sends \cup {NoTurn} : Trip(s)
  <2>1. in_flight[cancel[c].at] \in Sends \cup {NoTurn}
    BY DEF TurnInv, CancelInv, Cancel, RegistryType
  <2>2. QED
    BY <1>9, <2>1 DEF CancelCall, CancelMarks, CancelTrips, CancelEnds
<1>10. ASSUME \/ \E i \in Instances :
                   CancelPoll(i) \/ Renew(i) \/ Reap(i) \/ Stall(i) \/ Idle(i)
              \/ LeaseLapses
       PROVE  UNCHANGED turn \/ \E s \in Sends \cup {NoTurn} : Trip(s)
  <2>1. \A i \in Instances : in_flight[i] \in Sends \cup {NoTurn}
                             /\ loop[i].stall \in Sends \cup {NoTurn}
    BY DEF TurnInv, RegistryType, LoopType, Loop
  <2>2. QED
    BY <1>10, <2>1
    DEF CancelPoll, Renew, RenewSnapshot, RenewStamp, Reap, ReapList, ReapCommit,
        ReapClear, Stall, StallList, StallCommit, Idle, IdleList, IdleCommit, LeaseLapses
<1>11. QED
  BY <1>1, <1>2, <1>3, <1>4, <1>5, <1>6, <1>7, <1>8, <1>9, <1>10 DEF TurnNext, turnVars

\* WorkingIsLeased of a task's first turn, from the code alone: nothing overlaps
\* with it, and no abort can hit a resumption if executors that interrupted a
\* turn never set WORKING themselves.
THEOREM FirstTurnIsLeased ==
  ASSUME \A r, s \in Sends : r = s, "Working" \notin Emits
  PROVE  TurnSpec => []WorkingIsLeased
<1>1. TurnInit => NothingResumes
  <2>1. NoHandle.stored # "Working"
    BY DEF NoHandle, NewHandle
  <2>2. QED
    BY <2>1 DEF TurnInit, NothingResumes
<1>2. TurnInv /\ NothingResumes /\ [TurnNext]_turnVars => NothingResumes'
  BY NothingResumesStep
<1>3. NothingResumes => [Orderly]_turnVars
  BY DEF NothingResumes, Orderly, OneAtATime, FlagsFollowCommits
<1>4. QED
  BY <1>1, <1>2, <1>3, TurnInductive, OrderlyKeepsLease, PTL DEF TurnSpec
===============================================================================
