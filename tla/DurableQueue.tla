------------------------------ MODULE DurableQueue ------------------------------
(***************************************************************************)
(* SendMessage with return_immediately on a runtime whose process may be   *)
(* frozen once it has answered: the turn is started, its inline push       *)
(* configuration registered, and the executor is not spawned but queued as *)
(* a QueuedExecutorJob.  Another invocation takes the record, runs the     *)
(* executor and lets the queue delete the record.  A job is named by its   *)
(* send, and so is the configuration it registers.                         *)
(*                                                                         *)
(* The queue (SQS) delivers at least once: a stored record may be taken    *)
(* again at any time, up to MaxReceives, after which it is dead-lettered.  *)
(* No executor lease is written on this runtime and no registry holds the  *)
(* run, so a task is moved on by its send, by its job, or by nobody.       *)
(***************************************************************************)
EXTENDS TaskStore, FiniteSets

CONSTANTS
  Task, Owner,   \* the task the sends are about, and its principal
  Sends,         \* SendMessage requests; each brings a message of its name
  Inline,        \* those with an inline push configuration
  Workers,       \* invocations that take queue records
  Cancels,       \* CancelTask requests
  Emits,         \* statuses executors emit
  IdleSweep,     \* the scheduled idle-task sweep is configured
  NoJob,         \* an invocation without a record
  MaxReceives,   \* the queue's maxReceiveCount
  MaxFaults      \* bound: storage and queue errors, invocations killed

ASSUME DurableAssumption ==
  /\ Task \in Tasks /\ Owner \in Owners
  /\ Inline \subseteq Sends /\ Inline = Configs /\ Sends \subseteq Items
  /\ Emits \subseteq TaskState \ EXECUTOR_HELD_STATES
  /\ IdleSweep \in BOOLEAN /\ NoJob \notin Sends
  /\ MaxReceives \in Nat \ {0} /\ MaxFaults \in Nat

VARIABLES
  send,    \* each request: how far it is
  queue,   \* each job's record and how often it was received
  worker,  \* each consuming invocation
  cancel,  \* each CancelTask request
  sweep,   \* the idle sweep holds the task in its page
  faults   \* how many so far, and what they may have left behind

queueVars == <<send, queue, worker, cancel, sweep, faults>>

Status == tasks[Task].status
Settled == Present(Task) /\ Terminal(Task)
Held == Present(Task) /\ Status \in EXECUTOR_HELD_STATES
Marked == Present(Task) /\ tasks[Task].cancel_requested

Send == [pc: {"idle", "resolved", "begun", "working", "registered", "compensating", "done"},
         follows: BOOLEAN]
Record == [state: {"none", "stored", "deleted", "dead"}, receives: 0..MaxReceives]
Worker == [pc: {"idle", "received", "loaded", "canceling", "cleared", "running", "returned"},
           job: Sends \cup {NoJob}, marked: BOOLEAN, closed: BOOLEAN, client_held: BOOLEAN]

Resting == [pc |-> "idle", job |-> NoJob, marked |-> FALSE,
            closed |-> FALSE, client_held |-> FALSE]

QueueTypeOK ==
  /\ TypeOK
  /\ send \in [Sends -> Send]
  /\ queue \in [Sends -> Record]
  /\ worker \in [Workers -> Worker]
  /\ cancel \in [Cancels -> {"idle", "marked", "done"}]
  /\ sweep \in BOOLEAN
  /\ faults \in [count: 0..MaxFaults, stranded: BOOLEAN, unmarked: BOOLEAN]

QueueInit ==
  /\ Init
  /\ \E sent \in SUBSET Sends :  \* the others are never made
       send = [s \in Sends |-> [pc |-> IF s \in sent THEN "idle" ELSE "done",
                                follows |-> FALSE]]
  /\ queue = [s \in Sends |-> [state |-> "none", receives |-> 0]]
  /\ worker = [w \in Workers |-> Resting]
  /\ cancel = [c \in Cancels |-> "idle"]
  /\ sweep = FALSE
  /\ faults = [count |-> 0, stranded |-> FALSE, unmarked |-> FALSE]

\* An error somebody will retry; one that may leave the task with nobody to move
\* it on; a cancel marker that could not be read.
FaultWith(fault) ==
  /\ faults.count < MaxFaults
  /\ faults' = [fault EXCEPT !.count = @ + 1]
Fault == FaultWith(faults)
Strands == FaultWith([faults EXCEPT !.stranded = TRUE])
Unmarks == FaultWith([faults EXCEPT !.unmarked = TRUE])

Goto(s, pc) == send' = [send EXCEPT ![s].pc = pc]
Answer(s) == Goto(s, "done")
Work(w, pc) == worker' = [worker EXCEPT ![w].pc = pc]
Job(w) == worker[w].job
Taken(s) == \E w \in Workers : Job(w) = s

\* commit_framework_terminal: CANCELED or FAILED through the compare-and-set.
CommitTerminal(status) == ~Settled /\ UpdateTaskStatusWithEvents(Task, Owner, status)

-------------------------------------------------------------------------------
(* The request: core_send_message with a durable queue *)

\* resolve_send_target.  No registry entry ever stands for a queued run.
ResolveNew(s) ==
  /\ send[s].pc = "idle"
  /\ \A r \in Sends : send[r].pc \in {"idle", "done"}
  /\ event_counters[Task] = 0
  /\ Goto(s, "resolved")
  /\ UNCHANGED <<vars, queue, worker, cancel, sweep, faults>>

ResolveFollowUp(s) ==
  /\ send[s].pc = "idle"
  /\ Present(Task)
  /\ IF Status \in CLIENT_HELD_STATES
     THEN send' = [send EXCEPT ![s].pc = "resolved", ![s].follows = TRUE]
     ELSE Answer(s)
  /\ UNCHANGED <<vars, queue, worker, cancel, sweep, faults>>

\* check_payload_size, before anything is written.
PayloadTooLarge(s) ==
  /\ send[s].pc = "resolved"
  /\ Answer(s)
  /\ UNCHANGED <<vars, queue, worker, cancel, sweep, faults>>

BeginTurn(s) ==
  /\ send[s].pc = "resolved"
  /\ IF send[s].follows
     THEN AppendMessage(Task, Owner, s)
     ELSE CreateTaskWithEvents(Task, Owner, s)
  /\ Goto(s, "begun")
  /\ UNCHANGED <<queue, worker, cancel, sweep, faults>>

CommitWorking(s) ==
  /\ send[s].pc = "begun"
  /\ UpdateTaskStatusWithEvents(Task, Owner, "Working")
  /\ Goto(s, "working")
  /\ UNCHANGED <<queue, worker, cancel, sweep, faults>>

CommitWorkingRefused(s) ==
  /\ send[s].pc = "begun"
  /\ Present(Task) => ~ValidTransition(Status, "Working")
  /\ Answer(s)
  /\ UNCHANGED <<vars, queue, worker, cancel, sweep, faults>>

\* (mutant) The job is queued first and the configuration registered behind it.
RegisterBehind(s) ==
  /\ send[s].pc = "working"
  /\ Goto(s, "registered")
  /\ UNCHANGED <<vars, queue, worker, cancel, sweep, faults>>

\* register_inline_push_config: create_config ends before the job is queued; its
\* error takes the turn back.
Register(s) ==
  LET k == <<Task, s>>
  IN  /\ send[s].pc = "working"
      /\ \/ s \notin Inline /\ Goto(s, "registered") /\ UNCHANGED <<vars, faults>>
         \/ s \in Inline /\ CreateConfigRead(k) /\ UNCHANGED <<send, faults>>
         \/ CreateConfigInsert(k) /\ Goto(s, "registered") /\ UNCHANGED faults
         \/ /\ CreateConfigConflict(k)
            /\ Goto(s, IF k \in DOMAIN registering' THEN "working" ELSE "compensating")
            /\ UNCHANGED faults
         \/ s \in Inline /\ Fault /\ Goto(s, "compensating") /\ UNCHANGED vars
      /\ UNCHANGED <<queue, worker, cancel, sweep>>

\* The answer is the task read once more; the job is queued whatever it finds.
Enqueue(s) ==
  /\ send[s].pc = "registered"
  /\ queue' = [queue EXCEPT ![s].state = "stored"]
  /\ Answer(s)
  /\ UNCHANGED <<vars, worker, cancel, sweep, faults>>

\* SendMessage fails; a call that timed out may have stored the record.
EnqueueFails(s, stored) ==
  /\ send[s].pc = "registered"
  /\ queue' = IF stored THEN [queue EXCEPT ![s].state = "stored"] ELSE queue
  /\ Goto(s, "compensating")
  /\ Fault
  /\ UNCHANGED <<vars, worker, cancel, sweep>>

\* (mutant) The error is answered and the started turn left as it is.
CompensateNever(s) ==
  /\ send[s].pc = "compensating"
  /\ Answer(s)
  /\ UNCHANGED <<vars, queue, worker, cancel, sweep, faults>>

\* fail_unstarted_task: FAILED unless a terminal is there, at best effort.
Compensate(s) ==
  /\ send[s].pc = "compensating"
  /\ \/ CommitTerminal("Failed") /\ UNCHANGED faults
     \/ (Present(Task) => Settled) /\ UNCHANGED <<vars, faults>>
     \/ Strands /\ UNCHANGED vars
  /\ Answer(s)
  /\ UNCHANGED <<queue, worker, cancel, sweep>>

\* The invocation is killed between two of its calls.
RequestKilled(s) ==
  /\ send[s].pc \notin {"idle", "done"}
  /\ Strands
  /\ Answer(s)
  /\ UNCHANGED <<vars, queue, worker, cancel, sweep>>

-------------------------------------------------------------------------------
(* The consumer: drive_sqs_record *)

Receive(w, s) ==
  /\ worker[w].pc = "idle"
  /\ queue[s].state = "stored"
  /\ queue[s].receives < MaxReceives
  /\ queue' = [queue EXCEPT ![s].receives = @ + 1]
  /\ worker' = [worker EXCEPT ![w] =
       [Resting EXCEPT !.pc = "received", !.job = s, !.marked = Marked]]
  /\ UNCHANGED <<vars, send, cancel, sweep, faults>>

\* Ok: the queue deletes the record.  A record dead-lettered meanwhile stays so.
Ack(w) ==
  /\ worker' = [worker EXCEPT ![w] = Resting]
  /\ queue' = [queue EXCEPT ![Job(w)].state = IF @ = "stored" THEN "deleted" ELSE @]

\* A batch-item failure: the record becomes visible again.
Retry(w) == worker' = [worker EXCEPT ![w] = Resting] /\ UNCHANGED queue

\* (mutant) The record is acknowledged when the task is found not terminal.
LoadAcks(w) ==
  /\ worker[w].pc = "received"
  /\ IF Present(Task) /\ ~Settled
     THEN /\ Work(w, "loaded")
          /\ queue' = [queue EXCEPT ![Job(w)].state = "deleted"]
     ELSE Ack(w)
  /\ UNCHANGED <<vars, send, cancel, sweep, faults>>

\* get_task: gone or unreadable is retried, terminal is done.
Load(w) ==
  /\ worker[w].pc = "received"
  /\ \/ Settled /\ Ack(w) /\ UNCHANGED faults
     \/ ~Present(Task) /\ Retry(w) /\ UNCHANGED faults
     \/ Fault /\ Retry(w)
     \/ Present(Task) /\ ~Settled /\ Work(w, "loaded") /\ UNCHANGED <<queue, faults>>
  /\ UNCHANGED <<vars, send, cancel, sweep>>

\* (mutant) Only a task that is still WORKING is checked for its marker.
CheckMarkerUnread(w) ==
  /\ worker[w].pc = "loaded"
  /\ Work(w, "cleared")
  /\ UNCHANGED <<vars, send, queue, cancel, sweep, faults>>

\* supervisor_get_cancel_requested; an error counts as no marker.
CheckMarker(w) ==
  /\ worker[w].pc = "loaded"
  /\ \/ Work(w, IF Marked THEN "canceling" ELSE "cleared") /\ UNCHANGED faults
     \/ Work(w, "cleared") /\ Unmarks
  /\ UNCHANGED <<vars, send, queue, cancel, sweep>>

\* CANCELED without running the executor; a terminal of somebody else will do,
\* any other error is retried.
CommitCanceled(w) ==
  /\ worker[w].pc = "canceling"
  /\ \/ CommitTerminal("Canceled") /\ Ack(w) /\ UNCHANGED faults
     \/ Settled /\ Ack(w) /\ UNCHANGED <<vars, faults>>
     \/ ~Present(Task) /\ Retry(w) /\ UNCHANGED <<vars, faults>>
     \/ Fault /\ Retry(w) /\ UNCHANGED vars
  /\ UNCHANGED <<send, cancel, sweep>>

\* run_queued_executor_job: the task is loaded again, whatever its state.  The
\* run has a sink of its own and no registry entry, lease or awaiting request.
StartExecutor(w) ==
  /\ worker[w].pc = "cleared"
  /\ IF Present(Task) THEN Work(w, "running") ELSE Work(w, "returned")
  /\ UNCHANGED <<vars, send, queue, cancel, sweep, faults>>

\* Leave numbers for the WORKING of every send and for one terminal.
Reserve == 1 + Cardinality(Sends)

\* An emit, or the status commit_post_execute finds; FAILED when there is none.
SinkCommits(w, status, returning) ==
  /\ worker[w].pc = "running"
  /\ ~worker[w].closed
  /\ status \in Emits \/ (status = "Failed" /\ returning)
  /\ status \in TERMINAL_STATES \/ NextSeq(Task) + Reserve <= MaxSeq
  /\ UpdateTaskStatusWithEvents(Task, Owner, status)
  /\ worker' = [worker EXCEPT
       ![w].closed = @ \/ status \in TERMINAL_STATES,
       ![w].client_held = status \in CLIENT_HELD_STATES,
       ![w].pc = IF returning THEN "returned" ELSE @]
  /\ UNCHANGED <<send, queue, cancel, sweep, faults>>

\* TerminalStateAlreadySet closes the sink; other refusals are dropped.
SinkRefused(w, returning) ==
  /\ worker[w].pc = "running"
  /\ ~worker[w].closed
  /\ Present(Task) =>
       \E status \in Emits \cup {"Failed"} : ~ValidTransition(Status, status)
  /\ worker' = [worker EXCEPT ![w].closed = Settled,
                              ![w].pc = IF returning THEN "returned" ELSE @]
  /\ UNCHANGED <<vars, send, queue, cancel, sweep, faults>>

\* execute returns with its turn ended, or its last commit meets a storage
\* error, which nobody hears of.
ExecutorReturns(w) ==
  /\ worker[w].pc = "running"
  /\ \/ (worker[w].closed \/ worker[w].client_held) /\ UNCHANGED faults
     \/ ~worker[w].closed /\ Strands
  /\ Work(w, "returned")
  /\ UNCHANGED <<vars, send, queue, cancel, sweep>>

\* The handler reports success whatever the run did.
FinishRecord(w) ==
  /\ worker[w].pc = "returned"
  /\ Ack(w)
  /\ UNCHANGED <<vars, send, cancel, sweep, faults>>

\* The invocation times out or dies; the record becomes visible again.
WorkerDies(w) ==
  /\ worker[w].pc # "idle"
  /\ Retry(w)
  /\ UNCHANGED <<vars, send, cancel, sweep, faults>>

DeadLetter(s) ==
  /\ queue[s].state = "stored"
  /\ queue[s].receives = MaxReceives
  /\ ~Taken(s)
  /\ queue' = [queue EXCEPT ![s].state = "dead"]
  /\ UNCHANGED <<vars, send, worker, cancel, sweep, faults>>

-------------------------------------------------------------------------------
(* CancelTask, the scheduled sweep and retention *)

CancelMarks(c) ==
  /\ cancel[c] = "idle"
  /\ SetCancelRequested(Task, Owner)
  /\ cancel' = [cancel EXCEPT ![c] = "marked"]
  /\ UNCHANGED <<send, queue, worker, sweep, faults>>

\* The grace ends in CANCELED or in somebody's terminal; an invocation frozen
\* with its answer never commits.
CancelEnds(c) ==
  /\ cancel[c] = "marked"
  /\ \/ CommitTerminal("Canceled") /\ UNCHANGED faults
     \/ (Present(Task) => Settled) /\ UNCHANGED <<vars, faults>>
     \/ Fault /\ UNCHANGED vars
  /\ cancel' = [cancel EXCEPT ![c] = "done"]
  /\ UNCHANGED <<send, queue, worker, sweep>>

IdleList ==
  /\ IdleSweep
  /\ ~sweep
  /\ Present(Task)
  /\ Status \in CLIENT_HELD_STATES
  /\ sweep' = TRUE
  /\ UNCHANGED <<vars, send, queue, worker, cancel, faults>>

\* CANCELED for a listed task whatever it does by now.
IdleCommit ==
  /\ sweep
  /\ \/ CommitTerminal("Canceled")
     \/ (Present(Task) => Settled) /\ UNCHANGED vars
  /\ sweep' = FALSE
  /\ UNCHANGED <<send, queue, worker, cancel, faults>>

\* handle_maintenance_trigger reaps the settled task.
Maintain == CleanupTask(Task) /\ UNCHANGED queueVars

-------------------------------------------------------------------------------
Request(s) ==
  \/ BeginTurn(s) \/ CommitWorking(s) \/ CommitWorkingRefused(s) \/ Register(s)
  \/ Enqueue(s) \/ Compensate(s)

Run(w) ==
  \/ \E st \in TaskState, r \in BOOLEAN : SinkCommits(w, st, r)
  \/ \E r \in BOOLEAN : SinkRefused(w, r)
  \/ ExecutorReturns(w)

Consume(w) ==
  \/ Load(w) \/ CheckMarker(w) \/ CommitCanceled(w) \/ StartExecutor(w)
  \/ Run(w) \/ FinishRecord(w)

QueueNext ==
  \/ \E s \in Sends :
       \/ ResolveNew(s) \/ ResolveFollowUp(s) \/ PayloadTooLarge(s) \/ Request(s)
       \/ (\E b \in BOOLEAN : EnqueueFails(s, b)) \/ RequestKilled(s) \/ DeadLetter(s)
  \/ \E w \in Workers : (\E s \in Sends : Receive(w, s)) \/ Consume(w) \/ WorkerDies(w)
  \/ \E c \in Cancels : CancelMarks(c) \/ CancelEnds(c)
  \/ IdleList \/ IdleCommit
  \/ Maintain
-------------------------------------------------------------------------------
(* What a queued turn promises *)

\* The one job that still stands for send s: it is queued, or being worked on.
HasJob(s) == queue[s].state = "stored" \/ Taken(s)

\* No ordering of a request, its compensation and the consumer's early returns
\* leaves a task SUBMITTED or WORKING with nobody to move it on: a request is
\* still driving it, or a job is queued or running.  The exceptions are the
\* documented ones: the compensation or the last commit failed, the request was
\* killed, the job was dead-lettered.
HeldHasJob ==
  Held =>
    \/ \E s \in Sends : send[s].pc \in {"begun", "working", "registered", "compensating"}
    \/ \E s \in Sends : HasJob(s) \/ queue[s].state = "dead"
    \/ faults.stranded

\* "no executor runs without its callback": when the executor of an inline send
\* runs, its configuration is stored, and under a floor that lets it have the
\* terminal event of the run.
ExecutorHasCallback ==
  \A w \in Workers : worker[w].pc = "running" /\ Job(w) \in Inline =>
    /\ <<Task, Job(w)>> \in DOMAIN push_configs
    /\ Present(Task) /\ ~Settled =>
         push_configs[<<Task, Job(w)>>] < NextSeq(Task)

\* A task whose cancel marker was there when its job was taken is not executed,
\* by whichever of its deliveries, unless reading the marker failed.
MarkedJobNeverRuns ==
  \A w \in Workers :
    worker[w].pc = "running" /\ worker[w].marked => faults.unmarked

\* A queued turn is moved on, and not only by somebody who stands by: no early
\* return of the consumer drops its record while the task is still SUBMITTED or
\* WORKING, and redeliveries get through to a run, a CANCELED or the dead letters.
TurnsMoveOn ==
  Held ~> (~Held \/ faults.stranded \/ \E s \in Sends : queue[s].state = "dead")
===============================================================================
