-------------------------------- MODULE TaskTurn --------------------------------
(***************************************************************************)
(* The life of one task above the store: the sends that start its turns,   *)
(* the executor and supervisor each turn spawns, the blocking wait with    *)
(* its two deadlines, CancelTask, and the background loops (lease renewal, *)
(* lease reaper, stall watchdog, idle sweep, cross-instance cancel poll)   *)
(* of every server that shares the store.  All writes to the task are      *)
(* TaskStore's actions.                                                    *)
(*                                                                         *)
(* A turn is named by the send that starts it.  Timers may fire at any     *)
(* time in the order the code arms them; a lease is "fresh" until it has   *)
(* not been renewed for its whole ttl.  Push delivery is off.              *)
(***************************************************************************)
EXTENDS TaskStore, FiniteSets

CONSTANTS
  Task,            \* the task the sends are about
  Owner,           \* its principal
  Instances,       \* servers sharing the store
  Sends,           \* SendMessage requests; each brings a message of its name
  Immediate,       \* those with return_immediately
  Cancels,         \* CancelTask requests
  Loops,           \* background loops that are enabled
  Emits,           \* statuses executors emit
  Artifacts,       \* artifacts executors emit
  TimeoutsElapse,  \* blocking_task_timeout is within reach
  NoTurn,          \* no registry entry
  MaxCrashes,      \* bound: server crashes
  MaxLost,         \* bound: post-execute commits the store refuses
  MaxDrops         \* bound: requests whose client goes away

ASSUME TaskAssumption == Task \in Tasks /\ Owner \in Owners
ASSUME LeaseAssumption == LeaseTimes = {"fresh", "lapsed"} /\ NoLease \notin LeaseTimes
ASSUME TurnAssumption ==
  /\ NoTurn \notin Sends
  /\ Writers = Sends
  /\ Sends \cup Artifacts \subseteq Items
  /\ Loops \subseteq {"lease", "stall", "idle"}
  /\ Immediate \subseteq Sends /\ Emits \subseteq TaskState
  /\ TimeoutsElapse \in BOOLEAN
  /\ MaxCrashes \in Nat /\ MaxLost \in Nat /\ MaxDrops \in Nat

VARIABLES
  send,       \* each request: where it runs, how far it is, what it answered
  turn,       \* each turn: executor, sink, in-flight handle and supervisor
  in_flight,  \* instance -> the turn its registry holds for the task
  cancel,     \* each CancelTask request
  loop,       \* instance -> what each loop listed and has not handled yet
  faults      \* crashes, lost commits and dropped requests so far

turnVars == <<vars, send, turn, in_flight, cancel, loop, faults>>

LeaseEnabled == "lease" \in Loops

Status == tasks[Task].status
Settled == Present(Task) /\ Terminal(Task)
Working == Present(Task) /\ Status = "Working"

SendPc == {"idle", "resolved", "begun", "leased", "working",
           "waiting", "polling", "cooperative", "expired", "done"}
Errors == {"none", "refused", "collision", "gone"}
Send == [pc: SendPc, at: Instances, follows: BOOLEAN, answer: TaskState \cup Errors]

\* InFlightHandle, the sink's is_closed, and the supervisor that awaits them.
Handle ==
  [exec: {"none", "running", "exited"},      \* the spawned executor
   stored: TaskState \cup {"none"},          \* a commit whose answer is awaited
   returning: BOOLEAN,                       \* that commit is commit_post_execute's
   closed: BOOLEAN, terminal_committed: BOOLEAN, client_held: BOOLEAN,
   cancelled: BOOLEAN, aborting: BOOLEAN,
   abort_timer: {"unarmed", "armed", "spent"},
   yielded: TaskState \cup {"none"},
   supervisor: {"none", "awaiting", "clearing", "done"}]

NewHandle ==
  [exec |-> "running", stored |-> "none", returning |-> FALSE,
   closed |-> FALSE, terminal_committed |-> FALSE, client_held |-> FALSE,
   cancelled |-> FALSE, aborting |-> FALSE, abort_timer |-> "unarmed",
   yielded |-> "none", supervisor |-> "awaiting"]

NoHandle == [NewHandle EXCEPT !.exec = "none", !.supervisor = "none"]
DeadHandle == [NewHandle EXCEPT !.exec = "exited", !.supervisor = "done"]

Cancel == [pc: {"idle", "marked", "grace", "done"}, at: Instances,
           answer: TaskState \cup Errors]

\* What a loop read and is about to act on.
Loop == [renew: BOOLEAN, reap: {"none", "listed", "clear"},
         idle: BOOLEAN, stall: Sends \cup {NoTurn}]

Resting == [renew |-> FALSE, reap |-> "none", idle |-> FALSE, stall |-> NoTurn]

TurnTypeOK ==
  /\ TypeOK
  /\ send \in [Sends -> Send]
  /\ turn \in [Sends -> Handle]
  /\ in_flight \in [Instances -> Sends \cup {NoTurn}]
  /\ cancel \in [Cancels -> Cancel]
  /\ loop \in [Instances -> Loop]
  /\ faults \in [crashes: 0..MaxCrashes, lost: 0..MaxLost, drops: 0..MaxDrops]

TurnInit ==
  /\ Init
  /\ send \in [Sends -> {[pc |-> "idle", at |-> i, follows |-> FALSE,
                          answer |-> "none"] : i \in Instances}]
  /\ turn = [s \in Sends |-> NoHandle]
  /\ in_flight = [i \in Instances |-> NoTurn]
  /\ cancel \in [Cancels -> {[pc |-> "idle", at |-> i, answer |-> "none"] :
                               i \in Instances}]
  /\ loop = [i \in Instances |-> Resting]
  /\ faults = [crashes |-> 0, lost |-> 0, drops |-> 0]

Goto(s, pc) == send' = [send EXCEPT ![s].pc = pc]
Answer(s, a) == send' = [send EXCEPT ![s].pc = "done", ![s].answer = a]
Registered(s) == in_flight[send[s].at]
SetTurn(s, h) == turn' = [turn EXCEPT ![s] = h]

\* cancel_then_abort_after: trip the token and arm the deferred abort, once.
CancelThenAbort(h) ==
  [h EXCEPT !.cancelled = TRUE,
            !.abort_timer = IF @ = "unarmed" THEN "armed" ELSE @]

\* A framework terminal, through the same compare-and-set as the sink's.
CommitTerminal(status) == ~Settled /\ UpdateTaskStatusWithEvents(Task, Owner, status)

-------------------------------------------------------------------------------
(* SendMessage: resolve_send_target, start_task_turn, spawn_tracked_executor *)

\* No taskId: a new task.
ResolveNew(s) ==
  /\ \A r \in Sends : send[r].pc = "idle"
  /\ send' = [send EXCEPT ![s].pc = "resolved"]
  /\ UNCHANGED <<vars, turn, in_flight, cancel, loop, faults>>

\* A follow-up is accepted by a task that waits for its client and has no
\* executor on this instance, and refused otherwise.
ResolveFollowUp(s) ==
  /\ send[s].pc = "idle"
  /\ Present(Task)
  /\ IF Status \in CLIENT_HELD_STATES /\ Registered(s) = NoTurn
     THEN send' = [send EXCEPT ![s].pc = "resolved", ![s].follows = TRUE]
     ELSE Answer(s, "refused")
  /\ UNCHANGED <<vars, turn, in_flight, cancel, loop, faults>>

BeginTurn(s) ==
  /\ send[s].pc = "resolved"
  /\ IF send[s].follows
     THEN AppendMessage(Task, Owner, s)
     ELSE CreateTaskWithEvents(Task, Owner, s)
  /\ Goto(s, "begun")
  /\ UNCHANGED <<turn, in_flight, cancel, loop, faults>>

\* (mutant) The lease is left to the first renewal.
StampLeaseLate(s) ==
  /\ send[s].pc = "begun"
  /\ Goto(s, "leased")
  /\ UNCHANGED <<vars, turn, in_flight, cancel, loop, faults>>

\* The lease is written before WORKING.
StampLease(s) ==
  /\ send[s].pc = "begun"
  /\ IF LeaseEnabled THEN RenewExecutorLeases({Task}, "fresh") ELSE UNCHANGED vars
  /\ Goto(s, "leased")
  /\ UNCHANGED <<turn, in_flight, cancel, loop, faults>>

CommitWorking(s) ==
  /\ send[s].pc = "leased"
  /\ UpdateTaskStatusWithEvents(Task, Owner, "Working")
  /\ Goto(s, "working")
  /\ UNCHANGED <<turn, in_flight, cancel, loop, faults>>

\* InvalidTransition or TerminalStateAlreadySet.
CommitWorkingRefused(s) ==
  /\ send[s].pc = "leased"
  /\ ~ValidTransition(Status, "Working")
  /\ Answer(s, "refused")
  /\ UNCHANGED <<vars, turn, in_flight, cancel, loop, faults>>

\* (mutant) The registry entry is replaced, whatever it holds.
SpawnOverwriting(s) ==
  /\ send[s].pc = "working"
  /\ SetTurn(s, NewHandle)
  /\ in_flight' = [in_flight EXCEPT ![send[s].at] = s]
  /\ IF s \in Immediate THEN Answer(s, Status) ELSE Goto(s, "waiting")
  /\ UNCHANGED <<vars, cancel, loop, faults>>

\* try_insert, then the executor and its supervisor are spawned.
Spawn(s) ==
  /\ send[s].pc = "working"
  /\ Registered(s) = NoTurn
  /\ SetTurn(s, NewHandle)
  /\ in_flight' = [in_flight EXCEPT ![send[s].at] = s]
  /\ IF s \in Immediate THEN Answer(s, Status) ELSE Goto(s, "waiting")
  /\ UNCHANGED <<vars, cancel, loop, faults>>

\* try_insert finds an entry: Internal("double-spawn ..."), nothing undone.
SpawnCollides(s) ==
  /\ send[s].pc = "working"
  /\ Registered(s) # NoTurn
  /\ Answer(s, "collision")
  /\ UNCHANGED <<vars, turn, in_flight, cancel, loop, faults>>

-------------------------------------------------------------------------------
(* The blocking wait: await_yielded_with_two_deadlines *)

Yielded(s) ==
  /\ send[s].pc \in {"waiting", "polling", "cooperative"}
  /\ turn[s].yielded # "none"
  /\ Answer(s, turn[s].yielded)
  /\ UNCHANGED <<vars, turn, in_flight, cancel, loop, faults>>

SoftDeadline(s) ==
  /\ TimeoutsElapse
  /\ send[s].pc = "waiting"
  /\ SetTurn(s, [turn[s] EXCEPT !.cancelled = TRUE])
  /\ Goto(s, "cooperative")
  /\ UNCHANGED <<vars, in_flight, cancel, loop, faults>>

\* Somebody else tripped the token: poll for the terminal it leads to.
CancelSeen(s) ==
  /\ send[s].pc = "waiting"
  /\ turn[s].cancelled
  /\ Goto(s, "polling")
  /\ UNCHANGED <<vars, turn, in_flight, cancel, loop, faults>>

PollSeesTerminal(s) ==
  /\ send[s].pc = "polling"
  /\ Settled
  /\ Answer(s, Status)
  /\ UNCHANGED <<vars, turn, in_flight, cancel, loop, faults>>

\* (mutant) A wait that polls for a cancel's terminal has no hard deadline.
HardDeadlineAfterSoftOnly(s) ==
  /\ TimeoutsElapse
  /\ send[s].pc = "cooperative"
  /\ SetTurn(s, [turn[s] EXCEPT !.cancelled = TRUE, !.aborting = TRUE])
  /\ Goto(s, "expired")
  /\ UNCHANGED <<vars, in_flight, cancel, loop, faults>>

HardDeadline(s) ==
  /\ TimeoutsElapse
  /\ send[s].pc \in {"polling", "cooperative"}
  /\ SetTurn(s, [turn[s] EXCEPT !.cancelled = TRUE, !.aborting = TRUE])
  /\ Goto(s, "expired")
  /\ UNCHANGED <<vars, in_flight, cancel, loop, faults>>

\* (mutant) A lost compare-and-set is answered like a won one.
ForceFailedUnread(s) ==
  /\ send[s].pc = "expired"
  /\ IF Settled THEN UNCHANGED vars ELSE CommitTerminal("Failed")
  /\ Answer(s, "Failed")
  /\ UNCHANGED <<turn, in_flight, cancel, loop, faults>>

\* FAILED, or the terminal another writer committed first, read again.
ForceFailed(s) ==
  /\ send[s].pc = "expired"
  /\ \/ CommitTerminal("Failed") /\ Answer(s, "Failed")
     \/ Settled /\ Answer(s, Status) /\ UNCHANGED vars
  /\ UNCHANGED <<turn, in_flight, cancel, loop, faults>>

-------------------------------------------------------------------------------
(* The executor and its sink *)

\* The commit_lock is free and the sink open.
SinkReady(s) ==
  /\ turn[s].exec = "running"
  /\ turn[s].stored = "none"
  /\ s \notin DOMAIN snapshots

\* Leave numbers for the WORKING of every send and for one terminal.
Reserve == 1 + Cardinality(Sends)

Exits(s) == SetTurn(s, [turn[s] EXCEPT !.exec = "exited"])

\* commit_status reaches the store: an emit of the executor, or the terminal or
\* interrupt commit_post_execute finds (FAILED when the executor left neither).
SinkCommits(s, status, returning) ==
  /\ SinkReady(s)
  /\ ~turn[s].closed
  /\ status \in Emits \/ (status = "Failed" /\ returning)
  /\ returning => status \notin EXECUTOR_HELD_STATES
  /\ status \in TERMINAL_STATES \/ NextSeq(Task) + Reserve <= MaxSeq
  /\ UpdateTaskStatusWithEvents(Task, Owner, status)
  /\ SetTurn(s, [turn[s] EXCEPT !.stored = status, !.returning = returning])
  /\ UNCHANGED <<send, in_flight, cancel, loop, faults>>

\* What commit_status does once the store answered Ok: the flags, and
\* fire_yielded on the first terminal or interrupt.
AfterCommit(h) ==
  LET final == h.stored \in TERMINAL_STATES
      held == h.stored \in CLIENT_HELD_STATES
  IN  [h EXCEPT !.stored = "none",
                !.client_held = held,
                !.closed = h.closed \/ final,
                !.terminal_committed = h.terminal_committed \/ final,
                !.yielded = IF h.yielded = "none" /\ (final \/ held) THEN h.stored
                            ELSE h.yielded,
                !.exec = IF h.returning THEN "exited" ELSE h.exec]

SinkAnswered(s) ==
  /\ turn[s].exec = "running"
  /\ turn[s].stored # "none"
  /\ SetTurn(s, AfterCommit(turn[s]))
  /\ UNCHANGED <<vars, send, in_flight, cancel, loop, faults>>

\* TerminalStateAlreadySet closes the sink.
SinkRefused(s, returning) ==
  /\ SinkReady(s)
  /\ ~turn[s].closed
  /\ Settled
  /\ SetTurn(s, [turn[s] EXCEPT !.closed = TRUE,
                                !.exec = IF returning THEN "exited" ELSE "running"])
  /\ UNCHANGED <<vars, send, in_flight, cancel, loop, faults>>

\* execute returns: with the sink closed, or interrupted and Ok, there is
\* nothing left to commit; a final status that is no transition from the
\* stored one (another turn's interrupt) is refused, and the error dropped.
ExecutorReturns(s) ==
  /\ SinkReady(s)
  /\ \/ turn[s].closed
     \/ turn[s].client_held
     \/ /\ Present(Task) /\ ~Settled
        /\ \E status \in Emits \ EXECUTOR_HELD_STATES : ~ValidTransition(Status, status)
  /\ Exits(s)
  /\ UNCHANGED <<vars, send, in_flight, cancel, loop, faults>>

\* The post-execute commit meets a storage error, which is dropped.
PostExecuteLost(s) ==
  /\ SinkReady(s)
  /\ ~turn[s].closed
  /\ faults.lost < MaxLost
  /\ faults' = [faults EXCEPT !.lost = @ + 1]
  /\ Exits(s)
  /\ UNCHANGED <<vars, send, in_flight, cancel, loop>>

\* emit_artifact: read the task ...
ArtifactRead(s) ==
  /\ Artifacts # {}
  /\ SinkReady(s)
  /\ ~turn[s].closed
  /\ GetTask(s, Task, Owner)
  /\ UNCHANGED <<send, turn, in_flight, cancel, loop, faults>>

\* ... and write it back whole with the artifact merged in.
ArtifactWrite(s, a) ==
  /\ turn[s].exec = "running"
  /\ NextSeq(Task) + Reserve <= MaxSeq
  /\ UpdateTaskWithEvents(s, a)
  /\ UNCHANGED <<send, turn, in_flight, cancel, loop, faults>>

ArtifactRefused(s) ==
  /\ turn[s].exec = "running"
  /\ UpdateTaskWithEventsRefused(s)
  /\ SetTurn(s, [turn[s] EXCEPT !.closed = TRUE])
  /\ UNCHANGED <<send, in_flight, cancel, loop, faults>>

\* The deferred abort spares an executor that committed its own terminal.
AbortTimer(s) ==
  /\ turn[s].abort_timer = "armed"
  /\ SetTurn(s, [turn[s] EXCEPT !.abort_timer = "spent",
                                !.aborting = @ \/ ~turn[s].terminal_committed])
  /\ UNCHANGED <<vars, send, in_flight, cancel, loop, faults>>

\* An abort takes effect at one of the executor's awaits: a commit it sent to
\* the store stays, what follows the commit does not happen.
AbortLands(s) ==
  /\ turn[s].aborting
  /\ turn[s].exec = "running"
  /\ SetTurn(s, [turn[s] EXCEPT !.exec = "exited", !.stored = "none"])
  /\ SinksDropped({s})
  /\ UNCHANGED <<send, in_flight, cancel, loop, faults>>

EndedTurn(s) == turn[s].terminal_committed \/ turn[s].client_held

\* (mutant) The supervisor clears the lease of a turn however it ended.
SupervisorLeavesAlwaysClearing(s) ==
  /\ turn[s].supervisor = "awaiting"
  /\ turn[s].exec = "exited"
  /\ in_flight' = [in_flight EXCEPT ![send[s].at] = IF @ = s THEN NoTurn ELSE @]
  /\ SetTurn(s, [turn[s] EXCEPT !.supervisor = IF LeaseEnabled THEN "clearing" ELSE "done"])
  /\ UNCHANGED <<vars, send, cancel, loop, faults>>

\* The executor is gone: the sentinel removes the registry entry if it is still
\* this turn's; a turn that ended through its sink has its lease cleared next.
SupervisorLeaves(s) ==
  /\ turn[s].supervisor = "awaiting"
  /\ turn[s].exec = "exited"
  /\ in_flight' = [in_flight EXCEPT ![send[s].at] = IF @ = s THEN NoTurn ELSE @]
  /\ SetTurn(s, [turn[s] EXCEPT !.supervisor =
                   IF LeaseEnabled /\ EndedTurn(s) THEN "clearing" ELSE "done"])
  /\ UNCHANGED <<vars, send, cancel, loop, faults>>

SupervisorClears(s) ==
  /\ turn[s].supervisor = "clearing"
  /\ RenewExecutorLeases({Task}, NoLease)
  /\ SetTurn(s, [turn[s] EXCEPT !.supervisor = "done"])
  /\ UNCHANGED <<send, in_flight, cancel, loop, faults>>

-------------------------------------------------------------------------------
(* CancelTask *)

\* Steps 1-3: the task is there, not terminal, and gets its cancel marker.
CancelMarks(c) ==
  /\ cancel[c].pc = "idle"
  /\ SetCancelRequested(Task, Owner)
  /\ cancel' = [cancel EXCEPT ![c].pc = "marked"]
  /\ UNCHANGED <<send, turn, in_flight, loop, faults>>

\* Trip the handle of turn s, when there is one.
Trip(s) == IF s = NoTurn THEN UNCHANGED turn ELSE SetTurn(s, CancelThenAbort(turn[s]))

\* Step 4, and the grace period starts in a task of its own.
CancelTrips(c) ==
  /\ cancel[c].pc = "marked"
  /\ Trip(in_flight[cancel[c].at])
  /\ cancel' = [cancel EXCEPT ![c].pc = "grace"]
  /\ UNCHANGED <<vars, send, in_flight, loop, faults>>

EndCancel(c, a) ==
  cancel' = [cancel EXCEPT ![c] = [cancel[c] EXCEPT !.pc = "done", !.answer = a]]

\* Steps 5-6: a terminal seen during or after the grace is the answer, and
\* CANCELED is committed when it ends without one.
CancelEnds(c) ==
  /\ cancel[c].pc = "grace"
  /\ \/ /\ Settled
        /\ EndCancel(c, Status)
        /\ UNCHANGED vars
     \/ /\ CommitTerminal("Canceled")
        /\ EndCancel(c, "Canceled")
  /\ UNCHANGED <<send, turn, in_flight, loop, faults>>

-------------------------------------------------------------------------------
(* Background loops of instance i *)

\* poll_once: executors here whose task carries the marker are cancelled.
CancelPoll(i) ==
  /\ in_flight[i] # NoTurn
  /\ tasks[Task].cancel_requested /\ ~Settled
  /\ turn[in_flight[i]].abort_timer = "unarmed"
  /\ Trip(in_flight[i])
  /\ UNCHANGED <<vars, send, in_flight, cancel, loop, faults>>

RenewSnapshot(i) ==
  /\ LeaseEnabled
  /\ ~loop[i].renew
  /\ in_flight[i] # NoTurn
  /\ loop' = [loop EXCEPT ![i].renew = TRUE]
  /\ UNCHANGED <<vars, send, turn, in_flight, cancel, faults>>

RenewStamp(i) ==
  /\ loop[i].renew
  /\ RenewExecutorLeases({Task}, "fresh")
  /\ loop' = [loop EXCEPT ![i].renew = FALSE]
  /\ UNCHANGED <<send, turn, in_flight, cancel, faults>>

Driving(s) == send[s].pc \in {"begun", "leased", "working"}

\* ttl passes without a renewal: no instance holds the task in its registry,
\* and no send is about to.
LeaseLapses ==
  /\ Present(Task)
  /\ tasks[Task].lease_expires_at = "fresh"
  /\ \A i \in Instances : in_flight[i] = NoTurn /\ ~loop[i].renew
  /\ ~\E s \in Sends : Driving(s)
  /\ RenewExecutorLeases({Task}, "lapsed")
  /\ UNCHANGED <<send, turn, in_flight, cancel, loop, faults>>

ReapList(i) ==
  /\ LeaseEnabled
  /\ loop[i].reap = "none"
  /\ Present(Task)
  /\ Status \in EXECUTOR_HELD_STATES
  /\ tasks[Task].lease_expires_at = "lapsed"
  /\ loop' = [loop EXCEPT ![i].reap = "listed"]
  /\ UNCHANGED <<vars, send, turn, in_flight, cancel, faults>>

\* FAILED unless a terminal is there, then the lease is cleared.
ReapCommit(i) ==
  /\ loop[i].reap = "listed"
  /\ CommitTerminal("Failed") \/ (Settled /\ UNCHANGED vars)
  /\ loop' = [loop EXCEPT ![i].reap = "clear"]
  /\ UNCHANGED <<send, turn, in_flight, cancel, faults>>

ReapClear(i) ==
  /\ loop[i].reap = "clear"
  /\ RenewExecutorLeases({Task}, NoLease)
  /\ loop' = [loop EXCEPT ![i].reap = "none"]
  /\ UNCHANGED <<send, turn, in_flight, cancel, faults>>

\* The watchdog finds an executor that made no progress for the timeout.
StallList(i) ==
  /\ "stall" \in Loops
  /\ loop[i].stall = NoTurn
  /\ in_flight[i] # NoTurn
  /\ LET h == turn[in_flight[i]]
     IN  ~h.terminal_committed /\ ~h.client_held /\ ~h.cancelled
  /\ loop' = [loop EXCEPT ![i].stall = in_flight[i]]
  /\ UNCHANGED <<vars, send, turn, in_flight, cancel, faults>>

\* FAILED unless a terminal is there, then the handle is cancelled and armed.
StallCommit(i) ==
  /\ loop[i].stall # NoTurn
  /\ CommitTerminal("Failed") \/ (Settled /\ UNCHANGED vars)
  /\ Trip(loop[i].stall)
  /\ loop' = [loop EXCEPT ![i].stall = NoTurn]
  /\ UNCHANGED <<send, in_flight, cancel, faults>>

IdleList(i) ==
  /\ "idle" \in Loops
  /\ ~loop[i].idle
  /\ Present(Task)
  /\ Status \in CLIENT_HELD_STATES
  /\ loop' = [loop EXCEPT ![i].idle = TRUE]
  /\ UNCHANGED <<vars, send, turn, in_flight, cancel, faults>>

\* CANCELED unless a terminal is there; only a CANCELED of its own trips the
\* handle of the executor that may still run here.
IdleCommit(i) ==
  /\ loop[i].idle
  /\ \/ CommitTerminal("Canceled") /\ Trip(in_flight[i])
     \/ Settled /\ UNCHANGED <<vars, turn>>
  /\ loop' = [loop EXCEPT ![i].idle = FALSE]
  /\ UNCHANGED <<send, in_flight, cancel, faults>>

-------------------------------------------------------------------------------
(* Environment *)

\* Instance i dies with everything it holds in memory, and comes back empty.
Crash(i) ==
  /\ faults.crashes < MaxCrashes
  /\ faults' = [faults EXCEPT !.crashes = @ + 1]
  /\ send' = [s \in Sends |->
       IF send[s].at = i /\ send[s].pc \notin {"idle", "done"}
       THEN [send[s] EXCEPT !.pc = "done", !.answer = "gone"] ELSE send[s]]
  /\ turn' = [s \in Sends |->
       IF send[s].at = i /\ turn[s].exec # "none" THEN DeadHandle ELSE turn[s]]
  /\ in_flight' = [in_flight EXCEPT ![i] = NoTurn]
  /\ cancel' = [c \in Cancels |->
       IF cancel[c].at = i /\ cancel[c].pc \notin {"idle", "done"}
       THEN [cancel[c] EXCEPT !.pc = "done", !.answer = "gone"] ELSE cancel[c]]
  /\ loop' = [loop EXCEPT ![i] = Resting]
  /\ SinksDropped({s \in Sends : send[s].at = i})

\* The request's future is dropped at an await (client gone, transport
\* deadline); a turn it has spawned goes on.
RequestDropped(s) ==
  /\ send[s].pc \notin {"idle", "done"}
  /\ faults.drops < MaxDrops
  /\ faults' = [faults EXCEPT !.drops = @ + 1]
  /\ Answer(s, "gone")
  /\ UNCHANGED <<vars, turn, in_flight, cancel, loop>>

-------------------------------------------------------------------------------
Wait(s) ==
  Yielded(s) \/ SoftDeadline(s) \/ CancelSeen(s) \/ PollSeesTerminal(s)
  \/ HardDeadline(s) \/ ForceFailed(s)

Start(s) ==
  BeginTurn(s) \/ StampLease(s) \/ CommitWorking(s) \/ CommitWorkingRefused(s)
  \/ Spawn(s) \/ SpawnCollides(s)

Executor(s) ==
  \/ \E st \in TaskState, r \in BOOLEAN : SinkCommits(s, st, r)
  \/ \E r \in BOOLEAN : SinkRefused(s, r)
  \/ ExecutorReturns(s) \/ PostExecuteLost(s)
  \/ ArtifactRead(s) \/ (\E a \in Artifacts : ArtifactWrite(s, a)) \/ ArtifactRefused(s)

Supervisor(s) == SupervisorLeaves(s) \/ SupervisorClears(s)

CancelCall(c) == CancelMarks(c) \/ CancelTrips(c) \/ CancelEnds(c)

Renew(i) == RenewSnapshot(i) \/ RenewStamp(i)
Reap(i) == ReapList(i) \/ ReapCommit(i) \/ ReapClear(i)
Stall(i) == StallList(i) \/ StallCommit(i)
Idle(i) == IdleList(i) \/ IdleCommit(i)

TurnNext ==
  \/ \E s \in Sends :
       \/ ResolveNew(s) \/ ResolveFollowUp(s)
       \/ Start(s) \/ Wait(s)
       \/ Executor(s) \/ SinkAnswered(s) \/ AbortTimer(s) \/ AbortLands(s)
       \/ Supervisor(s) \/ RequestDropped(s)
  \/ \E c \in Cancels : CancelCall(c)
  \/ \E i \in Instances : CancelPoll(i) \/ Renew(i) \/ Reap(i) \/ Stall(i) \/ Idle(i) \/ Crash(i)
  \/ LeaseLapses

\* Tasks of the runtime that can go on do so, timers expire, loops tick, and a
\* lease nobody renews lapses.  Nothing makes an executor do anything.
TurnFairness ==
  /\ \A s \in Sends :
       /\ WF_turnVars(Start(s)) /\ WF_turnVars(Wait(s))
       /\ WF_turnVars(SinkAnswered(s)) /\ WF_turnVars(AbortTimer(s))
       /\ WF_turnVars(AbortLands(s)) /\ WF_turnVars(Supervisor(s))
  /\ \A c \in Cancels : WF_turnVars(CancelTrips(c) \/ CancelEnds(c))
  /\ \A i \in Instances :
       /\ WF_turnVars(CancelPoll(i)) /\ WF_turnVars(Renew(i)) /\ WF_turnVars(Reap(i))
       /\ WF_turnVars(StallCommit(i)) /\ WF_turnVars(IdleCommit(i))
  /\ WF_turnVars(LeaseLapses)

TurnSpec == TurnInit /\ [][TurnNext]_turnVars /\ TurnFairness

-------------------------------------------------------------------------------
(* What clients and operators are promised *)

\* A task that is WORKING carries a lease, so whichever server dies, a peer's
\* reaper can tell: the lease is written before WORKING, renewed while the
\* executor runs, and cleared only by a turn that ended.
WorkingIsLeased ==
  LeaseEnabled /\ Working =>
    tasks[Task].lease_expires_at # NoLease

\* A terminal state told to a client, by a blocking send or by a cancel, is
\* the state the task ends in, whoever won the race to commit it.
AnswerIsVerdict ==
  /\ \A s \in Sends : send[s].answer \in TERMINAL_STATES => Status = send[s].answer
  /\ \A c \in Cancels : cancel[c].answer \in TERMINAL_STATES => Status = cancel[c].answer

\* An instance never runs two executors for the task, and never loses sight of
\* one: a running executor is the one its registry holds.
RunningIsRegistered ==
  \A s \in Sends : turn[s].exec = "running" => Registered(s) = s

\* With the lease on, a WORKING task does not stay WORKING when its server
\* dies, its executor hangs or its last commit is lost.
WorkingEnds == Working ~> ~Working

\* A blocking send is answered, whatever its executor does.
SendsAnswered == \A s \in Sends : send[s].pc = "waiting" ~> send[s].pc = "done"
===============================================================================
