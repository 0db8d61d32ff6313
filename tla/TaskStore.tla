------------------------------- MODULE TaskStore -------------------------------
(***************************************************************************)
(* The storage boundary every other part of the server writes through: the *)
(* task rows, the per-task event logs with their counters, the push        *)
(* configurations with their causal floor, and the pending-dispatch        *)
(* markers.  Each action is one storage call, atomic because the call      *)
(* holds the locks (or the transaction) it needs from its first read to    *)
(* its last write; the two calls that are not atomic, create_config and    *)
(* the sink's read-modify-write of an artifact, are split where they let   *)
(* go of the locks.                                                        *)
(*                                                                         *)
(* A HashMap is a function whose domain is the set of keys present.  A     *)
(* tenant is part of the task key.  Ids are UUIDv7, so a key that was ever *)
(* used is never created again.                                            *)
(***************************************************************************)
EXTENDS Integers, TaskStates

CONSTANTS
  Tasks,        \* task keys (tenant, task id)
  Owners,       \* principals
  Items,        \* messages and artifacts a row can carry
  Configs,      \* push configuration ids
  Writers,      \* sinks between their get_task and their write
  LeaseTimes,   \* executor-lease expiries
  NoLease,      \* lease_expires_at = None
  PushEnabled,  \* push_dispatch_enabled
  MaxSeq,       \* bound: events per task
  MaxAttempts   \* create_config's MAX_ATTEMPTS

ASSUME BoundsAssumption == MaxSeq \in Nat /\ MaxAttempts \in Nat \ {0}
ASSUME PushAssumption == PushEnabled \in BOOLEAN

VARIABLES
  tasks,               \* key -> row
  event_counters,      \* key -> last sequence number handed out
  events,              \* key -> set of persisted events
  push_configs,        \* (key, config id) -> registered_after_event_sequence
  pending_dispatches,  \* (key, sequence) markers written with a terminal event
  registering,         \* create_config calls between their two phases
  snapshots            \* what each sink read and will write back

vars == <<tasks, event_counters, events, push_configs, pending_dispatches,
          registering, snapshots>>

Row == [owner: Owners, status: TaskState, content: SUBSET Items,
        cancel_requested: BOOLEAN, lease_expires_at: LeaseTimes \cup {NoLease},
        latest_event_sequence: Nat]

\* state = "Artifact" for an ArtifactUpdate, the new status for a StatusUpdate.
Event == [seq: Nat \ {0}, state: TaskState \cup {"Artifact"}]

\* A create_config call between its phases: reading is FALSE during a backoff.
Registration == [seq_read: Nat, reading: BOOLEAN, attempt: 0..MaxAttempts-1]

\* The task a sink holds between get_task and update_task_with_events.
Snapshot == [task: Tasks, owner: Owners, status: TaskState, content: SUBSET Items]

ConfigKeys == Tasks \X Configs

Put(f, k, v) == [x \in DOMAIN f \cup {k} |-> IF x = k THEN v ELSE f[x]]
Drop(f, k) == [x \in DOMAIN f \ {k} |-> f[x]]

Present(t) == t \in DOMAIN tasks
Terminal(t) == tasks[t].status \in TERMINAL_STATES
OwnedBy(t, o) == Present(t) /\ tasks[t].owner = o

\* get_latest: the row's causal floor, 0 when there is no row.
FloorOf(t) == IF Present(t) THEN tasks[t].latest_event_sequence ELSE 0

NextSeq(t) == event_counters[t] + 1

\* A HashMap from keys in K to values in R.
MapOf(f, K, R) == DOMAIN f \subseteq K /\ f \in [DOMAIN f -> R]

TypeOK ==
  /\ MapOf(tasks, Tasks, Row)
  /\ event_counters \in [Tasks -> Nat]
  /\ events \in [Tasks -> SUBSET Event]
  /\ MapOf(push_configs, ConfigKeys, Nat)
  /\ pending_dispatches \subseteq Tasks \X (Nat \ {0})
  /\ MapOf(registering, ConfigKeys, Registration)
  /\ MapOf(snapshots, Writers, Snapshot)

Init ==
  /\ tasks = [t \in {} |-> t]
  /\ event_counters = [t \in Tasks |-> 0]
  /\ events = [t \in Tasks |-> {}]
  /\ push_configs = [k \in {} |-> 0]
  /\ pending_dispatches = {}
  /\ registering = [k \in {} |-> 0]
  /\ snapshots = [w \in {} |-> 0]

-------------------------------------------------------------------------------
(* Writes of the task row together with its event *)

\* Append one event under the next sequence number of the task.
AppendEvent(t, state) ==
  /\ NextSeq(t) <= MaxSeq
  /\ event_counters' = [event_counters EXCEPT ![t] = NextSeq(t)]
  /\ events' = [events EXCEPT ![t] = @ \cup {[seq |-> NextSeq(t), state |-> state]}]

HasConfigs(t) == \E k \in DOMAIN push_configs : k[1] = t

\* create_task_with_events, as start_task_turn calls it: a fresh id, SUBMITTED,
\* the client's message, one event.
CreateTaskWithEvents(t, o, message) ==
  /\ event_counters[t] = 0
  /\ AppendEvent(t, "Submitted")
  /\ tasks' = Put(tasks, t,
       [owner |-> o, status |-> "Submitted", content |-> {message},
        cancel_requested |-> FALSE, lease_expires_at |-> NoLease,
        latest_event_sequence |-> NextSeq(t)])
  /\ UNCHANGED <<push_configs, pending_dispatches, registering, snapshots>>

\* update_task_status_with_events succeeds: the transition is valid, and the
\* row, its event and (for a terminal, when a config exists) its
\* pending-dispatch marker are written in one boundary.
UpdateTaskStatusWithEvents(t, o, new_status) ==
  /\ OwnedBy(t, o)
  /\ ValidTransition(tasks[t].status, new_status)
  /\ AppendEvent(t, new_status)
  /\ tasks' = [tasks EXCEPT ![t] =
       [@ EXCEPT !.status = new_status, !.latest_event_sequence = NextSeq(t)]]
  /\ pending_dispatches' =
       IF PushEnabled /\ new_status \in TERMINAL_STATES /\ HasConfigs(t)
       THEN pending_dispatches \cup {<<t, NextSeq(t)>>}
       ELSE pending_dispatches
  /\ UNCHANGED <<push_configs, registering, snapshots>>

\* get_task, by a sink about to merge an artifact into what it read.
GetTask(w, t, o) ==
  /\ w \notin DOMAIN snapshots
  /\ OwnedBy(t, o)
  /\ snapshots' = Put(snapshots, w,
       [task |-> t, owner |-> o, status |-> tasks[t].status,
        content |-> tasks[t].content])
  /\ UNCHANGED <<tasks, event_counters, events, push_configs,
                 pending_dispatches, registering>>

\* (mutant) update_task_with_events without its check for a terminal row.
UpdateTaskWithEventsNoCas(w, artifact) ==
  /\ w \in DOMAIN snapshots
  /\ LET s == snapshots[w]
         t == s.task
     IN  /\ OwnedBy(t, s.owner)
         /\ AppendEvent(t, "Artifact")
         /\ tasks' = [tasks EXCEPT ![t] =
              [@ EXCEPT !.status = s.status,
                        !.content = s.content \cup {artifact},
                        !.latest_event_sequence = NextSeq(t)]]
  /\ snapshots' = Drop(snapshots, w)
  /\ UNCHANGED <<push_configs, pending_dispatches, registering>>

\* (mutant) It rebuilds the row from the task alone: the cancel marker and the
\* lease start over, and the floor stays behind.
UpdateTaskWithEventsRebuilding(w, artifact) ==
  /\ w \in DOMAIN snapshots
  /\ LET s == snapshots[w]
         t == s.task
     IN  /\ OwnedBy(t, s.owner)
         /\ ~Terminal(t)
         /\ AppendEvent(t, "Artifact")
         /\ tasks' = [tasks EXCEPT ![t] =
              [@ EXCEPT !.status = s.status,
                        !.content = s.content \cup {artifact},
                        !.cancel_requested = FALSE,
                        !.lease_expires_at = NoLease]]
  /\ snapshots' = Drop(snapshots, w)
  /\ UNCHANGED <<push_configs, pending_dispatches, registering>>

\* update_task_with_events: the whole task is replaced by the snapshot with the
\* artifact merged in, unless a terminal was committed meanwhile.  The cancel
\* marker, the lease and the floor are the stored ones.
UpdateTaskWithEvents(w, artifact) ==
  /\ w \in DOMAIN snapshots
  /\ LET s == snapshots[w]
         t == s.task
     IN  /\ OwnedBy(t, s.owner)
         /\ ~Terminal(t)
         /\ AppendEvent(t, "Artifact")
         /\ tasks' = [tasks EXCEPT ![t] =
              [@ EXCEPT !.status = s.status,
                        !.content = s.content \cup {artifact},
                        !.latest_event_sequence = NextSeq(t)]]
  /\ snapshots' = Drop(snapshots, w)
  /\ UNCHANGED <<push_configs, pending_dispatches, registering>>

\* The same call refused: TaskNotFound, or TerminalStateAlreadySet.
UpdateTaskWithEventsRefused(w) ==
  /\ w \in DOMAIN snapshots
  /\ LET s == snapshots[w] IN OwnedBy(s.task, s.owner) => Terminal(s.task)
  /\ snapshots' = Drop(snapshots, w)
  /\ UNCHANGED <<tasks, event_counters, events, push_configs,
                 pending_dispatches, registering>>

\* The futures of these sinks are dropped at an await (turn aborted, server
\* gone): what they read is forgotten.
SinksDropped(ws) ==
  /\ snapshots' = [w \in DOMAIN snapshots \ ws |-> snapshots[w]]
  /\ UNCHANGED <<tasks, event_counters, events, push_configs,
                 pending_dispatches, registering>>

-------------------------------------------------------------------------------
(* Writes of the row alone *)

\* append_message checks the owner and nothing else.
AppendMessage(t, o, message) ==
  /\ OwnedBy(t, o)
  /\ tasks' = [tasks EXCEPT ![t] = [@ EXCEPT !.content = tasks[t].content \cup {message}]]
  /\ UNCHANGED <<event_counters, events, push_configs, pending_dispatches,
                 registering, snapshots>>

SetCancelRequested(t, o) ==
  /\ OwnedBy(t, o)
  /\ ~Terminal(t)
  /\ tasks' = [tasks EXCEPT ![t] = [@ EXCEPT !.cancel_requested = TRUE]]
  /\ UNCHANGED <<event_counters, events, push_configs, pending_dispatches,
                 registering, snapshots>>

\* supervisor_renew_executor_leases: stamps (or clears) every listed row that
\* still exists, whatever its state.
RenewExecutorLeases(task_ids, expires_at) ==
  /\ tasks' = [t \in DOMAIN tasks |->
                 IF t \in task_ids
                 THEN [tasks[t] EXCEPT !.lease_expires_at = expires_at]
                 ELSE tasks[t]]
  /\ UNCHANGED <<event_counters, events, push_configs, pending_dispatches,
                 registering, snapshots>>

-------------------------------------------------------------------------------
(* Push configurations *)

\* create_config phase 1: read the floor and let go of the rows.  Also the
\* retry's read, once its backoff is over.
CreateConfigRead(k) ==
  /\ \/ k \notin DOMAIN registering
        /\ registering' = Put(registering, k,
             [seq_read |-> FloorOf(k[1]), reading |-> TRUE, attempt |-> 0])
     \/ k \in DOMAIN registering
        /\ ~registering[k].reading
        /\ registering' = [registering EXCEPT ![k] =
             [@ EXCEPT !.seq_read = FloorOf(k[1]), !.reading = TRUE]]
  /\ UNCHANGED <<tasks, event_counters, events, push_configs,
                 pending_dispatches, snapshots>>

\* (mutant) Phase 2 does not compare the floor again.
CreateConfigInsertBlind(k) ==
  /\ k \in DOMAIN registering
  /\ registering[k].reading
  /\ push_configs' = Put(push_configs, k, registering[k].seq_read)
  /\ registering' = Drop(registering, k)
  /\ UNCHANGED <<tasks, event_counters, events, pending_dispatches, snapshots>>

\* Phase 2, with the rows locked again: the floor has not moved, so the config
\* is stored (an existing id is replaced) under it.
CreateConfigInsert(k) ==
  /\ k \in DOMAIN registering
  /\ registering[k].reading
  /\ FloorOf(k[1]) = registering[k].seq_read
  /\ push_configs' = Put(push_configs, k, registering[k].seq_read)
  /\ registering' = Drop(registering, k)
  /\ UNCHANGED <<tasks, event_counters, events, pending_dispatches, snapshots>>

\* Phase 2 finds the floor moved: back off and read again, or
\* CreateConfigCasTimeout after the last attempt.
CreateConfigConflict(k) ==
  /\ k \in DOMAIN registering
  /\ registering[k].reading
  /\ FloorOf(k[1]) # registering[k].seq_read
  /\ registering' = IF registering[k].attempt + 1 >= MaxAttempts
                    THEN Drop(registering, k)
                    ELSE [registering EXCEPT ![k] =
                           [@ EXCEPT !.reading = FALSE,
                                     !.attempt = registering[k].attempt + 1]]
  /\ UNCHANGED <<tasks, event_counters, events, push_configs,
                 pending_dispatches, snapshots>>

DeleteConfig(k) ==
  /\ k \in DOMAIN push_configs
  /\ push_configs' = Drop(push_configs, k)
  /\ UNCHANGED <<tasks, event_counters, events, pending_dispatches,
                 registering, snapshots>>

\* list_configs_eligible_at_event: registered strictly before the event.
EligibleAtEvent(t, seq) ==
  {k \in DOMAIN push_configs : k[1] = t /\ push_configs[k] < seq}

-------------------------------------------------------------------------------
(* cleanup_expired; ages are abstracted to "old enough" *)

\* The task sweep removes terminal rows, and nothing that refers to them.
CleanupTask(t) ==
  /\ Present(t)
  /\ Terminal(t)
  /\ tasks' = Drop(tasks, t)
  /\ UNCHANGED <<event_counters, events, push_configs, pending_dispatches,
                 registering, snapshots>>

\* (mutant) An emptied log is dropped together with its counter.
CleanupEventsAndCounter(t, upto) ==
  /\ \E e \in events[t] : e.seq <= upto
  /\ events' = [events EXCEPT ![t] = {e \in @ : e.seq > upto}]
  /\ event_counters' =
       IF events'[t] = {} THEN [event_counters EXCEPT ![t] = 0] ELSE event_counters
  /\ UNCHANGED <<tasks, push_configs, pending_dispatches, registering, snapshots>>

\* The event sweep drops the oldest events of a log; the counter stays.
CleanupEvents(t, upto) ==
  /\ \E e \in events[t] : e.seq <= upto
  /\ events' = [events EXCEPT ![t] = {e \in @ : e.seq > upto}]
  /\ UNCHANGED <<tasks, event_counters, push_configs, pending_dispatches,
                 registering, snapshots>>

-------------------------------------------------------------------------------
TaskCall(t) ==
  \/ \E o \in Owners, i \in Items : CreateTaskWithEvents(t, o, i) \/ AppendMessage(t, o, i)
  \/ \E o \in Owners, s \in TaskState : UpdateTaskStatusWithEvents(t, o, s)
  \/ \E o \in Owners : SetCancelRequested(t, o)
  \/ \E e \in LeaseTimes \cup {NoLease} : RenewExecutorLeases({t}, e)
  \/ CleanupTask(t)
  \/ \E n \in 1..MaxSeq : CleanupEvents(t, n)

SinkCall(w) ==
  \/ \E t \in Tasks, o \in Owners : GetTask(w, t, o)
  \/ \E i \in Items : UpdateTaskWithEvents(w, i)
  \/ UpdateTaskWithEventsRefused(w)

ConfigCall(k) ==
  CreateConfigRead(k) \/ CreateConfigInsert(k) \/ CreateConfigConflict(k) \/ DeleteConfig(k)

Next ==
  \/ \E t \in Tasks : TaskCall(t)
  \/ \E w \in Writers : SinkCall(w)
  \/ \E k \in ConfigKeys : ConfigCall(k)
  \/ \E ws \in SUBSET Writers : SinksDropped(ws)

Spec == Init /\ [][Next]_vars

-------------------------------------------------------------------------------
(* What the store promises *)

TerminalEvents(t) == {e \in events[t] : e.state \in TERMINAL_STATES}

\* Racing writers (executor, cancel, timeouts, reaper) resolve to one terminal
\* event per task, nothing is ever appended after it, and the row reports the
\* state that event announced: the TerminalStateAlreadySet compare-and-set and
\* the one write boundary of row and event.
TerminalEndsLog ==
  \A t \in Tasks : \A e \in TerminalEvents(t) :
    /\ \A f \in events[t] : f # e => f.seq < e.seq
    /\ e.seq = event_counters[t]
    /\ Present(t) => tasks[t].status = e.state

\* A row never reports a terminal that was not announced: its event is the
\* last number handed out, and only retention can have removed it.
TerminalIsAnnounced ==
  \A t \in DOMAIN tasks : Terminal(t) =>
    \A e \in events[t] : e.seq = event_counters[t] => e.state = tasks[t].status

\* The floor create_config stamps is the counter that numbers events, through
\* full-task replacements and retention of the log.
FloorIsCounter ==
  \A t \in DOMAIN tasks : tasks[t].latest_event_sequence = event_counters[t]

\* A config is eligible for a terminal event only if the commit of that event
\* left a marker for it, so skipping the marker when no config exists loses no
\* delivery, whatever create_config was in flight.
EligibleHasMarker ==
  PushEnabled =>
    \A t \in DOMAIN tasks : \A e \in TerminalEvents(t) :
      EligibleAtEvent(t, e.seq) # {} => <<t, e.seq>> \in pending_dispatches

\* A step never renumbers, rewrites or inserts behind the newest event: what a
\* subscriber that has read up to a sequence number has not seen is above it,
\* after retention too.
LogOnlyGrowsAtItsEnd ==
  [][\A t \in Tasks :
       /\ event_counters'[t] >= event_counters[t]
       /\ \A e \in events'[t] \ events[t] : e.seq > event_counters[t]]_vars

\* Full-task replacement by a sink that read the row earlier keeps the cancel
\* marker and the lease written since: only retention ends a marker, only
\* renewals move a lease.
MarkersSurviveRewrites ==
  [][\A t \in DOMAIN tasks \cap DOMAIN tasks' :
       /\ tasks[t].cancel_requested => tasks'[t].cancel_requested
       /\ events'[t] # events[t] =>
            tasks'[t].lease_expires_at = tasks[t].lease_expires_at]_vars

\* What a task's row amounts to for its clients.
LifeOf(t) ==
  IF Present(t) THEN IF Terminal(t) THEN tasks[t].status ELSE "open"
  ELSE IF event_counters[t] = 0 THEN "absent" ELSE "removed"

\* The store implements the promise of TaskVerdict: whatever interleaving of
\* status writes, stale full-task replacements and retention sweeps, a verdict
\* is reached once and kept until the row is reaped.
V == INSTANCE TaskVerdict WITH life <- [t \in Tasks |-> LifeOf(t)]
ImplementsVerdict == V!Spec
===============================================================================
