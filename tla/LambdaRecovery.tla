----------------------------- MODULE LambdaRecovery -----------------------------
(***************************************************************************)
(* Push recovery where no process outlives a request.  A terminal commit   *)
(* leaves a pending-dispatch marker; three handlers may run its fan-out:   *)
(* the continuation spawned by the committing invocation, which may be     *)
(* frozen for good; the worker of the marker table's change stream, which  *)
(* takes each INSERT; and the scheduled tick, which lists markers whose    *)
(* recorded_at is older than its cutoff.  The task has one terminal event, *)
(* so it has at most one marker.  The fan-out's deliveries, and the claims *)
(* that make a repeated one harmless, are PushDelivery's; here it either   *)
(* lists its configurations or fails.                                      *)
(***************************************************************************)
EXTENDS DurableQueue

Handlers == {"inline", "stream", "tick"}

CONSTANTS
  Deployments,  \* sets of handlers that run in a deployment
  MaxInserts    \* bound: stream records waiting

ASSUME RecoveryAssumption ==
  /\ PushEnabled
  /\ Deployments \subseteq SUBSET Handlers
  /\ MaxInserts \in Nat \ {0}

VARIABLES
  deployed,   \* the handlers that run in this deployment
  inserts,    \* INSERT records of the marker the stream worker has not taken
  handler,    \* what each handler is doing
  stale,      \* recorded_at is older than the tick's cutoff
  dispatched  \* a fan-out listed the configurations and delivered to them

recoveryVars == <<deployed, inserts, handler, stale, dispatched>>
lambdaVars == <<vars, queueVars, recoveryVars>>

RecoveryTypeOK ==
  /\ QueueTypeOK
  /\ deployed \in Deployments
  /\ inserts \in 0..MaxInserts
  /\ handler \in [Handlers -> {"idle", "taken", "refreshing", "fanout", "deleting"}]
  /\ stale \in BOOLEAN /\ dispatched \in BOOLEAN

RecoveryInit ==
  /\ deployed \in Deployments
  /\ inserts = 0
  /\ handler = [h \in Handlers |-> "idle"]
  /\ stale = FALSE
  /\ dispatched = FALSE

MarkerPresent == pending_dispatches # {}

\* The task's terminal event; it stays in the log.
TerminalSeq == event_counters[Task]

Handle(h, pc) == handler' = [handler EXCEPT ![h] = pc]
PutMarker == pending_dispatches' = pending_dispatches \cup {<<Task, TerminalSeq>>}
DeleteMarker == pending_dispatches' = pending_dispatches \ {<<Task, TerminalSeq>>}
OtherRows == <<tasks, event_counters, events, push_configs, registering, snapshots>>

MarkerInserted == pending_dispatches' \ pending_dispatches # {}

\* A write that creates the marker is an INSERT of the stream, one that replaces
\* it a MODIFY.
Streamed ==
  IF "stream" \in deployed /\ MarkerInserted
  THEN inserts < MaxInserts /\ inserts' = inserts + 1
  ELSE UNCHANGED inserts

-------------------------------------------------------------------------------
(* A step of the queue, with what its commit starts here *)

Lifted(A) ==
  /\ A
  /\ Streamed
  /\ handler' = IF MarkerInserted /\ "inline" \in deployed
                THEN [handler EXCEPT !["inline"] = "fanout"]
                ELSE handler
  /\ UNCHANGED <<deployed, stale, dispatched>>

QueueStep == Lifted(QueueNext)

\* The environment is frozen before the spawned continuation ends.
InlineLost ==
  /\ handler["inline"] # "idle"
  /\ Handle("inline", "idle")
  /\ UNCHANGED <<vars, queueVars, deployed, inserts, stale, dispatched>>

-------------------------------------------------------------------------------
(* try_redispatch_pending, by the stream worker and the tick *)

\* handle_stream_event takes an INSERT; the record is back if it fails.
StreamTakes ==
  /\ handler["stream"] = "idle"
  /\ inserts > 0
  /\ inserts' = inserts - 1
  /\ Handle("stream", "taken")
  /\ UNCHANGED <<vars, queueVars, deployed, stale, dispatched>>

\* list_stale_pending_dispatches.
TickLists ==
  /\ "tick" \in deployed
  /\ handler["tick"] = "idle"
  /\ MarkerPresent /\ stale
  /\ Handle("tick", "taken")
  /\ UNCHANGED <<vars, queueVars, deployed, inserts, stale, dispatched>>

\* Err: a batch-item failure returns the record, the tick leaves the marker.
Fails(h) ==
  /\ Handle(h, "idle")
  /\ inserts' = IF h = "stream" THEN inserts + 1 ELSE inserts

\* get_task: an error ends the attempt, a deleted task its marker.
LoadForDispatch(h) ==
  /\ handler[h] = "taken"
  /\ \/ /\ Present(Task)
        /\ Handle(h, "refreshing")
        /\ UNCHANGED <<vars, faults, inserts>>
     \/ /\ ~Present(Task)
        /\ DeleteMarker
        /\ Handle(h, "idle")
        /\ UNCHANGED <<OtherRows, faults, inserts>>
     \/ /\ inserts < MaxInserts
        /\ Fault
        /\ Fails(h)
        /\ UNCHANGED vars
  /\ UNCHANGED <<send, queue, worker, cancel, sweep, deployed, stale, dispatched>>

\* record_pending_dispatch puts the marker, whether or not it is still there;
\* a failed refresh is only logged.
Refresh(h) ==
  /\ handler[h] = "refreshing"
  /\ \/ PutMarker /\ stale' = FALSE /\ UNCHANGED <<OtherRows, faults>>
     \/ Fault /\ UNCHANGED <<vars, stale>>
  /\ Streamed
  /\ Handle(h, "fanout")
  /\ UNCHANGED <<send, queue, worker, cancel, sweep, deployed, dispatched>>

\* (mutant) A configuration list that cannot be read counts as empty.
FanOutListIgnored(h) ==
  /\ handler[h] = "fanout"
  /\ \/ dispatched' = TRUE /\ UNCHANGED faults
     \/ Fault /\ UNCHANGED dispatched
  /\ Handle(h, "deleting")
  /\ UNCHANGED <<vars, send, queue, worker, cancel, sweep, deployed, inserts, stale>>

\* run_fanout: the eligible configurations are delivered to, and the marker is
\* deleted next; with the list unread after its retries the marker stays.
FanOut(h) ==
  /\ handler[h] = "fanout"
  /\ \/ /\ dispatched' = TRUE
        /\ Handle(h, "deleting")
        /\ UNCHANGED <<faults, inserts>>
     \/ /\ inserts < MaxInserts
        /\ Fault
        /\ Fails(h)
        /\ UNCHANGED dispatched
  /\ UNCHANGED <<vars, send, queue, worker, cancel, sweep, deployed, stale>>

\* delete_pending_dispatch; its error is dropped and the handler reports success.
DeleteAfterFanOut(h) ==
  /\ handler[h] = "deleting"
  /\ \/ DeleteMarker /\ UNCHANGED <<OtherRows, faults>>
     \/ Fault /\ UNCHANGED vars
  /\ Handle(h, "idle")
  /\ UNCHANGED <<send, queue, worker, cancel, sweep, deployed, inserts, stale, dispatched>>

MarkerAges ==
  /\ MarkerPresent /\ ~stale
  /\ stale' = TRUE
  /\ UNCHANGED <<vars, queueVars, deployed, inserts, handler, dispatched>>

-------------------------------------------------------------------------------
Recover(h) == LoadForDispatch(h) \/ Refresh(h) \/ FanOut(h) \/ DeleteAfterFanOut(h)

LambdaNext ==
  \/ QueueStep
  \/ InlineLost \/ StreamTakes \/ TickLists \/ MarkerAges
  \/ \E h \in Handlers : Recover(h)

LambdaInit == QueueInit /\ RecoveryInit

\* A visible record is delivered, an invocation ends (the platform kills one
\* that does not, which for a request is a fault), the tick is scheduled and a
\* marker ages.  A cancel or the spawned continuation may stop anywhere.
LambdaFairness ==
  /\ \A s \in Sends :
       /\ WF_lambdaVars(Lifted(Request(s)))
       /\ WF_lambdaVars(Lifted(\E w \in Workers : Receive(w, s)))
       /\ WF_lambdaVars(Lifted(DeadLetter(s)))
  /\ \A w \in Workers : WF_lambdaVars(Lifted(Consume(w) \/ WorkerDies(w)))
  /\ WF_lambdaVars(StreamTakes) /\ WF_lambdaVars(TickLists) /\ WF_lambdaVars(MarkerAges)
  /\ WF_lambdaVars(Recover("stream")) /\ WF_lambdaVars(Recover("tick"))

LambdaSpec == LambdaInit /\ [][LambdaNext]_lambdaVars /\ LambdaFairness

-------------------------------------------------------------------------------
\* Where a recovery handler is deployed, a configuration that was to have the
\* terminal event is delivered to, though the committing invocation may be frozen
\* and a read of the recovery may fail, unless retention reaps the task first.
DispatchHappens ==
  (/\ deployed \cap {"stream", "tick"} # {}
   /\ Settled
   /\ EligibleAtEvent(Task, TerminalSeq) # {})
    ~> (dispatched \/ ~Present(Task))

\* An event is dispatched and done with: in the end no marker is left and the
\* stream worker has nothing to take.
RecoveryQuiesces == MarkerPresent ~> [](~MarkerPresent /\ inserts = 0)
===============================================================================
