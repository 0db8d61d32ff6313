------------------------------ MODULE SqliteStore ------------------------------
(***************************************************************************)
(* The SQLite backend.  A transaction is serialised with every other       *)
(* writer: it takes effect in one step or fails as busy.  What a call      *)
(* reads outside its transaction is a step of its own.                     *)
(***************************************************************************)
EXTENDS DurableRows

\* SELECT COALESCE(MAX(event_sequence), 0) + 1.
NextSequence == 1 + (IF log = {} THEN 0 ELSE Max({e.seq : e \in log}))

CreateTaskWithEvents ==
  /\ highest = 0
  /\ Commits(NextSequence, "Submitted")
  /\ row' = FreshRow
  /\ UNCHANGED <<backend, pushVars, sideVars, counter, bodies, calls>>

\* The transaction reads the row and validates the transition.
MayBecome(new_status) == HasRow /\ ValidTransition(row.status, new_status)

\* One transaction reads the row, validates the transition, updates the row
\* unless it is terminal, appends the event and, when a config exists, writes
\* the marker.
UpdateTaskStatusWithEvents(c, new_status) ==
  /\ InOneStep(c)
  /\ MayBecome(new_status)
  /\ Commits(NextSequence, new_status)
  /\ row' = [row EXCEPT !.status = new_status, !.floor = Max({@, NextSequence})]
  /\ markers' = IF new_status \in TERMINAL_STATES /\ Registered # {}
                THEN markers \cup {NextSequence} ELSE markers
  /\ UNCHANGED <<backend, sideVars, counter, bodies, configs>>

\* get_task reads the row, for a sink's artifact or for append_message.
GetTask(c, op) ==
  /\ HasRow
  /\ Begins(c, [NoCall EXCEPT !.op = op, !.at = "row", !.row = row])
  /\ UNCHANGED <<backend, taskVars, logVars, pushVars, sideVars>>

\* rehydrate_task then reads the bodies the manifest named.
RehydrateTask(c) ==
  /\ calls[c].at = "row"
  /\ Continues(c, [calls[c] EXCEPT !.at = "task",
                                   !.bodies = Rehydrated(calls[c].row.manifest)])
  /\ UNCHANGED <<backend, taskVars, logVars, pushVars, sideVars>>

\* apply_artifact_plan: upsert the plan's writes, delete its deletes.
ApplyArtifactPlan(plan) == bodies' = AfterPlan(plan)

\* The whole task is replaced unless a terminal was committed meanwhile; the
\* manifest is read in the transaction.
UpdateTaskWithEvents(c) ==
  /\ At(c, "artifact", "task")
  /\ HasRow
  /\ ~Terminal
  /\ Commits(NextSequence, "Artifact")
  /\ row' = [row EXCEPT !.status = calls[c].row.status, !.messages = Messages(c),
                        !.manifest = Incoming(c), !.floor = Max({@, NextSequence})]
  /\ ApplyArtifactPlan(Reconcile(Incoming(c), row.manifest))
  /\ Ends(c)
  /\ UNCHANGED <<backend, pushVars, sideVars, counter>>

\* (mutant) The plan is computed from the manifest get_task read.
UpdateTaskStalePlan(c) ==
  /\ At(c, "message", "task")
  /\ HasRow
  /\ row' = [row EXCEPT !.status = calls[c].row.status, !.messages = Messages(c),
                        !.manifest = Incoming(c)]
  /\ ApplyArtifactPlan(Reconcile(Incoming(c), calls[c].row.manifest))
  /\ Ends(c)
  /\ UNCHANGED <<backend, logVars, pushVars, sideVars>>

\* (mutant) The whole row is written as it was read, the other calls' columns too.
UpdateTaskReplacing(c) ==
  /\ At(c, "message", "task")
  /\ HasRow
  /\ row' = [calls[c].row EXCEPT !.messages = Messages(c), !.manifest = Incoming(c)]
  /\ ApplyArtifactPlan(Reconcile(Incoming(c), row.manifest))
  /\ Ends(c)
  /\ UNCHANGED <<backend, logVars, pushVars, sideVars>>

\* update_task, the write of append_message: no check of the stored state.
UpdateTask(c) ==
  /\ At(c, "message", "task")
  /\ HasRow
  /\ row' = [row EXCEPT !.status = calls[c].row.status, !.messages = Messages(c),
                        !.manifest = Incoming(c)]
  /\ ApplyArtifactPlan(Reconcile(Incoming(c), row.manifest))
  /\ Ends(c)
  /\ UNCHANGED <<backend, logVars, pushVars, sideVars>>

\* One conditional UPDATE.
SetCancelRequested(c) ==
  /\ InOneStep(c)
  /\ HasRow
  /\ ~Terminal
  /\ row' = [row EXCEPT !.cancel = TRUE]
  /\ UNCHANGED <<backend, logVars, pushVars, sideVars, bodies>>

\* (mutant) The floor is not read.
CreateConfigNoFloor(c, k) ==
  /\ InOneStep(c)
  /\ configs' = [configs EXCEPT ![k] = [floor |-> 0, settled |-> TRUE]]
  /\ UNCHANGED <<backend, taskVars, logVars, sideVars, markers>>

\* The floor is read and the config inserted in one transaction; its compare of
\* the floor cannot fail there.  No row: floor 0.
CreateConfig(c, k) ==
  /\ InOneStep(c)
  /\ configs' = [configs EXCEPT ![k] =
       [floor |-> StoredFloor, settled |-> TRUE]]
  /\ UNCHANGED <<backend, taskVars, logVars, sideVars, markers>>

DeleteConfig(c, k) ==
  /\ InOneStep(c)
  /\ k \in Registered
  /\ configs' = [configs EXCEPT ![k] = None]
  /\ UNCHANGED <<backend, taskVars, logVars, sideVars, markers>>

\* cleanup_expired, its event sweep (event_ttl_seconds > 0, the
\* default is off): the oldest events go first, a live task's too.
CleanupEvents(upto) ==
  /\ \E e \in log : e.seq = upto
  /\ log' = {e \in log : e.seq > upto}
  /\ UNCHANGED <<backend, taskVars, pushVars, sideVars, counter, highest, calls>>

\* Its task sweep.
CleanupTask ==
  /\ HasRow
  /\ Terminal
  /\ row' = None
  /\ lease' = None
  /\ UNCHANGED <<backend, bodies, logVars, pushVars, delivery, calls>>

\* Its sweep of the bodies whose task is gone.
CleanupBodies ==
  /\ ~HasRow
  /\ bodies # NoContent
  /\ bodies' = NoContent
  /\ UNCHANGED <<backend, logVars, pushVars, sideVars, row, calls>>

-------------------------------------------------------------------------------
(* Leases and claims *)

\* supervisor_renew_executor_leases: a column of the row, set or cleared.
RenewExecutorLeases(c, live) ==
  /\ InOneStep(c)
  /\ HasRow
  /\ lease' = IF live THEN [by |-> c, live |-> TRUE] ELSE None
  /\ UNCHANGED <<backend, taskVars, logVars, pushVars, delivery>>

\* One transaction reads the row and inserts it, or replaces an expired claim.
ClaimDelivery(c) ==
  /\ Claimable(delivery)
  /\ delivery' = ClaimOver(c, delivery)
  /\ Begins(c, [NoCall EXCEPT !.op = "deliver", !.at = "claimed",
                              !.generation = delivery'.generation])
  /\ UNCHANGED <<backend, taskVars, logVars, pushVars, lease>>

\* One conditional UPDATE, fenced by claimant and generation.
RecordAttemptStarted(c) ==
  /\ At(c, "deliver", "claimed")
  /\ HoldsClaim(c)
  /\ delivery.status \notin FinalStatus
  /\ delivery.attempts < MaxPosts
  /\ delivery' = [delivery EXCEPT !.attempts = @ + 1, !.status = "Attempting"]
  /\ Continues(c, [calls[c] EXCEPT !.at = "posted"])
  /\ UNCHANGED <<backend, taskVars, logVars, pushVars, lease>>

\* One transaction; on a final row it reports success and changes nothing.
RecordDeliveryOutcome(c, outcome) ==
  /\ At(c, "deliver", "posted")
  /\ HoldsClaim(c)
  /\ delivery' = IF delivery.status \in FinalStatus THEN delivery
                 ELSE [delivery EXCEPT !.status = outcome]
  /\ Continues(c, IF outcome = "Attempting" THEN [calls[c] EXCEPT !.at = "claimed"]
                  ELSE Spent)
  /\ UNCHANGED <<backend, taskVars, logVars, pushVars, lease>>

\* cleanup_expired, its sweep of GaveUp rows past their retention.
CleanupGaveUp ==
  /\ delivery # None
  /\ delivery.status = "GaveUp"
  /\ NoDeliveryInProgress
  /\ delivery' = None
  /\ UNCHANGED <<backend, taskVars, logVars, pushVars, lease, calls>>

-------------------------------------------------------------------------------
(* The listings its readers and sweeps work from.  A sweep's age limit selects *)
(* no particular row here: any row may be old enough.                          *)

\* get_events_after: what a reader that has seen n gets.
GetEventsAfter(n) == {e \in log : e.seq > n}

\* list_configs_eligible_at_event, all pages: the fan-out of event n.
ListConfigsEligibleAtEvent(n) == {k \in Registered : configs[k].floor < n}

\* list_stale_pending_dispatches: the redispatch sweep.
ListStalePendingDispatches == markers

\* list_reclaimable_claims: the reclaim sweep.
ListReclaimableClaims ==
  {d \in DeliveryRows : d.status \in {"Pending", "Attempting"} /\ ~d.live}

\* list_failed_deliveries: the operator's report.
ListFailedDeliveries == {d \in DeliveryRows : d.status = "GaveUp"}

\* supervisor_list_cancel_requested: the poller of an instance that runs the task.
ListCancelRequested == {r \in TaskRows : r.cancel /\ r.status \notin TERMINAL_STATES}

Next ==
  \/ CreateTaskWithEvents
  \/ \E c \in Callers :
       \/ \E s \in TaskState : UpdateTaskStatusWithEvents(c, s)
       \/ \E op \in {"artifact", "message"} : GetTask(c, op)
       \/ RehydrateTask(c)
       \/ UpdateTaskWithEvents(c)
       \/ UpdateTask(c)
       \/ SetCancelRequested(c)
       \/ \E k \in Configs : CreateConfig(c, k) \/ DeleteConfig(c, k)
       \/ \E live \in BOOLEAN : RenewExecutorLeases(c, live)
       \/ ClaimDelivery(c)
       \/ RecordAttemptStarted(c)
       \/ \E o \in FinalStatus \cup {"Attempting"} : RecordDeliveryOutcome(c, o)
       \/ CallFails(c)
  \/ \E n \in 1..MaxSeq : CleanupEvents(n)
  \/ CleanupTask
  \/ CleanupBodies
  \/ CleanupGaveUp
  \/ LeaseRunsOut
  \/ ClaimRunsOut
===============================================================================
