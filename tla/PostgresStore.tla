----------------------------- MODULE PostgresStore -----------------------------
(***************************************************************************)
(* The PostgreSQL backend.  A transaction runs at READ COMMITTED: what it  *)
(* reads before its first UPDATE may have changed when the row lock is     *)
(* granted; from there to its commit the row is its own.  create_config    *)
(* alone is SERIALIZABLE, which detects conflicts among serializable       *)
(* transactions only, and nothing else runs as one.                        *)
(***************************************************************************)
EXTENDS DurableRows

\* SELECT COALESCE(MAX(event_sequence), 0) + 1, under the row lock.
NextSequence == 1 + (IF log = {} THEN 0 ELSE Max({e.seq : e \in log}))

CreateTaskWithEvents ==
  /\ highest = 0
  /\ Commits(NextSequence, "Submitted")
  /\ row' = FreshRow
  /\ UNCHANGED <<backend, pushVars, sideVars, counter, bodies, calls>>

\* update_task_status_with_events reads the row without a lock and validates
\* the transition against what it read.
ReadForStatus(c, new_status) ==
  /\ HasRow
  /\ ValidTransition(row.status, new_status)
  /\ Begins(c, [NoCall EXCEPT !.op = "status", !.at = "row", !.row = row,
                              !.state = new_status, !.known = Settled])
  /\ UNCHANGED <<backend, taskVars, logVars, pushVars, sideVars>>

\* (mutant) The UPDATE does not exclude terminal rows.
UpdateTaskStatusNoCas(c) ==
  /\ At(c, "status", "row")
  /\ HasRow
  /\ Commits(NextSequence, calls[c].state)
  /\ row' = [row EXCEPT !.status = calls[c].state, !.messages = calls[c].row.messages,
                        !.floor = Max({@, NextSequence})]
  /\ markers' = IF calls[c].state \in TERMINAL_STATES /\ Registered # {}
                THEN markers \cup {NextSequence} ELSE markers
  /\ Ends(c)
  /\ UNCHANGED <<backend, sideVars, counter, bodies, configs>>

\* The UPDATE excludes terminal rows and writes the blob that was read; the
\* event, the count of configs and the marker follow in the transaction.
UpdateTaskStatusWithEvents(c) ==
  /\ At(c, "status", "row")
  /\ HasRow
  /\ ~Terminal
  /\ Commits(NextSequence, calls[c].state)
  /\ row' = [row EXCEPT !.status = calls[c].state, !.messages = calls[c].row.messages,
                        !.floor = Max({@, NextSequence})]
  /\ markers' = IF calls[c].state \in TERMINAL_STATES /\ Registered # {}
                THEN markers \cup {NextSequence} ELSE markers
  /\ Ends(c)
  /\ UNCHANGED <<backend, sideVars, counter, bodies, configs>>

\* get_task reads the row, for a sink's artifact or for append_message.
GetTask(c, op) ==
  /\ HasRow
  /\ Begins(c, [NoCall EXCEPT !.op = op, !.at = "row", !.row = row])
  /\ UNCHANGED <<backend, taskVars, logVars, pushVars, sideVars>>

\* rehydrate_task then reads the bodies the manifest named.
RehydrateTask(c) ==
  /\ At(c, "artifact", "row") \/ At(c, "message", "row")
  /\ Continues(c, [calls[c] EXCEPT !.at = "task",
                                   !.bodies = Rehydrated(calls[c].row.manifest)])
  /\ UNCHANGED <<backend, taskVars, logVars, pushVars, sideVars>>

\* fetch_manifest: the write's transaction reads the manifest, no row lock yet.
FetchManifest(c) ==
  /\ calls[c].at = "task"
  /\ Continues(c, [calls[c] EXCEPT !.at = "manifest",
       !.manifest = StoredManifest])
  /\ UNCHANGED <<backend, taskVars, logVars, pushVars, sideVars>>

\* apply_artifact_plan: upsert the plan's writes, delete its deletes.
ApplyArtifactPlan(plan) == bodies' = AfterPlan(plan)

\* The whole task is replaced unless the row is terminal.
UpdateTaskWithEvents(c) ==
  /\ At(c, "artifact", "manifest")
  /\ HasRow
  /\ ~Terminal
  /\ Commits(NextSequence, "Artifact")
  /\ row' = [row EXCEPT !.status = calls[c].row.status, !.messages = Messages(c),
                        !.manifest = Incoming(c), !.floor = Max({@, NextSequence})]
  /\ ApplyArtifactPlan(Reconcile(Incoming(c), calls[c].manifest))
  /\ Ends(c)
  /\ UNCHANGED <<backend, pushVars, sideVars, counter>>

\* update_task, the write of append_message: no check of the stored state.
UpdateTask(c) ==
  /\ At(c, "message", "manifest")
  /\ HasRow
  /\ row' = [row EXCEPT !.status = calls[c].row.status, !.messages = Messages(c),
                        !.manifest = Incoming(c)]
  /\ ApplyArtifactPlan(Reconcile(Incoming(c), calls[c].manifest))
  /\ Ends(c)
  /\ UNCHANGED <<backend, logVars, pushVars, sideVars>>

\* One conditional UPDATE.
SetCancelRequested(c) ==
  /\ InOneStep(c)
  /\ HasRow
  /\ ~Terminal
  /\ row' = [row EXCEPT !.cancel = TRUE]
  /\ UNCHANGED <<backend, logVars, pushVars, sideVars, bodies>>

\* create_config reads the floor in its snapshot (no row: 0) ...
CreateConfigRead(c, k) ==
  /\ Begins(c, [NoCall EXCEPT !.op = "config", !.at = "floor", !.config = k,
                              !.floor = StoredFloor])
  /\ UNCHANGED <<backend, taskVars, logVars, pushVars, sideVars>>

\* ... and inserts the config under it and commits.
CreateConfigInsert(c) ==
  /\ At(c, "config", "floor")
  /\ configs' = [configs EXCEPT ![calls[c].config] =
       [floor |-> calls[c].floor, settled |-> TRUE]]
  /\ Ends(c)
  /\ UNCHANGED <<backend, taskVars, logVars, sideVars, markers>>

DeleteConfig(c, k) ==
  /\ InOneStep(c)
  /\ k \in Registered
  /\ configs' = [configs EXCEPT ![k] = None]
  /\ UNCHANGED <<backend, taskVars, logVars, sideVars, markers>>

\* cleanup_expired, its event sweep (event_ttl_seconds > 0, the default is off).
CleanupEvents(upto) ==
  /\ \E e \in log : e.seq = upto
  /\ log' = {e \in log : e.seq > upto}
  /\ UNCHANGED <<backend, taskVars, pushVars, sideVars, counter, highest, calls>>

\* Its task sweep.
CleanupTask ==
  /\ HasRow
  /\ Terminal
  /\ row' = None
  /\ lease' = None
  /\ UNCHANGED <<backend, bodies, logVars, pushVars, delivery, calls>>

\* Its sweep of the bodies whose task is gone.
CleanupBodies ==
  /\ ~HasRow
  /\ bodies # NoContent
  /\ bodies' = NoContent
  /\ UNCHANGED <<backend, logVars, pushVars, sideVars, row, calls>>

-------------------------------------------------------------------------------
(* Leases and claims *)

\* supervisor_renew_executor_leases: a column of the row, set or cleared.
RenewExecutorLeases(c, live) ==
  /\ InOneStep(c)
  /\ HasRow
  /\ lease' = IF live THEN [by |-> c, live |-> TRUE] ELSE None
  /\ UNCHANGED <<backend, taskVars, logVars, pushVars, delivery>>

\* SELECT ... FOR UPDATE, then the insert or the replacement.
ClaimDelivery(c) ==
  /\ Claimable(delivery)
  /\ delivery' = ClaimOver(c, delivery)
  /\ Begins(c, [NoCall EXCEPT !.op = "deliver", !.at = "claimed",
                              !.generation = delivery'.generation])
  /\ UNCHANGED <<backend, taskVars, logVars, pushVars, lease>>

\* One conditional UPDATE, fenced by claimant and generation.
RecordAttemptStarted(c) ==
  /\ At(c, "deliver", "claimed")
  /\ HoldsClaim(c)
  /\ delivery.status \notin FinalStatus
  /\ delivery.attempts < MaxPosts
  /\ delivery' = [delivery EXCEPT !.attempts = @ + 1, !.status = "Attempting"]
  /\ Continues(c, [calls[c] EXCEPT !.at = "posted"])
  /\ UNCHANGED <<backend, taskVars, logVars, pushVars, lease>>

\* SELECT ... FOR UPDATE; on a final row it reports success and changes nothing.
RecordDeliveryOutcome(c, outcome) ==
  /\ At(c, "deliver", "posted")
  /\ HoldsClaim(c)
  /\ delivery' = IF delivery.status \in FinalStatus THEN delivery
                 ELSE [delivery EXCEPT !.status = outcome]
  /\ Continues(c, IF outcome = "Attempting" THEN [calls[c] EXCEPT !.at = "claimed"]
                  ELSE Spent)
  /\ UNCHANGED <<backend, taskVars, logVars, pushVars, lease>>

\* cleanup_expired, its sweep of GaveUp rows past their retention.
CleanupGaveUp ==
  /\ delivery # None
  /\ delivery.status = "GaveUp"
  /\ NoDeliveryInProgress
  /\ delivery' = None
  /\ UNCHANGED <<backend, taskVars, logVars, pushVars, lease, calls>>

-------------------------------------------------------------------------------
(* The listings its readers and sweeps work from.  A sweep's age limit selects *)
(* no particular row here: any row may be old enough.                          *)

\* get_events_after: what a reader that has seen n gets.
GetEventsAfter(n) == {e \in log : e.seq > n}

\* list_configs_eligible_at_event, all pages: the fan-out of event n.
ListConfigsEligibleAtEvent(n) == {k \in Registered : configs[k].floor < n}

\* list_stale_pending_dispatches: the redispatch sweep.
ListStalePendingDispatches == markers

\* list_reclaimable_claims: the reclaim sweep.
ListReclaimableClaims ==
  {d \in DeliveryRows : d.status \in {"Pending", "Attempting"} /\ ~d.live}

\* list_failed_deliveries: the operator's report.
ListFailedDeliveries == {d \in DeliveryRows : d.status = "GaveUp"}

\* supervisor_list_cancel_requested: the poller of an instance that runs the task.
ListCancelRequested == {r \in TaskRows : r.cancel /\ r.status \notin TERMINAL_STATES}

Next ==
  \/ CreateTaskWithEvents
  \/ \E c \in Callers :
       \/ \E s \in TaskState : ReadForStatus(c, s)
       \/ UpdateTaskStatusWithEvents(c)
       \/ \E op \in {"artifact", "message"} : GetTask(c, op)
       \/ RehydrateTask(c)
       \/ FetchManifest(c)
       \/ UpdateTaskWithEvents(c)
       \/ UpdateTask(c)
       \/ SetCancelRequested(c)
       \/ CreateConfigInsert(c)
       \/ \E k \in Configs : CreateConfigRead(c, k) \/ DeleteConfig(c, k)
       \/ \E live \in BOOLEAN : RenewExecutorLeases(c, live)
       \/ ClaimDelivery(c)
       \/ RecordAttemptStarted(c)
       \/ \E o \in FinalStatus \cup {"Attempting"} : RecordDeliveryOutcome(c, o)
       \/ CallFails(c)
  \/ \E n \in 1..MaxSeq : CleanupEvents(n)
  \/ CleanupTask
  \/ CleanupBodies
  \/ CleanupGaveUp
  \/ LeaseRunsOut
  \/ ClaimRunsOut
===============================================================================
