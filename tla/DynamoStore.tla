------------------------------ MODULE DynamoStore ------------------------------
(***************************************************************************)
(* The DynamoDB backend.  A call is a series of item reads that ends in one *)
(* conditional write or one TransactWriteItems; what was read may have     *)
(* changed by then unless the write conditions on it.  A task write puts   *)
(* the whole item and drops every attribute it does not name.  Numbers     *)
(* come from a counter item.  Expired items are removed by the engine.     *)
(***************************************************************************)
EXTENDS DurableRows

\* build_task_item: the put names neither cancelRequested nor, when no event
\* comes with it (floor 0), latestEventSequence.
BuildTaskItem(status, messages, manifest, floor) ==
  [status |-> status, messages |-> messages, manifest |-> manifest,
   floor |-> floor, cancel |-> FALSE]

CreateTaskWithEvents ==
  /\ highest = 0
  /\ Commits(1, "Submitted")
  /\ counter' = 1
  /\ row' = BuildTaskItem("Submitted", {}, NoContent, 1)
  /\ UNCHANGED <<backend, pushVars, sideVars, bodies, calls>>

\* (mutant) Only the first page is scanned.
TaskHasPushConfigFirstPage(c, new_status) ==
  /\ \E seen \in BOOLEAN :
       Begins(c, [NoCall EXCEPT !.op = "status", !.at = "preflight",
         !.state = new_status, !.marker = seen /\ Registered # {}, !.known = Settled])
  /\ UNCHANGED <<backend, taskVars, logVars, pushVars, sideVars>>

\* task_has_push_config, before anything is read of the task: an eventually
\* consistent scan may miss a registration not yet settled.
TaskHasPushConfig(c, new_status) ==
  /\ \E seen \in BOOLEAN :
       /\ Settled # {} => seen
       /\ seen => Registered # {}
       /\ Begins(c, [NoCall EXCEPT !.op = "status", !.at = "preflight",
            !.state = new_status, !.marker = seen, !.known = Settled])
  /\ UNCHANGED <<backend, taskVars, logVars, pushVars, sideVars>>

\* The attempt reads the item and validates the transition.
ReadForStatus(c) ==
  /\ At(c, "status", "preflight")
  /\ HasRow
  /\ ValidTransition(row.status, calls[c].state)
  /\ Continues(c, [calls[c] EXCEPT !.at = "row", !.row = row, !.floor = row.floor])
  /\ UNCHANGED <<backend, taskVars, logVars, pushVars, sideVars>>

\* get_task reads the item, for a sink's artifact or for append_message.
GetTask(c, op) ==
  /\ HasRow
  /\ Begins(c, [NoCall EXCEPT !.op = op, !.at = "row", !.row = row])
  /\ UNCHANGED <<backend, taskVars, logVars, pushVars, sideVars>>

\* rehydrate_task then queries the artifact items.
RehydrateTask(c) ==
  /\ At(c, "artifact", "row") \/ At(c, "message", "row")
  /\ Continues(c, [calls[c] EXCEPT !.at = "task",
                                   !.bodies = Rehydrated(calls[c].row.manifest)])
  /\ UNCHANGED <<backend, taskVars, logVars, pushVars, sideVars>>

\* fetch_stored_manifest; for an event write, query_latest_event_sequence too.
FetchStoredManifest(c) ==
  /\ calls[c].at = "task"
  /\ Continues(c, [calls[c] EXCEPT !.at = "manifest", !.manifest = StoredManifest,
                                   !.floor = StoredFloor])
  /\ UNCHANGED <<backend, taskVars, logVars, pushVars, sideVars>>

\* allocate_event_sequences reads the counter last.
AllocateEventSequences(c) ==
  /\ At(c, "status", "row") \/ At(c, "artifact", "manifest")
  /\ Continues(c, [calls[c] EXCEPT !.at = "counter", !.seq = counter])
  /\ UNCHANGED <<backend, taskVars, logVars, pushVars, sideVars>>

\* build_sequence_counter_update: the counter is the one observed, and moves on.
CounterMoves(observed) ==
  /\ counter = observed
  /\ counter' = observed + 1

\* (mutant) The counter's update is unconditional, and so is the event's put.
AllocationUnconditional(c) ==
  /\ Commits(calls[c].seq + 1, IF calls[c].op = "status" THEN calls[c].state ELSE "Artifact")
  /\ counter' = calls[c].seq + 1

\* The transaction's counter update and event put: no event has the number.
AllocationHolds(c) ==
  /\ CounterMoves(calls[c].seq)
  /\ \A e \in log : e.seq # calls[c].seq + 1
  /\ Commits(calls[c].seq + 1, IF calls[c].op = "status" THEN calls[c].state ELSE "Artifact")

\* update_task_status_with_events: the whole item from what was read, unless
\* the stored one is terminal.
UpdateTaskStatusWithEvents(c) ==
  /\ At(c, "status", "counter")
  /\ HasRow
  /\ ~Terminal
  /\ AllocationHolds(c)
  /\ row' = BuildTaskItem(calls[c].state, calls[c].row.messages, calls[c].row.manifest,
                          Max({calls[c].floor, calls[c].seq + 1}))
  /\ markers' = IF calls[c].state \in TERMINAL_STATES /\ calls[c].marker
                THEN markers \cup {calls[c].seq + 1} ELSE markers
  /\ Ends(c)
  /\ UNCHANGED <<backend, sideVars, bodies, configs>>

\* artifact_transact_items: puts and deletes of artifact items.
ArtifactTransactItems(plan) == bodies' = AfterPlan(plan)

\* update_task_with_events: the sink's whole task, unless the stored one is
\* terminal.
UpdateTaskWithEvents(c) ==
  /\ At(c, "artifact", "counter")
  /\ HasRow
  /\ ~Terminal
  /\ AllocationHolds(c)
  /\ row' = BuildTaskItem(calls[c].row.status, Messages(c), Incoming(c),
                          Max({calls[c].floor, calls[c].seq + 1}))
  /\ ArtifactTransactItems(Reconcile(Incoming(c), calls[c].manifest))
  /\ Ends(c)
  /\ UNCHANGED <<backend, pushVars, sideVars>>

\* lost_sequence_race: the counter moved, or another transaction held an item.
\* The call reads again and allocates again; 32 attempts outlast every race.
SequenceCommitRetry(c) ==
  /\ calls[c].at = "counter"
  /\ HasRow
  /\ ~Terminal
  /\ Continues(c, [calls[c] EXCEPT
       !.at = IF calls[c].op = "status" THEN "preflight" ELSE "task",
       !.seq = 0, !.floor = 0, !.manifest = NoContent,
       !.row = IF calls[c].op = "status" THEN None ELSE @])
  /\ UNCHANGED <<backend, taskVars, logVars, pushVars, sideVars>>

\* update_task, the write of append_message: the item must exist and have the
\* caller's owner, nothing else is compared.
UpdateTask(c) ==
  /\ At(c, "message", "manifest")
  /\ HasRow
  /\ row' = BuildTaskItem(calls[c].row.status, Messages(c), Incoming(c), 0)
  /\ ArtifactTransactItems(Reconcile(Incoming(c), calls[c].manifest))
  /\ Ends(c)
  /\ UNCHANGED <<backend, logVars, pushVars, sideVars>>

\* One conditional UpdateItem.
SetCancelRequested(c) ==
  /\ InOneStep(c)
  /\ HasRow
  /\ ~Terminal
  /\ row' = [row EXCEPT !.cancel = TRUE]
  /\ UNCHANGED <<backend, logVars, pushVars, sideVars, bodies>>

\* create_config reads the floor, and again after a lost condition.
CreateConfigRead(c, k) ==
  /\ \/ Begins(c, [NoCall EXCEPT !.op = "config", !.at = "floor", !.config = k,
                                 !.floor = StoredFloor])
     \/ /\ At(c, "config", "floor")
        /\ calls[c].config = k
        /\ calls[c].floor # StoredFloor
        /\ Continues(c, [calls[c] EXCEPT !.floor = StoredFloor])
  /\ UNCHANGED <<backend, taskVars, logVars, pushVars, sideVars>>

\* The transaction checks the floor and puts the config; replicas follow.
CreateConfigPut(c) ==
  /\ At(c, "config", "floor")
  /\ calls[c].floor = StoredFloor
  /\ configs' = [configs EXCEPT ![calls[c].config] =
       [floor |-> calls[c].floor, settled |-> FALSE]]
  /\ Ends(c)
  /\ UNCHANGED <<backend, taskVars, logVars, sideVars, markers>>

DeleteConfig(c, k) ==
  /\ InOneStep(c)
  /\ k \in Registered
  /\ configs' = [configs EXCEPT ![k] = None]
  /\ UNCHANGED <<backend, taskVars, logVars, sideVars, markers>>

\* Every replica now serves the registration.
Replicated(k) ==
  /\ k \in Registered \ Settled
  /\ configs' = [configs EXCEPT ![k].settled = TRUE]
  /\ UNCHANGED <<backend, taskVars, logVars, sideVars, markers, calls>>

\* The engine removes expired items: a terminal task (task_ttl stamps no other),
ExpireTask ==
  /\ HasRow
  /\ Terminal
  /\ row' = None
  /\ UNCHANGED <<backend, logVars, pushVars, sideVars, bodies, calls>>

\* its children, which the terminal write's caller stamps with the task's ttl
\* (stamp_child_ttl, best effort) and the engine removes one by one,
ExpireChild ==
  /\ HasRow => Terminal
  /\ highest > 0
  /\ \/ \E a \in Artifacts :
          /\ bodies[a] # None
          /\ bodies' = [bodies EXCEPT ![a] = None]
          /\ UNCHANGED configs
     \/ \E k \in Registered :
          /\ configs' = [configs EXCEPT ![k] = None]
          /\ UNCHANGED bodies
  /\ UNCHANGED <<backend, row, logVars, markers, sideVars, calls>>

\* an event of any task,
ExpireEvent(e) ==
  /\ log' = log \ {e}
  /\ UNCHANGED <<backend, taskVars, pushVars, sideVars, highest, counter, calls>>

\* and the counter, stamped when the last event was: not before the events, but
\* a live task may wait for its client longer than that.
ExpireCounter ==
  /\ log = {}
  /\ counter # 0
  /\ counter' = 0
  /\ UNCHANGED <<backend, taskVars, pushVars, sideVars, log, highest, calls>>

-------------------------------------------------------------------------------
(* Leases and claims *)

\* write_lease_item and delete_lease_item: an item of its own, put or deleted
\* whether or not the task exists.
RenewExecutorLeases(c, live) ==
  /\ InOneStep(c)
  /\ lease' = IF live THEN [by |-> c, live |-> TRUE] ELSE None
  /\ UNCHANGED <<backend, taskVars, logVars, pushVars, delivery>>

\* supervisor_list_expired_executor_leases scans the lease items ...
ScanExpiredLeases(c) ==
  /\ lease # None
  /\ ~lease.live
  /\ Begins(c, [NoCall EXCEPT !.op = "sweep", !.at = "lease", !.lease = lease])
  /\ UNCHANGED <<backend, taskVars, logVars, pushVars, sideVars>>

\* The tasks the listing reports for the leases it has scanned.
ListExpiredExecutorLeases ==
  {r \in TaskRows : r.status \in EXECUTOR_HELD_STATES
                     /\ \E c \in Callers : At(c, "sweep", "lease")}

\* ... gets the tasks they belong to, reporting those an executor holds ...
BatchGetTasks(c) ==
  /\ At(c, "sweep", "lease")
  /\ IF ListExpiredExecutorLeases # {}
     THEN Ends(c)
     ELSE Continues(c, [calls[c] EXCEPT !.at = "stale"])
  /\ UNCHANGED <<backend, taskVars, logVars, pushVars, sideVars>>

\* (mutant) delete_lease_item_if_expiry without its condition.
DeleteLeaseItemBlind(c) ==
  /\ At(c, "sweep", "stale")
  /\ lease' = None
  /\ Ends(c)
  /\ UNCHANGED <<backend, taskVars, logVars, pushVars, delivery>>

\* ... and deletes the others, unless renewed since (delete_lease_item_if_expiry).
DeleteLeaseItemIfExpiry(c) ==
  /\ At(c, "sweep", "stale")
  /\ lease' = IF lease = calls[c].lease THEN None ELSE lease
  /\ Ends(c)
  /\ UNCHANGED <<backend, taskVars, logVars, pushVars, delivery>>

\* claim_delivery reads the item, maybe a stale copy of it, and goes on if it
\* may be claimed ...
ReadClaim(c) ==
  /\ Claimable(delivery)
  /\ Begins(c, [NoCall EXCEPT !.op = "deliver", !.at = "unclaimed",
       !.generation = IF delivery = None THEN 0 ELSE delivery.generation])
  /\ UNCHANGED <<backend, taskVars, logVars, pushVars, sideVars>>

\* ... then puts a first item, or updates the one with the generation read.
WriteClaim(c) ==
  /\ At(c, "deliver", "unclaimed")
  /\ Claimable(delivery)
  /\ calls[c].generation = (IF delivery = None THEN 0 ELSE delivery.generation)
  /\ delivery' = ClaimOver(c, delivery)
  /\ Continues(c, [calls[c] EXCEPT !.at = "claimed", !.generation = @ + 1])
  /\ UNCHANGED <<backend, taskVars, logVars, pushVars, lease>>

RecordAttemptStarted(c) ==
  /\ At(c, "deliver", "claimed")
  /\ HoldsClaim(c)
  /\ delivery.status \notin FinalStatus
  /\ delivery.attempts < MaxPosts
  /\ delivery' = [delivery EXCEPT !.attempts = @ + 1, !.status = "Attempting"]
  /\ Continues(c, [calls[c] EXCEPT !.at = "posted"])
  /\ UNCHANGED <<backend, taskVars, logVars, pushVars, lease>>

\* record_delivery_outcome reads the item; a final one, or a copy of it, is
\* success, whoever made it so ...
ReadOutcome(c) ==
  /\ At(c, "deliver", "posted")
  /\ IF delivery # None /\ delivery.status \in FinalStatus
     THEN Ends(c)
     ELSE Continues(c, [calls[c] EXCEPT !.at = "outcome"])
  /\ UNCHANGED <<backend, taskVars, logVars, pushVars, sideVars>>

\* (mutant) The update's condition leaves out claimant and generation.
RecordOutcomeUnfenced(c, outcome) ==
  /\ At(c, "deliver", "outcome")
  /\ delivery # None
  /\ delivery.status \notin FinalStatus
  /\ delivery' = [delivery EXCEPT !.status = outcome]
  /\ Continues(c, IF outcome = "Attempting" THEN [calls[c] EXCEPT !.at = "claimed"]
                  ELSE Spent)
  /\ UNCHANGED <<backend, taskVars, logVars, pushVars, lease>>

\* ... otherwise one update, fenced by claimant, generation and status.
RecordDeliveryOutcome(c, outcome) ==
  /\ At(c, "deliver", "outcome")
  /\ HoldsClaim(c)
  /\ delivery.status \notin FinalStatus
  /\ delivery' = [delivery EXCEPT !.status = outcome]
  /\ Continues(c, IF outcome = "Attempting" THEN [calls[c] EXCEPT !.at = "claimed"]
                  ELSE Spent)
  /\ UNCHANGED <<backend, taskVars, logVars, pushVars, lease>>

\* The engine removes a delivery past its ttl (a failed one carries its own).
ExpireDelivery ==
  /\ delivery # None
  /\ delivery.status \in FinalStatus
  /\ NoDeliveryInProgress
  /\ delivery' = None
  /\ UNCHANGED <<backend, taskVars, logVars, pushVars, lease, calls>>

-------------------------------------------------------------------------------
(* The listings its readers and sweeps work from.  A sweep's age limit selects *)
(* no particular row here: any row may be old enough.                          *)

\* get_events_after: what a reader that has seen n gets.
GetEventsAfter(n) == {e \in log : e.seq > n}

\* list_configs_eligible_at_event: the configs every replica serves; one that is
\* not settled may be missing.
ListConfigsEligibleAtEvent(n) == {k \in Settled : configs[k].floor < n}

\* list_stale_pending_dispatches: the redispatch sweep.
ListStalePendingDispatches == markers

\* list_reclaimable_claims: the reclaim sweep.
ListReclaimableClaims ==
  {d \in DeliveryRows : d.status \in {"Pending", "Attempting"} /\ ~d.live}

\* list_failed_deliveries: the operator's report.
ListFailedDeliveries == {d \in DeliveryRows : d.status = "GaveUp"}

Next ==
  \/ CreateTaskWithEvents
  \/ \E c \in Callers :
       \/ \E s \in TaskState : TaskHasPushConfig(c, s)
       \/ ReadForStatus(c)
       \/ \E op \in {"artifact", "message"} : GetTask(c, op)
       \/ RehydrateTask(c)
       \/ FetchStoredManifest(c)
       \/ AllocateEventSequences(c)
       \/ UpdateTaskStatusWithEvents(c)
       \/ UpdateTaskWithEvents(c)
       \/ SequenceCommitRetry(c)
       \/ UpdateTask(c)
       \/ SetCancelRequested(c)
       \/ CreateConfigPut(c)
       \/ \E k \in Configs : CreateConfigRead(c, k) \/ DeleteConfig(c, k)
       \/ \E live \in BOOLEAN : RenewExecutorLeases(c, live)
       \/ ScanExpiredLeases(c)
       \/ BatchGetTasks(c)
       \/ DeleteLeaseItemIfExpiry(c)
       \/ ReadClaim(c)
       \/ WriteClaim(c)
       \/ RecordAttemptStarted(c)
       \/ ReadOutcome(c)
       \/ \E o \in FinalStatus \cup {"Attempting"} : RecordDeliveryOutcome(c, o)
       \/ CallFails(c)
  \/ \E k \in Configs : Replicated(k)
  \/ ExpireTask
  \/ ExpireChild
  \/ \E e \in log : ExpireEvent(e)
  \/ ExpireCounter
  \/ ExpireDelivery
  \/ LeaseRunsOut
  \/ ClaimRunsOut
===============================================================================
