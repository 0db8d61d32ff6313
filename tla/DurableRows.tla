------------------------------ MODULE DurableRows ------------------------------
(***************************************************************************)
(* The records the three persistent backends keep for one task, and what   *)
(* their storage calls have in common.  SqliteStore, PostgresStore and     *)
(* DynamoStore say how each backend splits a call into database            *)
(* operations; Backends puts them behind one specification.                *)
(*                                                                         *)
(* The task's blob carries its state and the messages appended to it.  An  *)
(* artifact body is a record of its own; the row's manifest names each     *)
(* body by a fingerprint, here the caller whose content it is.  Calls come *)
(* from the server's requests, sinks and timers, concurrently; a caller    *)
(* makes one call.                                                         *)
(***************************************************************************)
EXTENDS Integers, FiniteSetsExt, TaskStates

CONSTANTS
  Backends,     \* which backends the task may be stored in
  Callers,      \* storage calls
  Configs,      \* push configuration ids
  Artifacts,    \* artifact ids
  None,         \* an absent record
  MaxSeq,       \* bound: events of the task
  MaxPosts      \* bound: attempts at the delivery

ASSUME DurableAssumption ==
  /\ Backends \subseteq {"sqlite", "postgres", "dynamodb"}
  /\ None \notin Callers
  /\ MaxSeq \in Nat
  /\ MaxPosts \in Nat

VARIABLES
  backend,   \* the backend the server was started with
  row,       \* the task record
  bodies,    \* artifact id -> the content of its record
  log,       \* the task's events
  highest,   \* the highest sequence number ever committed
  counter,   \* DynamoDB's nextSequence item
  configs,   \* config id -> its registration
  markers,   \* sequence numbers with a pending-dispatch marker
  lease,     \* the task's executor lease
  delivery,  \* the claim row of one owed delivery
  calls      \* what each call has read so far

taskVars == <<row, bodies>>
logVars == <<log, highest, counter>>
pushVars == <<configs, markers>>
sideVars == <<lease, delivery>>
vars == <<backend, taskVars, logVars, pushVars, sideVars, calls>>

Content == [Artifacts -> Callers \cup {None}]

Row == [status: TaskState, messages: SUBSET Callers, manifest: Content,
        floor: Nat, cancel: BOOLEAN]

Event == [seq: Nat \ {0}, state: TaskState \cup {"Artifact"}]

\* settled: every replica of the store serves the registration.
Registration == [floor: Nat, settled: BOOLEAN]

\* by: the renewal that stamped it, its expiry.  live: not yet passed.
Lease == [by: Callers, live: BOOLEAN]

FinalStatus == {"Succeeded", "GaveUp", "Abandoned"}

ClaimStatus == {"Pending", "Attempting"} \cup FinalStatus

\* live: expires_at is ahead.  attempts: delivery_attempt_count.
Delivery == [claimant: Callers, generation: Nat, attempts: Nat,
             status: ClaimStatus, live: BOOLEAN]

\* at: the call's last completed database operation.  known: the registrations
\* every replica served when the call began.  The rest is what it has read.
Call == [at: {"idle", "done", "preflight", "row", "task", "manifest", "counter",
               "floor", "lease", "stale", "unclaimed", "claimed", "posted", "outcome"},
         op: {"", "status", "artifact", "message", "config", "sweep", "deliver"},
         state: TaskState \cup {None}, config: Configs \cup {None},
         row: Row \cup {None}, bodies: Content, manifest: Content,
         floor: Nat, seq: Nat, marker: BOOLEAN, known: SUBSET Configs,
         lease: Lease \cup {None}, generation: Nat]

NoContent == [a \in Artifacts |-> None]

NoCall == [at |-> "idle", op |-> "", state |-> None, config |-> None,
           row |-> None, bodies |-> NoContent, manifest |-> NoContent,
           floor |-> 0, seq |-> 0, marker |-> FALSE, known |-> {},
           lease |-> None, generation |-> 0]

Spent == [NoCall EXCEPT !.at = "done"]

HasRow == row # None
Terminal == row.status \in TERMINAL_STATES
Registered == {k \in Configs : configs[k] # None}
Settled == {k \in Registered : configs[k].settled}

\* What a query of each table has to select from.
TaskRows == {row} \ {None}
DeliveryRows == {delivery} \ {None}

TypeOK ==
  /\ backend \in Backends
  /\ row \in Row \cup {None}
  /\ bodies \in Content
  /\ log \subseteq Event
  /\ highest \in Nat
  /\ counter \in Nat
  /\ configs \in [Configs -> Registration \cup {None}]
  /\ markers \subseteq Nat \ {0}
  /\ lease \in Lease \cup {None}
  /\ delivery \in Delivery \cup {None}
  /\ calls \in [Callers -> Call]

Init ==
  /\ backend \in Backends
  /\ row = None
  /\ bodies = NoContent
  /\ log = {}
  /\ highest = 0
  /\ counter = 0
  /\ configs = [k \in Configs |-> None]
  /\ markers = {}
  /\ lease = None
  /\ delivery = None
  /\ calls = [c \in Callers |-> NoCall]

-------------------------------------------------------------------------------
(* What the calls have in common *)

\* The stored artifacts' manifest, empty without a row.
StoredManifest == IF HasRow THEN row.manifest ELSE NoContent

\* The row's causal floor: 0 without a row.
StoredFloor == IF HasRow THEN row.floor ELSE 0

At(c, op, at) == calls[c].op = op /\ calls[c].at = at

\* A call of one database operation, made by a caller that has made none.
InOneStep(c) ==
  /\ calls[c] = NoCall
  /\ calls' = [calls EXCEPT ![c] = Spent]

Begins(c, call) ==
  /\ calls[c] = NoCall
  /\ calls' = [calls EXCEPT ![c] = call]

Continues(c, call) == calls' = [calls EXCEPT ![c] = call]

Ends(c) == calls' = [calls EXCEPT ![c] = Spent]

\* Commit one event; the row's floor follows it.
Commits(seq, state) ==
  /\ seq <= MaxSeq
  /\ log' = {e \in log : e.seq # seq} \cup {[seq |-> seq, state |-> state]}
  /\ highest' = Max({highest, seq})

\* reconcile: the incoming artifacts replace the stored ones.  A body is
\* written when its fingerprint is not in the stored manifest, and deleted when
\* the manifest names it and the task no longer has it.
Reconcile(incoming, stored) ==
  [writes   |-> {a \in Artifacts : incoming[a] \notin {None, stored[a]}},
   deletes  |-> {a \in Artifacts : incoming[a] = None /\ stored[a] # None},
   manifest |-> incoming]

\* The body records after a plan is applied.
AfterPlan(plan) ==
  [a \in Artifacts |-> IF a \in plan.writes THEN plan.manifest[a]
                       ELSE IF a \in plan.deletes THEN None ELSE bodies[a]]

\* rehydrate_in_manifest_order: the bodies the manifest names; a missing record
\* is skipped.
Rehydrated(manifest) ==
  [a \in Artifacts |-> IF manifest[a] = None THEN None ELSE bodies[a]]

\* The task a full-task write carries: what the caller read, with its own
\* message or artifact in it.
Incoming(c) ==
  IF calls[c].op = "message" THEN calls[c].bodies
  ELSE [calls[c].bodies EXCEPT ![CHOOSE a \in Artifacts : TRUE] = c]

Messages(c) ==
  IF calls[c].op = "message" THEN calls[c].row.messages \cup {c}
  ELSE calls[c].row.messages

FreshRow ==
  [status |-> "Submitted", messages |-> {}, manifest |-> NoContent,
   floor |-> 1, cancel |-> FALSE]

\* A transaction is refused or a connection lost: the call reports an error and
\* has changed nothing.
CallFails(c) ==
  /\ calls[c].at \notin {"idle", "done"}
  /\ Ends(c)
  /\ UNCHANGED <<backend, taskVars, logVars, pushVars, sideVars>>

-------------------------------------------------------------------------------
(* The claim row of a delivery *)

\* A claim may be taken: no row, or one that is not final and has run out.
Claimable(d) == d # None => d.status \notin FinalStatus /\ ~d.live

\* The row of caller c's claim over row d: a new generation, the same count.
ClaimOver(c, d) ==
  [claimant |-> c, generation |-> IF d = None THEN 1 ELSE d.generation + 1,
   attempts |-> IF d = None THEN 0 ELSE d.attempts,
   status |-> "Pending", live |-> TRUE]

\* The fence of every later write: the row still carries c's claim.
HoldsClaim(c) ==
  /\ delivery # None
  /\ delivery.claimant = c
  /\ delivery.generation = calls[c].generation

\* Retention is days, a worker's POST ends within its timeout.
NoDeliveryInProgress == \A c \in Callers : calls[c].op # "deliver"

\* Time passes a claim's, or a lease's, expiry.
ClaimRunsOut ==
  /\ delivery # None
  /\ delivery.live
  /\ delivery' = [delivery EXCEPT !.live = FALSE]
  /\ UNCHANGED <<backend, taskVars, logVars, pushVars, lease, calls>>

LeaseRunsOut ==
  /\ lease # None
  /\ lease.live
  /\ lease' = [lease EXCEPT !.live = FALSE]
  /\ UNCHANGED <<backend, taskVars, logVars, pushVars, delivery, calls>>
===============================================================================
