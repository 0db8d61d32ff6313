---------------------------- MODULE BackendsProofs ----------------------------
(***************************************************************************)
(* TLAPS proofs about the persistent backends, for any number of calls,    *)
(* configs and artifacts.  Every step of every backend is of one of a few  *)
(* kinds (StoreStep), which keep the types (RowsInv); the action           *)
(* properties of Backends are read off the kinds.  The two invariants of   *)
(* SQLite need what its transactions read besides (SqliteInv).             *)
(***************************************************************************)
EXTENDS Backends, WellFoundedInduction, TLAPS

USE DEF taskVars, logVars, pushVars, sideVars,
        Sqlite!taskVars, Sqlite!logVars, Sqlite!pushVars, Sqlite!sideVars,
        Postgres!taskVars, Postgres!logVars, Postgres!pushVars, Postgres!sideVars,
        Dynamo!taskVars, Dynamo!logVars, Dynamo!pushVars, Dynamo!sideVars

-------------------------------------------------------------------------------
(* The invariant *)

\* What a call has read when it comes to use it, and the marker it will leave.
CallGood(k) ==
  /\ k.at = "done" => k = Spent
  /\ k.op = "status" => k.state \in TaskState
  /\ k.op = "status" /\ k.at \in {"row", "counter"} => k.row \in Row
  /\ k.op \in {"artifact", "message"} => k.row \in Row
  /\ k.op = "config" => k.config \in Configs
  /\ k.at \in {"task", "manifest"} => k.op \in {"artifact", "message"}
  /\ k.at = "counter" => k.op \in {"status", "artifact"}
  /\ backend = "sqlite" /\ k.at = "row" => k.op \in {"artifact", "message"}
  /\ backend = "dynamodb" /\ k.op = "status" /\ k.known # {} => k.marker

CallsGood == \A c \in Callers : CallGood(calls[c])

\* The numbers of the events are at most the highest; a task has had one.
LogGood ==
  /\ \A e \in log : e.seq <= highest
  /\ HasRow => highest > 0

RowsInv == TypeOK /\ CallsGood /\ LogGood

\* What SQLite's serialised transactions keep of a stored task: a floor taken
\* from its row is at least every event's number, a terminal event has its
\* marker when a config has a lower floor, and the manifest agrees with the
\* bodies.
FloorCovers == \A e \in log : e.seq <= row.floor

MarkerCovers ==
  \A e \in log, k \in Configs :
    e.state \in TERMINAL_STATES /\ configs[k] # None /\ configs[k].floor < e.seq
      => e.seq \in markers

BodiesCover == \A a \in Artifacts : row.manifest[a] # None => bodies[a] = row.manifest[a]

SqliteInv ==
  backend = "sqlite" /\ HasRow => FloorCovers /\ MarkerCovers /\ BodiesCover

-------------------------------------------------------------------------------
(* The kinds of steps *)

\* Call c has come to k.
CallMoves(c, k) ==
  /\ calls' = [calls EXCEPT ![c] = k]
  /\ k \in Call
  /\ CallGood(k)

\* A call reads, or ends without a write.
Asks(c, k) ==
  /\ CallMoves(c, k)
  /\ UNCHANGED <<backend, taskVars, logVars, pushVars, sideVars>>

\* Event n is new; above every number given out, unless retention took them.
NewEvent(n, state) ==
  /\ n \in Nat \ {0}
  /\ state \in TaskState \cup {"Artifact"}
  /\ NumberingKept => n > highest
  /\ log' = {e \in log : e.seq # n} \cup {[seq |-> n, state |-> state]}
  /\ highest' = Max({highest, n})

CreatesTask ==
  /\ highest = 0
  /\ \E n \in Nat : NewEvent(n, "Submitted")
  /\ row' \in Row
  /\ counter' \in Nat
  /\ UNCHANGED <<backend, bodies, pushVars, sideVars, calls>>

\* A write of the task names the columns it sets, but DynamoDB's puts a new item.
CancelKept == backend # "dynamodb" => row'.cancel = row.cancel

\* A write with an event finds a row that is not terminal.
CommitsEvent(c, n, state) ==
  /\ HasRow
  /\ ~Terminal
  /\ NewEvent(n, state)
  /\ row' \in Row
  /\ CancelKept
  /\ bodies' \in Content
  /\ counter' \in Nat
  /\ markers' \in {markers, markers \cup {n}}
  /\ state \in TERMINAL_STATES /\ KnownTo(c) \cap EligibleConfigs(n) # {} => n \in markers'
  /\ CallMoves(c, Spent)
  /\ UNCHANGED <<backend, configs, sideVars>>

\* append_message's write, whatever the row has become.
ReplacesTask(c) ==
  /\ HasRow
  /\ calls[c].op = "message"
  /\ row' \in Row
  /\ CancelKept
  /\ bodies' \in Content
  /\ CallMoves(c, Spent)
  /\ UNCHANGED <<backend, logVars, pushVars, sideVars>>

MarksCancel(c) ==
  /\ HasRow
  /\ row' = [row EXCEPT !.cancel = TRUE]
  /\ CallMoves(c, Spent)
  /\ UNCHANGED <<backend, bodies, logVars, pushVars, sideVars>>

WritesConfig(c) ==
  /\ configs' \in [Configs -> Registration \cup {None}]
  /\ CallMoves(c, Spent)
  /\ UNCHANGED <<backend, taskVars, logVars, markers, sideVars>>

\* A lease is written; the sweep drops only the one it scanned.
WritesLease(c) ==
  /\ lease' \in Lease \cup {None}
  /\ calls[c].op = "sweep" /\ lease # calls[c].lease => lease' = lease
  /\ CallMoves(c, Spent)
  /\ UNCHANGED <<backend, taskVars, logVars, pushVars, delivery>>

TakesClaim(c, k) ==
  /\ Claimable(delivery)
  /\ delivery' = ClaimOver(c, delivery)
  /\ CallMoves(c, k)
  /\ UNCHANGED <<backend, taskVars, logVars, pushVars, lease>>

StartsAttempt(c, k) ==
  /\ delivery # None
  /\ delivery.status \notin FinalStatus
  /\ delivery' = [delivery EXCEPT !.attempts = @ + 1, !.status = "Attempting"]
  /\ CallMoves(c, k)
  /\ UNCHANGED <<backend, taskVars, logVars, pushVars, lease>>

LandsOutcome(c, k, outcome) ==
  /\ Delivering(c)
  /\ delivery.status \notin FinalStatus
  /\ outcome \in FinalStatus \cup {"Attempting"}
  /\ delivery' = [delivery EXCEPT !.status = outcome]
  /\ outcome \in FinalStatus => k = Spent
  /\ CallMoves(c, k)
  /\ UNCHANGED <<backend, taskVars, logVars, pushVars, lease>>

\* Retention, replication and an expiry of the lease.
Ages ==
  /\ row' \in {row, None}
  /\ bodies' \in Content
  /\ log' \subseteq log
  /\ counter' \in Nat
  /\ configs' \in [Configs -> Registration \cup {None}]
  /\ lease' \in Lease \cup {None}
  /\ UNCHANGED <<backend, highest, markers, delivery, calls>>

DeliveryAges ==
  /\ delivery # None
  /\ delivery' \in {None, [delivery EXCEPT !.live = FALSE]}
  /\ UNCHANGED <<backend, taskVars, logVars, pushVars, lease, calls>>

CallStep(c) ==
  \/ \E k \in Call : Asks(c, k) \/ TakesClaim(c, k) \/ StartsAttempt(c, k)
  \/ \E n \in Nat, state \in TaskState \cup {"Artifact"} : CommitsEvent(c, n, state)
  \/ ReplacesTask(c)
  \/ MarksCancel(c)
  \/ WritesConfig(c)
  \/ WritesLease(c)
  \/ \E k \in Call, outcome \in FinalStatus \cup {"Attempting"} : LandsOutcome(c, k, outcome)

StoreStep == CreatesTask \/ Ages \/ DeliveryAges \/ \E c \in Callers : CallStep(c)

-------------------------------------------------------------------------------
(* Records and numbers *)

LEMMA NoCallGood ==
  /\ NoCall \in Call
  /\ Spent \in Call
  /\ Spent.at = "done"
  /\ Spent.op = ""
  /\ NoCall.op = ""
  /\ NoCall.at = "idle"
  BY DEF NoCall, Spent, Call, NoContent, Content

\* A set of natural numbers with an element has a least one.
LEMMA Least ==
  ASSUME NEW T \in SUBSET Nat, T # {}
  PROVE  \E x \in T : \A y \in T : x <= y
<1> DEFINE R == {ss \in Nat \X Nat : ss[1] < ss[2]}
<1>1. IsWellFoundedOn(R, Nat)
  BY NatLessThanWellFounded, Zenon DEF OpToRel
<1>2. PICK x \in T : \A y \in T : <<y, x>> \notin R
  BY <1>1, WFMin, Zenon
<1>3. \A y \in T : x <= y \/ <<y, x>> \in R
  OBVIOUS
<1>4. QED
  BY <1>2, <1>3, Zenon

\* The greatest of a bounded set of numbers is what Max chooses.
LEMMA MaxOfBounded ==
  ASSUME NEW T \in SUBSET Nat, T # {}, NEW ub \in Nat, \A y \in T : y <= ub
  PROVE  Max(T) \in T /\ \A y \in T : y <= Max(T)
<1> DEFINE U == {u \in Nat : \A y \in T : y <= u}
<1>1. PICK x \in U : \A u \in U : x <= u
  <2>1. U \subseteq Nat /\ ub \in U
    OBVIOUS
  <2> HIDE DEF U
  <2>2. QED
    BY <2>1, Least
<1>2. x \in T
  <2>1. SUFFICES ASSUME x \notin T PROVE FALSE
    OBVIOUS
  <2>2. PICK t \in T : TRUE
    OBVIOUS
  <2>3. x \in Nat /\ t \in Nat /\ x - 1 \in Nat
    BY <2>1, <2>2
  <2>4. x - 1 \in U
    BY <2>1, <2>3
  <2>5. QED
    BY <1>1, <2>3, <2>4
<1>3. \A y \in T : x >= y
  OBVIOUS
<1>4. QED
  BY <1>2, <1>3 DEF Max

LEMMA MaxOfTwo ==
  ASSUME NEW m \in Nat, NEW n \in Nat
  PROVE  /\ Max({m, n}) \in {m, n}
         /\ m <= Max({m, n})
         /\ n <= Max({m, n})
         /\ Max({m, n}) \in Nat
<1>1. m + n \in Nat /\ {m, n} \in SUBSET Nat /\ {m, n} # {}
      /\ \A y \in {m, n} : y <= m + n
  OBVIOUS
<1>2. Max({m, n}) \in {m, n} /\ \A y \in {m, n} : y <= Max({m, n})
  BY <1>1, MaxOfBounded
<1>3. QED
  BY <1>2

\* The SQL backends' number of the next event.
NextOf == 1 + (IF log = {} THEN 0 ELSE Max({e.seq : e \in log}))

LEMMA NextOfLog ==
  ASSUME RowsInv
  PROVE  /\ NextOf \in Nat \ {0}
         /\ \A e \in log : e.seq < NextOf
         /\ NumberingKept /\ backend # "dynamodb" => NextOf > highest
         /\ log = {} => NextOf = 1
<1> DEFINE T == {e.seq : e \in log}
<1>1. T \subseteq Nat /\ highest \in Nat /\ \A y \in T : y <= highest
  BY DEF RowsInv, TypeOK, LogGood, Event
<1>2. CASE log = {}
  BY <1>2, <1>1 DEF NextOf, NumberingKept
<1>3. CASE log # {}
  <2>1. T # {} /\ \A e \in log : e.seq \in T
    BY <1>3
  <2>2. Max(T) \in T /\ \A y \in T : y <= Max(T)
    <3> HIDE DEF T
    <3>1. QED
      BY <1>1, <2>1, MaxOfBounded
  <2>3. NextOf = 1 + Max(T)
    BY <1>3 DEF NextOf
  <2>4. \A e \in log : e.seq <= Max(T) /\ e.seq \in Nat
    BY <1>1, <2>1, <2>2
  <2>5. Max(T) \in Nat
    BY <1>1, <2>2
  <2>6. QED
    <3> HIDE DEF T
    <3>1. QED
      BY <1>3, <2>3, <2>4, <2>5 DEF NumberingKept
<1>4. QED
  BY <1>2, <1>3

-------------------------------------------------------------------------------
(* What the calls carry *)

LEMMA ContentGood ==
  ASSUME TypeOK, NEW c \in Callers
  PROVE  /\ Incoming(c) \in Content
         /\ \A m \in Content : Rehydrated(m) \in Content
         /\ \A x \in Content, y \in Content : AfterPlan(Reconcile(x, y)) \in Content
         /\ calls[c].row \in Row => Messages(c) \in SUBSET Callers
         /\ StoredManifest \in Content
         /\ StoredFloor \in Nat
<1>1. /\ calls[c].bodies \in Content
      /\ bodies \in Content
      /\ row \in Row \cup {None}
  BY DEF TypeOK, Call
<1>2. Incoming(c) \in Content
  BY <1>1 DEF Incoming, Content
<1>3. \A m \in Content : Rehydrated(m) \in Content
  BY <1>1 DEF Rehydrated, Content
<1>4. \A x \in Content, y \in Content : AfterPlan(Reconcile(x, y)) \in Content
  BY <1>1 DEF AfterPlan, Reconcile, Content
<1>5. calls[c].row \in Row => Messages(c) \in SUBSET Callers
  BY DEF Messages, Row
<1>6. StoredManifest \in Content /\ StoredFloor \in Nat
  BY <1>1 DEF StoredManifest, StoredFloor, HasRow, Row, NoContent, Content
<1>7. QED
  BY <1>2, <1>3, <1>4, <1>5, <1>6

LEMMA ClaimGood ==
  ASSUME TypeOK, NEW c \in Callers
  PROVE  ClaimOver(c, delivery) \in Delivery
<1>1. CASE delivery = None
  BY <1>1 DEF ClaimOver, Delivery, ClaimStatus
<1>2. CASE delivery # None
  <2>1. delivery \in Delivery
    BY <1>2 DEF TypeOK
  <2>2. delivery.generation + 1 \in Nat /\ delivery.attempts \in Nat
    BY <2>1 DEF Delivery
  <2>3. QED
    BY <1>2, <2>2 DEF ClaimOver, Delivery, ClaimStatus
<1>3. QED
  BY <1>1, <1>2

LEMMA CallNumbers ==
  ASSUME TypeOK, NEW c \in Callers
  PROVE  /\ calls[c].seq \in Nat /\ calls[c].seq + 1 \in Nat
         /\ calls[c].floor \in Nat
         /\ calls[c].generation \in Nat /\ calls[c].generation + 1 \in Nat
<1>1. calls[c] \in Call
  BY DEF TypeOK
<1>2. calls[c].seq \in Nat /\ calls[c].floor \in Nat /\ calls[c].generation \in Nat
  BY <1>1 DEF Call
<1>3. QED
  BY <1>2

-------------------------------------------------------------------------------
(* SQLite's steps *)

LEMMA SqliteShares ==
  /\ Sqlite!NoCall = NoCall
  /\ Sqlite!Spent = Spent
  /\ Sqlite!TaskState = TaskState
  /\ Sqlite!TERMINAL_STATES = TERMINAL_STATES
  /\ Sqlite!FinalStatus = FinalStatus
  /\ Sqlite!HasRow = HasRow
  /\ Sqlite!Terminal = Terminal
  /\ Sqlite!StoredFloor = StoredFloor
  /\ Sqlite!StoredManifest = StoredManifest
  /\ \A S : Sqlite!Max(S) = Max(S)
  /\ \A x, y : Sqlite!ValidTransition(x, y) = ValidTransition(x, y)
<1>1. Sqlite!NoCall = NoCall /\ Sqlite!NoContent = NoContent
  BY DEF Sqlite!NoCall, NoCall, Sqlite!NoContent, NoContent
<1>2. Sqlite!Spent = Spent
  BY <1>1 DEF Sqlite!Spent, Spent
<1>3. /\ Sqlite!TERMINAL_STATES = TERMINAL_STATES
      /\ Sqlite!EXECUTOR_HELD_STATES = EXECUTOR_HELD_STATES
      /\ Sqlite!CLIENT_HELD_STATES = CLIENT_HELD_STATES
  BY DEF Sqlite!TERMINAL_STATES, TERMINAL_STATES, Sqlite!EXECUTOR_HELD_STATES,
         EXECUTOR_HELD_STATES, Sqlite!CLIENT_HELD_STATES, CLIENT_HELD_STATES
<1>4. Sqlite!HasRow = HasRow
  BY DEF Sqlite!HasRow, HasRow
<1>5. \A S : Sqlite!Max(S) = Max(S)
  BY DEF Sqlite!Max, Max
<1>6. \A x, y : Sqlite!ValidTransition(x, y) = ValidTransition(x, y)
  BY <1>3, Zenon DEF Sqlite!ValidTransition, ValidTransition
<1>7. QED
  BY <1>1, <1>2, <1>3, <1>4, <1>5, <1>6
     DEF Sqlite!TaskState, TaskState, Sqlite!FinalStatus, FinalStatus, Sqlite!Terminal, Terminal,
         Sqlite!StoredFloor, StoredFloor, Sqlite!StoredManifest, StoredManifest

LEMMA SqliteSharesRows ==
  /\ Sqlite!Registered = Registered
  /\ Sqlite!Settled = Settled
  /\ \A c \in Callers : Sqlite!Incoming(c) = Incoming(c)
  /\ \A c \in Callers : Sqlite!Messages(c) = Messages(c)
  /\ \A m : Sqlite!Rehydrated(m) = Rehydrated(m)
  /\ \A x, y : Sqlite!AfterPlan(Sqlite!Reconcile(x, y)) = AfterPlan(Reconcile(x, y))
<1>1. Sqlite!Registered = Registered
  BY DEF Sqlite!Registered, Registered
<1>2. Sqlite!Settled = Settled
  BY <1>1 DEF Sqlite!Settled, Settled
<1>3. \A x, y : Sqlite!Reconcile(x, y) = Reconcile(x, y)
  BY DEF Sqlite!Reconcile, Reconcile
<1>4. \A p : Sqlite!AfterPlan(p) = AfterPlan(p)
  BY DEF Sqlite!AfterPlan, AfterPlan
<1>5. QED
  BY <1>1, <1>2, <1>3, <1>4 DEF Sqlite!Incoming, Incoming, Sqlite!Messages, Messages,
     Sqlite!Rehydrated, Rehydrated

LEMMA SqliteNumbers == Sqlite!NextSequence = NextOf
  BY SqliteShares DEF Sqlite!NextSequence, NextOf

LEMMA SqliteSteps ==
  ASSUME RowsInv, backend = "sqlite", Sqlite!Next
  PROVE  StoreStep
<1> USE SqliteShares, SqliteSharesRows, SqliteNumbers, NoCallGood
    DEF RowsInv, Sqlite!InOneStep, Sqlite!Begins, Sqlite!Continues, Sqlite!Ends, Sqlite!At
<1>1. ASSUME Sqlite!CreateTaskWithEvents
      PROVE  CreatesTask
  <2>1. FreshRow \in Row /\ Sqlite!FreshRow = FreshRow
    BY DEF Sqlite!FreshRow, FreshRow, Row, TaskState, EXECUTOR_HELD_STATES,
           Sqlite!NoContent, NoContent, Content
  <2>2. NewEvent(NextOf, "Submitted")
    BY <1>1, NextOfLog DEF Sqlite!CreateTaskWithEvents, Sqlite!Commits, NewEvent,
           TaskState, EXECUTOR_HELD_STATES
  <2>3. QED
    BY <1>1, <2>1, <2>2, NextOfLog DEF Sqlite!CreateTaskWithEvents, CreatesTask, TypeOK
<1>2. ASSUME NEW c \in Callers, NEW s \in TaskState, Sqlite!UpdateTaskStatusWithEvents(c, s)
      PROVE  CommitsEvent(c, NextOf, s)
  <2>1. NewEvent(NextOf, s)
    BY <1>2, NextOfLog DEF Sqlite!UpdateTaskStatusWithEvents, Sqlite!Commits, NewEvent
  <2>2. HasRow /\ row \in Row /\ row.floor \in Nat
    BY <1>2 DEF Sqlite!UpdateTaskStatusWithEvents, Sqlite!MayBecome, TypeOK, HasRow, Row
  <2>3. Max({row.floor, NextOf}) \in Nat
    BY <2>2, NextOfLog, MaxOfTwo
  <2>4. row' = [row EXCEPT !.status = s, !.floor = Max({row.floor, NextOf})]
    BY <1>2 DEF Sqlite!UpdateTaskStatusWithEvents
  <2>5. row' \in Row /\ CancelKept
    BY <2>2, <2>3, <2>4 DEF Row, CancelKept
  <2>6. ~Terminal
    BY <1>2 DEF Sqlite!UpdateTaskStatusWithEvents, Sqlite!MayBecome, ValidTransition,
           Terminal, TERMINAL_STATES
  <2>7. CallMoves(c, Spent)
    BY <1>2 DEF Sqlite!UpdateTaskStatusWithEvents, CallMoves, CallGood
  <2>8. /\ markers' \in {markers, markers \cup {NextOf}}
        /\ s \in TERMINAL_STATES /\ KnownTo(c) \cap EligibleConfigs(NextOf) # {}
             => NextOf \in markers'
    BY <1>2 DEF Sqlite!UpdateTaskStatusWithEvents, EligibleConfigs, Listed,
           Sqlite!ListConfigsEligibleAtEvent
  <2>9. QED
    BY <1>2, <2>1, <2>2, <2>5, <2>6, <2>7, <2>8
       DEF Sqlite!UpdateTaskStatusWithEvents, CommitsEvent, TypeOK
<1>3. ASSUME NEW c \in Callers, NEW op \in {"artifact", "message"}, Sqlite!GetTask(c, op)
      PROVE  \E k \in Call : Asks(c, k)
  BY <1>3 DEF Sqlite!GetTask, Asks, CallMoves, CallGood, TypeOK, HasRow, Call
<1>4. ASSUME NEW c \in Callers, Sqlite!RehydrateTask(c)
      PROVE  \E k \in Call : Asks(c, k)
  <2>1. calls[c] \in Call /\ CallGood(calls[c])
    BY DEF TypeOK, CallsGood
  <2>2. calls[c].op \in {"artifact", "message"} /\ calls[c].row \in Row
    BY <1>4, <2>1 DEF Sqlite!RehydrateTask, CallGood
  <2>3. Rehydrated(calls[c].row.manifest) \in Content
    BY <2>2, ContentGood DEF Row
  <2>4. QED
    BY <1>4, <2>1, <2>2, <2>3 DEF Sqlite!RehydrateTask, Asks, CallMoves, CallGood, Call
<1>5. ASSUME NEW c \in Callers, Sqlite!UpdateTaskWithEvents(c)
      PROVE  CommitsEvent(c, NextOf, "Artifact")
  <2>1. NewEvent(NextOf, "Artifact")
    BY <1>5, NextOfLog DEF Sqlite!UpdateTaskWithEvents, Sqlite!Commits, NewEvent
  <2>2. HasRow /\ ~Terminal /\ row \in Row /\ row.floor \in Nat /\ row.manifest \in Content
    BY <1>5 DEF Sqlite!UpdateTaskWithEvents, TypeOK, HasRow, Row
  <2>3. Max({row.floor, NextOf}) \in Nat
    BY <2>2, NextOfLog, MaxOfTwo
  <2>4. calls[c].row \in Row /\ calls[c].row.status \in TaskState
    BY <1>5 DEF Sqlite!UpdateTaskWithEvents, CallsGood, CallGood, Row
  <2>5. row' = [row EXCEPT !.status = calls[c].row.status, !.messages = Messages(c),
                           !.manifest = Incoming(c), !.floor = Max({row.floor, NextOf})]
    BY <1>5 DEF Sqlite!UpdateTaskWithEvents
  <2>6. row' \in Row /\ CancelKept
    BY <2>2, <2>3, <2>4, <2>5, ContentGood DEF Row, CancelKept
  <2>7. bodies' \in Content
    <3>1. bodies' = AfterPlan(Reconcile(Incoming(c), row.manifest))
      BY <1>5 DEF Sqlite!UpdateTaskWithEvents, Sqlite!ApplyArtifactPlan
    <3>2. Incoming(c) \in Content
      BY ContentGood
    <3>3. QED
      BY <2>2, <3>1, <3>2, ContentGood
  <2>8. CallMoves(c, Spent)
    BY <1>5 DEF Sqlite!UpdateTaskWithEvents, CallMoves, CallGood
  <2>9. QED
    BY <1>5, <2>1, <2>2, <2>6, <2>7, <2>8
       DEF Sqlite!UpdateTaskWithEvents, CommitsEvent, TypeOK, TERMINAL_STATES
<1>6. ASSUME NEW c \in Callers, Sqlite!UpdateTask(c)
      PROVE  ReplacesTask(c)
  <2>1. HasRow /\ row \in Row /\ row.manifest \in Content
    BY <1>6 DEF Sqlite!UpdateTask, TypeOK, HasRow, Row
  <2>2. calls[c].row \in Row /\ calls[c].row.status \in TaskState
    BY <1>6 DEF Sqlite!UpdateTask, CallsGood, CallGood, Row
  <2>3. row' = [row EXCEPT !.status = calls[c].row.status, !.messages = Messages(c),
                           !.manifest = Incoming(c)]
    BY <1>6 DEF Sqlite!UpdateTask
  <2>4. row' \in Row /\ CancelKept
    BY <2>1, <2>2, <2>3, ContentGood DEF Row, CancelKept
  <2>5. bodies' \in Content
    <3>1. bodies' = AfterPlan(Reconcile(Incoming(c), row.manifest))
      BY <1>6 DEF Sqlite!UpdateTask, Sqlite!ApplyArtifactPlan
    <3>2. Incoming(c) \in Content
      BY ContentGood
    <3>3. QED
      BY <2>1, <3>1, <3>2, ContentGood
  <2>6. QED
    BY <1>6, <2>1, <2>4, <2>5 DEF Sqlite!UpdateTask, ReplacesTask, CallMoves, CallGood
<1>7. ASSUME NEW c \in Callers, Sqlite!SetCancelRequested(c)
      PROVE  MarksCancel(c)
  BY <1>7 DEF Sqlite!SetCancelRequested, MarksCancel, CallMoves, CallGood
<1>8. ASSUME NEW c \in Callers, NEW j \in Configs, Sqlite!CreateConfig(c, j)
      PROVE  WritesConfig(c)
  BY <1>8, ContentGood
     DEF Sqlite!CreateConfig, WritesConfig, CallMoves, CallGood, TypeOK, Registration
<1>9. ASSUME NEW c \in Callers, NEW j \in Configs, Sqlite!DeleteConfig(c, j)
      PROVE  WritesConfig(c)
  BY <1>9 DEF Sqlite!DeleteConfig, WritesConfig, CallMoves, CallGood, TypeOK
<1>10. ASSUME NEW c \in Callers, NEW live \in BOOLEAN, Sqlite!RenewExecutorLeases(c, live)
       PROVE  WritesLease(c)
  BY <1>10 DEF Sqlite!RenewExecutorLeases, WritesLease, CallMoves, CallGood, Lease
<1>11. ASSUME NEW c \in Callers, Sqlite!ClaimDelivery(c)
       PROVE  \E k \in Call : TakesClaim(c, k)
  <2>1. Claimable(delivery) /\ delivery' = ClaimOver(c, delivery)
    BY <1>11 DEF Sqlite!ClaimDelivery, Sqlite!Claimable, Claimable, Sqlite!ClaimOver, ClaimOver
  <2>2. delivery'.generation \in Nat
    BY <2>1, ClaimGood DEF Delivery
  <2>3. QED
    BY <1>11, <2>1, <2>2 DEF Sqlite!ClaimDelivery, TakesClaim, CallMoves, CallGood, Call
<1>12. ASSUME NEW c \in Callers, Sqlite!RecordAttemptStarted(c)
       PROVE  \E k \in Call : StartsAttempt(c, k)
  <2>1. calls[c] \in Call /\ calls[c].op = "deliver"
    BY <1>12 DEF Sqlite!RecordAttemptStarted, TypeOK
  <2>2. CallMoves(c, [calls[c] EXCEPT !.at = "posted"])
    BY <1>12, <2>1 DEF Sqlite!RecordAttemptStarted, CallMoves, CallGood, Call
  <2>3. QED
    BY <1>12, <2>2 DEF Sqlite!RecordAttemptStarted, Sqlite!HoldsClaim, StartsAttempt, CallMoves
<1>13. ASSUME NEW c \in Callers, NEW o \in FinalStatus \cup {"Attempting"},
              Sqlite!RecordDeliveryOutcome(c, o)
       PROVE  \E k \in Call : Asks(c, k) \/ LandsOutcome(c, k, o)
  <2> DEFINE k == IF o = "Attempting" THEN [calls[c] EXCEPT !.at = "claimed"] ELSE Spent
  <2>1. CallMoves(c, k)
    BY <1>13 DEF Sqlite!RecordDeliveryOutcome, CallMoves, CallGood, CallsGood, TypeOK, Call
  <2>2. Delivering(c)
    BY <1>13 DEF Sqlite!RecordDeliveryOutcome, Sqlite!HoldsClaim, Delivering
  <2>3. o \in FinalStatus => k = Spent
    BY DEF FinalStatus
  <2>4. CASE delivery.status \in FinalStatus
    BY <1>13, <2>1, <2>4 DEF Sqlite!RecordDeliveryOutcome, Asks, CallMoves
  <2>5. CASE delivery.status \notin FinalStatus
    <3>1. LandsOutcome(c, k, o)
      BY <1>13, <2>1, <2>2, <2>3, <2>5 DEF Sqlite!RecordDeliveryOutcome, LandsOutcome
    <3>2. QED
      BY <2>1, <3>1 DEF CallMoves
  <2>6. QED
    BY <2>4, <2>5
<1>14. ASSUME NEW c \in Callers, Sqlite!CallFails(c)
       PROVE  \E k \in Call : Asks(c, k)
  BY <1>14 DEF Sqlite!CallFails, Asks, CallMoves, CallGood
<1>15. ASSUME NEW n \in 1..MaxSeq, Sqlite!CleanupEvents(n)
       PROVE  Ages
  BY <1>15 DEF Sqlite!CleanupEvents, Ages, TypeOK
<1>16. ASSUME Sqlite!CleanupTask \/ Sqlite!CleanupBodies
       PROVE  Ages
  BY <1>16 DEF Sqlite!CleanupTask, Sqlite!CleanupBodies, Ages, TypeOK, Sqlite!NoContent, Content
<1>17. ASSUME Sqlite!CleanupGaveUp \/ Sqlite!ClaimRunsOut
       PROVE  DeliveryAges
  BY <1>17 DEF Sqlite!CleanupGaveUp, Sqlite!ClaimRunsOut, DeliveryAges
<1>18. ASSUME Sqlite!LeaseRunsOut
       PROVE  Ages
  BY <1>18 DEF Sqlite!LeaseRunsOut, Ages, TypeOK, Lease
<1>19. QED
  <2>1. ASSUME NEW c \in Callers,
               \/ \E s \in TaskState : Sqlite!UpdateTaskStatusWithEvents(c, s)
               \/ \E op \in {"artifact", "message"} : Sqlite!GetTask(c, op)
               \/ Sqlite!RehydrateTask(c)
               \/ Sqlite!UpdateTaskWithEvents(c)
               \/ Sqlite!UpdateTask(c)
               \/ Sqlite!SetCancelRequested(c)
               \/ \E j \in Configs : Sqlite!CreateConfig(c, j) \/ Sqlite!DeleteConfig(c, j)
               \/ \E live \in BOOLEAN : Sqlite!RenewExecutorLeases(c, live)
               \/ Sqlite!ClaimDelivery(c)
               \/ Sqlite!RecordAttemptStarted(c)
               \/ \E o \in FinalStatus \cup {"Attempting"} : Sqlite!RecordDeliveryOutcome(c, o)
               \/ Sqlite!CallFails(c)
        PROVE  CallStep(c)
    <3>1. NextOf \in Nat
      BY NextOfLog
    <3>2. QED
      BY <2>1, <3>1, <1>2, <1>3, <1>4, <1>5, <1>6, <1>7, <1>8, <1>9, <1>10, <1>11, <1>12,
         <1>13, <1>14 DEF CallStep
  <2>2. QED
    BY <2>1, <1>1, <1>15, <1>16, <1>17, <1>18, Zenon DEF Sqlite!Next, StoreStep

-------------------------------------------------------------------------------
(* PostgreSQL's steps *)

LEMMA PostgresShares ==
  /\ Postgres!NoCall = NoCall
  /\ Postgres!Spent = Spent
  /\ Postgres!TaskState = TaskState
  /\ Postgres!TERMINAL_STATES = TERMINAL_STATES
  /\ Postgres!FinalStatus = FinalStatus
  /\ Postgres!HasRow = HasRow
  /\ Postgres!Terminal = Terminal
  /\ Postgres!StoredFloor = StoredFloor
  /\ Postgres!StoredManifest = StoredManifest
  /\ \A S : Postgres!Max(S) = Max(S)
  /\ \A x, y : Postgres!ValidTransition(x, y) = ValidTransition(x, y)
<1>1. Postgres!NoCall = NoCall /\ Postgres!NoContent = NoContent
  BY DEF Postgres!NoCall, NoCall, Postgres!NoContent, NoContent
<1>2. Postgres!Spent = Spent
  BY <1>1 DEF Postgres!Spent, Spent
<1>3. /\ Postgres!TERMINAL_STATES = TERMINAL_STATES
      /\ Postgres!EXECUTOR_HELD_STATES = EXECUTOR_HELD_STATES
      /\ Postgres!CLIENT_HELD_STATES = CLIENT_HELD_STATES
  BY DEF Postgres!TERMINAL_STATES, TERMINAL_STATES, Postgres!EXECUTOR_HELD_STATES,
         EXECUTOR_HELD_STATES, Postgres!CLIENT_HELD_STATES, CLIENT_HELD_STATES
<1>4. Postgres!HasRow = HasRow
  BY DEF Postgres!HasRow, HasRow
<1>5. \A S : Postgres!Max(S) = Max(S)
  BY DEF Postgres!Max, Max
<1>6. \A x, y : Postgres!ValidTransition(x, y) = ValidTransition(x, y)
  BY <1>3, Zenon DEF Postgres!ValidTransition, ValidTransition
<1>7. QED
  BY <1>1, <1>2, <1>3, <1>4, <1>5, <1>6
     DEF Postgres!TaskState, TaskState, Postgres!FinalStatus, FinalStatus, Postgres!Terminal, Terminal,
         Postgres!StoredFloor, StoredFloor, Postgres!StoredManifest, StoredManifest

LEMMA PostgresSharesRows ==
  /\ Postgres!Registered = Registered
  /\ Postgres!Settled = Settled
  /\ \A c \in Callers : Postgres!Incoming(c) = Incoming(c)
  /\ \A c \in Callers : Postgres!Messages(c) = Messages(c)
  /\ \A m : Postgres!Rehydrated(m) = Rehydrated(m)
  /\ \A x, y : Postgres!AfterPlan(Postgres!Reconcile(x, y)) = AfterPlan(Reconcile(x, y))
<1>1. Postgres!Registered = Registered
  BY DEF Postgres!Registered, Registered
<1>2. Postgres!Settled = Settled
  BY <1>1 DEF Postgres!Settled, Settled
<1>3. \A x, y : Postgres!Reconcile(x, y) = Reconcile(x, y)
  BY DEF Postgres!Reconcile, Reconcile
<1>4. \A p : Postgres!AfterPlan(p) = AfterPlan(p)
  BY DEF Postgres!AfterPlan, AfterPlan
<1>5. QED
  BY <1>1, <1>2, <1>3, <1>4 DEF Postgres!Incoming, Incoming, Postgres!Messages, Messages,
     Postgres!Rehydrated, Rehydrated

LEMMA PostgresNumbers == Postgres!NextSequence = NextOf
  BY PostgresShares DEF Postgres!NextSequence, NextOf

LEMMA PostgresSteps ==
  ASSUME RowsInv, backend = "postgres", Postgres!Next
  PROVE  StoreStep
<1> USE PostgresShares, PostgresSharesRows, PostgresNumbers, NoCallGood
    DEF RowsInv, Postgres!InOneStep, Postgres!Begins, Postgres!Continues, Postgres!Ends, Postgres!At
<1>1. ASSUME Postgres!CreateTaskWithEvents
      PROVE  CreatesTask
  <2>1. FreshRow \in Row /\ Postgres!FreshRow = FreshRow
    BY DEF Postgres!FreshRow, FreshRow, Row, TaskState, EXECUTOR_HELD_STATES,
           Postgres!NoContent, NoContent, Content
  <2>2. NewEvent(NextOf, "Submitted")
    BY <1>1, NextOfLog DEF Postgres!CreateTaskWithEvents, Postgres!Commits, NewEvent,
           TaskState, EXECUTOR_HELD_STATES
  <2>3. QED
    BY <1>1, <2>1, <2>2, NextOfLog DEF Postgres!CreateTaskWithEvents, CreatesTask, TypeOK
<1>2. ASSUME NEW c \in Callers, Postgres!UpdateTaskStatusWithEvents(c)
      PROVE  CommitsEvent(c, NextOf, calls[c].state) /\ calls[c].state \in TaskState
  <2> DEFINE s == calls[c].state
  <2>1. CallGood(calls[c]) /\ calls[c].op = "status" /\ calls[c].at = "row"
    BY <1>2 DEF Postgres!UpdateTaskStatusWithEvents, CallsGood
  <2>2. s \in TaskState /\ calls[c].row \in Row /\ calls[c].row.messages \in SUBSET Callers
    BY <2>1 DEF CallGood, Row
  <2>3. NewEvent(NextOf, s)
    BY <1>2, <2>2, NextOfLog DEF Postgres!UpdateTaskStatusWithEvents, Postgres!Commits, NewEvent
  <2>4. HasRow /\ ~Terminal /\ row \in Row /\ row.floor \in Nat
    BY <1>2 DEF Postgres!UpdateTaskStatusWithEvents, TypeOK, HasRow, Row
  <2>5. Max({row.floor, NextOf}) \in Nat
    BY <2>4, NextOfLog, MaxOfTwo
  <2>6. row' = [row EXCEPT !.status = s, !.messages = calls[c].row.messages,
                           !.floor = Max({row.floor, NextOf})]
    BY <1>2 DEF Postgres!UpdateTaskStatusWithEvents
  <2>7. row' \in Row /\ CancelKept
    BY <2>2, <2>4, <2>5, <2>6 DEF Row, CancelKept
  <2>8. CallMoves(c, Spent)
    BY <1>2 DEF Postgres!UpdateTaskStatusWithEvents, CallMoves, CallGood
  <2>9. /\ markers' \in {markers, markers \cup {NextOf}}
        /\ s \in TERMINAL_STATES /\ KnownTo(c) \cap EligibleConfigs(NextOf) # {}
             => NextOf \in markers'
    BY <1>2 DEF Postgres!UpdateTaskStatusWithEvents, EligibleConfigs, Listed,
           Postgres!ListConfigsEligibleAtEvent
  <2>10. QED
    BY <1>2, <2>2, <2>3, <2>4, <2>7, <2>8, <2>9
       DEF Postgres!UpdateTaskStatusWithEvents, CommitsEvent, TypeOK
<1>3. ASSUME NEW c \in Callers, NEW op \in {"artifact", "message"}, Postgres!GetTask(c, op)
      PROVE  \E k \in Call : Asks(c, k)
  BY <1>3 DEF Postgres!GetTask, Asks, CallMoves, CallGood, TypeOK, HasRow, Call
<1>4. ASSUME NEW c \in Callers, Postgres!RehydrateTask(c)
      PROVE  \E k \in Call : Asks(c, k)
  <2>1. calls[c] \in Call /\ CallGood(calls[c])
    BY DEF TypeOK, CallsGood
  <2>2. calls[c].op \in {"artifact", "message"} /\ calls[c].row \in Row
    BY <1>4, <2>1 DEF Postgres!RehydrateTask, CallGood
  <2>3. Rehydrated(calls[c].row.manifest) \in Content
    BY <2>2, ContentGood DEF Row
  <2>4. QED
    BY <1>4, <2>1, <2>2, <2>3 DEF Postgres!RehydrateTask, Asks, CallMoves, CallGood, Call
<1>5. ASSUME NEW c \in Callers, Postgres!UpdateTaskWithEvents(c)
      PROVE  CommitsEvent(c, NextOf, "Artifact")
  <2>1. NewEvent(NextOf, "Artifact")
    BY <1>5, NextOfLog DEF Postgres!UpdateTaskWithEvents, Postgres!Commits, NewEvent
  <2>2. HasRow /\ ~Terminal /\ row \in Row /\ row.floor \in Nat /\ row.manifest \in Content
    BY <1>5 DEF Postgres!UpdateTaskWithEvents, TypeOK, HasRow, Row
  <2>3. Max({row.floor, NextOf}) \in Nat
    BY <2>2, NextOfLog, MaxOfTwo
  <2>4. calls[c].row \in Row /\ calls[c].row.status \in TaskState
    BY <1>5 DEF Postgres!UpdateTaskWithEvents, CallsGood, CallGood, Row
  <2>5. row' = [row EXCEPT !.status = calls[c].row.status, !.messages = Messages(c),
                           !.manifest = Incoming(c), !.floor = Max({row.floor, NextOf})]
    BY <1>5 DEF Postgres!UpdateTaskWithEvents
  <2>6. row' \in Row /\ CancelKept
    BY <2>2, <2>3, <2>4, <2>5, ContentGood DEF Row, CancelKept
  <2>7. bodies' \in Content
    <3>1. bodies' = AfterPlan(Reconcile(Incoming(c), calls[c].manifest))
      BY <1>5 DEF Postgres!UpdateTaskWithEvents, Postgres!ApplyArtifactPlan
    <3>2. Incoming(c) \in Content /\ calls[c].manifest \in Content
      BY ContentGood DEF TypeOK, Call
    <3>3. QED
      BY <2>2, <3>1, <3>2, ContentGood
  <2>8. CallMoves(c, Spent)
    BY <1>5 DEF Postgres!UpdateTaskWithEvents, CallMoves, CallGood
  <2>9. QED
    BY <1>5, <2>1, <2>2, <2>6, <2>7, <2>8
       DEF Postgres!UpdateTaskWithEvents, CommitsEvent, TypeOK, TERMINAL_STATES
<1>6. ASSUME NEW c \in Callers, Postgres!UpdateTask(c)
      PROVE  ReplacesTask(c)
  <2>1. HasRow /\ row \in Row /\ row.manifest \in Content
    BY <1>6 DEF Postgres!UpdateTask, TypeOK, HasRow, Row
  <2>2. calls[c].row \in Row /\ calls[c].row.status \in TaskState
    BY <1>6 DEF Postgres!UpdateTask, CallsGood, CallGood, Row
  <2>3. row' = [row EXCEPT !.status = calls[c].row.status, !.messages = Messages(c),
                           !.manifest = Incoming(c)]
    BY <1>6 DEF Postgres!UpdateTask
  <2>4. row' \in Row /\ CancelKept
    BY <2>1, <2>2, <2>3, ContentGood DEF Row, CancelKept
  <2>5. bodies' \in Content
    <3>1. bodies' = AfterPlan(Reconcile(Incoming(c), calls[c].manifest))
      BY <1>6 DEF Postgres!UpdateTask, Postgres!ApplyArtifactPlan
    <3>2. Incoming(c) \in Content /\ calls[c].manifest \in Content
      BY ContentGood DEF TypeOK, Call
    <3>3. QED
      BY <2>1, <3>1, <3>2, ContentGood
  <2>6. QED
    BY <1>6, <2>1, <2>4, <2>5 DEF Postgres!UpdateTask, ReplacesTask, CallMoves, CallGood
<1>7. ASSUME NEW c \in Callers, Postgres!SetCancelRequested(c)
      PROVE  MarksCancel(c)
  BY <1>7 DEF Postgres!SetCancelRequested, MarksCancel, CallMoves, CallGood
<1>8. ASSUME NEW c \in Callers, Postgres!CreateConfigInsert(c)
      PROVE  WritesConfig(c)
  <2>1. calls[c].config \in Configs /\ calls[c].floor \in Nat
    BY <1>8 DEF Postgres!CreateConfigInsert, CallsGood, CallGood, TypeOK, Call
  <2>2. QED
    BY <1>8, <2>1
       DEF Postgres!CreateConfigInsert, WritesConfig, CallMoves, CallGood, TypeOK, Registration
<1>9. ASSUME NEW c \in Callers, NEW j \in Configs, Postgres!DeleteConfig(c, j)
      PROVE  WritesConfig(c)
  BY <1>9 DEF Postgres!DeleteConfig, WritesConfig, CallMoves, CallGood, TypeOK
<1>10. ASSUME NEW c \in Callers, NEW live \in BOOLEAN, Postgres!RenewExecutorLeases(c, live)
       PROVE  WritesLease(c)
  BY <1>10 DEF Postgres!RenewExecutorLeases, WritesLease, CallMoves, CallGood, Lease
<1>11. ASSUME NEW c \in Callers, Postgres!ClaimDelivery(c)
       PROVE  \E k \in Call : TakesClaim(c, k)
  <2>1. Claimable(delivery) /\ delivery' = ClaimOver(c, delivery)
    BY <1>11 DEF Postgres!ClaimDelivery, Postgres!Claimable, Claimable, Postgres!ClaimOver, ClaimOver
  <2>2. delivery'.generation \in Nat
    BY <2>1, ClaimGood DEF Delivery
  <2>3. QED
    BY <1>11, <2>1, <2>2 DEF Postgres!ClaimDelivery, TakesClaim, CallMoves, CallGood, Call
<1>12. ASSUME NEW c \in Callers, Postgres!RecordAttemptStarted(c)
       PROVE  \E k \in Call : StartsAttempt(c, k)
  <2>1. calls[c] \in Call /\ calls[c].op = "deliver"
    BY <1>12 DEF Postgres!RecordAttemptStarted, TypeOK
  <2>2. CallMoves(c, [calls[c] EXCEPT !.at = "posted"])
    BY <1>12, <2>1 DEF Postgres!RecordAttemptStarted, CallMoves, CallGood, Call
  <2>3. QED
    BY <1>12, <2>2 DEF Postgres!RecordAttemptStarted, Postgres!HoldsClaim, StartsAttempt, CallMoves
<1>13. ASSUME NEW c \in Callers, NEW o \in FinalStatus \cup {"Attempting"},
              Postgres!RecordDeliveryOutcome(c, o)
       PROVE  \E k \in Call : Asks(c, k) \/ LandsOutcome(c, k, o)
  <2> DEFINE k == IF o = "Attempting" THEN [calls[c] EXCEPT !.at = "claimed"] ELSE Spent
  <2>1. CallMoves(c, k)
    BY <1>13 DEF Postgres!RecordDeliveryOutcome, CallMoves, CallGood, CallsGood, TypeOK, Call
  <2>2. Delivering(c)
    BY <1>13 DEF Postgres!RecordDeliveryOutcome, Postgres!HoldsClaim, Delivering
  <2>3. o \in FinalStatus => k = Spent
    BY DEF FinalStatus
  <2>4. CASE delivery.status \in FinalStatus
    BY <1>13, <2>1, <2>4 DEF Postgres!RecordDeliveryOutcome, Asks, CallMoves
  <2>5. CASE delivery.status \notin FinalStatus
    <3>1. LandsOutcome(c, k, o)
      BY <1>13, <2>1, <2>2, <2>3, <2>5 DEF Postgres!RecordDeliveryOutcome, LandsOutcome
    <3>2. QED
      BY <2>1, <3>1 DEF CallMoves
  <2>6. QED
    BY <2>4, <2>5
<1>14. ASSUME NEW c \in Callers, Postgres!CallFails(c)
       PROVE  \E k \in Call : Asks(c, k)
  BY <1>14 DEF Postgres!CallFails, Asks, CallMoves, CallGood
<1>15. ASSUME NEW n \in 1..MaxSeq, Postgres!CleanupEvents(n)
       PROVE  Ages
  BY <1>15 DEF Postgres!CleanupEvents, Ages, TypeOK
<1>16. ASSUME Postgres!CleanupTask \/ Postgres!CleanupBodies
       PROVE  Ages
  BY <1>16 DEF Postgres!CleanupTask, Postgres!CleanupBodies, Ages, TypeOK, Postgres!NoContent, Content
<1>17. ASSUME Postgres!CleanupGaveUp \/ Postgres!ClaimRunsOut
       PROVE  DeliveryAges
  BY <1>17 DEF Postgres!CleanupGaveUp, Postgres!ClaimRunsOut, DeliveryAges
<1>18. ASSUME Postgres!LeaseRunsOut
       PROVE  Ages
  BY <1>18 DEF Postgres!LeaseRunsOut, Ages, TypeOK, Lease
<1>19. ASSUME NEW c \in Callers, NEW s \in TaskState, Postgres!ReadForStatus(c, s)
       PROVE  \E k \in Call : Asks(c, k)
  <2> DEFINE k == [NoCall EXCEPT !.op = "status", !.at = "row", !.row = row,
                                 !.state = s, !.known = Settled]
  <2>1. row \in Row /\ Settled \in SUBSET Configs
    BY <1>19 DEF Postgres!ReadForStatus, TypeOK, HasRow, Settled, Registered
  <2>2. k \in Call /\ k.op = "status" /\ k.at = "row" /\ k.row = row /\ k.state = s
    BY <2>1 DEF Call, NoCall
  <2>3. CallGood(k)
    <3> HIDE DEF k
    <3>1. QED
      BY <2>1, <2>2 DEF CallGood
  <2>4. calls' = [calls EXCEPT ![c] = k]
    BY <1>19 DEF Postgres!ReadForStatus
  <2>5. QED
    <3> HIDE DEF k
    <3>1. QED
      BY <1>19, <2>2, <2>3, <2>4 DEF Postgres!ReadForStatus, Asks, CallMoves
<1>20. ASSUME NEW c \in Callers, Postgres!FetchManifest(c)
       PROVE  \E k \in Call : Asks(c, k)
  <2>1. calls[c] \in Call /\ CallGood(calls[c]) /\ StoredManifest \in Content
    BY ContentGood DEF TypeOK, CallsGood
  <2>2. calls[c].op \in {"artifact", "message"} /\ calls[c].row \in Row
    BY <1>20, <2>1 DEF Postgres!FetchManifest, CallGood
  <2>3. QED
    BY <1>20, <2>1, <2>2 DEF Postgres!FetchManifest, Asks, CallMoves, CallGood, Call
<1>21. ASSUME NEW c \in Callers, NEW j \in Configs, Postgres!CreateConfigRead(c, j)
       PROVE  \E k \in Call : Asks(c, k)
  <2> DEFINE k == [NoCall EXCEPT !.op = "config", !.at = "floor", !.config = j,
                                 !.floor = StoredFloor]
  <2>1. k \in Call /\ k.op = "config" /\ k.at = "floor" /\ k.config = j
    BY ContentGood DEF Call, NoCall
  <2>2. CallGood(k)
    <3> HIDE DEF k
    <3>1. QED
      BY <2>1 DEF CallGood
  <2>3. calls' = [calls EXCEPT ![c] = k]
    BY <1>21 DEF Postgres!CreateConfigRead
  <2>4. QED
    <3> HIDE DEF k
    <3>1. QED
      BY <1>21, <2>1, <2>2, <2>3 DEF Postgres!CreateConfigRead, Asks, CallMoves
<1>22. QED
  <2>1. ASSUME NEW c \in Callers,
               \/ \E s \in TaskState : Postgres!ReadForStatus(c, s)
               \/ Postgres!UpdateTaskStatusWithEvents(c)
               \/ \E op \in {"artifact", "message"} : Postgres!GetTask(c, op)
               \/ Postgres!RehydrateTask(c)
               \/ Postgres!FetchManifest(c)
               \/ Postgres!UpdateTaskWithEvents(c)
               \/ Postgres!UpdateTask(c)
               \/ Postgres!SetCancelRequested(c)
               \/ Postgres!CreateConfigInsert(c)
               \/ \E j \in Configs : Postgres!CreateConfigRead(c, j) \/ Postgres!DeleteConfig(c, j)
               \/ \E live \in BOOLEAN : Postgres!RenewExecutorLeases(c, live)
               \/ Postgres!ClaimDelivery(c)
               \/ Postgres!RecordAttemptStarted(c)
               \/ \E o \in FinalStatus \cup {"Attempting"} : Postgres!RecordDeliveryOutcome(c, o)
               \/ Postgres!CallFails(c)
        PROVE  CallStep(c)
    <3>1. NextOf \in Nat
      BY NextOfLog
    <3>2. QED
      BY <2>1, <3>1, <1>2, <1>3, <1>4, <1>5, <1>6, <1>7, <1>8, <1>9, <1>10, <1>11, <1>12,
         <1>13, <1>14, <1>19, <1>20, <1>21 DEF CallStep
  <2>2. QED
    BY <2>1, <1>1, <1>15, <1>16, <1>17, <1>18, Zenon DEF Postgres!Next, StoreStep

-------------------------------------------------------------------------------
(* DynamoDB's steps *)

LEMMA DynamoShares ==
  /\ Dynamo!NoCall = NoCall
  /\ Dynamo!Spent = Spent
  /\ Dynamo!TaskState = TaskState
  /\ Dynamo!TERMINAL_STATES = TERMINAL_STATES
  /\ Dynamo!FinalStatus = FinalStatus
  /\ Dynamo!HasRow = HasRow
  /\ Dynamo!Terminal = Terminal
  /\ Dynamo!StoredFloor = StoredFloor
  /\ Dynamo!StoredManifest = StoredManifest
  /\ \A S : Dynamo!Max(S) = Max(S)
  /\ \A x, y : Dynamo!ValidTransition(x, y) = ValidTransition(x, y)
<1>1. Dynamo!NoCall = NoCall /\ Dynamo!NoContent = NoContent
  BY DEF Dynamo!NoCall, NoCall, Dynamo!NoContent, NoContent
<1>2. Dynamo!Spent = Spent
  BY <1>1 DEF Dynamo!Spent, Spent
<1>3. /\ Dynamo!TERMINAL_STATES = TERMINAL_STATES
      /\ Dynamo!EXECUTOR_HELD_STATES = EXECUTOR_HELD_STATES
      /\ Dynamo!CLIENT_HELD_STATES = CLIENT_HELD_STATES
  BY DEF Dynamo!TERMINAL_STATES, TERMINAL_STATES, Dynamo!EXECUTOR_HELD_STATES,
         EXECUTOR_HELD_STATES, Dynamo!CLIENT_HELD_STATES, CLIENT_HELD_STATES
<1>4. Dynamo!HasRow = HasRow
  BY DEF Dynamo!HasRow, HasRow
<1>5. \A S : Dynamo!Max(S) = Max(S)
  BY DEF Dynamo!Max, Max
<1>6. \A x, y : Dynamo!ValidTransition(x, y) = ValidTransition(x, y)
  BY <1>3, Zenon DEF Dynamo!ValidTransition, ValidTransition
<1>7. QED
  BY <1>1, <1>2, <1>3, <1>4, <1>5, <1>6
     DEF Dynamo!TaskState, TaskState, Dynamo!FinalStatus, FinalStatus, Dynamo!Terminal, Terminal,
         Dynamo!StoredFloor, StoredFloor, Dynamo!StoredManifest, StoredManifest

LEMMA DynamoSharesRows ==
  /\ Dynamo!Registered = Registered
  /\ Dynamo!Settled = Settled
  /\ \A c \in Callers : Dynamo!Incoming(c) = Incoming(c)
  /\ \A c \in Callers : Dynamo!Messages(c) = Messages(c)
  /\ \A m : Dynamo!Rehydrated(m) = Rehydrated(m)
  /\ \A x, y : Dynamo!AfterPlan(Dynamo!Reconcile(x, y)) = AfterPlan(Reconcile(x, y))
<1>1. Dynamo!Registered = Registered
  BY DEF Dynamo!Registered, Registered
<1>2. Dynamo!Settled = Settled
  BY <1>1 DEF Dynamo!Settled, Settled
<1>3. \A x, y : Dynamo!Reconcile(x, y) = Reconcile(x, y)
  BY DEF Dynamo!Reconcile, Reconcile
<1>4. \A p : Dynamo!AfterPlan(p) = AfterPlan(p)
  BY DEF Dynamo!AfterPlan, AfterPlan
<1>5. QED
  BY <1>1, <1>2, <1>3, <1>4 DEF Dynamo!Incoming, Incoming, Dynamo!Messages, Messages,
     Dynamo!Rehydrated, Rehydrated

\* The transaction's condition on the counter gives the event its number.
LEMMA DynamoAllocates ==
  ASSUME RowsInv, backend = "dynamodb", NEW c \in Callers, Dynamo!AllocationHolds(c),
         calls[c].op = "status" => calls[c].state \in TaskState
  PROVE  /\ NewEvent(calls[c].seq + 1, IF calls[c].op = "status" THEN calls[c].state ELSE "Artifact")
         /\ calls[c].seq \in Nat
         /\ counter' = calls[c].seq + 1
<1>1. calls[c].seq \in Nat
  BY DEF RowsInv, TypeOK, Call
<1>2. counter = calls[c].seq /\ counter' = calls[c].seq + 1
  BY DEF Dynamo!AllocationHolds, Dynamo!CounterMoves
<1>3. NumberingKept => calls[c].seq + 1 > highest
  BY <1>1, <1>2 DEF NumberingKept
<1>4. QED
  BY <1>1, <1>2, <1>3, DynamoShares DEF Dynamo!AllocationHolds, Dynamo!Commits, NewEvent

LEMMA DynamoFirst ==
  ASSUME Dynamo!CreateTaskWithEvents
  PROVE  NewEvent(1, "Submitted")
<1>1. highest = 0
  BY DEF Dynamo!CreateTaskWithEvents
<1>2. 1 > highest /\ 1 \in Nat \ {0}
  BY <1>1
<1>3. "Submitted" \in TaskState
  BY DEF TaskState, EXECUTOR_HELD_STATES
<1>4. /\ log' = {e \in log : e.seq # 1} \cup {[seq |-> 1, state |-> "Submitted"]}
      /\ highest' = Max({highest, 1})
  BY DynamoShares DEF Dynamo!CreateTaskWithEvents, Dynamo!Commits
<1>5. QED
  BY <1>2, <1>3, <1>4, Zenon DEF NewEvent

LEMMA DynamoItem ==
  ASSUME NEW s \in TaskState, NEW m \in SUBSET Callers, NEW x \in Content, NEW n \in Nat
  PROVE  Dynamo!BuildTaskItem(s, m, x, n) \in Row
  BY DEF Dynamo!BuildTaskItem, Row

LEMMA DynamoSteps ==
  ASSUME RowsInv, backend = "dynamodb", Dynamo!Next
  PROVE  StoreStep
<1> USE DynamoShares, DynamoSharesRows, NoCallGood
    DEF RowsInv, Dynamo!InOneStep, Dynamo!Begins, Dynamo!Continues, Dynamo!Ends, Dynamo!At
<1>1. ASSUME Dynamo!CreateTaskWithEvents
      PROVE  CreatesTask
  <2>1. row' \in Row
    <3>1. Dynamo!NoContent \in Content /\ "Submitted" \in TaskState /\ {} \in SUBSET Callers
      BY DEF Dynamo!NoContent, Content, TaskState, EXECUTOR_HELD_STATES
    <3>2. QED
      BY <1>1, <3>1, DynamoItem DEF Dynamo!CreateTaskWithEvents
  <2>2. NewEvent(1, "Submitted")
    BY <1>1, DynamoFirst
  <2>3. QED
    BY <1>1, <2>1, <2>2 DEF Dynamo!CreateTaskWithEvents, CreatesTask, TypeOK
<1>2. ASSUME NEW c \in Callers, Dynamo!UpdateTaskStatusWithEvents(c)
      PROVE  CommitsEvent(c, calls[c].seq + 1, calls[c].state)
             /\ calls[c].state \in TaskState /\ calls[c].seq \in Nat
  <2> DEFINE s == calls[c].state
             n == calls[c].seq + 1
  <2>1. /\ CallGood(calls[c]) /\ calls[c].op = "status" /\ calls[c].at = "counter"
        /\ HasRow /\ ~Terminal /\ Dynamo!AllocationHolds(c)
    BY <1>2 DEF Dynamo!UpdateTaskStatusWithEvents, CallsGood
  <2>2. s \in TaskState /\ calls[c].row \in Row /\ calls[c].row.messages \in SUBSET Callers
        /\ calls[c].row.manifest \in Content
    BY <2>1 DEF CallGood, Row
  <2>3. NewEvent(n, s) /\ calls[c].seq \in Nat /\ counter' = n
    BY <2>1, <2>2, DynamoAllocates
  <2>4. Max({calls[c].floor, n}) \in Nat
    <3>1. calls[c].floor \in Nat /\ n \in Nat
      BY CallNumbers
    <3>2. QED
      BY <3>1, MaxOfTwo
  <2>5. row' \in Row
    BY <1>2, <2>2, <2>4, DynamoItem DEF Dynamo!UpdateTaskStatusWithEvents
  <2>6. CallMoves(c, Spent)
    BY <1>2 DEF Dynamo!UpdateTaskStatusWithEvents, CallMoves, CallGood
  <2>7. s \in TERMINAL_STATES /\ KnownTo(c) \cap EligibleConfigs(n) # {} => calls[c].marker
    <3>1. calls[c] # NoCall
      BY <2>1
    <3>2. QED
      BY <2>1, <3>1 DEF KnownTo, CallGood
  <2>8. /\ markers' \in {markers, markers \cup {n}}
        /\ s \in TERMINAL_STATES /\ KnownTo(c) \cap EligibleConfigs(n) # {} => n \in markers'
    BY <1>2, <2>7 DEF Dynamo!UpdateTaskStatusWithEvents
  <2>9. QED
    BY <1>2, <2>1, <2>2, <2>3, <2>5, <2>6, <2>8, CallNumbers
       DEF Dynamo!UpdateTaskStatusWithEvents, CommitsEvent, CancelKept, TypeOK
<1>3. ASSUME NEW c \in Callers, NEW op \in {"artifact", "message"}, Dynamo!GetTask(c, op)
      PROVE  \E k \in Call : Asks(c, k)
  BY <1>3 DEF Dynamo!GetTask, Asks, CallMoves, CallGood, TypeOK, HasRow, Call
<1>4. ASSUME NEW c \in Callers, Dynamo!RehydrateTask(c)
      PROVE  \E k \in Call : Asks(c, k)
  <2>1. calls[c] \in Call /\ CallGood(calls[c])
    BY DEF TypeOK, CallsGood
  <2>2. calls[c].op \in {"artifact", "message"} /\ calls[c].row \in Row
    BY <1>4, <2>1 DEF Dynamo!RehydrateTask, CallGood
  <2>3. Rehydrated(calls[c].row.manifest) \in Content
    BY <2>2, ContentGood DEF Row
  <2>4. QED
    BY <1>4, <2>1, <2>2, <2>3 DEF Dynamo!RehydrateTask, Asks, CallMoves, CallGood, Call
<1>5. ASSUME NEW c \in Callers, Dynamo!UpdateTaskWithEvents(c)
      PROVE  CommitsEvent(c, calls[c].seq + 1, "Artifact") /\ calls[c].seq \in Nat
  <2> DEFINE n == calls[c].seq + 1
  <2>1. /\ CallGood(calls[c]) /\ calls[c].op = "artifact" /\ calls[c].at = "counter"
        /\ HasRow /\ ~Terminal /\ Dynamo!AllocationHolds(c)
    BY <1>5 DEF Dynamo!UpdateTaskWithEvents, CallsGood
  <2>2. calls[c].row \in Row /\ calls[c].row.status \in TaskState
    BY <2>1 DEF CallGood, Row
  <2>3. NewEvent(n, "Artifact") /\ calls[c].seq \in Nat /\ counter' = n
    BY <2>1, <2>2, DynamoAllocates
  <2>4. Max({calls[c].floor, n}) \in Nat
    <3>1. calls[c].floor \in Nat /\ n \in Nat
      BY CallNumbers
    <3>2. QED
      BY <3>1, MaxOfTwo
  <2>5. row' \in Row
    <3>1. Incoming(c) \in Content /\ Messages(c) \in SUBSET Callers
      BY <2>2, ContentGood
    <3>2. QED
      BY <1>5, <2>2, <2>4, <3>1, DynamoItem DEF Dynamo!UpdateTaskWithEvents
  <2>6. bodies' \in Content
    <3>1. bodies' = AfterPlan(Reconcile(Incoming(c), calls[c].manifest))
      BY <1>5 DEF Dynamo!UpdateTaskWithEvents, Dynamo!ArtifactTransactItems
    <3>2. Incoming(c) \in Content /\ calls[c].manifest \in Content
      BY ContentGood DEF TypeOK, Call
    <3>3. QED
      BY <3>1, <3>2, ContentGood
  <2>7. CallMoves(c, Spent)
    BY <1>5 DEF Dynamo!UpdateTaskWithEvents, CallMoves, CallGood
  <2>8. QED
    BY <1>5, <2>1, <2>3, <2>5, <2>6, <2>7, CallNumbers
       DEF Dynamo!UpdateTaskWithEvents, CommitsEvent, CancelKept, TypeOK, TERMINAL_STATES
<1>6. ASSUME NEW c \in Callers, Dynamo!UpdateTask(c)
      PROVE  ReplacesTask(c)
  <2>1. calls[c].row \in Row /\ calls[c].row.status \in TaskState
    BY <1>6 DEF Dynamo!UpdateTask, CallsGood, CallGood, Row
  <2>2. row' \in Row
    <3>1. Incoming(c) \in Content /\ Messages(c) \in SUBSET Callers
      BY <2>1, ContentGood
    <3>2. QED
      BY <1>6, <2>1, <3>1, DynamoItem DEF Dynamo!UpdateTask
  <2>3. bodies' \in Content
    <3>1. bodies' = AfterPlan(Reconcile(Incoming(c), calls[c].manifest))
      BY <1>6 DEF Dynamo!UpdateTask, Dynamo!ArtifactTransactItems
    <3>2. Incoming(c) \in Content /\ calls[c].manifest \in Content
      BY ContentGood DEF TypeOK, Call
    <3>3. QED
      BY <3>1, <3>2, ContentGood
  <2>4. QED
    BY <1>6, <2>2, <2>3 DEF Dynamo!UpdateTask, ReplacesTask, CancelKept, CallMoves, CallGood
<1>7. ASSUME NEW c \in Callers, Dynamo!SetCancelRequested(c)
      PROVE  MarksCancel(c)
  BY <1>7 DEF Dynamo!SetCancelRequested, MarksCancel, CallMoves, CallGood
<1>8. ASSUME NEW c \in Callers, Dynamo!CreateConfigPut(c)
      PROVE  WritesConfig(c)
  <2>1. calls[c].config \in Configs /\ calls[c].floor \in Nat
    BY <1>8 DEF Dynamo!CreateConfigPut, CallsGood, CallGood, TypeOK, Call
  <2>2. QED
    BY <1>8, <2>1
       DEF Dynamo!CreateConfigPut, WritesConfig, CallMoves, CallGood, TypeOK, Registration
<1>9. ASSUME NEW c \in Callers, NEW j \in Configs, Dynamo!DeleteConfig(c, j)
      PROVE  WritesConfig(c)
  BY <1>9 DEF Dynamo!DeleteConfig, WritesConfig, CallMoves, CallGood, TypeOK
<1>10. ASSUME NEW c \in Callers, NEW live \in BOOLEAN, Dynamo!RenewExecutorLeases(c, live)
       PROVE  WritesLease(c)
  BY <1>10 DEF Dynamo!RenewExecutorLeases, WritesLease, CallMoves, CallGood, Lease
<1>11. ASSUME NEW c \in Callers, Dynamo!WriteClaim(c)
       PROVE  \E k \in Call : TakesClaim(c, k)
  <2>1. Claimable(delivery) /\ delivery' = ClaimOver(c, delivery)
    BY <1>11 DEF Dynamo!WriteClaim, Dynamo!Claimable, Claimable, Dynamo!ClaimOver, ClaimOver
  <2>2. calls[c] \in Call /\ calls[c].op = "deliver" /\ calls[c].generation + 1 \in Nat
    BY <1>11, CallNumbers DEF Dynamo!WriteClaim, TypeOK
  <2>3. QED
    BY <1>11, <2>1, <2>2 DEF Dynamo!WriteClaim, TakesClaim, CallMoves, CallGood, Call
<1>12. ASSUME NEW c \in Callers, Dynamo!RecordAttemptStarted(c)
       PROVE  \E k \in Call : StartsAttempt(c, k)
  <2>1. calls[c] \in Call /\ calls[c].op = "deliver"
    BY <1>12 DEF Dynamo!RecordAttemptStarted, TypeOK
  <2>2. CallMoves(c, [calls[c] EXCEPT !.at = "posted"])
    BY <1>12, <2>1 DEF Dynamo!RecordAttemptStarted, CallMoves, CallGood, Call
  <2>3. QED
    BY <1>12, <2>2 DEF Dynamo!RecordAttemptStarted, Dynamo!HoldsClaim, StartsAttempt, CallMoves
<1>13. ASSUME NEW c \in Callers, NEW o \in FinalStatus \cup {"Attempting"},
              Dynamo!RecordDeliveryOutcome(c, o)
       PROVE  \E k \in Call : LandsOutcome(c, k, o)
  <2> DEFINE k == IF o = "Attempting" THEN [calls[c] EXCEPT !.at = "claimed"] ELSE Spent
  <2>1. CallMoves(c, k)
    BY <1>13 DEF Dynamo!RecordDeliveryOutcome, CallMoves, CallGood, CallsGood, TypeOK, Call
  <2>2. Delivering(c)
    BY <1>13 DEF Dynamo!RecordDeliveryOutcome, Dynamo!HoldsClaim, Delivering
  <2>3. o \in FinalStatus => k = Spent
    BY DEF FinalStatus
  <2>4. LandsOutcome(c, k, o)
    BY <1>13, <2>1, <2>2, <2>3 DEF Dynamo!RecordDeliveryOutcome, LandsOutcome
  <2>5. QED
    BY <2>1, <2>4 DEF CallMoves
<1>14. ASSUME NEW c \in Callers, Dynamo!CallFails(c)
       PROVE  \E k \in Call : Asks(c, k)
  BY <1>14 DEF Dynamo!CallFails, Asks, CallMoves, CallGood
<1>15. ASSUME Dynamo!ExpireTask \/ Dynamo!ExpireChild \/ Dynamo!ExpireCounter
       PROVE  Ages
  <2>1. CASE Dynamo!ExpireTask
    BY <2>1 DEF Dynamo!ExpireTask, Ages, TypeOK
  <2>2. CASE Dynamo!ExpireChild
    BY <2>2 DEF Dynamo!ExpireChild, Ages, TypeOK, Content
  <2>3. CASE Dynamo!ExpireCounter
    BY <2>3 DEF Dynamo!ExpireCounter, Ages, TypeOK
  <2>4. QED
    BY <1>15, <2>1, <2>2, <2>3
<1>16. ASSUME NEW j \in Configs, Dynamo!Replicated(j)
       PROVE  Ages
  <2>1. configs[j] \in Registration /\ configs' = [configs EXCEPT ![j].settled = TRUE]
    BY <1>16 DEF Dynamo!Replicated, Registered, TypeOK
  <2>2. [configs[j] EXCEPT !.settled = TRUE] \in Registration
    BY <2>1 DEF Registration
  <2>3. configs' \in [Configs -> Registration \cup {None}]
    BY <2>1, <2>2 DEF TypeOK
  <2>4. QED
    BY <1>16, <2>3 DEF Dynamo!Replicated, Ages, TypeOK
<1>17. ASSUME Dynamo!ExpireDelivery \/ Dynamo!ClaimRunsOut
       PROVE  DeliveryAges
  BY <1>17 DEF Dynamo!ExpireDelivery, Dynamo!ClaimRunsOut, DeliveryAges
<1>18. ASSUME Dynamo!LeaseRunsOut
       PROVE  Ages
  BY <1>18 DEF Dynamo!LeaseRunsOut, Ages, TypeOK, Lease
<1>19. ASSUME NEW c \in Callers, NEW s \in TaskState, Dynamo!TaskHasPushConfig(c, s)
       PROVE  \E k \in Call : Asks(c, k)
  <2>1. PICK seen \in BOOLEAN :
           /\ Settled # {} => seen
           /\ calls' = [calls EXCEPT ![c] = [NoCall EXCEPT !.op = "status", !.at = "preflight",
                !.state = s, !.marker = seen, !.known = Settled]]
    BY <1>19 DEF Dynamo!TaskHasPushConfig
  <2> DEFINE k == [NoCall EXCEPT !.op = "status", !.at = "preflight",
                                 !.state = s, !.marker = seen, !.known = Settled]
  <2>2. Settled \in SUBSET Configs
    BY DEF Settled, Registered
  <2>3. /\ k \in Call /\ k.op = "status" /\ k.at = "preflight" /\ k.state = s
        /\ k.known = Settled
    BY <2>2 DEF Call, NoCall
  <2>4. k.marker = seen
    BY DEF NoCall
  <2>5. CallGood(k)
    <3> HIDE DEF k
    <3>1. QED
      BY <2>1, <2>3, <2>4 DEF CallGood
  <2>6. QED
    <3> HIDE DEF k
    <3>1. calls' = [calls EXCEPT ![c] = k]
      BY <2>1 DEF k
    <3>2. QED
      BY <1>19, <2>3, <2>5, <3>1 DEF Dynamo!TaskHasPushConfig, Asks, CallMoves
<1>20. ASSUME NEW c \in Callers, Dynamo!FetchStoredManifest(c)
       PROVE  \E k \in Call : Asks(c, k)
  <2>1. calls[c] \in Call /\ CallGood(calls[c]) /\ StoredManifest \in Content
        /\ StoredFloor \in Nat
    BY ContentGood DEF TypeOK, CallsGood
  <2>2. calls[c].op \in {"artifact", "message"} /\ calls[c].row \in Row
    BY <1>20, <2>1 DEF Dynamo!FetchStoredManifest, CallGood
  <2>3. QED
    BY <1>20, <2>1, <2>2 DEF Dynamo!FetchStoredManifest, Asks, CallMoves, CallGood, Call
<1>22. ASSUME NEW c \in Callers, Dynamo!ReadForStatus(c)
       PROVE  \E k \in Call : Asks(c, k)
  <2> DEFINE k == [calls[c] EXCEPT !.at = "row", !.row = row, !.floor = row.floor]
  <2>1. calls[c] \in Call /\ CallGood(calls[c]) /\ row \in Row /\ row.floor \in Nat
    BY <1>22 DEF Dynamo!ReadForStatus, TypeOK, CallsGood, HasRow, Row
  <2>2. k \in Call /\ k.at = "row" /\ k.row = row
    BY <2>1 DEF Call
  <2>3. /\ k.op = calls[c].op /\ k.state = calls[c].state /\ k.known = calls[c].known
        /\ k.marker = calls[c].marker /\ k.op = "status"
    BY <1>22, <2>1 DEF Dynamo!ReadForStatus, Call
  <2>4. CallGood(k)
    <3> HIDE DEF k
    <3>1. QED
      BY <2>1, <2>2, <2>3 DEF CallGood
  <2>5. QED
    <3> HIDE DEF k
    <3>1. calls' = [calls EXCEPT ![c] = k]
      BY <1>22 DEF Dynamo!ReadForStatus, k
    <3>2. QED
      BY <1>22, <2>2, <2>4, <3>1 DEF Dynamo!ReadForStatus, Asks, CallMoves
<1>23. ASSUME NEW c \in Callers, Dynamo!AllocateEventSequences(c)
       PROVE  \E k \in Call : Asks(c, k)
  <2>1. calls[c] \in Call /\ CallGood(calls[c]) /\ counter \in Nat
    BY DEF TypeOK, CallsGood
  <2>2. calls[c].op \in {"status", "artifact"} /\ calls[c].row \in Row
    BY <1>23, <2>1 DEF Dynamo!AllocateEventSequences, CallGood
  <2>3. QED
    BY <1>23, <2>1, <2>2 DEF Dynamo!AllocateEventSequences, Asks, CallMoves, CallGood, Call
<1>24. ASSUME NEW c \in Callers, Dynamo!SequenceCommitRetry(c)
       PROVE  \E k \in Call : Asks(c, k)
  <2>1. calls[c] \in Call /\ CallGood(calls[c]) /\ Dynamo!NoContent \in Content
    BY DEF TypeOK, CallsGood, Dynamo!NoContent, Content
  <2>2. CASE calls[c].op = "status"
    <3> DEFINE k == [calls[c] EXCEPT !.at = "preflight", !.seq = 0, !.floor = 0,
                                     !.manifest = Dynamo!NoContent, !.row = None]
    <3>1. k \in Call /\ k.at = "preflight" /\ k.op = "status"
      BY <2>1, <2>2 DEF Call
    <3>2. k.state = calls[c].state /\ k.known = calls[c].known /\ k.marker = calls[c].marker
      BY <2>1 DEF Call
    <3>3. calls' = [calls EXCEPT ![c] = k]
      BY <1>24, <2>2 DEF Dynamo!SequenceCommitRetry
    <3> HIDE DEF k
    <3>4. CallGood(k)
      BY <2>1, <2>2, <3>1, <3>2 DEF CallGood
    <3>5. QED
      BY <1>24, <3>1, <3>3, <3>4 DEF Dynamo!SequenceCommitRetry, Asks, CallMoves
  <2>3. CASE calls[c].op # "status"
    <3> DEFINE k == [calls[c] EXCEPT !.at = "task", !.seq = 0, !.floor = 0,
                                     !.manifest = Dynamo!NoContent, !.row = calls[c].row]
    <3>1. calls[c].op = "artifact" /\ calls[c].row \in Row
      BY <1>24, <2>1, <2>3 DEF Dynamo!SequenceCommitRetry, CallGood
    <3>2. k \in Call /\ k.at = "task" /\ k.op = "artifact" /\ k.row = calls[c].row
      BY <2>1, <3>1 DEF Call
    <3>3. calls' = [calls EXCEPT ![c] = k]
      BY <1>24, <2>3 DEF Dynamo!SequenceCommitRetry
    <3> HIDE DEF k
    <3>4. CallGood(k)
      BY <3>1, <3>2 DEF CallGood
    <3>5. QED
      BY <1>24, <3>2, <3>3, <3>4 DEF Dynamo!SequenceCommitRetry, Asks, CallMoves
  <2>4. QED
    BY <2>2, <2>3
<1>25. ASSUME NEW c \in Callers, NEW j \in Configs, Dynamo!CreateConfigRead(c, j)
       PROVE  \E k \in Call : Asks(c, k)
  <2>1. CASE Dynamo!Begins(c, [NoCall EXCEPT !.op = "config", !.at = "floor", !.config = j,
                                             !.floor = StoredFloor])
    <3> DEFINE k == [NoCall EXCEPT !.op = "config", !.at = "floor", !.config = j,
                                   !.floor = StoredFloor]
    <3>1. k \in Call /\ k.op = "config" /\ k.at = "floor" /\ k.config = j
      BY ContentGood DEF Call, NoCall
    <3>2. calls' = [calls EXCEPT ![c] = k]
      BY <2>1
    <3> HIDE DEF k
    <3>3. CallGood(k)
      BY <3>1 DEF CallGood
    <3>4. QED
      BY <1>25, <3>1, <3>2, <3>3 DEF Dynamo!CreateConfigRead, Asks, CallMoves
  <2>2. CASE Dynamo!At(c, "config", "floor")
             /\ Dynamo!Continues(c, [calls[c] EXCEPT !.floor = StoredFloor])
    <3> DEFINE k == [calls[c] EXCEPT !.floor = StoredFloor]
    <3>1. calls[c] \in Call /\ CallGood(calls[c]) /\ calls[c].op = "config"
          /\ calls[c].at = "floor"
      BY <2>2 DEF TypeOK, CallsGood
    <3>2. k \in Call /\ k.op = "config" /\ k.at = "floor" /\ k.config = calls[c].config
      BY <3>1, ContentGood DEF Call
    <3>3. calls' = [calls EXCEPT ![c] = k]
      BY <2>2
    <3> HIDE DEF k
    <3>4. CallGood(k)
      BY <3>1, <3>2 DEF CallGood
    <3>5. QED
      BY <1>25, <3>2, <3>3, <3>4 DEF Dynamo!CreateConfigRead, Asks, CallMoves
  <2>3. QED
    BY <1>25, <2>1, <2>2 DEF Dynamo!CreateConfigRead
<1>26. ASSUME NEW c \in Callers, Dynamo!ScanExpiredLeases(c)
       PROVE  \E k \in Call : Asks(c, k)
  BY <1>26 DEF Dynamo!ScanExpiredLeases, Asks, CallMoves, CallGood, TypeOK, Call
<1>27. ASSUME NEW c \in Callers, Dynamo!BatchGetTasks(c)
       PROVE  \E k \in Call : Asks(c, k)
  <2>1. calls[c] \in Call /\ calls[c].op = "sweep"
    BY <1>27 DEF Dynamo!BatchGetTasks, TypeOK
  <2>2. CallMoves(c, Spent) \/ CallMoves(c, [calls[c] EXCEPT !.at = "stale"])
    BY <1>27, <2>1 DEF Dynamo!BatchGetTasks, CallMoves, CallGood, Call
  <2>3. QED
    BY <1>27, <2>2 DEF Dynamo!BatchGetTasks, Asks, CallMoves
<1>28. ASSUME NEW c \in Callers, Dynamo!DeleteLeaseItemIfExpiry(c)
       PROVE  WritesLease(c)
  BY <1>28 DEF Dynamo!DeleteLeaseItemIfExpiry, WritesLease, CallMoves, CallGood, TypeOK
<1>29. ASSUME NEW c \in Callers, Dynamo!ReadClaim(c)
       PROVE  \E k \in Call : Asks(c, k)
  <2> DEFINE g == IF delivery = None THEN 0 ELSE delivery.generation
  <2>1. g \in Nat
    BY DEF TypeOK, Delivery
  <2>2. calls' = [calls EXCEPT ![c] = [NoCall EXCEPT !.op = "deliver", !.at = "unclaimed",
                                                     !.generation = g]]
    BY <1>29 DEF Dynamo!ReadClaim
  <2> DEFINE k == [NoCall EXCEPT !.op = "deliver", !.at = "unclaimed", !.generation = g]
  <2> HIDE DEF g
  <2>3. k \in Call /\ k.op = "deliver" /\ k.at = "unclaimed"
    BY <2>1 DEF Call, NoCall
  <2> HIDE DEF k
  <2>4. CallGood(k)
    BY <2>3 DEF CallGood
  <2>5. calls' = [calls EXCEPT ![c] = k]
    BY <2>2 DEF k
  <2>6. QED
    BY <1>29, <2>3, <2>4, <2>5 DEF Dynamo!ReadClaim, Asks, CallMoves
<1>30. ASSUME NEW c \in Callers, Dynamo!ReadOutcome(c)
       PROVE  \E k \in Call : Asks(c, k)
  <2>1. calls[c] \in Call /\ calls[c].op = "deliver"
    BY <1>30 DEF Dynamo!ReadOutcome, TypeOK
  <2>2. CallMoves(c, Spent) \/ CallMoves(c, [calls[c] EXCEPT !.at = "outcome"])
    BY <1>30, <2>1 DEF Dynamo!ReadOutcome, CallMoves, CallGood, Call
  <2>3. QED
    BY <1>30, <2>2 DEF Dynamo!ReadOutcome, Asks, CallMoves
<1>31. ASSUME NEW e \in log, Dynamo!ExpireEvent(e)
       PROVE  Ages
  BY <1>31 DEF Dynamo!ExpireEvent, Ages, TypeOK
<1>32. QED
  <2>1. ASSUME NEW c \in Callers,
               \/ \E s \in TaskState : Dynamo!TaskHasPushConfig(c, s)
               \/ Dynamo!ReadForStatus(c)
               \/ \E op \in {"artifact", "message"} : Dynamo!GetTask(c, op)
               \/ Dynamo!RehydrateTask(c)
               \/ Dynamo!FetchStoredManifest(c)
               \/ Dynamo!AllocateEventSequences(c)
               \/ Dynamo!UpdateTaskStatusWithEvents(c)
               \/ Dynamo!UpdateTaskWithEvents(c)
               \/ Dynamo!SequenceCommitRetry(c)
               \/ Dynamo!UpdateTask(c)
               \/ Dynamo!SetCancelRequested(c)
               \/ Dynamo!CreateConfigPut(c)
               \/ \E j \in Configs : Dynamo!CreateConfigRead(c, j) \/ Dynamo!DeleteConfig(c, j)
               \/ \E live \in BOOLEAN : Dynamo!RenewExecutorLeases(c, live)
               \/ Dynamo!ScanExpiredLeases(c)
               \/ Dynamo!BatchGetTasks(c)
               \/ Dynamo!DeleteLeaseItemIfExpiry(c)
               \/ Dynamo!ReadClaim(c)
               \/ Dynamo!WriteClaim(c)
               \/ Dynamo!RecordAttemptStarted(c)
               \/ Dynamo!ReadOutcome(c)
               \/ \E o \in FinalStatus \cup {"Attempting"} : Dynamo!RecordDeliveryOutcome(c, o)
               \/ Dynamo!CallFails(c)
        PROVE  CallStep(c)
    <3>1. calls[c].seq + 1 \in Nat
      BY CallNumbers
    <3>2. QED
      BY <2>1, <3>1, <1>2, <1>3, <1>4, <1>5, <1>6, <1>7, <1>8, <1>9, <1>10, <1>11, <1>12,
         <1>13, <1>14, <1>19, <1>20, <1>22, <1>23, <1>24, <1>25, <1>26, <1>27, <1>28,
         <1>29, <1>30 DEF CallStep
  <2>2. QED
    BY <2>1, <1>1, <1>15, <1>16, <1>17, <1>18, <1>31, Zenon DEF Dynamo!Next, StoreStep

-------------------------------------------------------------------------------
(* The kinds of steps keep the invariant *)

LEMMA NextIsStoreStep ==
  ASSUME RowsInv, Next
  PROVE  StoreStep
  BY SqliteSteps, PostgresSteps, DynamoSteps DEF Next

LEMMA CallMovesGood ==
  ASSUME RowsInv, NEW c \in Callers, NEW k, CallMoves(c, k), backend' = backend
  PROVE  calls' \in [Callers -> Call] /\ CallsGood'
<1>1. calls \in [Callers -> Call] /\ calls' = [calls EXCEPT ![c] = k] /\ k \in Call
  BY DEF RowsInv, TypeOK, CallMoves
<1>2. ASSUME NEW d \in Callers
      PROVE  CallGood(calls[d])'
  <2>1. CallGood(calls'[d])
    BY <1>1 DEF RowsInv, CallsGood, CallMoves
  <2>2. QED
    BY <2>1 DEF CallGood
<1>3. QED
  BY <1>1, <1>2 DEF CallsGood

LEMMA CallsKept ==
  ASSUME RowsInv, calls' = calls, backend' = backend
  PROVE  calls' \in [Callers -> Call] /\ CallsGood'
  BY DEF RowsInv, TypeOK, CallsGood, CallGood

LEMMA NewEventGood ==
  ASSUME RowsInv, NEW n, NEW state, NewEvent(n, state)
  PROVE  /\ log' \subseteq Event
         /\ highest' \in Nat
         /\ highest' > 0
         /\ \A e \in log' : e.seq <= highest'
         /\ log' \ log \subseteq {[seq |-> n, state |-> state]}
         /\ log' \ log # {} => n <= highest'
<1>1. n \in Nat \ {0} /\ highest \in Nat /\ log \subseteq Event /\ \A e \in log : e.seq <= highest
  BY DEF RowsInv, TypeOK, LogGood, NewEvent
<1>2. highest' = Max({highest, n})
  BY DEF NewEvent
<1>3. highest' \in Nat /\ highest <= highest' /\ n <= highest'
  BY <1>1, <1>2, MaxOfTwo
<1>4. log' = {e \in log : e.seq # n} \cup {[seq |-> n, state |-> state]}
  BY DEF NewEvent
<1>5. [seq |-> n, state |-> state] \in Event
  BY <1>1 DEF NewEvent, Event
<1>6. \A e \in log : e.seq \in Nat
  BY <1>1 DEF Event
<1>7. QED
  BY <1>1, <1>3, <1>4, <1>5, <1>6

LEMMA DeliveryGood ==
  ASSUME RowsInv
  PROVE  /\ \A c \in Callers : \A k : TakesClaim(c, k) \/ StartsAttempt(c, k)
                                    => delivery' \in Delivery
         /\ \A c \in Callers : \A k, outcome : LandsOutcome(c, k, outcome)
                                    => delivery' \in Delivery
         /\ DeliveryAges => delivery' \in Delivery \cup {None}
<1>1. delivery # None => delivery \in Delivery
  BY DEF RowsInv, TypeOK
<1>2. ASSUME NEW c \in Callers, NEW k, TakesClaim(c, k)
      PROVE  delivery' \in Delivery
  BY <1>2, ClaimGood DEF TakesClaim, RowsInv
<1>3. ASSUME NEW c \in Callers, NEW k, StartsAttempt(c, k)
      PROVE  delivery' \in Delivery
  <2>1. delivery \in Delivery /\ delivery.attempts + 1 \in Nat
    BY <1>1, <1>3 DEF StartsAttempt, Delivery
  <2>2. QED
    BY <1>3, <2>1 DEF StartsAttempt, Delivery, ClaimStatus
<1>4. ASSUME NEW c \in Callers, NEW k, NEW outcome, LandsOutcome(c, k, outcome)
      PROVE  delivery' \in Delivery
  <2>1. delivery \in Delivery /\ outcome \in ClaimStatus
    BY <1>1, <1>4 DEF LandsOutcome, Delivering, ClaimStatus
  <2>2. QED
    BY <1>4, <2>1 DEF LandsOutcome, Delivery
<1>5. DeliveryAges => delivery' \in Delivery \cup {None}
  BY <1>1 DEF DeliveryAges, Delivery
<1>6. QED
  BY <1>2, <1>3, <1>4, <1>5

LEMMA CallStepKeeps ==
  ASSUME RowsInv, NEW c \in Callers, CallStep(c)
  PROVE  RowsInv'
<1> USE DEF RowsInv
<1>1. ASSUME NEW k \in Call, Asks(c, k)
      PROVE  RowsInv'
  <2>1. calls' \in [Callers -> Call] /\ CallsGood'
    BY <1>1, CallMovesGood DEF Asks
  <2>2. QED
    BY <1>1, <2>1 DEF Asks, TypeOK, LogGood, HasRow
<1>2. ASSUME NEW k \in Call, TakesClaim(c, k) \/ StartsAttempt(c, k)
      PROVE  RowsInv'
  <2>1. calls' \in [Callers -> Call] /\ CallsGood'
    BY <1>2, CallMovesGood DEF TakesClaim, StartsAttempt
  <2>2. delivery' \in Delivery
    BY <1>2, DeliveryGood
  <2>3. QED
    BY <1>2, <2>1, <2>2 DEF TakesClaim, StartsAttempt, TypeOK, LogGood, HasRow
<1>3. ASSUME NEW k \in Call, NEW outcome \in FinalStatus \cup {"Attempting"},
             LandsOutcome(c, k, outcome)
      PROVE  RowsInv'
  <2>1. calls' \in [Callers -> Call] /\ CallsGood'
    BY <1>3, CallMovesGood DEF LandsOutcome
  <2>2. delivery' \in Delivery
    BY <1>3, DeliveryGood
  <2>3. QED
    BY <1>3, <2>1, <2>2 DEF LandsOutcome, TypeOK, LogGood, HasRow
<1>4. ASSUME NEW n \in Nat, NEW state \in TaskState \cup {"Artifact"}, CommitsEvent(c, n, state)
      PROVE  RowsInv'
  <2>1. calls' \in [Callers -> Call] /\ CallsGood'
    BY <1>4, CallMovesGood DEF CommitsEvent
  <2>2. /\ log' \subseteq Event /\ highest' \in Nat /\ highest' > 0
        /\ \A e \in log' : e.seq <= highest'
    BY <1>4, NewEventGood DEF CommitsEvent
  <2>3. markers' \subseteq Nat \ {0}
    BY <1>4 DEF CommitsEvent, NewEvent, TypeOK
  <2>4. QED
    BY <1>4, <2>1, <2>2, <2>3 DEF CommitsEvent, TypeOK, LogGood
<1>5. ASSUME ReplacesTask(c)
      PROVE  RowsInv'
  <2>1. calls' \in [Callers -> Call] /\ CallsGood'
    BY <1>5, CallMovesGood DEF ReplacesTask
  <2>2. QED
    BY <1>5, <2>1 DEF ReplacesTask, TypeOK, LogGood, HasRow
<1>6. ASSUME MarksCancel(c)
      PROVE  RowsInv'
  <2>1. calls' \in [Callers -> Call] /\ CallsGood'
    BY <1>6, CallMovesGood DEF MarksCancel
  <2>2. row' \in Row
    BY <1>6 DEF MarksCancel, TypeOK, HasRow, Row
  <2>3. QED
    BY <1>6, <2>1, <2>2 DEF MarksCancel, TypeOK, LogGood, HasRow
<1>7. ASSUME WritesConfig(c)
      PROVE  RowsInv'
  <2>1. calls' \in [Callers -> Call] /\ CallsGood'
    BY <1>7, CallMovesGood DEF WritesConfig
  <2>2. QED
    BY <1>7, <2>1 DEF WritesConfig, TypeOK, LogGood, HasRow
<1>8. ASSUME WritesLease(c)
      PROVE  RowsInv'
  <2>1. calls' \in [Callers -> Call] /\ CallsGood'
    BY <1>8, CallMovesGood DEF WritesLease
  <2>2. QED
    BY <1>8, <2>1 DEF WritesLease, TypeOK, LogGood, HasRow
<1>9. QED
  BY <1>1, <1>2, <1>3, <1>4, <1>5, <1>6, <1>7, <1>8 DEF CallStep

LEMMA RowsKept ==
  ASSUME RowsInv, [Next]_vars
  PROVE  RowsInv'
<1>1. CASE vars' = vars
  <2>1. calls' \in [Callers -> Call] /\ CallsGood'
    BY <1>1, CallsKept DEF vars
  <2>2. QED
    BY <1>1, <2>1 DEF vars, RowsInv, TypeOK, LogGood, HasRow
<1>2. ASSUME CreatesTask
      PROVE  RowsInv'
  <2>1. calls' \in [Callers -> Call] /\ CallsGood'
    BY <1>2, CallsKept DEF CreatesTask
  <2>2. /\ log' \subseteq Event /\ highest' \in Nat /\ highest' > 0
        /\ \A e \in log' : e.seq <= highest'
    BY <1>2, NewEventGood DEF CreatesTask
  <2>3. QED
    BY <1>2, <2>1, <2>2 DEF CreatesTask, RowsInv, TypeOK, LogGood
<1>3. ASSUME Ages
      PROVE  RowsInv'
  <2>1. calls' \in [Callers -> Call] /\ CallsGood'
    BY <1>3, CallsKept DEF Ages
  <2>2. QED
    BY <1>3, <2>1 DEF Ages, RowsInv, TypeOK, LogGood, HasRow
<1>4. ASSUME DeliveryAges
      PROVE  RowsInv'
  <2>1. calls' \in [Callers -> Call] /\ CallsGood'
    BY <1>4, CallsKept DEF DeliveryAges
  <2>2. QED
    BY <1>4, <2>1, DeliveryGood DEF DeliveryAges, RowsInv, TypeOK, LogGood, HasRow
<1>5. QED
  <2>1. CASE Next
    <3>1. StoreStep
      BY <2>1, NextIsStoreStep
    <3>2. QED
      BY <3>1, <1>2, <1>3, <1>4, CallStepKeeps DEF StoreStep
  <2>2. QED
    BY <1>1, <2>1

\* Whatever backend the server was started with, every record of a task, and
\* what every call has read, has its kind of value; numbers stay below the
\* highest.
THEOREM BackendsTypeCorrect == Spec => []RowsInv
<1>1. ASSUME Init
      PROVE  RowsInv
  <2>1. calls \in [Callers -> Call] /\ \A c \in Callers : calls[c] = NoCall
    BY <1>1, NoCallGood DEF Init
  <2>2. CallsGood
    <3>1. CallGood(NoCall)
      BY NoCallGood DEF CallGood
    <3>2. QED
      BY <2>1, <3>1 DEF CallsGood
  <2>3. bodies \in Content /\ configs \in [Configs -> Registration \cup {None}]
    BY <1>1 DEF Init, NoContent, Content
  <2>4. TypeOK
    BY <1>1, <2>1, <2>3 DEF Init, TypeOK
  <2>5. LogGood
    BY <1>1 DEF Init, LogGood, HasRow
  <2>6. QED
    BY <2>2, <2>4, <2>5 DEF RowsInv
<1>2. RowsInv /\ [Next]_vars => RowsInv'
  BY RowsKept
<1>3. QED
  BY <1>1, <1>2, PTL DEF Spec

-------------------------------------------------------------------------------
(* The events *)

\* A new event is the one of the step that commits it.
LEMMA NewEventsFrom ==
  ASSUME RowsInv, [Next]_vars, NEW e \in NewEvents
  PROVE  \/ CreatesTask /\ NewEvent(e.seq, e.state) /\ e.state = "Submitted"
         \/ \E c \in Callers : CommitsEvent(c, e.seq, e.state)
<1>1. log' # log /\ e \in log' \ log
  BY DEF NewEvents
<1>2. Next
  BY <1>1 DEF vars
<1>3. StoreStep
  BY <1>2, NextIsStoreStep
<1>4. ASSUME NEW n, NEW state, NewEvent(n, state)
      PROVE  e.seq = n /\ e.state = state
  <2>1. e = [seq |-> n, state |-> state]
    BY <1>1, <1>4, NewEventGood
  <2>2. QED
    BY <2>1
<1>5. CASE CreatesTask
  BY <1>4, <1>5 DEF CreatesTask
<1>6. ASSUME NEW c \in Callers, CallStep(c)
      PROVE  CommitsEvent(c, e.seq, e.state)
  <2>1. PICK n, state : CommitsEvent(c, n, state)
    BY <1>1, <1>6 DEF CallStep, Asks, TakesClaim, StartsAttempt, LandsOutcome, ReplacesTask,
           MarksCancel, WritesConfig, WritesLease
  <2>2. QED
    BY <1>4, <2>1 DEF CommitsEvent
<1>7. QED
  BY <1>1, <1>3, <1>5, <1>6 DEF StoreStep, Ages, DeliveryAges

\* NumbersOnlyGrow: while retention has left the numbering alone, every new
\* event lies past all a reader has seen, on every backend.
THEOREM NumbersOnlyGrowAlways == Spec => NumbersOnlyGrow
<1>1. ASSUME RowsInv, [Next]_vars, NEW n \in 0..MaxSeq, NumberingKept, n = highest
      PROVE  NewEvents \subseteq EventsAfter(n)'
  <2>1. RowsInv'
    BY <1>1, RowsKept
  <2>2. EventsAfter(n)' = {e \in log' : e.seq > n}
    <3>1. backend' \in {"sqlite", "postgres", "dynamodb"}
      BY <2>1, DurableAssumption DEF RowsInv, TypeOK
    <3>2. QED
      BY <3>1 DEF EventsAfter, Listed, Sqlite!GetEventsAfter, Postgres!GetEventsAfter,
             Dynamo!GetEventsAfter
  <2>3. ASSUME NEW e \in NewEvents
        PROVE  e.seq > n
    <3>1. NewEvent(e.seq, e.state)
      BY <1>1, <2>3, NewEventsFrom DEF CommitsEvent
    <3>2. QED
      BY <1>1, <3>1 DEF NewEvent
  <2>4. QED
    BY <2>2, <2>3 DEF NewEvents
<1>2. RowsInv /\ [Next]_vars =>
        [\A n \in 0..MaxSeq :
           NumberingKept /\ n = highest => NewEvents \subseteq EventsAfter(n)']_vars
  BY <1>1
<1>3. QED
  BY <1>2, BackendsTypeCorrect, PTL DEF Spec, NumbersOnlyGrow

\* KnownConfigsGetMarker: a terminal commit leaves its marker whenever its
\* fan-out would find a config every replica served when the call began, on
\* every backend.
THEOREM KnownConfigsGetMarkerAlways == Spec => KnownConfigsGetMarker
<1>1. ASSUME RowsInv, [Next]_vars, NEW c \in Callers, NEW e \in NewEvents,
             calls[c] # Spent, calls'[c] = Spent, e.state \in TERMINAL_STATES,
             KnownTo(c) \cap EligibleConfigs(e.seq) # {}
      PROVE  e.seq \in StaleDispatches'
  <2>1. PICK d \in Callers : CommitsEvent(d, e.seq, e.state)
    <3>1. e.state # "Submitted"
      BY <1>1 DEF TERMINAL_STATES
    <3>2. QED
      BY <1>1, <3>1, NewEventsFrom
  <2>2. d = c
    BY <1>1, <2>1 DEF CommitsEvent, CallMoves, RowsInv, TypeOK
  <2>3. e.seq \in markers'
    BY <1>1, <2>1, <2>2 DEF CommitsEvent
  <2>4. backend' \in {"sqlite", "postgres", "dynamodb"}
    BY <1>1, RowsKept, DurableAssumption DEF RowsInv, TypeOK
  <2>5. QED
    BY <2>3, <2>4 DEF StaleDispatches, Listed, Sqlite!ListStalePendingDispatches,
           Postgres!ListStalePendingDispatches, Dynamo!ListStalePendingDispatches
<1>2. RowsInv /\ [Next]_vars =>
        [\A c \in Callers, e \in NewEvents :
           /\ calls[c] # Spent /\ calls'[c] = Spent
           /\ e.state \in TERMINAL_STATES
           /\ KnownTo(c) \cap EligibleConfigs(e.seq) # {}
           => e.seq \in StaleDispatches']_vars
  BY <1>1
<1>3. QED
  BY <1>2, BackendsTypeCorrect, PTL DEF Spec, KnownConfigsGetMarker

-------------------------------------------------------------------------------
(* The row *)

\* OnlyMessagesRevive: of all writes of all backends, whatever they read before,
\* only append_message's takes a row out of a terminal state.
THEOREM OnlyMessagesReviveAlways == Spec => OnlyMessagesRevive
<1>1. ASSUME RowsInv, [Next]_vars, HasRow, Terminal, row' # None, row'.status # row.status
      PROVE  \E c \in Callers : calls[c].op = "message" /\ calls'[c] = Spent
  <2>1. row' # row
    BY <1>1
  <2>2. StoreStep
    BY <1>1, <2>1, NextIsStoreStep DEF vars
  <2>3. ~CreatesTask
    BY <1>1 DEF CreatesTask, RowsInv, LogGood
  <2>4. ~Ages /\ ~DeliveryAges
    BY <1>1, <2>1 DEF Ages, DeliveryAges
  <2>5. PICK c \in Callers : CallStep(c)
    BY <2>2, <2>3, <2>4 DEF StoreStep
  <2>6. ~MarksCancel(c)
    <3>1. row \in Row
      BY <1>1 DEF RowsInv, TypeOK, HasRow
    <3>2. QED
      BY <1>1, <3>1 DEF MarksCancel, Row
  <2>7. ReplacesTask(c)
    BY <1>1, <2>1, <2>5, <2>6 DEF CallStep, Asks, TakesClaim, StartsAttempt, LandsOutcome,
           CommitsEvent, WritesConfig, WritesLease
  <2>8. QED
    BY <1>1, <2>7 DEF ReplacesTask, CallMoves, RowsInv, TypeOK
<1>2. RowsInv /\ [Next]_vars =>
        [HasRow /\ Terminal /\ row' # None /\ row'.status # row.status
           => \E c \in Callers : calls[c].op = "message" /\ calls'[c] = Spent]_vars
  BY <1>1
<1>3. QED
  BY <1>2, BackendsTypeCorrect, PTL DEF Spec, OnlyMessagesRevive

\* CancelStaysListed: on the SQL backends no write of the task, whatever it read
\* before, takes a cancel marker back, and the listing shows every marked live task.
THEOREM CancelStaysListedAlways == Spec => CancelStaysListed
<1>1. ASSUME RowsInv, [Next]_vars, backend # "dynamodb", HasRow, row.cancel,
             row' # None, row'.status \notin TERMINAL_STATES
      PROVE  row' \in SqlCancelRequested'
  <2>1. row'.cancel
    <3>1. CASE row' = row
      BY <1>1, <3>1
    <3>2. CASE row' # row
      <4>1. StoreStep
        BY <1>1, <3>2, NextIsStoreStep DEF vars
      <4>2. ~CreatesTask
        BY <1>1 DEF CreatesTask, RowsInv, LogGood
      <4>3. PICK c \in Callers : CallStep(c)
        BY <1>1, <3>2, <4>1, <4>2 DEF StoreStep, Ages, DeliveryAges
      <4>4. CASE MarksCancel(c)
        <5>1. row \in Row
          BY <1>1 DEF RowsInv, TypeOK, HasRow
        <5>2. QED
          BY <4>4, <5>1 DEF MarksCancel, Row
      <4>5. CASE ~MarksCancel(c)
        <5>1. CancelKept
          BY <3>2, <4>3, <4>5 DEF CallStep, Asks, TakesClaim, StartsAttempt, LandsOutcome,
             CommitsEvent, ReplacesTask, WritesConfig, WritesLease
        <5>2. QED
          BY <1>1, <5>1 DEF CancelKept
      <4>6. QED
        BY <4>4, <4>5
    <3>3. QED
      BY <3>1, <3>2
  <2>2. QED
    BY <1>1, <2>1, SqliteShares, PostgresShares
       DEF SqlCancelRequested, Sqlite!ListCancelRequested, Postgres!ListCancelRequested,
           Sqlite!TaskRows, Postgres!TaskRows
<1>2. RowsInv /\ [Next]_vars =>
        [backend # "dynamodb" /\ HasRow /\ row.cancel /\ row' # None
           /\ row'.status \notin TERMINAL_STATES => row' \in SqlCancelRequested']_vars
  BY <1>1
<1>3. QED
  BY <1>2, BackendsTypeCorrect, PTL DEF Spec, CancelStaysListed

-------------------------------------------------------------------------------
(* Leases and claims *)

\* SweepKeepsRenewedLease: no end of a sweep drops a lease stamped since the
\* sweep scanned the one it saw expired.
THEOREM SweepKeepsRenewedLeaseAlways == Spec => SweepKeepsRenewedLease
<1>1. ASSUME RowsInv, [Next]_vars, NEW c \in Callers, calls[c].op = "sweep",
             calls'[c] # calls[c], lease # calls[c].lease
      PROVE  lease' = lease
  <2>1. StoreStep
    BY <1>1, NextIsStoreStep DEF vars
  <2>2. PICK d \in Callers : CallStep(d)
    BY <1>1, <2>1 DEF StoreStep, CreatesTask, Ages, DeliveryAges
  <2>3. CASE lease' # lease
    <3>1. WritesLease(d)
      BY <2>2, <2>3 DEF CallStep, Asks, TakesClaim, StartsAttempt, LandsOutcome,
             CommitsEvent, ReplacesTask, MarksCancel, WritesConfig
    <3>2. d = c
      BY <1>1, <3>1 DEF WritesLease, CallMoves, RowsInv, TypeOK
    <3>3. QED
      BY <1>1, <3>1, <3>2 DEF WritesLease
  <2>4. QED
    BY <2>3
<1>2. RowsInv /\ [Next]_vars =>
        [\A c \in Callers :
           calls[c].op = "sweep" /\ calls'[c] # calls[c] /\ lease # calls[c].lease
             => lease' = lease]_vars
  BY <1>1
<1>3. QED
  BY <1>2, BackendsTypeCorrect, PTL DEF Spec, SweepKeepsRenewedLease

OutcomeFenced ==
  /\ delivery.status \in FinalStatus => delivery'.status = delivery.status
  /\ delivery'.attempts >= delivery.attempts
  /\ delivery'.status \in FinalStatus \ {delivery.status} =>
       \E c \in Callers : Delivering(c) /\ calls'[c] = Spent
  /\ delivery'.generation # delivery.generation => delivery \in ReclaimableClaims
  /\ delivery'.status = "GaveUp" => delivery' \in FailedDeliveries'

\* OutcomesAreFenced: an outcome lands only from the worker of the current claim
\* and never over a final one, no write forgets an attempt, and what may be
\* taken over or was given up is on the sweep's or the operator's list.
THEOREM OutcomesAreFencedAlways == Spec => OutcomesAreFenced
<1>1. ASSUME RowsInv, [Next]_vars, delivery # None, delivery' # None, delivery' # delivery
      PROVE  OutcomeFenced
  <2>1. delivery \in Delivery /\ delivery' \in Delivery
    BY <1>1, RowsKept DEF RowsInv, TypeOK
  <2>2. /\ delivery.attempts \in Nat /\ delivery.generation \in Nat
        /\ delivery.status \in ClaimStatus
    BY <2>1 DEF Delivery
  <2>3. backend \in {"sqlite", "postgres", "dynamodb"}
        /\ backend' \in {"sqlite", "postgres", "dynamodb"}
    BY <1>1, RowsKept, DurableAssumption DEF RowsInv, TypeOK
  <2>4. delivery.status \notin FinalStatus /\ ~delivery.live => delivery \in ReclaimableClaims
    BY <1>1, <2>2, <2>3 DEF ReclaimableClaims, Listed, ClaimStatus, DeliveryRows,
           Sqlite!ListReclaimableClaims, Postgres!ListReclaimableClaims,
           Dynamo!ListReclaimableClaims, Sqlite!DeliveryRows, Postgres!DeliveryRows,
           Dynamo!DeliveryRows
  <2>5. delivery'.status = "GaveUp" => delivery' \in FailedDeliveries'
    BY <1>1, <2>3 DEF FailedDeliveries, Listed,
           Sqlite!ListFailedDeliveries, Postgres!ListFailedDeliveries,
           Dynamo!ListFailedDeliveries, Sqlite!DeliveryRows, Postgres!DeliveryRows,
           Dynamo!DeliveryRows
  <2>6. StoreStep
    BY <1>1, NextIsStoreStep DEF vars
  <2>7. CASE DeliveryAges
    <3>1. /\ delivery'.status = delivery.status /\ delivery'.attempts = delivery.attempts
          /\ delivery'.generation = delivery.generation
      BY <1>1, <2>1, <2>7 DEF DeliveryAges, Delivery
    <3>2. QED
      BY <2>2, <2>5, <3>1 DEF OutcomeFenced
  <2>8. ASSUME NEW c \in Callers, NEW k, TakesClaim(c, k)
        PROVE  OutcomeFenced
    <3>1. delivery.status \notin FinalStatus /\ ~delivery.live
      BY <1>1, <2>8 DEF TakesClaim, Claimable
    <3>2. delivery'.status = "Pending" /\ delivery'.attempts = delivery.attempts
      BY <1>1, <2>8 DEF TakesClaim, ClaimOver
    <3>3. QED
      BY <2>2, <2>4, <2>5, <3>1, <3>2 DEF OutcomeFenced, FinalStatus
  <2>9. ASSUME NEW c \in Callers, NEW k, StartsAttempt(c, k)
        PROVE  OutcomeFenced
    <3>1. /\ delivery.status \notin FinalStatus /\ delivery'.status = "Attempting"
          /\ delivery'.attempts = delivery.attempts + 1
          /\ delivery'.generation = delivery.generation
      BY <2>1, <2>9 DEF StartsAttempt, Delivery
    <3>2. QED
      BY <2>2, <2>5, <3>1 DEF OutcomeFenced, FinalStatus
  <2>10. ASSUME NEW c \in Callers, NEW k, NEW outcome \in FinalStatus \cup {"Attempting"},
                LandsOutcome(c, k, outcome)
         PROVE  OutcomeFenced
    <3>1. /\ delivery.status \notin FinalStatus /\ delivery'.status = outcome
          /\ delivery'.attempts = delivery.attempts
          /\ delivery'.generation = delivery.generation
      BY <2>1, <2>10 DEF LandsOutcome, Delivery
    <3>2. outcome \in FinalStatus => Delivering(c) /\ calls'[c] = Spent
      BY <1>1, <2>10 DEF LandsOutcome, CallMoves, RowsInv, TypeOK
    <3>3. QED
      BY <2>2, <2>5, <3>1, <3>2 DEF OutcomeFenced
  <2>11. QED
    BY <1>1, <2>6, <2>7, <2>8, <2>9, <2>10 DEF StoreStep, CallStep, CreatesTask, Ages, Asks,
           CommitsEvent, ReplacesTask, MarksCancel, WritesConfig, WritesLease
<1>2. RowsInv /\ [Next]_vars =>
        [delivery # None /\ delivery' # None /\ delivery' # delivery => OutcomeFenced]_vars
  BY <1>1
<1>3. QED
  BY <1>2, BackendsTypeCorrect, PTL DEF Spec, OutcomesAreFenced, OutcomeFenced

-------------------------------------------------------------------------------
(* What holds on SQLite alone *)

\* A new event's floor and marker, when the commit counts the configs itself.
LEMMA SqliteCommitCovers ==
  ASSUME RowsInv, SqliteInv, backend = "sqlite", HasRow, NEW state,
         log' = {e \in log : e.seq # NextOf} \cup {[seq |-> NextOf, state |-> state]},
         row'.floor = Max({row.floor, NextOf}), configs' = configs,
         \/ markers' = markers /\ (state \in TERMINAL_STATES => Registered = {})
         \/ markers' = markers \cup {NextOf}
  PROVE  FloorCovers' /\ MarkerCovers'
<1>1. /\ NextOf \in Nat /\ row.floor \in Nat
      /\ \A e \in log : e.seq \in Nat /\ e.seq <= row.floor
  BY NextOfLog DEF RowsInv, TypeOK, HasRow, Row, Event, SqliteInv, FloorCovers
<1>2. row.floor <= row'.floor /\ NextOf <= row'.floor /\ row'.floor \in Nat
  BY <1>1, MaxOfTwo
<1>3. ASSUME NEW e \in log'
      PROVE  e \in log \/ (e.seq = NextOf /\ e.state = state)
  <2>1. e \in log \/ e = [seq |-> NextOf, state |-> state]
    OBVIOUS
  <2>2. QED
    BY <2>1
<1>4. FloorCovers'
  <2>1. ASSUME NEW e \in log'
        PROVE  e.seq <= row'.floor
    BY <1>1, <1>2, <1>3
  <2>2. QED
    BY <2>1 DEF FloorCovers
<1>5. MarkerCovers'
  <2>1. ASSUME NEW e \in log', NEW k \in Configs, e.state \in TERMINAL_STATES,
               configs[k] # None, configs[k].floor < e.seq
        PROVE  e.seq \in markers'
    <3>1. CASE e \in log
      BY <2>1, <3>1 DEF SqliteInv, MarkerCovers
    <3>2. CASE e.seq = NextOf /\ e.state = state
      BY <2>1, <3>2 DEF Registered
    <3>3. QED
      BY <1>3, <3>1, <3>2
  <2>2. QED
    BY <2>1 DEF MarkerCovers
<1>6. QED
  BY <1>4, <1>5

\* The manifest is read in the transaction that applies the plan.
LEMMA SqlitePlanCovers ==
  ASSUME RowsInv, SqliteInv, backend = "sqlite", HasRow, NEW c \in Callers,
         row'.manifest = Incoming(c), bodies' = AfterPlan(Reconcile(Incoming(c), row.manifest))
  PROVE  BodiesCover'
<1>1. Incoming(c) \in Content /\ row.manifest \in Content
  BY ContentGood DEF RowsInv, TypeOK, HasRow, Row
<1>2. ASSUME NEW a \in Artifacts, row'.manifest[a] # None
      PROVE  bodies'[a] = row'.manifest[a]
  <2>1. row.manifest[a] # None => bodies[a] = row.manifest[a]
    BY DEF SqliteInv, BodiesCover
  <2>2. CASE Incoming(c)[a] # row.manifest[a]
    BY <1>2, <2>2 DEF AfterPlan, Reconcile
  <2>3. CASE Incoming(c)[a] = row.manifest[a]
    BY <1>2, <2>1, <2>3 DEF AfterPlan, Reconcile
  <2>4. QED
    BY <2>2, <2>3
<1>3. QED
  BY <1>2 DEF BodiesCover

LEMMA SqliteKept ==
  ASSUME RowsInv, SqliteInv, backend = "sqlite", Sqlite!Next
  PROVE  SqliteInv'
<1> USE SqliteShares, SqliteSharesRows, SqliteNumbers
<1>1. ASSUME UNCHANGED <<backend, row, bodies, log, configs, markers>>
      PROVE  SqliteInv'
  BY <1>1 DEF SqliteInv, FloorCovers, MarkerCovers, BodiesCover, HasRow
<1>2. ASSUME Sqlite!CreateTaskWithEvents
      PROVE  SqliteInv'
  <2>1. log = {} /\ NextOf = 1
    <3>1. highest = 0
      BY <1>2 DEF Sqlite!CreateTaskWithEvents
    <3>2. log = {}
      BY <3>1 DEF RowsInv, TypeOK, LogGood, Event
    <3>3. QED
      BY <3>2, NextOfLog
  <2>2. log' = {[seq |-> 1, state |-> "Submitted"]}
    BY <1>2, <2>1 DEF Sqlite!CreateTaskWithEvents, Sqlite!Commits
  <2>3. row'.floor = 1 /\ \A a \in Artifacts : row'.manifest[a] = None
    BY <1>2 DEF Sqlite!CreateTaskWithEvents, Sqlite!FreshRow, Sqlite!NoContent
  <2>4. FloorCovers' /\ MarkerCovers' /\ BodiesCover'
    BY <2>2, <2>3 DEF FloorCovers, MarkerCovers, BodiesCover, TERMINAL_STATES
  <2>5. QED
    BY <2>4 DEF SqliteInv
<1>3. ASSUME NEW c \in Callers, NEW s \in TaskState, Sqlite!UpdateTaskStatusWithEvents(c, s)
      PROVE  SqliteInv'
  <2>1. HasRow /\ row \in Row
    BY <1>3 DEF Sqlite!UpdateTaskStatusWithEvents, Sqlite!MayBecome, RowsInv, TypeOK, HasRow
  <2>2. row' = [row EXCEPT !.status = s, !.floor = Max({row.floor, NextOf})]
    BY <1>3 DEF Sqlite!UpdateTaskStatusWithEvents
  <2>3. row'.floor = Max({row.floor, NextOf}) /\ row'.manifest = row.manifest
    BY <2>1, <2>2 DEF Row
  <2>4. FloorCovers' /\ MarkerCovers'
    BY <1>3, <2>1, <2>3, SqliteCommitCovers
       DEF Sqlite!UpdateTaskStatusWithEvents, Sqlite!Commits
  <2>5. BodiesCover'
    BY <1>3, <2>1, <2>3 DEF Sqlite!UpdateTaskStatusWithEvents, SqliteInv, BodiesCover
  <2>6. QED
    BY <2>4, <2>5 DEF SqliteInv
<1>4. ASSUME NEW c \in Callers, Sqlite!UpdateTaskWithEvents(c)
      PROVE  SqliteInv'
  <2>1. HasRow /\ row \in Row
    BY <1>4 DEF Sqlite!UpdateTaskWithEvents, RowsInv, TypeOK, HasRow
  <2>2. row' = [row EXCEPT !.status = calls[c].row.status, !.messages = Messages(c),
                           !.manifest = Incoming(c), !.floor = Max({row.floor, NextOf})]
    BY <1>4 DEF Sqlite!UpdateTaskWithEvents
  <2>3. row'.floor = Max({row.floor, NextOf}) /\ row'.manifest = Incoming(c)
    BY <2>1, <2>2 DEF Row
  <2>4. FloorCovers' /\ MarkerCovers'
    BY <1>4, <2>1, <2>3, SqliteCommitCovers
       DEF Sqlite!UpdateTaskWithEvents, Sqlite!Commits, TERMINAL_STATES
  <2>5. bodies' = AfterPlan(Reconcile(Incoming(c), row.manifest))
    BY <1>4 DEF Sqlite!UpdateTaskWithEvents, Sqlite!ApplyArtifactPlan
  <2>6. QED
    BY <2>1, <2>3, <2>4, <2>5, SqlitePlanCovers DEF SqliteInv
<1>5. ASSUME NEW c \in Callers, Sqlite!UpdateTask(c)
      PROVE  SqliteInv'
  <2>1. HasRow /\ row \in Row
    BY <1>5 DEF Sqlite!UpdateTask, RowsInv, TypeOK, HasRow
  <2>2. row' = [row EXCEPT !.status = calls[c].row.status, !.messages = Messages(c),
                           !.manifest = Incoming(c)]
    BY <1>5 DEF Sqlite!UpdateTask
  <2>3. row'.floor = row.floor /\ row'.manifest = Incoming(c)
    BY <2>1, <2>2 DEF Row
  <2>4. FloorCovers' /\ MarkerCovers'
    BY <1>5, <2>1, <2>3 DEF Sqlite!UpdateTask, SqliteInv, FloorCovers, MarkerCovers
  <2>5. bodies' = AfterPlan(Reconcile(Incoming(c), row.manifest))
    BY <1>5 DEF Sqlite!UpdateTask, Sqlite!ApplyArtifactPlan
  <2>6. QED
    BY <2>1, <2>3, <2>4, <2>5, SqlitePlanCovers DEF SqliteInv
<1>6. ASSUME NEW c \in Callers, Sqlite!SetCancelRequested(c)
      PROVE  SqliteInv'
  <2>1. HasRow /\ row \in Row /\ row' = [row EXCEPT !.cancel = TRUE]
    BY <1>6 DEF Sqlite!SetCancelRequested, RowsInv, TypeOK, HasRow
  <2>2. row'.floor = row.floor /\ row'.manifest = row.manifest
    BY <2>1 DEF Row
  <2>3. QED
    BY <1>6, <2>1, <2>2
       DEF Sqlite!SetCancelRequested, SqliteInv, FloorCovers, MarkerCovers, BodiesCover
<1>7. ASSUME NEW c \in Callers, NEW j \in Configs, Sqlite!CreateConfig(c, j)
      PROVE  SqliteInv'
  <2>1. SUFFICES ASSUME HasRow PROVE FloorCovers' /\ MarkerCovers' /\ BodiesCover'
    BY <1>7 DEF Sqlite!CreateConfig, SqliteInv, HasRow
  <2>2. row' = row /\ bodies' = bodies /\ log' = log /\ markers' = markers
        /\ configs' = [configs EXCEPT ![j] = [floor |-> row.floor, settled |-> TRUE]]
    BY <1>7, <2>1 DEF Sqlite!CreateConfig, StoredFloor
  <2>3. FloorCovers' /\ BodiesCover'
    BY <2>1, <2>2 DEF SqliteInv, FloorCovers, BodiesCover
  <2>4. ASSUME NEW e \in log, NEW k \in Configs, e.state \in TERMINAL_STATES,
               configs'[k] # None, configs'[k].floor < e.seq
        PROVE  e.seq \in markers
    <3>1. e.seq \in Nat /\ row.floor \in Nat /\ e.seq <= row.floor
      BY <2>1 DEF RowsInv, TypeOK, HasRow, Row, Event, SqliteInv, FloorCovers
    <3>2. configs \in [Configs -> Registration \cup {None}]
      BY DEF RowsInv, TypeOK
    <3>3. k # j
      BY <2>2, <2>4, <3>1, <3>2
    <3>4. configs'[k] = configs[k]
      BY <2>2, <3>2, <3>3
    <3>5. QED
      BY <2>1, <2>4, <3>4 DEF SqliteInv, MarkerCovers
  <2>5. QED
    BY <2>2, <2>3, <2>4 DEF MarkerCovers
<1>8. ASSUME NEW c \in Callers, NEW j \in Configs, Sqlite!DeleteConfig(c, j)
      PROVE  SqliteInv'
  <2>1. configs \in [Configs -> Registration \cup {None}]
    BY DEF RowsInv, TypeOK
  <2>2. row' = row /\ bodies' = bodies /\ log' = log /\ markers' = markers
        /\ configs' = [configs EXCEPT ![j] = None]
    BY <1>8 DEF Sqlite!DeleteConfig
  <2>3. \A k \in Configs : configs'[k] # None => configs'[k] = configs[k]
    BY <2>1, <2>2
  <2>4. QED
    BY <1>8, <2>2, <2>3 DEF Sqlite!DeleteConfig, SqliteInv, FloorCovers, MarkerCovers,
           BodiesCover, HasRow
<1>9. ASSUME NEW n \in 1..MaxSeq, Sqlite!CleanupEvents(n)
      PROVE  SqliteInv'
  BY <1>9 DEF Sqlite!CleanupEvents, SqliteInv, FloorCovers, MarkerCovers, BodiesCover, HasRow
<1>10. ASSUME Sqlite!CleanupTask \/ Sqlite!CleanupBodies
       PROVE  SqliteInv'
  BY <1>10 DEF Sqlite!CleanupTask, Sqlite!CleanupBodies, SqliteInv, HasRow
<1>11. ASSUME NEW c \in Callers,
              \/ \E op \in {"artifact", "message"} : Sqlite!GetTask(c, op)
              \/ Sqlite!RehydrateTask(c)
              \/ \E live \in BOOLEAN : Sqlite!RenewExecutorLeases(c, live)
              \/ Sqlite!ClaimDelivery(c)
              \/ Sqlite!RecordAttemptStarted(c)
              \/ \E o \in FinalStatus \cup {"Attempting"} : Sqlite!RecordDeliveryOutcome(c, o)
              \/ Sqlite!CallFails(c)
       PROVE  UNCHANGED <<backend, row, bodies, log, configs, markers>>
  BY <1>11 DEF Sqlite!GetTask, Sqlite!RehydrateTask, Sqlite!RenewExecutorLeases,
         Sqlite!ClaimDelivery, Sqlite!RecordAttemptStarted, Sqlite!RecordDeliveryOutcome,
         Sqlite!CallFails
<1>12. ASSUME Sqlite!CleanupGaveUp \/ Sqlite!LeaseRunsOut \/ Sqlite!ClaimRunsOut
       PROVE  UNCHANGED <<backend, row, bodies, log, configs, markers>>
  BY <1>12 DEF Sqlite!CleanupGaveUp, Sqlite!LeaseRunsOut, Sqlite!ClaimRunsOut
<1>13. QED
  BY <1>1, <1>2, <1>3, <1>4, <1>5, <1>6, <1>7, <1>8, <1>9, <1>10, <1>11, <1>12
     DEF Sqlite!Next

LEMMA SqliteAlways == Spec => [](RowsInv /\ SqliteInv)
<1>1. ASSUME Init
      PROVE  SqliteInv
  BY <1>1 DEF Init, SqliteInv, HasRow
<1>2. ASSUME RowsInv, SqliteInv, [Next]_vars
      PROVE  SqliteInv'
  <2>1. CASE vars' = vars
    BY <1>2, <2>1 DEF vars, SqliteInv, FloorCovers, MarkerCovers, BodiesCover, HasRow
  <2>2. CASE backend # "sqlite"
    <3>1. backend' = backend
      <4>1. CASE Next
        <5>1. StoreStep
          BY <1>2, <4>1, NextIsStoreStep
        <5>2. QED
          BY <5>1 DEF StoreStep, CreatesTask, Ages, DeliveryAges, CallStep, Asks, TakesClaim,
                 StartsAttempt, LandsOutcome, CommitsEvent, ReplacesTask, MarksCancel,
                 WritesConfig, WritesLease
      <4>2. QED
        BY <1>2, <2>1, <4>1 DEF vars
    <3>2. QED
      BY <2>2, <3>1 DEF SqliteInv
  <2>3. CASE backend = "sqlite" /\ Next
    BY <1>2, <2>3, SqliteKept DEF Next
  <2>4. QED
    BY <1>2, <2>1, <2>2, <2>3
<1>3. QED
  BY <1>1, <1>2, BackendsTypeCorrect, PTL DEF Spec

\* SqliteEligibleHasMarker: on SQLite no terminal event has an eligible config
\* and no marker, because create_config's transaction is serialised with the
\* commit that counts the configs.
THEOREM SqliteEligibleHasMarkerAlways == Spec => []SqliteEligibleHasMarker
<1>1. ASSUME RowsInv, SqliteInv
      PROVE  SqliteEligibleHasMarker
  <2>1. SUFFICES ASSUME backend = "sqlite", HasRow, NEW e \in log,
                        e.state \in TERMINAL_STATES, EligibleConfigs(e.seq) # {}
                 PROVE  e.seq \in StaleDispatches
    BY DEF SqliteEligibleHasMarker
  <2>2. PICK k \in Configs : configs[k] # None /\ configs[k].floor < e.seq
    BY <2>1 DEF EligibleConfigs, Listed, Sqlite!ListConfigsEligibleAtEvent, Sqlite!Registered
  <2>3. e.seq \in markers
    BY <1>1, <2>1, <2>2 DEF SqliteInv, MarkerCovers
  <2>4. QED
    BY <2>1, <2>3 DEF StaleDispatches, Listed, Sqlite!ListStalePendingDispatches
<1>2. QED
  BY <1>1, SqliteAlways, PTL

\* SqliteManifestHasBodies: on SQLite every artifact a manifest names has a body
\* of that content, whatever full-task writes raced.
THEOREM SqliteManifestHasBodiesAlways == Spec => []SqliteManifestHasBodies
<1>1. SqliteInv => SqliteManifestHasBodies
  BY DEF SqliteInv, BodiesCover, SqliteManifestHasBodies
<1>2. QED
  BY <1>1, SqliteAlways, PTL
===============================================================================
