------------------------------ MODULE PushDelivery ------------------------------
(***************************************************************************)
(* Delivery of one terminal event to the push configurations eligible for  *)
(* it, by several server instances over one store: the pending-dispatch    *)
(* marker, the fan-out of the instance that committed the event, the claim *)
(* rows that fence one worker per (event, config), the retry loop of a     *)
(* worker, and the reclaim sweep of every instance.                        *)
(*                                                                         *)
(* Time is a clock tick that ages the marker and the claims.  A POST takes *)
(* at most RequestTimeout and a sleep at most BackoffCap; with Healthy no  *)
(* worker is slower than that and its store calls take no time, without it *)
(* a worker may pause anywhere for any time.                               *)
(***************************************************************************)
EXTENDS Integers, FiniteSets

CONSTANTS
  Configs,         \* push configuration ids of the task
  Instances,       \* server processes, each with a worker id and a sweep
  MaxAttempts,     \* push_max_attempts
  BackoffCap,      \* push_backoff_cap, in ticks
  RequestTimeout,  \* push_request_timeout, in ticks
  ClaimExpiry,     \* push_claim_expiry, and the age of a stale marker
  NoMarker,        \* there is no pending-dispatch row
  Healthy,         \* workers keep to their timeouts
  Faults,          \* kinds of store calls that may fail
  MaxFaults,       \* bound: failed store calls
  MaxCrashes,      \* bound: crashes
  MaxGeneration    \* bound: claims of one row

\* The builder refuses an expiry within its retry horizon.
RetryHorizon == MaxAttempts * BackoffCap

ASSUME CountsAssumption == MaxAttempts \in Nat \ {0} /\ MaxGeneration \in Nat \ {0}
ASSUME TimesAssumption ==
  /\ BackoffCap \in Nat
  /\ RequestTimeout \in Nat
  /\ ClaimExpiry \in Nat
  /\ ClaimExpiry > RetryHorizon
ASSUME MarkerAssumption == NoMarker \notin 0..ClaimExpiry
ASSUME BudgetsAssumption == MaxFaults \in Nat /\ MaxCrashes \in Nat /\ Healthy \in BOOLEAN

VARIABLES
  task,     \* the row: not yet terminal, terminal, or deleted
  configs,  \* registered before the event, after it, or not there
  marker,   \* age of the pending-dispatch row
  claims,   \* config -> claim row, for the keys that exist
  jobs,     \* the fan-out and the sweep of each instance
  workers,  \* deliveries in progress, by job and config
  faults,   \* store calls that failed so far
  crashes,  \* crashes so far
  lost      \* history: configs whose delivery ended unclaimed with no row behind it

vars == <<task, configs, marker, claims, jobs, workers, faults, crashes, lost>>

FinalStatus == {"Succeeded", "GaveUp", "Abandoned"}

\* `ttl` is what is left until expires_at; 0 is expired.
Claim == [status: {"Pending", "Attempting"} \cup FinalStatus, claimant: Instances,
          generation: 1..MaxGeneration, count: 0..MaxAttempts, ttl: 0..ClaimExpiry]

JobKeys == Instances \X {"dispatch", "sweep"}
WorkerKeys == JobKeys \X Configs

Job == [at: {"idle", "committed", "load", "refresh", "list", "join", "claims", "reclaim"},
        todo: SUBSET Configs]

\* `left` is what is left of the POST or the sleep a worker is in.
Worker == [at: {"claim", "check", "attempt", "post", "sleep", "persist"},
           abandon: BOOLEAN, generation: 0..MaxGeneration, count: 0..MaxAttempts,
           outcome: FinalStatus \cup {"none"}, left: 0..RequestTimeout + BackoffCap]

Put(f, k, v) == [x \in DOMAIN f \cup {k} |-> IF x = k THEN v ELSE f[x]]
Drop(f, S) == [x \in DOMAIN f \ S |-> f[x]]

TypeOK ==
  /\ task \in {"running", "terminal", "deleted"}
  /\ configs \in [Configs -> {"none", "eligible", "late"}]
  /\ marker \in 0..ClaimExpiry \cup {NoMarker}
  /\ DOMAIN claims \subseteq Configs
  /\ claims \in [DOMAIN claims -> Claim]
  /\ jobs \in [JobKeys -> Job]
  /\ DOMAIN workers \subseteq WorkerKeys
  /\ workers \in [DOMAIN workers -> Worker]
  /\ faults \in 0..MaxFaults
  /\ crashes \in 0..MaxCrashes
  /\ lost \subseteq Configs

Idle == [at |-> "idle", todo |-> {}]

Init ==
  /\ task = "running"
  /\ configs \in [Configs -> {"none", "eligible"}]
  /\ marker = NoMarker
  /\ claims = [c \in {} |-> 0]
  /\ jobs = [j \in JobKeys |-> Idle]
  /\ workers = [k \in {} |-> 0]
  /\ faults = 0
  /\ crashes = 0
  /\ lost = {}

Settled(c) == c \in DOMAIN claims /\ claims[c].status \in FinalStatus
Expired(c) == claims[c].ttl = 0
Exists(c) == configs[c] # "none"

Goto(j, at) == jobs' = [jobs EXCEPT ![j].at = at]
Finish(j) == jobs' = [jobs EXCEPT ![j] = Idle]

\* A store call of the given kind returns an error.
Fails(kind) ==
  /\ kind \in Faults
  /\ faults < MaxFaults
  /\ faults' = faults + 1

NoFault == UNCHANGED faults

-------------------------------------------------------------------------------
(* The commit of the event, and what clients and retention do meanwhile *)

\* update_task_status_with_events by instance i: the marker is part of the
\* commit when a config exists (TaskStore!UpdateTaskStatusWithEvents).
Commit(i) ==
  /\ task = "running"
  /\ task' = "terminal"
  /\ marker' = IF \E c \in Configs : Exists(c) THEN 0 ELSE NoMarker
  /\ Goto(<<i, "dispatch">>, "committed")
  /\ UNCHANGED <<configs, claims, workers, faults, crashes, lost>>

\* create_config after the event: a new id, or a known one whose floor is
\* stamped again.
Register(c) ==
  /\ task = "terminal"
  /\ configs[c] # "late"
  /\ configs' = [configs EXCEPT ![c] = "late"]
  /\ UNCHANGED <<task, marker, claims, jobs, workers, faults, crashes, lost>>

DeleteConfig(c) ==
  /\ task = "terminal"
  /\ Exists(c)
  /\ configs' = [configs EXCEPT ![c] = "none"]
  /\ UNCHANGED <<task, marker, claims, jobs, workers, faults, crashes, lost>>

DeleteTask ==
  /\ task = "terminal"
  /\ task' = "deleted"
  /\ UNCHANGED <<configs, marker, claims, jobs, workers, faults, crashes, lost>>

-------------------------------------------------------------------------------
(* PushDispatcher *)

FreshWorker(abandon) ==
  [at |-> "claim", abandon |-> abandon, generation |-> 0, count |-> 0,
   outcome |-> "none", left |-> 0]

WorkersOf(j) == {k \in DOMAIN workers : k[1] = j}

\* dispatch: spawn the fan-out of the event just committed.
Dispatch(i) ==
  LET j == <<i, "dispatch">>
  IN  /\ jobs[j].at = "committed"
      /\ Goto(j, "list")
      /\ UNCHANGED <<task, configs, marker, claims, workers, faults, crashes, lost>>

\* After the fan-out a dispatch is over; a sweep goes on to the claims.
AfterFanout(j) == IF j[2] = "sweep" THEN Goto(j, "claims") ELSE Finish(j)

\* run_fanout: list the eligible configs and spawn one delivery for each.  No
\* config leaves nothing to do but to delete the marker.
FanoutList(j) ==
  /\ jobs[j].at = "list"
  /\ LET eligible == {c \in Configs : configs[c] = "eligible"}
     IN  IF eligible = {}
         THEN /\ marker' = NoMarker
              /\ AfterFanout(j)
              /\ UNCHANGED workers
         ELSE /\ workers' = [k \in DOMAIN workers \cup ({j} \X eligible) |->
                               IF k \in DOMAIN workers THEN workers[k]
                               ELSE FreshWorker(FALSE)]
              /\ Goto(j, "join")
              /\ UNCHANGED marker
  /\ UNCHANGED <<task, configs, claims, faults, crashes, lost>>

\* The listing fails through its retries: the marker stays.
FanoutListFails(j) ==
  /\ jobs[j].at = "list"
  /\ Fails("list")
  /\ AfterFanout(j)
  /\ UNCHANGED <<task, configs, marker, claims, workers, crashes, lost>>

\* (mutant) The marker is deleted without waiting for the deliveries.
FanoutNoJoin(j) ==
  /\ jobs[j].at = "join"
  /\ marker' = NoMarker
  /\ AfterFanout(j)
  /\ UNCHANGED <<task, configs, claims, workers, faults, crashes, lost>>

\* Every delivery has returned, whatever it reports: the marker is deleted.
FanoutJoin(j) ==
  /\ jobs[j].at = "join"
  /\ WorkersOf(j) = {}
  /\ marker' = NoMarker
  /\ AfterFanout(j)
  /\ UNCHANGED <<task, configs, claims, workers, faults, crashes, lost>>

-------------------------------------------------------------------------------
(* The reclaim sweep of instance i *)

\* (mutant) The sweep only looks at claim rows.
SweepTickClaimsOnly(i) ==
  LET j == <<i, "sweep">>
  IN  /\ task # "running"
      /\ jobs[j].at = "idle"
      /\ Goto(j, "claims")
      /\ UNCHANGED <<task, configs, marker, claims, workers, faults, crashes, lost>>

SweepTick(i) ==
  LET j == <<i, "sweep">>
  IN  /\ task # "running"
      /\ jobs[j].at = "idle"
      /\ Goto(j, IF marker = ClaimExpiry THEN "load" ELSE "claims")
      /\ UNCHANGED <<task, configs, marker, claims, workers, faults, crashes, lost>>

\* redispatch_pending: re-read the task; a deleted one takes its marker along.
RedispatchLoad(i) ==
  LET j == <<i, "sweep">>
  IN  /\ jobs[j].at = "load"
      /\ IF task = "deleted"
         THEN marker' = NoMarker /\ Goto(j, "claims")
         ELSE Goto(j, "refresh") /\ UNCHANGED marker
      /\ UNCHANGED <<task, configs, claims, workers, faults, crashes, lost>>

RedispatchLoadFails(i) ==
  LET j == <<i, "sweep">>
  IN  /\ jobs[j].at = "load"
      /\ Fails("read")
      /\ Goto(j, "claims")
      /\ UNCHANGED <<task, configs, marker, claims, workers, crashes, lost>>

\* record_pending_dispatch is an upsert: it also brings back a marker that was
\* deleted since the sweep listed it.
RedispatchRefresh(i) ==
  LET j == <<i, "sweep">>
  IN  /\ jobs[j].at = "refresh"
      /\ \/ marker' = 0 /\ NoFault
         \/ Fails("refresh") /\ UNCHANGED marker
      /\ Goto(j, "list")
      /\ UNCHANGED <<task, configs, claims, workers, crashes, lost>>

Reclaimable == {c \in DOMAIN claims : ~Settled(c) /\ Expired(c)}

ListReclaimable(i) ==
  LET j == <<i, "sweep">>
  IN  /\ jobs[j].at = "claims"
      /\ jobs' = [jobs EXCEPT ![j] = IF Reclaimable = {} THEN Idle
                                     ELSE [at |-> "reclaim", todo |-> Reclaimable]]
      /\ UNCHANGED <<task, configs, marker, claims, workers, faults, crashes, lost>>

\* redispatch_one, one row after the other: deliver again, or record Abandoned
\* when the task or the config is gone.
RedispatchOne(i, c) ==
  LET j == <<i, "sweep">>
  IN  /\ jobs[j].at = "reclaim"
      /\ WorkersOf(j) = {}
      /\ c \in jobs[j].todo
      /\ jobs' = [jobs EXCEPT ![j].todo = @ \ {c}]
      /\ \/ /\ workers' = Put(workers, <<j, c>>,
                            FreshWorker(task = "deleted" \/ ~Exists(c)))
            /\ NoFault
         \/ Fails("read") /\ UNCHANGED workers
      /\ UNCHANGED <<task, configs, marker, claims, crashes, lost>>

SweepDone(i) ==
  LET j == <<i, "sweep">>
  IN  /\ jobs[j] = [at |-> "reclaim", todo |-> {}]
      /\ WorkersOf(j) = {}
      /\ Finish(j)
      /\ UNCHANGED <<task, configs, marker, claims, workers, faults, crashes, lost>>

-------------------------------------------------------------------------------
(* PushDeliveryWorker::deliver, the delivery k of a job to a config *)

Instance(k) == k[1][1]
Target(k) == k[2]

At(k, at) == k \in DOMAIN workers /\ workers[k].at = at
Leave(k) == workers' = Drop(workers, {k})
Timer(ticks) == IF Healthy THEN ticks ELSE 0

\* The row still carries the (claimant, generation) the worker was given.
HoldsClaim(k) ==
  /\ Target(k) \in DOMAIN claims
  /\ claims[Target(k)].claimant = Instance(k)
  /\ claims[Target(k)].generation = workers[k].generation

WithOutcome(k, outcome) ==
  workers' = [workers EXCEPT ![k] = [@ EXCEPT !.at = "persist", !.outcome = outcome]]

\* (mutant) A row that is not final is claimed whoever holds it.
ClaimableUnexpired(c) ==
  c \in DOMAIN claims => ~Settled(c) /\ claims[c].generation < MaxGeneration

Claimable(c) ==
  c \in DOMAIN claims => ~Settled(c) /\ Expired(c) /\ claims[c].generation < MaxGeneration

\* claim_delivery: a fresh row, or an expired one under the next generation
\* and with its attempts kept.  A sweep that found task or config gone only
\* claims to abandon.
ClaimDelivery(k) ==
  /\ At(k, "claim")
  /\ Claimable(Target(k))
  /\ LET c == Target(k)
         fresh == c \notin DOMAIN claims
         generation == IF fresh THEN 1 ELSE claims[c].generation + 1
         count == IF fresh THEN 0 ELSE claims[c].count
     IN  /\ claims' = Put(claims, c,
              [status |-> "Pending", claimant |-> Instance(k),
               generation |-> generation, count |-> count, ttl |-> ClaimExpiry])
         /\ workers' = [workers EXCEPT ![k] =
              [@ EXCEPT !.at = IF workers[k].abandon THEN "persist" ELSE "check",
                        !.outcome = IF workers[k].abandon THEN "Abandoned" ELSE "none",
                        !.generation = generation, !.count = count]]
         /\ lost' = lost \ {c}
  /\ UNCHANGED <<task, configs, marker, jobs, faults, crashes>>

\* ClaimAlreadyHeld, or a store error (UnclaimedSkip): the delivery returns
\* either way.  After an error there may be no row at all, and nobody notes it.
ClaimRefused(k) ==
  /\ At(k, "claim")
  /\ \/ /\ Target(k) \in DOMAIN claims
        /\ Settled(Target(k)) \/ ~Expired(Target(k))
        /\ NoFault /\ UNCHANGED lost
     \/ Fails("claim") /\ lost' = lost \cup ({Target(k)} \ DOMAIN claims)
  /\ Leave(k)
  /\ UNCHANGED <<task, configs, marker, claims, jobs, crashes>>

\* Before an attempt: the budget, then whether config and task still exist (a
\* cached presence of the config may be stale), then the outbound policy.
CheckTarget(k) ==
  /\ At(k, "check")
  /\ \/ workers[k].count >= MaxAttempts /\ WithOutcome(k, "GaveUp")
     \/ workers[k].count < MaxAttempts /\ WithOutcome(k, "Abandoned")
        /\ (task = "deleted" \/ ~Exists(Target(k)))
     \/ workers[k].count < MaxAttempts /\ task # "deleted"
        /\ \/ \E refusal \in {"GaveUp", "Abandoned"} : WithOutcome(k, refusal)
           \/ workers' = [workers EXCEPT ![k].at = "attempt"]
  /\ UNCHANGED <<task, configs, marker, claims, jobs, faults, crashes, lost>>

\* (mutant) record_attempt_started without the fence.
RecordAttemptUnfenced(k) ==
  /\ At(k, "attempt")
  /\ Target(k) \in DOMAIN claims /\ ~Settled(Target(k))
  /\ LET count == claims[Target(k)].count + 1
     IN  /\ claims' = [claims EXCEPT ![Target(k)] =
                         [@ EXCEPT !.status = "Attempting", !.count = count]]
         /\ workers' = [workers EXCEPT ![k] =
              [@ EXCEPT !.at = "post", !.count = count, !.left = Timer(RequestTimeout)]]
  /\ UNCHANGED <<task, configs, marker, jobs, faults, crashes, lost>>

\* record_attempt_started, fenced by the generation and by a final status.
RecordAttemptStarted(k) ==
  /\ At(k, "attempt")
  /\ HoldsClaim(k) /\ ~Settled(Target(k))
  /\ LET count == claims[Target(k)].count + 1
     IN  /\ claims' = [claims EXCEPT ![Target(k)] =
                         [@ EXCEPT !.status = "Attempting", !.count = count]]
         /\ workers' = [workers EXCEPT ![k] =
              [@ EXCEPT !.at = "post", !.count = count, !.left = Timer(RequestTimeout)]]
  /\ UNCHANGED <<task, configs, marker, jobs, faults, crashes, lost>>

\* StaleDeliveryClaim, or a store error: the delivery returns.
AttemptRefused(k) ==
  /\ At(k, "attempt")
  /\ \/ ~(HoldsClaim(k) /\ ~Settled(Target(k))) /\ NoFault
     \/ Fails("attempt")
  /\ Leave(k)
  /\ UNCHANGED <<task, configs, marker, claims, jobs, crashes, lost>>

\* The receiver answers, or the POST times out.  A retryable failure ends the
\* delivery with the last attempt and sleeps before any other.
PostAnswered(k) ==
  /\ At(k, "post")
  /\ \/ \E outcome \in {"Succeeded", "GaveUp"} : WithOutcome(k, outcome)
     \/ workers[k].count >= MaxAttempts /\ WithOutcome(k, "GaveUp")
     \/ workers[k].count < MaxAttempts
        /\ workers' = [workers EXCEPT ![k] =
             [@ EXCEPT !.at = "sleep", !.left = Timer(BackoffCap)]]
  /\ UNCHANGED <<task, configs, marker, claims, jobs, faults, crashes, lost>>

WakeUp(k) ==
  /\ At(k, "sleep")
  /\ workers' = [workers EXCEPT ![k] = [@ EXCEPT !.at = "check", !.left = 0]]
  /\ UNCHANGED <<task, configs, marker, claims, jobs, faults, crashes, lost>>

\* (mutant) record_delivery_outcome writes whatever row is there.
PersistUnfenced(k) ==
  /\ At(k, "persist")
  /\ Target(k) \in DOMAIN claims
  /\ claims' = [claims EXCEPT ![Target(k)] =
                  [@ EXCEPT !.status = workers[k].outcome, !.ttl = 0]]
  /\ Leave(k)
  /\ UNCHANGED <<task, configs, marker, jobs, faults, crashes, lost>>

\* persist_terminal: record_delivery_outcome writes a row that is ours and not
\* final (the expiry of a final row decides nothing any more); otherwise, or
\* when the store fails through the retries, the delivery just returns.
PersistTerminal(k) ==
  /\ At(k, "persist")
  /\ \/ /\ HoldsClaim(k) /\ ~Settled(Target(k))
        /\ claims' = [claims EXCEPT ![Target(k)] =
                        [@ EXCEPT !.status = workers[k].outcome, !.ttl = 0]]
        /\ NoFault
     \/ ~(HoldsClaim(k) /\ ~Settled(Target(k))) /\ UNCHANGED claims /\ NoFault
     \/ Fails("persist") /\ UNCHANGED claims
  /\ Leave(k)
  /\ UNCHANGED <<task, configs, marker, jobs, crashes, lost>>

-------------------------------------------------------------------------------
InTime(k) == workers[k].at \in {"post", "sleep"} /\ workers[k].left > 0
\* (mutant) An expiry that is past keeps being counted down.
LessUnchecked(n) == n - 1

Less(n) == IF n > 0 THEN n - 1 ELSE 0

Tick ==
  /\ task # "running"
  /\ Healthy => \A k \in DOMAIN workers : InTime(k)
  /\ marker' = IF marker \in {NoMarker, ClaimExpiry} THEN marker ELSE marker + 1
  /\ claims' = [c \in DOMAIN claims |-> [claims[c] EXCEPT !.ttl = Less(@)]]
  /\ workers' = [k \in DOMAIN workers |-> [workers[k] EXCEPT !.left = Less(@)]]
  /\ UNCHANGED <<task, configs, jobs, faults, crashes, lost>>

\* The process dies and comes back without its jobs; the store stays.
Crash(i) ==
  /\ task # "running"
  /\ crashes < MaxCrashes
  /\ crashes' = crashes + 1
  /\ jobs' = [j \in JobKeys |-> IF j[1] = i THEN Idle ELSE jobs[j]]
  /\ workers' = Drop(workers, {k \in DOMAIN workers : Instance(k) = i})
  /\ UNCHANGED <<task, configs, marker, claims, faults, lost>>

Deliver(k) ==
  \/ ClaimDelivery(k) \/ ClaimRefused(k) \/ CheckTarget(k)
  \/ RecordAttemptStarted(k) \/ AttemptRefused(k)
  \/ PostAnswered(k) \/ WakeUp(k) \/ PersistTerminal(k)

FanOut(j) == FanoutList(j) \/ FanoutListFails(j) \/ FanoutJoin(j)

Sweep(i) ==
  \/ SweepTick(i) \/ RedispatchLoad(i) \/ RedispatchLoadFails(i) \/ RedispatchRefresh(i)
  \/ ListReclaimable(i) \/ SweepDone(i)
  \/ \E c \in Configs : RedispatchOne(i, c)

Next ==
  \/ \E i \in Instances : Commit(i) \/ Dispatch(i) \/ Sweep(i) \/ Crash(i)
  \/ \E c \in Configs : Register(c) \/ DeleteConfig(c)
  \/ DeleteTask
  \/ \E j \in JobKeys : FanOut(j)
  \/ \E k \in WorkerKeys : Deliver(k)
  \/ Tick

\* The runtime polls what can run, the ticker of the sweep fires, and a POST
\* ends by its timeout; no crash, fault or client call is promised.
Fairness ==
  /\ \A i \in Instances : WF_vars(Dispatch(i)) /\ WF_vars(Sweep(i))
  /\ \A j \in JobKeys : WF_vars(FanOut(j))
  /\ \A k \in WorkerKeys : WF_vars(Deliver(k))
  /\ WF_vars(Tick)

Spec == Init /\ [][Next]_vars /\ Fairness

-------------------------------------------------------------------------------
\* The attempts of every generation together keep to push_max_attempts, and no
\* two rows of one key disagree: a reclaimed row carries its count on.
AttemptsWithinBudget == \A c \in DOMAIN claims : claims[c].count <= MaxAttempts

\* Whatever worker, fan-out or sweep is still running for it, a recorded
\* outcome, its attempts and its holder stay what they are.
OutcomeIsFinal ==
  [][\A c \in Configs : Settled(c) => c \in DOMAIN claims' /\ claims'[c] = claims[c]]_vars

\* The marker goes only when it has done its work (run_fanout: "after that
\* point, recovery is the claim-row reclaim path's responsibility"): a config
\* that is owed the event has a marker, or a claim row a sweep can find.  The
\* one way to lose it is an error of the claim call that was to write its row:
\* "The dispatcher retries on the next tick" (UnclaimedSkip), but the fan-out
\* deletes the marker behind that delivery as behind any other.
OwedIsRecoverable ==
  task = "terminal" =>
    \A c \in Configs : configs[c] = "eligible" =>
      marker # NoMarker \/ c \in DOMAIN claims \/ c \in lost

Retrying(w) == w.at \in {"check", "attempt", "post", "sleep"}

\* The most ticks a worker within its timeouts has been at it once it is done
\* with the POST or the sleep it is in: a POST for each attempt and a sleep
\* behind all but the one under way.
Spent(w) ==
  w.count * RequestTimeout + (IF w.at = "post" THEN w.count - 1 ELSE w.count) * BackoffCap

\* With any expiry the builder accepts, a worker that keeps to its timeouts is
\* overtaken only when its POSTs and sleeps can have filled the expiry.  The
\* comment at the builder's check promises that it never is ("a claim held by
\* a healthy worker is never mis-classified as stale mid-retry"); the horizon
\* it compares with leaves the POSTs out.
HealthyClaimLasts ==
  Healthy => \A k \in DOMAIN workers :
    Retrying(workers[k]) => HoldsClaim(k) \/ ClaimExpiry <= Spent(workers[k])

\* Every delivery that is owed ends in a recorded outcome, through crashes, a
\* worker's loss of its claim and store calls that fail, unless its task or its
\* registration goes away first, or an error of the claim call lost it.
EveryDeliverySettles ==
  \A c \in Configs :
    (task = "terminal" /\ configs[c] = "eligible")
      ~> (Settled(c) \/ task = "deleted" \/ configs[c] # "eligible" \/ c \in lost)
===============================================================================
