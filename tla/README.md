# TLA+ models of turul-a2a

turul-a2a is a Rust framework for A2A agents: a server that turns messages into
*tasks*, runs an executor for each turn of a task, records every change in a
store together with an event log, streams the events, pushes the terminal ones
to webhooks, and keeps all that consistent when several server instances, or
short-lived Lambda invocations, share one store. This directory models the parts
that decide what happens to a task and what a client is told, checks them with
TLC and proves the central ones with TLAPS.

Paths below are relative to `crates/turul-a2a/src/` unless they name a crate.
`PROJECT.json` maps each definition to the lines it models.

## 1. The system

| Component | State it keeps | Operations | Interacts with | Modelled in |
|---|---|---|---|---|
| task state machine (`turul-a2a-types/src/state_machine.rs`) | none | `validate_transition` | every store backend | `TaskStates` |
| task and event store (`storage/`) | task rows (status, content, cancel marker, lease, causal floor), event logs and counters, push configs, pending-dispatch markers | atomic commits (`create_task_with_events`, `update_task_status_with_events`, `update_task_with_events`), `append_message`, cancel marker, leases, config CRUD, retention | all writers | `TaskStore` (what the in-memory backend does) |
| persistent backends (`storage/sqlite.rs`, `postgres.rs`, `dynamodb.rs`) | the same in tables or items, with artifact bodies apart and DynamoDB's TTLs | the same calls, as database operations | all writers | `Backends` and the modules under it |
| store locking (`storage/in_memory.rs`) | six tokio `RwLock`s | acquisition and drop order of each call | the store's calls | `StoreLocks` |
| executor sink (`event_sink.rs`) | closed and interrupted flags, `commit_lock` | status commits, artifact read-merge-write | store, in-flight handle, dispatcher | `TaskTurn` |
| send (`router.rs`) | the request's own progress | resolve the target, start a turn, spawn or enqueue, blocking wait with two deadlines | store, registry, handle, queue | `TaskTurn`, `DurableQueue` |
| cancel (`router.rs`) | the request's own progress | marker, trip, grace, forced `CANCELED` | store, registry | `TaskTurn` |
| in-flight registry and supervisor (`server/in_flight.rs`, `server/spawn.rs`) | one handle per running task, in memory | insert, trip, deferred abort, sentinel removal, lease clear | sends, cancels, loops | `TaskTurn` |
| background loops (`server/liveness.rs`, `server/in_flight.rs`) | none; each works from a list it read | lease renewal, reaper, stall watchdog, idle sweep, cancel poller | store, registry | `TaskTurn` |
| push dispatcher, worker, claims (`push/`) | claim rows with generation, attempts, expiry | dispatch, fan-out, claim, attempt, outcome | store, webhook receivers | `PushDelivery` |
| reclaim sweep (`server/mod.rs`) | none | stale markers and expired claims, redispatch | dispatcher, store | `PushDelivery` |
| streaming (`streaming/`, `router.rs`) | the broker's wake-ups, a position per stream | snapshot, replay, follow | store | `TaskStream` |
| durable queue (`durable_executor.rs`, `turul-a2a-aws-lambda/src/durable.rs`) | queue records | enqueue and its compensation, the consumer's gates, the run, the scheduled idle sweep | store, queue | `DurableQueue` |
| Lambda push recovery (`scheduled_recovery.rs`, `stream_recovery.rs`) | none; a marker and its change stream | redispatch by stream worker and by schedule | store, dispatcher | `LambdaRecovery` |
| builders and cards (`server/mod.rs`, `card_builder.rs`, `turul-a2a-aws-lambda/src/lib.rs`) | the built server and its card | build-time checks, merge of middleware contributions | middleware | `ServerBuild` |
| transports, middleware, authentication (`router.rs`, `jsonrpc.rs`, `grpc/`, `middleware/`, `turul-a2a-auth`) | none that outlives a request | checks in order, error mapping | core handlers | `RequestPath` |
| client and listings (`turul-a2a-client`, the backends' list calls) | a request, a page token | discovery, credentials, errors, walks | server | `ClientSession`, `Listings` |
| SSRF guard and secrets, wire types, patterns, examples | none | pure functions | | no (section 8) |

What makes the code hard, and what each part has to get right:

- **Store.** Many writers race for a task's terminal; a sink replaces the whole
  task from an older read; retention trims logs that are still numbered.
  Exactly one terminal, announced by the last event; no rewrite may undo a
  cancel marker, a lease or a causal floor; numbers never go back; a config is
  eligible for a terminal event only if that commit left a marker. The
  persistent backends split these calls into database operations, and each keeps
  a different part of the contract (section 3).
- **Locks.** Calls take several locks in an order; short of the one pair that takes
  two of them in opposite order, no call waits for ever.
- **Turns.** A turn crosses ten awaits on the way to its executor, and cancels,
  deadlines, watchdogs, other instances and crashes act in between. A client is
  never told a terminal that lost; a WORKING task can always be found by
  somebody; the registry knows every executor that runs; a blocking send is
  answered.
- **Push.** Workers overtake each other, crash, or lose store calls. Attempts
  stay in budget, outcomes are final, a healthy worker keeps its claim until its POSTs
  and sleeps can have filled the expiry, an owed delivery stays recoverable and
  settles.
- **Streams.** A stream's position and its snapshot are two reads, a signal
  may come before its receiver, and a commit of another server sends none.
  Nothing is missed, no wake-up is lost, a stream ends on a state that is true.
- **Durable queue, Lambda.** A job may run late, twice or never, nobody holds a
  lease for it, and the process that committed an event may be frozen. A held
  task has a job or somebody who moves it on; a marker is fanned out.
- **Requests.** Three bindings check in their own order and encode errors in
  their own way; stacked and alternative middleware are merged into one card;
  listings are read page by page while rows move.

`PROJECT.json` lists each hazard at its line with the properties that cover it.

## 2. Modules

| Module | Models | Kind |
|---|---|---|
| `TaskStates` | state classes and `ValidTransition` | operators |
| `TaskVerdict` | what a task promises its clients: open, one verdict, removed | abstract specification |
| `TaskStore` | the store's calls; refines `TaskVerdict` | specification |
| `StoreLocks` | lock order of the in-memory calls | specification |
| `DurableRows` | the records of a persistent backend and what its calls share | state and operators |
| `SqliteStore`, `PostgresStore`, `DynamoStore` | each backend's calls as database operations | specifications |
| `Backends` | one task on any of the three, by INSTANCE | composition |
| `PushDelivery` | marker, fan-out, claims, workers, sweep | specification |
| `TaskTurn` | sends, executors, cancels, loops, crashes, on top of `TaskStore` | composition |
| `TaskStream` | streams, their snapshot, position and wake-ups, on top of `TaskStore` | composition |
| `DurableQueue` | queued turns on top of `TaskStore` | composition |
| `LambdaRecovery` | recovery of push markers on top of `DurableQueue` | composition |
| `ServerBuild` | what the builders refuse and the card they publish | operators |
| `RequestPath` | a request's way through a server to a refusal or a core handler | operators |
| `Listings` | one page of a listing, per backend | operators |
| `ClientSession` | a client and its server; EXTENDS `RequestPath`, INSTANCEs `Listings` | composition |
| `TaskStoreProofs`, `TaskTurnProofs`, `TaskStreamProofs`, `DurableQueueProofs`, `PushDeliveryProofs`, `StoreLocksProofs`, `BackendsProofs`, `ClientSessionProofs` | theorems (section 6) | proofs |
| `MC*` | symmetry sets and instances for TLC | model checking |

`TaskTurn`, `TaskStream` and `DurableQueue` EXTEND `TaskStore`: every write of
theirs *is* one of the store's actions, so the compositions share the rows and
the logs. `StoreLocks` justifies that a store call is one step of `TaskStore`: a
call takes the locks it needs before it reads and keeps them to its last write.
The two calls that let go in between (`create_config`, the sink's artifact merge)
are split there. `PushDelivery` starts from the commit of one terminal event; the
fact it takes from the store (a marker is written whenever a config is eligible)
is `EligibleHasMarker`.

### TaskStore

A HashMap is a function whose domain is the set of its keys. `tasks`, `events`,
`event_counters`, `push_configs` and `pending_dispatches` are the tables;
`registering` holds a `create_config` call between its two phases, `snapshots`
what a sink read and will write back. The action names are those of the methods.
`content` is the set of messages and artifacts of a task; `NextSeq` is the
counter the backends advance under the same lock as the row. A config's
`registered_after_event_sequence` is the value read in the first phase, as in
the code. Retention (`CleanupTask`, `CleanupEvents`) may reap any terminal task
and any prefix of a log, without a clock.

### StoreLocks

`Plan` gives, per call, the sequence of read, write and drop on the named locks,
taken from the order of the `.read().await`, `.write().await` and `drop` in the
call. The locks are tokio's fair ones: FIFO queues, a read behind a waiting write
waits. `Cancelled` drops a caller at an await.

### Backends

One task, on one backend, and callers that each make one storage call. `row`,
`bodies`, `log`, `configs`, `markers`, `lease`, `delivery` are the tables or items;
`highest` remembers the highest number ever committed and `counter` is DynamoDB's
counter item. A call is split where its isolation lets another caller in:

- SQLite has one writer, so a transaction is one step and only what is read
  before it (`get_task` of a sink or of `append_message`) is a step of its own;
- a PostgreSQL transaction runs at READ COMMITTED: its reads before the first
  UPDATE are a step, the rest, under the row lock, another; `create_config` is
  SERIALIZABLE, which conflicts with nothing else that runs so;
- a DynamoDB call is a series of item reads that ends in one conditional write
  or one `TransactWriteItems`; a put drops every attribute it does not name, and
  items may expire by TTL.

The listings a property reads or an action uses are operators of each module,
selected by `Backends`: `GetEventsAfter`, `ListConfigsEligibleAtEvent`,
`ListStalePendingDispatches`, `ListReclaimableClaims`, `ListFailedDeliveries`, on the
SQL backends `ListCancelRequested`, on DynamoDB `ListExpiredExecutorLeases`, which
deletes what it lists. What happens between a sweep's listing and its commit is
`TaskTurn`'s.

### PushDelivery

One terminal event, the configs registered for it, several instances. Each has a
`dispatch` job (the fan-out after the commit) and a `sweep` job; a worker exists
per job and config and goes through claim, target check, attempt, POST, sleep
and persist, one store call per step. `Tick` ages markers and claims; `Healthy`
says whether workers keep to their timeouts or may pause anywhere. `Faults`
names the store calls that may fail. `MaxGeneration` bounds reclaims of one row.
`lost` is a history variable: the configs whose claim call failed before any row
of theirs was there, which the code gives up without a trace.
`MCPushDelivery` starts `push_settles` in two kinds of states: before the event with
at most one config (`OneConfig`), and after a server died with a POST to each
of the configs under way (`AfterCrash`), where claims age behind a redispatch.

### TaskTurn

A turn is named by the send that starts it. `send` is how far the request is,
`turn` the record of executor, sink, in-flight handle and supervisor,
`in_flight` each instance's registry entry for the task, `loop` what each
background loop has listed and not yet acted on. The actions follow the awaits
of the code: `ResolveFollowUp` (checks), `BeginTurn` (create or append),
`StampLease`, `CommitWorking`, `Spawn`; the blocking wait `Yielded`,
`SoftDeadline`, `CancelSeen`, `PollSeesTerminal`, `HardDeadline`, `ForceFailed`;
the sink's `SinkCommits` and `SinkAnswered` (an abort may fall between them),
`ArtifactRead` and `ArtifactWrite`; `SupervisorLeaves` and `SupervisorClears`;
`CancelMarks`, `CancelTrips`, `CancelEnds`; list and act steps of each loop.

Abstractions:

- push is off, and the durable queue's branch is `DurableQueue`'s;
- a lease is `fresh` or `lapsed`, and lapses only when no registry holds the
  task, no renewal is under way and no send is about to spawn: an instance that
  runs renews three times per ttl;
- timers may fire at any moment, in the order in which the code arms them;
- an executor panic is merged with the `FAILED` its exit would commit;
- `get_task` and the registry lookup of `resolve_send_target` are one step, as
  are the read and the write of the cancel marker, a loop's commit and the trip
  that follows it, and the immediate answer's read and its spawn: nothing that
  happens in between could change what the next step does to the task;
- the branch of the wait for a dropped `yielded` sender is not an action: the
  waiting handler holds the handle that owns the sender;
- a crash restarts the instance at once with nothing in memory;
- no retention, so that a task's answers can be compared with its row.

### TaskStream

`stream` is each request's reads, position and deliveries, `wake` the receivers
with an unread signal, `owed` the tasks with a commit whose notify has not run.
Opening reads `latest_sequence` and then the task, in two steps, and the loop
subscribes before its first read; it then reads the log above its position, sends
event by event, and waits for a signal or the poll. A writer of another server
never notifies here: it is one whose notification does not come. The snapshot's
events are `floor`, the numbers delivered `got`. How an item becomes a frame of
each transport is left out.

### DurableQueue and LambdaRecovery

A job is named by its send, and so is the inline push config it registers. `queue`
says whether a record is stored, deleted or dead-lettered and how often it was
received; `worker` is an invocation that took one. The consumer's gates are
`Load` (task gone, unreadable or terminal) and `CheckMarker`; then
`run_queued_executor_job` with its emits and the post-execute commit.
`faults` counts errors, and remembers the ones that leave a task with nobody to
move it on. `LambdaRecovery` lifts each of these steps: a commit that writes the
marker starts the inline continuation, which may be frozen for good, and puts an
INSERT on the change stream. `Deployments` says which handlers a deployment runs.
The fan-out's deliveries and claims are `PushDelivery`'s.

### ServerBuild, RequestPath, Listings, ClientSession

`BuildRefusal` is the builders' checks in their order, `AgentCard` the card after
the merge. `Refusal(binding, db, server, request)` is the first refusal of a
request on its binding, from a sequence of checks in the order of the code; a
request departs from the plain call of its operation in one way at most, its
`twist`. `Encode` is what the binding makes of a refusal, `Decode` what a client
makes of the answer: `DecodeBody` and `DecodeStatus` are those of the HTTP and the
gRPC client, `DecodeResponse` is assumed of any JSON-RPC client, as the repository
has none. `PageOf` cuts a page the way each backend does. In
`ClientSession` a client discovers the card, sends a request with credentials, or
walks a listing while other clients write; a DynamoDB listing is a scan that
reads item by item.

Abstractions: what a turn does to a task between request and answer is
`TaskTurn`'s, here a send or a cancel leaves it in one of the states a turn can
leave it in, and `resolve_send_target`'s look at the registry is `TaskTurn`'s;
twists that exist on one binding only are outside `SameEverywhere`; a token is
good, bad or without a subject.

## 3. Runs

States and times are of one machine with two workers.

| Run | Instance | Shows | States |
|---|---|---|---|
| `store` | 1 task, 2 owners, 2 sinks, 1 item, 1 config, 4 events, 2 CAS attempts | one terminal at the end of the log, row and log agree, numbering, markers and leases survive rewrites, eligibility implies a marker, refinement of `TaskVerdict` | 760 k, 1 min |
| `locks` | 3 callers, push on, 2 CAS attempts | the only circle of waiting calls is `create_config` against a status commit, and short of it all calls return | 304 k, 2 min |
| `backends` | 3 callers, 1 config, 1 artifact, 4 events, 2 POSTs, each backend | what the contract is worth on each: numbering, compare-and-set, markers, manifests, fenced outcomes, cancel markers, renewed leases | 612 k, 1 min |
| `push_stalls` | 2 configs, 1 instance, 1 attempt, workers may pause anywhere, 1 crash, 1 failing claim call | attempts in budget, outcomes final, an owed delivery is recoverable | 3.4 M, 3 min |
| `push_settles` | 2 configs, one from its fan-out on or both from the claims a dead server left; 1 instance, 2 attempts, 1 fault of any store call, 1 crash, the smallest expiry the builder accepts | every owed delivery settles, how long a healthy worker keeps its claim | 373 k, 1 min |
| `turn_crash` | 1 send, 2 instances, cancel, artifact, lease and stall, crash, lost commit | a WORKING task is leased and does not stay WORKING, a blocking send is answered | 331 k |
| `turn_follow_up` | 3 sends (1 blocking), 1 instance, cancel, idle sweep, deadlines, 1 dropped request | answers are the stored terminal across turns, a running executor is the registered one | 2.1 M |
| `streams` | 1 task, 1 stream, 1 sink, 4 events, retention | nothing missed, no lost wake-up, ends on a true state, a terminal reaches an open stream | 1.3 M, 2 min |
| `durable` | 2 sends, 1 worker, 1 cancel, 2 receives, 1 fault, 3 deployments | a held task has a job, a run has its callback, a marked job does not run, turns move on, a marker is fanned out | 539 k, 2 min |
| `session` | 4 tasks, 3 configs, one deviation per server, one twist per request | the card tells the truth, bindings agree, walks are complete, nobody crosses owner or tenant | 775 k, 1 min |
| `turn_resumed` | 1 send that returns at once, 1 instance, cancel, an executor that interrupts and resumes | **violated by the code**: an aborted executor keeps its lease | |
| `stream_loop` | 1 send, stream worker and inline continuation, no fault | **violated by the code**: recovery does not come to rest | |

The runs whose cfg has `CHECK_DEADLOCK FALSE` model work that finishes: one event's
delivery, or a fixed set of requests or calls. The store and the locks never stop.

### The findings

`turn_resumed` violates `WorkingIsLeased`. The sink tells the handle who holds the
task after the store's commit returned (`event_sink.rs:381`). An executor asks for
input, then sets WORKING itself; a cancel's deferred abort lands when the store
has taken that commit and its answer is on the way. The handle still says that the
client holds the task, so the supervisor takes the turn for ended
(`server/spawn.rs:250`) and clears the lease of a WORKING task. If the server dies
before the cancel commits, no reaper finds it. `server/spawn.rs:243-246` says that
an aborted executor keeps its lease "so the reaper fails the task if the
framework's terminal commit never lands".

`stream_loop` violates `RecoveryQuiesces`. `try_redispatch_pending` refreshes the
marker with an unconditional put (`push/dispatcher.rs:467`,
`storage/dynamodb.rs:3846`). When the fan-out of the committing invocation has
deleted the marker by then, the refresh is an INSERT of the change stream; the
stream worker takes it, refreshes after its own last fan-out deleted it, and so
on. `stream_recovery.rs:68-72` expects a MODIFY there, and
`ADR-013-lambda-push-delivery-parity.md:362` an insert-only marker. Claims make
every repetition harmless; the loop is one of work, not of deliveries.

### What else the models show

Disagreements between code and text, or behaviours a reader would not expect,
met while modelling. Where the code does not keep a promise, the property is stated
where it does. Where a comment contradicts a property that holds, the code is what
the model translates: the header of `grpc/error.rs` (11-13) says that auth failures
carry no ErrorInfo, `SameEverywhere` needs that they do, and `grpc/auth.rs:176`
attaches it. The ones marked (x) were found as counterexamples when the bound or the
constant named was changed; the others follow from reading.

*Store and backends*

- With push on, `create_config` holds `tasks` and awaits `push_configs`
  (`storage/in_memory.rs:777`, `795`) while a status commit holds `push_configs` and
  awaits `tasks` (`1189`, `1193`), against the "consistent order" of the comments
  at `1174-1180`: the two can wait for each other, and do in `locks`.
  `NoOtherCircle`, checked and proved, says that this pair is the only one, and
  `CallsReturn` excepts what waits for ever behind it.
- A sink's whole-task write (`event_sink.rs:449`) drops a message that another
  instance appended since its read; `commit_lock` (`18-20`, `424-425`) is per sink.
- In the persistent backends `append_message` takes no account of a terminal
  status, and its write of the whole row can put an earlier status back
  (`ADR-028:17`). `OnlyMessagesRevive` says that no other call does.
- PostgreSQL and DynamoDB validate a transition against a row that may be stale;
  the compare-and-set excludes terminal rows only. A DynamoDB status write also
  puts back the manifest and the messages it read, and an `append_message` that
  races a sink loses one of the two contents.
- `build_task_item` of DynamoDB does not name `cancelRequested`: a write of the
  task removes the marker (`storage/dynamodb.rs:994`), so that its cancel listing
  no longer finds the task. `CancelStaysListed` is stated for the SQL backends.
- Eligibility without a marker, and a manifest entry without its body
  (`storage/artifacts.rs:134`), are possible on PostgreSQL and DynamoDB: the floor
  and the manifest are read without a lock. `SqliteEligibleHasMarker` and
  `SqliteManifestHasBodies` hold on SQLite; `KnownConfigsGetMarker` is what holds
  on all three.
- The SQL backends number from `MAX + 1` of the log, so numbers are used again
  after retention has emptied it (`storage/event_store.rs:17`); DynamoDB's counter
  item has a TTL of its own (`dynamodb.rs:884`). `NumbersOnlyGrow` is stated while
  retention has left the numbering alone.
- A terminal task's artifact bodies keep their TTL when `append_message` revives
  the task, against "never while it is live" (`dynamodb.rs:479-482`).
- DynamoDB's `list_configs`, eligibility scan and `get_events_after` read one page;
  the cancel listing ignores unprocessed keys of its batch read;
  `record_delivery_outcome` answers Ok to a stale claim when the row is final.
- The SQL `list_tasks` skips rows that fail decoding without a word and counts
  and selects in two statements; the SQL sweep listings have a LIMIT and no ORDER
  BY; when the row cannot be rebuilt after a committed status write, the call
  returns an error though the commit stands.

*Turns*

- The supervisor leaves the registry before it clears the lease
  (`server/spawn.rs:251`, `255`), so a follow-up on the same instance can stamp its
  lease in between and lose it; `ADR-029:42` allows this for another instance only
  (x, `turn_follow_up` with the lease loop on violates `WorkingIsLeased`). It takes
  two turns, so `turn_crash`, which has one, establishes `WorkingIsLeased` and
  `WorkingEnds` for a task's first turn only. This and the finding above are the
  only ways to lose the lease: the lemma `OrderlyKeepsLease` of `TaskTurnProofs`
  excludes nothing else.
- Two accepted follow-ups can collide in the registry (`server/spawn.rs:176`): the
  loser leaves the task WORKING with no lease and no executor, where `ADR-029:42`
  and `CHANGELOG:218` promise a lease on every WORKING task.
- A terminal may land between `BeginTurn` and `CommitWorking`: the follow-up is
  refused with its message in the task (`router.rs:944`, against the comment at
  `router.rs:834`).
- The branch for a dropped `yielded` sender (`router.rs:1411`) cannot be reached
  while the handler waits, because the handler holds the handle that owns the
  sender; the deadlines answer instead.
- Three windows are accepted by the ADRs: the reaper and the watchdog list, then
  commit (ADR-029); the idle sweep lists, then commits (ADR-026); a task is
  SUBMITTED without a lease until its turn is under way (ADR-029).

*Push*

- The smallest `push_claim_expiry` the builder accepts (`server/mod.rs:717`) leaves
  out the time of the POSTs, so a healthy worker can be overtaken in the middle of
  its retries, against the comment at `709-714` ("never mis-classified as stale
  mid-retry"). `push_settles` runs with that expiry, and workers are overtaken in
  it. `HealthyClaimLasts` says when at the earliest; what is promised all the same,
  the budget and the settling, is checked there. Lambda's retry horizon leaves out
  the request timeouts likewise.
- A claim call that fails is skipped like a refused one. "The dispatcher retries on
  the next tick", says the comment at `push/delivery.rs:933-934`, but the fan-out
  deletes the marker behind it (`push/dispatcher.rs:310`), and no tick has
  anything to retry from: that delivery is lost. The model records it in `lost`;
  `OwedIsRecoverable` and `EveryDeliverySettles` except exactly that.

*Streams*

- The snapshot is read after the position and may be newer, so an event it
  already reflects is delivered again; when that is an old INPUT_REQUIRED, the
  stream closes though the task is WORKING again.
- `TaskEventBroker::remove` is never called; a stream on a task that retention
  removed, or that nobody settles, polls for as long as its consumer stays.

*Durable queue*

- A cancel marker that cannot be read counts as absent
  (`turul-a2a-aws-lambda/src/durable.rs:201-205`); an error of the last commit is
  acknowledged and leaves the task WORKING; the error of `delete_pending_dispatch`
  is dropped; an enqueue that timed out may have stored its record.
- A record that is delivered again after its run ended in INPUT_REQUIRED runs
  again, and a stale job of turn 1 runs in turn 2 (`ADR-018:264`).
- Without a recovery handler the inline fan-out can be lost with its invocation.

*Requests*

- `LambdaA2aServerBuilder::build` neither merges the middleware's contributions
  into the card nor validates references, against `ADR-007:102` ("AgentCard always
  reflects actual auth configuration"). `AdvertisedCredentialsAdmit` and
  `PublishedRequirementsResolve` are about the long-lived server.
- The merge keeps the executor's own definition of a scheme name that a layer
  contributes (`server/mod.rs:896-909`), and the executor's own requirements become
  alternatives nobody enforces.
- `ADR-007:19` gates the extended card on `is_authenticated`; the code checks the
  capability only. `NoStreamingLayer` is exported and never wired.
- The client's `path_segment` encodes "/", but the wildcard is decoded before
  `parse_task_path` splits it; a tenant named "tasks" is unreachable over HTTP.
- JSON-RPC cuts the `pageSize` of a config listing to i32 and answers a
  notification whose extension is refused; the frame of an SSE error loses its
  reason in the client; an HTTP query rejection is plain text without a reason;
  the gRPC client cannot send `A2A-Extensions` nor page a config listing; a client
  with one credential cannot meet a requirement of two schemes. The header of
  `grpc/error.rs` says auth failures carry no ErrorInfo, `grpc/auth.rs` attaches it.

## 4. Bounds

- `MaxSeq` bounds a task's events. Four let a task be created, worked on, given
  an artifact or interrupt, and settled. In `TaskTurn` and `DurableQueue` it leaves
  room for the WORKING of every send and one terminal; emits that would use the
  last numbers are cut, store writes that decide a turn never are.
- Two sinks (`Writers`) are enough for a stale replacement to meet another one;
  two owners for the owner check.
- `backends`: a race is between two calls, the third sets its scene or sweeps after
  it. Listings choose among rows of one task: any of them may be old enough, and
  LIMIT and pages are left to `session`. `MaxPosts` 2 allows a retry.
- Two instances are the smallest number that lets a peer reap what a crashed server
  left. In `push_stalls` one is enough: its sweep overtakes its own fan-out's workers.
- `MaxGeneration` 2 to 4: one claim and one to three reclaims; a worker is stale
  against a newer generation from 2 on.
- `MaxFaults`, `MaxCrashes`, `MaxLost`, `MaxDrops` are 1 where they are on: each
  property is about recovering from one failure at any point.
- `MaxAttempts` is 1 or 2: a retry exists, and its budget can be exhausted. The
  ticks of `BackoffCap`, `RequestTimeout` and `ClaimExpiry` keep the order of the
  real values: in `push_settles` the expiry is the smallest the builder accepts,
  above the sleeps and below POSTs and sleeps together, so that a healthy worker
  can be overtaken; in `push_stalls` a worker that pauses is overtaken at once.
- `push_settles` needs two configs for a claim to age behind the redispatch of
  another. It has them from `AfterCrash` on, where that race begins; from the
  event on it has one.
- `turn_resumed` has only what its counterexample needs.
- `turn_crash` has one turn: two instances, both loops that recover a turn, and
  every failure, at any point of it. `turn_follow_up` has three sends because a
  collision needs a turn that is interrupted and two that follow it.
- `durable`: `MaxReceives` 2 is one redelivery and then the dead letters;
  `MaxInserts` 2 a record taken and one behind it. `MCInit` checks follow-ups
  without recovery handlers and recovery with one send: the handlers look at the
  marker only.
- `session`: four task ids and page sizes 1 and 2 give walks of several pages with
  ties (`MaxTime` 3) and two writes in between; a server deviates from a plain one
  in one way and a request from a plain call in one way, against every card and
  credential, because a refusal is the first failing check.
- Symmetry is used on interchangeable sets only, and not with liveness.

## 5. Fairness

Only what the runtime does by itself is fair: tokio polls a task that can go on
(weak fairness of each caller, worker, job, supervisor, wait), a timer that was
armed fires, an interval ticks, a POST ends by its timeout. Nothing fair is
assumed of clients, executors (one may hang for ever), cancels, crashes, faults
or retention. In `StoreLocks` a caller's next lock step is fair and its queue is
FIFO, which is tokio's documented policy. In `TaskTurn` a lease that nobody
renews lapses, and the reaper's next tick comes. In `TaskStream` the spawned loop
and its poll are fair; commits, notifications and consumers are not, so
`TerminalReachesStream` rests on the poll alone. In `LambdaRecovery` a visible
record is delivered, an invocation ends (the platform kills one that does not),
the tick is scheduled and a marker ages; the inline continuation and a cancel may
stop anywhere.

## 6. What is proved

All constants are arbitrary within the named `ASSUME`s of the modules: finite or
infinite sets of tasks, sinks, configs, sends, cancels, invocations, instances,
streams and callers, any bounds.

`TaskStoreProofs` (from `BoundsAssumption`, `PushAssumption`):

- `TypeCorrect`: `Spec => []TypeOK`.
- `TerminalEndsLogAlways`, `FloorIsCounterAlways`, `EligibleHasMarkerAlways`.
- `LogOnlyGrowsAlways` and `MarkersSurviveAlways`, from the invariant at each step.
- `StoreImplementsVerdict`: the store refines `TaskVerdict` under
  `life <- LifeOf`; each step maps to opening, settling, removing or a stutter.

The inductive invariant `IInv` adds three facts to those promises, because none of
them is inductive alone. `SeqsBelowCounter`: no event is above its counter, so the
next one is the last. `RowsCounted`: a row has had an event, so a key with
counter 0 is new. `SnapshotsBehindRows`: a sink that read a terminal can only find
the row terminal (or gone) later, so a stale replacement that passes the terminal
check carries no terminal status. `EligibleHasMarker` needs `FloorIsCounter` for
the compare in phase two of `create_config`.

`TaskTurnProofs` (in addition `TaskAssumption`, `LeaseAssumption`,
`TurnAssumption`):

- `TurnRunsOnStore`: `TurnSpec => Spec`. Each action is a store call or leaves the
  store alone, so every theorem above holds of the turns; `TurnEndsLogOnce` is
  the first consequence.
- `TurnTypeCorrect` and `AnswerIsVerdictAlways`. `TurnInv` is `IInv` and, for each
  place a terminal can be on its way to a client (`stored`, `yielded`, a send's
  or a cancel's answer), that the row has it (`Kept`); a send that is under way
  has its task (`Driving(s) => Present(Task)`). `StoreStepKeeps` shows that no
  store call takes a terminal back, which is the heart of the step.
- `RunningIsRegisteredAlways`, from `TurnTypeCorrect` and the facts that a request
  never changes its instance (`StaysPut`) and that only `Spawn` starts an executor.
- `FirstTurnIsLeased`: with one send, whose executor does not set WORKING itself,
  a WORKING task is leased, for any number of instances, cancels and failures and
  with no assumption about their order. It rests on the lemma `OrderlyKeepsLease`:
  for any number of turns, only two steps lose a lease (section 3), a turn that
  begins while another's send or supervisor is still at it, and an abort between a
  resumption's commit and its flag. Neither exists in a first turn; the
  counterexamples of `turn_resumed` and of `turn_follow_up` with the lease loop show
  that later ones have both. The inductive `LeaseInv` says, of each turn, what its flags
  mean for the task (`FlagsAt`: a turn whose handle claims an end has a task that
  is not WORKING, unless a commit is still being answered), what a write under way
  may do to it (`ReadAt`), and that who drives or runs the turn has stamped the
  lease (`LeaseAt`); that a reaper clears a lease only after the task settled; and
  that at most one turn is not over (`OneTurn`).

`TaskStreamProofs` (`StreamTypeCorrect`, `NothingMissedAlways`,
`EndsOnVerdictAlways`, `NoLostWakeupAlways`) keeps `StreamInv`: a log has one event
per number (`SeqsUnique`), and of each stream (`GoodAt`) every event between its
snapshot and its position is delivered (`Covered`), the batch at hand is all there
was between the position and its newest event (`BatchGood`), an event it has not
read has a signal or a notification under way (`Signalled`), and the state it saw
last is a verdict the task keeps (`Kept`).

`DurableQueueProofs` (from `DurableAssumption` and `RecoveryAssumption` besides the
store's) is about `LambdaSpec`, so the recovery handlers and retention run beside
the queue:

- `LambdaTypeCorrect`.
- `HeldHasJobAlways`. The promise alone is not inductive: a job that is still stored
  may have been run already, by a delivery about to acknowledge it. `Anchor` names
  who really moves a held task on: a request past its WORKING, a dead letter, or a
  stored record of which no delivery is through its run (`Fresh`). A refused commit
  cannot end a run on a held task, because from WORKING every status an executor may
  emit is valid, and no job is there while the task is SUBMITTED (`DeliveryPart`).
- `ExecutorHasCallbackAlways`, from `RequestPart`: a job is queued behind its
  configuration, which nothing then removes, and every floor is at most the counter.
- `MarkedJobNeverRunsAlways`, from `MarkIsMet`, which says for each place of a marked
  delivery what it will meet at its check; that the marker stays is `StoreMoves`.

`RequestKeeps` and `WorkerKeeps` reduce a step to the part of the request or the
delivery that makes it, and to who moves the task on; `QuietKept` covers the steps
that move the store alone.

`PushDeliveryProofs`:

- `DeliveryTypeCorrect`, `AttemptsWithinBudgetAlways` and `OutcomeIsFinalAlways`
  from `ClaimInv`: generations only grow, the one a worker holds names it alone
  (`OneHolder`), and while the row is still under it worker and row agree on the
  attempts made (`CountsAgree`).
- `OwedIsRecoverableAlways`, with any store call failing: `Accounted` says that an
  owed config has its claim row, its marker, or a failed claim call (`lost`) behind
  it. A fan-out that is about to join covers every owed config by one of them or by
  a worker that has not claimed yet (`JoinCovers`, `LeavesClaimed`).
- `HealthyClaimLastsAlways`, for every expiry: the time a claim has run never exceeds
  the POSTs and sleeps its worker has made since it claimed (`Timely`, `SpentAt`,
  `Rounds`), so no sweep finds it expired before these can have filled the expiry.

`StoreLocksProofs`, `NoOtherCircleAlways`, push on or off. There are two orders of
the locks, `RowsFirst` and `ConfigsFirst`, and every plan climbs at least one of them:
it takes a lock above all it holds (`Climbs`, `PlansClimb`). `create_config` climbs
`RowsFirst` and breaks `ConfigsFirst` only when it asks for `push_configs`; a status
commit the reverse. So in a circle without both of these waits every caller climbs
the same order. A caller is in each queue at most once (`OnePlace`), and queues are
served from the front: of the set, take one that waits for the highest lock, the
first of them in its queue. What it waits for is held, or waited for ahead of it, by
none of the set (`ClimbersMove`), and it is no circle.

`BackendsProofs` is about any number of callers, configs and artifacts on any of the
three backends. `StoreStep` names the kinds of steps a store can make: a call
only reads, commits an event, replaces the task, marks a cancel, writes a config or
a lease, takes or settles a claim, or something ages. `SqliteSteps`, `PostgresSteps`
and `DynamoSteps` show that each database operation is of one of these kinds, so
that what holds of all three is proved once.

- `BackendsTypeCorrect`: `RowsInv` is the type invariant, what each call has read so
  far (`CallsGood`), and that no logged number is above the highest (`LogGood`).
- Action properties on every backend: `NumbersOnlyGrowAlways`,
  `KnownConfigsGetMarkerAlways`, `OnlyMessagesReviveAlways`,
  `SweepKeepsRenewedLeaseAlways`, `OutcomesAreFencedAlways`.
- `CancelStaysListedAlways`, on the SQL backends: no write of a task, whatever it read
  before, takes a cancelled task off the listing unless it settles it (`CancelKept`).
- `SqliteEligibleHasMarkerAlways`, `SqliteManifestHasBodiesAlways`, from `SqliteInv`:
  a config's floor is at most the last number (`FloorCovers`), a terminal event has
  its marker if a config has a lower floor (`MarkerCovers`), and the manifest agrees
  with the bodies (`BodiesCover`).

`ClientSessionProofs` is about `Spec`, of which `MCSession` checks a choice of initial
states: any stack of layers, any card, any well-formed request and table, any number
of tasks, pages and writes. It assumes `BuildersAssumption`, `ProbesAssumption` and
`TablesAssumption`, which say that builders, requests and tables have their shape, and
`PagesAssumption`: ids are numbers, and a page has at least one row (task listings
refuse another size, `storage/filter.rs:49-57`, config listings replace it, 19-24).

- `SessionInvAlways`: the server is one the build accepts, the client holds its
  card, a cursor is a row or none, what a scan has read is still the caller's or
  gone, and a plain request is refused its credentials exactly when they fail the
  stack.
- `OnlyOwnAlways`: what is let through has a visibility check in its core path
  (`CoreSees`, `SendSees`) and an owner the stack vouches for (`OwnerIs`).
- `SameEverywhereAlways`: the first refusal of a path is that of its parts in turn
  (`PathsJoin`); of the checks only one binding has, none fails without that binding's
  twist, so each path comes down to the same four shared checks and the core (`RefusalIs`), and
  a client hears the same of a refusal on each (`HeardIs`).
- `PublishedRequirementsResolveAlways` and `AdvertisedCredentialsAdmitAlways`: a stack
  lets pass whoever satisfies a leaf of each layer (`StackVerdictIs`), and the merged
  card offers, for each choice of a leaf per layer, their joint requirement
  (`JoinIs`, `MergeIs`), under schemes that do not collide (`SchemeIs`).
- `WalkIsCompleteAlways`: whichever way a backend cuts it, a page is the rows past the
  cursor up to the next one, none twice (`PageIs`, from the sorting in `SortedIs`).
  The inductive `WalkInv` says that the rows that stayed in place are listed up to the
  cursor and not after it (`SoFar`), that a scan still meets them or has read them
  (`ScanMeets`), and that the page on its way serves the rest (`PageServes`).

## 7. Model-checked only

Liveness under fairness (`CallsReturn`, `EveryDeliverySettles`, `WorkingEnds`,
`SendsAnswered`, `TerminalReachesStream`, `TurnsMoveOn`, `DispatchHappens`) is out of
the prover's reach, as is anything about ENABLED. `WorkingIsLeased` does not hold of
`TurnSpec` without more: it is proved and checked for a task's first turn, and
`turn_resumed` shows it violated elsewhere. The type invariants `TypeCorrect`,
`TurnTypeCorrect`, `DeliveryTypeCorrect`, `StreamTypeCorrect`, `LambdaTypeCorrect` and
`BackendsTypeCorrect` are proved and not run again.

## 8. Not modelled, and what could follow

- SSRF guard and secrets (`push/ssrf.rs`, `push/secret.rs`): pure predicates and
  wrappers. Payload size and HTTP detail of a POST.
- Wire types and generated code (`turul-a2a-proto`, `turul-a2a-types`); the frames
  of a stream; path parsing; `compat_v03.rs`, a feature that is off by default.
- The conversion of API Gateway, ALB and axum requests, and Lambda's dispatch by
  event shape.
- Store methods without a production caller (`create_task`, `update_task`,
  `update_task_status`, `append_artifact`, `append_event`).
- In the backends: owner and tenant columns (`session` has them), rows that fail
  decoding, pages of one scan, and the best-effort TTL on the bodies of a revived
  task. Of DynamoDB's eventually consistent reads, the config scan has its delay
  (`Settled`), and the listings that remain are read as they are stored. The
  listings of idle tasks, of expired leases on the SQL backends and of cancelled
  tasks on DynamoDB are left out: no property depends on them.
- `turul-a2a-patterns` and the examples, which are uses of the above.

What could be proved next: `WorkingIsLeased` for sends of the same task that overlap,
under the weakest order of their leases and commits that keeps it.
