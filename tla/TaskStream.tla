------------------------------ MODULE TaskStream ------------------------------
(***************************************************************************)
(* The streams behind SendStreamingMessage and SubscribeToTask, over the   *)
(* store: the handler reads the log's last number and then the task, takes *)
(* a wake-up receiver, and a spawned loop delivers what the log holds      *)
(* above that number until a state that closes the stream.  The broker's   *)
(* signal carries nothing; every delivery is a read of the log.            *)
(*                                                                         *)
(* Writers commit through TaskStore's actions and notify afterwards.  A    *)
(* writer of another server never notifies here: it is one whose           *)
(* notification does not come, and notifications are not fair.             *)
(***************************************************************************)
EXTENDS TaskStore

CONSTANT Streams   \* streaming requests

VARIABLES
  stream,  \* each request: its reads, its position and what it delivered
  wake,    \* receivers holding an unread signal
  owed     \* tasks with a commit whose notify has not run

streamVars == <<vars, stream, wake, owed>>

\* opening: between latest_sequence and get_task; snapshot: before subscribe;
\* reading, delivering, waiting: the loop, before its read, its sends, its select.
StreamPc == {"idle", "opening", "snapshot", "reading", "delivering", "waiting",
             "ended", "refused"}

StreamRow == [pc: StreamPc, kind: {"send", "subscribe"}, task: Tasks,
              floor: Nat,                       \* the newest event in the snapshot
              last: Nat,                        \* last_seq, first the log's latest_sequence
              batch: SUBSET Event,              \* events read and not yet sent
              got: SUBSET (Nat \ {0}),          \* numbers delivered
              seen: TaskState \cup {"none"},    \* newest state delivered
              gone: BOOLEAN,                    \* the consumer left
              error: BOOLEAN]                   \* a storage error was the last item

StreamTypeOK ==
  /\ stream \in [Streams -> StreamRow]
  /\ wake \subseteq Streams
  /\ owed \subseteq Tasks

StreamInit ==
  /\ Init
  /\ stream \in [Streams ->
       {[pc |-> "idle", kind |-> k, task |-> t, floor |-> 0, last |-> 0,
         batch |-> {}, got |-> {}, seen |-> "none", gone |-> FALSE, error |-> FALSE] :
           k \in {"send", "subscribe"}, t \in Tasks}]
  /\ wake = {}
  /\ owed = {}

\* (mutant) Every interrupt closes the stream.
ClosesStreamOnInterrupt(state) == state \in TERMINAL_STATES \cup CLIENT_HELD_STATES

ClosesStream(state) == state \in TERMINAL_STATES \/ state = "InputRequired"

\* The loop runs.
Live(s) == stream[s].pc \in {"reading", "delivering", "waiting"}

Move(s, pc) == stream' = [stream EXCEPT ![s].pc = pc]

-------------------------------------------------------------------------------
(* The writers *)

\* The calls that change what a stream reads.  Every writer of an event notifies
\* the task's channel after its commit.
Write ==
  \/ \E t \in Tasks, o \in Owners, i \in Items : CreateTaskWithEvents(t, o, i)
  \/ \E t \in Tasks, o \in Owners, status \in TaskState : UpdateTaskStatusWithEvents(t, o, status)
  \/ \E w \in Writers : SinkCall(w)
  \/ \E t \in Tasks, n \in 1..MaxSeq : CleanupTask(t) \/ CleanupEvents(t, n)

StoreWrite ==
  /\ Write
  /\ owed' = owed \cup {t \in Tasks : event_counters'[t] # event_counters[t]}
  /\ UNCHANGED <<stream, wake>>

\* (mutant) A receiver is taken when the stream first waits.
NotifyWaiting(t) ==
  /\ t \in owed
  /\ owed' = owed \ {t}
  /\ wake' = wake \cup {s \in Streams : stream[s].task = t /\ stream[s].pc = "waiting"}
  /\ UNCHANGED <<vars, stream>>

\* TaskEventBroker::notify reaches the receivers subscribed by then.
Notify(t) ==
  /\ t \in owed
  /\ owed' = owed \ {t}
  /\ wake' = wake \cup {s \in Streams : stream[s].task = t /\ Live(s)}
  /\ UNCHANGED <<vars, stream>>

-------------------------------------------------------------------------------
(* Opening a stream *)

\* latest_sequence.  A send stream is opened by a turn that has just committed
\* WORKING; only a cancel or another framework terminal can have come since.
ReadSequence(s) ==
  LET t == stream[s].task
  IN  /\ stream[s].pc = "idle"
      /\ stream[s].kind = "send" =>
           Present(t) /\ (tasks[t].status = "Working" \/ Terminal(t))
      /\ stream' = [stream EXCEPT ![s].pc = "opening", ![s].last = event_counters[t]]
      /\ UNCHANGED <<vars, wake, owed>>

\* get_task: TaskNotFound for an unknown or foreign task, UnsupportedOperation
\* for a subscription to a terminal one.
ReadSnapshot(s, o) ==
  LET t == stream[s].task
      refused == ~OwnedBy(t, o) \/ (stream[s].kind = "subscribe" /\ Terminal(t))
  IN  /\ stream[s].pc = "opening"
      /\ stream' = [stream EXCEPT
           ![s].pc = IF refused THEN "refused" ELSE "snapshot",
           ![s].floor = IF refused THEN 0 ELSE tasks[t].latest_event_sequence,
           ![s].last = IF refused THEN 0 ELSE @,
           ![s].seen = IF refused THEN "none" ELSE tasks[t].status]
      /\ UNCHANGED <<vars, wake, owed>>

\* (mutant) The task is read first, then the number to resume from.
ReadSequenceLate(s) ==
  LET t == stream[s].task
  IN  /\ stream[s].pc = "snapshot"
      /\ stream' = [stream EXCEPT
           ![s].pc = IF ClosesStream(stream[s].seen) THEN "ended" ELSE "reading",
           ![s].last = event_counters[t]]
      /\ UNCHANGED <<vars, wake, owed>>

\* event_broker.subscribe, then the spawned loop sends the snapshot and returns
\* when its state closes the stream.
Subscribe(s) ==
  /\ stream[s].pc = "snapshot"
  /\ Move(s, IF ClosesStream(stream[s].seen) THEN "ended" ELSE "reading")
  /\ UNCHANGED <<vars, wake, owed>>

-------------------------------------------------------------------------------
(* The loop *)

\* get_events_after: what the log holds above last_seq.
Unread(s) == {e \in events[stream[s].task] : e.seq > stream[s].last}

ReadEvents(s) ==
  /\ stream[s].pc = "reading"
  /\ stream' = [stream EXCEPT ![s].pc = "delivering", ![s].batch = Unread(s)]
  /\ UNCHANGED <<vars, wake, owed>>

\* A storage error is the last item.
ReadEventsFails(s) ==
  /\ stream[s].pc = "reading"
  /\ stream' = [stream EXCEPT ![s].pc = "ended", ![s].error = TRUE]
  /\ UNCHANGED <<vars, wake, owed>>

\* Delivery stops behind the first event that closes the stream.
Deliverable(batch) ==
  {e \in batch : \A c \in batch : ClosesStream(c.state) => c.seq >= e.seq}

Newest(es) == CHOOSE e \in es : \A f \in es : f.seq <= e.seq

\* The newest state among what the consumer has; an artifact carries none.
NewestState(es, known) ==
  LET states == {e \in es : e.state # "Artifact"}
  IN  IF states = {} THEN known ELSE Newest(states).state

\* Each event of the batch is sent, up to a closing one.  The first send to a
\* consumer that left ends the loop, and only a send notices.
Deliver(s) ==
  LET es == Deliverable(stream[s].batch)
      fails == stream[s].gone /\ es # {}
  IN  /\ stream[s].pc = "delivering"
      /\ stream' = [stream EXCEPT
           ![s].pc = IF fails \/ (es # {} /\ ClosesStream(Newest(es).state))
                     THEN "ended" ELSE "waiting",
           ![s].batch = {},
           ![s].last = IF es = {} THEN @ ELSE Newest(es).seq,
           ![s].got = IF fails THEN @ ELSE @ \cup {e.seq : e \in es},
           ![s].seen = IF fails THEN @ ELSE NewestState(es, @)]
      /\ UNCHANGED <<vars, wake, owed>>

\* recv: a signal, or Lagged, which also leads to a read.
Woken(s) ==
  /\ stream[s].pc = "waiting"
  /\ s \in wake
  /\ wake' = wake \ {s}
  /\ Move(s, "reading")
  /\ UNCHANGED <<vars, owed>>

\* (mutant) No backstop poll.
PollNever(s) == FALSE /\ UNCHANGED streamVars

\* STORE_POLL_INTERVAL elapsed.
Poll(s) ==
  /\ stream[s].pc = "waiting"
  /\ Move(s, "reading")
  /\ UNCHANGED <<vars, wake, owed>>

\* The consumer drops the response.
ConsumerLeaves(s) ==
  /\ Live(s)
  /\ ~stream[s].gone
  /\ stream' = [stream EXCEPT ![s].gone = TRUE]
  /\ UNCHANGED <<vars, wake, owed>>

-------------------------------------------------------------------------------
Open(s) == ReadSequence(s) \/ (\E o \in Owners : ReadSnapshot(s, o)) \/ Subscribe(s)
Loop(s) == ReadEvents(s) \/ ReadEventsFails(s) \/ Deliver(s) \/ Woken(s) \/ Poll(s)

StreamNext ==
  \/ StoreWrite
  \/ \E t \in Tasks : Notify(t)
  \/ \E s \in Streams : Open(s) \/ Loop(s) \/ ConsumerLeaves(s)

\* The loop is a spawned task and its sleep ends; a request, a write, a
\* notification or a departure need not come.
StreamSpec ==
  /\ StreamInit /\ [][StreamNext]_streamVars
  /\ \A s \in Streams :
       /\ WF_streamVars(ReadEvents(s) \/ ReadEventsFails(s))
       /\ WF_streamVars(Deliver(s))
       /\ WF_streamVars(Poll(s))

-------------------------------------------------------------------------------
(* What a stream promises *)

\* The two reads of the opening are not atomic, yet nothing falls between them:
\* every event up to the stream's position that is still in the log was either
\* in the snapshot or delivered.
NothingMissed ==
  \A s \in Streams : stream[s].pc \in {"reading", "waiting", "ended"} /\ ~stream[s].gone =>
    \A e \in events[stream[s].task] :
      e.seq > stream[s].floor /\ e.seq <= stream[s].last => e.seq \in stream[s].got

\* A stream that ended by itself tells its consumer how the task stands: the
\* state it closed on is the verdict, or the client's turn, and a terminal one
\* is what the row still reports.
EndsOnVerdict ==
  \A s \in Streams :
    stream[s].pc = "ended" /\ ~stream[s].gone /\ ~stream[s].error =>
      /\ stream[s].seen \in TERMINAL_STATES \cup {"InputRequired"}
      /\ stream[s].seen \in TERMINAL_STATES /\ Present(stream[s].task) =>
           tasks[stream[s].task].status = stream[s].seen

\* The receiver is taken after the snapshot was read and before the first read
\* of the log, so a commit of this server is never left for the poll: a stream
\* that waits without a signal has read everything that was notified.
NoLostWakeup ==
  \A s \in Streams :
    stream[s].pc = "waiting" /\ s \notin wake /\ stream[s].task \notin owed => Unread(s) = {}

\* A terminal event reaches every stream that is open, with or without a
\* signal, unless retention takes it first.
TerminalReachesStream ==
  \A s \in Streams :
    (Live(s) /\ \E e \in Unread(s) : e.state \in TERMINAL_STATES)
      ~> (~Live(s) \/ TerminalEvents(stream[s].task) = {})
===============================================================================
