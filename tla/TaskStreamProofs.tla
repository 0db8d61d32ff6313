---------------------------- MODULE TaskStreamProofs ----------------------------
(***************************************************************************)
(* TLAPS proofs about TaskStream, for any number of streams, tasks and     *)
(* writers: nothing between a stream's snapshot and its position is missed,*)
(* a stream ends on how its task stands, and no signal is lost.  GoodAt    *)
(* relates a stream's position and its batch to the log, which changes     *)
(* under it; from the store come the numbering of the log, the verdict     *)
(* that is never revised, and that no two events share a number.           *)
(***************************************************************************)
EXTENDS TaskStream, TaskStoreProofs, WellFoundedInduction

-------------------------------------------------------------------------------
(* The newest event of a batch *)

\* A set of natural numbers with an element has a least one.
LEMMA Least ==
  ASSUME NEW T \in SUBSET Nat, T # {}
  PROVE  \E x \in T : \A y \in T : x <= y
<1> DEFINE R == {ss \in Nat \X Nat : ss[1] < ss[2]}
<1>1. IsWellFoundedOn(R, Nat)
  BY NatLessThanWellFounded, Zenon DEF OpToRel
<1>2. PICK x \in T : \A y \in T : <<y, x>> \notin R
  BY <1>1, WFMin, Zenon
<1>3. \A y \in T : x <= y \/ <<y, x>> \in R
  OBVIOUS
<1>4. QED
  BY <1>2, <1>3, Zenon

\* Events below a number have a newest one.
LEMMA NewestIs ==
  ASSUME NEW es \in SUBSET Event, es # {}, NEW n \in Nat, \A e \in es : e.seq <= n
  PROVE  Newest(es) \in es /\ \A f \in es : f.seq <= Newest(es).seq
<1> DEFINE T == {n - e.seq : e \in es}
<1>1. \A e \in es : e.seq \in Nat
  BY DEF Event
<1>2. T \in SUBSET Nat /\ T # {}
  BY <1>1
<1>3. PICK x \in T : \A y \in T : x <= y
  BY <1>2, Least
<1>4. PICK e \in es : x = n - e.seq
  BY <1>3
<1>5. ASSUME NEW f \in es
      PROVE  f.seq <= e.seq
  <2>1. n - f.seq \in T
    OBVIOUS
  <2>2. n - e.seq <= n - f.seq
    BY <1>3, <1>4, <2>1
  <2>3. QED
    BY <1>1, <2>2
<1>6. QED
  BY <1>5, Zenon DEF Newest

\* The first closing event of a batch.
LEMMA FirstClosing ==
  ASSUME NEW es \in SUBSET Event, NEW c \in es, ClosesStream(c.state)
  PROVE  \E d \in es : /\ ClosesStream(d.state)
                       /\ \A e \in es : ClosesStream(e.state) => d.seq <= e.seq
<1> DEFINE closing == {e \in es : ClosesStream(e.state)}
           T == {e.seq : e \in closing}
<1>1. T \in SUBSET Nat /\ T # {}
  BY DEF Event
<1>2. PICK x \in T : \A y \in T : x <= y
  BY <1>1, Least
<1>3. PICK d \in closing : x = d.seq
  BY <1>2
<1>4. \A e \in closing : e.seq \in T
  OBVIOUS
<1>5. QED
  BY <1>2, <1>3, <1>4

-------------------------------------------------------------------------------
(* The log under a stream *)

SeqsUnique ==
  \A t \in Tasks : \A e, f \in events[t] : e.seq = f.seq => e = f

\* No event announces another verdict than the task keeps.
Kept(t, state) == state \in TERMINAL_STATES => LifeOf(t) \in {state, "removed"}

LEMMA WriteIsNext == Write => Next
<1> SUFFICES ASSUME Write PROVE Next
  OBVIOUS
<1>1. CASE \E t \in Tasks, o \in Owners, i \in Items : CreateTaskWithEvents(t, o, i)
  BY <1>1 DEF Next, TaskCall
<1>2. CASE \E t \in Tasks, o \in Owners, status \in TaskState :
             UpdateTaskStatusWithEvents(t, o, status)
  BY <1>2 DEF Next, TaskCall
<1>3. CASE \E w \in Writers : SinkCall(w)
  BY <1>3 DEF Next
<1>4. CASE \E t \in Tasks, n \in 1..MaxSeq : CleanupTask(t) \/ CleanupEvents(t, n)
  <2>1. PICK t \in Tasks, n \in 1..MaxSeq : CleanupTask(t) \/ CleanupEvents(t, n)
    BY <1>4
  <2>2. TaskCall(t)
    BY <2>1 DEF TaskCall
  <2>3. QED
    BY <2>2 DEF Next
<1>5. QED
  BY <1>1, <1>2, <1>3, <1>4 DEF Write

\* What a step of the store may do to the log of one task.
LogMoves(t) ==
  /\ event_counters'[t] >= event_counters[t]
  /\ \A e \in events'[t] \ events[t] : e.seq > event_counters[t]
  /\ event_counters'[t] = event_counters[t] => events'[t] \subseteq events[t]

LEMMA StoreMoves ==
  ASSUME IInv, Next, NEW t \in Tasks
  PROVE  LogMoves(t)
<1>1. /\ event_counters'[t] >= event_counters[t]
      /\ \A e \in events'[t] \ events[t] : e.seq > event_counters[t]
  <2>1. CASE UNCHANGED vars
    BY <2>1 DEF vars, IInv, TypeOK
  <2>2. CASE ~UNCHANGED vars
    BY <2>2, LogStep
  <2>3. QED
    BY <2>1, <2>2
<1>2. IInv'
  BY StepInv
<1>3. \A e \in events'[t] : e.seq <= event_counters'[t]
  BY <1>2 DEF IInv, SeqsBelowCounter
<1>4. event_counters[t] \in Nat /\ \A e \in events'[t] : e.seq \in Nat
  BY <1>2 DEF IInv, TypeOK, Event
<1>5. QED
  BY <1>1, <1>3, <1>4 DEF LogMoves

LEMMA AppendUnique ==
  ASSUME IInv, SeqsUnique, NEW t \in Tasks, NEW s \in TaskState \cup {"Artifact"},
         AppendEvent(t, s)
  PROVE  SeqsUnique'
<1> SUFFICES ASSUME NEW u \in Tasks, NEW e \in events'[u], NEW f \in events'[u],
                    e.seq = f.seq
             PROVE  e = f
  BY DEF SeqsUnique
<1>1. CASE u = t
  <2> DEFINE new == [seq |-> event_counters[t] + 1, state |-> s]
  <2>1. /\ events'[t] = events[t] \cup {new}
        /\ \A g \in events[t] : g.seq \in Nat /\ g.seq <= event_counters[t]
        /\ event_counters[t] \in Nat
    BY AppendFacts DEF IInv
  <2>2. new.seq = event_counters[t] + 1
    OBVIOUS
  <2> HIDE DEF new
  <2>3. QED
    BY <1>1, <2>1, <2>2 DEF SeqsUnique
<1>2. CASE u # t
  BY <1>2, AppendFacts DEF IInv, SeqsUnique
<1>3. QED
  BY <1>1, <1>2

LEMMA UniqueStep ==
  ASSUME IInv, SeqsUnique, Write
  PROVE  SeqsUnique'
<1>1. CASE \E t \in Tasks, o \in Owners, i \in Items : CreateTaskWithEvents(t, o, i)
  BY <1>1, AppendUnique DEF CreateTaskWithEvents, TaskState, EXECUTOR_HELD_STATES
<1>2. CASE \E t \in Tasks, o \in Owners, status \in TaskState :
             UpdateTaskStatusWithEvents(t, o, status)
  BY <1>2, AppendUnique DEF UpdateTaskStatusWithEvents
<1>3. CASE \E w \in Writers : SinkCall(w)
  <2>1. PICK w \in Writers : SinkCall(w)
    BY <1>3
  <2>2. CASE \E i \in Items : UpdateTaskWithEvents(w, i)
    <3>1. snapshots[w].task \in Tasks
      BY <2>2 DEF UpdateTaskWithEvents, IInv, TypeOK, MapOf, Snapshot
    <3>2. AppendEvent(snapshots[w].task, "Artifact")
      BY <2>2 DEF UpdateTaskWithEvents
    <3>3. QED
      BY <3>1, <3>2, AppendUnique
  <2>3. CASE UNCHANGED events
    BY <2>3 DEF SeqsUnique
  <2>4. QED
    BY <2>1, <2>2, <2>3 DEF SinkCall, GetTask, UpdateTaskWithEventsRefused
<1>4. CASE \E t \in Tasks, n \in 1..MaxSeq : CleanupTask(t) \/ CleanupEvents(t, n)
  BY <1>4 DEF CleanupTask, CleanupEvents, SeqsUnique, IInv, TypeOK
<1>5. QED
  BY <1>1, <1>2, <1>3, <1>4 DEF Write

\* A verdict stays until its row is gone.
LEMMA VerdictStays ==
  ASSUME IInv, Next, NEW t \in Tasks, NEW state, Kept(t, state)
  PROVE  Kept(t, state)'
<1>1. V!Next \/ Life' = Life
  BY VerdictStep
<1>2. Life \in [Tasks -> {LifeOf(u) : u \in Tasks}] /\ Life[t] = LifeOf(t)
      /\ Life'[t] = LifeOf(t)'
  BY DEF Life
<1>3. CASE Life' = Life
  BY <1>2, <1>3 DEF Kept
<1>4. ASSUME NEW u \in Tasks, V!Open(u) \/ V!Settle(u) \/ V!Remove(u),
             state \in TERMINAL_STATES
      PROVE  Life'[t] \in {state, "removed"}
  <2>1. CASE u # t
    BY <1>2, <1>4, <2>1 DEF Kept, V!Open, V!Settle, V!Remove, Life
  <2>2. CASE u = t
    BY <1>2, <1>4, <2>2
    DEF Kept, V!Open, V!Settle, V!Remove, V!Verdict, V!TERMINAL_STATES, TERMINAL_STATES, Life
  <2>3. QED
    BY <2>1, <2>2
<1>5. QED
  BY <1>1, <1>2, <1>3, <1>4 DEF Kept, V!Next

-------------------------------------------------------------------------------
(* What is true of one stream *)

LogOf(s) == events[stream[s].task]

\* Its position is in the log, and behind its snapshot until the loop runs.
InLog(s) ==
  /\ stream[s].last <= event_counters[stream[s].task]
  /\ stream[s].pc = "snapshot" => stream[s].last <= stream[s].floor

Covered(s) ==
  stream[s].pc \in {"reading", "delivering", "waiting", "ended"} /\ ~stream[s].gone =>
    \A e \in LogOf(s) :
      e.seq > stream[s].floor /\ e.seq <= stream[s].last => e.seq \in stream[s].got

\* A batch is all there was between the position and its newest event.
BatchGood(s) ==
  /\ stream[s].pc # "delivering" => stream[s].batch = {}
  /\ \A b \in stream[s].batch :
       /\ b.seq > stream[s].last
       /\ b.seq <= event_counters[stream[s].task]
       /\ Kept(stream[s].task, b.state)
       /\ \A e \in LogOf(s) :
            e.seq > stream[s].last /\ e.seq <= b.seq => e \in stream[s].batch
       /\ \A c \in stream[s].batch : b.seq = c.seq => b = c

\* Without a signal, and with none to come, what is not read is in the batch.
Signalled(s) ==
  stream[s].pc \in {"delivering", "waiting"} /\ s \notin wake /\ stream[s].task \notin owed =>
    Unread(s) \subseteq stream[s].batch

EndsClosed(s) ==
  stream[s].pc = "ended" /\ ~stream[s].gone /\ ~stream[s].error => ClosesStream(stream[s].seen)

GoodAt(s) ==
  /\ InLog(s)
  /\ Covered(s)
  /\ BatchGood(s)
  /\ Signalled(s)
  /\ EndsClosed(s)
  /\ Kept(stream[s].task, stream[s].seen)

StreamInv ==
  /\ IInv
  /\ SeqsUnique
  /\ StreamTypeOK
  /\ \A s \in Streams : GoodAt(s)

\* A step of stream s alone.
LEMMA OneStream ==
  ASSUME StreamInv, NEW s \in Streams, NEW row \in StreamRow,
         stream' = [stream EXCEPT ![s] = row],
         wake' \in {wake, wake \ {s}},
         UNCHANGED <<vars, owed>>,
         GoodAt(s)'
  PROVE  StreamInv'
<1>1. IInv' /\ SeqsUnique'
  <2>1. IInv'
    BY StepInv DEF StreamInv, vars
  <2>2. QED
    BY <2>1 DEF StreamInv, SeqsUnique, vars
<1>2. StreamTypeOK'
  BY DEF StreamInv, StreamTypeOK
<1>3. ASSUME NEW l \in Streams, l # s
      PROVE  GoodAt(l)'
  <2>1. stream'[l] = stream[l] /\ (l \in wake' <=> l \in wake) /\ owed' = owed
    BY <1>3 DEF StreamInv, StreamTypeOK
  <2>2. GoodAt(l)
    BY DEF StreamInv
  <2>3. InLog(l)' /\ Covered(l)' /\ EndsClosed(l)'
    BY <2>1, <2>2 DEF GoodAt, InLog, Covered, EndsClosed, LogOf, vars
  <2>4. BatchGood(l)' /\ Kept(stream[l].task, stream[l].seen)'
    BY <2>1, <2>2 DEF GoodAt, BatchGood, LogOf, Kept, LifeOf, Present, Terminal, vars
  <2>5. Signalled(l)'
    BY <2>1, <2>2 DEF GoodAt, Signalled, Unread, vars
  <2>6. QED
    BY <2>3, <2>4, <2>5 DEF GoodAt
<1>4. QED
  BY <1>1, <1>2, <1>3 DEF StreamInv

-------------------------------------------------------------------------------
(* The writers *)

LEMMA WriteKeeps ==
  ASSUME StreamInv, StoreWrite
  PROVE  StreamInv'
<1>1. Write /\ Next
  BY WriteIsNext DEF StoreWrite
<1>2. IInv' /\ SeqsUnique'
  BY <1>1, StepInv, UniqueStep DEF StreamInv
<1>3. StreamTypeOK'
  BY DEF StoreWrite, StreamInv, StreamTypeOK
<1>4. ASSUME NEW s \in Streams
      PROVE  GoodAt(s)'
  <2> DEFINE t == stream[s].task
  <2>1. /\ t \in Tasks /\ stream' = stream /\ wake' = wake
        /\ stream[s].last \in Nat /\ stream[s].batch \subseteq Event
        /\ event_counters[t] \in Nat /\ event_counters'[t] \in Nat
        /\ events'[t] \subseteq Event
    BY <1>2 DEF StoreWrite, StreamInv, StreamTypeOK, StreamRow, IInv, TypeOK
  <2>2. LogMoves(t)
    BY <1>1, <2>1, StoreMoves DEF StreamInv
  <2>3. \A state : Kept(t, state) => Kept(t, state)'
    BY <1>1, <2>1, VerdictStays DEF StreamInv
  <2>4. GoodAt(s)
    BY DEF StreamInv
  <2>5. InLog(s)'
    BY <2>1, <2>2, <2>4 DEF GoodAt, InLog, LogMoves
  <2>6. Covered(s)'
    <3>1. \A e \in events'[t] : e.seq <= stream[s].last => e \in events[t]
      BY <2>1, <2>2, <2>4 DEF GoodAt, InLog, LogMoves, Event
    <3>2. QED
      BY <2>1, <2>4, <3>1 DEF GoodAt, Covered, LogOf
  <2>7. BatchGood(s)'
    <3>1. ASSUME NEW b \in stream[s].batch
          PROVE  /\ b.seq <= event_counters'[t]
                 /\ Kept(t, b.state)'
                 /\ \A e \in events'[t] : e.seq <= b.seq => e \in events[t]
      <4>1. b.seq \in Nat /\ b.seq <= event_counters[t] /\ Kept(t, b.state)
        BY <2>1, <2>4 DEF GoodAt, BatchGood, Event
      <4>2. b.seq <= event_counters'[t]
        BY <2>1, <2>2, <4>1 DEF LogMoves
      <4>3. \A e \in events'[t] : e.seq <= b.seq => e \in events[t]
        BY <2>1, <2>2, <4>1 DEF LogMoves, Event
      <4>4. QED
        BY <2>3, <4>1, <4>2, <4>3
    <3>2. QED
      BY <2>1, <2>4, <3>1 DEF GoodAt, BatchGood, LogOf, Kept
  <2>8. Signalled(s)'
    <3>1. SUFFICES ASSUME stream[s].pc \in {"delivering", "waiting"}, s \notin wake,
                          t \notin owed'
                   PROVE  Unread(s)' \subseteq stream[s].batch
      BY <2>1 DEF Signalled
    <3>2. t \notin owed /\ event_counters'[t] = event_counters[t]
      BY <2>1, <3>1 DEF StoreWrite
    <3>3. events'[t] \subseteq events[t]
      BY <2>2, <3>2 DEF LogMoves
    <3>4. Unread(s) \subseteq stream[s].batch
      BY <2>4, <3>1, <3>2 DEF GoodAt, Signalled
    <3>5. QED
      BY <2>1, <3>3, <3>4 DEF Unread
  <2>9. EndsClosed(s)' /\ Kept(stream[s].task, stream[s].seen)'
    BY <2>1, <2>3, <2>4 DEF GoodAt, EndsClosed, Kept
  <2>10. QED
    BY <2>5, <2>6, <2>7, <2>8, <2>9 DEF GoodAt
<1>5. QED
  BY <1>2, <1>3, <1>4 DEF StreamInv

\* A notification reaches every stream that may be waiting for it.
LEMMA NotifyKeeps ==
  ASSUME StreamInv, NEW t \in Tasks, Notify(t)
  PROVE  StreamInv'
<1>1. IInv' /\ SeqsUnique'
  <2>1. IInv'
    BY StepInv DEF StreamInv, Notify, vars
  <2>2. QED
    BY <2>1 DEF StreamInv, SeqsUnique, Notify, vars
<1>2. StreamTypeOK'
  BY DEF Notify, StreamInv, StreamTypeOK
<1>3. ASSUME NEW s \in Streams
      PROVE  GoodAt(s)'
  <2>1. GoodAt(s) /\ stream' = stream /\ UNCHANGED vars
    BY DEF StreamInv, Notify
  <2>2. InLog(s)' /\ Covered(s)' /\ EndsClosed(s)'
    BY <2>1 DEF GoodAt, InLog, Covered, EndsClosed, LogOf, vars
  <2>3. BatchGood(s)' /\ Kept(stream[s].task, stream[s].seen)'
    BY <2>1 DEF GoodAt, BatchGood, LogOf, Kept, LifeOf, Present, Terminal, vars
  <2>4. Signalled(s)'
    BY <2>1 DEF GoodAt, Signalled, Unread, Notify, Live, vars
  <2>5. QED
    BY <2>2, <2>3, <2>4 DEF GoodAt
<1>4. QED
  BY <1>1, <1>2, <1>3 DEF StreamInv

-------------------------------------------------------------------------------
(* The steps of a stream *)

\* GoodAt, in terms of the row a step leaves behind.
RowGood(row, signalled) ==
  LET t == row.task IN
  /\ row.last <= event_counters[t]
  /\ row.pc = "snapshot" => row.last <= row.floor
  /\ row.pc \in {"reading", "delivering", "waiting", "ended"} /\ ~row.gone =>
       \A e \in events[t] : e.seq > row.floor /\ e.seq <= row.last => e.seq \in row.got
  /\ row.pc # "delivering" => row.batch = {}
  /\ \A b \in row.batch :
       /\ b.seq > row.last
       /\ b.seq <= event_counters[t]
       /\ Kept(t, b.state)
       /\ \A e \in events[t] : e.seq > row.last /\ e.seq <= b.seq => e \in row.batch
       /\ \A c \in row.batch : b.seq = c.seq => b = c
  /\ row.pc \in {"delivering", "waiting"} /\ ~signalled /\ t \notin owed =>
       {e \in events[t] : e.seq > row.last} \subseteq row.batch
  /\ row.pc = "ended" /\ ~row.gone /\ ~row.error => ClosesStream(row.seen)
  /\ Kept(t, row.seen)

LEMMA GoodIsRowGood ==
  ASSUME NEW s \in Streams
  PROVE  GoodAt(s) <=> RowGood(stream[s], s \in wake)
  BY DEF GoodAt, InLog, Covered, BatchGood, Signalled, EndsClosed, RowGood, LogOf, Unread

LEMMA RowStep ==
  ASSUME StreamInv, NEW s \in Streams, NEW row \in StreamRow,
         stream' = [stream EXCEPT ![s] = row],
         wake' \in {wake, wake \ {s}},
         UNCHANGED <<vars, owed>>,
         RowGood(row, s \in wake')
  PROVE  StreamInv'
<1>1. stream'[s] = row
  BY DEF StreamInv, StreamTypeOK
<1>2. GoodAt(s)'
  BY <1>1
  DEF GoodAt, InLog, Covered, BatchGood, Signalled, EndsClosed, RowGood, LogOf, Unread,
      Kept, LifeOf, Present, Terminal, vars
<1>3. QED
  BY <1>2, OneStream

LEMMA RowFacts ==
  ASSUME StreamInv, NEW s \in Streams
  PROVE  /\ stream[s] \in StreamRow /\ stream[s].task \in Tasks
         /\ RowGood(stream[s], s \in wake)
         /\ event_counters[stream[s].task] \in Nat
         /\ events[stream[s].task] \subseteq Event
  BY GoodIsRowGood DEF StreamInv, StreamTypeOK, StreamRow, IInv, TypeOK

LEMMA ReadSequenceKeeps ==
  ASSUME StreamInv, NEW s \in Streams, ReadSequence(s)
  PROVE  StreamInv'
<1> DEFINE t == stream[s].task
           row == [stream[s] EXCEPT !.pc = "opening", !.last = event_counters[t]]
<1>1. row \in StreamRow
  BY RowFacts DEF StreamRow, StreamPc
<1>2. RowGood(row, s \in wake)
  BY RowFacts DEF ReadSequence, RowGood, StreamRow
<1>3. stream' = [stream EXCEPT ![s] = row] /\ UNCHANGED <<vars, wake, owed>>
  BY DEF ReadSequence
<1> HIDE DEF row
<1>4. QED
  BY <1>1, <1>2, <1>3, RowStep

LEMMA ReadSnapshotKeeps ==
  ASSUME StreamInv, NEW s \in Streams, NEW o \in Owners, ReadSnapshot(s, o)
  PROVE  StreamInv'
<1> DEFINE t == stream[s].task
           refused == ~OwnedBy(t, o) \/ (stream[s].kind = "subscribe" /\ Terminal(t))
           at == IF refused THEN "refused" ELSE "snapshot"
           floor == IF refused THEN 0 ELSE tasks[t].latest_event_sequence
           last == IF refused THEN 0 ELSE stream[s].last
           seen == IF refused THEN "none" ELSE tasks[t].status
           row == [stream[s] EXCEPT !.pc = at, !.floor = floor, !.last = last, !.seen = seen]
<1>0. stream' = [stream EXCEPT ![s] = row] /\ UNCHANGED <<vars, wake, owed>>
  BY DEF ReadSnapshot
<1>1. ~refused => /\ t \in DOMAIN tasks /\ tasks[t] \in Row
                  /\ tasks[t].latest_event_sequence = event_counters[t]
  BY DEF OwnedBy, Present, StreamInv, IInv, FloorIsCounter, TypeOK, MapOf
<1>2. row \in StreamRow
  <2>1. at \in StreamPc
    BY DEF StreamPc
  <2>2. floor \in Nat /\ last \in Nat
    BY <1>1, RowFacts DEF StreamRow
  <2>3. seen \in TaskState \cup {"none"}
    BY <1>1 DEF Row
  <2> HIDE DEF at, floor, last, seen
  <2>4. QED
    BY <2>1, <2>2, <2>3, RowFacts DEF StreamRow
<1>3. RowGood(row, s \in wake)
  <2>1. /\ stream[s].pc = "opening" /\ stream[s].batch = {}
        /\ stream[s].last <= event_counters[t] /\ stream[s].last \in Nat
        /\ event_counters[t] \in Nat
    BY RowFacts DEF ReadSnapshot, RowGood, StreamRow
  <2>2. CASE refused
    <3>1. /\ row.pc = "refused" /\ row.batch = {} /\ row.last = 0 /\ row.seen = "none"
          /\ row.task = t
      BY <2>1, <2>2, RowFacts DEF StreamRow
    <3> HIDE DEF row
    <3>2. QED
      BY <2>1, <3>1 DEF RowGood, Kept, TERMINAL_STATES
  <2>3. CASE ~refused
    <3>1. /\ row.pc = "snapshot" /\ row.batch = {} /\ row.last = stream[s].last
          /\ row.seen = tasks[t].status /\ row.floor = event_counters[t] /\ row.task = t
      BY <1>1, <2>1, <2>3, RowFacts DEF StreamRow
    \* The row is there, so its status is its life.
    <3>2. Kept(t, tasks[t].status)
      BY <1>1, <2>3 DEF Kept, LifeOf, Present, Terminal
    <3> HIDE DEF row
    <3>3. QED
      BY <2>1, <3>1, <3>2 DEF RowGood
  <2>4. QED
    BY <2>2, <2>3
<1> HIDE DEF row
<1>4. QED
  BY <1>0, <1>2, <1>3, RowStep

LEMMA SubscribeKeeps ==
  ASSUME StreamInv, NEW s \in Streams, Subscribe(s)
  PROVE  StreamInv'
<1> DEFINE at == IF ClosesStream(stream[s].seen) THEN "ended" ELSE "reading"
           row == [stream[s] EXCEPT !.pc = at]
<1>1. at \in {"ended", "reading"} /\ (at = "ended" => ClosesStream(stream[s].seen))
  OBVIOUS
<1>2. stream' = [stream EXCEPT ![s] = row] /\ UNCHANGED <<vars, wake, owed>>
  BY DEF Subscribe, Move
<1> HIDE DEF at
<1>3. row \in StreamRow
  BY <1>1, RowFacts DEF StreamRow, StreamPc
<1>4. RowGood(row, s \in wake)
  <2>1. stream[s].pc = "snapshot"
    BY DEF Subscribe
  <2>2. \A e \in events[stream[s].task] :
          ~(e.seq > stream[s].floor /\ e.seq <= stream[s].last)
    BY <2>1, RowFacts DEF RowGood, StreamRow, Event
  <2>3. QED
    BY <1>1, <2>1, <2>2, RowFacts DEF RowGood, StreamRow
<1> HIDE DEF row
<1>5. QED
  BY <1>2, <1>3, <1>4, RowStep

LEMMA ReadEventsKeeps ==
  ASSUME StreamInv, NEW s \in Streams, ReadEvents(s)
  PROVE  StreamInv'
<1> DEFINE t == stream[s].task
           row == [stream[s] EXCEPT !.pc = "delivering", !.batch = Unread(s)]
<1>1. stream' = [stream EXCEPT ![s] = row] /\ UNCHANGED <<vars, wake, owed>>
  BY DEF ReadEvents
<1>2. row \in StreamRow
  BY RowFacts DEF StreamRow, StreamPc, Unread
\* A terminal event in the log is the verdict, or its task is removed.
<1>3. ASSUME NEW e \in events[t]
      PROVE  Kept(t, e.state)
  <2>1. CASE e.state \in TERMINAL_STATES
    <3>1. e.seq = event_counters[t] /\ (Present(t) => tasks[t].status = e.state)
      BY <2>1, RowFacts DEF StreamInv, IInv, TerminalEndsLog, TerminalEvents
    <3>2. event_counters[t] # 0
      BY <3>1, RowFacts DEF Event
    <3>3. QED
      BY <2>1, <3>1, <3>2 DEF Kept, LifeOf, Terminal
  <2>2. QED
    BY <2>1 DEF Kept
<1>4. \A e \in events[t] : /\ e.seq <= event_counters[t]
                            /\ \A f \in events[t] : e.seq = f.seq => e = f
  BY RowFacts DEF StreamInv, IInv, SeqsBelowCounter, SeqsUnique
<1>5. RowGood(row, s \in wake)
  <2>1. /\ row.pc = "delivering" /\ row.task = t /\ row.last = stream[s].last
        /\ row.batch = {e \in events[t] : e.seq > stream[s].last}
        /\ row.floor = stream[s].floor /\ row.got = stream[s].got
        /\ row.gone = stream[s].gone /\ row.seen = stream[s].seen
    BY RowFacts DEF StreamRow, Unread
  <2>2. stream[s].pc = "reading"
    BY DEF ReadEvents
  <2> HIDE DEF row
  <2>3. QED
    BY <1>3, <1>4, <2>1, <2>2, RowFacts DEF RowGood
<1> HIDE DEF row
<1>6. QED
  BY <1>1, <1>2, <1>5, RowStep

\* Steps that change no more than where the loop is.
LEMMA LoopKeeps ==
  ASSUME StreamInv, NEW s \in Streams,
         ReadEventsFails(s) \/ Woken(s) \/ Poll(s) \/ ConsumerLeaves(s)
  PROVE  StreamInv'
<1>1. CASE ReadEventsFails(s)
  <2> DEFINE row == [stream[s] EXCEPT !.pc = "ended", !.error = TRUE]
  <2>1. row \in StreamRow
    BY RowFacts DEF StreamRow, StreamPc
  <2>2. RowGood(row, s \in wake)
    BY <1>1, RowFacts DEF ReadEventsFails, RowGood, StreamRow
  <2>3. stream' = [stream EXCEPT ![s] = row] /\ UNCHANGED <<vars, wake, owed>>
    BY <1>1 DEF ReadEventsFails
  <2> HIDE DEF row
  <2>4. QED
    BY <2>1, <2>2, <2>3, RowStep
<1>2. CASE Woken(s) \/ Poll(s)
  <2> DEFINE row == [stream[s] EXCEPT !.pc = "reading"]
  <2>1. row \in StreamRow
    BY RowFacts DEF StreamRow, StreamPc
  <2>2. stream[s].pc = "waiting" /\ wake' \in {wake, wake \ {s}}
        /\ stream' = [stream EXCEPT ![s] = row] /\ UNCHANGED <<vars, owed>>
    BY <1>2 DEF Woken, Poll, Move
  <2>3. RowGood(row, s \in wake')
    BY <2>2, RowFacts DEF RowGood, StreamRow
  <2> HIDE DEF row
  <2>4. QED
    BY <2>1, <2>2, <2>3, RowStep
<1>3. CASE ConsumerLeaves(s)
  <2> DEFINE row == [stream[s] EXCEPT !.gone = TRUE]
  <2>1. row \in StreamRow
    BY RowFacts DEF StreamRow
  <2>2. RowGood(row, s \in wake)
    BY <1>3, RowFacts DEF ConsumerLeaves, RowGood, StreamRow, Live
  <2>3. stream' = [stream EXCEPT ![s] = row] /\ UNCHANGED <<vars, wake, owed>>
    BY <1>3 DEF ConsumerLeaves
  <2> HIDE DEF row
  <2>4. QED
    BY <2>1, <2>2, <2>3, RowStep
<1>4. QED
  BY <1>1, <1>2, <1>3

\* A batch is delivered up to its first closing event, which is then its newest.
LEMMA DeliverKeeps ==
  ASSUME StreamInv, NEW s \in Streams, Deliver(s)
  PROVE  StreamInv'
<1> DEFINE t == stream[s].task
           batch == stream[s].batch
           es == Deliverable(batch)
           states == {e \in es : e.state # "Artifact"}
           fails == stream[s].gone /\ es # {}
           at == IF fails \/ (es # {} /\ ClosesStream(Newest(es).state))
                 THEN "ended" ELSE "waiting"
           last == IF es = {} THEN stream[s].last ELSE Newest(es).seq
           got == IF fails THEN stream[s].got ELSE stream[s].got \cup {e.seq : e \in es}
           seen == IF fails THEN stream[s].seen ELSE NewestState(es, stream[s].seen)
           row == [stream[s] EXCEPT !.pc = at, !.batch = {}, !.last = last,
                                    !.got = got, !.seen = seen]
<1>1. stream' = [stream EXCEPT ![s] = row] /\ UNCHANGED <<vars, wake, owed>>
      /\ stream[s].pc = "delivering"
  BY DEF Deliver
<1>2. /\ es \subseteq batch /\ batch \subseteq Event /\ states \subseteq es
      /\ \A e \in batch : e.seq \in Nat /\ e.seq # 0 /\ e.state \in TaskState \cup {"Artifact"}
      /\ stream[s].last \in Nat /\ t \in Tasks /\ event_counters[t] \in Nat
  BY RowFacts DEF Deliverable, StreamRow, Event
<1>3. \A b \in batch : b.seq > stream[s].last /\ b.seq <= event_counters[t] /\ Kept(t, b.state)
  BY RowFacts DEF RowGood
<1>4. \A b, c \in batch : b.seq = c.seq => b = c
  BY RowFacts DEF RowGood
<1>5. \A b \in batch : \A e \in events[t] :
        e.seq > stream[s].last /\ e.seq <= b.seq => e \in batch
  BY RowFacts DEF RowGood
<1>6. ASSUME es # {}
      PROVE  Newest(es) \in es /\ \A f \in es : f.seq <= Newest(es).seq
  <2>1. es \in SUBSET Event
    BY <1>2
  <2> HIDE DEF es
  <2>2. QED
    BY <1>2, <1>3, <1>6, <2>1, NewestIs
<1>7. ASSUME states # {}
      PROVE  Newest(states) \in states /\ \A f \in states : f.seq <= Newest(states).seq
  <2>1. states \in SUBSET Event
    BY <1>2
  <2> HIDE DEF es, states
  <2>2. QED
    BY <1>2, <1>3, <1>7, <2>1, NewestIs
<1>8. ASSUME NEW c \in batch, ClosesStream(c.state)
      PROVE  /\ es # {}
             /\ ClosesStream(Newest(es).state)
             /\ Newest(es).seq <= c.seq
  <2>1. PICK d \in batch : /\ ClosesStream(d.state)
                           /\ \A e \in batch : ClosesStream(e.state) => d.seq <= e.seq
    BY <1>2, <1>8, FirstClosing
  <2>2. d \in es
    BY <1>2, <2>1 DEF Deliverable
  <2>3. Newest(es) \in es /\ d.seq <= Newest(es).seq
    BY <1>6, <2>2
  <2>4. Newest(es).seq <= d.seq
    BY <2>1, <2>3 DEF Deliverable
  <2> HIDE DEF es
  <2>5. Newest(es) = d
    BY <1>2, <1>4, <2>2, <2>3, <2>4
  <2>6. QED
    BY <1>8, <2>1, <2>2, <2>5
<1>9. es = {} => batch = {}
  BY <1>8 DEF Deliverable
<1>10. es # {} => last = Newest(es).seq /\ Newest(es) \in batch /\ last > stream[s].last
                  /\ last <= event_counters[t] /\ last \in Nat
  BY <1>2, <1>3, <1>6
<1>11. /\ NewestState(es, stream[s].seen) \in TaskState \cup {"none"}
       /\ Kept(t, NewestState(es, stream[s].seen))
  <2>1. stream[s].seen \in TaskState \cup {"none"} /\ Kept(t, stream[s].seen)
    BY RowFacts DEF RowGood, StreamRow
  <2>2. CASE states = {}
    BY <2>1, <2>2 DEF NewestState
  <2>3. CASE states # {}
    <3>1. Newest(states) \in batch /\ Newest(states).state # "Artifact"
      BY <1>2, <1>7, <2>3
    <3>2. NewestState(es, stream[s].seen) = Newest(states).state
      BY <2>3 DEF NewestState
    <3> HIDE DEF states, es
    <3>3. QED
      BY <1>2, <1>3, <3>1, <3>2
  <2>4. QED
    BY <2>2, <2>3
<1>12. row \in StreamRow
  <2>1. at \in StreamPc
    BY DEF StreamPc
  <2>2. last \in Nat
    BY <1>2, <1>10
  <2>3. got \in SUBSET (Nat \ {0})
    BY <1>2, RowFacts DEF StreamRow
  <2>4. seen \in TaskState \cup {"none"}
    BY <1>11, RowFacts DEF StreamRow
  <2> HIDE DEF at, last, got, seen
  <2>5. QED
    BY <2>1, <2>2, <2>3, <2>4, RowFacts DEF StreamRow
\* The closing event is the newest state as well.
<1>13. ASSUME es # {}, ClosesStream(Newest(es).state)
       PROVE  NewestState(es, stream[s].seen) = Newest(es).state
  <2>1. Newest(es) \in states
    BY <1>6, <1>13 DEF ClosesStream, TERMINAL_STATES
  <2>2. Newest(states) \in states /\ Newest(es).seq <= Newest(states).seq
    BY <1>7, <2>1
  <2>3. Newest(states).seq <= Newest(es).seq
    BY <1>6, <1>13, <2>2
  <2>4. NewestState(es, stream[s].seen) = Newest(states).state
    BY <2>1 DEF NewestState
  <2> HIDE DEF es, states
  <2>5. Newest(es) = Newest(states)
    BY <1>2, <1>4, <2>1, <2>2, <2>3
  <2>6. QED
    BY <2>4, <2>5
<1>14. ASSUME ~stream[s].gone, NEW e \in events[t], e.seq > stream[s].floor, e.seq <= last
       PROVE  e.seq \in got
  <2>1. e.seq <= stream[s].last => e.seq \in stream[s].got
    BY <1>1, <1>14, RowFacts DEF RowGood
  <2>2. CASE e.seq <= stream[s].last
    BY <2>1, <2>2
  <2>3. CASE ~(e.seq <= stream[s].last)
    <3>1. e.seq \in Nat
      BY RowFacts DEF Event
    <3>2. es # {} /\ e \in batch
      BY <1>2, <1>5, <1>10, <1>14, <2>3, <3>1
    <3>3. \A c \in batch : ClosesStream(c.state) => c.seq >= e.seq
      BY <1>2, <1>8, <1>10, <1>14, <3>1, <3>2
    <3>4. e \in es
      BY <3>2, <3>3 DEF Deliverable
    <3>5. QED
      BY <1>14, <3>4
  <2>4. QED
    BY <2>2, <2>3
<1>15. ASSUME at = "waiting", s \notin wake, t \notin owed, NEW e \in events[t], e.seq > last
       PROVE  FALSE
  <2>1. e.seq \in Nat
    BY RowFacts DEF Event
  <2>2. e \in batch
    BY <1>1, <1>2, <1>10, <1>15, <2>1, RowFacts DEF RowGood
  <2>3. \A c \in batch : ClosesStream(c.state) => c.seq >= e.seq
    BY <1>8, <1>15
  <2>4. e \in es
    BY <2>2, <2>3 DEF Deliverable
  <2>5. QED
    BY <1>2, <1>6, <1>15, <2>1, <2>4
<1>16. RowGood(row, s \in wake)
  <2>1. /\ row.pc = at /\ row.task = t /\ row.last = last /\ row.batch = {}
        /\ row.floor = stream[s].floor /\ row.got = got
        /\ row.gone = stream[s].gone /\ row.seen = seen
    BY RowFacts DEF StreamRow
  <2>2. at \in {"ended", "waiting"}
    OBVIOUS
  <2>3. last <= event_counters[t]
    BY <1>10, RowFacts DEF RowGood
  <2>4. at = "ended" /\ ~stream[s].gone => ClosesStream(seen)
    BY <1>13
  <2>5. Kept(t, seen)
    BY <1>11, RowFacts DEF RowGood
  <2> HIDE DEF row, at, last, got, seen
  <2>6. QED
    BY <1>14, <1>15, <2>1, <2>2, <2>3, <2>4, <2>5 DEF RowGood
<1> HIDE DEF row
<1>17. QED
  BY <1>1, <1>12, <1>16, RowStep

-------------------------------------------------------------------------------
LEMMA StreamInitInv == StreamInit => StreamInv
<1> SUFFICES ASSUME StreamInit PROVE StreamInv
  OBVIOUS
<1>1. IInv /\ SeqsUnique
  BY InitInv DEF StreamInit, Init, SeqsUnique
<1>2. ASSUME NEW s \in Streams
      PROVE  /\ stream[s] \in StreamRow /\ stream[s].pc = "idle" /\ stream[s].last = 0
             /\ stream[s].batch = {} /\ stream[s].seen = "none"
  <2>1. PICK k \in {"send", "subscribe"}, t \in Tasks :
          stream[s] = [pc |-> "idle", kind |-> k, task |-> t, floor |-> 0, last |-> 0,
                       batch |-> {}, got |-> {}, seen |-> "none", gone |-> FALSE,
                       error |-> FALSE]
    BY DEF StreamInit
  <2>2. 0 \in Nat /\ {} \in SUBSET Event /\ {} \in SUBSET (Nat \ {0})
    OBVIOUS
  <2>3. QED
    BY <2>1, <2>2 DEF StreamRow, StreamPc
<1>3. StreamTypeOK
  BY <1>2 DEF StreamInit, StreamTypeOK
<1>4. ASSUME NEW s \in Streams
      PROVE  GoodAt(s)
  <2>1. stream[s].task \in Tasks /\ event_counters[stream[s].task] \in Nat
    BY <1>1, <1>2 DEF StreamRow, IInv, TypeOK
  <2>2. QED
    BY <1>2, <2>1
    DEF GoodAt, InLog, Covered, BatchGood, Signalled, EndsClosed, Kept, TERMINAL_STATES
<1>5. QED
  BY <1>1, <1>3, <1>4 DEF StreamInv

LEMMA StreamStepInv == StreamInv /\ [StreamNext]_streamVars => StreamInv'
<1> SUFFICES ASSUME StreamInv, [StreamNext]_streamVars PROVE StreamInv'
  OBVIOUS
<1>1. CASE StoreWrite
  BY <1>1, WriteKeeps
<1>2. CASE \E t \in Tasks : Notify(t)
  BY <1>2, NotifyKeeps
<1>3. ASSUME NEW s \in Streams, Open(s)
      PROVE  StreamInv'
  BY <1>3, ReadSequenceKeeps, ReadSnapshotKeeps, SubscribeKeeps DEF Open
<1>4. ASSUME NEW s \in Streams, Loop(s) \/ ConsumerLeaves(s)
      PROVE  StreamInv'
  BY <1>4, ReadEventsKeeps, DeliverKeeps, LoopKeeps DEF Loop
<1>5. CASE UNCHANGED streamVars
  <2>1. IInv'
    BY <1>5, StepInv DEF StreamInv, streamVars
  <2>2. SeqsUnique' /\ StreamTypeOK'
    BY <1>5 DEF StreamInv, SeqsUnique, StreamTypeOK, streamVars, vars
  <2>3. ASSUME NEW s \in Streams
        PROVE  GoodAt(s)'
    BY <1>5
    DEF StreamInv, GoodAt, InLog, Covered, BatchGood, Signalled, EndsClosed, LogOf, Unread,
        Kept, LifeOf, Present, Terminal, streamVars, vars
  <2>4. QED
    BY <2>1, <2>2, <2>3 DEF StreamInv
<1>6. QED
  BY <1>1, <1>2, <1>3, <1>4, <1>5 DEF StreamNext

LEMMA StreamInvariance == StreamSpec => []StreamInv
<1>1. StreamInit => StreamInv
  BY StreamInitInv
<1>2. StreamInv /\ [StreamNext]_streamVars => StreamInv'
  BY StreamStepInv
<1>3. QED
  BY <1>1, <1>2, PTL DEF StreamSpec

\* The streams' own state, and their receivers and signals, keep their types.
THEOREM StreamTypeCorrect == StreamSpec => []StreamTypeOK
<1>1. StreamInv => StreamTypeOK
  BY DEF StreamInv
<1>2. QED
  BY <1>1, StreamInvariance, PTL

\* However commits, removals and notifications fall between the sequence read,
\* the snapshot read and the loop of task_stream.rs, every event up to a stream's
\* position that is still in the log was in its snapshot or was delivered.
THEOREM NothingMissedAlways == StreamSpec => []NothingMissed
<1>1. StreamInv => NothingMissed
  BY DEF StreamInv, GoodAt, Covered, LogOf, NothingMissed
<1>2. QED
  BY <1>1, StreamInvariance, PTL

\* A stream that ended by itself closed on the client's turn or on a verdict, and
\* the row, if it is still there, reports that verdict.
THEOREM EndsOnVerdictAlways == StreamSpec => []EndsOnVerdict
<1>1. ASSUME StreamInv
      PROVE  EndsOnVerdict
  <2> SUFFICES ASSUME NEW s \in Streams,
                      stream[s].pc = "ended", ~stream[s].gone, ~stream[s].error
               PROVE  /\ stream[s].seen \in TERMINAL_STATES \cup {"InputRequired"}
                      /\ stream[s].seen \in TERMINAL_STATES /\ Present(stream[s].task) =>
                           tasks[stream[s].task].status = stream[s].seen
    BY DEF EndsOnVerdict
  <2>1. ClosesStream(stream[s].seen) /\ Kept(stream[s].task, stream[s].seen)
    BY <1>1 DEF StreamInv, GoodAt, EndsClosed
  <2>2. stream[s].seen \in TERMINAL_STATES \cup {"InputRequired"}
    BY <2>1 DEF ClosesStream
  <2>3. ASSUME stream[s].seen \in TERMINAL_STATES, Present(stream[s].task)
        PROVE  tasks[stream[s].task].status = stream[s].seen
    <3>1. LifeOf(stream[s].task) \in {stream[s].seen, "removed"}
      BY <2>1, <2>3 DEF Kept
    <3>2. LifeOf(stream[s].task) # "removed"
      BY <2>3 DEF LifeOf, Terminal, TERMINAL_STATES
    <3>3. QED
      BY <2>3, <3>1, <3>2 DEF LifeOf, TERMINAL_STATES
  <2>4. QED
    BY <2>2, <2>3
<1>2. StreamInv => EndsOnVerdict
  BY <1>1
<1>3. QED
  BY <1>2, StreamInvariance, PTL

\* The broker's signal carries nothing, yet no commit that was notified waits for
\* the poll: a stream that waits without a signal has read all of the log.
THEOREM NoLostWakeupAlways == StreamSpec => []NoLostWakeup
<1>1. StreamInv => NoLostWakeup
  BY DEF StreamInv, GoodAt, BatchGood, Signalled, NoLostWakeup
<1>2. QED
  BY <1>1, StreamInvariance, PTL

===============================================================================
