------------------------------- MODULE Backends --------------------------------
(***************************************************************************)
(* One task on whichever backend the server was started with, and what the *)
(* storage contract is worth on each.                                      *)
(***************************************************************************)
EXTENDS DurableRows

Sqlite == INSTANCE SqliteStore
Postgres == INSTANCE PostgresStore
Dynamo == INSTANCE DynamoStore

Next ==
  \/ backend = "sqlite" /\ Sqlite!Next
  \/ backend = "postgres" /\ Postgres!Next
  \/ backend = "dynamodb" /\ Dynamo!Next

Spec == Init /\ [][Next]_vars

NewEvents == log' \ log

\* The listings of the backend in use.
Listed(sqlite, postgres, dynamodb) ==
  CASE backend = "sqlite" -> sqlite
    [] backend = "postgres" -> postgres
    [] backend = "dynamodb" -> dynamodb

EventsAfter(n) ==
  Listed(Sqlite!GetEventsAfter(n), Postgres!GetEventsAfter(n), Dynamo!GetEventsAfter(n))

ReclaimableClaims ==
  Listed(Sqlite!ListReclaimableClaims, Postgres!ListReclaimableClaims,
         Dynamo!ListReclaimableClaims)

FailedDeliveries ==
  Listed(Sqlite!ListFailedDeliveries, Postgres!ListFailedDeliveries,
         Dynamo!ListFailedDeliveries)

EligibleConfigs(n) ==
  Listed(Sqlite!ListConfigsEligibleAtEvent(n), Postgres!ListConfigsEligibleAtEvent(n),
         Dynamo!ListConfigsEligibleAtEvent(n))

StaleDispatches ==
  Listed(Sqlite!ListStalePendingDispatches, Postgres!ListStalePendingDispatches,
         Dynamo!ListStalePendingDispatches)

\* Retention has left what the next number is computed from: the newest event on
\* the SQL backends, the counter item on DynamoDB.
NumberingKept ==
  IF backend = "dynamodb" THEN counter = highest ELSE \E e \in log : e.seq = highest

\* While retention has left the numbering alone, a reader that has seen every
\* event committed so far gets every new one from get_events_after: numbers are
\* MAX + 1 under the row lock, or DynamoDB's conditional counter.
NumbersOnlyGrow ==
  [][\A n \in 0..MaxSeq :
       NumberingKept /\ n = highest => NewEvents \subseteq EventsAfter(n)']_vars

\* No write but append_message's takes a row out of a terminal state: the
\* compare-and-set of every event write holds on all three backends, against
\* callers that read the row before the terminal was committed.
OnlyMessagesRevive ==
  [][HasRow /\ Terminal /\ row' # None /\ row'.status # row.status
       => \E c \in Callers : calls[c].op = "message" /\ calls'[c] = Spent]_vars

\* What a call had to know of the configurations when it began.
KnownTo(c) == IF calls[c] = NoCall THEN Settled ELSE calls[c].known

\* A terminal commit leaves its marker for the redispatch sweep whenever its
\* fan-out would find a config that was registered when the call began:
\* DynamoDB's scan before the transaction, and the SQL count inside it.
KnownConfigsGetMarker ==
  [][\A c \in Callers, e \in NewEvents :
       /\ calls[c] # Spent /\ calls'[c] = Spent
       /\ e.state \in TERMINAL_STATES
       /\ KnownTo(c) \cap EligibleConfigs(e.seq) # {}
       => e.seq \in StaleDispatches']_vars

\* On SQLite a terminal event has an eligible config only if its commit left a
\* marker for the redispatch sweep: create_config's transaction is serialised
\* with it.
SqliteEligibleHasMarker ==
  backend = "sqlite" /\ HasRow =>
    \A e \in log :
      e.state \in TERMINAL_STATES /\ EligibleConfigs(e.seq) # {} => e.seq \in StaleDispatches

\* On SQLite every artifact a manifest names has a body of that content,
\* whatever full-task writes raced: the manifest a plan is computed from is read
\* in the transaction that applies it.
SqliteManifestHasBodies ==
  backend = "sqlite" /\ HasRow =>
    \A a \in Artifacts : row.manifest[a] # None => bodies[a] = row.manifest[a]

\* A caller that holds the claim row's current generation.
Delivering(c) ==
  /\ calls[c].op = "deliver"
  /\ calls[c].at # "unclaimed"
  /\ delivery # None
  /\ calls[c].generation = delivery.generation

\* An outcome lands only from the worker of the current claim, never over a
\* final one, and no write forgets an attempt: only retention clears the row.  A
\* claim is taken over only from a row the reclaim sweep lists, and a delivery
\* given up is on the operator's list.
OutcomesAreFenced ==
  [][delivery # None /\ delivery' # None /\ delivery' # delivery =>
       /\ delivery.status \in FinalStatus => delivery'.status = delivery.status
       /\ delivery'.attempts >= delivery.attempts
       /\ delivery'.status \in FinalStatus \ {delivery.status} =>
            \E c \in Callers : Delivering(c) /\ calls'[c] = Spent
       /\ delivery'.generation # delivery.generation => delivery \in ReclaimableClaims
       /\ delivery'.status = "GaveUp" => delivery' \in FailedDeliveries']_vars

\* The live task the pollers of a SQL backend are shown.
SqlCancelRequested ==
  IF backend = "sqlite" THEN Sqlite!ListCancelRequested ELSE Postgres!ListCancelRequested

\* On the SQL backends an accepted cancel stays visible to the poller of whichever
\* instance runs the task, for as long as the task is there and not settled: no
\* write of a row read before the marker was set takes it back, an append_message
\* that revives a settled task included.  DynamoDB's build_task_item drops it.
CancelStaysListed ==
  [][/\ backend # "dynamodb"
     /\ HasRow /\ row.cancel
     /\ row' # None /\ row'.status \notin TERMINAL_STATES
     => row' \in SqlCancelRequested']_vars

\* Listing the expired leases drops no lease that was stamped since the scan.
SweepKeepsRenewedLease ==
  [][\A c \in Callers :
       calls[c].op = "sweep" /\ calls'[c] # calls[c] /\ lease # calls[c].lease
         => lease' = lease]_vars
===============================================================================
