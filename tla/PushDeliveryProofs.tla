--------------------------- MODULE PushDeliveryProofs ---------------------------
(***************************************************************************)
(* TLAPS proofs about PushDelivery, for every number of configurations and *)
(* instances, with workers that pause anywhere.  ClaimInv is what makes    *)
(* the attempt budget and the finality of outcomes inductive: the          *)
(* generation a worker holds names it alone, and while the row is still    *)
(* under it, worker and row agree on the attempts made.                    *)
(***************************************************************************)
EXTENDS PushDelivery, TLAPS

ClaimsType ==
  /\ DOMAIN claims \subseteq Configs
  /\ claims \in [DOMAIN claims -> Claim]

WorkersType ==
  /\ DOMAIN workers \subseteq WorkerKeys
  /\ workers \in [DOMAIN workers -> Worker]

OthersType ==
  /\ task \in {"running", "terminal", "deleted"}
  /\ configs \in [Configs -> {"none", "eligible", "late"}]
  /\ marker \in 0..ClaimExpiry \cup {NoMarker}
  /\ jobs \in [JobKeys -> Job]
  /\ faults \in 0..MaxFaults
  /\ crashes \in 0..MaxCrashes
  /\ lost \subseteq Configs

\* Workers that have been given a claim.
Claimed == {k \in DOMAIN workers : workers[k].at # "claim"}

GenerationsGrow ==
  \A k \in Claimed :
    /\ Target(k) \in DOMAIN claims
    /\ workers[k].generation <= claims[Target(k)].generation

OneHolder ==
  \A k, l \in Claimed :
    Target(k) = Target(l) /\ workers[k].generation = workers[l].generation => k = l

CountsAgree ==
  \A k \in Claimed : HoldsClaim(k) => workers[k].count = claims[Target(k)].count

AttemptsLeft ==
  \A k \in DOMAIN workers : workers[k].at = "attempt" => workers[k].count < MaxAttempts

OutcomesKnown ==
  \A k \in DOMAIN workers : workers[k].at = "persist" => workers[k].outcome \in FinalStatus

FinalRowsExpired == \A c \in DOMAIN claims : Settled(c) => claims[c].ttl = 0

ClaimInv ==
  /\ ClaimsType
  /\ WorkersType
  /\ GenerationsGrow
  /\ OneHolder
  /\ CountsAgree
  /\ AttemptsLeft
  /\ OutcomesKnown
  /\ FinalRowsExpired

\* A row with an outcome stays as it is.
FinalStays ==
  \A c \in Configs : Settled(c) => c \in DOMAIN claims' /\ claims'[c] = claims[c]

LEMMA KeyParts ==
  ASSUME NEW k \in WorkerKeys
  PROVE  Target(k) \in Configs /\ Instance(k) \in Instances /\ k = <<k[1], Target(k)>>
  BY DEF WorkerKeys, JobKeys, Target, Instance

LEMMA Frame ==
  ASSUME ClaimInv, UNCHANGED <<claims, workers>>
  PROVE  ClaimInv' /\ FinalStays
  BY DEF ClaimInv, ClaimsType, WorkersType, GenerationsGrow, OneHolder, CountsAgree,
         AttemptsLeft, OutcomesKnown, FinalRowsExpired, FinalStays, Claimed, HoldsClaim,
         Settled

-------------------------------------------------------------------------------
(* How a step changes the workers while the claim rows stay *)

\* Workers leave, or appear without a claim.
LEMMA WorkersComeAndGo ==
  ASSUME ClaimInv, UNCHANGED claims,
         workers' = [k \in DOMAIN workers' |-> workers'[k]],
         \A k \in DOMAIN workers' :
           \/ k \in DOMAIN workers /\ workers'[k] = workers[k]
           \/ k \in WorkerKeys /\ workers'[k] \in Worker /\ workers'[k].at = "claim"
  PROVE  ClaimInv' /\ FinalStays
<1>1. WorkersType'
  BY DEF ClaimInv, WorkersType
<1>2. Claimed' \subseteq Claimed /\ \A k \in Claimed' : workers'[k] = workers[k]
  BY DEF Claimed
<1>3. GenerationsGrow' /\ OneHolder' /\ CountsAgree'
  BY <1>2 DEF ClaimInv, GenerationsGrow, OneHolder, CountsAgree, HoldsClaim
<1>4. AttemptsLeft' /\ OutcomesKnown'
  BY DEF ClaimInv, AttemptsLeft, OutcomesKnown
<1>5. QED
  BY <1>1, <1>3, <1>4 DEF ClaimInv, ClaimsType, FinalRowsExpired, FinalStays, Settled

\* A worker goes on under the claim it has.
LEMMA WorkerMoves ==
  ASSUME ClaimInv, UNCHANGED claims,
         NEW k \in Claimed, NEW w \in Worker,
         workers' = [workers EXCEPT ![k] = w],
         w.generation = workers[k].generation, w.count = workers[k].count,
         w.at # "claim",
         w.at = "attempt" => w.count < MaxAttempts,
         w.at = "persist" => w.outcome \in FinalStatus
  PROVE  ClaimInv' /\ FinalStays
<1>0. k \in DOMAIN workers /\ DOMAIN workers' = DOMAIN workers /\ workers'[k] = w
  BY DEF Claimed
<1>1. WorkersType'
  BY <1>0 DEF ClaimInv, WorkersType
<1>2. /\ Claimed' = Claimed
      /\ \A l \in Claimed : /\ workers'[l].generation = workers[l].generation
                            /\ workers'[l].count = workers[l].count
  BY <1>0 DEF Claimed
<1>3. GenerationsGrow' /\ OneHolder' /\ CountsAgree'
  BY <1>2 DEF ClaimInv, GenerationsGrow, OneHolder, CountsAgree, HoldsClaim
<1>4. AttemptsLeft' /\ OutcomesKnown'
  BY <1>0 DEF ClaimInv, AttemptsLeft, OutcomesKnown
<1>5. QED
  BY <1>1, <1>3, <1>4 DEF ClaimInv, ClaimsType, FinalRowsExpired, FinalStays, Settled

-------------------------------------------------------------------------------
(* The steps of one delivery *)

LEMMA ClaimDeliveryInv ==
  ASSUME ClaimInv, NEW k \in WorkerKeys, ClaimDelivery(k)
  PROVE  ClaimInv' /\ FinalStays
<1> DEFINE c == Target(k)
           fresh == c \notin DOMAIN claims
           generation == IF fresh THEN 1 ELSE claims[c].generation + 1
           count == IF fresh THEN 0 ELSE claims[c].count
           row == [status |-> "Pending", claimant |-> Instance(k),
                   generation |-> generation, count |-> count, ttl |-> ClaimExpiry]
           at == IF workers[k].abandon THEN "persist" ELSE "check"
           outcome == IF workers[k].abandon THEN "Abandoned" ELSE "none"
           w == [workers[k] EXCEPT !.at = at, !.outcome = outcome,
                                   !.generation = generation, !.count = count]
<1>1. /\ k \in DOMAIN workers /\ workers[k] \in Worker /\ workers[k].at = "claim"
      /\ c \in Configs /\ Instance(k) \in Instances
      /\ ~fresh => claims[c] \in Claim /\ ~Settled(c) /\ claims[c].generation < MaxGeneration
  BY KeyParts DEF ClaimDelivery, At, Claimable, ClaimInv, WorkersType, ClaimsType
<1>2. claims' = Put(claims, c, row) /\ workers' = [workers EXCEPT ![k] = w]
  BY DEF ClaimDelivery
<1>3. /\ generation \in 1..MaxGeneration /\ count \in 0..MaxAttempts
      /\ c \in DOMAIN claims => generation > claims[c].generation
  BY <1>1, CountsAssumption DEF Claim
<1> HIDE DEF generation, count
<1>4. /\ row \in Claim /\ row.status = "Pending"
      /\ row.count = count /\ row.generation = generation
  BY <1>1, <1>3, TimesAssumption DEF Claim
<1>15. /\ w \in Worker /\ w.at \in {"persist", "check"}
       /\ w.generation = generation /\ w.count = count
       /\ w.at = "persist" => w.outcome = "Abandoned"
  <2>1. /\ at \in {"persist", "check"}
        /\ outcome \in {"Abandoned", "none"}
        /\ at = "persist" => outcome = "Abandoned"
    OBVIOUS
  <2>2. generation \in 0..MaxGeneration
    BY <1>3, CountsAssumption
  <2> HIDE DEF at, outcome
  <2>3. QED
    BY <1>1, <1>3, <2>1, <2>2 DEF Worker, FinalStatus
<1> HIDE DEF row, w
<1>5. /\ DOMAIN workers' = DOMAIN workers /\ workers'[k] = w
      /\ \A l \in DOMAIN workers : l # k => workers'[l] = workers[l]
  BY <1>1, <1>2
<1>6. /\ DOMAIN claims' = DOMAIN claims \cup {c} /\ claims'[c] = row
      /\ \A d \in DOMAIN claims : d # c => claims'[d] = claims[d]
  BY <1>2 DEF Put
<1>7. ClaimsType' /\ WorkersType'
  <2>1. WorkersType'
    BY <1>2, <1>15, <1>5 DEF ClaimInv, WorkersType
  <2>2. ClaimsType'
    BY <1>1, <1>2, <1>4 DEF ClaimInv, ClaimsType, Put
  <2>3. QED
    BY <2>1, <2>2
<1>8. Claimed' = Claimed \cup {k} /\ k \notin Claimed
  BY <1>1, <1>15, <1>5 DEF Claimed
\* Every older claim of this row was given a smaller generation.
<1>9. \A l \in Claimed : Target(l) = c =>
        /\ c \in DOMAIN claims
        /\ workers[l].generation < generation
        /\ workers[l].generation \in Nat
  BY <1>1, <1>3 DEF ClaimInv, GenerationsGrow, Claimed, WorkersType, Worker, Claim
<1>10. GenerationsGrow' /\ OneHolder'
  <2>1. \A l \in Claimed : Target(l) # c => claims'[Target(l)] = claims[Target(l)]
    BY <1>6 DEF ClaimInv, GenerationsGrow
  <2>3. GenerationsGrow'
    <3> SUFFICES ASSUME NEW l \in Claimed'
                 PROVE  /\ Target(l) \in DOMAIN claims'
                        /\ workers'[l].generation <= claims'[Target(l)].generation
      BY DEF GenerationsGrow
    <3>1. CASE l = k
      BY <1>3, <1>4, <1>15, <1>5, <1>6, <3>1
    <3>2. CASE l # k
      <4>1. l \in Claimed /\ workers'[l] = workers[l]
        BY <1>5, <1>8, <3>2 DEF Claimed
      <4>2. CASE Target(l) = c
        BY <1>3, <1>4, <1>6, <1>9, <4>1, <4>2
      <4>3. CASE Target(l) # c
        BY <1>6, <2>1, <4>1, <4>3 DEF ClaimInv, GenerationsGrow
      <4>4. QED
        BY <4>2, <4>3
    <3>3. QED
      BY <3>1, <3>2
  <2>4. OneHolder'
    <3>1. ASSUME NEW l \in Claimed, Target(l) = c
          PROVE  workers'[l].generation # workers'[k].generation
      BY <1>3, <1>15, <1>5, <1>8, <1>9, <3>1 DEF Claimed
    <3>2. \A l \in Claimed : workers'[l].generation = workers[l].generation
      BY <1>5, <1>8 DEF Claimed
    <3>3. QED
      BY <1>8, <3>1, <3>2 DEF ClaimInv, OneHolder
  <2>5. QED
    BY <2>3, <2>4
<1>11. CountsAgree'
  <2> SUFFICES ASSUME NEW l \in Claimed', HoldsClaim(l)'
               PROVE  workers'[l].count = claims'[Target(l)].count
    BY DEF CountsAgree
  <2>1. CASE l = k
    BY <1>4, <1>15, <1>5, <1>6, <2>1
  <2>2. CASE l # k
    <3>1. l \in Claimed /\ workers'[l] = workers[l]
      BY <1>5, <1>8, <2>2 DEF Claimed
    <3>2. Target(l) # c
      BY <1>4, <1>6, <1>9, <3>1 DEF HoldsClaim
    <3>3. Target(l) \in DOMAIN claims /\ claims'[Target(l)] = claims[Target(l)]
      BY <1>6, <3>1, <3>2 DEF ClaimInv, GenerationsGrow
    <3>4. QED
      BY <3>1, <3>3 DEF ClaimInv, CountsAgree, HoldsClaim
  <2>3. QED
    BY <2>1, <2>2
<1>12. AttemptsLeft' /\ OutcomesKnown'
  BY <1>15, <1>5 DEF ClaimInv, AttemptsLeft, OutcomesKnown, FinalStatus
<1>13. FinalRowsExpired' /\ FinalStays
  BY <1>1, <1>4, <1>6 DEF ClaimInv, FinalRowsExpired, FinalStays, Settled, FinalStatus
<1>14. QED
  BY <1>7, <1>10, <1>11, <1>12, <1>13 DEF ClaimInv

LEMMA RecordAttemptInv ==
  ASSUME ClaimInv, NEW k \in WorkerKeys, RecordAttemptStarted(k)
  PROVE  ClaimInv' /\ FinalStays
<1> DEFINE c == Target(k)
           count == claims[c].count + 1
           row == [claims[c] EXCEPT !.status = "Attempting", !.count = count]
           w == [workers[k] EXCEPT !.at = "post", !.count = count,
                                   !.left = Timer(RequestTimeout)]
<1>1. /\ k \in Claimed /\ workers[k] \in Worker /\ workers[k].count < MaxAttempts
      /\ HoldsClaim(k) /\ ~Settled(c) /\ c \in DOMAIN claims /\ claims[c] \in Claim
  BY DEF RecordAttemptStarted, At, Claimed, ClaimInv, AttemptsLeft, WorkersType,
         ClaimsType, HoldsClaim
<1>2. claims' = [claims EXCEPT ![c] = row] /\ workers' = [workers EXCEPT ![k] = w]
  BY DEF RecordAttemptStarted
\* The row still counts what this worker has counted.
<1>3. count \in 0..MaxAttempts
  BY <1>1, CountsAssumption DEF ClaimInv, CountsAgree, Claim, Worker
<1>4. row \in Claim /\ row.count = count /\ row.generation = claims[c].generation
      /\ row.claimant = claims[c].claimant /\ row.status = "Attempting"
  BY <1>1, <1>3 DEF Claim
<1>5. /\ w \in Worker /\ w.at = "post" /\ w.count = count
      /\ w.generation = workers[k].generation
  <2>1. Timer(RequestTimeout) \in 0..RequestTimeout + BackoffCap
    BY TimesAssumption DEF Timer
  <2> HIDE DEF count
  <2>2. QED
    BY <1>1, <1>3, <2>1 DEF Worker
<1>6. /\ DOMAIN workers' = DOMAIN workers /\ workers'[k] = w
      /\ \A l \in DOMAIN workers : l # k => workers'[l] = workers[l]
      /\ DOMAIN claims' = DOMAIN claims /\ claims'[c] = row
      /\ \A d \in DOMAIN claims : d # c => claims'[d] = claims[d]
  BY <1>1, <1>2 DEF Claimed
<1>7. ClaimsType' /\ WorkersType'
  BY <1>2, <1>4, <1>5, <1>6 DEF ClaimInv, ClaimsType, WorkersType
<1>8. Claimed' = Claimed
  BY <1>1, <1>5, <1>6 DEF Claimed
<1>9. GenerationsGrow' /\ OneHolder'
  <2>1. /\ \A l \in Claimed : workers'[l].generation = workers[l].generation
        /\ \A d \in DOMAIN claims : claims'[d].generation = claims[d].generation
    BY <1>4, <1>5, <1>6 DEF Claimed
  <2>2. QED
    BY <1>6, <1>8, <2>1 DEF ClaimInv, GenerationsGrow, OneHolder
<1>10. CountsAgree'
  <2> SUFFICES ASSUME NEW l \in Claimed, HoldsClaim(l)'
               PROVE  workers'[l].count = claims'[Target(l)].count
    BY <1>8 DEF CountsAgree
  <2>1. CASE l = k
    BY <1>4, <1>5, <1>6, <2>1
  <2>2. CASE l # k
    <3>1. l \in DOMAIN workers /\ workers'[l] = workers[l]
      BY <1>6, <2>2 DEF Claimed
    \* Another worker of this row is under another generation.
    <3>2. Target(l) # c
      <4>1. ASSUME Target(l) = c
            PROVE  workers[l].generation = workers[k].generation
        <5>1. claims'[c].generation = workers'[l].generation
          BY <4>1 DEF HoldsClaim
        <5>2. claims[c].generation = workers[k].generation
          BY <1>1 DEF HoldsClaim
        <5> HIDE DEF row
        <5>3. QED
          BY <1>4, <1>6, <3>1, <5>1, <5>2
      <4>2. QED
        BY <1>1, <2>2, <4>1 DEF ClaimInv, OneHolder
    <3>3. Target(l) \in DOMAIN claims /\ claims'[Target(l)] = claims[Target(l)]
      BY <1>6, <3>2 DEF ClaimInv, GenerationsGrow
    <3>4. QED
      BY <3>1, <3>3 DEF ClaimInv, CountsAgree, HoldsClaim
  <2>3. QED
    BY <2>1, <2>2
<1>11. AttemptsLeft' /\ OutcomesKnown'
  BY <1>5, <1>6 DEF ClaimInv, AttemptsLeft, OutcomesKnown
<1>12. FinalRowsExpired' /\ FinalStays
  <2>1. ~Settled(c)'
    BY <1>4, <1>6 DEF Settled, FinalStatus
  <2>2. \A d \in DOMAIN claims : d # c => Settled(d)' = Settled(d)
    BY <1>6 DEF Settled
  <2>3. QED
    BY <1>1, <1>6, <2>1, <2>2 DEF ClaimInv, FinalRowsExpired, FinalStays, Settled
<1>13. QED
  BY <1>7, <1>9, <1>10, <1>11, <1>12 DEF ClaimInv

LEMMA PersistInv ==
  ASSUME ClaimInv, NEW k \in WorkerKeys, PersistTerminal(k)
  PROVE  ClaimInv' /\ FinalStays
<1> DEFINE c == Target(k)
           row == [claims[c] EXCEPT !.status = workers[k].outcome, !.ttl = 0]
<1>1. workers' = Drop(workers, {k})
  BY DEF PersistTerminal, Leave
<1>2. CASE UNCHANGED claims
  BY <1>1, <1>2, WorkersComeAndGo DEF Drop
<1>3. CASE HoldsClaim(k) /\ ~Settled(c) /\ claims' = [claims EXCEPT ![c] = row]
  <2>1. /\ c \in DOMAIN claims /\ claims[c] \in Claim
        /\ workers[k].outcome \in FinalStatus
    BY <1>3 DEF PersistTerminal, At, HoldsClaim, ClaimInv, ClaimsType, OutcomesKnown
  <2>2. /\ row \in Claim /\ row.generation = claims[c].generation
        /\ row.count = claims[c].count /\ row.claimant = claims[c].claimant
        /\ row.ttl = 0
    <3>1. 0 \in 0..ClaimExpiry
      BY TimesAssumption
    <3>2. QED
      BY <2>1, <3>1 DEF Claim
  <2> HIDE DEF row
  <2>3. /\ DOMAIN claims' = DOMAIN claims /\ claims'[c] = row
        /\ \A d \in DOMAIN claims : d # c => claims'[d] = claims[d]
    BY <1>3, <2>1
  <2>4. /\ Claimed' \subseteq Claimed
        /\ DOMAIN workers' \subseteq DOMAIN workers
        /\ \A l \in DOMAIN workers' : workers'[l] = workers[l]
    BY <1>1 DEF Drop, Claimed
  <2>5. ClaimsType' /\ WorkersType'
    BY <1>1, <1>3, <2>2, <2>3 DEF ClaimInv, ClaimsType, WorkersType, Drop
  <2>6. \A d \in DOMAIN claims : /\ claims'[d].generation = claims[d].generation
                                 /\ claims'[d].claimant = claims[d].claimant
                                 /\ claims'[d].count = claims[d].count
    BY <2>2, <2>3
  <2>7. GenerationsGrow' /\ OneHolder' /\ CountsAgree'
    BY <2>3, <2>4, <2>6
    DEF ClaimInv, GenerationsGrow, OneHolder, CountsAgree, HoldsClaim, Claimed
  <2>8. AttemptsLeft' /\ OutcomesKnown'
    BY <2>4 DEF ClaimInv, AttemptsLeft, OutcomesKnown
  <2>9. FinalRowsExpired' /\ FinalStays
    BY <1>3, <2>2, <2>3 DEF ClaimInv, FinalRowsExpired, FinalStays, Settled
  <2>10. QED
    BY <2>5, <2>7, <2>8, <2>9 DEF ClaimInv
<1>4. QED
  BY <1>2, <1>3 DEF PersistTerminal

LEMMA CheckTargetInv ==
  ASSUME ClaimInv, NEW k \in WorkerKeys, CheckTarget(k)
  PROVE  ClaimInv' /\ FinalStays
<1>1. k \in Claimed /\ workers[k] \in Worker
  BY DEF CheckTarget, At, Claimed, ClaimInv, WorkersType
<1>2. ASSUME NEW outcome \in {"GaveUp", "Abandoned"}, WithOutcome(k, outcome)
      PROVE  ClaimInv' /\ FinalStays
  <2> DEFINE w == [workers[k] EXCEPT !.at = "persist", !.outcome = outcome]
  <2>1. w \in Worker /\ w.at = "persist" /\ w.outcome \in FinalStatus
        /\ w.generation = workers[k].generation /\ w.count = workers[k].count
    BY <1>1 DEF Worker, FinalStatus
  <2>2. workers' = [workers EXCEPT ![k] = w] /\ UNCHANGED claims
    BY <1>2 DEF WithOutcome, CheckTarget
  <2> HIDE DEF w
  <2>3. QED
    BY <1>1, <2>1, <2>2, WorkerMoves
<1>3. CASE workers[k].count < MaxAttempts /\ workers' = [workers EXCEPT ![k].at = "attempt"]
  <2> DEFINE w == [workers[k] EXCEPT !.at = "attempt"]
  <2>1. w \in Worker /\ w.at = "attempt"
        /\ w.generation = workers[k].generation /\ w.count = workers[k].count
    BY <1>1 DEF Worker
  <2>2. workers' = [workers EXCEPT ![k] = w] /\ UNCHANGED claims
    BY <1>3 DEF CheckTarget
  <2> HIDE DEF w
  <2>3. QED
    BY <1>1, <1>3, <2>1, <2>2, WorkerMoves
<1>4. QED
  BY <1>2, <1>3 DEF CheckTarget

LEMMA PostAnsweredInv ==
  ASSUME ClaimInv, NEW k \in WorkerKeys, PostAnswered(k)
  PROVE  ClaimInv' /\ FinalStays
<1>1. k \in Claimed /\ workers[k] \in Worker
  BY DEF PostAnswered, At, Claimed, ClaimInv, WorkersType
<1>2. ASSUME NEW outcome \in {"Succeeded", "GaveUp"}, WithOutcome(k, outcome)
      PROVE  ClaimInv' /\ FinalStays
  <2> DEFINE w == [workers[k] EXCEPT !.at = "persist", !.outcome = outcome]
  <2>1. w \in Worker /\ w.at = "persist" /\ w.outcome \in FinalStatus
        /\ w.generation = workers[k].generation /\ w.count = workers[k].count
    BY <1>1 DEF Worker, FinalStatus
  <2>2. workers' = [workers EXCEPT ![k] = w] /\ UNCHANGED claims
    BY <1>2 DEF WithOutcome, PostAnswered
  <2> HIDE DEF w
  <2>3. QED
    BY <1>1, <2>1, <2>2, WorkerMoves
<1>3. CASE workers' = [workers EXCEPT ![k] =
                         [@ EXCEPT !.at = "sleep", !.left = Timer(BackoffCap)]]
  <2> DEFINE w == [workers[k] EXCEPT !.at = "sleep", !.left = Timer(BackoffCap)]
  <2>1. Timer(BackoffCap) \in 0..RequestTimeout + BackoffCap
    BY TimesAssumption DEF Timer
  <2>2. w \in Worker /\ w.at = "sleep"
        /\ w.generation = workers[k].generation /\ w.count = workers[k].count
    BY <1>1, <2>1 DEF Worker
  <2>3. workers' = [workers EXCEPT ![k] = w] /\ UNCHANGED claims
    BY <1>3 DEF PostAnswered
  <2> HIDE DEF w
  <2>4. QED
    BY <1>1, <2>2, <2>3, WorkerMoves
<1>4. QED
  BY <1>2, <1>3 DEF PostAnswered

LEMMA WakeUpInv ==
  ASSUME ClaimInv, NEW k \in WorkerKeys, WakeUp(k)
  PROVE  ClaimInv' /\ FinalStays
<1> DEFINE w == [workers[k] EXCEPT !.at = "check", !.left = 0]
<1>1. k \in Claimed /\ workers[k] \in Worker
  BY DEF WakeUp, At, Claimed, ClaimInv, WorkersType
<1>2. w \in Worker /\ w.at = "check"
      /\ w.generation = workers[k].generation /\ w.count = workers[k].count
  <2>1. 0 \in 0..RequestTimeout + BackoffCap
    BY TimesAssumption
  <2>2. QED
    BY <1>1, <2>1 DEF Worker
<1>3. workers' = [workers EXCEPT ![k] = w] /\ UNCHANGED claims
  BY DEF WakeUp
<1> HIDE DEF w
<1>4. QED
  BY <1>1, <1>2, <1>3, WorkerMoves

LEMMA DeliverInv ==
  ASSUME ClaimInv, NEW k \in WorkerKeys, Deliver(k)
  PROVE  ClaimInv' /\ FinalStays
<1>1. CASE ClaimRefused(k)
  BY <1>1, WorkersComeAndGo DEF ClaimRefused, Leave, Drop
<1>2. CASE AttemptRefused(k)
  BY <1>2, WorkersComeAndGo DEF AttemptRefused, Leave, Drop
<1>3. QED
  BY <1>1, <1>2, ClaimDeliveryInv, RecordAttemptInv, PersistInv, CheckTargetInv,
     PostAnsweredInv, WakeUpInv DEF Deliver

-------------------------------------------------------------------------------
(* Every step *)

LEMMA FreshWorkerType ==
  ASSUME NEW abandon \in BOOLEAN
  PROVE  FreshWorker(abandon) \in Worker /\ FreshWorker(abandon).at = "claim"
<1>1. 0 \in 0..RequestTimeout + BackoffCap /\ 0 \in 0..MaxAttempts /\ 0 \in 0..MaxGeneration
  BY TimesAssumption, CountsAssumption
<1>2. QED
  BY <1>1 DEF FreshWorker, Worker, FinalStatus

LEMMA FanoutListInv ==
  ASSUME ClaimInv, NEW j \in JobKeys, FanoutList(j)
  PROVE  ClaimInv' /\ FinalStays
<1> DEFINE eligible == {c \in Configs : configs[c] = "eligible"}
<1>1. CASE UNCHANGED workers
  BY <1>1, Frame DEF FanoutList
<1>2. CASE workers' = [k \in DOMAIN workers \cup ({j} \X eligible) |->
                         IF k \in DOMAIN workers THEN workers[k] ELSE FreshWorker(FALSE)]
  <2>1. {j} \X eligible \subseteq WorkerKeys
    BY DEF WorkerKeys
  <2>2. UNCHANGED claims
    BY DEF FanoutList
  <2>3. QED
    BY <1>2, <2>1, <2>2, FreshWorkerType, WorkersComeAndGo
<1>3. QED
  BY <1>1, <1>2 DEF FanoutList

LEMMA RedispatchOneInv ==
  ASSUME ClaimInv, NEW i \in Instances, NEW c \in Configs, RedispatchOne(i, c)
  PROVE  ClaimInv' /\ FinalStays
<1> DEFINE j == <<i, "sweep">>
           abandon == task = "deleted" \/ ~Exists(c)
<1>1. CASE UNCHANGED workers
  BY <1>1, Frame DEF RedispatchOne
<1>2. CASE workers' = Put(workers, <<j, c>>, FreshWorker(abandon))
  <2>1. <<j, c>> \in WorkerKeys
    BY DEF WorkerKeys, JobKeys
  <2>2. UNCHANGED claims
    BY DEF RedispatchOne
  <2>3. FreshWorker(abandon) \in Worker /\ FreshWorker(abandon).at = "claim"
    BY FreshWorkerType
  <2> HIDE DEF j, abandon
  <2>4. QED
    BY <1>2, <2>1, <2>2, <2>3, WorkersComeAndGo DEF Put
<1>3. QED
  BY <1>1, <1>2 DEF RedispatchOne

\* The clock ages rows and timers and touches nothing else.
LEMMA TickInv ==
  ASSUME ClaimInv, Tick
  PROVE  ClaimInv' /\ FinalStays
<1>1. /\ DOMAIN claims' = DOMAIN claims /\ DOMAIN workers' = DOMAIN workers
      /\ claims' = [c \in DOMAIN claims |-> [claims[c] EXCEPT !.ttl = Less(@)]]
      /\ workers' = [k \in DOMAIN workers |-> [workers[k] EXCEPT !.left = Less(@)]]
  BY DEF Tick
<1>2. ASSUME NEW c \in DOMAIN claims
      PROVE  /\ claims'[c] \in Claim
             /\ claims'[c].status = claims[c].status
             /\ claims'[c].claimant = claims[c].claimant
             /\ claims'[c].generation = claims[c].generation
             /\ claims'[c].count = claims[c].count
             /\ claims[c].ttl = 0 => claims'[c] = claims[c]
  <2>1. claims[c] \in Claim
    BY DEF ClaimInv, ClaimsType
  <2>2. Less(claims[c].ttl) \in 0..ClaimExpiry /\ Less(0) = 0
    BY <2>1, TimesAssumption DEF Claim, Less
  <2> DEFINE ttl == Less(claims[c].ttl)
  <2>3. claims'[c] = [claims[c] EXCEPT !.ttl = ttl]
    BY <1>1
  <2>4. claims[c].ttl = 0 => ttl = claims[c].ttl
    BY <2>2
  <2>5. ttl \in 0..ClaimExpiry
    BY <2>2
  <2> HIDE DEF ttl
  <2>6. QED
    BY <2>1, <2>3, <2>4, <2>5 DEF Claim
<1>3. ASSUME NEW k \in DOMAIN workers
      PROVE  /\ workers'[k] \in Worker
             /\ workers'[k].at = workers[k].at
             /\ workers'[k].generation = workers[k].generation
             /\ workers'[k].count = workers[k].count
             /\ workers'[k].outcome = workers[k].outcome
  <2>1. workers[k] \in Worker
    BY DEF ClaimInv, WorkersType
  <2> DEFINE left == Less(workers[k].left)
  <2>2. left \in 0..RequestTimeout + BackoffCap
    BY <2>1, TimesAssumption DEF Worker, Less
  <2>3. workers'[k] = [workers[k] EXCEPT !.left = left]
    BY <1>1
  <2> HIDE DEF left
  <2>4. QED
    BY <2>1, <2>2, <2>3 DEF Worker
<1>4. ClaimsType' /\ WorkersType'
  BY <1>1, <1>2, <1>3 DEF ClaimInv, ClaimsType, WorkersType
<1>5. Claimed' = Claimed
  BY <1>1, <1>3 DEF Claimed
<1>6. GenerationsGrow' /\ OneHolder' /\ CountsAgree'
  BY <1>1, <1>2, <1>3, <1>5
  DEF ClaimInv, GenerationsGrow, OneHolder, CountsAgree, HoldsClaim, Claimed
<1>7. AttemptsLeft' /\ OutcomesKnown'
  BY <1>1, <1>3 DEF ClaimInv, AttemptsLeft, OutcomesKnown
<1>8. FinalRowsExpired' /\ FinalStays
  BY <1>1, <1>2 DEF ClaimInv, FinalRowsExpired, FinalStays, Settled
<1>9. QED
  BY <1>4, <1>6, <1>7, <1>8 DEF ClaimInv

LEMMA StepInv ==
  ASSUME ClaimInv, [Next]_vars
  PROVE  ClaimInv' /\ FinalStays
<1>1. CASE \E i \in Instances : Commit(i) \/ Dispatch(i)
  BY <1>1, Frame DEF Commit, Dispatch
<1>2. CASE \E i \in Instances : Sweep(i)
  <2>1. PICK i \in Instances : Sweep(i)
    BY <1>2
  <2>2. CASE \E c \in Configs : RedispatchOne(i, c)
    BY <2>2, RedispatchOneInv
  <2>3. CASE UNCHANGED <<claims, workers>>
    BY <2>3, Frame
  <2>4. QED
    BY <2>1, <2>2, <2>3
    DEF Sweep, SweepTick, RedispatchLoad, RedispatchLoadFails, RedispatchRefresh,
        ListReclaimable, SweepDone
<1>3. CASE \E i \in Instances : Crash(i)
  BY <1>3, WorkersComeAndGo DEF Crash, Drop
<1>4. CASE (\E c \in Configs : Register(c) \/ DeleteConfig(c)) \/ DeleteTask
  BY <1>4, Frame DEF Register, DeleteConfig, DeleteTask
<1>5. CASE \E j \in JobKeys : FanOut(j)
  BY <1>5, FanoutListInv, Frame DEF FanOut, FanoutListFails, FanoutJoin
<1>6. CASE \E k \in WorkerKeys : Deliver(k)
  BY <1>6, DeliverInv
<1>7. CASE Tick
  BY <1>7, TickInv
<1>8. CASE UNCHANGED vars
  BY <1>8, Frame DEF vars
<1>9. QED
  BY <1>1, <1>2, <1>3, <1>4, <1>5, <1>6, <1>7, <1>8 DEF Next

LEMMA Inductive == Spec => []ClaimInv
<1>1. Init => ClaimInv
  BY DEF Init, ClaimInv, ClaimsType, WorkersType, GenerationsGrow, OneHolder, CountsAgree,
         AttemptsLeft, OutcomesKnown, FinalRowsExpired, Claimed
<1>2. ClaimInv /\ [Next]_vars => ClaimInv'
  BY StepInv
<1>3. QED
  BY <1>1, <1>2, PTL DEF Spec

\* Across reclaims, crashes and stalled workers, at most MaxAttempts POSTs are
\* counted for a configuration.
THEOREM AttemptsWithinBudgetAlways == Spec => []AttemptsWithinBudget
<1>1. ClaimInv => AttemptsWithinBudget
  BY CountsAssumption DEF ClaimInv, ClaimsType, Claim, AttemptsWithinBudget
<1>2. QED
  BY <1>1, Inductive, PTL

LEMMA FinalStep ==
  ClaimInv /\ [Next]_vars =>
    [\A c \in Configs : Settled(c) => c \in DOMAIN claims' /\ claims'[c] = claims[c]]_vars
  BY StepInv, Zenon DEF FinalStays

\* No worker, sweep or clock rewrites a row that has an outcome.
THEOREM OutcomeIsFinalAlways == Spec => OutcomeIsFinal
  BY FinalStep, Inductive, PTL DEF Spec, OutcomeIsFinal

-------------------------------------------------------------------------------
(* Type correctness *)

LEMMA OthersStep ==
  ASSUME ClaimInv, OthersType, [Next]_vars
  PROVE  OthersType'
<1> USE TimesAssumption, MarkerAssumption, BudgetsAssumption
<1>1. ASSUME NEW j \in JobKeys, NEW at \in {"committed", "load", "refresh", "list", "join",
                                            "claims", "reclaim"}, Goto(j, at)
      PROVE  jobs' \in [JobKeys -> Job]
  BY <1>1 DEF Goto, OthersType, Job
<1>2. ASSUME NEW j \in JobKeys, Finish(j)
      PROVE  jobs' \in [JobKeys -> Job]
  BY <1>2 DEF Finish, Idle, OthersType, Job
<1>3. ASSUME NEW j \in JobKeys, AfterFanout(j)
      PROVE  jobs' \in [JobKeys -> Job]
  BY <1>1, <1>2, <1>3 DEF AfterFanout
<1>4. ASSUME NEW kind, Fails(kind)
      PROVE  faults' \in 0..MaxFaults
  BY <1>4 DEF Fails, OthersType
<1>5. \A i \in Instances : <<i, "dispatch">> \in JobKeys /\ <<i, "sweep">> \in JobKeys
  BY DEF JobKeys
<1>6. 0 \in 0..ClaimExpiry
  OBVIOUS
<1>7. CASE \E i \in Instances : Commit(i)
  BY <1>1, <1>5, <1>6, <1>7 DEF Commit, OthersType
<1>8. CASE \E i \in Instances : Dispatch(i)
  BY <1>1, <1>5, <1>8 DEF Dispatch, OthersType
<1>9. CASE \E i \in Instances : Sweep(i)
  <2>1. PICK i \in Instances : Sweep(i)
    BY <1>9
  <2> DEFINE j == <<i, "sweep">>
  <2>2. j \in JobKeys
    BY <1>5
  <2> HIDE DEF j
  <2>3. CASE SweepTick(i)
    BY <1>1, <2>2, <2>3 DEF SweepTick, OthersType, j
  <2>4. CASE RedispatchLoad(i) \/ RedispatchLoadFails(i)
    BY <1>1, <1>4, <2>2, <2>4 DEF RedispatchLoad, RedispatchLoadFails, OthersType, j
  <2>5. CASE RedispatchRefresh(i)
    BY <1>1, <1>4, <1>6, <2>2, <2>5 DEF RedispatchRefresh, NoFault, OthersType, j
  <2>6. CASE ListReclaimable(i)
    <3>1. Reclaimable \subseteq Configs
      BY DEF Reclaimable, ClaimInv, ClaimsType
    <3>2. QED
      BY <2>2, <2>6, <3>1 DEF ListReclaimable, OthersType, Idle, Job, j
  <2>7. CASE SweepDone(i)
    BY <1>2, <2>2, <2>7 DEF SweepDone, OthersType, j
  <2>8. CASE \E c \in Configs : RedispatchOne(i, c)
    <3>1. jobs' \in [JobKeys -> Job]
      BY <2>2, <2>8 DEF RedispatchOne, OthersType, Job, j
    <3>2. faults' \in 0..MaxFaults
      BY <1>4, <2>8 DEF RedispatchOne, NoFault, OthersType
    <3>3. QED
      BY <2>8, <3>1, <3>2 DEF RedispatchOne, OthersType
  <2>9. QED
    BY <2>1, <2>3, <2>4, <2>5, <2>6, <2>7, <2>8 DEF Sweep
<1>10. CASE \E i \in Instances : Crash(i)
  BY <1>10 DEF Crash, OthersType, Idle, Job
<1>11. CASE (\E c \in Configs : Register(c) \/ DeleteConfig(c)) \/ DeleteTask
  BY <1>11 DEF Register, DeleteConfig, DeleteTask, OthersType
<1>12. CASE \E j \in JobKeys : FanOut(j)
  <2>1. PICK j \in JobKeys : FanOut(j)
    BY <1>12
  <2>2. CASE FanoutList(j)
    BY <1>1, <1>3, <2>2 DEF FanoutList, OthersType
  <2>3. CASE FanoutListFails(j)
    BY <1>3, <1>4, <2>3 DEF FanoutListFails, OthersType
  <2>4. CASE FanoutJoin(j)
    BY <1>3, <2>4 DEF FanoutJoin, OthersType
  <2>5. QED
    BY <2>1, <2>2, <2>3, <2>4 DEF FanOut
<1>13. CASE \E k \in WorkerKeys : Deliver(k)
  <2>1. PICK k \in WorkerKeys : Deliver(k)
    BY <1>13
  <2>2. UNCHANGED <<task, configs, marker, jobs, crashes>>
    BY <2>1 DEF Deliver, ClaimDelivery, ClaimRefused, CheckTarget, RecordAttemptStarted,
                AttemptRefused, PostAnswered, WakeUp, PersistTerminal
  <2>3. faults' \in 0..MaxFaults
    BY <1>4, <2>1
    DEF Deliver, ClaimDelivery, ClaimRefused, CheckTarget, RecordAttemptStarted,
        AttemptRefused, PostAnswered, WakeUp, PersistTerminal, NoFault, OthersType
  <2>4. lost' \subseteq Configs
    <3>1. Target(k) \in Configs
      BY KeyParts
    <3>2. QED
      BY <2>1, <3>1
      DEF Deliver, ClaimDelivery, ClaimRefused, CheckTarget, RecordAttemptStarted,
          AttemptRefused, PostAnswered, WakeUp, PersistTerminal, OthersType
  <2>5. QED
    BY <2>2, <2>3, <2>4 DEF OthersType
<1>14. CASE Tick
  <2>1. marker' \in 0..ClaimExpiry \cup {NoMarker}
    <3>1. CASE marker \in {NoMarker, ClaimExpiry}
      BY <1>14, <3>1 DEF Tick, OthersType
    <3>2. CASE marker \notin {NoMarker, ClaimExpiry}
      <4>1. marker \in 0..ClaimExpiry /\ marker # ClaimExpiry
        BY <3>2 DEF OthersType
      <4>2. marker + 1 \in 0..ClaimExpiry
        BY <4>1
      <4>3. marker' = marker + 1
        BY <1>14, <3>2 DEF Tick
      <4>4. QED
        BY <4>2, <4>3
    <3>3. QED
      BY <3>1, <3>2
  <2>2. QED
    BY <1>14, <2>1 DEF Tick, OthersType
<1>15. CASE UNCHANGED vars
  BY <1>15 DEF vars, OthersType
<1>16. QED
  BY <1>7, <1>8, <1>9, <1>10, <1>11, <1>12, <1>13, <1>14, <1>15 DEF Next

LEMMA OthersAlways == Spec => [](ClaimInv /\ OthersType)
<1>1. Init => OthersType
  BY TimesAssumption, BudgetsAssumption DEF Init, OthersType, Idle, Job
<1>2. ClaimInv /\ OthersType /\ [Next]_vars => OthersType'
  BY OthersStep
<1>3. QED
  BY <1>1, <1>2, Inductive, PTL DEF Spec

\* Rows, jobs, workers and timers keep their types; a count stays in its range
\* only because of ClaimInv.
THEOREM DeliveryTypeCorrect == Spec => []TypeOK
<1>1. ClaimInv /\ OthersType => TypeOK
  BY DEF ClaimInv, ClaimsType, WorkersType, OthersType, TypeOK
<1>2. QED
  BY <1>1, OthersAlways, PTL

-------------------------------------------------------------------------------
(* What is owed stays recoverable *)

\* What has become of the delivery to c: a row, or an error before there was one.
Accounted(c) == c \in DOMAIN claims \/ c \in lost

\* A fan-out that waits has a delivery for each eligible config, or knows what
\* has become of it.
JoinCovers ==
  \A j \in JobKeys, c \in Configs :
    jobs[j].at = "join" /\ configs[c] = "eligible" =>
      Accounted(c) \/ <<j, c>> \in DOMAIN workers

\* A delivery leaves with a row behind it, or as a lost one.
LEMMA LeavesClaimed ==
  ASSUME ClaimInv, NEW k \in WorkerKeys, Deliver(k)
  PROVE  /\ \A c \in Configs : Accounted(c) => Accounted(c)'
         /\ \A l \in DOMAIN workers \ DOMAIN workers' : Accounted(Target(l))'
<1> USE DEF Accounted
<1>1. CASE ClaimDelivery(k)
  BY <1>1 DEF ClaimDelivery, Put
<1>2. CASE ClaimRefused(k)
  BY <1>2 DEF ClaimRefused, Fails, Leave, Drop
<1>3. CASE CheckTarget(k) \/ PostAnswered(k) \/ WakeUp(k)
  BY <1>3 DEF CheckTarget, PostAnswered, WakeUp, WithOutcome
<1>4. CASE RecordAttemptStarted(k)
  BY <1>4 DEF RecordAttemptStarted
<1>5. CASE AttemptRefused(k) \/ PersistTerminal(k)
  <2>1. k \in Claimed
    BY <1>5 DEF AttemptRefused, PersistTerminal, At, Claimed
  <2>2. Target(k) \in DOMAIN claims
    BY <2>1 DEF ClaimInv, GenerationsGrow
  <2>3. DOMAIN claims' = DOMAIN claims /\ workers' = Drop(workers, {k}) /\ UNCHANGED lost
    BY <1>5 DEF AttemptRefused, PersistTerminal, Leave
  <2>4. QED
    BY <2>2, <2>3 DEF Drop
<1>6. QED
  BY <1>1, <1>2, <1>3, <1>4, <1>5 DEF Deliver

OwedInv == JoinCovers /\ OwedIsRecoverable

\* No fan-out starts to wait.
NoNewJoin == \A j \in JobKeys : jobs'[j].at = "join" => jobs[j].at = "join"

LEMMA JobSteps ==
  ASSUME OthersType, NEW j \in JobKeys,
         \/ \E at \in {"load", "refresh", "list", "claims"} : Goto(j, at)
         \/ Finish(j)
         \/ AfterFanout(j)
  PROVE  NoNewJoin
<1>1. ASSUME NEW at, at # "join", Goto(j, at)
      PROVE  NoNewJoin
  BY <1>1 DEF NoNewJoin, Goto, OthersType, Job
<1>2. CASE Finish(j)
  BY <1>2 DEF NoNewJoin, Finish, Idle, OthersType
<1>3. QED
  BY <1>1, <1>2 DEF AfterFanout

LEMMA SweepJobs ==
  ASSUME OthersType, NEW i \in Instances, Sweep(i)
  PROVE  NoNewJoin
<1> DEFINE j == <<i, "sweep">>
<1>1. j \in JobKeys
  BY DEF JobKeys
<1> HIDE DEF j
<1>2. CASE SweepTick(i) \/ RedispatchLoad(i) \/ RedispatchLoadFails(i) \/ RedispatchRefresh(i)
  <2>1. \E at \in {"load", "refresh", "list", "claims"} : Goto(j, at)
    BY <1>2 DEF SweepTick, RedispatchLoad, RedispatchLoadFails, RedispatchRefresh, j
  <2>2. QED
    BY <1>1, <2>1, JobSteps
<1>3. CASE ListReclaimable(i)
  BY <1>1, <1>3 DEF ListReclaimable, Idle, NoNewJoin, OthersType, Job, j
<1>4. CASE SweepDone(i)
  BY <1>1, <1>4, JobSteps DEF SweepDone, j
<1>5. CASE \E c \in Configs : RedispatchOne(i, c)
  BY <1>1, <1>5 DEF RedispatchOne, NoNewJoin, OthersType, Job, j
<1>6. QED
  BY <1>2, <1>3, <1>4, <1>5 DEF Sweep

LEMMA ClockKeepsMarker ==
  ASSUME OthersType, Tick, marker # NoMarker
  PROVE  marker' # NoMarker
<1>1. CASE marker = ClaimExpiry
  BY <1>1 DEF Tick
<1>2. CASE marker # ClaimExpiry
  <2>1. marker \in 0..ClaimExpiry
    BY DEF OthersType
  <2>2. marker + 1 \in 0..ClaimExpiry
    BY <1>2, <2>1, TimesAssumption
  <2>3. marker' = marker + 1
    BY <1>2 DEF Tick
  <2>4. QED
    BY <2>2, <2>3, MarkerAssumption
<1>3. QED
  BY <1>1, <1>2

LEMMA OwedStep ==
  ASSUME ClaimInv, OthersType, OwedInv, [Next]_vars
  PROVE  OwedInv'
<1> USE DEF OwedInv, Accounted
<1>0. 0 # NoMarker
  BY TimesAssumption, MarkerAssumption
<1>1. CASE \E i \in Instances : Commit(i)
  <2>1. JoinCovers'
    BY <1>1 DEF Commit, Goto, JoinCovers, OthersType
  <2>2. OwedIsRecoverable'
    BY <1>0, <1>1 DEF Commit, Exists, OwedIsRecoverable
  <2>3. QED
    BY <2>1, <2>2
<1>2. CASE \E i \in Instances : Dispatch(i)
  BY <1>2 DEF Dispatch, Goto, JoinCovers, OwedIsRecoverable, OthersType
<1>3. CASE \E i \in Instances : Sweep(i)
  <2>1. PICK i \in Instances : Sweep(i)
    BY <1>3
  <2>2. JoinCovers'
    <3>1. NoNewJoin
      BY <2>1, SweepJobs
    <3>2. UNCHANGED <<configs, claims, lost>> /\ DOMAIN workers \subseteq DOMAIN workers'
      BY <2>1
      DEF Sweep, SweepTick, RedispatchLoad, RedispatchLoadFails, RedispatchRefresh,
          ListReclaimable, SweepDone, RedispatchOne, Put
    <3>3. QED
      BY <3>1, <3>2 DEF JoinCovers, NoNewJoin
  <2>3. OwedIsRecoverable'
    <3>1. UNCHANGED <<task, configs, claims, lost>>
      BY <2>1
      DEF Sweep, SweepTick, RedispatchLoad, RedispatchLoadFails, RedispatchRefresh,
          ListReclaimable, SweepDone, RedispatchOne
    \* A sweep drops the marker of a deleted task only.
    <3>2. task = "terminal" /\ marker # NoMarker => marker' # NoMarker
      BY <1>0, <2>1
      DEF Sweep, SweepTick, RedispatchLoad, RedispatchLoadFails, RedispatchRefresh,
          ListReclaimable, SweepDone, RedispatchOne
    <3>3. QED
      BY <3>1, <3>2 DEF OwedIsRecoverable
  <2>4. QED
    BY <2>2, <2>3
<1>4. CASE \E i \in Instances : Crash(i)
  <2>1. PICK i \in Instances : Crash(i)
    BY <1>4
  <2>2. \A j \in JobKeys : jobs'[j].at = "join" => jobs[j].at = "join" /\ j[1] # i
    BY <2>1 DEF Crash, Idle
  <2>3. \A j \in JobKeys, c \in Configs :
          j[1] # i /\ <<j, c>> \in DOMAIN workers => <<j, c>> \in DOMAIN workers'
    BY <2>1 DEF Crash, Drop, Instance
  <2>4. JoinCovers'
    BY <2>1, <2>2, <2>3 DEF Crash, JoinCovers
  <2>5. QED
    BY <2>1, <2>4 DEF Crash, OwedIsRecoverable
<1>5. CASE (\E c \in Configs : Register(c) \/ DeleteConfig(c)) \/ DeleteTask
  BY <1>5 DEF Register, DeleteConfig, DeleteTask, JoinCovers, OwedIsRecoverable, OthersType
<1>6. CASE \E j \in JobKeys : FanOut(j)
  <2>1. PICK j \in JobKeys : FanOut(j)
    BY <1>6
  <2>2. CASE FanoutList(j)
    <3>1. CASE \E c \in Configs : configs[c] = "eligible"
      <4>1. /\ UNCHANGED <<task, configs, marker, claims, lost>>
            /\ jobs' = [jobs EXCEPT ![j].at = "join"]
            /\ DOMAIN workers' =
                 DOMAIN workers \cup ({j} \X {c \in Configs : configs[c] = "eligible"})
        BY <2>2, <3>1 DEF FanoutList, Goto
      <4>2. \A l \in JobKeys : l # j => jobs'[l] = jobs[l]
        BY <4>1 DEF OthersType
      <4>3. JoinCovers'
        BY <4>1, <4>2 DEF JoinCovers
      <4>4. QED
        BY <4>1, <4>3 DEF OwedIsRecoverable
    <3>2. CASE ~ \E c \in Configs : configs[c] = "eligible"
      BY <2>2, <3>2 DEF FanoutList, JoinCovers, OwedIsRecoverable
    <3>3. QED
      BY <3>1, <3>2
  <2>3. CASE FanoutListFails(j)
    <3>1. NoNewJoin
      BY <2>3, JobSteps DEF FanoutListFails
    <3>2. QED
      BY <2>3, <3>1 DEF FanoutListFails, NoNewJoin, JoinCovers, OwedIsRecoverable
  <2>4. CASE FanoutJoin(j)
    \* No delivery is left, so each eligible config has its row, or is lost.
    <3>1. \A c \in Configs : configs[c] = "eligible" => Accounted(c)
      <4>1. \A c \in Configs : <<j, c>> \notin DOMAIN workers
        BY <2>4 DEF FanoutJoin, WorkersOf
      <4>2. jobs[j].at = "join"
        BY <2>4 DEF FanoutJoin
      <4>3. QED
        BY <4>1, <4>2 DEF JoinCovers
    <3>2. QED
      BY <2>4, <3>1 DEF FanoutJoin, JoinCovers, OwedIsRecoverable
  <2>5. QED
    BY <2>1, <2>2, <2>3, <2>4 DEF FanOut
<1>7. CASE \E k \in WorkerKeys : Deliver(k)
  <2>1. PICK k \in WorkerKeys : Deliver(k)
    BY <1>7
  <2>2. UNCHANGED <<task, configs, marker, jobs>>
    BY <2>1 DEF Deliver, ClaimDelivery, ClaimRefused, CheckTarget, RecordAttemptStarted,
                AttemptRefused, PostAnswered, WakeUp, PersistTerminal
  <2>3. JoinCovers'
    <3>1. \A c \in Configs : Accounted(c) => Accounted(c)'
      BY <2>1, LeavesClaimed
    <3>2. \A j \in JobKeys, c \in Configs :
            <<j, c>> \in DOMAIN workers => <<j, c>> \in DOMAIN workers' \/ Accounted(c)'
      BY <2>1, LeavesClaimed DEF Target
    <3> HIDE DEF Accounted
    <3>3. QED
      BY <2>2, <3>1, <3>2 DEF JoinCovers
  <2>4. OwedIsRecoverable'
    <3>1. \A c \in Configs : Accounted(c) => Accounted(c)'
      BY <2>1, LeavesClaimed
    <3>2. QED
      BY <2>2, <3>1 DEF OwedIsRecoverable
  <2>5. QED
    BY <2>3, <2>4
<1>8. CASE Tick
  <2>1. marker # NoMarker => marker' # NoMarker
    BY <1>8, ClockKeepsMarker
  <2>2. UNCHANGED <<task, configs, jobs, lost>>
        /\ DOMAIN claims' = DOMAIN claims /\ DOMAIN workers' = DOMAIN workers
    BY <1>8 DEF Tick
  <2>3. QED
    BY <2>1, <2>2 DEF JoinCovers, OwedIsRecoverable
<1>9. CASE UNCHANGED vars
  BY <1>9 DEF vars, JoinCovers, OwedIsRecoverable
<1>10. QED
  BY <1>1, <1>2, <1>3, <1>4, <1>5, <1>6, <1>7, <1>8, <1>9 DEF Next

\* Whatever store calls fail and whoever crashes, a config that is owed the
\* event has a marker or a claim row for a sweep to find, unless the claim call
\* of its own delivery failed before there was a row.
THEOREM OwedIsRecoverableAlways == Spec => []OwedIsRecoverable
<1>1. Init => OwedInv
  BY DEF Init, OwedInv, JoinCovers, OwedIsRecoverable, Idle
<1>2. ClaimInv /\ OthersType /\ OwedInv /\ [Next]_vars => OwedInv'
  BY OwedStep
<1>3. OwedInv => OwedIsRecoverable
  BY DEF OwedInv
<1>4. QED
  BY <1>1, <1>2, <1>3, OthersAlways, PTL DEF Spec

-------------------------------------------------------------------------------
(* The clock: what a worker within its timeouts has spent of its claim.  The  *)
(* ticks that are gone from the claim, and those of the POST or the sleep     *)
(* under way, are at most Spent.                                              *)

\* What is left of the claim that was given to worker k: nothing, once the row
\* has gone to another worker, for that one took an expired row.
Left(k) == IF HoldsClaim(k) THEN claims[Target(k)].ttl ELSE 0

SpentAt(k) ==
  /\ workers[k].at \in {"claim", "check", "attempt"} => workers[k].left = 0
  /\ Retrying(workers[k]) => ClaimExpiry - Left(k) + workers[k].left <= Spent(workers[k])

Timely == \A k \in DOMAIN workers : SpentAt(k)

\* The time of n attempts that fail, each with the sleep behind it.
Rounds(n) == n * RequestTimeout + n * BackoffCap

LEMMA RoundsAdd ==
  ASSUME NEW n \in Nat
  PROVE  /\ Rounds(n) \in Nat
         /\ Rounds(n + 1) = Rounds(n) + RequestTimeout + BackoffCap
<1>1. RequestTimeout \in Nat /\ BackoffCap \in Nat
  BY TimesAssumption
<1>2. \A x, y \in Nat : x * y \in Nat /\ (x + 1) * y = x * y + y
  OBVIOUS
<1> DEFINE p == n * RequestTimeout
           q == n * BackoffCap
           p1 == (n + 1) * RequestTimeout
           q1 == (n + 1) * BackoffCap
<1>3. p \in Nat /\ q \in Nat /\ p1 = p + RequestTimeout /\ q1 = q + BackoffCap
  BY <1>1, <1>2
<1> HIDE DEF p, q, p1, q1
<1>4. p + q \in Nat /\ p1 + q1 = p + q + RequestTimeout + BackoffCap
  BY <1>1, <1>3
<1>5. QED
  BY <1>4 DEF Rounds, p, q, p1, q1

LEMMA SpentIs ==
  ASSUME NEW w \in Worker
  PROVE  /\ w.count \in Nat /\ w.left \in Nat
         /\ Spent(w) \in Int
         /\ w.at # "post" => Spent(w) = Rounds(w.count)
         /\ w.at = "post" => Spent(w) = Rounds(w.count) - BackoffCap
<1> DEFINE n == w.count
           p == n * RequestTimeout
           q == n * BackoffCap
           q1 == (n - 1) * BackoffCap
<1>1. n \in Nat /\ w.left \in Nat /\ RequestTimeout \in Nat /\ BackoffCap \in Nat
  BY TimesAssumption DEF Worker
<1>2. \A x, y \in Nat : x * y \in Nat /\ (x - 1) * y = x * y - y
  OBVIOUS
<1>3. p \in Nat /\ q \in Nat /\ q1 = q - BackoffCap
  BY <1>1, <1>2
<1>4. /\ w.at # "post" => Spent(w) = p + q
      /\ w.at = "post" => Spent(w) = p + q1
      /\ Rounds(n) = p + q
  BY DEF Spent, Rounds
<1> HIDE DEF n, p, q, q1
<1>5. Spent(w) \in Int
  BY <1>1, <1>3, <1>4
<1>6. w.at = "post" => Spent(w) = p + q - BackoffCap
  BY <1>1, <1>3, <1>4
<1>7. w.at # "post" => Spent(w) = Rounds(n)
  BY <1>4
<1>8. w.at = "post" => Spent(w) = Rounds(n) - BackoffCap
  <2> DEFINE all == Rounds(n)
  <2>1. all = p + q
    BY <1>4
  <2> HIDE DEF all
  <2>2. w.at = "post" => Spent(w) = all - BackoffCap
    BY <1>1, <1>3, <1>6, <2>1
  <2>3. QED
    BY <2>2 DEF all
<1>9. n \in Nat /\ w.left \in Nat
  BY <1>1
<1>10. QED
  BY <1>5, <1>7, <1>8, <1>9 DEF n

LEMMA LeftType ==
  ASSUME ClaimInv, NEW k \in WorkerKeys
  PROVE  Left(k) \in 0..ClaimExpiry
<1>1. 0 \in 0..ClaimExpiry
  BY TimesAssumption
<1>2. HoldsClaim(k) => claims[Target(k)].ttl \in 0..ClaimExpiry
  BY DEF HoldsClaim, ClaimInv, ClaimsType, Claim
<1>3. QED
  BY <1>1, <1>2 DEF Left

LEMMA LeftNat ==
  ASSUME ClaimInv, NEW k \in WorkerKeys
  PROVE  Left(k) \in Nat
  BY LeftType

LEMMA LeftNatNext ==
  ASSUME ClaimInv', NEW k \in WorkerKeys
  PROVE  Left(k)' \in Nat
<1>1. HoldsClaim(k)' => claims'[Target(k)].ttl \in Nat
  BY DEF HoldsClaim, ClaimInv, ClaimsType, Claim
<1>2. QED
  BY <1>1 DEF Left

\* A worker that stays as it is, with no less of its claim left.
LEMMA Undisturbed ==
  ASSUME NEW k \in WorkerKeys, SpentAt(k), workers[k] \in Worker, workers'[k] = workers[k],
         Left(k) \in Int, Left(k)' \in Int, Left(k)' >= Left(k)
  PROVE  SpentAt(k)'
<1>1. Spent(workers[k]) \in Int /\ workers[k].left \in Int /\ ClaimExpiry \in Int
  BY SpentIs, TimesAssumption
<1>2. Spent(workers[k])' = Spent(workers[k]) /\ Retrying(workers[k])' = Retrying(workers[k])
  BY DEF Spent, Retrying
<1> DEFINE a == Left(k)
           b == Left(k)'
           spent == Spent(workers[k])
           left == workers[k].left
<1>3. Retrying(workers[k]) => ClaimExpiry - a + left <= spent
  BY DEF SpentAt
<1> HIDE DEF a, b, spent, left
<1>4. a \in Int /\ b \in Int /\ b >= a /\ spent \in Int /\ left \in Int
  BY <1>1 DEF a, b, spent, left
<1>5. Retrying(workers[k]) => ClaimExpiry - b + left <= spent
  BY <1>1, <1>3, <1>4
<1>6. QED
  BY <1>2, <1>5 DEF SpentAt, b, spent, left

\* Only worker k moves, and no other one has less left.
LEMMA OneMoves ==
  ASSUME ClaimInv, ClaimInv', Timely, NEW k \in WorkerKeys,
         DOMAIN workers' \subseteq DOMAIN workers,
         \A l \in DOMAIN workers' : l # k => workers'[l] = workers[l],
         \A l \in DOMAIN workers' : l # k => Left(l)' >= Left(l),
         k \in DOMAIN workers' => SpentAt(k)'
  PROVE  Timely'
<1> SUFFICES ASSUME NEW l \in DOMAIN workers', l # k
             PROVE  SpentAt(l)'
  BY DEF Timely
<1>1. l \in WorkerKeys /\ workers[l] \in Worker /\ SpentAt(l)
  BY DEF ClaimInv, WorkersType, Timely
<1>2. Left(l) \in Int /\ Left(l)' \in Int
  BY <1>1, LeftNat, LeftNatNext
<1>3. QED
  BY <1>1, <1>2, Undisturbed

\* While the rows stay, so does what is left to a worker of one generation.
LEMMA LeftStays ==
  ASSUME UNCHANGED claims, NEW k, workers'[k].generation = workers[k].generation
  PROVE  Left(k)' = Left(k)
  BY DEF Left, HoldsClaim

-------------------------------------------------------------------------------
(* The steps of one delivery *)

LEMMA ClaimDeliveryOnTime ==
  ASSUME ClaimInv, Timely, NEW k \in WorkerKeys, ClaimDelivery(k)
  PROVE  Timely'
<1> DEFINE c == Target(k)
<1>0. ClaimInv'
  BY ClaimDeliveryInv
<1>1. k \in DOMAIN workers /\ workers[k].at = "claim" /\ (c \in DOMAIN claims => Expired(c))
  BY DEF ClaimDelivery, At, Claimable
<1>2. PICK generation, count :
        /\ claims' = Put(claims, c,
             [status |-> "Pending", claimant |-> Instance(k), generation |-> generation,
              count |-> count, ttl |-> ClaimExpiry])
        /\ workers' = [workers EXCEPT ![k] =
             [@ EXCEPT !.at = IF workers[k].abandon THEN "persist" ELSE "check",
                       !.outcome = IF workers[k].abandon THEN "Abandoned" ELSE "none",
                       !.generation = generation, !.count = count]]
  BY DEF ClaimDelivery
<1>3. /\ c \in DOMAIN claims' /\ claims'[c].claimant = Instance(k)
      /\ claims'[c].generation = generation /\ claims'[c].ttl = ClaimExpiry
      /\ \A d \in DOMAIN claims' : d # c => d \in DOMAIN claims /\ claims'[d] = claims[d]
      /\ DOMAIN claims \subseteq DOMAIN claims'
  BY <1>2 DEF Put
<1>4. workers[k] \in Worker
  BY <1>1 DEF ClaimInv, WorkersType
<1>5. /\ DOMAIN workers' = DOMAIN workers
      /\ \A l \in DOMAIN workers : l # k => workers'[l] = workers[l]
      /\ workers'[k].at \in {"persist", "check"}
      /\ workers'[k].generation = generation /\ workers'[k].left = workers[k].left
  BY <1>1, <1>2, <1>4 DEF Worker
\* Nobody had anything left of an expired row.
<1>6. ASSUME NEW l \in DOMAIN workers', l # k
      PROVE  Left(l)' >= Left(l)
  <2>1. l \in WorkerKeys /\ workers'[l] = workers[l]
    BY <1>5, <1>6 DEF ClaimInv, WorkersType
  <2>2. CASE Target(l) = c
    <3>1. Left(l) = 0
      BY <1>1, <2>2 DEF Left, HoldsClaim, Expired
    <3>2. Left(l)' \in Nat
      BY <1>0, <2>1, LeftNatNext
    <3>3. QED
      BY <3>1, <3>2
  <2>3. CASE Target(l) # c
    <3>1. Left(l)' = Left(l)
      BY <1>3, <2>1, <2>3 DEF Left, HoldsClaim
    <3>2. Left(l) \in Nat
      BY <2>1, LeftNat
    <3>3. QED
      BY <3>1, <3>2
  <2>4. QED
    BY <2>2, <2>3
<1>7. SpentAt(k)'
  <2>1. workers'[k].left = 0
    BY <1>1, <1>5 DEF Timely, SpentAt
  <2>2. Left(k)' = ClaimExpiry
    BY <1>3, <1>5 DEF Left, HoldsClaim
  <2>3. workers'[k] \in Worker
    BY <1>0, <1>1, <1>5 DEF ClaimInv, WorkersType
  <2>4. Spent(workers'[k]) >= 0
    <3>1. Spent(workers'[k]) = Rounds(workers'[k].count) /\ workers'[k].count \in Nat
      BY <1>5, <2>3, SpentIs
    <3>2. QED
      BY <3>1, RoundsAdd
  <2>5. ClaimExpiry - Left(k)' + workers'[k].left <= Spent(workers'[k])
    BY <2>1, <2>2, <2>4, TimesAssumption
  <2>6. QED
    BY <2>1, <2>5 DEF SpentAt
<1>8. QED
  BY <1>0, <1>5, <1>6, <1>7, OneMoves

LEMMA RecordAttemptOnTime ==
  ASSUME ClaimInv, Timely, Healthy, NEW k \in WorkerKeys, RecordAttemptStarted(k)
  PROVE  Timely'
<1> DEFINE c == Target(k)
           n == workers[k].count
           count == claims[c].count + 1
<1>0. ClaimInv'
  BY RecordAttemptInv
<1>1. k \in DOMAIN workers /\ workers[k].at = "attempt" /\ HoldsClaim(k)
  BY DEF RecordAttemptStarted, At
<1>2. /\ Retrying(workers[k]) /\ k \in Claimed /\ c \in DOMAIN claims
      /\ claims[c] \in Claim /\ workers[k] \in Worker
  BY <1>1 DEF Retrying, Claimed, HoldsClaim, ClaimInv, ClaimsType, WorkersType
<1>3. claims[c].count = n
  BY <1>1, <1>2 DEF ClaimInv, CountsAgree
<1>4. /\ claims' = [claims EXCEPT ![c] = [@ EXCEPT !.status = "Attempting", !.count = count]]
      /\ workers' = [workers EXCEPT ![k] =
           [@ EXCEPT !.at = "post", !.count = count, !.left = RequestTimeout]]
  BY DEF RecordAttemptStarted, Timer
<1>5. /\ DOMAIN workers' = DOMAIN workers
      /\ \A l \in DOMAIN workers : l # k => workers'[l] = workers[l]
      /\ workers'[k].at = "post" /\ workers'[k].count = n + 1
      /\ workers'[k].left = RequestTimeout
      /\ workers'[k].generation = workers[k].generation
  BY <1>1, <1>2, <1>3, <1>4 DEF Worker
<1>6. /\ DOMAIN claims' = DOMAIN claims
      /\ \A d \in DOMAIN claims : d # c => claims'[d] = claims[d]
      /\ claims'[c].ttl = claims[c].ttl /\ claims'[c].claimant = claims[c].claimant
      /\ claims'[c].generation = claims[c].generation
  BY <1>2, <1>4 DEF Claim
<1>7. ASSUME NEW l \in DOMAIN workers
      PROVE  Left(l)' = Left(l)
  <2>1. workers'[l].generation = workers[l].generation
    BY <1>5
  <2>2. QED
    BY <1>6, <2>1 DEF Left, HoldsClaim
<1>8. \A l \in DOMAIN workers : Left(l) \in Nat
  BY LeftNat DEF ClaimInv, WorkersType
<1>9. SpentAt(k)'
  <2>1. /\ workers[k].left = 0
        /\ ClaimExpiry - Left(k) + workers[k].left <= Spent(workers[k])
    BY <1>1, <1>2 DEF Timely, SpentAt
  <2>2. Spent(workers[k]) = Rounds(n) /\ n \in Nat
    BY <1>1, <1>2, SpentIs
  <2>3. workers'[k] \in Worker
    BY <1>0, <1>1, <1>5 DEF ClaimInv, WorkersType
  <2>4. Spent(workers'[k]) = Rounds(n + 1) - BackoffCap
    BY <1>5, <2>3, SpentIs
  <2>5. Rounds(n) \in Nat /\ Rounds(n + 1) = Rounds(n) + RequestTimeout + BackoffCap
    BY <2>2, RoundsAdd
  <2> DEFINE a == Left(k)
             gone == Rounds(n)
             more == Rounds(n + 1)
  <2>6. a \in Nat /\ gone \in Nat /\ ClaimExpiry - a + 0 <= gone
    BY <1>1, <1>8, <2>1, <2>2, <2>5
  <2>7. more = gone + RequestTimeout + BackoffCap /\ Spent(workers'[k]) = more - BackoffCap
    BY <2>4, <2>5
  <2> HIDE DEF a, gone, more, n
  <2>8. ClaimExpiry - a + RequestTimeout <= Spent(workers'[k])
    BY <2>6, <2>7, TimesAssumption
  <2>9. QED
    BY <1>1, <1>5, <1>7, <2>8 DEF SpentAt, a
<1>10. QED
  BY <1>0, <1>5, <1>7, <1>8, <1>9, OneMoves

\* A worker goes on while the rows stay.
LEMMA MoveOnTime ==
  ASSUME ClaimInv, ClaimInv', Timely, NEW k \in WorkerKeys, UNCHANGED claims, NEW w \in Worker,
         k \in DOMAIN workers, workers' = [workers EXCEPT ![k] = w],
         w.generation = workers[k].generation,
         w.at \in {"claim", "check", "attempt"} => w.left = 0,
         Retrying(w) => ClaimExpiry - Left(k) + w.left <= Spent(w)
  PROVE  Timely'
<1>1. /\ DOMAIN workers' = DOMAIN workers /\ workers'[k] = w
      /\ \A l \in DOMAIN workers : l # k => workers'[l] = workers[l]
  OBVIOUS
<1>2. \A l \in DOMAIN workers : Left(l)' = Left(l)
  BY <1>1, LeftStays
<1>3. \A l \in DOMAIN workers : Left(l) \in Nat
  BY LeftNat DEF ClaimInv, WorkersType
<1>4. SpentAt(k)'
  BY <1>1, <1>2 DEF SpentAt
<1>5. QED
  BY <1>1, <1>2, <1>3, <1>4, OneMoves

LEMMA CheckTargetOnTime ==
  ASSUME ClaimInv, Timely, NEW k \in WorkerKeys, CheckTarget(k)
  PROVE  Timely'
<1>0. ClaimInv'
  BY CheckTargetInv
<1>1. k \in DOMAIN workers /\ workers[k] \in Worker /\ workers[k].at = "check"
  BY DEF CheckTarget, At, ClaimInv, WorkersType
<1>2. CASE \E outcome \in {"GaveUp", "Abandoned"} : WithOutcome(k, outcome)
  <2>1. PICK outcome \in {"GaveUp", "Abandoned"} : WithOutcome(k, outcome)
    BY <1>2
  <2> DEFINE w == [workers[k] EXCEPT !.at = "persist", !.outcome = outcome]
  <2>2. /\ w \in Worker /\ w.at = "persist" /\ w.generation = workers[k].generation
        /\ workers' = [workers EXCEPT ![k] = w] /\ UNCHANGED claims
    BY <1>1, <2>1 DEF WithOutcome, CheckTarget, Worker, FinalStatus
  <2> HIDE DEF w
  <2>3. QED
    BY <1>0, <1>1, <2>2, MoveOnTime DEF Retrying
<1>3. CASE workers' = [workers EXCEPT ![k].at = "attempt"]
  <2> DEFINE w == [workers[k] EXCEPT !.at = "attempt"]
  <2>1. /\ w \in Worker /\ w.at = "attempt" /\ w.count = workers[k].count
        /\ w.left = workers[k].left /\ w.generation = workers[k].generation
        /\ workers' = [workers EXCEPT ![k] = w] /\ UNCHANGED claims
    BY <1>1, <1>3 DEF CheckTarget, Worker
  <2> HIDE DEF w
  <2>2. Spent(w) = Spent(workers[k])
    BY <1>1, <2>1 DEF Spent
  <2>3. w.left = 0 /\ ClaimExpiry - Left(k) + w.left <= Spent(w)
    BY <1>1, <2>1, <2>2 DEF Timely, SpentAt, Retrying
  <2>4. QED
    BY <1>0, <1>1, <2>1, <2>3, MoveOnTime
<1>4. QED
  BY <1>2, <1>3 DEF CheckTarget

LEMMA PostAnsweredOnTime ==
  ASSUME ClaimInv, Timely, Healthy, NEW k \in WorkerKeys, PostAnswered(k)
  PROVE  Timely'
<1>0. ClaimInv'
  BY PostAnsweredInv
<1>1. k \in DOMAIN workers /\ workers[k] \in Worker /\ workers[k].at = "post"
  BY DEF PostAnswered, At, ClaimInv, WorkersType
<1>2. CASE \E outcome \in {"Succeeded", "GaveUp"} : WithOutcome(k, outcome)
  <2>1. PICK outcome \in {"Succeeded", "GaveUp"} : WithOutcome(k, outcome)
    BY <1>2
  <2> DEFINE w == [workers[k] EXCEPT !.at = "persist", !.outcome = outcome]
  <2>2. /\ w \in Worker /\ w.at = "persist" /\ w.generation = workers[k].generation
        /\ workers' = [workers EXCEPT ![k] = w] /\ UNCHANGED claims
    BY <1>1, <2>1 DEF WithOutcome, PostAnswered, Worker, FinalStatus
  <2> HIDE DEF w
  <2>3. QED
    BY <1>0, <1>1, <2>2, MoveOnTime DEF Retrying
<1>3. CASE workers' = [workers EXCEPT ![k] =
                         [@ EXCEPT !.at = "sleep", !.left = Timer(BackoffCap)]]
  <2> DEFINE w == [workers[k] EXCEPT !.at = "sleep", !.left = BackoffCap]
             left == workers[k].left
             a == Left(k)
             all == Rounds(workers[k].count)
  <2>0. BackoffCap \in 0..RequestTimeout + BackoffCap
    BY TimesAssumption
  <2>1. /\ w \in Worker /\ w.at = "sleep" /\ w.count = workers[k].count
        /\ w.left = BackoffCap /\ w.generation = workers[k].generation
        /\ workers' = [workers EXCEPT ![k] = w] /\ UNCHANGED claims
    BY <1>1, <1>3, <2>0 DEF PostAnswered, Worker, Timer
  <2> HIDE DEF w
  <2>2. Spent(w) = all /\ Spent(workers[k]) = all - BackoffCap
    BY <1>1, <2>1, SpentIs
  <2>3. left \in Nat /\ a \in Nat /\ all \in Nat
    BY <1>1, SpentIs, LeftNat, RoundsAdd
  <2>4. ClaimExpiry - a + left <= all - BackoffCap
    BY <1>1, <2>2 DEF Timely, SpentAt, Retrying
  <2> HIDE DEF left, a, all
  <2>5. ClaimExpiry - a + w.left <= Spent(w)
    BY <2>1, <2>2, <2>3, <2>4, TimesAssumption
  <2>6. QED
    BY <1>0, <1>1, <2>1, <2>5, MoveOnTime DEF a
<1>4. QED
  BY <1>2, <1>3 DEF PostAnswered

LEMMA WakeUpOnTime ==
  ASSUME ClaimInv, Timely, NEW k \in WorkerKeys, WakeUp(k)
  PROVE  Timely'
<1> DEFINE w == [workers[k] EXCEPT !.at = "check", !.left = 0]
           left == workers[k].left
           a == Left(k)
           all == Rounds(workers[k].count)
<1>0. ClaimInv'
  BY WakeUpInv
<1>1. k \in DOMAIN workers /\ workers[k] \in Worker /\ workers[k].at = "sleep"
  BY DEF WakeUp, At, ClaimInv, WorkersType
<1>2. 0 \in 0..RequestTimeout + BackoffCap
  BY TimesAssumption
<1>3. /\ w \in Worker /\ w.at = "check" /\ w.count = workers[k].count /\ w.left = 0
      /\ w.generation = workers[k].generation
      /\ workers' = [workers EXCEPT ![k] = w] /\ UNCHANGED claims
  BY <1>1, <1>2 DEF WakeUp, Worker
<1> HIDE DEF w
<1>4. Spent(w) = all /\ Spent(workers[k]) = all
  BY <1>1, <1>3, SpentIs
<1>5. left \in Nat /\ a \in Nat /\ all \in Nat
  BY <1>1, SpentIs, LeftNat, RoundsAdd
<1>6. ClaimExpiry - a + left <= all
  BY <1>1, <1>4 DEF Timely, SpentAt, Retrying
<1> HIDE DEF left, a, all
<1>7. ClaimExpiry - a + w.left <= Spent(w)
  BY <1>3, <1>4, <1>5, <1>6, TimesAssumption
<1>8. QED
  BY <1>0, <1>1, <1>3, <1>7, MoveOnTime DEF a

LEMMA PersistOnTime ==
  ASSUME ClaimInv, Timely, NEW k \in WorkerKeys, PersistTerminal(k)
  PROVE  Timely'
<1> DEFINE c == Target(k)
<1>0. ClaimInv'
  BY PersistInv
<1>1. /\ k \in DOMAIN workers /\ k \in Claimed
      /\ DOMAIN workers' = DOMAIN workers \ {k}
      /\ \A l \in DOMAIN workers' : workers'[l] = workers[l]
  BY DEF PersistTerminal, At, Leave, Drop, Claimed
<1>2. \A l \in DOMAIN workers : Left(l) \in Nat
  BY LeftNat DEF ClaimInv, WorkersType
<1>3. ASSUME NEW l \in DOMAIN workers', l # k, Retrying(workers[l])
      PROVE  Left(l)' >= Left(l)
  <2>1. CASE UNCHANGED claims
    BY <1>1, <1>2, <2>1, LeftStays
  <2>2. CASE /\ HoldsClaim(k)
             /\ claims' = [claims EXCEPT ![c] =
                  [@ EXCEPT !.status = workers[k].outcome, !.ttl = 0]]
    <3>1. CASE Target(l) = c
      <4>1. l \in Claimed
        BY <1>1, <1>3 DEF Claimed, Retrying
      \* The row is this worker's alone.
      <4>2. ~HoldsClaim(l)
        BY <1>1, <1>3, <2>2, <3>1, <4>1 DEF ClaimInv, OneHolder, HoldsClaim
      <4>3. l \in WorkerKeys
        BY <1>1 DEF ClaimInv, WorkersType
      <4>4. Left(l)' \in Nat
        BY <1>0, <4>3, LeftNatNext
      <4>5. QED
        BY <4>2, <4>4 DEF Left
    <3>2. CASE Target(l) # c
      <4>1. DOMAIN claims' = DOMAIN claims /\ claims'[Target(l)] = claims[Target(l)]
        BY <2>2, <3>2
      <4>2. Left(l)' = Left(l)
        BY <1>1, <4>1 DEF Left, HoldsClaim
      <4>3. QED
        BY <1>1, <1>2, <4>2
    <3>3. QED
      BY <3>1, <3>2
  <2>3. QED
    BY <2>1, <2>2 DEF PersistTerminal
<1>4. SUFFICES ASSUME NEW l \in DOMAIN workers'
               PROVE  SpentAt(l)'
  BY DEF Timely
<1>5. l # k /\ l \in WorkerKeys /\ workers[l] \in Worker /\ SpentAt(l)
  BY <1>1 DEF ClaimInv, WorkersType, Timely
<1>6. CASE Retrying(workers[l])
  <2>1. Left(l) \in Int /\ Left(l)' \in Int
    BY <1>0, <1>5, LeftNat, LeftNatNext
  <2>2. QED
    BY <1>1, <1>3, <1>5, <1>6, <2>1, Undisturbed
<1>7. CASE ~Retrying(workers[l])
  BY <1>1, <1>5, <1>7 DEF SpentAt
<1>8. QED
  BY <1>6, <1>7

-------------------------------------------------------------------------------
(* Every step *)

\* Workers leave, or appear without a claim, and the rows stay.
LEMMA ComeAndGoOnTime ==
  ASSUME ClaimInv, Timely, UNCHANGED claims,
         \A k \in DOMAIN workers' :
           \/ k \in DOMAIN workers /\ workers'[k] = workers[k]
           \/ workers'[k].at = "claim" /\ workers'[k].left = 0
  PROVE  Timely'
<1> SUFFICES ASSUME NEW k \in DOMAIN workers'
             PROVE  SpentAt(k)'
  BY DEF Timely
<1>1. CASE k \in DOMAIN workers /\ workers'[k] = workers[k]
  <2>1. Left(k)' = Left(k)
    BY <1>1, LeftStays
  <2>2. QED
    BY <1>1, <2>1 DEF Timely, SpentAt
<1>2. CASE workers'[k].at = "claim" /\ workers'[k].left = 0
  BY <1>2 DEF SpentAt, Retrying
<1>3. QED
  BY <1>1, <1>2

\* The clock runs only while every worker is in a POST or a sleep.
LEMMA TickOnTime ==
  ASSUME ClaimInv, Timely, Healthy, Tick
  PROVE  Timely'
<1> SUFFICES ASSUME NEW k \in DOMAIN workers'
             PROVE  SpentAt(k)'
  BY DEF Timely
<1> DEFINE c == Target(k)
           left == workers[k].left
           a == Left(k)
           b == Left(k)'
<1>1. k \in DOMAIN workers /\ k \in WorkerKeys /\ InTime(k) /\ workers[k] \in Worker
  BY DEF Tick, ClaimInv, WorkersType
<1>2. workers[k].at \in {"post", "sleep"} /\ left > 0 /\ Retrying(workers[k])
  BY <1>1 DEF InTime, Retrying
<1>3. left \in Nat /\ a \in Nat /\ Spent(workers[k]) \in Int
  BY <1>1, SpentIs, LeftNat
<1>4. /\ workers'[k].at = workers[k].at /\ workers'[k].count = workers[k].count
      /\ workers'[k].generation = workers[k].generation /\ workers'[k].left = left - 1
  BY <1>1, <1>2 DEF Tick, Less, Worker
<1>5. Spent(workers'[k]) = Spent(workers[k])
  BY <1>4 DEF Spent
<1>6. b \in Nat /\ b >= a - 1
  <2>1. CASE HoldsClaim(k)
    <3>1. c \in DOMAIN claims /\ claims[c] \in Claim
      BY <2>1 DEF HoldsClaim, ClaimInv, ClaimsType
    <3>2. /\ c \in DOMAIN claims' /\ claims'[c].claimant = claims[c].claimant
          /\ claims'[c].generation = claims[c].generation
          /\ claims'[c].ttl = Less(claims[c].ttl)
      BY <3>1 DEF Tick, Claim
    <3>3. b = Less(a)
      BY <1>4, <2>1, <3>2 DEF Left, HoldsClaim
    <3> HIDE DEF a, b
    <3>4. QED
      BY <1>3, <3>3 DEF Less
  <2>2. CASE ~HoldsClaim(k)
    <3>1. DOMAIN claims' = DOMAIN claims
          /\ \A d \in DOMAIN claims : claims'[d].claimant = claims[d].claimant
                                      /\ claims'[d].generation = claims[d].generation
      BY DEF Tick, ClaimInv, ClaimsType, Claim
    <3>2. a = 0 /\ b = 0
      BY <1>4, <2>2, <3>1 DEF Left, HoldsClaim
    <3> HIDE DEF a, b
    <3>3. QED
      BY <3>2
  <2>3. QED
    BY <2>1, <2>2
<1>7. ClaimExpiry - a + left <= Spent(workers[k])
  BY <1>1, <1>2 DEF Timely, SpentAt
<1> HIDE DEF a, b, left
<1>8. ClaimExpiry - b + (left - 1) <= Spent(workers[k])
  BY <1>3, <1>6, <1>7, TimesAssumption
<1>9. QED
  BY <1>2, <1>4, <1>5, <1>8 DEF SpentAt, b

LEMMA DeliverOnTime ==
  ASSUME ClaimInv, Timely, Healthy, NEW k \in WorkerKeys, Deliver(k)
  PROVE  Timely'
<1>1. CASE ClaimRefused(k) \/ AttemptRefused(k)
  <2>1. UNCHANGED claims /\ workers' = Drop(workers, {k})
    BY <1>1 DEF ClaimRefused, AttemptRefused, Leave
  <2>2. QED
    BY <2>1, ComeAndGoOnTime DEF Drop
<1>2. QED
  BY <1>1, ClaimDeliveryOnTime, RecordAttemptOnTime, PersistOnTime, CheckTargetOnTime,
     PostAnsweredOnTime, WakeUpOnTime DEF Deliver

LEMMA StepOnTime ==
  ASSUME ClaimInv, Timely, Healthy, [Next]_vars
  PROVE  Timely'
<1>1. CASE UNCHANGED <<claims, workers>>
  BY <1>1, ComeAndGoOnTime
<1>2. ASSUME NEW i \in Instances, NEW c \in Configs, RedispatchOne(i, c)
      PROVE  Timely'
  BY <1>2, ComeAndGoOnTime DEF RedispatchOne, Put, FreshWorker
<1>3. ASSUME NEW i \in Instances, Sweep(i)
      PROVE  Timely'
  BY <1>1, <1>2, <1>3
  DEF Sweep, SweepTick, RedispatchLoad, RedispatchLoadFails, RedispatchRefresh,
      ListReclaimable, SweepDone
<1>4. ASSUME NEW i \in Instances, Crash(i)
      PROVE  Timely'
  BY <1>4, ComeAndGoOnTime DEF Crash, Drop
<1>5. ASSUME NEW j \in JobKeys, FanOut(j)
      PROVE  Timely'
  <2>1. CASE FanoutList(j)
    BY <2>1, ComeAndGoOnTime DEF FanoutList, FreshWorker
  <2>2. QED
    BY <1>1, <1>5, <2>1 DEF FanOut, FanoutListFails, FanoutJoin
<1>6. QED
  BY <1>1, <1>3, <1>4, <1>5, DeliverOnTime, TickOnTime
  DEF Next, vars, Commit, Dispatch, Register, DeleteConfig, DeleteTask

\* For every expiry the builder accepts, and however many crashes, reclaims and
\* failed store calls: no sweep takes the claim of a worker within its timeouts
\* before its POSTs and sleeps can have filled the expiry.
THEOREM HealthyClaimLastsAlways == Spec => []HealthyClaimLasts
<1>1. CASE Healthy
  <2>1. Init => Timely
    BY DEF Init, Timely
  <2>2. ClaimInv /\ Timely /\ [Next]_vars => Timely'
    BY <1>1, StepOnTime
  <2>3. ClaimInv /\ Timely => HealthyClaimLasts
    <3> SUFFICES ASSUME ClaimInv, Timely, NEW k \in DOMAIN workers,
                        Retrying(workers[k]), ~HoldsClaim(k)
                 PROVE  ClaimExpiry <= Spent(workers[k])
      BY DEF HealthyClaimLasts
    <3>1. workers[k] \in Worker
      BY DEF ClaimInv, WorkersType
    <3>2. ClaimExpiry - 0 + workers[k].left <= Spent(workers[k])
      BY DEF Timely, SpentAt, Left
    <3>3. workers[k].left \in Nat /\ Spent(workers[k]) \in Int
      BY <3>1, SpentIs
    <3>4. QED
      BY <3>2, <3>3, TimesAssumption
  <2>4. QED
    BY <2>1, <2>2, <2>3, Inductive, PTL DEF Spec
<1>2. CASE ~Healthy
  <2>1. HealthyClaimLasts
    BY <1>2 DEF HealthyClaimLasts
  <2>2. QED
    BY <2>1, PTL
<1>3. QED
  BY <1>1, <1>2

===============================================================================
