---------------------------- MODULE EventProofs ----------------------------
(***************************************************************************)
(* Proofs about the event path: the outbox relay for any number of events, *)
(* processes, calls in flight and faults, and the delivery to consumers    *)
(* for any number of events, workers, consumers, attempts and replays.     *)
(***************************************************************************)
EXTENDS MCEventDispatch, MCEventOutbox, TLAPS

-----------------------------------------------------------------------------
(* The outbox. *)

\* What a relay knows while it works: its event exists and has a row, its
\* claim number is at most the row's, and after the enqueue the job is queued.
RelayInv ==
  \A r \in O!Relays : relayPc[r] # "idle" =>
    /\ relayEvent[r] \in Rows
    /\ status[relayEvent[r]] # "absent"
    /\ relayAttempts[r] <= attempts[relayEvent[r]]
    /\ relayPc[r] = "enqueued" => relayEvent[r] \in queued

\* The inductive invariant: types, what relays know, and the safety
\* properties the relays' knowledge supports.
OutboxInv ==
  /\ O!TypeOK
  /\ RelayInv
  /\ O!PublishedWasQueued
  /\ O!DeadLetterAfterMaxAttempts
  /\ O!OneHolderPerClaim

LEMMA InitOutbox == O!Init => OutboxInv
  BY OutboxAssumption DEF O!Init, OutboxInv, O!TypeOK, RelayInv, O!PublishedWasQueued,
     O!DeadLetterAfterMaxAttempts, O!OneHolderPerClaim, O!OutboxEventStatus, O!Relays

LEMMA AppendKeeps ==
  ASSUME NEW e \in Rows, OutboxInv, O!Append(e)
  PROVE  OutboxInv'
  BY DEF O!Append, OutboxInv, O!TypeOK, RelayInv, O!PublishedWasQueued, O!relayVars,
     O!DeadLetterAfterMaxAttempts, O!OneHolderPerClaim, O!OutboxEventStatus

LEMMA ClaimNextKeeps ==
  ASSUME NEW e \in Rows, NEW r \in O!Relays, OutboxInv, O!ClaimNext(r, e)
  PROVE  OutboxInv'
  <1> USE DEF OutboxInv
  <1>1. O!TypeOK'
    BY DEF O!ClaimNext, O!TypeOK, O!OutboxEventStatus
  <1>2. RelayInv'
    BY DEF O!ClaimNext, O!Claimable, O!TypeOK, RelayInv
  <1>3. O!PublishedWasQueued' /\ O!DeadLetterAfterMaxAttempts'
    BY OutboxAssumption
    DEF O!ClaimNext, O!Claimable, O!TypeOK, O!PublishedWasQueued, O!DeadLetterAfterMaxAttempts
  <1>4. O!OneHolderPerClaim'
    BY DEF O!ClaimNext, O!TypeOK, RelayInv, O!OneHolderPerClaim
  <1> QED BY <1>1, <1>2, <1>3, <1>4

LEMMA RelayStepKeeps ==
  ASSUME NEW r \in O!Relays, OutboxInv, O!RelayStep(r) \/ O!MarkFailedThrows(r)
  PROVE  OutboxInv'
  <1> USE DEF OutboxInv
  <1>1. CASE O!EnqueueOk(r) \/ O!EnqueueThrows(r) \/ O!MarkPublishedThrows(r)
    BY <1>1 DEF O!EnqueueOk, O!EnqueueThrows, O!MarkPublishedThrows, O!TypeOK, RelayInv,
       O!PublishedWasQueued, O!DeadLetterAfterMaxAttempts, O!OneHolderPerClaim, O!rowVars
  <1>2. CASE O!MarkPublished(r)
    BY <1>2 DEF O!MarkPublished, O!ReturnFrom, O!TypeOK, RelayInv, O!PublishedWasQueued,
       O!DeadLetterAfterMaxAttempts, O!OneHolderPerClaim, O!OutboxEventStatus
  <1>3. CASE O!MarkFailed(r)
    <2>1. O!TypeOK'
      BY <1>3 DEF O!MarkFailed, O!ReturnFrom, O!TypeOK, RelayInv, O!OutboxEventStatus
    <2>2. RelayInv'
      BY <1>3 DEF O!MarkFailed, O!ReturnFrom, O!TypeOK, RelayInv
    <2>3. O!PublishedWasQueued'
      BY <1>3 DEF O!MarkFailed, O!TypeOK, O!PublishedWasQueued
    <2>4. O!DeadLetterAfterMaxAttempts'
      BY <1>3, OutboxAssumption
      DEF O!MarkFailed, O!DeadLetter, O!TypeOK, RelayInv, O!DeadLetterAfterMaxAttempts
    <2>5. O!OneHolderPerClaim'
      BY <1>3 DEF O!MarkFailed, O!ReturnFrom, O!TypeOK, O!OneHolderPerClaim
    <2> QED BY <2>1, <2>2, <2>3, <2>4, <2>5
  <1>4. CASE O!MarkFailedThrows(r)
    BY <1>4, OutboxAssumption
    DEF O!MarkFailedThrows, O!ReturnFrom, O!TypeOK, RelayInv, O!rowVars,
       O!PublishedWasQueued, O!DeadLetterAfterMaxAttempts, O!OneHolderPerClaim
  <1> QED BY <1>1, <1>2, <1>3, <1>4 DEF O!RelayStep

LEMMA ProcessKeeps ==
  ASSUME NEW p \in Processes, OutboxInv, O!Start(p) \/ O!Stop(p) \/ O!Crash(p)
  PROVE  OutboxInv'
  <1> USE OutboxAssumption DEF OutboxInv, O!TypeOK, RelayInv, O!PublishedWasQueued,
       O!DeadLetterAfterMaxAttempts, O!OneHolderPerClaim, O!rowVars
  <1>1. CASE O!Start(p) BY <1>1 DEF O!Start, O!relayVars
  <1>2. CASE O!Stop(p)  BY <1>2 DEF O!Stop, O!relayVars
  <1>3. CASE O!Crash(p) BY <1>3 DEF O!Crash
  <1> QED BY <1>1, <1>2, <1>3

LEMMA TimeKeeps ==
  ASSUME NEW e \in Rows, OutboxInv, O!LeaseExpires(e) \/ O!RetryDue(e)
  PROVE  OutboxInv'
  BY DEF O!LeaseExpires, O!RetryDue, OutboxInv, O!TypeOK, RelayInv, O!PublishedWasQueued,
     O!relayVars, O!DeadLetterAfterMaxAttempts, O!OneHolderPerClaim

LEMMA NextOutbox == OutboxInv /\ [O!Next]_(O!vars) => OutboxInv'
  <1> SUFFICES ASSUME OutboxInv, [O!Next]_(O!vars) PROVE OutboxInv'
    OBVIOUS
  <1>1. CASE O!Next
    BY <1>1, AppendKeeps, ClaimNextKeeps, RelayStepKeeps, ProcessKeeps, TimeKeeps DEF O!Next
  <1>2. CASE UNCHANGED O!vars
    BY <1>2 DEF O!vars, O!rowVars, O!relayVars, OutboxInv, O!TypeOK, RelayInv, O!PublishedWasQueued,
       O!DeadLetterAfterMaxAttempts, O!OneHolderPerClaim
  <1> QED BY <1>1, <1>2

\* Every reachable state of the relay satisfies the inductive invariant.
THEOREM OutboxInvariant == O!Spec => []OutboxInv
  <1> QED BY InitOutbox, NextOutbox, PTL DEF O!Spec

\* Types, for every number of events, processes and calls in flight.
THEOREM OutboxTypeOK == O!Spec => []O!TypeOK
  <1>1. OutboxInv => O!TypeOK BY DEF OutboxInv
  <1> QED BY <1>1, OutboxInvariant, PTL

\* No row is ever marked published without its event on the queue.
THEOREM OutboxPublishedWasQueued == O!Spec => []O!PublishedWasQueued
  <1>1. OutboxInv => O!PublishedWasQueued BY DEF OutboxInv
  <1> QED BY <1>1, OutboxInvariant, PTL

\* No row is parked before MAX_ATTEMPTS claims.
THEOREM OutboxDeadLetterAfterMaxAttempts == O!Spec => []O!DeadLetterAfterMaxAttempts
  <1>1. OutboxInv => O!DeadLetterAfterMaxAttempts BY DEF OutboxInv
  <1> QED BY <1>1, OutboxInvariant, PTL

\* The attempt number identifies the holder of a claim.
THEOREM OutboxOneHolderPerClaim == O!Spec => []O!OneHolderPerClaim
  <1>1. OutboxInv => O!OneHolderPerClaim BY DEF OutboxInv
  <1> QED BY <1>1, OutboxInvariant, PTL

-----------------------------------------------------------------------------
\* The refinement mapping onto the promise of ReliableHandover: the initial
\* state owes nothing, and every step is a promised one or changes nothing the
\* promise speaks about.
LEMMA InitPromise == O!Init => O!Promise!Init
  BY DEF O!Init, O!Promise!Init, O!Fate, O!FateOf

LEMMA StepPromise == OutboxInv /\ OutboxInv' /\ [O!Next]_(O!vars) => [O!Promise!Next]_(O!Promise!vars)
  <1> SUFFICES ASSUME OutboxInv, OutboxInv', [O!Next]_(O!vars)
               PROVE  O!Promise!Next \/ UNCHANGED <<O!Fate, queued>>
    BY DEF O!Promise!vars
  <1> USE DEF OutboxInv
  <1>1. ASSUME NEW e \in Rows, O!Append(e)
        PROVE  O!Promise!Record(e)
    <2>1. O!Fate' = [O!Fate EXCEPT ![e] = "owed"]
      BY <1>1 DEF O!Append, O!Fate, O!FateOf, O!TypeOK
    <2> QED BY <1>1, <2>1 DEF O!Append, O!Promise!Record, O!Fate, O!FateOf
  <1>2. ASSUME status' = status, queued' = queued
        PROVE  UNCHANGED <<O!Fate, queued>>
    BY <1>2 DEF O!Fate
  <1>3. ASSUME NEW e \in Rows, NEW r \in O!Relays, O!ClaimNext(r, e)
        PROVE  UNCHANGED <<O!Fate, queued>>
    BY <1>3 DEF O!ClaimNext, O!Claimable, O!Fate, O!FateOf, O!TypeOK
  <1>4. ASSUME NEW r \in O!Relays, O!EnqueueOk(r) \/ O!EnqueueThrows(r)
        PROVE  O!Promise!Deliver(relayEvent[r]) \/ UNCHANGED <<O!Fate, queued>>
    BY <1>4 DEF O!EnqueueOk, O!EnqueueThrows, RelayInv, O!Promise!Deliver, O!rowVars, O!Fate, O!FateOf
  <1>5. ASSUME NEW r \in O!Relays, O!MarkPublished(r)
        PROVE  O!Promise!HandOver(relayEvent[r]) \/ UNCHANGED <<O!Fate, queued>>
    <2>1. CASE status[relayEvent[r]] = "processing"
      <3>1. O!Fate' = [O!Fate EXCEPT ![relayEvent[r]] = "handed_over"]
        BY <1>5, <2>1 DEF O!MarkPublished, RelayInv, O!Fate, O!FateOf, O!TypeOK
      <3> QED BY <1>5, <2>1, <3>1 DEF O!MarkPublished, RelayInv, O!Promise!HandOver, O!Fate, O!FateOf
    <2>2. CASE status[relayEvent[r]] # "processing"
      BY <1>5, <2>2, <1>2 DEF O!MarkPublished
    <2> QED BY <2>1, <2>2
  <1>6. ASSUME NEW r \in O!Relays, O!MarkFailed(r)
        PROVE  O!Promise!Park(relayEvent[r]) \/ UNCHANGED <<O!Fate, queued>>
    <2>1. CASE status[relayEvent[r]] = "processing" /\ O!DeadLetter(r)
      <3>1. O!Fate' = [O!Fate EXCEPT ![relayEvent[r]] = "parked"]
        BY <1>6, <2>1 DEF O!MarkFailed, RelayInv, O!Fate, O!FateOf, O!TypeOK
      <3> QED BY <1>6, <2>1, <3>1 DEF O!MarkFailed, RelayInv, O!Promise!Park, O!Fate, O!FateOf
    <2>2. CASE status[relayEvent[r]] = "processing" /\ ~O!DeadLetter(r)
      BY <1>6, <2>2 DEF O!MarkFailed, RelayInv, O!Fate, O!FateOf, O!TypeOK
    <2>3. CASE status[relayEvent[r]] # "processing"
      BY <1>6, <2>3, <1>2 DEF O!MarkFailed
    <2> QED BY <2>1, <2>2, <2>3
  <1>7. ASSUME NEW r \in O!Relays, O!MarkPublishedThrows(r) \/ O!MarkFailedThrows(r)
        PROVE  UNCHANGED <<O!Fate, queued>>
    BY <1>7, <1>2 DEF O!MarkPublishedThrows, O!MarkFailedThrows, O!rowVars
  <1>8. ASSUME NEW p \in Processes, O!Start(p) \/ O!Stop(p) \/ O!Crash(p)
        PROVE  UNCHANGED <<O!Fate, queued>>
    BY <1>8, <1>2 DEF O!Start, O!Stop, O!Crash, O!rowVars
  <1>9. ASSUME NEW e \in Rows, O!LeaseExpires(e) \/ O!RetryDue(e)
        PROVE  UNCHANGED <<O!Fate, queued>>
    BY <1>9, <1>2 DEF O!LeaseExpires, O!RetryDue
  <1>10. CASE UNCHANGED O!vars
    BY <1>10, <1>2 DEF O!vars, O!rowVars
  <1>11. \A r \in O!Relays : relayPc[r] # "idle" => relayEvent[r] \in Rows
    BY DEF RelayInv
  <1>12. ASSUME NEW r \in O!Relays, O!RelayStep(r)
         PROVE  O!Promise!Next \/ UNCHANGED <<O!Fate, queued>>
    <2>1. relayEvent[r] \in Rows
      BY <1>11, <1>12 DEF O!RelayStep, O!EnqueueOk, O!EnqueueThrows, O!MarkPublished,
         O!MarkPublishedThrows, O!MarkFailed
    <2> QED BY <2>1, <1>12, <1>4, <1>5, <1>6, <1>7 DEF O!RelayStep, O!Promise!Next
  <1>13. CASE O!Next
    BY <1>13, <1>1, <1>3, <1>7, <1>8, <1>9, <1>12 DEF O!Next, O!Promise!Next
  <1> QED BY <1>10, <1>13

\* The relay implements the outbox's promise: nothing unrecorded is delivered,
\* nothing is handed over undelivered, and a settled event stays settled.
THEOREM OutboxKeepsPromise == O!Spec => KeepsPromise
  <1> QED BY InitPromise, StepPromise, OutboxInvariant, PTL DEF O!Spec, KeepsPromise, O!KeepsPromise, O!Promise!Spec

-----------------------------------------------------------------------------
(***************************************************************************)
(* Delivery.  InWork: the execution has claimed its consumer and not yet   *)
(* settled the claim.                                                      *)
(***************************************************************************)
InWork(w) == pc[w] \in {"handle", "complete", "fail"}

WorkerInv ==
  \A w \in Workers : /\ pc[w] # "idle" => job[w] \in Jobs
                     /\ InWork(w) => consumer[w] \in Consumers

\* Always: an execution that its job still waits for is the only such one, and a
\* job that can still run has attempts left.
QueueInv ==
  /\ \A w \in Workers : attached[w] => pc[w] # "idle" /\ jobState[job[w]] = "active"
  /\ \A w, u \in Workers : attached[w] /\ attached[u] /\ job[w] = job[u] => w = u
  /\ \A j \in Jobs : jobState[j] \in {"absent", "waiting", "active"} => attemptsMade[j] < ATTEMPTS

\* While leases outlast handlers and MongoDB answers, a claim in progress has one
\* execution at most (a crash leaves it without), and the effect it stands for
\* happens between the claim and its completion.
OneHolder ==
  /\ \A x \in Claims : lease[x] # "expired"
  /\ \A w \in Workers : InWork(w) => claim[Working(w)] = "processing"
  /\ \A w, u \in Workers : InWork(w) /\ InWork(u) /\ Working(w) = Working(u) => w = u

EffectOnce ==
  /\ \A x \in Claims : claim[x] \in {"absent", "failed"} => effects[x] = 0
  /\ \A w \in Workers : pc[w] \in {"handle", "fail"} => effects[Working(w)] = 0
  /\ \A x \in Claims : effects[x] <= 1

Leased == expiries = 0 /\ dbErrors = 0

\* Without timeouts, crashes and database errors an execution is the only one of
\* its job.  An event without a dead-letter record has the one job it was
\* published with, so its executions follow one another: nobody else holds a
\* claim, and whatever lies behind the execution's consumer is completed.
FaultFree == timeouts = 0 /\ crashes = 0 /\ dbErrors = 0

OneExecution ==
  /\ \A w \in Workers : pc[w] # "idle" => attached[w]
  /\ \A j \in Jobs : jobState[j] = "failed" => j \in capturing \cup dlq

Clean(e) == \A j \in capturing \cup dlq : j[1] # e

InOrder(e) ==
  /\ \A n \in 1..MAX_REPLAYS : jobState[<<e, n>>] = "absent"
  /\ \A c \in Consumers : claim[<<e, c>>] = "processing"
                            => \E w \in Workers : InWork(w) /\ Working(w) = <<e, c>>
  /\ \A w \in Workers : InWork(w) /\ job[w][1] = e => claim[Working(w)] = "processing"
  /\ \A w \in Workers : pc[w] # "idle" /\ job[w][1] = e =>
       \A c \in Consumers : c < consumer[w] => claim[<<e, c>>] = "completed"
  /\ jobState[<<e, 0>>] = "completed" => \A c \in Consumers : claim[<<e, c>>] = "completed"

DispatchInv ==
  /\ TypeOK
  /\ WorkerInv
  /\ QueueInv
  /\ Leased => OneHolder /\ EffectOnce
  /\ FaultFree => OneExecution /\ \A e \in Events : Clean(e) => InOrder(e)

-----------------------------------------------------------------------------
LEMMA DispatchInit == Init => DispatchInv
<1> SUFFICES ASSUME Init PROVE DispatchInv
  OBVIOUS
<1>1. TypeOK
  BY DispatchAssumption DEF Init, TypeOK, Jobs, Claims, Consumers
<1>2. WorkerInv /\ QueueInv
  BY DispatchAssumption DEF Init, WorkerInv, QueueInv, InWork
<1>3. OneHolder /\ EffectOnce
  BY DEF Init, OneHolder, EffectOnce, InWork
<1>4. OneExecution
  BY DEF Init, OneExecution
<1>5. ASSUME NEW e \in Events PROVE InOrder(e)
  <2>1. \A n \in 0..MAX_REPLAYS : jobState[<<e, n>>] = "absent"
    BY <1>5 DEF Init, Jobs
  <2>2. \A c \in Consumers : claim[<<e, c>>] = "absent"
    BY <1>5 DEF Init, Claims
  <2>3. 0 \in 0..MAX_REPLAYS /\ 1..MAX_REPLAYS \subseteq 0..MAX_REPLAYS
    BY DispatchAssumption
  <2> QED
    BY <2>1, <2>2, <2>3 DEF InOrder, Init, InWork
<1> QED
  BY <1>1, <1>2, <1>3, <1>4, <1>5 DEF DispatchInv

\* The claim an execution works on.
LEMMA WorkingTypes ==
  ASSUME TypeOK, WorkerInv, NEW w \in Workers
  PROVE  /\ pc[w] # "idle" => /\ job[w] \in Jobs /\ job[w][1] \in Events
                              /\ job[w][2] \in 0..MAX_REPLAYS /\ job[w] = <<job[w][1], job[w][2]>>
         /\ pc[w] # "idle" /\ consumer[w] \in Consumers => Working(w) \in Claims
         /\ InWork(w) => Working(w) \in Claims /\ consumer[w] \in Consumers
         /\ consumer[w] \in 1..(NumConsumers + 1)
BY DEF TypeOK, WorkerInv, Jobs, Claims, Working, InWork

\* The record of a replay in progress.
LEMMA RequestTypes ==
  ASSUME TypeOK, NEW a \in Admins, request[a] # None
  PROVE  /\ request[a] \in dlq \X (1..MAX_REPLAYS) \X BOOLEAN
         /\ request[a][1] \in dlq /\ request[a][1] \in Jobs /\ request[a][1][1] \in Events
         /\ request[a][2] \in 1..MAX_REPLAYS
         /\ <<request[a][1][1], request[a][2]>> \in Jobs
<1>1. request[a] \in dlq \X (1..MAX_REPLAYS) \X BOOLEAN
  BY DEF TypeOK
<1>2. request[a][1] \in dlq /\ request[a][2] \in 1..MAX_REPLAYS
  BY <1>1
<1>3. request[a][1] \in Jobs
  BY <1>2 DEF TypeOK
<1>4. request[a][1][1] \in Events
  BY <1>3 DEF Jobs
<1>5. request[a][2] \in 0..MAX_REPLAYS
  BY <1>2, DispatchAssumption
<1> QED
  BY <1>1, <1>2, <1>3, <1>4, <1>5 DEF Jobs

\* A rejected attempt keeps the queue's types.
LEMMA RejectedTypes ==
  ASSUME TypeOK, QueueInv, NEW j \in Jobs, jobState[j] = "active", JobRejected(j)
  PROVE  /\ jobState' \in [Jobs -> {"absent", "waiting", "active", "completed", "failed"}]
         /\ attemptsMade' \in [Jobs -> 0..ATTEMPTS]
         /\ capturing' \in SUBSET Jobs
         /\ jobState'[j] \in {"waiting", "failed"}
         /\ jobState'[j] = "waiting" => attemptsMade'[j] < ATTEMPTS
         /\ jobState'[j] = "failed" => j \in capturing'
         /\ capturing \subseteq capturing' /\ capturing' \subseteq capturing \cup {j}
         /\ \A i \in Jobs \ {j} : jobState'[i] = jobState[i] /\ attemptsMade'[i] = attemptsMade[i]
<1>1. attemptsMade[j] \in 0..ATTEMPTS /\ attemptsMade[j] < ATTEMPTS
  BY DEF TypeOK, QueueInv
<1>2. attemptsMade[j] + 1 \in 0..ATTEMPTS
  BY <1>1, DispatchAssumption
<1>3. /\ attemptsMade' \in [Jobs -> 0..ATTEMPTS] /\ attemptsMade'[j] = attemptsMade[j] + 1
      /\ \A i \in Jobs \ {j} : attemptsMade'[i] = attemptsMade[i]
  BY <1>2 DEF JobRejected, TypeOK
<1>4. CASE attemptsMade[j] + 1 >= ATTEMPTS
  BY <1>3, <1>4 DEF JobRejected, TypeOK
<1>5. CASE ~(attemptsMade[j] + 1 >= ATTEMPTS)
  <2>1. attemptsMade'[j] < ATTEMPTS
    BY <1>1, <1>3, <1>5, DispatchAssumption
  <2> QED
    BY <1>3, <1>5, <2>1 DEF JobRejected, TypeOK
<1> QED
  BY <1>4, <1>5

-----------------------------------------------------------------------------
(* Types, and what always holds of executions and jobs. *)

BaseInv == TypeOK /\ WorkerInv /\ QueueInv

Settling(w) ==
  \/ ClaimConsumer(w) \/ SkipConsumer(w) \/ HandleOk(w) \/ HandleThrows(w)
  \/ Complete(w) \/ DbThrows(w) \/ Fail(w)

LEMMA SettlingBase ==
  ASSUME BaseInv, NEW w \in Workers, Settling(w)
  PROVE  BaseInv'
<1>0. /\ pc[w] \in {"claim", "handle", "complete", "fail"} /\ job[w] \in Jobs
      /\ consumer[w] \in Consumers /\ consumer[w] + 1 \in 1..(NumConsumers + 1)
      /\ Working(w) \in Claims
  <2>1. pc[w] \in {"claim", "handle", "complete", "fail"} /\ consumer[w] \in Consumers
    BY DEF BaseInv, WorkerInv, InWork, Settling, ClaimConsumer, SkipConsumer, HandleOk,
       HandleThrows, Complete, DbThrows, Fail
  <2>2. consumer[w] + 1 \in 1..(NumConsumers + 1)
    BY <2>1, DispatchAssumption DEF Consumers
  <2> QED
    BY <2>1, <2>2, WorkingTypes DEF BaseInv
<1>1. /\ UNCHANGED <<jobState, attemptsMade, job, attached, capturing, dlq, replayCount, request>>
      /\ UNCHANGED <<timeouts, crashes, expiries>>
      /\ pc' \in [Workers -> {"idle", "claim", "handle", "complete", "fail", "rejected"}]
      /\ pc'[w] # "idle" /\ \A u \in Workers \ {w} : pc'[u] = pc[u]
      /\ consumer' \in [Workers -> 1..(NumConsumers + 1)]
      /\ \A u \in Workers \ {w} : consumer'[u] = consumer[u]
      /\ pc'[w] = "claim" \/ consumer'[w] = consumer[w]
  BY <1>0 DEF BaseInv, TypeOK, Settling, ClaimConsumer, SkipConsumer, HandleOk, HandleThrows,
     Complete, DbThrows, Fail, queueVars, dlqVars, bounds, claimVars
<1>2. /\ claim' \in [Claims -> {"absent", "processing", "completed", "failed"}]
      /\ lease' \in [Claims -> {"none", "live", "expired"}]
      /\ effects' \in [Claims -> Nat]
  BY <1>0 DEF BaseInv, TypeOK, Settling, ClaimConsumer, SkipConsumer, HandleOk, HandleThrows,
     Complete, DbThrows, Fail, claimVars
<1>3. errors' \in 0..MaxErrors /\ dbErrors' \in 0..MaxDbErrors
  BY DispatchAssumption DEF BaseInv, TypeOK, Settling, ClaimConsumer, SkipConsumer, HandleOk,
     HandleThrows, Complete, DbThrows, Fail, bounds
<1>4. TypeOK'
  BY <1>1, <1>2, <1>3 DEF BaseInv, TypeOK
<1>5. WorkerInv'
  BY <1>0, <1>1 DEF BaseInv, WorkerInv, InWork
<1>6. QueueInv'
  BY <1>1 DEF BaseInv, QueueInv
<1> QED
  BY <1>4, <1>5, <1>6 DEF BaseInv

\* A slot that is free again.
LEMMA IdleTypes ==
  ASSUME TypeOK, NEW w \in Workers, Idle(w)
  PROVE  /\ pc' \in [Workers -> {"idle", "claim", "handle", "complete", "fail", "rejected"}]
         /\ job' \in [Workers -> Jobs \cup {None}]
         /\ consumer' \in [Workers -> 1..(NumConsumers + 1)]
         /\ attached' \in [Workers -> BOOLEAN]
         /\ pc'[w] = "idle" /\ ~attached'[w]
         /\ \A u \in Workers \ {w} : /\ pc'[u] = pc[u] /\ job'[u] = job[u]
                                     /\ consumer'[u] = consumer[u] /\ attached'[u] = attached[u]
BY DispatchAssumption DEF TypeOK, Idle

\* The steps by which an execution begins or ends.
LEMMA TakeBase ==
  ASSUME BaseInv, NEW w \in Workers, NEW j \in Jobs, Take(w, j)
  PROVE  BaseInv'
<1>1. 1 \in 1..(NumConsumers + 1)
  BY DispatchAssumption
<1>2. TypeOK'
  BY <1>1 DEF BaseInv, TypeOK, Take, claimVars, dlqVars, bounds
<1>3. WorkerInv'
  BY DEF BaseInv, TypeOK, WorkerInv, InWork, Take
<1>4. \A u \in Workers : attached[u] => job[u] # j
  BY DEF BaseInv, QueueInv, Take
<1>5. QueueInv'
  <2>1. /\ \A u \in Workers : attached'[u] => pc'[u] # "idle" /\ jobState'[job'[u]] = "active"
    BY <1>4 DEF BaseInv, TypeOK, QueueInv, WorkerInv, Take
  <2>2. \A u, v \in Workers : attached'[u] /\ attached'[v] /\ job'[u] = job'[v] => u = v
    BY <1>4 DEF BaseInv, TypeOK, QueueInv, Take
  <2>3. \A i \in Jobs : jobState'[i] \in {"absent", "waiting", "active"} => attemptsMade'[i] < ATTEMPTS
    BY DEF BaseInv, TypeOK, QueueInv, Take
  <2> QED
    BY <2>1, <2>2, <2>3 DEF QueueInv
<1> QED
  BY <1>2, <1>3, <1>5 DEF BaseInv

LEMMA EndBase ==
  ASSUME BaseInv, NEW w \in Workers, Reject(w) \/ Resolve(w) \/ Timeout(w)
  PROVE  BaseInv'
<1>1. CASE Reject(w) /\ ~attached[w]
  <2>1. Idle(w) /\ UNCHANGED <<queueVars, capturing, claimVars, dlq, replayCount, request, bounds>>
    BY <1>1 DEF Reject
  <2>2. TypeOK'
    BY <2>1, IdleTypes DEF BaseInv, TypeOK, queueVars, claimVars, bounds
  <2>3. WorkerInv' /\ QueueInv'
    BY <2>1, IdleTypes DEF BaseInv, WorkerInv, QueueInv, InWork, queueVars
  <2> QED
    BY <2>2, <2>3 DEF BaseInv
<1>2. CASE Resolve(w)
  <2>1. Idle(w) /\ UNCHANGED <<attemptsMade, claimVars, dlqVars, bounds>>
    BY <1>2 DEF Resolve
  <2>2. /\ jobState' \in [Jobs -> {"absent", "waiting", "active", "completed", "failed"}]
        /\ \A i \in Jobs : jobState'[i] = jobState[i] \/ (attached[w] /\ i = job[w] /\ jobState'[i] = "completed")
    BY <1>2 DEF Resolve, BaseInv, TypeOK
  <2>3. TypeOK'
    BY <2>1, <2>2, IdleTypes DEF BaseInv, TypeOK, claimVars, dlqVars, bounds
  <2>4. WorkerInv'
    BY <2>1, IdleTypes DEF BaseInv, WorkerInv, InWork
  <2>5. \A u \in Workers : attached'[u] => attached[u] /\ u # w /\ job'[u] = job[u] /\ pc'[u] = pc[u] /\ job[u] \in Jobs
    BY <2>1, IdleTypes DEF BaseInv, WorkerInv, QueueInv
  <2>6. QueueInv'
    BY <2>1, <2>2, <2>5 DEF BaseInv, QueueInv
  <2> QED
    BY <2>3, <2>4, <2>6 DEF BaseInv
<1>3. CASE (Reject(w) /\ attached[w]) \/ Timeout(w)
  <2>1. attached[w] /\ job[w] \in Jobs /\ jobState[job[w]] = "active" /\ JobRejected(job[w])
    BY <1>3 DEF Reject, Timeout, BaseInv, QueueInv, WorkerInv
  <2>2. /\ jobState' \in [Jobs -> {"absent", "waiting", "active", "completed", "failed"}]
        /\ attemptsMade' \in [Jobs -> 0..ATTEMPTS]
        /\ capturing' \in SUBSET Jobs
        /\ jobState'[job[w]] \in {"waiting", "failed"}
        /\ jobState'[job[w]] = "waiting" => attemptsMade'[job[w]] < ATTEMPTS
        /\ \A i \in Jobs \ {job[w]} : jobState'[i] = jobState[i] /\ attemptsMade'[i] = attemptsMade[i]
    BY <2>1, RejectedTypes DEF BaseInv
  <2>3. /\ pc' \in [Workers -> {"idle", "claim", "handle", "complete", "fail", "rejected"}]
        /\ job' \in [Workers -> Jobs \cup {None}]
        /\ consumer' \in [Workers -> 1..(NumConsumers + 1)]
        /\ attached' \in [Workers -> BOOLEAN]
        /\ ~attached'[w] /\ (pc'[w] = "idle" \/ UNCHANGED <<pc, job, consumer>>)
        /\ \A u \in Workers \ {w} : /\ pc'[u] = pc[u] /\ job'[u] = job[u]
                                    /\ consumer'[u] = consumer[u] /\ attached'[u] = attached[u]
    <3>1. CASE Reject(w)
      BY <3>1, IdleTypes DEF Reject, BaseInv
    <3>2. CASE Timeout(w)
      BY <3>2 DEF Timeout, BaseInv, TypeOK
    <3> QED
      BY <1>3, <3>1, <3>2
  <2>4. /\ UNCHANGED <<claimVars, dlq, replayCount, request, crashes, expiries, errors, dbErrors>>
        /\ timeouts' \in 0..MaxTimeouts
    BY <1>3, DispatchAssumption DEF Reject, Timeout, BaseInv, TypeOK, bounds
  <2>5. TypeOK'
    BY <2>2, <2>3, <2>4 DEF BaseInv, TypeOK, claimVars
  <2>6. WorkerInv'
    BY <2>3 DEF BaseInv, WorkerInv, InWork
  <2>7. \A u \in Workers : attached'[u] => /\ attached[u] /\ u # w /\ job'[u] = job[u] /\ pc'[u] = pc[u]
                                           /\ job[u] \in Jobs /\ job[u] # job[w]
    BY <2>1, <2>3 DEF BaseInv, WorkerInv, QueueInv
  <2>8. QueueInv'
    <3>1. \A u \in Workers : attached'[u] => pc'[u] # "idle" /\ jobState'[job'[u]] = "active"
      BY <2>2, <2>7 DEF BaseInv, QueueInv
    <3>2. \A u, v \in Workers : attached'[u] /\ attached'[v] /\ job'[u] = job'[v] => u = v
      BY <2>7 DEF BaseInv, QueueInv
    <3>3. \A i \in Jobs : jobState'[i] \in {"absent", "waiting", "active"} => attemptsMade'[i] < ATTEMPTS
      BY <2>2 DEF BaseInv, QueueInv
    <3> QED
      BY <3>1, <3>2, <3>3 DEF QueueInv
  <2> QED
    BY <2>5, <2>6, <2>8 DEF BaseInv
<1> QED
  BY <1>1, <1>2, <1>3

\* The steps that leave the executions alone: a job enters the queue or comes
\* back to it, a lease runs out, a dead letter is kept or replayed.
LEMMA EnterBase ==
  ASSUME BaseInv,
         \/ \E e \in Events : Publish(e)
         \/ \E j \in Jobs : Stalled(j)
         \/ \E a \in Admins : ReplayAdd(a)
  PROVE  /\ BaseInv' /\ UNCHANGED <<claimVars, workerVars, capturing, dlq, bounds>>
         /\ \A i \in Jobs : \/ jobState'[i] = jobState[i]
                            \/ /\ jobState[i] \in {"absent", "active"} /\ jobState'[i] = "waiting"
                               /\ i[2] = 0 \/ jobState[i] = "active" \/ \E d \in dlq : d[1] = i[1]
<1>1. /\ jobState' \in [Jobs -> {"absent", "waiting", "active", "completed", "failed"}]
      /\ UNCHANGED <<attemptsMade, claimVars, workerVars, capturing, dlq, replayCount, bounds>>
      /\ request' \in [Admins -> (dlq \X (1..MAX_REPLAYS) \X BOOLEAN) \cup {None}]
      /\ \A i \in Jobs : \/ jobState'[i] = jobState[i]
                         \/ /\ jobState[i] \in {"absent", "active"} /\ jobState'[i] = "waiting"
                            /\ \A w \in Workers : attached[w] => job[w] # i
                            /\ i[2] = 0 \/ jobState[i] = "active" \/ \E d \in dlq : d[1] = i[1]
  <2>0. \A i \in Jobs, w \in Workers : jobState[i] = "absent" /\ attached[w] => job[w] # i
    BY DEF BaseInv, QueueInv
  <2>1. CASE \E e \in Events : Publish(e)
    <3>1. PICK e \in Events : Publish(e)
      BY <2>1
    <3>2. <<e, 0>> \in Jobs
      BY DispatchAssumption DEF Jobs
    <3> QED
      BY <2>0, <3>1, <3>2 DEF Publish, dlqVars, BaseInv, TypeOK
  <2>2. CASE \E j \in Jobs : Stalled(j)
    BY <2>2 DEF Stalled, dlqVars, BaseInv, TypeOK
  <2>3. CASE \E a \in Admins : ReplayAdd(a)
    <3>1. PICK a \in Admins : ReplayAdd(a)
      BY <2>3
    <3> DEFINE k == <<request[a][1], request[a][2], TRUE>>
               j == <<request[a][1][1], request[a][2]>>
    <3>2. request[a] # None
      BY <3>1 DEF ReplayAdd
    <3>3. /\ request[a] \in dlq \X (1..MAX_REPLAYS) \X BOOLEAN
          /\ request[a][1] \in dlq /\ j \in Jobs
      BY <3>2, RequestTypes DEF BaseInv
    <3>4. k \in dlq \X (1..MAX_REPLAYS) \X BOOLEAN
      BY <3>3
    <3>5. request' = [request EXCEPT ![a] = k]
      BY <3>1 DEF ReplayAdd
    <3>6. jobState' = IF jobState[j] = "absent" THEN [jobState EXCEPT ![j] = "waiting"] ELSE jobState
      BY <3>1 DEF ReplayAdd
    <3>7. j[1] = request[a][1][1]
      OBVIOUS
    <3>8. UNCHANGED <<attemptsMade, claimVars, workerVars, capturing, dlq, replayCount, bounds>>
      BY <3>1 DEF ReplayAdd
    <3> HIDE DEF k, j
    <3>9. request' \in [Admins -> (dlq \X (1..MAX_REPLAYS) \X BOOLEAN) \cup {None}]
      BY <3>4, <3>5 DEF BaseInv, TypeOK
    <3>10. jobState' \in [Jobs -> {"absent", "waiting", "active", "completed", "failed"}]
      BY <3>3, <3>6 DEF BaseInv, TypeOK
    <3>11. ASSUME NEW i \in Jobs, jobState'[i] # jobState[i]
           PROVE  /\ jobState[i] = "absent" /\ jobState'[i] = "waiting"
                  /\ \E d \in dlq : d[1] = i[1]
      BY <3>3, <3>6, <3>7, <3>11 DEF BaseInv, TypeOK
    <3> QED
      BY <2>0, <3>8, <3>9, <3>10, <3>11
  <2> QED
    BY <2>1, <2>2, <2>3
<1>2. TypeOK'
  BY <1>1 DEF BaseInv, TypeOK, claimVars, workerVars, bounds
<1>3. WorkerInv'
  BY <1>1 DEF BaseInv, WorkerInv, InWork, workerVars
<1>4. QueueInv'
  <2>1. \A w \in Workers : attached[w] => job[w] \in Jobs
    BY DEF BaseInv, QueueInv, WorkerInv
  <2> QED
    BY <1>1, <2>1 DEF BaseInv, QueueInv, workerVars
<1> QED
  BY <1>1, <1>2, <1>3, <1>4 DEF BaseInv

LEMMA CrashBase ==
  ASSUME BaseInv, Crash
  PROVE  BaseInv'
<1>1. TypeOK'
  BY DispatchAssumption DEF Crash, BaseInv, TypeOK, queueVars, claimVars
<1> QED
  BY <1>1 DEF Crash, BaseInv, WorkerInv, QueueInv, InWork, queueVars

LEMMA LeaseBase ==
  ASSUME BaseInv, NEW x \in Claims, LeaseExpires(x)
  PROVE  BaseInv'
<1>1. TypeOK'
  BY DispatchAssumption DEF LeaseExpires, BaseInv, TypeOK, queueVars, workerVars, dlqVars
<1> QED
  BY <1>1 DEF LeaseExpires, BaseInv, WorkerInv, QueueInv, InWork, queueVars, workerVars

LEMMA DeadLetterBase ==
  ASSUME BaseInv,
         \/ \E j \in Jobs : Capture(j)
         \/ \E a \in Admins, d \in Jobs : ReplayRead(a, d)
         \/ \E a \in Admins : ReplayUpdate(a)
  PROVE  /\ BaseInv' /\ UNCHANGED <<queueVars, claimVars, workerVars, bounds>>
         /\ capturing' \cup dlq' = capturing \cup dlq
<1>1. UNCHANGED <<queueVars, claimVars, workerVars, bounds>>
  BY DEF Capture, ReplayRead, ReplayUpdate
<1>2. capturing' \cup dlq' = capturing \cup dlq /\ capturing' \in SUBSET Jobs /\ dlq' \in SUBSET Jobs
  BY DEF Capture, ReplayRead, ReplayUpdate, BaseInv, TypeOK
<1>3. /\ replayCount' \in [Jobs -> 0..MAX_REPLAYS]
      /\ request' \in [Admins -> (dlq' \X (1..MAX_REPLAYS) \X BOOLEAN) \cup {None}]
  <2>1. CASE \E j \in Jobs : Capture(j)
    <3>1. dlq \subseteq dlq' /\ UNCHANGED <<replayCount, request>>
      BY <2>1 DEF Capture
    <3>2. dlq \X (1..MAX_REPLAYS) \X BOOLEAN \subseteq dlq' \X (1..MAX_REPLAYS) \X BOOLEAN
      BY <3>1
    <3> QED
      BY <3>1, <3>2 DEF BaseInv, TypeOK
  <2>2. CASE \E a \in Admins, d \in Jobs : ReplayRead(a, d)
    <3>1. PICK a \in Admins, d \in Jobs : ReplayRead(a, d)
      BY <2>2
    <3>2. replayCount[d] + 1 \in 1..MAX_REPLAYS /\ d \in dlq
      BY <3>1, DispatchAssumption DEF ReplayRead, BaseInv, TypeOK
    <3> QED
      BY <3>1, <3>2 DEF ReplayRead, BaseInv, TypeOK
  <2>3. CASE \E a \in Admins : ReplayUpdate(a)
    <3>1. PICK a \in Admins : ReplayUpdate(a)
      BY <2>3
    <3>2. request[a][1] \in Jobs /\ request[a][2] \in 1..MAX_REPLAYS
      BY <3>1, RequestTypes DEF ReplayUpdate, BaseInv
    <3>3. request[a][2] \in 0..MAX_REPLAYS
      BY <3>2, DispatchAssumption
    <3> QED
      BY <3>1, <3>2, <3>3 DEF ReplayUpdate, BaseInv, TypeOK
  <2> QED
    BY <2>1, <2>2, <2>3
<1>4. TypeOK'
  BY <1>1, <1>2, <1>3 DEF BaseInv, TypeOK, queueVars, claimVars, workerVars, bounds
<1>5. WorkerInv' /\ QueueInv'
  BY <1>1 DEF BaseInv, WorkerInv, QueueInv, InWork, queueVars, workerVars
<1> QED
  BY <1>1, <1>2, <1>4, <1>5 DEF BaseInv

LEMMA BaseStep ==
  ASSUME BaseInv, [Next]_vars
  PROVE  BaseInv'
<1>1. CASE UNCHANGED vars
  BY <1>1 DEF BaseInv, TypeOK, WorkerInv, QueueInv, InWork, vars, queueVars, claimVars, workerVars,
     dlqVars, bounds
<1>2. CASE \E w \in Workers : Step(w) \/ Timeout(w)
  BY <1>2, SettlingBase, EndBase DEF Step, Settling
<1>3. CASE \E w \in Workers, j \in Jobs : Take(w, j)
  BY <1>3, TakeBase
<1>4. CASE Crash \/ \E x \in Claims : LeaseExpires(x)
  BY <1>4, CrashBase, LeaseBase
<1>5. CASE \/ \E e \in Events : Publish(e)
           \/ \E j \in Jobs : Stalled(j)
           \/ \E a \in Admins : ReplayAdd(a)
  BY <1>5, EnterBase
<1>6. CASE \/ \E j \in Jobs : Capture(j)
           \/ \E a \in Admins, d \in Jobs : ReplayRead(a, d)
           \/ \E a \in Admins : ReplayUpdate(a)
  BY <1>6, DeadLetterBase
<1> QED
  BY <1>1, <1>2, <1>3, <1>4, <1>5, <1>6 DEF Next

-----------------------------------------------------------------------------
(* One effect per claim while leases outlast handlers. *)

\* Executions that begin, end or go away take no claim and settle none.
LEMMA HoldersKept ==
  ASSUME OneHolder, EffectOnce, UNCHANGED claimVars,
         \A w \in Workers : InWork(w)' => pc'[w] = pc[w] /\ job'[w] = job[w] /\ consumer'[w] = consumer[w]
  PROVE  OneHolder' /\ EffectOnce'
<1>1. \A w \in Workers : InWork(w)' => InWork(w) /\ Working(w)' = Working(w) /\ pc'[w] = pc[w]
  BY DEF InWork, Working
<1>2. OneHolder'
  BY <1>1 DEF OneHolder, claimVars
<1>3. EffectOnce'
  BY <1>1 DEF EffectOnce, claimVars, InWork
<1> QED
  BY <1>2, <1>3

LEMMA SettlingHolder ==
  ASSUME BaseInv, OneHolder, EffectOnce, NEW w \in Workers, Settling(w), Leased'
  PROVE  OneHolder' /\ EffectOnce'
<1> DEFINE x == Working(w)
<1>0. ~DbThrows(w)
  BY DEF Leased, DbThrows, BaseInv, TypeOK
<1>1. /\ pc[w] \in {"claim", "handle", "complete", "fail"} /\ consumer[w] \in Consumers
      /\ x \in Claims
  <2>1. pc[w] \in {"claim", "handle", "complete", "fail"} /\ consumer[w] \in Consumers
    BY DEF BaseInv, WorkerInv, InWork, Settling, ClaimConsumer, SkipConsumer, HandleOk,
       HandleThrows, Complete, DbThrows, Fail
  <2> QED
    BY <2>1, WorkingTypes DEF BaseInv
<1>2. \A u \in Workers \ {w} : /\ (InWork(u)' <=> InWork(u)) /\ Working(u)' = Working(u) /\ pc'[u] = pc[u]
                               /\ InWork(u) => Working(u) \in Claims
  <2>1. \A u \in Workers \ {w} : pc'[u] = pc[u] /\ consumer'[u] = consumer[u] /\ job'[u] = job[u]
    BY <1>0 DEF BaseInv, TypeOK, Settling, ClaimConsumer, SkipConsumer, HandleOk, HandleThrows,
       Complete, Fail
  <2> QED
    BY <2>1, WorkingTypes DEF InWork, Working, BaseInv
<1>3. CASE ClaimConsumer(w)
  <2>1. claim[x] \in {"absent", "failed"} /\ effects[x] = 0
    BY <1>1, <1>3 DEF ClaimConsumer, Claimable, OneHolder, EffectOnce
  <2>2. \A u \in Workers : InWork(u) => Working(u) # x
    BY <2>1 DEF OneHolder
  <2>3. InWork(w)' /\ Working(w)' = x /\ effects' = effects /\ pc'[w] = "handle"
    BY <1>3 DEF ClaimConsumer, InWork, Working, BaseInv, TypeOK
  <2>4. /\ claim'[x] = "processing" /\ \A y \in Claims \ {x} : claim'[y] = claim[y]
        /\ lease'[x] = "live" /\ \A y \in Claims \ {x} : lease'[y] = lease[y]
    BY <1>1, <1>3 DEF ClaimConsumer, BaseInv, TypeOK
  <2> HIDE DEF x
  <2>5. OneHolder'
    BY <1>1, <1>2, <2>2, <2>3, <2>4 DEF OneHolder
  <2>6. EffectOnce'
    BY <1>1, <1>2, <2>1, <2>2, <2>3, <2>4 DEF EffectOnce
  <2> QED
    BY <2>5, <2>6
<1>4. CASE SkipConsumer(w)
  <2>1. UNCHANGED claimVars /\ pc' = pc /\ job' = job /\ pc[w] = "claim"
        /\ \A u \in Workers \ {w} : consumer'[u] = consumer[u]
    BY <1>4 DEF SkipConsumer, BaseInv, TypeOK
  <2> QED
    BY <2>1, HoldersKept DEF InWork
<1>5. CASE HandleOk(w)
  <2>1. claim[x] = "processing" /\ effects[x] = 0 /\ InWork(w)
    BY <1>5 DEF HandleOk, InWork, OneHolder, EffectOnce
  <2>2. \A u \in Workers : InWork(u) /\ Working(u) = x => u = w
    BY <2>1 DEF OneHolder
  <2>3. InWork(w)' /\ Working(w)' = x /\ claim' = claim /\ lease' = lease /\ pc'[w] = "complete"
    BY <1>5 DEF HandleOk, InWork, Working, BaseInv, TypeOK
  <2>4. effects'[x] = 1 /\ \A y \in Claims \ {x} : effects'[y] = effects[y]
    BY <1>1, <1>5, <2>1 DEF HandleOk, BaseInv, TypeOK
  <2> HIDE DEF x
  <2>5. OneHolder'
    BY <1>1, <1>2, <2>1, <2>2, <2>3 DEF OneHolder
  <2>6. EffectOnce'
    <3>1. \A u \in Workers \ {w} : pc[u] \in {"handle", "fail"} => Working(u) # x /\ Working(u) \in Claims
      BY <1>2, <2>2 DEF InWork
    <3> QED
      BY <1>1, <1>2, <2>1, <2>3, <2>4, <3>1 DEF EffectOnce
  <2> QED
    BY <2>5, <2>6
<1>6. CASE HandleThrows(w)
  <2>1. claim[x] = "processing" /\ effects[x] = 0 /\ InWork(w)
    BY <1>6 DEF HandleThrows, InWork, OneHolder, EffectOnce
  <2>2. InWork(w)' /\ Working(w)' = x /\ UNCHANGED claimVars /\ pc'[w] = "fail"
    BY <1>6 DEF HandleThrows, InWork, Working, BaseInv, TypeOK
  <2>3. \A u \in Workers : (InWork(u)' <=> InWork(u)) /\ Working(u)' = Working(u)
    BY <1>2, <2>1, <2>2
  <2>4. OneHolder'
    BY <2>2, <2>3 DEF OneHolder, claimVars
  <2>5. EffectOnce'
    BY <1>2, <2>1, <2>2 DEF EffectOnce, claimVars
  <2> QED
    BY <2>4, <2>5
<1>7. CASE Complete(w) \/ Fail(w)
  <2>1. claim[x] = "processing" /\ InWork(w) /\ (Fail(w) => effects[x] = 0)
    BY <1>7 DEF Complete, Fail, InWork, OneHolder, EffectOnce
  <2>2. \A u \in Workers \ {w} : InWork(u) => Working(u) # x
    BY <2>1 DEF OneHolder
  <2>3. ~InWork(w)' /\ pc'[w] \notin {"handle", "fail"} /\ effects' = effects
    BY <1>7 DEF Complete, Fail, InWork, BaseInv, TypeOK
  <2>4. /\ claim'[x] = IF Complete(w) THEN "completed" ELSE "failed"
        /\ \A y \in Claims \ {x} : claim'[y] = claim[y]
        /\ lease'[x] = "none" /\ \A y \in Claims \ {x} : lease'[y] = lease[y]
    BY <1>1, <1>7 DEF Complete, Fail, BaseInv, TypeOK
  <2>5. claim'[x] \in {"absent", "failed"} => effects[x] = 0
    BY <1>7, <2>1, <2>4
  <2> HIDE DEF x
  <2>6. OneHolder'
    BY <1>1, <1>2, <2>2, <2>3, <2>4 DEF OneHolder
  <2>7. EffectOnce'
    BY <1>1, <1>2, <2>3, <2>4, <2>5 DEF EffectOnce
  <2> QED
    BY <2>6, <2>7
<1> QED
  BY <1>0, <1>3, <1>4, <1>5, <1>6, <1>7 DEF Settling

\* A fault that happened stays counted.
LEMMA CountersGrow ==
  ASSUME [Next]_vars, timeouts \in Nat, crashes \in Nat, expiries \in Nat, dbErrors \in Nat
  PROVE  /\ timeouts' \in {timeouts, timeouts + 1} /\ crashes' \in {crashes, crashes + 1}
         /\ expiries' \in {expiries, expiries + 1} /\ dbErrors' \in {dbErrors, dbErrors + 1}
<1>1. CASE \E w \in Workers : Step(w)
  BY <1>1 DEF Step, ClaimConsumer, SkipConsumer, HandleOk, HandleThrows, Complete, DbThrows, Fail,
     Reject, Resolve, bounds
<1>2. CASE Crash \/ (\E w \in Workers : Timeout(w)) \/ (\E x \in Claims : LeaseExpires(x))
  BY <1>2 DEF Crash, Timeout, LeaseExpires
<1>3. CASE UNCHANGED bounds
  BY <1>3 DEF bounds
<1>4. CASE \/ \E e \in Events : Publish(e)
           \/ \E w \in Workers, j \in Jobs : Take(w, j)
           \/ \E j \in Jobs : Stalled(j) \/ Capture(j)
           \/ \E a \in Admins, d \in Jobs : ReplayRead(a, d)
           \/ \E a \in Admins : ReplayAdd(a) \/ ReplayUpdate(a)
  BY <1>3, <1>4 DEF Publish, Take, Stalled, Capture, ReplayRead, ReplayAdd, ReplayUpdate
<1> QED
  BY <1>1, <1>2, <1>3, <1>4 DEF Next, vars

LEMMA LeasedStep ==
  ASSUME BaseInv, Leased => OneHolder /\ EffectOnce, [Next]_vars
  PROVE  Leased' => OneHolder' /\ EffectOnce'
<1> SUFFICES ASSUME Leased' PROVE OneHolder' /\ EffectOnce'
  OBVIOUS
<1>1. Leased
  <2>1. timeouts \in Nat /\ crashes \in Nat /\ expiries \in Nat /\ dbErrors \in Nat
    BY DispatchAssumption DEF BaseInv, TypeOK
  <2> QED
    BY <2>1, CountersGrow DEF Leased
<1>2. OneHolder /\ EffectOnce
  BY <1>1
<1>3. CASE \E w \in Workers : Settling(w)
  BY <1>2, <1>3, SettlingHolder
<1>4. CASE \E x \in Claims : LeaseExpires(x)
  BY <1>1, <1>4 DEF Leased, LeaseExpires
<1>5. CASE /\ UNCHANGED claimVars
           /\ \A w \in Workers : InWork(w)' => pc'[w] = pc[w] /\ job'[w] = job[w] /\ consumer'[w] = consumer[w]
  BY <1>2, <1>5, HoldersKept
<1>6. CASE \E w \in Workers : Reject(w) \/ Resolve(w) \/ Timeout(w)
  <2>1. PICK w \in Workers : Reject(w) \/ Resolve(w) \/ Timeout(w)
    BY <1>6
  <2>2. UNCHANGED claimVars /\ (Idle(w) \/ UNCHANGED <<pc, job, consumer>>)
    BY <2>1 DEF Reject, Resolve, Timeout
  <2>3. \A u \in Workers : InWork(u)' => pc'[u] = pc[u] /\ job'[u] = job[u] /\ consumer'[u] = consumer[u]
    BY <2>2, IdleTypes DEF InWork, BaseInv
  <2> QED
    BY <1>5, <2>2, <2>3
<1>7. CASE Crash \/ \E w \in Workers, j \in Jobs : Take(w, j)
  <2>1. UNCHANGED claimVars
    BY <1>7 DEF Crash, Take
  <2>2. \A u \in Workers : InWork(u)' => pc'[u] = pc[u] /\ job'[u] = job[u] /\ consumer'[u] = consumer[u]
    BY <1>7 DEF Crash, Take, InWork, BaseInv, TypeOK
  <2> QED
    BY <1>5, <2>1, <2>2
<1>8. CASE UNCHANGED <<claimVars, workerVars>>
  BY <1>5, <1>8 DEF workerVars
<1> QED
  BY <1>3, <1>4, <1>6, <1>7, <1>8, EnterBase, DeadLetterBase DEF Next, Step, Settling, vars

-----------------------------------------------------------------------------
(* Executions of an event without a dead letter follow one another. *)

\* Without faults such an event has one execution, of the job it was published with.
LEMMA ExecutionAlone ==
  ASSUME BaseInv, OneExecution, NEW e \in Events, InOrder(e),
         NEW w \in Workers, pc[w] # "idle", job[w][1] = e
  PROVE  /\ job[w] = <<e, 0>> /\ <<e, 0>> \in Jobs /\ attached[w] /\ jobState[<<e, 0>>] = "active"
         /\ \A u \in Workers : pc[u] # "idle" /\ job[u][1] = e => u = w
<1>1. ASSUME NEW u \in Workers, pc[u] # "idle", job[u][1] = e
      PROVE  job[u] = <<e, 0>> /\ attached[u] /\ jobState[job[u]] = "active"
  <2>1. attached[u] /\ jobState[job[u]] = "active"
    BY <1>1 DEF OneExecution, BaseInv, QueueInv
  <2>2. job[u] = <<e, job[u][2]>> /\ job[u][2] \in 0..MAX_REPLAYS
    BY <1>1, WorkingTypes DEF BaseInv
  <2>3. job[u][2] \notin 1..MAX_REPLAYS
    BY <2>1, <2>2 DEF InOrder
  <2>4. job[u][2] = 0
    BY <2>2, <2>3, DispatchAssumption
  <2> QED
    BY <2>1, <2>2, <2>4
<1>2. <<e, 0>> \in Jobs
  BY DispatchAssumption DEF Jobs
<1> QED
  BY <1>1, <1>2 DEF BaseInv, QueueInv

\* The order is kept by a step that changes neither the event's claims nor its
\* executions, and acknowledges none of its jobs.
LEMMA OrderKept ==
  ASSUME NEW e \in Events, InOrder(e),
         \A n \in 1..MAX_REPLAYS : jobState'[<<e, n>>] = jobState[<<e, n>>],
         jobState'[<<e, 0>>] = "completed" => jobState[<<e, 0>>] = "completed",
         \A c \in Consumers : claim'[<<e, c>>] = claim[<<e, c>>],
         \A w \in Workers : pc'[w] # "idle" /\ job'[w][1] = e /\ consumer'[w] # 1
                              => pc[w] # "idle" /\ job[w][1] = e /\ consumer'[w] = consumer[w],
         \A w \in Workers : InWork(w) /\ job[w][1] = e => InWork(w)' /\ Working(w)' = Working(w),
         \A w \in Workers : InWork(w)' /\ job'[w][1] = e
                              => InWork(w) /\ job[w][1] = e /\ Working(w)' = Working(w)
                                 /\ consumer[w] \in Consumers
  PROVE  InOrder(e)'
<1>1. \A n \in 1..MAX_REPLAYS : jobState'[<<e, n>>] = "absent"
  BY DEF InOrder
<1>2. ASSUME NEW c \in Consumers, claim'[<<e, c>>] = "processing"
      PROVE  \E w \in Workers : InWork(w)' /\ Working(w)' = <<e, c>>
  <2>1. PICK w \in Workers : InWork(w) /\ Working(w) = <<e, c>>
    BY <1>2 DEF InOrder
  <2>2. job[w][1] = e
    BY <2>1 DEF Working
  <2> QED
    BY <2>1, <2>2
<1>3. ASSUME NEW w \in Workers, InWork(w)', job'[w][1] = e
      PROVE  claim'[Working(w)'] = "processing"
  <2>1. Working(w) = <<e, consumer[w]>> /\ consumer[w] \in Consumers /\ Working(w)' = Working(w)
    BY <1>3 DEF Working
  <2> QED
    BY <1>3, <2>1 DEF InOrder
<1>4. ASSUME NEW w \in Workers, pc'[w] # "idle", job'[w][1] = e, NEW c \in Consumers, c < consumer'[w]
      PROVE  claim'[<<e, c>>] = "completed"
  <2>1. consumer'[w] # 1
    BY <1>4, DispatchAssumption DEF Consumers
  <2> QED
    BY <1>4, <2>1 DEF InOrder
<1>5. jobState'[<<e, 0>>] = "completed" => \A c \in Consumers : claim'[<<e, c>>] = "completed"
  BY DEF InOrder
<1> QED
  BY <1>1, <1>2, <1>3, <1>4, <1>5 DEF InOrder

LEMMA SettlingOrder ==
  ASSUME BaseInv, OneExecution, NEW e \in Events, InOrder(e),
         NEW w \in Workers, Settling(w), ~DbThrows(w)
  PROVE  InOrder(e)'
<1> DEFINE x == Working(w)
<1>1. /\ pc[w] \in {"claim", "handle", "complete", "fail"} /\ consumer[w] \in Consumers
      /\ x \in Claims /\ x = <<job[w][1], consumer[w]>>
  <2>1. pc[w] \in {"claim", "handle", "complete", "fail"} /\ consumer[w] \in Consumers
    BY DEF BaseInv, WorkerInv, InWork, Settling, ClaimConsumer, SkipConsumer, HandleOk,
       HandleThrows, Complete, DbThrows, Fail
  <2> QED
    BY <2>1, WorkingTypes DEF BaseInv, Working
<1>2. /\ UNCHANGED <<jobState, job, attached>>
      /\ pc'[w] # "idle"
      /\ \A u \in Workers \ {w} : pc'[u] = pc[u] /\ consumer'[u] = consumer[u]
      /\ \A y \in Claims \ {x} : claim'[y] = claim[y]
  BY <1>1 DEF BaseInv, TypeOK, Settling, ClaimConsumer, SkipConsumer, HandleOk, HandleThrows,
     Complete, Fail, queueVars, claimVars
<1>3. \A u \in Workers \ {w} : (InWork(u)' <=> InWork(u)) /\ Working(u)' = Working(u)
  BY <1>2 DEF InWork, Working
<1>4. \A u \in Workers : InWork(u) => consumer[u] \in Consumers
  BY DEF BaseInv, WorkerInv
<1>5. CASE job[w][1] # e
  <2>1. \A c \in Consumers : <<e, c>> \in Claims \ {x}
    BY <1>1, <1>5 DEF Claims
  <2> HIDE DEF x
  <2>2. \A c \in Consumers : claim'[<<e, c>>] = claim[<<e, c>>]
    BY <1>2, <2>1
  <2>3. \A u \in Workers : pc'[u] # "idle" /\ job'[u][1] = e /\ consumer'[u] # 1
                              => pc[u] # "idle" /\ job[u][1] = e /\ consumer'[u] = consumer[u]
    BY <1>2, <1>5
  <2>4. \A u \in Workers : InWork(u) /\ job[u][1] = e => InWork(u)' /\ Working(u)' = Working(u)
    BY <1>3, <1>5
  <2>5. \A u \in Workers : InWork(u)' /\ job'[u][1] = e
                              => InWork(u) /\ job[u][1] = e /\ Working(u)' = Working(u)
                                 /\ consumer[u] \in Consumers
    BY <1>2, <1>3, <1>4, <1>5
  <2> QED
    BY <1>2, <2>2, <2>3, <2>4, <2>5, OrderKept
<1>6. CASE job[w][1] = e
  <2>1. /\ \A u \in Workers : pc[u] # "idle" /\ job[u][1] = e => u = w
        /\ jobState[<<e, 0>>] = "active"
    BY <1>1, <1>6, ExecutionAlone
  <2>2. \A u \in Workers : pc'[u] # "idle" /\ job'[u][1] = e => u = w
    BY <1>2, <2>1
  <2>3. /\ \A n \in 1..MAX_REPLAYS : jobState'[<<e, n>>] = "absent"
        /\ jobState'[<<e, 0>>] # "completed"
    BY <1>2, <2>1 DEF InOrder
  <2>4. x = <<e, consumer[w]>> /\ \A c \in Consumers : <<e, c>> \in Claims /\ (<<e, c>> = x <=> c = consumer[w])
    BY <1>1, <1>6 DEF Claims
  <2>5. \A c \in Consumers : c # consumer[w] => claim'[<<e, c>>] = claim[<<e, c>>]
    BY <1>2, <2>4
  <2>6. \A c \in Consumers : claim[<<e, c>>] = "processing" => c = consumer[w] /\ InWork(w)
    <3> SUFFICES ASSUME NEW c \in Consumers, claim[<<e, c>>] = "processing"
                 PROVE  c = consumer[w] /\ InWork(w)
      OBVIOUS
    <3>1. PICK u \in Workers : InWork(u) /\ Working(u) = <<e, c>>
      BY DEF InOrder
    <3>2. pc[u] # "idle" /\ job[u][1] = e /\ consumer[u] = c
      BY <3>1 DEF InWork, Working
    <3> QED
      BY <2>1, <3>1, <3>2
  <2>7. \A c \in Consumers : c < consumer[w] => claim[<<e, c>>] = "completed"
    BY <1>1, <1>6 DEF InOrder
  <2>8. consumer[w] \in Nat /\ consumer[w] \in 1..NumConsumers /\ \A c \in Consumers : c \in Nat
    BY <1>1 DEF Consumers
  <2>9. /\ claim'[x] = "processing" => InWork(w)' /\ consumer'[w] = consumer[w]
        /\ InWork(w)' => claim'[x] = "processing" /\ consumer'[w] = consumer[w]
        /\ consumer'[w] # consumer[w] => consumer'[w] = consumer[w] + 1 /\ claim'[x] = "completed"
    <3>1. InWork(w) => claim[x] = "processing"
      BY <1>6 DEF InOrder
    <3>2. claim[x] = "processing" => InWork(w)
      BY <1>1, <2>4, <2>6
    <3>3. CASE ClaimConsumer(w)
      BY <1>1, <3>3 DEF ClaimConsumer, InWork, BaseInv, TypeOK
    <3>4. CASE SkipConsumer(w)
      <4>1. claim[x] # "processing" /\ ~InWork(w)
        BY <3>2, <3>4 DEF SkipConsumer, InWork
      <4>2. claim[x] = "completed"
        BY <1>1, <3>4, <4>1 DEF SkipConsumer, Claimable, BaseInv, TypeOK
      <4>3. claim' = claim /\ pc' = pc /\ consumer'[w] = consumer[w] + 1
        BY <3>4 DEF SkipConsumer, claimVars, BaseInv, TypeOK
      <4> HIDE DEF x
      <4> QED
        BY <4>1, <4>2, <4>3 DEF InWork
    <3>5. CASE HandleOk(w) \/ HandleThrows(w)
      <4>1. InWork(w) /\ InWork(w)' /\ claim' = claim /\ consumer' = consumer
        BY <3>5 DEF HandleOk, HandleThrows, InWork, claimVars, BaseInv, TypeOK
      <4> HIDE DEF x
      <4> QED
        BY <3>1, <4>1
    <3>6. CASE Complete(w)
      BY <1>1, <3>6 DEF Complete, InWork, BaseInv, TypeOK
    <3>7. CASE Fail(w)
      BY <1>1, <3>7 DEF Fail, InWork, BaseInv, TypeOK
    <3> QED
      BY <3>3, <3>4, <3>5, <3>6, <3>7 DEF Settling
  <2>10. Working(w)' = <<e, consumer'[w]>>
    BY <1>2, <1>6 DEF Working
  <2> HIDE DEF x
  <2>11. ASSUME NEW c \in Consumers, claim'[<<e, c>>] = "processing"
         PROVE  \E u \in Workers : InWork(u)' /\ Working(u)' = <<e, c>>
    <3>1. c = consumer[w]
      BY <2>5, <2>6, <2>11
    <3>2. claim'[x] = "processing"
      BY <2>4, <2>11, <3>1
    <3> QED
      BY <2>9, <2>10, <3>1, <3>2
  <2>12. ASSUME NEW u \in Workers, InWork(u)', job'[u][1] = e
         PROVE  claim'[Working(u)'] = "processing"
    <3>1. u = w
      BY <2>2, <2>12 DEF InWork
    <3> QED
      BY <2>4, <2>9, <2>10, <2>12, <3>1
  <2>13. ASSUME NEW u \in Workers, pc'[u] # "idle", job'[u][1] = e, NEW c \in Consumers, c < consumer'[u]
         PROVE  claim'[<<e, c>>] = "completed"
    <3>1. u = w
      BY <2>2, <2>13
    <3>2. CASE c = consumer[w]
      BY <2>4, <2>8, <2>9, <2>13, <3>1, <3>2
    <3>3. CASE c # consumer[w]
      <4>1. c < consumer[w]
        BY <2>8, <2>9, <2>13, <3>1, <3>3
      <4> QED
        BY <2>5, <2>7, <3>3, <4>1
    <3> QED
      BY <3>2, <3>3
  <2> QED
    BY <2>3, <2>11, <2>12, <2>13 DEF InOrder
<1> QED
  BY <1>5, <1>6

LEMMA TakeOrder ==
  ASSUME BaseInv, NEW e \in Events, InOrder(e), NEW w \in Workers, NEW j \in Jobs, Take(w, j)
  PROVE  InOrder(e)'
<1>1. /\ pc[w] = "idle" /\ jobState[j] = "waiting" /\ consumer'[w] = 1 /\ pc'[w] = "claim"
      /\ jobState'[j] = "active" /\ \A i \in Jobs \ {j} : jobState'[i] = jobState[i]
      /\ \A u \in Workers \ {w} : pc'[u] = pc[u] /\ job'[u] = job[u] /\ consumer'[u] = consumer[u]
      /\ claim' = claim
  BY DEF Take, claimVars, BaseInv, TypeOK
<1>2. \A n \in 0..MAX_REPLAYS : <<e, n>> \in Jobs
  BY DEF Jobs
<1>3. 0 \in 0..MAX_REPLAYS /\ \A n \in 1..MAX_REPLAYS : n \in 0..MAX_REPLAYS /\ jobState[<<e, n>>] = "absent"
  BY DispatchAssumption DEF InOrder
<1>4. /\ \A n \in 1..MAX_REPLAYS : jobState'[<<e, n>>] = jobState[<<e, n>>]
      /\ jobState'[<<e, 0>>] = "completed" => jobState[<<e, 0>>] = "completed"
  BY <1>1, <1>2, <1>3
<1>5. ~InWork(w) /\ ~InWork(w)'
  BY <1>1 DEF InWork
<1>6. \A u \in Workers \ {w} : (InWork(u)' <=> InWork(u)) /\ Working(u)' = Working(u)
  BY <1>1 DEF InWork, Working
<1>7. \A u \in Workers : InWork(u) => consumer[u] \in Consumers
  BY DEF BaseInv, WorkerInv
<1>8. \A u \in Workers : InWork(u) /\ job[u][1] = e => InWork(u)' /\ Working(u)' = Working(u)
  BY <1>5, <1>6
<1>9. \A u \in Workers : InWork(u)' /\ job'[u][1] = e
                            => InWork(u) /\ job[u][1] = e /\ Working(u)' = Working(u)
                               /\ consumer[u] \in Consumers
  BY <1>1, <1>5, <1>6, <1>7
<1>10. \A u \in Workers : pc'[u] # "idle" /\ job'[u][1] = e /\ consumer'[u] # 1
                             => pc[u] # "idle" /\ job[u][1] = e /\ consumer'[u] = consumer[u]
  BY <1>1
<1> QED
  BY <1>1, <1>4, <1>8, <1>9, <1>10, OrderKept

LEMMA EndOrder ==
  ASSUME BaseInv, OneExecution, NEW e \in Events, InOrder(e),
         NEW w \in Workers, Reject(w) \/ Resolve(w)
  PROVE  InOrder(e)'
<1>1. /\ pc[w] \in {"rejected", "claim"} /\ attached[w] /\ Idle(w) /\ claim' = claim
      /\ job[w] \in Jobs /\ jobState[job[w]] = "active"
  BY DEF Reject, Resolve, OneExecution, claimVars, BaseInv, WorkerInv, QueueInv
<1>2. /\ jobState'[job[w]] # "completed" \/ Resolve(w)
      /\ \A i \in Jobs \ {job[w]} : jobState'[i] = jobState[i]
  <2>1. CASE Reject(w)
    <3>1. JobRejected(job[w])
      BY <1>1, <2>1 DEF Reject
    <3> QED
      BY <1>1, <3>1, RejectedTypes DEF BaseInv
  <2>2. CASE Resolve(w)
    BY <1>1, <2>2 DEF Resolve, BaseInv, TypeOK
  <2> QED
    BY <2>1, <2>2
<1>3. 0 \in 0..MAX_REPLAYS /\ \A n \in 1..MAX_REPLAYS : n \in 0..MAX_REPLAYS /\ jobState[<<e, n>>] = "absent"
  BY DispatchAssumption DEF InOrder
<1>4. \A n \in 0..MAX_REPLAYS : <<e, n>> \in Jobs
  BY DEF Jobs
<1>5. \A n \in 1..MAX_REPLAYS : jobState'[<<e, n>>] = jobState[<<e, n>>]
  BY <1>1, <1>2, <1>3, <1>4
<1>6. /\ pc'[w] = "idle"
      /\ \A u \in Workers \ {w} : pc'[u] = pc[u] /\ job'[u] = job[u] /\ consumer'[u] = consumer[u]
  BY <1>1, IdleTypes DEF BaseInv
<1>7. ~InWork(w) /\ ~InWork(w)'
  BY <1>1, <1>6 DEF InWork
<1>8. \A u \in Workers \ {w} : (InWork(u)' <=> InWork(u)) /\ Working(u)' = Working(u)
  BY <1>6 DEF InWork, Working
<1>9. \A u \in Workers : InWork(u) => consumer[u] \in Consumers
  BY DEF BaseInv, WorkerInv
<1>10. jobState'[<<e, 0>>] = "completed" /\ jobState[<<e, 0>>] # "completed"
         => \A c \in Consumers : claim'[<<e, c>>] = "completed"
  <2> SUFFICES ASSUME jobState'[<<e, 0>>] = "completed", jobState[<<e, 0>>] # "completed"
               PROVE  \A c \in Consumers : claim[<<e, c>>] = "completed"
    BY <1>1
  <2>1. job[w] = <<e, 0>> /\ Resolve(w)
    BY <1>2, <1>3, <1>4
  <2>2. consumer[w] = NumConsumers + 1 /\ job[w][1] = e /\ pc[w] # "idle"
    BY <1>1, <2>1 DEF Resolve
  <2>3. \A c \in Consumers : c < consumer[w]
    BY <2>2, DispatchAssumption DEF Consumers
  <2> QED
    BY <2>2, <2>3 DEF InOrder
<1>11. \A u \in Workers : InWork(u) /\ job[u][1] = e => InWork(u)' /\ Working(u)' = Working(u)
  BY <1>7, <1>8
<1>12. \A u \in Workers : InWork(u)' /\ job'[u][1] = e
                            => InWork(u) /\ job[u][1] = e /\ Working(u)' = Working(u)
                               /\ consumer[u] \in Consumers
  BY <1>6, <1>7, <1>8, <1>9
<1>13. \A u \in Workers : pc'[u] # "idle" /\ job'[u][1] = e /\ consumer'[u] # 1
                             => pc[u] # "idle" /\ job[u][1] = e /\ consumer'[u] = consumer[u]
  BY <1>6
<1>14. CASE jobState'[<<e, 0>>] = "completed" => jobState[<<e, 0>>] = "completed"
  BY <1>1, <1>5, <1>11, <1>12, <1>13, <1>14, OrderKept
<1>15. CASE jobState'[<<e, 0>>] = "completed" /\ jobState[<<e, 0>>] # "completed"
  <2>1. \A c \in Consumers : claim'[<<e, c>>] = "completed"
    BY <1>10, <1>15
  <2>2. \A u \in Workers : ~(InWork(u)' /\ job'[u][1] = e)
    <3> SUFFICES ASSUME NEW u \in Workers, InWork(u)', job'[u][1] = e
                 PROVE  FALSE
      OBVIOUS
    <3>1. InWork(u) /\ job[u][1] = e /\ Working(u) = <<e, consumer[u]>> /\ consumer[u] \in Consumers
      BY <1>12 DEF Working
    <3>2. claim[<<e, consumer[u]>>] = "processing"
      BY <3>1 DEF InOrder
    <3> QED
      BY <1>1, <2>1, <3>1, <3>2
  <2> QED
    BY <1>3, <1>5, <2>1, <2>2 DEF InOrder
<1> QED
  BY <1>14, <1>15

LEMMA OrderStep ==
  ASSUME BaseInv, FaultFree => OneExecution /\ \A e \in Events : Clean(e) => InOrder(e), [Next]_vars
  PROVE  FaultFree' => OneExecution' /\ \A e \in Events : Clean(e)' => InOrder(e)'
<1> SUFFICES ASSUME FaultFree' PROVE OneExecution' /\ \A e \in Events : Clean(e)' => InOrder(e)'
  OBVIOUS
<1>1. FaultFree /\ UNCHANGED <<timeouts, crashes, dbErrors>>
  <2>1. timeouts \in Nat /\ crashes \in Nat /\ expiries \in Nat /\ dbErrors \in Nat
    BY DispatchAssumption DEF BaseInv, TypeOK
  <2> QED
    BY <2>1, CountersGrow DEF FaultFree
<1>2. OneExecution /\ \A e \in Events : Clean(e) => InOrder(e)
  BY <1>1
<1>3. ~Crash /\ \A w \in Workers : ~DbThrows(w) /\ ~Timeout(w)
  BY <1>1 DEF Crash, DbThrows, Timeout, FaultFree
<1>4. ASSUME NEW w \in Workers, Settling(w)
      PROVE  OneExecution' /\ \A e \in Events : Clean(e)' => InOrder(e)'
  <2>1. /\ UNCHANGED <<jobState, attached, capturing, dlq>> /\ pc[w] # "idle"
        /\ \A u \in Workers \ {w} : pc'[u] = pc[u]
    BY <1>4 DEF BaseInv, TypeOK, Settling, ClaimConsumer, SkipConsumer, HandleOk, HandleThrows,
       Complete, DbThrows, Fail, queueVars, dlqVars
  <2>2. OneExecution'
    BY <1>2, <2>1 DEF OneExecution
  <2>3. \A e \in Events : Clean(e)' => Clean(e)
    BY <2>1 DEF Clean
  <2> QED
    BY <1>2, <1>3, <1>4, <2>2, <2>3, SettlingOrder
<1>5. ASSUME NEW w \in Workers, NEW j \in Jobs, Take(w, j)
      PROVE  OneExecution' /\ \A e \in Events : Clean(e)' => InOrder(e)'
  <2>1. OneExecution' /\ UNCHANGED <<capturing, dlq>>
    BY <1>2, <1>5 DEF OneExecution, Take, dlqVars, BaseInv, TypeOK
  <2>2. \A e \in Events : Clean(e)' => Clean(e)
    BY <2>1 DEF Clean
  <2> QED
    BY <1>2, <1>5, <2>1, <2>2, TakeOrder
<1>6. ASSUME NEW w \in Workers, Reject(w) \/ Resolve(w)
      PROVE  OneExecution' /\ \A e \in Events : Clean(e)' => InOrder(e)'
  <2>1. /\ dlq' = dlq /\ capturing \subseteq capturing' /\ Idle(w)
        /\ \A i \in Jobs : jobState'[i] = "failed" => i \in capturing' \cup dlq
    <3>1. CASE Reject(w)
      <4>1. attached[w] /\ job[w] \in Jobs /\ jobState[job[w]] = "active" /\ JobRejected(job[w])
        BY <1>2, <3>1 DEF Reject, OneExecution, BaseInv, WorkerInv, QueueInv
      <4>2. /\ jobState'[job[w]] = "failed" => job[w] \in capturing'
            /\ capturing \subseteq capturing'
            /\ \A i \in Jobs \ {job[w]} : jobState'[i] = jobState[i]
        BY <4>1, RejectedTypes DEF BaseInv
      <4> QED
        BY <1>2, <3>1, <4>2 DEF Reject, OneExecution
    <3>2. CASE Resolve(w)
      BY <1>2, <3>2 DEF Resolve, OneExecution, dlqVars, BaseInv, TypeOK
    <3> QED
      BY <1>6, <3>1, <3>2
  <2>2. OneExecution'
    BY <1>2, <2>1, IdleTypes DEF OneExecution, BaseInv
  <2>3. \A e \in Events : Clean(e)' => Clean(e)
    BY <2>1 DEF Clean
  <2> QED
    BY <1>2, <1>6, <2>2, <2>3, EndOrder
<1>7. ASSUME UNCHANGED <<claim, workerVars>>, capturing' \cup dlq' = capturing \cup dlq,
             \A i \in Jobs : \/ jobState'[i] = jobState[i]
                             \/ /\ jobState[i] \in {"absent", "active"} /\ jobState'[i] = "waiting"
                                /\ i[2] = 0 \/ jobState[i] = "active" \/ \E d \in dlq : d[1] = i[1]
      PROVE  OneExecution' /\ \A e \in Events : Clean(e)' => InOrder(e)'
  <2>1. OneExecution'
    BY <1>2, <1>7 DEF OneExecution, workerVars
  <2>2. ASSUME NEW e \in Events, Clean(e)'
        PROVE  InOrder(e)'
    <3>1. Clean(e)
      BY <1>7, <2>2 DEF Clean
    <3>2. InOrder(e)
      BY <1>2, <3>1
    <3>3. 0 \in 0..MAX_REPLAYS /\ \A n \in 1..MAX_REPLAYS : n \in 0..MAX_REPLAYS /\ n # 0 /\ jobState[<<e, n>>] = "absent"
      BY <3>2, DispatchAssumption DEF InOrder
    <3>4. \A n \in 0..MAX_REPLAYS : <<e, n>> \in Jobs /\ <<e, n>>[1] = e /\ <<e, n>>[2] = n
      BY DEF Jobs
    <3>5. ~\E d \in dlq : d[1] = e
      BY <3>1 DEF Clean
    <3>6. \A n \in 1..MAX_REPLAYS : jobState'[<<e, n>>] = jobState[<<e, n>>]
      <4> SUFFICES ASSUME NEW n \in 1..MAX_REPLAYS PROVE jobState'[<<e, n>>] = jobState[<<e, n>>]
        OBVIOUS
      <4>1. /\ <<e, n>> \in Jobs /\ <<e, n>>[1] = e /\ <<e, n>>[2] # 0 /\ jobState[<<e, n>>] = "absent"
        BY <3>3, <3>4
      <4> QED
        BY <1>7, <3>5, <4>1
    <3>7. jobState'[<<e, 0>>] = "completed" => jobState[<<e, 0>>] = "completed"
      <4>1. <<e, 0>> \in Jobs
        BY <3>3, <3>4
      <4> QED
        BY <1>7, <4>1
    <3>8. \A u \in Workers : InWork(u) => consumer[u] \in Consumers
      BY DEF BaseInv, WorkerInv
    <3>9. \A u \in Workers : /\ (InWork(u)' <=> InWork(u)) /\ Working(u)' = Working(u)
                             /\ pc'[u] = pc[u] /\ job'[u] = job[u] /\ consumer'[u] = consumer[u]
      BY <1>7 DEF InWork, Working, workerVars
    <3> QED
      BY <1>7, <3>2, <3>6, <3>7, <3>8, <3>9, OrderKept
  <2> QED
    BY <2>1, <2>2
<1>8. CASE \/ \E e \in Events : Publish(e)
           \/ \E j \in Jobs : Stalled(j)
           \/ \E a \in Admins : ReplayAdd(a)
  BY <1>7, <1>8, EnterBase DEF claimVars
<1>9. CASE \/ \E j \in Jobs : Capture(j)
           \/ \E a \in Admins, d \in Jobs : ReplayRead(a, d)
           \/ \E a \in Admins : ReplayUpdate(a)
  BY <1>7, <1>9, DeadLetterBase DEF claimVars, queueVars
<1>10. CASE UNCHANGED vars \/ \E x \in Claims : LeaseExpires(x)
  BY <1>7, <1>10 DEF vars, LeaseExpires, claimVars, queueVars, dlqVars
<1> QED
  BY <1>3, <1>4, <1>5, <1>6, <1>8, <1>9, <1>10 DEF Next, Step, Settling

-----------------------------------------------------------------------------
LEMMA DispatchStep == DispatchInv /\ [Next]_vars => DispatchInv'
BY BaseStep, LeasedStep, OrderStep DEF DispatchInv, BaseInv

LEMMA DispatchInvariant == Spec => []DispatchInv
BY DispatchInit, DispatchStep, PTL DEF Spec

\* Every field of the delivery keeps its type: among others no job is attempted
\* more than ATTEMPTS times and no record replayed more than MAX_REPLAYS times,
\* and a replay in progress is of a kept dead letter (DomainEventWorker.execute,
\* dead-letter.queue.ts).
THEOREM DispatchTypeOK == Spec => []TypeOK
<1>1. DispatchInv => TypeOK
  BY DEF DispatchInv
<1> QED
  BY <1>1, DispatchInvariant, PTL

\* HandledOnceWhileLeased for every number of events, workers, consumers,
\* attempts, replays, timeouts and crashes: as long as no lease runs out and
\* MongoDB answers, no handler succeeds twice for one event
\* (ProcessedEventRepository.claim and complete).
THEOREM DispatchHandledOnce == Spec => []HandledOnceWhileLeased
<1>1. DispatchInv => HandledOnceWhileLeased
  BY DEF DispatchInv, HandledOnceWhileLeased, Leased, EffectOnce
<1> QED
  BY <1>1, DispatchInvariant, PTL

\* LossOnlyAfterFault for every number of events, workers, consumers, attempts
\* and replays: without a timeout, a crash or a failing database, a published
\* event with nothing in flight is completed by every consumer or kept as a dead
\* letter ("if (!claimedConsumer) continue" then never passes over unfinished
\* work).
THEOREM DispatchLossOnlyAfterFault == Spec => []LossOnlyAfterFault
<1>1. DispatchInv => LossOnlyAfterFault
  <2> SUFFICES ASSUME DispatchInv, timeouts + crashes + dbErrors = 0,
                      NEW e \in Events, jobState[<<e, 0>>] # "absent", ~Live(e), ~DeadLettered(e)
               PROVE  \A c \in Consumers : claim[<<e, c>>] = "completed"
    BY DEF LossOnlyAfterFault, NoSilentLoss
  <2>1. FaultFree
    <3>1. timeouts \in Nat /\ crashes \in Nat /\ dbErrors \in Nat
      BY DispatchAssumption DEF DispatchInv, TypeOK
    <3> QED
      BY <3>1 DEF FaultFree
  <2>2. Clean(e)
    BY DEF Clean, Live, DeadLettered, DispatchInv, TypeOK
  <2>3. OneExecution /\ InOrder(e)
    BY <2>1, <2>2 DEF DispatchInv
  <2>4. <<e, 0>> \in Jobs /\ <<e, 0>>[1] = e
    BY DispatchAssumption DEF Jobs
  <2>5. jobState[<<e, 0>>] \notin {"waiting", "active", "failed"}
    BY <2>2, <2>3, <2>4 DEF Live, OneExecution, Clean
  <2>6. jobState[<<e, 0>>] = "completed"
    BY <2>4, <2>5 DEF DispatchInv, TypeOK
  <2> QED
    BY <2>3, <2>6 DEF InOrder
<1> QED
  BY <1>1, DispatchInvariant, PTL

=============================================================================
