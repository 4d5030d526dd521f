---------------------------- MODULE EventDispatch ----------------------------
(***************************************************************************)
(* Delivery of domain events: the BullMQ queue domain-events, the consumer *)
(* with its 30 s timeout, DomainEventWorker.execute with its durable       *)
(* per-consumer claims (ProcessedEventRepository), the dead-letter queue   *)
(* and its replay.                                                         *)
(*                                                                         *)
(* A worker is one slot of the worker process's concurrency.  Every await  *)
(* of execute is a step.  A timed-out execution is detached from its job   *)
(* and keeps running: Promise.race stops waiting, it does not stop the     *)
(* work.  Consumers are handled in registration order, 1 .. NumConsumers.  *)
(***************************************************************************)
EXTENDS Naturals, FiniteSets

CONSTANTS Events, Workers, Admins,
          NumConsumers,  \* handlers registered for the event name
          ATTEMPTS,      \* defaultJobOptions.attempts
          MAX_REPLAYS,   \* maxReplayAttempts
          MaxTimeouts,   \* bound: executions outlasting workerTimeoutMs
          MaxCrashes,    \* bound: crashes of the worker process
          MaxExpiries,   \* bound: claim leases running out
          MaxErrors,     \* bound: handlers rejecting
          MaxDbErrors,   \* bound: claim(), complete() and fail() rejecting
          None

ASSUME DispatchAssumption ==
  /\ NumConsumers \in Nat \ {0} /\ ATTEMPTS \in Nat \ {0} /\ MAX_REPLAYS \in Nat
  /\ MaxTimeouts \in Nat /\ MaxCrashes \in Nat /\ MaxExpiries \in Nat
  /\ MaxErrors \in Nat /\ MaxDbErrors \in Nat

\* Job ids: <<e, 0>> is eventId, <<e, n>> is eventId:replay:n.
Jobs == Events \X (0..MAX_REPLAYS)
Consumers == 1..NumConsumers
Claims == Events \X Consumers

VARIABLES jobState, attemptsMade,
          claim,     \* ProcessedEvent status per <<event, consumer>>
          lease,     \* its leaseUntil: "none", "live" or "expired"
          effects,   \* successful handler runs per <<event, consumer>>
          pc, job, consumer, attached,   \* per worker
          capturing, \* jobs whose final failure is on its way to the DLQ
          dlq,       \* jobs with a dead-letter record
          replayCount,
          request,   \* request[a]: replay in progress, <<record, count, added>>
          timeouts, crashes, expiries, errors, dbErrors

bounds == <<timeouts, crashes, expiries, errors, dbErrors>>
queueVars == <<jobState, attemptsMade>>
claimVars == <<claim, lease, effects>>
workerVars == <<pc, job, consumer, attached>>
dlqVars == <<capturing, dlq, replayCount, request>>
vars == <<queueVars, claimVars, workerVars, dlqVars, bounds>>

TypeOK ==
  /\ jobState \in [Jobs -> {"absent", "waiting", "active", "completed", "failed"}]
  /\ attemptsMade \in [Jobs -> 0..ATTEMPTS]
  /\ claim \in [Claims -> {"absent", "processing", "completed", "failed"}]
  /\ lease \in [Claims -> {"none", "live", "expired"}]
  /\ effects \in [Claims -> Nat]
  /\ pc \in [Workers -> {"idle", "claim", "handle", "complete", "fail", "rejected"}]
  /\ job \in [Workers -> Jobs \cup {None}]
  /\ consumer \in [Workers -> 1..(NumConsumers + 1)]
  /\ attached \in [Workers -> BOOLEAN]
  /\ capturing \in SUBSET Jobs /\ dlq \in SUBSET Jobs
  /\ replayCount \in [Jobs -> 0..MAX_REPLAYS]
  /\ request \in [Admins -> (dlq \X (1..MAX_REPLAYS) \X BOOLEAN) \cup {None}]
  /\ timeouts \in 0..MaxTimeouts /\ crashes \in 0..MaxCrashes
  /\ expiries \in 0..MaxExpiries /\ errors \in 0..MaxErrors
  /\ dbErrors \in 0..MaxDbErrors

Init ==
  /\ jobState = [j \in Jobs |-> "absent"]
  /\ attemptsMade = [j \in Jobs |-> 0]
  /\ claim = [x \in Claims |-> "absent"]
  /\ lease = [x \in Claims |-> "none"]
  /\ effects = [x \in Claims |-> 0]
  /\ pc = [w \in Workers |-> "idle"]
  /\ job = [w \in Workers |-> None]
  /\ consumer = [w \in Workers |-> 1]
  /\ attached = [w \in Workers |-> FALSE]
  /\ capturing = {} /\ dlq = {}
  /\ replayCount = [j \in Jobs |-> 0]
  /\ request = [a \in Admins |-> None]
  /\ timeouts = 0 /\ crashes = 0 /\ expiries = 0 /\ errors = 0 /\ dbErrors = 0

-----------------------------------------------------------------------------
(* The queue. *)

\* QueuedEventBus.publish and the outbox relay add the job under the event's
\* id; adding an id that exists does nothing.
Publish(e) ==
  /\ jobState[<<e, 0>>] = "absent"
  /\ jobState' = [jobState EXCEPT ![<<e, 0>>] = "waiting"]
  /\ UNCHANGED <<attemptsMade, claimVars, workerVars, dlqVars, bounds>>

\* BullMQ gives a waiting job to a free slot: processJob, registry.execute
\* and DomainEventWorker.execute begin.
Take(w, j) ==
  /\ pc[w] = "idle" /\ jobState[j] = "waiting"
  /\ jobState' = [jobState EXCEPT ![j] = "active"]
  /\ pc' = [pc EXCEPT ![w] = "claim"]
  /\ job' = [job EXCEPT ![w] = j]
  /\ consumer' = [consumer EXCEPT ![w] = 1]
  /\ attached' = [attached EXCEPT ![w] = TRUE]
  /\ UNCHANGED <<attemptsMade, claimVars, dlqVars, bounds>>

\* The job's promise rejects: another attempt after the backoff, or final
\* failure, which the "failed" handler then captures.
JobRejected(j) ==
  /\ attemptsMade' = [attemptsMade EXCEPT ![j] = @ + 1]
  /\ IF attemptsMade[j] + 1 >= ATTEMPTS
     THEN /\ jobState' = [jobState EXCEPT ![j] = "failed"]
          /\ capturing' = capturing \cup {j}
     ELSE /\ jobState' = [jobState EXCEPT ![j] = "waiting"]
          /\ UNCHANGED capturing

\* withTimeout rejects while execute is still running.
Timeout(w) ==
  /\ timeouts < MaxTimeouts
  /\ pc[w] # "idle" /\ attached[w]
  /\ JobRejected(job[w])
  /\ attached' = [attached EXCEPT ![w] = FALSE]
  /\ timeouts' = timeouts + 1
  /\ UNCHANGED <<claimVars, pc, job, consumer, dlq, replayCount, request,
                 crashes, expiries, errors, dbErrors>>

\* The lock of a job whose process died runs out: "Job stalled and will be
\* retried by BullMQ".
Stalled(j) ==
  /\ jobState[j] = "active"
  /\ \A w \in Workers : ~(job[w] = j /\ attached[w])
  /\ jobState' = [jobState EXCEPT ![j] = "waiting"]
  /\ UNCHANGED <<attemptsMade, claimVars, workerVars, dlqVars, bounds>>

\* The worker process dies and restarts: executions and captures in flight
\* are gone, MongoDB and Redis keep what they have.
Crash ==
  /\ crashes < MaxCrashes
  /\ pc' = [w \in Workers |-> "idle"]
  /\ job' = [w \in Workers |-> None]
  /\ consumer' = [w \in Workers |-> 1]
  /\ attached' = [w \in Workers |-> FALSE]
  /\ capturing' = {}
  /\ crashes' = crashes + 1
  /\ UNCHANGED <<queueVars, claimVars, dlq, replayCount, request,
                 timeouts, expiries, errors, dbErrors>>

-----------------------------------------------------------------------------
(* DomainEventWorker.execute: for each handler claim, handle, complete. *)

Working(w) == <<job[w][1], consumer[w]>>

Idle(w) ==
  /\ pc' = [pc EXCEPT ![w] = "idle"]
  /\ job' = [job EXCEPT ![w] = None]
  /\ consumer' = [consumer EXCEPT ![w] = 1]
  /\ attached' = [attached EXCEPT ![w] = FALSE]

\* Mutant: a completed record can be claimed again.
ClaimableAgain(x) ==
  \/ claim[x] # "processing"
  \/ lease[x] = "expired"

\* The claim is free: no record yet (create succeeds), or the duplicate-key
\* branch finds it failed or its lease expired.
Claimable(x) ==
  \/ claim[x] \in {"absent", "failed"}
  \/ claim[x] = "processing" /\ lease[x] = "expired"

ClaimConsumer(w) ==
  /\ pc[w] = "claim" /\ consumer[w] \in Consumers
  /\ Claimable(Working(w))
  /\ claim' = [claim EXCEPT ![Working(w)] = "processing"]
  /\ lease' = [lease EXCEPT ![Working(w)] = "live"]
  /\ pc' = [pc EXCEPT ![w] = "handle"]
  /\ UNCHANGED <<queueVars, effects, job, consumer, attached, dlqVars, bounds>>

\* Mutant: wait for the holder instead of going on to the next consumer.
WaitForHolder(w) ==
  /\ pc[w] = "claim" /\ consumer[w] \in Consumers
  /\ ~Claimable(Working(w))
  /\ UNCHANGED vars

\* claim() returned false: "if (!claimedConsumer) continue".
SkipConsumer(w) ==
  /\ pc[w] = "claim" /\ consumer[w] \in Consumers
  /\ ~Claimable(Working(w))
  /\ consumer' = [consumer EXCEPT ![w] = @ + 1]
  /\ UNCHANGED <<queueVars, claimVars, pc, job, attached, dlqVars, bounds>>

HandleOk(w) ==
  /\ pc[w] = "handle"
  /\ effects' = [effects EXCEPT ![Working(w)] = @ + 1]
  /\ pc' = [pc EXCEPT ![w] = "complete"]
  /\ UNCHANGED <<queueVars, claim, lease, job, consumer, attached, dlqVars, bounds>>

HandleThrows(w) ==
  /\ errors < MaxErrors
  /\ pc[w] = "handle"
  /\ pc' = [pc EXCEPT ![w] = "fail"]
  /\ errors' = errors + 1
  /\ UNCHANGED <<queueVars, claimVars, job, consumer, attached, dlqVars,
                 timeouts, crashes, expiries, dbErrors>>

\* complete() updates the record by event and consumer, whoever claimed it.
Complete(w) ==
  /\ pc[w] = "complete"
  /\ claim' = [claim EXCEPT ![Working(w)] = "completed"]
  /\ lease' = [lease EXCEPT ![Working(w)] = "none"]
  /\ consumer' = [consumer EXCEPT ![w] = @ + 1]
  /\ pc' = [pc EXCEPT ![w] = "claim"]
  /\ UNCHANGED <<queueVars, effects, job, attached, dlqVars, bounds>>

\* MongoDB rejects: claim() outside the try, complete() inside it (so it is
\* handled as a failure), fail() in the catch clause (the record keeps its
\* lease).  In every case the job sees a rejection.
DbThrows(w) ==
  /\ dbErrors < MaxDbErrors
  /\ \/ pc[w] = "claim" /\ consumer[w] \in Consumers /\ pc' = [pc EXCEPT ![w] = "rejected"]
     \/ pc[w] = "complete" /\ pc' = [pc EXCEPT ![w] = "fail"]
     \/ pc[w] = "fail" /\ pc' = [pc EXCEPT ![w] = "rejected"]
  /\ dbErrors' = dbErrors + 1
  /\ UNCHANGED <<queueVars, claimVars, job, consumer, attached, dlqVars,
                 timeouts, crashes, expiries, errors>>

\* Mutant: the failure is not recorded, the claim keeps its lease.
FailUnrecorded(w) ==
  /\ pc[w] = "fail"
  /\ pc' = [pc EXCEPT ![w] = "rejected"]
  /\ UNCHANGED <<queueVars, claimVars, job, consumer, attached, dlqVars, bounds>>

\* fail() overwrites whatever the record says, then the error is rethrown.
Fail(w) ==
  /\ pc[w] = "fail"
  /\ claim' = [claim EXCEPT ![Working(w)] = "failed"]
  /\ lease' = [lease EXCEPT ![Working(w)] = "none"]
  /\ pc' = [pc EXCEPT ![w] = "rejected"]
  /\ UNCHANGED <<queueVars, effects, job, consumer, attached, dlqVars, bounds>>

\* execute rejects; a detached execution's rejection reaches nobody.
Reject(w) ==
  /\ pc[w] = "rejected"
  /\ IF attached[w] THEN JobRejected(job[w])
                    ELSE UNCHANGED <<queueVars, capturing>>
  /\ Idle(w)
  /\ UNCHANGED <<claimVars, dlq, replayCount, request, bounds>>

\* The loop over the handlers ends: the job is acknowledged.
Resolve(w) ==
  /\ pc[w] = "claim" /\ consumer[w] = NumConsumers + 1
  /\ jobState' = IF attached[w] THEN [jobState EXCEPT ![job[w]] = "completed"]
                                ELSE jobState
  /\ Idle(w)
  /\ UNCHANGED <<attemptsMade, claimVars, dlqVars, bounds>>

LeaseExpires(x) ==
  /\ expiries < MaxExpiries
  /\ lease[x] = "live"
  /\ lease' = [lease EXCEPT ![x] = "expired"]
  /\ expiries' = expiries + 1
  /\ UNCHANGED <<queueVars, claim, effects, workerVars, dlqVars, timeouts, crashes,
                 errors, dbErrors>>

-----------------------------------------------------------------------------
(* The dead-letter queue. *)

\* capture: one record per finally failed job, replayCount 0.
Capture(j) ==
  /\ j \in capturing
  /\ capturing' = capturing \ {j}
  /\ dlq' = dlq \cup {j}
  /\ UNCHANGED <<queueVars, claimVars, workerVars, replayCount, request, bounds>>

\* replay, up to the first await: the record is read and its limit checked.
ReplayRead(a, d) ==
  /\ request[a] = None /\ d \in dlq
  /\ replayCount[d] < MAX_REPLAYS
  /\ request' = [request EXCEPT ![a] = <<d, replayCount[d] + 1, FALSE>>]
  /\ UNCHANGED <<queueVars, claimVars, workerVars, capturing, dlq, replayCount, bounds>>

\* original.add under the id eventId:replay:count; an existing id is kept.
ReplayAdd(a) ==
  /\ request[a] # None /\ ~request[a][3]
  /\ LET j == <<request[a][1][1], request[a][2]>> IN
       jobState' = IF jobState[j] = "absent" THEN [jobState EXCEPT ![j] = "waiting"]
                                             ELSE jobState
  /\ request' = [request EXCEPT ![a] = <<@[1], @[2], TRUE>>]
  /\ UNCHANGED <<attemptsMade, claimVars, workerVars, capturing, dlq, replayCount, bounds>>

\* deadLetter.updateData with the count computed from the value read before.
ReplayUpdate(a) ==
  /\ request[a] # None /\ request[a][3]
  /\ replayCount' = [replayCount EXCEPT ![request[a][1]] = request[a][2]]
  /\ request' = [request EXCEPT ![a] = None]
  /\ UNCHANGED <<queueVars, claimVars, workerVars, capturing, dlq, bounds>>

-----------------------------------------------------------------------------
Step(w) ==
  \/ ClaimConsumer(w) \/ SkipConsumer(w) \/ HandleOk(w) \/ HandleThrows(w)
  \/ Complete(w) \/ DbThrows(w) \/ Fail(w) \/ Reject(w) \/ Resolve(w)

Next ==
  \/ \E e \in Events : Publish(e)
  \/ \E w \in Workers : Step(w) \/ Timeout(w)
  \/ \E w \in Workers, j \in Jobs : Take(w, j)
  \/ \E j \in Jobs : Stalled(j) \/ Capture(j)
  \/ Crash
  \/ \E x \in Claims : LeaseExpires(x)
  \/ \E a \in Admins, d \in Jobs : ReplayRead(a, d)
  \/ \E a \in Admins : ReplayAdd(a) \/ ReplayUpdate(a)

Spec == Init /\ [][Next]_vars

\* Fairness: BullMQ hands out waiting jobs and recovers stalled ones, awaits in
\* the live worker process settle.  Operators owe no replay, faults nothing.
FairSpec ==
  /\ Spec
  /\ \A w \in Workers : WF_vars(Step(w))
  /\ \A j \in Jobs : /\ WF_vars(\E w \in Workers : Take(w, j))
                     /\ WF_vars(Stalled(j)) /\ WF_vars(Capture(j))

-----------------------------------------------------------------------------
Live(e) ==
  \/ \E j \in Jobs : j[1] = e /\ (jobState[j] \in {"waiting", "active"} \/ j \in capturing)
  \/ \E w \in Workers : pc[w] # "idle" /\ job[w][1] = e
DeadLettered(e) == \E j \in dlq : j[1] = e

\* "Retryable failures return to the queue; final failures go to the DLQ"
\* (EVENTS_ARCHITECTURE.md): once nothing is in flight for a published event,
\* every consumer has completed it or the event is in the dead-letter queue.
NoSilentLoss ==
  \A e \in Events :
    (jobState[<<e, 0>>] # "absent" /\ ~Live(e) /\ ~DeadLettered(e))
      => \A c \in Consumers : claim[<<e, c>>] = "completed"

\* No delivery is dropped silently by handlers that fail, retries, replays and
\* leases that run out: it takes an execution timeout, a crash or a failing
\* database to skip a consumer for good.
LossOnlyAfterFault == timeouts + crashes + dbErrors = 0 => NoSilentLoss

\* A domain event does not produce the same successful side effect twice,
\* through timeouts, crashes, retries and replays, as long as leases outlast
\* the handlers and completion can be recorded.
HandledOnceWhileLeased ==
  expiries = 0 /\ dbErrors = 0 => \A x \in Claims : effects[x] <= 1

\* A delivery never hangs: every job handed to the queue is eventually
\* acknowledged or finally failed and captured, through timeouts, stalls and
\* crashes.
JobsSettle ==
  \A j \in Jobs : (jobState[j] = "waiting") ~> (jobState[j] \in {"completed", "failed"})
=============================================================================
