----------------------------- MODULE EventOutbox -----------------------------
(***************************************************************************)
(* The transactional outbox (src/src/infrastructure/events/outbox): rows   *)
(* appended in the MongoDB transaction of a state change, and the relay    *)
(* OutboxEventWorker.runOnce that claims a row under a lease, enqueues the *)
(* event on BullMQ with jobId = eventId and settles the row.               *)
(*                                                                         *)
(* The poller starts a runOnce every second without waiting for the        *)
(* previous one, in every worker process: a relay is one call in flight, a *)
(* pair <<process, slot>>.  Every await of runOnce is a step of its own.   *)
(* Time is the two moments the code compares with now: a lease running out *)
(* (LeaseExpires) and a retry falling due (RetryDue).                      *)
(***************************************************************************)
EXTENDS Naturals, FiniteSets

CONSTANTS Events,        \* event ids
          Processes,     \* worker processes that run the poller
          Slots,         \* runOnce calls one process may have in flight
          MAX_ATTEMPTS,  \* claims after which a failure parks the row
          MaxFaults,     \* bound: crashes, shutdowns and lost failure marks
          NoEvent        \* an idle relay's event

Relays == Processes \X Slots

VARIABLES status,    \* row status of each event ("absent": no row)
          attempts,  \* row attempts
          ready,     \* availableAt <= now
          lease,     \* leaseUntil: "none", still "live", or "expired"
          running,   \* running[p]: the poller of process p is started
          relayPc,   \* where each runOnce call stands
          relayEvent,
          relayAttempts, \* event.attempts as returned by claimNext
          queued,    \* job ids BullMQ has accepted on domain-events
          faults

rowVars == <<status, attempts, ready, lease>>
relayVars == <<relayPc, relayEvent, relayAttempts>>
vars == <<rowVars, running, relayVars, queued, faults>>

OutboxEventStatus == {"absent", "pending", "processing", "published", "dead_letter"}

TypeOK ==
  /\ status \in [Events -> OutboxEventStatus]
  /\ attempts \in [Events -> Nat]
  /\ ready \in [Events -> BOOLEAN]
  /\ lease \in [Events -> {"none", "live", "expired"}]
  /\ running \in [Processes -> BOOLEAN]
  /\ relayPc \in [Relays -> {"idle", "claimed", "enqueued", "failing"}]
  /\ relayEvent \in [Relays -> Events \cup {NoEvent}]
  /\ relayAttempts \in [Relays -> Nat]
  /\ queued \in SUBSET Events
  /\ faults \in 0..MaxFaults

Init ==
  /\ status = [e \in Events |-> "absent"]
  /\ attempts = [e \in Events |-> 0]
  /\ ready = [e \in Events |-> FALSE]
  /\ lease = [e \in Events |-> "none"]
  /\ running = [p \in Processes |-> FALSE]
  /\ relayPc = [r \in Relays |-> "idle"]
  /\ relayEvent = [r \in Relays |-> NoEvent]
  /\ relayAttempts = [r \in Relays |-> 0]
  /\ queued = {}
  /\ faults = 0

-----------------------------------------------------------------------------
\* append: the row commits with the state change it reports, or not at all;
\* eventId is unique, so an event has one row.
Append(e) ==
  /\ status[e] = "absent"
  /\ status' = [status EXCEPT ![e] = "pending"]
  /\ ready' = [ready EXCEPT ![e] = TRUE]
  /\ UNCHANGED <<attempts, lease, running, relayVars, queued, faults>>

\* Mutant: a row whose relay died is never taken over.
ClaimableNoTakeover(e) == status[e] = "pending" /\ ready[e]

\* The filter of claimNext.
Claimable(e) ==
  \/ status[e] = "pending" /\ ready[e]
  \/ status[e] = "processing" /\ lease[e] = "expired"

\* One poller tick: runOnce begins with claimNext (a findOneAndUpdate, so
\* atomic).  Which claimable row sorts first is left open.
ClaimNext(r, e) ==
  /\ running[r[1]]
  /\ relayPc[r] = "idle"
  /\ Claimable(e)
  /\ status' = [status EXCEPT ![e] = "processing"]
  /\ lease' = [lease EXCEPT ![e] = "live"]
  /\ attempts' = [attempts EXCEPT ![e] = @ + 1]
  /\ relayPc' = [relayPc EXCEPT ![r] = "claimed"]
  /\ relayEvent' = [relayEvent EXCEPT ![r] = e]
  /\ relayAttempts' = [relayAttempts EXCEPT ![r] = attempts[e] + 1]
  /\ UNCHANGED <<ready, running, queued, faults>>

\* producer.enqueue resolves: BullMQ has the job (a second add of the same
\* job id is ignored).
EnqueueOk(r) ==
  /\ relayPc[r] = "claimed"
  /\ queued' = queued \cup {relayEvent[r]}
  /\ relayPc' = [relayPc EXCEPT ![r] = "enqueued"]
  /\ UNCHANGED <<rowVars, running, relayEvent, relayAttempts, faults>>

\* producer.enqueue rejects, with the job added (the reply was lost) or not.
EnqueueThrows(r) ==
  /\ relayPc[r] = "claimed"
  /\ queued' \in {queued, queued \cup {relayEvent[r]}}
  /\ relayPc' = [relayPc EXCEPT ![r] = "failing"]
  /\ UNCHANGED <<rowVars, running, relayEvent, relayAttempts, faults>>

ReturnFrom(r) ==
  /\ relayPc' = [relayPc EXCEPT ![r] = "idle"]
  /\ relayEvent' = [relayEvent EXCEPT ![r] = NoEvent]
  /\ relayAttempts' = [relayAttempts EXCEPT ![r] = 0]

\* Mutant: markPublished matches the row whatever its status.
MarkPublishedUnguarded(r) ==
  /\ relayPc[r] = "enqueued"
  /\ status' = [status EXCEPT ![relayEvent[r]] = "published"]
  /\ lease' = [lease EXCEPT ![relayEvent[r]] = "none"]
  /\ ReturnFrom(r)
  /\ UNCHANGED <<attempts, ready, running, queued, faults>>

\* markPublished matches the row by eventId and status "processing" only: a
\* relay whose lease was taken over settles the row all the same.
MarkPublished(r) ==
  /\ relayPc[r] = "enqueued"
  /\ LET e == relayEvent[r] IN
       IF status[e] = "processing"
       THEN /\ status' = [status EXCEPT ![e] = "published"]
            /\ lease' = [lease EXCEPT ![e] = "none"]
       ELSE UNCHANGED <<status, lease>>
  /\ ReturnFrom(r)
  /\ UNCHANGED <<attempts, ready, running, queued, faults>>

\* markPublished is inside the try: when MongoDB rejects it, runOnce goes on
\* in the catch clause although the job is queued.
MarkPublishedThrows(r) ==
  /\ relayPc[r] = "enqueued"
  /\ relayPc' = [relayPc EXCEPT ![r] = "failing"]
  /\ UNCHANGED <<rowVars, running, relayEvent, relayAttempts, queued, faults>>

DeadLetter(r) == relayAttempts[r] >= MAX_ATTEMPTS

\* The catch clause: back to "pending" with a retry time, or parked.
MarkFailed(r) ==
  /\ relayPc[r] = "failing"
  /\ LET e == relayEvent[r] IN
       IF status[e] = "processing"
       THEN /\ status' = [status EXCEPT ![e] =
                            IF DeadLetter(r) THEN "dead_letter" ELSE "pending"]
            /\ ready' = [ready EXCEPT ![e] = FALSE]
            /\ lease' = [lease EXCEPT ![e] = "none"]
       ELSE UNCHANGED <<status, ready, lease>>
  /\ ReturnFrom(r)
  /\ UNCHANGED <<attempts, running, queued, faults>>

\* markFailed itself rejects: runOnce rejects, the poller logs it, and the row
\* waits for its lease to run out.
MarkFailedThrows(r) ==
  /\ faults < MaxFaults
  /\ relayPc[r] = "failing"
  /\ ReturnFrom(r)
  /\ faults' = faults + 1
  /\ UNCHANGED <<rowVars, running, queued>>

-----------------------------------------------------------------------------
\* start and stop of the poller; calls in flight outlive stop.
Start(p) ==
  /\ ~running[p]
  /\ running' = [running EXCEPT ![p] = TRUE]
  /\ UNCHANGED <<rowVars, relayVars, queued, faults>>

Stop(p) ==
  /\ faults < MaxFaults
  /\ running[p]
  /\ running' = [running EXCEPT ![p] = FALSE]
  /\ faults' = faults + 1
  /\ UNCHANGED <<rowVars, relayVars, queued>>

\* The process dies: every call it had in flight is gone, its rows stay as
\* they were.
Crash(p) ==
  /\ faults < MaxFaults
  /\ running[p]
  /\ running' = [running EXCEPT ![p] = FALSE]
  /\ relayPc' = [r \in Relays |-> IF r[1] = p THEN "idle" ELSE relayPc[r]]
  /\ relayEvent' = [r \in Relays |-> IF r[1] = p THEN NoEvent ELSE relayEvent[r]]
  /\ relayAttempts' = [r \in Relays |-> IF r[1] = p THEN 0 ELSE relayAttempts[r]]
  /\ faults' = faults + 1
  /\ UNCHANGED <<rowVars, queued>>

LeaseExpires(e) ==
  /\ lease[e] = "live"
  /\ lease' = [lease EXCEPT ![e] = "expired"]
  /\ UNCHANGED <<status, attempts, ready, running, relayVars, queued, faults>>

RetryDue(e) ==
  /\ status[e] = "pending" /\ ~ready[e]
  /\ ready' = [ready EXCEPT ![e] = TRUE]
  /\ UNCHANGED <<status, attempts, lease, running, relayVars, queued, faults>>

RelayStep(r) ==
  \/ EnqueueOk(r) \/ EnqueueThrows(r)
  \/ MarkPublished(r) \/ MarkPublishedThrows(r)
  \/ MarkFailed(r)

Next ==
  \/ \E e \in Events : Append(e) \/ LeaseExpires(e) \/ RetryDue(e)
  \/ \E r \in Relays, e \in Events : ClaimNext(r, e)
  \/ \E r \in Relays : RelayStep(r) \/ MarkFailedThrows(r)
  \/ \E p \in Processes : Start(p) \/ Stop(p) \/ Crash(p)

Spec == Init /\ [][Next]_vars

\* Fairness: the poller ticks for ever, an await in a live process settles,
\* the supervisor restarts a stopped process, and time passes.  Appends and
\* faults are not owed to anyone.
Fairness ==
  /\ \A e \in Events : /\ WF_vars(LeaseExpires(e))
                       /\ WF_vars(RetryDue(e))
                       /\ WF_vars(\E r \in Relays : ClaimNext(r, e))
  /\ \A r \in Relays : WF_vars(RelayStep(r))
  /\ \A p \in Processes : WF_vars(Start(p))

FairSpec == Spec /\ Fairness

-----------------------------------------------------------------------------
\* A row is "published" only once BullMQ really has the event: no sequence of
\* rejected enqueues, lost replies, stale relays and takeovers marks an event
\* published that was never queued.
PublishedWasQueued ==
  \A e \in Events : status[e] = "published" => e \in queued

\* A row is parked as dead_letter only after MAX_ATTEMPTS claims, also when a
\* relay with an outdated attempts value reports its failure late.
DeadLetterAfterMaxAttempts ==
  \A e \in Events : status[e] = "dead_letter" => attempts[e] >= MAX_ATTEMPTS

\* The attempt number a relay carries identifies its claim: two calls working
\* on the same event never carry the same one, so the lease has one holder.
OneHolderPerClaim ==
  \A r, s \in Relays :
    (r # s /\ relayPc[r] # "idle" /\ relayPc[s] # "idle"
           /\ relayEvent[r] = relayEvent[s]) => relayAttempts[r] # relayAttempts[s]

\* The outbox keeps its promise (ReliableHandover), whatever crashes, lost
\* replies and late settlements happen.
FateOf(st) == IF st = "absent" THEN "none"
              ELSE IF st = "published" THEN "handed_over"
              ELSE IF st = "dead_letter" THEN "parked"
              ELSE "owed"

Fate == [e \in Events |-> FateOf(status[e])]

Promise == INSTANCE ReliableHandover WITH fate <- Fate, delivered <- queued

KeepsPromise == Promise!Spec
=============================================================================
