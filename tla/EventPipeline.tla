---------------------------- MODULE EventPipeline ----------------------------
(***************************************************************************)
(* The durable event path end to end: a state change appends its event to  *)
(* the outbox in the same transaction, the relay enqueues it, the worker   *)
(* delivers it to every consumer.  EventOutbox and EventDispatch share the *)
(* queue: BullMQ accepting an event (queued) is the job appearing in it.   *)
(***************************************************************************)
EXTENDS Naturals

CONSTANTS Events, Processes, Slots, MAX_ATTEMPTS, MaxFaults,
          Workers, Admins, NumConsumers, ATTEMPTS, MAX_REPLAYS,
          MaxTimeouts, MaxCrashes, MaxExpiries, MaxErrors, MaxDbErrors, None

VARIABLES status, attempts, ready, rowLease, running,
          relayPc, relayEvent, relayAttempts, queued, faults,
          jobState, attemptsMade, claim, lease, effects,
          pc, job, consumer, attached,
          capturing, dlq, replayCount, request,
          timeouts, crashes, expiries, errors, dbErrors

Outbox == INSTANCE EventOutbox WITH lease <- rowLease, NoEvent <- None
Dispatch == INSTANCE EventDispatch

outboxVars == <<status, attempts, ready, rowLease, running,
                relayPc, relayEvent, relayAttempts, queued, faults>>
dispatchVars == <<jobState, attemptsMade, claim, lease, effects,
                  pc, job, consumer, attached, capturing, dlq, replayCount, request,
                  timeouts, crashes, expiries, errors, dbErrors>>
vars == <<outboxVars, dispatchVars>>

Init == Outbox!Init /\ Dispatch!Init

\* A relay step that makes BullMQ accept an event is the job's appearance.
RelaySide ==
  /\ Outbox!Next
  /\ IF queued' = queued
     THEN UNCHANGED dispatchVars
     ELSE \E e \in Events : queued' = queued \cup {e} /\ Dispatch!Publish(e)

WorkerSide ==
  /\ \/ \E w \in Workers : Dispatch!Step(w) \/ Dispatch!Timeout(w)
     \/ \E w \in Workers, j \in Dispatch!Jobs : Dispatch!Take(w, j)
     \/ \E j \in Dispatch!Jobs : Dispatch!Stalled(j) \/ Dispatch!Capture(j)
     \/ Dispatch!Crash
     \/ \E x \in Dispatch!Claims : Dispatch!LeaseExpires(x)
     \/ \E a \in Admins, d \in Dispatch!Jobs : Dispatch!ReplayRead(a, d)
     \/ \E a \in Admins : Dispatch!ReplayAdd(a) \/ Dispatch!ReplayUpdate(a)
  /\ UNCHANGED outboxVars

Next == RelaySide \/ WorkerSide

Spec == Init /\ [][Next]_vars

\* As in the components: what a live relay, worker process, BullMQ and the
\* clock are bound to do, and nothing of clients, operators and faults.
FairSpec ==
  /\ Spec
  /\ \A e \in Events :
       /\ WF_vars(Outbox!LeaseExpires(e) /\ UNCHANGED dispatchVars)
       /\ WF_vars(Outbox!RetryDue(e) /\ UNCHANGED dispatchVars)
       /\ WF_vars(\E r \in Outbox!Relays : Outbox!ClaimNext(r, e) /\ UNCHANGED dispatchVars)
  /\ \A r \in Outbox!Relays : WF_vars(Outbox!RelayStep(r) /\ RelaySide)
  /\ \A p \in Processes : WF_vars(Outbox!Start(p) /\ UNCHANGED dispatchVars)
  /\ \A w \in Workers : WF_vars(Dispatch!Step(w) /\ UNCHANGED outboxVars)
  /\ \A j \in Dispatch!Jobs :
       /\ WF_vars(\E w \in Workers : Dispatch!Take(w, j) /\ UNCHANGED outboxVars)
       /\ WF_vars(Dispatch!Stalled(j) /\ UNCHANGED outboxVars)
       /\ WF_vars(Dispatch!Capture(j) /\ UNCHANGED outboxVars)

-----------------------------------------------------------------------------
\* End to end: an event committed with its state change reaches every
\* consumer, or it ends where an operator sees it, parked in the outbox or in
\* the dead-letter queue, whatever happens to the relays and however handlers
\* fail.  (An execution timeout, a crash of the worker or a failing database
\* can drop a consumer, see EventDispatch.)
Outcome(e) ==
  \/ \A c \in 1..NumConsumers : claim[<<e, c>>] = "completed"
  \/ status[e] = "dead_letter"
  \/ \E j \in dlq : j[1] = e
CommittedReachesConsumers ==
  \A e \in Events :
    (status[e] = "pending") ~> (Outcome(e) \/ timeouts + crashes + dbErrors > 0)

\* Nothing hangs on the way, whatever fails: a job that was added is acknowledged
\* or finally failed.
JobsSettle == Dispatch!JobsSettle
=============================================================================
