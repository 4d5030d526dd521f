---------------------------- MODULE MCEventOutbox ----------------------------
(***************************************************************************)
(* The outbox for TLC and for the proofs, with names of its own for the    *)
(* events that have rows and for the lease of a row, so that it can stand  *)
(* beside the delivery of events.                                          *)
(***************************************************************************)
EXTENDS Naturals, TLC

CONSTANTS Rows, Processes, Slots, MAX_ATTEMPTS, MaxFaults, NoEvent

ASSUME OutboxAssumption == /\ MAX_ATTEMPTS \in Nat \ {0}
                           /\ MaxFaults \in Nat
                           /\ NoEvent \notin Rows

VARIABLES status, attempts, ready, rowLease, running,
          relayPc, relayEvent, relayAttempts, queued, faults

O == INSTANCE EventOutbox WITH Events <- Rows, lease <- rowLease

OutboxSpec == O!Spec

\* The relay implements ReliableHandover: through every overlap of polls, takeover
\* of a lease, lost reply and crash, an event stays owed until the queue has it
\* (markPublished after an enqueue) or it is parked after MAX_ATTEMPTS claims.
KeepsPromise == O!KeepsPromise

RelaySymmetry == Permutations(Rows) \cup Permutations(Processes) \cup Permutations(Slots)
=============================================================================
