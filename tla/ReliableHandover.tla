-------------------------- MODULE ReliableHandover --------------------------
(***************************************************************************)
(* What the transactional outbox promises to the modules that append to    *)
(* it: an event recorded with a state change is owed to the queue until it *)
(* is either handed over (the queue has really accepted it) or parked as   *)
(* dead-lettered, and nothing reaches the queue that was never recorded.   *)
(***************************************************************************)
CONSTANT Events

VARIABLES fate,      \* fate[e]: where the promise about e stands
          delivered  \* events the queue has accepted

vars == <<fate, delivered>>

Init == /\ fate = [e \in Events |-> "none"]
        /\ delivered = {}

Record(e) == /\ fate[e] = "none"
             /\ fate' = [fate EXCEPT ![e] = "owed"]
             /\ UNCHANGED delivered

\* A delivery may be repeated, and may come late, but never unrecorded.
Deliver(e) == /\ fate[e] # "none"
              /\ delivered' = delivered \cup {e}
              /\ UNCHANGED fate

HandOver(e) == /\ fate[e] = "owed"
               /\ e \in delivered
               /\ fate' = [fate EXCEPT ![e] = "handed_over"]
               /\ UNCHANGED delivered

Park(e) == /\ fate[e] = "owed"
           /\ fate' = [fate EXCEPT ![e] = "parked"]
           /\ UNCHANGED delivered

Next == \E e \in Events : Record(e) \/ Deliver(e) \/ HandOver(e) \/ Park(e)

Spec == Init /\ [][Next]_vars
=============================================================================
