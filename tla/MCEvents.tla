------------------------------ MODULE MCEvents ------------------------------
(***************************************************************************)
(* The two halves of the event path for TLC.  They meet in the queue, see  *)
(* EventPipeline; apart from it a behaviour exercises one of them.         *)
(***************************************************************************)
EXTENDS MCEventDispatch, MCEventOutbox

VARIABLE half  \* the half a behaviour exercises

outboxVars == <<status, attempts, ready, rowLease, running,
                relayPc, relayEvent, relayAttempts, queued, faults>>

EventsInit == O!Init /\ Init /\ half \in {"outbox", "dispatch"}

EventsNext ==
  /\ UNCHANGED half
  /\ \/ half = "outbox" /\ O!Next /\ UNCHANGED vars
     \/ half = "dispatch" /\ Next /\ UNCHANGED outboxVars

EventsSpec == EventsInit /\ [][EventsNext]_<<outboxVars, vars, half>>

\* Rows, processes and poll slots are alike, and so are events, workers and admins.
EventsSymmetry == Symmetry \cup RelaySymmetry
=============================================================================
