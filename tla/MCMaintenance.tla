--------------------------- MODULE MCMaintenance ---------------------------
(***************************************************************************)
(* Service requests and preventive maintenance for TLC.  The two meet only *)
(* in the work orders they create, so a behaviour exercises one of them,   *)
(* under one workload: whether handlers overlap, whether they may fail     *)
(* half-way and whether anything is assigned.                              *)
(***************************************************************************)
EXTENDS Naturals, TLC

CONSTANTS Uploads, Handlers, MaxEdits,
          Dates, Recurrences, Callers, MaxOrders,
          Workloads   \* the workloads a configuration looks at

VARIABLES request, converted, facts, handler, attached, decidedOn,
          plan, occurrence, orders, pm, horizon,
          workload

SR == INSTANCE ServiceRequests
PM == INSTANCE PreventiveMaintenance

\* Requests and plans whose handlers overlap or run one at a time; of plans also
\* whether handlers may fail half-way and whether anything is assigned.
RequestWorkloads == {"requests overlap", "requests in turn"}
PlanWorkloads ==
  [plansOverlap |-> [alone |-> FALSE, fails |-> FALSE, assigns |-> FALSE],
   planInTurn |-> [alone |-> TRUE, fails |-> FALSE, assigns |-> FALSE],
   planArchived |-> [alone |-> TRUE, fails |-> TRUE, assigns |-> TRUE]]

ASSUME MaintenanceAssumption ==
  /\ MaxEdits \in Nat /\ MaxOrders \in Nat
  /\ Dates \subseteq Nat /\ Dates # {}
  /\ Recurrences \subseteq SUBSET Dates
  /\ Workloads \subseteq RequestWorkloads \cup DOMAIN PlanWorkloads

requestVars == <<request, converted, facts, handler, attached, decidedOn>>
planVars == <<plan, occurrence, orders, pm, horizon>>
all == <<requestVars, planVars, workload>>

Init == /\ SR!Init /\ PM!Init
        /\ workload \in Workloads

RequestStep ==
  /\ workload \in RequestWorkloads
  /\ SR!Next
  /\ workload = "requests in turn" => \A g, h \in SR!InFlight' : g = h
  /\ UNCHANGED <<planVars, workload>>

PlanStep ==
  /\ workload \in DOMAIN PlanWorkloads
  /\ LET w == PlanWorkloads[workload] IN
     \/ PM!Tick
     \/ /\ \/ w.assigns /\ PM!Assign
           \/ \E c \in Callers : PM!Begin(c) \/ PM!Continue(c) \/ (w.fails /\ PM!Fail(c))
        /\ plan'.assigned => w.assigns
        /\ (w.alone => \A c, e \in PM!Busy' : c = e)
        /\ UNCHANGED horizon
  /\ UNCHANGED <<requestVars, workload>>

Next == RequestStep \/ PlanStep

Spec == Init /\ [][Next]_all

\* Handlers and uploads are interchangeable.
Symmetry == Permutations(Uploads) \cup Permutations(Handlers) \cup Permutations(Callers)

\* Every document, handler and date keeps its type.
TypeOK == SR!TypeOK /\ PM!TypeOK

\* Every attachment whose upload was answered is still in the request, however
\* uploads, edits and decisions overlap.
AttachmentsKept == SR!AttachmentsKept

\* Handled one at a time, a request is decided once, and rated once after it.
OneDecision == workload = "requests in turn" => SR!OneDecision

\* Handled one at a time and not interrupted, requests give an occurrence at most
\* one work order, which is linked once it is approved.  (Overlapping approvals,
\* or one that stops before the link, generate two orders; an assigned
\* occurrence is approved without one.)
OneOrderPerOccurrence == workload = "planInTurn" => PM!OneOrderPerOccurrence

\* Handled one at a time, stopped anywhere and repeated, requests leave an
\* archived plan no scheduled occurrence but those that the route skipping one
\* occurrence has inserted since.
ArchivedIsQuiet == workload = "planArchived" => PM!ArchivedIsQuiet
=============================================================================
