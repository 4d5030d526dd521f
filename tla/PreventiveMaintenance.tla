------------------------ MODULE PreventiveMaintenance ------------------------
(***************************************************************************)
(* One preventive-maintenance plan of PMService, its occurrences and the   *)
(* work orders generated for them.  Every handler is a chain of separate   *)
(* commits (plan, occurrence, work order, link); a save writes the paths   *)
(* it modified, without a condition on what was read.                      *)
(*                                                                         *)
(* Dates are instants.  A recurrence is the set of the UTC midnights its   *)
(* frequency, interval and end match; plannedDate, nextDueAt and the date  *)
(* of a plan without recurrence are instants of the client's choice, which *)
(* need not be among them.                                                 *)
(***************************************************************************)
EXTENDS Naturals

CONSTANTS Dates,        \* the instants considered, as numbers in their order
          Recurrences,  \* the recurrences considered, sets of instants
          Callers,      \* request handlers that may be in flight
          MaxOrders     \* bound on the work orders generated per occurrence

VARIABLES plan,        \* the PMPlan document
          occurrence,  \* the PMOccurrence document scheduled at each date
          orders,      \* work orders generated for each date's occurrence
          pm,          \* the handlers in flight
          horizon      \* ninety days from now

vars == <<plan, occurrence, orders, pm, horizon>>

IsFirst(d, dates) == d \in dates /\ \A e \in dates : d <= e
AnyDate == CHOOSE d \in Dates : TRUE

\* An optional input or path: empty, or the one value.
Optional(S) == {{}} \cup {{x} : x \in S}
Given(input, old) == IF input = {} THEN {old} ELSE input

\* The dates of a recurrence up to the horizon of the moment.
generateOccurrenceDates(recurrence) == {d \in UNION recurrence : d <= horizon}

PlanStatus == {"absent", "pending_approval", "approved", "rejected", "cancelled"}
OccurrenceStatus == {"absent", "scheduled", "generated", "cancelled"}
ApprovalState == {"pending_approval", "approved", "rejected"}

Plan == [status : PlanStatus,
         isActive : BOOLEAN,
         plannedDate : Dates,
         recurrence : Optional(Recurrences),
         assigned : BOOLEAN]           \* defaultAssignment is set
Occurrence == [status : OccurrenceStatus,
               approval : ApprovalState,
               order : 0..MaxOrders,   \* which of its orders is linked, 0: none
               assigned : BOOLEAN,
               late : BOOLEAN]         \* inserted when the plan was archived (history)

\* A handler in flight: the date it works on, the dates it still has to go
\* through or was given, what it read of the plan and the occurrence.
PMOps == {"create", "approve", "reject", "update", "archive", "skip", "skipOccurrence"}
PMCall == [op : PMOps \cup {"none"},
           step : {"idle", "occurrences", "cancel", "save", "order", "link", "plan"},
           day : Dates,
           todo : SUBSET Dates,
           recurrence : Optional(Recurrences),
           first : BOOLEAN,            \* the approved occurrence is still to come
           assigned : BOOLEAN,         \* so is, or has it, the assignment
           order : 0..MaxOrders]

NoPlan == [status |-> "absent", isActive |-> FALSE, plannedDate |-> AnyDate,
           recurrence |-> {}, assigned |-> FALSE]
NoOccurrence == [status |-> "absent", approval |-> "pending_approval", order |-> 0,
                 assigned |-> FALSE, late |-> FALSE]
AtRest == [op |-> "none", step |-> "idle", day |-> AnyDate, todo |-> {}, recurrence |-> {},
           first |-> FALSE, assigned |-> FALSE, order |-> 0]

TypeOK ==
  /\ plan \in Plan
  /\ occurrence \in [Dates -> Occurrence]
  /\ orders \in [Dates -> 0..MaxOrders]
  /\ pm \in [Callers -> PMCall]
  /\ horizon \in Dates

Init ==
  /\ plan = NoPlan
  /\ occurrence = [d \in Dates |-> NoOccurrence]
  /\ orders = [d \in Dates |-> 0]
  /\ pm = [c \in Callers |-> AtRest]
  /\ horizon \in Dates

-----------------------------------------------------------------------------
Enter(c, op, step, day, todo, recurrence) ==
  /\ pm[c].step = "idle"
  /\ pm' = [pm EXCEPT ![c] = [AtRest EXCEPT !.op = op, !.step = step, !.day = day,
                                            !.todo = todo, !.recurrence = recurrence]]
Is(c, op, step) == pm[c].op = op /\ pm[c].step = step
Go(c, step) == pm' = [pm EXCEPT ![c].step = step]
Finish(c) == pm' = [pm EXCEPT ![c] = AtRest]

Exists(d) == occurrence[d].status # "absent"
Existing == {d \in Dates : Exists(d)}

\* The handler throws or its process dies: the commits it made stay.
Fail(c) ==
  /\ pm[c].step # "idle"
  /\ Finish(c)
  /\ UNCHANGED <<plan, occurrence, orders>>

\* The plan's save meets the unique (organization, asset, occurrenceDate) index:
\* another plan of the asset has the date, and the handler throws.
Clash(c) ==
  /\ pm[c].op \in {"update", "skip"} /\ pm[c].step = "plan"
  /\ Finish(c)
  /\ UNCHANGED <<plan, occurrence, orders>>

\* create: the plan row (approved when a manager creates it), then one
\* occurrence after the other; firstDate is for a plan without recurrence.
CreatePlan(c, manager, assigned, recurrence, plannedDate, firstDate) ==
  /\ plan.status = "absent"
  /\ pm[c].step = "idle"
  /\ plan' = [status |-> IF manager THEN "approved" ELSE "pending_approval",
              isActive |-> TRUE, plannedDate |-> plannedDate, recurrence |-> recurrence,
              assigned |-> assigned]
  /\ pm' = [pm EXCEPT ![c] = [AtRest EXCEPT
              !.op = "create", !.step = "occurrences", !.first = manager, !.assigned = assigned,
              !.todo = IF recurrence = {} THEN {firstDate}
                                          ELSE generateOccurrenceDates(recurrence)]]
  /\ UNCHANGED <<occurrence, orders>>

\* One round of the loop in create: an occurrence already there is left alone;
\* the first one takes the default assignment and, for a manager, is inserted
\* approved and goes on to its work order.
CreateOccurrence(c) == \E d \in pm[c].todo :
  LET insert == ~Exists(d)
      approved == insert /\ pm[c].first
  IN /\ Is(c, "create", "occurrences") /\ IsFirst(d, pm[c].todo)
     /\ occurrence' = IF insert
                      THEN [occurrence EXCEPT ![d] =
                             [status |-> "scheduled", order |-> 0, late |-> FALSE,
                              approval |-> IF approved THEN "approved" ELSE "pending_approval",
                              assigned |-> pm[c].assigned]]
                      ELSE occurrence
     /\ pm' = [pm EXCEPT ![c] = [AtRest EXCEPT
                 !.op = "create", !.step = IF approved THEN "order" ELSE "occurrences",
                 !.day = d, !.todo = pm[c].todo \ {d},
                 !.assigned = pm[c].assigned /\ approved]]
     /\ UNCHANGED <<plan, orders>>

CreateDone(c) ==
  /\ Is(c, "create", "occurrences") /\ pm[c].todo = {}
  /\ Finish(c)
  /\ UNCHANGED <<plan, occurrence, orders>>

-----------------------------------------------------------------------------
\* approveOccurrence checks the occurrence only; approve needs a pending plan
\* and looks at its earliest occurrence.  The plan's status does not change.
Approve(c, d) ==
  /\ Exists(d) /\ occurrence[d].approval = "pending_approval"
  /\ pm[c].step = "idle"
  /\ pm' = [pm EXCEPT ![c] = [AtRest EXCEPT !.op = "approve", !.step = "order", !.day = d,
                                            !.assigned = occurrence[d].assigned]]
  /\ UNCHANGED <<plan, occurrence, orders>>

firstPendingOccurrence(d) ==
  /\ IsFirst(d, Existing)
  /\ occurrence[d].approval = "pending_approval"

approveOccurrence(c, d) == Approve(c, d)
approve(c, d) == plan.status = "pending_approval" /\ firstPendingOccurrence(d) /\ Approve(c, d)

\* generateWorkOrder.  An assigned occurrence asks for an internal order, which
\* assertInternalTechnician always refuses (see WorkOrders): the handler throws.
generateWorkOrder(c) ==
  LET d == pm[c].day IN
  /\ pm[c].step = "order"
  /\ IF pm[c].assigned
     THEN Finish(c) /\ UNCHANGED orders
     ELSE /\ orders[d] < MaxOrders
          /\ orders' = [orders EXCEPT ![d] = @ + 1]
          /\ pm' = [pm EXCEPT ![c].step = "link", ![c].order = orders[d] + 1]
  /\ UNCHANGED <<plan, occurrence>>

\* Mutant: the approval of the occurrence is not saved.
LinkOrderUnapproved(c) ==
  /\ pm[c].step = "link"
  /\ occurrence' = [occurrence EXCEPT ![pm[c].day] =
                      [@ EXCEPT !.status = "generated", !.order = pm[c].order]]
  /\ IF pm[c].op = "create" THEN Go(c, "occurrences") ELSE Finish(c)
  /\ UNCHANGED <<plan, orders>>

\* The occurrence is saved with the order's id, whatever happened to it since.
LinkOrder(c) ==
  /\ pm[c].step = "link"
  /\ occurrence' = [occurrence EXCEPT ![pm[c].day] =
                      [@ EXCEPT !.status = "generated", !.approval = "approved",
                                !.order = pm[c].order]]
  /\ IF pm[c].op = "create" THEN Go(c, "occurrences") ELSE Finish(c)
  /\ UNCHANGED <<plan, orders>>

\* reject: the earliest occurrence if it was read pending, then the plan.
Reject(c) ==
  /\ plan.status = "pending_approval"
  /\ \E d \in Dates : firstPendingOccurrence(d) /\ Enter(c, "reject", "save", d, {}, {})
  /\ UNCHANGED <<plan, occurrence, orders>>

RejectNothingPending(c) ==
  /\ plan.status = "pending_approval"
  /\ ~ \E d \in Dates : firstPendingOccurrence(d)
  /\ Enter(c, "reject", "plan", AnyDate, {}, {})
  /\ UNCHANGED <<plan, occurrence, orders>>

RejectOccurrence(c) ==
  /\ Is(c, "reject", "save")
  /\ occurrence' = [occurrence EXCEPT ![pm[c].day].approval = "rejected"]
  /\ Go(c, "plan")
  /\ UNCHANGED <<plan, orders>>

\* Mutant: a status the plan's schema does not list.
RejectPlanMisnamed(c) ==
  /\ Is(c, "reject", "plan")
  /\ plan' = [plan EXCEPT !.status = "declined"]
  /\ Finish(c)
  /\ UNCHANGED <<occurrence, orders>>

RejectPlan(c) ==
  /\ Is(c, "reject", "plan")
  /\ plan' = [plan EXCEPT !.status = "rejected"]
  /\ Finish(c)
  /\ UNCHANGED <<occurrence, orders>>

-----------------------------------------------------------------------------
\* assignPlan, clearPlanAssignment, assignOccurrence, clearOccurrenceAssignment:
\* one save each, no status is looked at.
AssignPlan(assigned) ==
  /\ plan.status # "absent" /\ plan.assigned # assigned
  /\ plan' = [plan EXCEPT !.assigned = assigned]
  /\ UNCHANGED <<occurrence, orders, pm>>

AssignOccurrence(d, assigned) ==
  /\ Exists(d) /\ occurrence[d].assigned # assigned
  /\ occurrence' = [occurrence EXCEPT ![d].assigned = assigned]
  /\ UNCHANGED <<plan, orders, pm>>

\* update with a new planned date or recurrence: refused for a cancelled plan and
\* when an occurrence is generated; the occurrences do not move.
Update(c, plannedDate, recurrence) ==
  /\ plan.status \notin {"absent", "cancelled"}
  /\ \A e \in Dates : occurrence[e].status # "generated"
  /\ plannedDate # {} \/ recurrence # {}
  /\ Enter(c, "update", "plan", AnyDate, plannedDate, recurrence)
  /\ UNCHANGED <<plan, occurrence, orders>>

UpdatePlan(c) ==
  /\ Is(c, "update", "plan")
  /\ \E d \in Given(pm[c].todo, plan.plannedDate) :
       plan' = [plan EXCEPT !.plannedDate = d,
                            !.recurrence = IF pm[c].recurrence = {} THEN @
                                                                    ELSE pm[c].recurrence]
  /\ Finish(c)
  /\ UNCHANGED <<occurrence, orders>>

\* archive: the occurrences that are not generated or cancelled, as listed, one
\* by one; then the plan.
Archive(c) ==
  /\ plan.status # "absent"
  /\ Enter(c, "archive", "cancel", AnyDate,
           {d \in Dates : occurrence[d].status = "scheduled"}, {})
  /\ UNCHANGED <<plan, occurrence, orders>>

ArchiveOccurrence(c) == \E d \in pm[c].todo :
  /\ Is(c, "archive", "cancel") /\ IsFirst(d, pm[c].todo)
  /\ occurrence' = [occurrence EXCEPT ![d].status = "cancelled"]
  /\ pm' = [pm EXCEPT ![c].todo = @ \ {d}]
  /\ UNCHANGED <<plan, orders>>

\* Mutant: the plan is cancelled before its occurrences.
ArchivePlanFirst(c) ==
  /\ Is(c, "archive", "cancel")
  /\ plan' = [plan EXCEPT !.status = "cancelled", !.isActive = FALSE]
  /\ Finish(c)
  /\ UNCHANGED <<occurrence, orders>>

ArchivePlan(c) ==
  /\ Is(c, "archive", "cancel") /\ pm[c].todo = {}
  /\ plan' = [plan EXCEPT !.status = "cancelled", !.isActive = FALSE]
  /\ Finish(c)
  /\ UNCHANGED <<occurrence, orders>>

-----------------------------------------------------------------------------
\* skip: day is the planned date read; an occurrence at that very instant is
\* cancelled unless it is cancelled already.
Skip(c) ==
  /\ plan.status = "approved" /\ plan.isActive /\ plan.recurrence # {}
  /\ Enter(c, "skip", IF occurrence[plan.plannedDate].status \in {"scheduled", "generated"}
                      THEN "cancel" ELSE "plan", plan.plannedDate, {}, plan.recurrence)
  /\ UNCHANGED <<plan, occurrence, orders>>

SkipCancel(c) ==
  /\ Is(c, "skip", "cancel")
  /\ occurrence' = [occurrence EXCEPT ![pm[c].day].status = "cancelled"]
  /\ Go(c, "plan")
  /\ UNCHANGED <<plan, orders>>

NextDates(c) == {d \in generateOccurrenceDates(pm[c].recurrence) : d > pm[c].day}

SkipPlan(c) ==
  /\ Is(c, "skip", "plan")
  /\ IF NextDates(c) = {}
     THEN Finish(c) /\ UNCHANGED plan
     ELSE \E d \in NextDates(c) :
          /\ IsFirst(d, NextDates(c))
          /\ plan' = [plan EXCEPT !.plannedDate = d]
          /\ pm' = [pm EXCEPT ![c].step = "save", ![c].day = d]
  /\ UNCHANGED <<occurrence, orders>>

\* createOccurrence(pm, nextDate, actor, true): an existing one is returned as
\* it is; a new one is approved and gets a work order.
SkipCreate(c) ==
  LET d == pm[c].day IN
  /\ Is(c, "skip", "save")
  /\ IF Exists(d)
     THEN Finish(c) /\ UNCHANGED occurrence
     ELSE /\ occurrence' = [occurrence EXCEPT ![d] = [NoOccurrence EXCEPT
                              !.status = "scheduled", !.approval = "approved"]]
          /\ Go(c, "order")
  /\ UNCHANGED <<plan, orders>>

\* POST /occurrences/:id/skip: cancels any occurrence not yet cancelled and, when
\* nextDueAt is given and free, inserts a pending one with the same assignment.
\* The plan is not looked at: it may be archived.
SkipOccurrence(c, d, nextDueAt) ==
  /\ occurrence[d].status \in {"scheduled", "generated"}
  /\ pm[c].step = "idle"
  /\ pm' = [pm EXCEPT ![c] = [AtRest EXCEPT !.op = "skipOccurrence", !.step = "cancel",
                                            !.day = d, !.todo = nextDueAt,
                                            !.assigned = occurrence[d].assigned]]
  /\ UNCHANGED <<plan, occurrence, orders>>

SkipOccurrenceCancel(c) ==
  /\ Is(c, "skipOccurrence", "cancel")
  /\ occurrence' = [occurrence EXCEPT ![pm[c].day].status = "cancelled"]
  /\ IF pm[c].todo = {} THEN Finish(c) ELSE Go(c, "save")
  /\ UNCHANGED <<plan, orders>>

SkipOccurrenceNext(c) ==
  /\ Is(c, "skipOccurrence", "save")
  /\ occurrence' = [d \in Dates |-> IF d \in pm[c].todo /\ ~Exists(d)
                                    THEN [NoOccurrence EXCEPT
                                            !.status = "scheduled", !.assigned = pm[c].assigned,
                                            !.late = plan.status = "cancelled"]
                                    ELSE occurrence[d]]
  /\ Finish(c)
  /\ UNCHANGED <<plan, orders>>

-----------------------------------------------------------------------------
Begin(c) ==
  \/ \E manager, assigned \in BOOLEAN, r \in Optional(Recurrences), p, f \in Dates :
        CreatePlan(c, manager, assigned, r, p, f)
  \/ \E d \in Dates : approve(c, d) \/ approveOccurrence(c, d)
  \/ \E p \in Optional(Dates), r \in Optional(Recurrences) : Update(c, p, r)
  \/ Reject(c) \/ RejectNothingPending(c) \/ Archive(c) \/ Skip(c)
  \/ \E d \in Dates, n \in Optional(Dates) : SkipOccurrence(c, d, n)

Continue(c) ==
  \/ CreateOccurrence(c) \/ CreateDone(c) \/ generateWorkOrder(c) \/ LinkOrder(c)
  \/ RejectOccurrence(c) \/ RejectPlan(c) \/ UpdatePlan(c) \/ Clash(c)
  \/ ArchiveOccurrence(c) \/ ArchivePlan(c)
  \/ SkipCancel(c) \/ SkipPlan(c) \/ SkipCreate(c)
  \/ SkipOccurrenceCancel(c) \/ SkipOccurrenceNext(c)

Assign == \E a \in BOOLEAN : AssignPlan(a) \/ \E d \in Dates : AssignOccurrence(d, a)

Tick ==
  /\ \E h \in Dates : h > horizon /\ horizon' = h
  /\ UNCHANGED <<plan, occurrence, orders, pm>>

Next ==
  \/ Tick
  \/ /\ Assign \/ \E c \in Callers : Begin(c) \/ Continue(c) \/ Fail(c)
     /\ UNCHANGED horizon

Spec == Init /\ [][Next]_vars

-----------------------------------------------------------------------------
Busy == {c \in Callers : pm[c].step # "idle"}

\* Each occurrence has at most one work order, and one that counts as approved
\* or generated has its order linked (PMOccurrence owns the workOrderId link).
OneOrderPerOccurrence ==
  \A d \in Dates :
    /\ orders[d] <= 1
    /\ Busy = {} /\ occurrence[d].approval = "approved" =>
         occurrence[d].order = 1 /\ orders[d] = 1

\* An archived plan has no occurrence left that could still come due, but for
\* those POST /occurrences/:id/skip has inserted since.
ArchivedIsQuiet ==
  plan.status = "cancelled" =>
    \A d \in Dates : occurrence[d].status = "scheduled" => occurrence[d].late
=============================================================================
