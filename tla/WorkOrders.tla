----------------------------- MODULE WorkOrders -----------------------------
(***************************************************************************)
(* One marketplace work order with everything that competes for it: the    *)
(* edits of WorkOrderService and of the work-order routes, the vendors'    *)
(* applications, the two ways of awarding one (VendorApplicationService    *)
(* .updateStatus and ContractAwardService.create), the contract's own      *)
(* status and the completion invoice.                                      *)
(*                                                                         *)
(* A request handler reads, checks and writes in separate awaits, so a     *)
(* call in flight is a record of its own.  A work order is saved under     *)
(* Mongoose's optimistic concurrency (save matches the __v that was read): *)
(* a call that holds the document is marked stale when another save        *)
(* advances the version, and its own save is then refused.  Applications   *)
(* and contracts are written without such a condition.                     *)
(***************************************************************************)
EXTENDS Naturals, FiniteSets

CONSTANTS Vendors,      \* vendors that may apply
          Technicians,  \* the organization's own technicians
          Calls,        \* request handlers that may be in flight
          Ops,          \* the operations the clients use
          NoVendor      \* assignedVendorId of an unassigned order

EditOps == {"update", "archive", "start", "hold", "finish", "progressStart",
            "progressFinish", "approveCompletion", "rejectCompletion",
            "requestInformation", "assign", "vendorAccept", "vendorReject"}
AllOps == EditOps \cup {"apply", "review", "withdraw", "award", "contractAward",
                        "contractStatus", "renew", "invoice"}

ASSUME WorkOrdersAssumption == /\ NoVendor \notin Vendors
                               /\ Ops \subseteq AllOps

VARIABLES order,     \* the work order document
          app,       \* status of each vendor's application
          contract,  \* the contract award row of the order
          invoices,  \* number of invoices raised for the order
          call,      \* the handlers in flight
          account,   \* status of each technician's user account
          refused    \* technicians assign has refused as not active

vars == <<order, app, contract, invoices, call, account, refused>>

WorkOrderStatus == {"absent", "open", "assigned", "in_progress", "on_hold",
                    "pending_completion", "completed", "cancelled"}
ApplicationStatus == {"none", "submitted", "under_review", "withdrawn",
                      "rejected", "awarded"}
ContractAwardStatus == {"none", "awarded", "active", "completed", "terminated",
                        "cancelled"}

WorkOrder == [status : WorkOrderStatus,
              vendor : Vendors \cup {NoVendor},
              vendorTechnician : BOOLEAN,   \* assignedVendorTechnicianId is set
              technician : BOOLEAN,         \* assignedTechnicianId is set
              offer : {"none", "pending_acceptance", "accepted", "rejected"}]

\* A status to write, or whether a vendor technician is named.
Args == ApplicationStatus \cup ContractAwardStatus \cup {"technician"}

\* seen: the status of the application the handler has read; closes: the
\* applications an open award transaction is about to reject.
CallSteps == {"idle", "application", "read", "open", "reopened", "saved", "closed"}
Call == [op : AllOps \cup {"none"},
         step : CallSteps,
         vendor : Vendors \cup {NoVendor},
         arg : Args,
         seen : ApplicationStatus,
         closes : SUBSET Vendors,
         stale : BOOLEAN]

Idle == [op |-> "none", step |-> "idle", vendor |-> NoVendor, arg |-> "none",
         seen |-> "none", closes |-> {}, stale |-> FALSE]

TypeOK ==
  /\ order \in WorkOrder
  /\ app \in [Vendors -> ApplicationStatus]
  /\ contract \in [status : ContractAwardStatus, vendor : Vendors \cup {NoVendor}]
  /\ invoices \in Nat
  /\ call \in [Calls -> Call]
  /\ account \in [Technicians -> {"active", "inactive"}]
  /\ refused \in SUBSET Technicians

Init ==
  /\ order = [status |-> "absent", vendor |-> NoVendor, vendorTechnician |-> FALSE,
              technician |-> FALSE, offer |-> "none"]
  /\ app = [v \in Vendors |-> "none"]
  /\ contract = [status |-> "none", vendor |-> NoVendor]
  /\ invoices = 0
  /\ call = [c \in Calls |-> Idle]
  /\ account \in [Technicians -> {"active", "inactive"}]
  /\ refused = {}

-----------------------------------------------------------------------------
Enter(c, op, step, v, arg, seen) ==
  /\ op \in Ops
  /\ call[c].step = "idle"
  /\ call' = [call EXCEPT ![c] = [op |-> op, step |-> step, vendor |-> v,
                                  arg |-> arg, seen |-> seen, closes |-> {},
                                  stale |-> FALSE]]

Return(c) == call' = [call EXCEPT ![c] = Idle]

At(c, op, step) == call[c].op = op /\ call[c].step = step

\* The calls after call c saved the order and goes on as k: whoever else holds
\* the document holds an old version.
Holding == {"read", "open", "reopened"}
Saved(c, k) ==
  [d \in Calls |-> IF d = c THEN k
                   ELSE IF call[d].step \in Holding THEN [call[d] EXCEPT !.stale = TRUE]
                   ELSE call[d]]

\* The handler rejects at an await, or its process dies: nothing is written.
Fail(c) ==
  /\ call[c].step # "idle"
  /\ Return(c)
  /\ UNCHANGED <<order, app, contract, invoices, account, refused>>

\* create: a marketplace order starts open and unassigned.  (An internal one
\* goes through assertInternalTechnician first, see there.)
Create ==
  /\ order.status = "absent"
  /\ order' = [order EXCEPT !.status = "open"]
  /\ UNCHANGED <<app, contract, invoices, call, account, refused>>

-----------------------------------------------------------------------------
(* Edits of the order: read, check, save. *)

\* Which request passes the checks of its handler, on the document as read.
\* Managers act with vendor = NoVendor; a vendor's lead acts for order.vendor.
Permitted(op, v) ==
  /\ order.status # "absent"
  /\ \/ op = "update" /\ v = NoVendor
     \/ /\ op = "archive" /\ v = NoVendor
        /\ order.status \notin {"in_progress", "pending_completion"}
     \/ /\ op \in {"start", "hold", "finish"} /\ v # NoVendor /\ v = order.vendor
        /\ \/ op = "start" /\ order.status \in {"assigned", "on_hold"}
           \/ op \in {"hold", "finish"} /\ order.status = "in_progress"
     \/ /\ op \in {"progressStart", "progressFinish"}
        /\ v # NoVendor /\ v = order.vendor /\ order.vendorTechnician
        /\ \/ op = "progressStart" /\ order.status = "assigned"
           \/ op = "progressFinish" /\ order.status = "in_progress"
     \/ /\ op \in {"approveCompletion", "rejectCompletion", "requestInformation"}
        /\ v = NoVendor /\ order.status = "pending_completion"
     \/ /\ op \in {"vendorAccept", "vendorReject"}
        /\ v # NoVendor /\ v = order.vendor
        /\ order.status \in {"assigned", "open"}

\* The status an edit leaves behind.
StatusAfter(op) ==
  IF op = "archive" THEN "cancelled"
  ELSE IF op \in {"start", "progressStart", "rejectCompletion"} THEN "in_progress"
  ELSE IF op = "hold" THEN "on_hold"
  ELSE IF op \in {"finish", "progressFinish"} THEN "pending_completion"
  ELSE IF op = "approveCompletion" THEN "completed"
  ELSE IF op = "assign" THEN "assigned"
  ELSE IF op = "vendorReject" THEN "open"
  ELSE order.status

\* Mutant: a rejected offer leaves the vendor on the order.
EditedKeepsVendor(op) ==
  [status |-> StatusAfter(op),
   vendor |-> IF op = "assign" THEN NoVendor ELSE order.vendor,
   vendorTechnician |-> IF op \in {"assign", "vendorReject"} THEN FALSE
                        ELSE order.vendorTechnician,
   technician |-> IF op = "assign" THEN TRUE
                  ELSE IF op = "vendorReject" THEN FALSE ELSE order.technician,
   offer |-> IF op = "vendorAccept" THEN "accepted"
             ELSE IF op = "vendorReject" THEN "rejected" ELSE order.offer]

\* The document an edit saves.
Edited(op) ==
  [status |-> StatusAfter(op),
   vendor |-> IF op \in {"assign", "vendorReject"} THEN NoVendor ELSE order.vendor,
   vendorTechnician |-> IF op \in {"assign", "vendorReject"} THEN FALSE
                        ELSE order.vendorTechnician,
   technician |-> IF op = "assign" THEN TRUE
                  ELSE IF op = "vendorReject" THEN FALSE ELSE order.technician,
   offer |-> IF op = "vendorAccept" THEN "accepted"
             ELSE IF op = "vendorReject" THEN "rejected" ELSE order.offer]

Read(c, op, v) ==
  /\ op \in EditOps
  /\ Permitted(op, v)
  /\ Enter(c, op, "read", v, "none", "none")
  /\ UNCHANGED <<order, app, contract, invoices, account, refused>>

\* User.findById(..).select(fields): a path that is not selected reads as
\* undefined.
Selected(fields, field, value) == IF field \in fields THEN value ELSE "undefined"

\* assertInternalTechnician selects role and organizationId and then compares
\* the status.
assertInternalTechnician(t) ==
  Selected({"role", "organizationId"}, "status", account[t]) = "active"

\* assign: the technician is checked after the order was read.
Assign(c, t) ==
  /\ order.status \in {"open", "assigned"}
  /\ IF assertInternalTechnician(t)
     THEN Enter(c, "assign", "read", NoVendor, "none", "none") /\ UNCHANGED refused
     ELSE /\ "assign" \in Ops
          /\ call[c].step = "idle"
          /\ refused' = refused \cup {t}
          /\ UNCHANGED call
  /\ UNCHANGED <<order, app, contract, invoices, account>>

\* Mutant: save without the version condition.
SaveUnversioned(c) ==
  /\ call[c].op \in EditOps /\ call[c].step = "read"
  /\ order' = Edited(call[c].op)
  /\ Return(c)
  /\ UNCHANGED <<app, contract, invoices, account, refused>>

\* saveWithOutbox / saveWorkOrderFact: the save commits with its outbox row, or
\* is refused with a VersionError.  A save that changes no path does not advance
\* the version.
Save(c) ==
  /\ call[c].op \in EditOps /\ call[c].step = "read"
  /\ IF call[c].stale
     THEN Return(c) /\ UNCHANGED order
     ELSE /\ order' = Edited(call[c].op)
          /\ \/ call' = Saved(c, Idle)
             \/ call[c].op \in {"update", "vendorAccept"} /\ order' = order /\ Return(c)
  /\ UNCHANGED <<app, contract, invoices, account, refused>>

-----------------------------------------------------------------------------
(* Vendor applications. *)

Apply(c, v) ==
  /\ order.status = "open" /\ order.vendor = NoVendor
  /\ app[v] = "none"
  /\ Enter(c, "apply", "read", v, "none", "none")
  /\ UNCHANGED <<order, app, contract, invoices, account, refused>>

\* Updates outside a transaction, of the applications of vs, against the open
\* transactions of ContractAwardService.create: they wait for one that has saved
\* such an application, ...
Unlocked(vs) ==
  \A d \in Calls : call[d].step = "open" /\ call[d].seen # "awarded" => call[d].vendor \notin vs

\* ... and one that is about to reject such an application meets a write
\* conflict: withTransaction runs it again, on a new snapshot, with an
\* application document that counts as saved already.
Closable(apps, w) == {v \in Vendors : v # w /\ apps[v] \in {"submitted", "under_review"}}
Updated(c, k, vs) ==
  [d \in Calls |->
     IF d = c THEN k
     ELSE IF call[d].step \in {"open", "reopened"} /\ call[d].closes \cap vs # {}
     THEN [call[d] EXCEPT !.step = "reopened", !.closes = Closable(app', call[d].vendor)]
     ELSE call[d]]

\* The unique index on order and vendor refuses a second application.
ApplyCreate(c) ==
  /\ At(c, "apply", "read")
  /\ app' = [app EXCEPT ![call[c].vendor] = IF @ = "none" THEN "submitted" ELSE @]
  /\ Return(c)
  /\ UNCHANGED <<order, contract, invoices, account, refused>>

\* Mutant: an awarded application can still be reviewed.
ReviewableAwarded(v) == app[v] \notin {"none", "withdrawn"}

Reviewable(v) == app[v] \notin {"none", "awarded", "withdrawn"}

\* updateStatus to under_review or rejected, and withdraw: the status checked
\* is the one read, the update has no condition.
Review(c, v, to) ==
  /\ Reviewable(v)
  /\ Enter(c, "review", "read", v, to, app[v])
  /\ UNCHANGED <<order, app, contract, invoices, account, refused>>

Withdraw(c, v) ==
  /\ app[v] \notin {"none", "awarded", "rejected"}
  /\ Enter(c, "withdraw", "read", v, "withdrawn", app[v])
  /\ UNCHANGED <<order, app, contract, invoices, account, refused>>

UpdateApplication(c) ==
  /\ call[c].op \in {"review", "withdraw"} /\ call[c].step = "read"
  /\ Unlocked({call[c].vendor})
  /\ app' = [app EXCEPT ![call[c].vendor] = call[c].arg]
  /\ call' = Updated(c, Idle, {call[c].vendor})
  /\ UNCHANGED <<order, contract, invoices, account, refused>>

\* updateStatus to awarded: application, then order, ...
Award(c, v) ==
  /\ Reviewable(v)
  /\ Enter(c, "award", "application", v, "awarded", app[v])
  /\ UNCHANGED <<order, app, contract, invoices, account, refused>>

AwardReadOrder(c) ==
  /\ At(c, "award", "application")
  /\ IF order.status = "open" /\ order.vendor = NoVendor
     THEN call' = [call EXCEPT ![c].step = "read"]
     ELSE Return(c)
  /\ UNCHANGED <<order, app, contract, invoices, account, refused>>

\* Mutant: the award saves the order without the version condition.
AwardSaveUnversioned(c) ==
  /\ At(c, "award", "read")
  /\ order' = [order EXCEPT !.vendor = call[c].vendor, !.status = "assigned"]
  /\ call' = Saved(c, [call[c] EXCEPT !.step = "saved"])
  /\ UNCHANGED <<app, contract, invoices, account, refused>>

\* ... then workOrder.save() outside a transaction, ...
AwardSave(c) ==
  /\ At(c, "award", "read")
  /\ IF call[c].stale
     THEN Return(c) /\ UNCHANGED order
     ELSE /\ order' = [order EXCEPT !.vendor = call[c].vendor, !.status = "assigned"]
          /\ call' = Saved(c, [call[c] EXCEPT !.step = "saved"])
  /\ UNCHANGED <<app, contract, invoices, account, refused>>

\* ... the other applications are closed, ...
AwardCloseOthers(c) ==
  /\ At(c, "award", "saved")
  /\ LET vs == {v \in Vendors : /\ v # call[c].vendor
                                 /\ app[v] \notin {"none", "withdrawn", "rejected"}}
     IN  /\ Unlocked(vs)
         /\ app' = [v \in Vendors |-> IF v \in vs THEN "rejected" ELSE app[v]]
         /\ call' = Updated(c, [call[c] EXCEPT !.step = "closed"], vs)
  /\ UNCHANGED <<order, contract, invoices, account, refused>>

\* ... and the awarded one is recorded.
AwardRecord(c) ==
  /\ At(c, "award", "closed")
  /\ Unlocked({call[c].vendor})
  /\ app' = [app EXCEPT ![call[c].vendor] = "awarded"]
  /\ call' = Updated(c, Idle, {call[c].vendor})
  /\ UNCHANGED <<order, contract, invoices, account, refused>>

-----------------------------------------------------------------------------
(* Contract awards. *)

\* ContractAwardService.create looks at the order and at an existing award, not
\* at the status of the application.
ContractAward(c, v, technician) ==
  /\ app[v] # "none"
  /\ order.status = "open"
  /\ contract.status = "none"
  /\ Enter(c, "contractAward", "read", v, technician, app[v])
  /\ UNCHANGED <<order, app, contract, invoices, account, refused>>

\* The transaction begins: the award row and the application are written, the
\* snapshot says which other applications will be rejected.  The unique index
\* on the order keeps a second one out until the first has ended.
ContractBegin(c) ==
  /\ At(c, "contractAward", "read")
  /\ \A d \in Calls : call[d].step \notin {"open", "reopened"}
  /\ call' = [call EXCEPT ![c] = [@ EXCEPT !.step = "open",
                                          !.closes = Closable(app, call[c].vendor)]]
  /\ UNCHANGED <<order, app, contract, invoices, account, refused>>

\* Award row, application, the other applications and the order commit
\* together.  A stale order (VersionError) or an existing award (unique index)
\* aborts it.  application.save writes a changed status only, and nothing in a
\* transaction that is run again.
ContractCommit(c) ==
  /\ call[c].op = "contractAward" /\ call[c].step \in {"open", "reopened"}
  /\ IF call[c].stale \/ contract.status # "none"
     THEN Return(c) /\ UNCHANGED <<order, app, contract>>
     ELSE /\ contract' = [status |-> "awarded", vendor |-> call[c].vendor]
          /\ app' = [v \in Vendors |->
                       IF v = call[c].vendor
                       THEN IF call[c].seen = "awarded" \/ call[c].step = "reopened"
                            THEN app[v] ELSE "awarded"
                       ELSE IF v \in call[c].closes THEN "rejected" ELSE app[v]]
          /\ order' = [order EXCEPT !.status = "assigned", !.vendor = call[c].vendor,
                          !.offer = "pending_acceptance",
                          !.vendorTechnician = IF call[c].arg = "technician" THEN TRUE ELSE @]
          /\ call' = Saved(c, Idle)
  /\ UNCHANGED <<invoices, account, refused>>

\* updateStatus and renew of a contract: checked on the row read ...
ContractMayBecome(to) ==
  \/ contract.status = "awarded" /\ to \in {"active", "cancelled"}
  \/ contract.status = "active" /\ to \in {"completed", "terminated"}

ContractStatus(c, to) ==
  /\ ContractMayBecome(to)
  /\ Enter(c, "contractStatus", "read", NoVendor, to, "none")
  /\ UNCHANGED <<order, app, contract, invoices, account, refused>>

Renew(c) ==
  /\ contract.status \in {"active", "completed"}
  /\ Enter(c, "renew", "read", NoVendor, "active", "none")
  /\ UNCHANGED <<order, app, contract, invoices, account, refused>>

\* ... and written by findByIdAndUpdate, without a condition.
UpdateContract(c) ==
  /\ call[c].op \in {"contractStatus", "renew"} /\ call[c].step = "read"
  /\ contract' = [contract EXCEPT !.status = call[c].arg]
  /\ Return(c)
  /\ UNCHANGED <<order, app, invoices, account, refused>>

-----------------------------------------------------------------------------
(* The completion invoice: order, existing invoice and insert are three awaits. *)

Invoice(c, v) ==
  /\ order.vendor = v
  /\ order.status \in {"pending_completion", "completed"}
  /\ Enter(c, "invoice", "read", v, "none", "none")
  /\ UNCHANGED <<order, app, contract, invoices, account, refused>>

InvoiceExists(c) ==
  /\ At(c, "invoice", "read")
  /\ IF invoices = 0 THEN call' = [call EXCEPT ![c].step = "closed"] ELSE Return(c)
  /\ UNCHANGED <<order, app, contract, invoices, account, refused>>

InvoiceCreate(c) ==
  /\ At(c, "invoice", "closed")
  /\ invoices' = invoices + 1
  /\ Return(c)
  /\ UNCHANGED <<order, app, contract, account, refused>>

-----------------------------------------------------------------------------
VendorRequest(c, v) ==
  \/ \E op \in EditOps : Read(c, op, v)
  \/ Apply(c, v) \/ Withdraw(c, v) \/ Invoice(c, v)

ManagerRequest(c) ==
  \/ \E op \in EditOps : Read(c, op, NoVendor)
  \/ \E t \in Technicians : Assign(c, t)
  \/ \E v \in Vendors : \/ \E to \in {"under_review", "rejected"} : Review(c, v, to)
                        \/ Award(c, v)
                        \/ \E t \in {"technician", "none"} : ContractAward(c, v, t)
  \/ \E to \in ContractAwardStatus : ContractStatus(c, to)
  \/ Renew(c)

Continue(c) ==
  \/ Save(c) \/ ApplyCreate(c) \/ UpdateApplication(c)
  \/ AwardReadOrder(c) \/ AwardSave(c) \/ AwardCloseOthers(c) \/ AwardRecord(c)
  \/ ContractBegin(c) \/ ContractCommit(c) \/ UpdateContract(c)
  \/ InvoiceExists(c) \/ InvoiceCreate(c)

Handle(c) ==
  \/ \E v \in Vendors : VendorRequest(c, v)
  \/ ManagerRequest(c)
  \/ Continue(c)

Next == Create \/ \E c \in Calls : Handle(c) \/ Fail(c)

Spec == Init /\ [][Next]_vars

-----------------------------------------------------------------------------
Worked == {"assigned", "in_progress", "on_hold", "pending_completion", "completed"}

\* Work that is assigned, under way, under review or completed has somebody on
\* it, and an open order has no vendor: rejecting an offer, awarding again and
\* archiving never separate the status from the assignment.
WorkHasWorker ==
  /\ order.status \in Worked => order.vendor # NoVendor \/ order.technician
  /\ order.status = "open" => order.vendor = NoVendor

Lifecycle ==
  {<<"absent", "open">>, <<"open", "assigned">>, <<"assigned", "open">>,
   <<"assigned", "in_progress">>, <<"in_progress", "on_hold">>,
   <<"on_hold", "in_progress">>, <<"in_progress", "pending_completion">>,
   <<"pending_completion", "in_progress">>, <<"pending_completion", "completed">>}
    \cup ({"open", "assigned", "on_hold", "completed"} \X {"cancelled"})

\* The persisted status moves only along the lifecycle, whatever edits, awards
\* and reviews overlap: one transition never silently overwrites another.
LifecycleOrder ==
  [][order'.status # order.status => <<order.status, order'.status>> \in Lifecycle]_vars

\* A vendor is never replaced by another behind its back: two awards in flight,
\* by either route, do not both take the order.
VendorNotReplaced ==
  [][order.vendor # NoVendor /\ order'.vendor # order.vendor => order'.vendor = NoVendor]_vars

\* When no call is in flight, the vendor the order is assigned to holds the one
\* awarded application.
AssignedIsAwarded ==
  (\A c \in Calls : call[c].step = "idle") =>
    \A v \in Vendors : order.vendor # NoVendor => (app[v] = "awarded" <=> order.vendor = v)

\* One application is awarded at most.
OneAwarded == \A v, w \in Vendors : app[v] = "awarded" /\ app[w] = "awarded" => v = w
=============================================================================
