-------------------------- MODULE WorkOrdersProofs --------------------------
(***************************************************************************)
(* The safety of WorkOrders for every set of vendors, calls and operations. *)
(* The invariant that carries the proof is Held: a call that holds the      *)
(* order and is not stale still passes the checks it made when it read it,  *)
(* because whatever changes the order marks every other holder stale.       *)
(* AwardsInv and AgreeInv follow an award through its writes.               *)
(***************************************************************************)
EXTENDS MCWorkOrders, FiniteSetTheorems, TLAPS

\* What call record k may rely on while it holds the order.
Holds(k) ==
  (k.step \in Holding /\ ~k.stale) =>
    /\ k.op \in EditOps => Permitted(k.op, k.vendor)
    /\ k.op \in {"award", "contractAward"} => order.status = "open" /\ k.vendor \in Vendors

\* What a record carries with it: a status to write, a vendor to assign.
Carries(k) ==
  /\ k.op \in {"review", "withdraw"} => k.vendor \in Vendors /\ k.arg \in ApplicationStatus
  /\ k.op \in {"contractStatus", "renew"} => k.arg \in ContractAwardStatus
  /\ k.op \in {"award", "contractAward", "apply"} => k.vendor \in Vendors

Held == \A c \in Calls : Holds(call[c]) /\ Carries(call[c])

IInv == /\ TypeOK
        /\ WorkHasWorker
        /\ order.status = "absent" => order.vendor = NoVendor
        /\ Held

LifecycleStep == order'.status # order.status => <<order.status, order'.status>> \in Lifecycle
VendorStep == order.vendor # NoVendor /\ order'.vendor # order.vendor => order'.vendor = NoVendor

\* A step that gives call d neither the order nor anything new to write.
KeptBy(d) ==
  /\ call'[d].op = call[d].op /\ call'[d].vendor = call[d].vendor
  /\ call'[d].arg = call[d].arg /\ call'[d].stale = call[d].stale
  /\ call'[d].step \in Holding => call[d].step \in Holding

\* A call entering a handler is a well-formed record.
LEMMA EnterTypes ==
  ASSUME TypeOK, NEW c \in Calls, NEW op \in AllOps, NEW v \in Vendors \cup {NoVendor},
         NEW step \in CallSteps,
         NEW arg \in Args, NEW seen \in ApplicationStatus,
         Enter(c, op, step, v, arg, seen)
  PROVE  /\ call' \in [Calls -> Call]
         /\ \A d \in Calls : d # c => KeptBy(d)
         /\ call'[c] = [op |-> op, step |-> step, vendor |-> v, arg |-> arg,
                        seen |-> seen, closes |-> {}, stale |-> FALSE]
<1>1. [op |-> op, step |-> step, vendor |-> v, arg |-> arg, seen |-> seen,
        closes |-> {}, stale |-> FALSE] \in Call
  BY DEF Call
<1> QED
  BY <1>1 DEF TypeOK, Enter, KeptBy

\* A returning call is idle, and the others are as they were.
LEMMA ReturnTypes ==
  ASSUME TypeOK, NEW c \in Calls, Return(c)
  PROVE  /\ call' \in [Calls -> Call]
         /\ \A d \in Calls : d # c => KeptBy(d)
         /\ call'[c] = Idle
<1>1. Idle \in Call
  BY DEF Idle, Call, CallSteps, Args, ApplicationStatus
<1> QED
  BY <1>1 DEF TypeOK, Return, KeptBy

\* After a save every other holder of the order is stale.
LEMMA SavedTypes ==
  ASSUME TypeOK, NEW c \in Calls, NEW k \in Call, call' = Saved(c, k)
  PROVE  /\ call' \in [Calls -> Call]
         /\ call'[c] = k
         /\ \A d \in Calls : d # c =>
              /\ call'[d].step \in Holding => call'[d].stale
              /\ call'[d].op = call[d].op /\ call'[d].arg = call[d].arg
              /\ call'[d].vendor = call[d].vendor
BY DEF TypeOK, Saved, Call

\* The initial states satisfy the invariant.
LEMMA OrderInit == Init => IInv
<1> SUFFICES ASSUME Init PROVE IInv
  OBVIOUS
<1>1. Idle \in Call
  BY DEF Idle, Call, CallSteps, Args, ApplicationStatus
<1>2. TypeOK
  BY <1>1 DEF Init, TypeOK, WorkOrder, WorkOrderStatus, ApplicationStatus, ContractAwardStatus
<1>3. WorkHasWorker /\ order.vendor = NoVendor
  BY DEF Init, WorkHasWorker, Worked
<1>4. Held
  BY DEF Init, Held, Holds, Holding, Carries, Idle
<1> QED
  BY <1>2, <1>3, <1>4 DEF IInv

\* An update of applications re-runs open awards and disturbs no other call.
LEMMA UpdatedTypes ==
  ASSUME TypeOK, NEW c \in Calls, NEW k \in Call, NEW vs, call' = Updated(c, k, vs)
  PROVE  /\ call' \in [Calls -> Call]
         /\ call'[c] = k
         /\ \A d \in Calls : d # c => KeptBy(d)
<1>1. \A w : Closable(app', w) \in SUBSET Vendors
  BY DEF Closable
<1>2. ASSUME NEW d \in Calls, d # c
      PROVE  call'[d] \in Call /\ KeptBy(d)
  <2>1. call[d] \in Call
    BY DEF TypeOK
  <2>2. CASE call[d].step \in {"open", "reopened"} /\ call[d].closes \cap vs # {}
    <3> DEFINE n == [call[d] EXCEPT !.step = "reopened",
                                    !.closes = Closable(app', call[d].vendor)]
    <3>1. call'[d] = n
      BY <1>2, <2>2 DEF Updated
    <3>2. /\ n \in Call /\ n.op = call[d].op /\ n.vendor = call[d].vendor
          /\ n.arg = call[d].arg /\ n.stale = call[d].stale
      BY <1>1, <2>1 DEF Call, CallSteps
    <3> QED
      BY <2>2, <3>1, <3>2 DEF KeptBy, Holding
  <2>3. CASE ~(call[d].step \in {"open", "reopened"} /\ call[d].closes \cap vs # {})
    BY <1>2, <2>1, <2>3 DEF Updated, KeptBy
  <2> QED
    BY <2>2, <2>3
<1>3. call'[c] = k /\ call' = [d \in Calls |-> call'[d]]
  BY DEF Updated
<1> QED
  BY <1>2, <1>3

\* A step that leaves the order alone keeps the invariant when the call it
\* moves keeps what it may rely on, and the rest keeps its types.
LEMMA QuietStep ==
  ASSUME IInv, NEW c \in Calls, order' = order,
         call' \in [Calls -> Call], \A d \in Calls : d # c => KeptBy(d),
         Holds(call'[c]), Carries(call'[c]),
         app' \in [Vendors -> ApplicationStatus],
         contract' \in [status : ContractAwardStatus, vendor : Vendors \cup {NoVendor}],
         invoices' \in Nat, account' = account, refused' \in SUBSET Technicians
  PROVE  IInv' /\ LifecycleStep /\ VendorStep
<1>1. TypeOK'
  BY DEF IInv, TypeOK
<1>2. WorkHasWorker' /\ (order.status = "absent" => order.vendor = NoVendor)'
  BY DEF IInv, WorkHasWorker
<1>3. Held'
  <2> SUFFICES ASSUME NEW d \in Calls PROVE (Holds(call[d]) /\ Carries(call[d]))'
    BY DEF Held
  <2>1. CASE d = c
    BY <2>1 DEF Holds, Carries, Permitted
  <2>2. CASE d # c
    BY <2>2 DEF IInv, Held, Holds, Carries, Permitted, KeptBy
  <2> QED
    BY <2>1, <2>2
<1>4. LifecycleStep /\ VendorStep
  BY DEF LifecycleStep, VendorStep
<1> QED
  BY <1>1, <1>2, <1>3, <1>4 DEF IInv

\* A step that saves the order keeps the invariant when the new document is
\* well formed, since every other holder becomes stale.
LEMMA SaveStep ==
  ASSUME IInv, NEW c \in Calls, NEW k \in Call, call' = Saved(c, k),
         k.step \notin Holding, Carries(k),
         order' \in WorkOrder, WorkHasWorker',
         order'.status # "absent", LifecycleStep, VendorStep,
         app' \in [Vendors -> ApplicationStatus],
         contract' \in [status : ContractAwardStatus, vendor : Vendors \cup {NoVendor}],
         UNCHANGED <<invoices, account, refused>>
  PROVE  IInv' /\ LifecycleStep /\ VendorStep
<1>1. /\ call' \in [Calls -> Call]
      /\ call'[c] = k
      /\ \A d \in Calls : d # c =>
           /\ call'[d].step \in Holding => call'[d].stale
           /\ call'[d].op = call[d].op /\ call'[d].arg = call[d].arg
           /\ call'[d].vendor = call[d].vendor
  BY SavedTypes DEF IInv
<1>2. TypeOK'
  BY <1>1 DEF IInv, TypeOK
<1>3. Held'
  <2> SUFFICES ASSUME NEW d \in Calls PROVE (Holds(call[d]) /\ Carries(call[d]))'
    BY DEF Held
  <2>1. CASE d = c
    BY <2>1, <1>1 DEF Holds, Carries
  <2>2. CASE d # c
    BY <2>2, <1>1 DEF IInv, Held, Holds, Carries
  <2> QED
    BY <2>1, <2>2
<1> QED
  BY <1>2, <1>3 DEF IInv

\* An idle record relies on nothing.
LEMMA IdleRests == Holds(Idle) /\ Carries(Idle) /\ Idle \in Call
BY DEF Holds, Holding, Carries, Idle, Call, CallSteps, Args, ApplicationStatus

\* A call that returns and leaves the order alone keeps the invariant.
LEMMA ReturnStep ==
  ASSUME IInv, NEW c \in Calls, Return(c), order' = order,
         app' \in [Vendors -> ApplicationStatus],
         contract' \in [status : ContractAwardStatus, vendor : Vendors \cup {NoVendor}],
         invoices' \in Nat, account' = account, refused' = refused
  PROVE  IInv' /\ LifecycleStep /\ VendorStep
<1>1. /\ call' \in [Calls -> Call]
      /\ \A d \in Calls : d # c => KeptBy(d)
      /\ call'[c] = Idle
  BY ReturnTypes DEF IInv
<1>2. refused' \in SUBSET Technicians
  BY DEF IInv, TypeOK
<1>3. Holds(call'[c]) /\ Carries(call'[c])
  BY <1>1, IdleRests
<1> QED
  BY <1>1, <1>2, <1>3, QuietStep

\* A call that enters a handler keeps the invariant when its checks passed.
LEMMA EnterStep ==
  ASSUME IInv, NEW c \in Calls, NEW op \in AllOps, NEW v \in Vendors \cup {NoVendor},
         NEW step \in {"application", "read"}, NEW arg \in Args,
         NEW seen \in ApplicationStatus, Enter(c, op, step, v, arg, seen),
         step = "read" /\ op \in EditOps => Permitted(op, v),
         op \in {"award", "contractAward", "review", "withdraw", "apply"} => v \in Vendors,
         step = "read" /\ op \in {"award", "contractAward"} => order.status = "open",
         op \in {"review", "withdraw"} => arg \in ApplicationStatus,
         op \in {"contractStatus", "renew"} => arg \in ContractAwardStatus,
         UNCHANGED <<order, app, contract, invoices, account, refused>>
  PROVE  IInv' /\ LifecycleStep /\ VendorStep
<1>1. /\ call' \in [Calls -> Call]
      /\ \A d \in Calls : d # c => KeptBy(d)
      /\ call'[c] = [op |-> op, step |-> step, vendor |-> v, arg |-> arg,
                     seen |-> seen, closes |-> {}, stale |-> FALSE]
  BY EnterTypes DEF IInv, CallSteps
<1>2. Holds(call'[c]) /\ Carries(call'[c])
  BY <1>1 DEF Holds, Holding, Carries
<1>3. /\ app' \in [Vendors -> ApplicationStatus]
      /\ contract' \in [status : ContractAwardStatus, vendor : Vendors \cup {NoVendor}]
      /\ invoices' \in Nat /\ refused' \in SUBSET Technicians
  BY DEF IInv, TypeOK
<1> QED
  BY <1>1, <1>2, <1>3, QuietStep

\* What an edit whose checks still hold does to the order.
LEMMA EditedIsSound ==
  ASSUME IInv, NEW op \in EditOps, NEW v \in Vendors \cup {NoVendor}, Permitted(op, v),
         order' = Edited(op)
  PROVE  /\ order' \in WorkOrder /\ WorkHasWorker' /\ order'.status # "absent"
         /\ LifecycleStep /\ VendorStep
<1>1. order \in WorkOrder
  BY DEF IInv, TypeOK
<1>2. /\ order'.status = StatusAfter(op)
      /\ order'.vendor = IF op \in {"assign", "vendorReject"} THEN NoVendor ELSE order.vendor
      /\ order'.technician = IF op = "assign" THEN TRUE
                             ELSE IF op = "vendorReject" THEN FALSE ELSE order.technician
  BY DEF Edited
<1>3. StatusAfter(op) \in WorkOrderStatus \ {"absent"}
  BY <1>1 DEF StatusAfter, WorkOrder, WorkOrderStatus, Permitted
<1>4. order' \in WorkOrder
  BY <1>1, <1>3 DEF Edited, WorkOrder
<1>5. op # "assign"
  BY DEF Permitted
<1>6. WorkHasWorker'
  BY <1>2, <1>5 DEF IInv, WorkHasWorker, Worked, StatusAfter, Permitted, EditOps
<1>7. LifecycleStep
  BY <1>1, <1>2, <1>5 DEF LifecycleStep, Lifecycle, StatusAfter, Permitted, EditOps,
     WorkOrder, WorkOrderStatus
<1>8. VendorStep
  BY <1>2 DEF VendorStep
<1> QED
  BY <1>2, <1>3, <1>4, <1>6, <1>7, <1>8

\* Saving an edit, or being refused for a stale version.
LEMMA SaveSound ==
  ASSUME IInv, NEW c \in Calls, Save(c)
  PROVE  IInv' /\ LifecycleStep /\ VendorStep
<1>0. /\ app' \in [Vendors -> ApplicationStatus]
      /\ contract' \in [status : ContractAwardStatus, vendor : Vendors \cup {NoVendor}]
      /\ invoices' \in Nat /\ account' = account /\ refused' = refused
      /\ UNCHANGED <<invoices, account, refused>>
  BY DEF Save, IInv, TypeOK
<1>1. CASE Return(c) /\ order' = order
  BY <1>0, <1>1, ReturnStep
<1>2. CASE ~call[c].stale /\ order' = Edited(call[c].op) /\ call' = Saved(c, Idle)
  <2>1. Permitted(call[c].op, call[c].vendor) /\ call[c].op \in EditOps
    BY <1>2 DEF Save, IInv, Held, Holds, Holding
  <2>2. call[c].vendor \in Vendors \cup {NoVendor}
    BY DEF IInv, TypeOK, Call
  <2>3. /\ order' \in WorkOrder /\ WorkHasWorker' /\ order'.status # "absent"
        /\ LifecycleStep /\ VendorStep
    BY <1>2, <2>1, <2>2, EditedIsSound
  <2>4. Idle \in Call /\ Carries(Idle) /\ Idle.step \notin Holding
    BY IdleRests DEF Idle, Holding
  <2> QED
    BY <1>0, <1>2, <2>3, <2>4, SaveStep
<1> QED
  BY <1>1, <1>2 DEF Save

\* The calls after an update of applications.
UpdatedKeeps(c, k) == /\ call' \in [Calls -> Call] /\ call'[c] = k
                      /\ \A d \in Calls : d # c => KeptBy(d)

\* The four steps of an award through the application.
LEMMA AwardSound ==
  ASSUME IInv, NEW c \in Calls,
         AwardReadOrder(c) \/ AwardSave(c) \/ AwardCloseOthers(c) \/ AwardRecord(c)
  PROVE  IInv' /\ LifecycleStep /\ VendorStep
<1>0. /\ call[c] \in Call /\ call[c].vendor \in Vendors
      /\ app \in [Vendors -> ApplicationStatus]
      /\ contract' \in [status : ContractAwardStatus, vendor : Vendors \cup {NoVendor}]
      /\ invoices' \in Nat /\ account' = account /\ refused' = refused
      /\ refused' \in SUBSET Technicians
  BY DEF IInv, TypeOK, Held, Carries, AwardReadOrder, AwardSave, AwardCloseOthers,
     AwardRecord, At
<1>1. CASE AwardReadOrder(c)
  <2>1. CASE Return(c)
    BY <1>0, <1>1, <2>1, ReturnStep DEF AwardReadOrder
  <2>2. CASE /\ order.status = "open"
             /\ call' = [call EXCEPT ![c].step = "read"]
    <3>1. /\ call' \in [Calls -> Call]
          /\ \A d \in Calls : d # c => KeptBy(d)
          /\ call'[c].op = call[c].op /\ call'[c].vendor = call[c].vendor
      BY <2>2 DEF IInv, TypeOK, Call, CallSteps, KeptBy
    <3>2. Holds(call'[c]) /\ Carries(call'[c])
      BY <1>0, <1>1, <2>2, <3>1 DEF Holds, Carries, AwardReadOrder, At, EditOps
    <3> QED
      BY <1>0, <1>1, <3>1, <3>2, QuietStep DEF AwardReadOrder
  <2> QED
    BY <1>1, <2>1, <2>2 DEF AwardReadOrder
<1>2. CASE AwardSave(c)
  <2>0. app' \in [Vendors -> ApplicationStatus]
    BY <1>0, <1>2 DEF AwardSave
  <2>1. CASE call[c].stale
    BY <1>0, <1>2, <2>0, <2>1, ReturnStep DEF AwardSave
  <2>2. CASE ~call[c].stale
    <3> DEFINE k == [call[c] EXCEPT !.step = "saved"]
    <3>1. k \in Call /\ k.step \notin Holding /\ k.op = call[c].op /\ k.vendor = call[c].vendor
          /\ k.arg = call[c].arg
      BY <1>0 DEF Call, CallSteps, Holding
    <3>2. Carries(k)
      BY <3>1, <1>0 DEF Carries, IInv, Held
    <3>3. order.status = "open" /\ order \in WorkOrder
      BY <1>2, <2>2 DEF IInv, Held, Holds, Holding, TypeOK, AwardSave, At
    <3>4. order' = [order EXCEPT !.vendor = call[c].vendor, !.status = "assigned"]
      BY <1>2, <2>2 DEF AwardSave
    <3>5. /\ order' \in WorkOrder /\ order'.status = "assigned"
          /\ order'.vendor = call[c].vendor
      BY <1>0, <3>3, <3>4 DEF WorkOrder, WorkOrderStatus
    <3>6. WorkHasWorker'
      BY <3>5, <1>0, WorkOrdersAssumption DEF WorkHasWorker
    <3>7. LifecycleStep /\ VendorStep
      BY <3>3, <3>5 DEF LifecycleStep, VendorStep, Lifecycle, IInv, WorkHasWorker
    <3>8. call' = Saved(c, k) /\ UNCHANGED <<invoices, account, refused>>
      BY <1>2, <2>2 DEF AwardSave
    <3> HIDE DEF k
    <3> QED
      BY <1>0, <2>0, <3>1, <3>2, <3>5, <3>6, <3>7, <3>8, SaveStep
  <2> QED
    BY <2>1, <2>2
<1>3. CASE AwardCloseOthers(c)
  <2> DEFINE k == [call[c] EXCEPT !.step = "closed"]
  <2>1. app' \in [Vendors -> ApplicationStatus]
    BY <1>0, <1>3 DEF AwardCloseOthers, ApplicationStatus
  <2>2. /\ k \in Call /\ k.op = call[c].op /\ k.vendor = call[c].vendor
        /\ k.step = "closed" /\ k.arg = call[c].arg
    BY <1>0 DEF Call, CallSteps
  <2>3. Holds(k) /\ Carries(k)
    BY <2>2 DEF Holds, Holding, Carries, IInv, Held
  <2>4. PICK vs : call' = Updated(c, k, vs)
    BY <1>3 DEF AwardCloseOthers
  <2> HIDE DEF k
  <2>5. UpdatedKeeps(c, k)
    BY <2>2, <2>4, UpdatedTypes DEF UpdatedKeeps, IInv
  <2> QED
    BY <1>0, <1>3, <2>1, <2>3, <2>5, QuietStep DEF AwardCloseOthers, UpdatedKeeps
<1>4. CASE AwardRecord(c)
  <2>1. app' \in [Vendors -> ApplicationStatus]
    BY <1>0, <1>4 DEF AwardRecord, ApplicationStatus
  <2>2. UpdatedKeeps(c, Idle)
    BY <1>4, UpdatedTypes, IdleRests DEF AwardRecord, UpdatedKeeps, IInv
  <2> QED
    BY <1>0, <1>4, <2>1, <2>2, IdleRests, QuietStep DEF AwardRecord, UpdatedKeeps
<1> QED
  BY <1>1, <1>2, <1>3, <1>4

\* The transaction of a contract award.
LEMMA ContractSound ==
  ASSUME IInv, NEW c \in Calls, ContractCommit(c)
  PROVE  IInv' /\ LifecycleStep /\ VendorStep
<1>0. /\ call[c] \in Call /\ call[c].vendor \in Vendors
      /\ app \in [Vendors -> ApplicationStatus] /\ order \in WorkOrder
      /\ invoices' \in Nat /\ account' = account /\ refused' = refused
      /\ UNCHANGED <<invoices, account, refused>>
  BY DEF IInv, TypeOK, Held, Carries, ContractCommit, At
<1>1. CASE call[c].stale \/ contract.status # "none"
  <2>1. /\ Return(c) /\ order' = order /\ app' \in [Vendors -> ApplicationStatus]
        /\ contract' \in [status : ContractAwardStatus, vendor : Vendors \cup {NoVendor}]
    BY <1>1 DEF ContractCommit, IInv, TypeOK
  <2> QED
    BY <1>0, <2>1, ReturnStep
<1>2. CASE ~(call[c].stale \/ contract.status # "none")
  <2>1. order.status = "open"
    BY <1>2 DEF IInv, Held, Holds, Holding, ContractCommit
  <2>2. app' \in [Vendors -> ApplicationStatus]
    BY <1>0, <1>2 DEF ContractCommit, ApplicationStatus
  <2>3. contract' \in [status : ContractAwardStatus, vendor : Vendors \cup {NoVendor}]
    BY <1>0, <1>2 DEF ContractCommit, ContractAwardStatus
  <2>4. order' = [order EXCEPT !.status = "assigned", !.vendor = call[c].vendor,
                     !.offer = "pending_acceptance",
                     !.vendorTechnician = IF call[c].arg = "technician" THEN TRUE ELSE @]
    BY <1>2 DEF ContractCommit
  <2>5. /\ order' \in WorkOrder /\ order'.status = "assigned"
        /\ order'.vendor = call[c].vendor
    BY <1>0, <2>4 DEF WorkOrder, WorkOrderStatus
  <2>6. WorkHasWorker'
    BY <2>5, <1>0, WorkOrdersAssumption DEF WorkHasWorker
  <2>7. LifecycleStep /\ VendorStep
    BY <2>1, <2>5 DEF LifecycleStep, VendorStep, Lifecycle, IInv, WorkHasWorker
  <2>8. call' = Saved(c, Idle)
    BY <1>2 DEF ContractCommit
  <2>9. Idle \in Call /\ Carries(Idle) /\ Idle.step \notin Holding
    BY IdleRests DEF Idle, Holding
  <2> QED
    BY <1>0, <2>2, <2>3, <2>5, <2>6, <2>7, <2>8, <2>9, SaveStep
<1> QED
  BY <1>1, <1>2

\* The begin of that transaction.
LEMMA ContractBeginSound ==
  ASSUME IInv, NEW c \in Calls, ContractBegin(c)
  PROVE  IInv' /\ LifecycleStep /\ VendorStep
<1>0. /\ call[c] \in Call /\ call[c].step = "read"
      /\ app' \in [Vendors -> ApplicationStatus] /\ order' = order
      /\ contract' \in [status : ContractAwardStatus, vendor : Vendors \cup {NoVendor}]
      /\ invoices' \in Nat /\ account' = account /\ refused' \in SUBSET Technicians
  BY DEF IInv, TypeOK, ContractBegin, At
<1> DEFINE n == [call[c] EXCEPT !.step = "open", !.closes = Closable(app, call[c].vendor)]
<1>1. Closable(app, call[c].vendor) \in SUBSET Vendors
  BY DEF Closable
<1>2. /\ n \in Call /\ n.op = call[c].op /\ n.vendor = call[c].vendor
      /\ n.arg = call[c].arg /\ n.stale = call[c].stale /\ n.step = "open"
  BY <1>0, <1>1 DEF Call, CallSteps
<1>3. call' = [call EXCEPT ![c] = n]
  BY DEF ContractBegin
<1>4. Holds(n) /\ Carries(n)
  BY <1>0, <1>2 DEF IInv, Held, Holds, Holding, Carries
<1> HIDE DEF n
<1>5. /\ call' \in [Calls -> Call] /\ call'[c] = n
      /\ \A d \in Calls : d # c => KeptBy(d)
  BY <1>2, <1>3 DEF IInv, TypeOK, KeptBy
<1> QED
  BY <1>0, <1>4, <1>5, QuietStep

\* Creating the order: no call holds an absent order.
LEMMA CreateSound ==
  ASSUME IInv, Create
  PROVE  IInv' /\ LifecycleStep /\ VendorStep
<1>1. order \in WorkOrder /\ order.vendor = NoVendor
  BY DEF IInv, TypeOK, Create
<1>2. order' \in WorkOrder /\ order'.status = "open" /\ order'.vendor = order.vendor
  BY <1>1 DEF Create, WorkOrder, WorkOrderStatus
<1>3. TypeOK'
  BY <1>2 DEF IInv, TypeOK, Create
<1>4. WorkHasWorker'
  BY <1>1, <1>2 DEF WorkHasWorker, Worked
<1>5. Held'
  <2> SUFFICES ASSUME NEW d \in Calls PROVE (Holds(call[d]) /\ Carries(call[d]))'
    BY DEF Held
  <2>1. call'[d] = call[d] /\ Holds(call[d]) /\ Carries(call[d]) /\ order.status = "absent"
    BY DEF IInv, Held, Create
  <2> QED
    BY <2>1 DEF Holds, Carries, Permitted
<1>6. LifecycleStep /\ VendorStep
  BY <1>2 DEF Create, LifecycleStep, VendorStep, Lifecycle
<1> QED
  BY <1>2, <1>3, <1>4, <1>5, <1>6 DEF IInv

\* The steps that finish a handler without touching the order.
LEMMA WriteSound ==
  ASSUME IInv, NEW c \in Calls,
         \/ Fail(c) \/ ApplyCreate(c) \/ UpdateContract(c) \/ InvoiceCreate(c)
  PROVE  IInv' /\ LifecycleStep /\ VendorStep
<1>0. /\ Return(c) /\ order' = order /\ account' = account /\ refused' = refused
      /\ app \in [Vendors -> ApplicationStatus] /\ invoices \in Nat
      /\ contract \in [status : ContractAwardStatus, vendor : Vendors \cup {NoVendor}]
  BY DEF Fail, ApplyCreate, UpdateContract, InvoiceCreate, IInv, TypeOK
<1>1. Carries(call[c])
  BY DEF IInv, Held
<1>2. app' \in [Vendors -> ApplicationStatus]
  <2>1. CASE ApplyCreate(c)
    BY <1>0, <2>1 DEF ApplyCreate, ApplicationStatus
  <2>2. CASE Fail(c) \/ UpdateContract(c) \/ InvoiceCreate(c)
    BY <1>0, <2>2 DEF Fail, UpdateContract, InvoiceCreate
  <2> QED
    BY <2>1, <2>2
<1>3. contract' \in [status : ContractAwardStatus, vendor : Vendors \cup {NoVendor}]
  <2>1. CASE UpdateContract(c)
    BY <1>0, <1>1, <2>1 DEF UpdateContract, Carries
  <2>2. CASE Fail(c) \/ ApplyCreate(c) \/ InvoiceCreate(c)
    BY <1>0, <2>2 DEF Fail, ApplyCreate, InvoiceCreate
  <2> QED
    BY <2>1, <2>2
<1>4. invoices' \in Nat
  BY <1>0 DEF Fail, ApplyCreate, UpdateContract, InvoiceCreate
<1> QED
  BY <1>0, <1>2, <1>3, <1>4, ReturnStep

\* A review or a withdrawal is written.
LEMMA UpdateApplicationSound ==
  ASSUME IInv, NEW c \in Calls, UpdateApplication(c)
  PROVE  IInv' /\ LifecycleStep /\ VendorStep
<1>1. /\ contract' \in [status : ContractAwardStatus, vendor : Vendors \cup {NoVendor}]
      /\ invoices' \in Nat /\ account' = account /\ order' = order
      /\ refused' \in SUBSET Technicians /\ app \in [Vendors -> ApplicationStatus]
      /\ Carries(call[c])
  BY DEF UpdateApplication, IInv, TypeOK, Held
<1>2. app' \in [Vendors -> ApplicationStatus]
  BY <1>1 DEF UpdateApplication, Carries
<1>3. UpdatedKeeps(c, Idle)
  BY UpdatedTypes, IdleRests DEF UpdateApplication, UpdatedKeeps, IInv
<1> QED
  BY <1>1, <1>2, <1>3, IdleRests, QuietStep DEF UpdatedKeeps

\* The look for an existing invoice.
LEMMA InvoiceExistsSound ==
  ASSUME IInv, NEW c \in Calls, InvoiceExists(c)
  PROVE  IInv' /\ LifecycleStep /\ VendorStep
<1>0. /\ app' \in [Vendors -> ApplicationStatus]
      /\ contract' \in [status : ContractAwardStatus, vendor : Vendors \cup {NoVendor}]
      /\ invoices' \in Nat /\ account' = account /\ refused' = refused
      /\ refused' \in SUBSET Technicians /\ order' = order
  BY DEF IInv, TypeOK, InvoiceExists
<1>1. CASE Return(c)
  BY <1>0, <1>1, ReturnStep
<1>2. CASE call' = [call EXCEPT ![c].step = "closed"]
  <2>1. /\ call' \in [Calls -> Call]
        /\ \A d \in Calls : d # c => KeptBy(d)
        /\ call'[c].op = call[c].op /\ call'[c].vendor = call[c].vendor
        /\ call'[c].step = "closed" /\ call'[c].arg = call[c].arg
    BY <1>2 DEF IInv, TypeOK, Call, CallSteps, KeptBy
  <2>2. Holds(call'[c]) /\ Carries(call'[c])
    BY <2>1 DEF Holds, Holding, Carries, IInv, Held
  <2> QED
    BY <1>0, <2>1, <2>2, QuietStep
<1> QED
  BY <1>1, <1>2 DEF InvoiceExists

\* A refused assignment: assertInternalTechnician never sees a status.
LEMMA AssignSound ==
  ASSUME IInv, NEW c \in Calls, NEW t \in Technicians, Assign(c, t)
  PROVE  IInv' /\ LifecycleStep /\ VendorStep
<1>1. ~assertInternalTechnician(t)
  BY DEF assertInternalTechnician, Selected
<1>2. /\ call' = call /\ order' = order /\ refused' = refused \cup {t}
      /\ UNCHANGED <<app, contract, invoices, account>>
  BY <1>1 DEF Assign
<1>3. /\ app' \in [Vendors -> ApplicationStatus]
      /\ contract' \in [status : ContractAwardStatus, vendor : Vendors \cup {NoVendor}]
      /\ invoices' \in Nat /\ refused' \in SUBSET Technicians
      /\ call' \in [Calls -> Call] /\ \A d \in Calls : d # c => KeptBy(d)
  BY <1>2 DEF IInv, TypeOK, KeptBy
<1>4. Holds(call'[c]) /\ Carries(call'[c])
  BY <1>2 DEF IInv, Held
<1> QED
  BY <1>2, <1>3, <1>4, QuietStep

\* The steps that read and check.
LEMMA VendorRequestSound ==
  ASSUME IInv, NEW c \in Calls, NEW v \in Vendors, VendorRequest(c, v)
  PROVE  IInv' /\ LifecycleStep /\ VendorStep
<1>0. app[v] \in ApplicationStatus /\ "none" \in Args /\ "none" \in ApplicationStatus
      /\ "withdrawn" \in Args /\ "withdrawn" \in ApplicationStatus
  BY DEF IInv, TypeOK, Args, ApplicationStatus
<1>1. ASSUME NEW op \in EditOps, Read(c, op, v)
      PROVE  IInv' /\ LifecycleStep /\ VendorStep
  <2>1. op \in AllOps /\ Permitted(op, v) /\ Enter(c, op, "read", v, "none", "none")
        /\ UNCHANGED <<order, app, contract, invoices, account, refused>>
    BY <1>1 DEF AllOps, Read
  <2> QED
    BY <1>0, <1>1, <2>1, EnterStep DEF EditOps
<1>2. CASE Apply(c, v)
  <2>1. "apply" \in AllOps /\ Enter(c, "apply", "read", v, "none", "none")
        /\ UNCHANGED <<order, app, contract, invoices, account, refused>>
    BY <1>2 DEF AllOps, Apply
  <2> QED
    BY <1>0, <2>1, EnterStep DEF EditOps
<1>3. CASE Withdraw(c, v)
  <2>1. "withdraw" \in AllOps /\ Enter(c, "withdraw", "read", v, "withdrawn", app[v])
        /\ UNCHANGED <<order, app, contract, invoices, account, refused>>
    BY <1>3 DEF AllOps, Withdraw
  <2> QED
    BY <1>0, <2>1, EnterStep DEF EditOps
<1>4. CASE Invoice(c, v)
  <2>1. "invoice" \in AllOps /\ Enter(c, "invoice", "read", v, "none", "none")
        /\ UNCHANGED <<order, app, contract, invoices, account, refused>>
    BY <1>4 DEF AllOps, Invoice
  <2> QED
    BY <1>0, <2>1, EnterStep DEF EditOps
<1> QED
  BY <1>1, <1>2, <1>3, <1>4 DEF VendorRequest

\* The same for the requests of the organization.
LEMMA ManagerRequestSound ==
  ASSUME IInv, NEW c \in Calls, ManagerRequest(c)
  PROVE  IInv' /\ LifecycleStep /\ VendorStep
<1>0. /\ \A v \in Vendors : app[v] \in ApplicationStatus
      /\ ApplicationStatus \subseteq Args /\ ContractAwardStatus \subseteq Args
      /\ "technician" \in Args
  BY DEF IInv, TypeOK, Args
<1>1. ASSUME NEW op \in EditOps, Read(c, op, NoVendor)
      PROVE  IInv' /\ LifecycleStep /\ VendorStep
  <2>1. op \in AllOps /\ Permitted(op, NoVendor)
        /\ Enter(c, op, "read", NoVendor, "none", "none")
        /\ UNCHANGED <<order, app, contract, invoices, account, refused>>
    BY <1>1 DEF AllOps, Read
  <2>2. "none" \in Args /\ "none" \in ApplicationStatus
    BY DEF Args, ApplicationStatus
  <2> QED
    BY <1>1, <2>1, <2>2, EnterStep DEF EditOps
<1>2. ASSUME NEW t \in Technicians, Assign(c, t)
      PROVE  IInv' /\ LifecycleStep /\ VendorStep
  BY <1>2, AssignSound
<1>3. ASSUME NEW v \in Vendors, NEW to \in {"under_review", "rejected"}, Review(c, v, to)
      PROVE  IInv' /\ LifecycleStep /\ VendorStep
  <2>1. "review" \in AllOps /\ Enter(c, "review", "read", v, to, app[v])
        /\ UNCHANGED <<order, app, contract, invoices, account, refused>>
    BY <1>3 DEF AllOps, Review
  <2>2. to \in ApplicationStatus /\ to \in Args /\ app[v] \in ApplicationStatus
    BY <1>0 DEF ApplicationStatus
  <2> QED
    BY <2>1, <2>2, EnterStep DEF EditOps
<1>4. ASSUME NEW v \in Vendors, Award(c, v)
      PROVE  IInv' /\ LifecycleStep /\ VendorStep
  <2>1. "award" \in AllOps /\ Enter(c, "award", "application", v, "awarded", app[v])
        /\ UNCHANGED <<order, app, contract, invoices, account, refused>>
    BY <1>4 DEF AllOps, Award
  <2>2. "awarded" \in Args /\ app[v] \in ApplicationStatus
    BY <1>0 DEF ApplicationStatus
  <2> QED
    BY <2>1, <2>2, EnterStep
<1>5. ASSUME NEW v \in Vendors, NEW t \in {"technician", "none"}, ContractAward(c, v, t)
      PROVE  IInv' /\ LifecycleStep /\ VendorStep
  <2>1. "contractAward" \in AllOps /\ Enter(c, "contractAward", "read", v, t, app[v])
        /\ order.status = "open"
        /\ UNCHANGED <<order, app, contract, invoices, account, refused>>
    BY <1>5 DEF AllOps, ContractAward
  <2>2. t \in Args /\ app[v] \in ApplicationStatus
    BY <1>0 DEF ApplicationStatus
  <2> QED
    BY <2>1, <2>2, EnterStep DEF EditOps
<1>6. ASSUME NEW to \in ContractAwardStatus, ContractStatus(c, to)
      PROVE  IInv' /\ LifecycleStep /\ VendorStep
  <2>1. "contractStatus" \in AllOps
        /\ Enter(c, "contractStatus", "read", NoVendor, to, "none")
        /\ UNCHANGED <<order, app, contract, invoices, account, refused>>
    BY <1>6 DEF AllOps, ContractStatus
  <2>2. to \in Args /\ "none" \in ApplicationStatus
    BY <1>0 DEF ApplicationStatus
  <2> QED
    BY <2>1, <2>2, EnterStep DEF EditOps
<1>7. CASE Renew(c)
  <2>1. "renew" \in AllOps /\ Enter(c, "renew", "read", NoVendor, "active", "none")
        /\ UNCHANGED <<order, app, contract, invoices, account, refused>>
    BY <1>7 DEF AllOps, Renew
  <2>2. "active" \in Args /\ "active" \in ContractAwardStatus /\ "none" \in ApplicationStatus
    BY <1>0 DEF ApplicationStatus, ContractAwardStatus
  <2> QED
    BY <2>1, <2>2, EnterStep DEF EditOps
<1> QED
  BY <1>1, <1>2, <1>3, <1>4, <1>5, <1>6, <1>7 DEF ManagerRequest

\* Every step keeps the invariant and moves the order only as the lifecycle and
\* the assignment allow.
LEMMA OrderStep == IInv /\ [Next]_vars => IInv' /\ LifecycleStep /\ VendorStep
<1> SUFFICES ASSUME IInv, [Next]_vars PROVE IInv' /\ LifecycleStep /\ VendorStep
  OBVIOUS
<1>1. CASE Create
  BY <1>1, CreateSound
<1>2. ASSUME NEW c \in Calls, NEW v \in Vendors, VendorRequest(c, v)
      PROVE  IInv' /\ LifecycleStep /\ VendorStep
  BY <1>2, VendorRequestSound
<1>3. ASSUME NEW c \in Calls, ManagerRequest(c)
      PROVE  IInv' /\ LifecycleStep /\ VendorStep
  BY <1>3, ManagerRequestSound
<1>4. ASSUME NEW c \in Calls, Continue(c) \/ Fail(c)
      PROVE  IInv' /\ LifecycleStep /\ VendorStep
  BY <1>4, SaveSound, AwardSound, ContractBeginSound, ContractSound, WriteSound,
     UpdateApplicationSound, InvoiceExistsSound
     DEF Continue
<1>5. CASE UNCHANGED vars
  BY <1>5 DEF vars, IInv, TypeOK, WorkHasWorker, Held, Holds, Carries, Permitted,
     LifecycleStep, VendorStep
<1> QED
  BY <1>1, <1>2, <1>3, <1>4, <1>5 DEF Next, Handle

-----------------------------------------------------------------------------
\* The inductive invariant holds in every reachable state: a handler whose copy
\* of the order is not stale still satisfies the checks it made before its await.
THEOREM OrderInvariant == Spec => []IInv
BY OrderInit, OrderStep, PTL DEF Spec

\* Every document, application, contract and call in flight keeps its type.
THEOREM OrderTypeOK == Spec => []TypeOK
<1>1. IInv => TypeOK
  BY DEF IInv
<1> QED
  BY <1>1, OrderInvariant, PTL

\* An order that is worked on has a worker, and an open one has no vendor.
THEOREM OrderWorkHasWorker == Spec => []WorkHasWorker
<1>1. IInv => WorkHasWorker
  BY DEF IInv
<1> QED
  BY <1>1, OrderInvariant, PTL

\* However many edits and awards are in flight, the persisted status moves only
\* along the lifecycle: a transition checked against an old version is refused.
THEOREM OrderLifecycle == Spec => LifecycleOrder
<1>1. IInv /\ [Next]_vars
        => [order'.status # order.status => <<order.status, order'.status>> \in Lifecycle]_vars
  BY OrderStep DEF LifecycleStep
<1> QED
  BY <1>1, OrderInvariant, PTL DEF Spec, LifecycleOrder

\* A vendor that has the order is never replaced by another: two awards in
\* flight, by either route, do not both take it.
THEOREM OrderVendorNotReplaced == Spec => VendorNotReplaced
<1>1. IInv /\ [Next]_vars
        => [order.vendor # NoVendor /\ order'.vendor # order.vendor
              => order'.vendor = NoVendor]_vars
  BY OrderStep DEF VendorStep
<1> QED
  BY <1>1, OrderInvariant, PTL DEF Spec, VendorNotReplaced

-----------------------------------------------------------------------------
(***************************************************************************)
(* Awards, in the workloads without failures and rejected offers.  The     *)
(* order is taken once: an application is awarded, or recorded as awarded  *)
(* by a call in flight, only for the vendor the order is assigned to.      *)
(***************************************************************************)
Recording(k) == k.op = "award" /\ k.step \in {"saved", "closed"}

\* What a call will write to an application, or has read of it.
Writes(k) ==
  /\ k.op # "vendorReject"
  /\ k.op \in Reviews => k.arg # "awarded"
  /\ k.op = "contractAward" => k.seen # "awarded"
  /\ k.step \in {"open", "reopened"} => k.op = "contractAward"

AwardsInv ==
  /\ \A v \in Vendors : app[v] = "awarded" => order.vendor = v
  /\ \A c \in Calls : Recording(call[c]) => order.vendor = call[c].vendor
  /\ \A c \in Calls : Writes(call[c])

\* Without reviews that overlap an award, the vendor's application is awarded or
\* about to be; a transaction that is run again can no longer commit, and what a
\* lone review has read still holds.
Alone == \A c, d \in Calls : call[c].step # "idle" /\ call[d].step # "idle" => c = d

UnderReview(k) == k.op \in Reviews /\ k.step = "read"

AgreeInv ==
  /\ order.vendor # NoVendor => \/ app[order.vendor] = "awarded"
                                \/ \E c \in Calls : Recording(call[c])
  /\ \A c \in Calls : call[c].step = "reopened" => call[c].stale
  /\ \A c \in Calls : UnderReview(call[c]) => app[call[c].vendor] # "awarded"
  /\ InTurn => Alone
  /\ NoReviews => \A c \in Calls : call[c].op \notin Reviews

MCInv ==
  /\ IInv
  /\ Undisturbed => AwardsInv
  /\ Undisturbed /\ (InTurn \/ NoReviews) => AgreeInv

-----------------------------------------------------------------------------
\* Call d goes on as it was, except that its copies of the order and of the
\* applications may have become old.
Follows(d) ==
  /\ call'[d].op = call[d].op /\ call'[d].vendor = call[d].vendor
  /\ call'[d].arg = call[d].arg /\ call'[d].seen = call[d].seen
  /\ call[d].stale => call'[d].stale
  /\ \/ call'[d].step = call[d].step
     \/ call[d].step \in {"open", "reopened"} /\ call'[d].step = "reopened"

\* A step of call c that takes no part in an award.
QuietFor(c) ==
  /\ order'.vendor = order.vendor
  /\ \A v \in Vendors : app'[v] = "awarded" <=> app[v] = "awarded"
  /\ \A d \in Calls \ {c} : Follows(d) /\ call'[d].step = call[d].step
  /\ ~Recording(call[c]) /\ ~Recording(call'[c])
  /\ Writes(call'[c])
  /\ call'[c].step # "reopened"
  /\ UnderReview(call'[c]) => app'[call'[c].vendor] # "awarded"

\* What the helpers do to the calls.
LEMMA EnterFollows ==
  ASSUME TypeOK, NEW c \in Calls, NEW op, NEW step, NEW v, NEW arg, NEW seen,
         Enter(c, op, step, v, arg, seen)
  PROVE  /\ \A d \in Calls \ {c} : call'[d] = call[d]
         /\ call'[c] = [op |-> op, step |-> step, vendor |-> v, arg |-> arg,
                        seen |-> seen, closes |-> {}, stale |-> FALSE]
BY DEF TypeOK, Enter

LEMMA ReturnFollows ==
  ASSUME TypeOK, NEW c \in Calls, Return(c)
  PROVE  call'[c] = Idle /\ \A d \in Calls \ {c} : call'[d] = call[d]
BY DEF TypeOK, Return

LEMMA SavedFollows ==
  ASSUME TypeOK, NEW c \in Calls, NEW k, call' = Saved(c, k)
  PROVE  /\ call'[c] = k
         /\ \A d \in Calls \ {c} : Follows(d) /\ call'[d].step = call[d].step
<1>1. ASSUME NEW d \in Calls, d # c
      PROVE  Follows(d) /\ call'[d].step = call[d].step
  <2>1. call[d] \in Call
    BY DEF TypeOK
  <2>2. CASE call[d].step \in Holding
    <3>1. call'[d] = [call[d] EXCEPT !.stale = TRUE]
      BY <1>1, <2>2 DEF Saved
    <3> QED
      BY <2>1, <3>1 DEF Call, Follows
  <2>3. CASE call[d].step \notin Holding
    BY <1>1, <2>3 DEF Saved, Follows
  <2> QED
    BY <2>2, <2>3
<1> QED
  BY <1>1 DEF Saved

LEMMA UpdatedFollows ==
  ASSUME TypeOK, NEW c \in Calls, NEW k, NEW vs, call' = Updated(c, k, vs)
  PROVE  call'[c] = k /\ \A d \in Calls \ {c} : Follows(d)
<1>1. ASSUME NEW d \in Calls, d # c
      PROVE  Follows(d)
  <2>1. call[d] \in Call
    BY DEF TypeOK
  <2>2. CASE call[d].step \in {"open", "reopened"} /\ call[d].closes \cap vs # {}
    <3>1. call'[d] = [call[d] EXCEPT !.step = "reopened",
                                     !.closes = Closable(app', call[d].vendor)]
      BY <1>1, <2>2 DEF Updated
    <3> QED
      BY <2>1, <2>2, <3>1 DEF Call, Follows
  <2>3. CASE ~(call[d].step \in {"open", "reopened"} /\ call[d].closes \cap vs # {})
    BY <1>1, <2>3 DEF Updated, Follows
  <2> QED
    BY <2>2, <2>3
<1> QED
  BY <1>1 DEF Updated

\* Quiet steps disturb neither invariant.
LEMMA QuietAwards ==
  ASSUME AwardsInv, NEW c \in Calls, QuietFor(c)
  PROVE  AwardsInv'
<1>1. ASSUME NEW d \in Calls \ {c} PROVE Writes(call'[d])
  BY DEF QuietFor, AwardsInv, Writes, Follows
<1>2. ASSUME NEW d \in Calls, Recording(call'[d])
      PROVE  order.vendor = call'[d].vendor
  BY <1>2 DEF QuietFor, AwardsInv, Recording, Follows
<1> QED
  BY <1>1, <1>2 DEF QuietFor, AwardsInv, Writes, Recording

LEMMA QuietAgrees ==
  ASSUME IInv, AgreeInv, NEW c \in Calls, QuietFor(c), UNCHANGED workload,
         InTurn => Alone', NoReviews => \A d \in Calls : call'[d].op \notin Reviews
  PROVE  AgreeInv'
<1>1. order'.vendor # NoVendor => \/ app'[order'.vendor] = "awarded"
                                  \/ \E d \in Calls : Recording(call'[d])
  <2> SUFFICES ASSUME order.vendor # NoVendor, app[order.vendor] # "awarded"
               PROVE  \E d \in Calls : Recording(call'[d])
    BY DEF QuietFor, IInv, TypeOK, WorkOrder
  <2>1. PICK d \in Calls : Recording(call[d])
    BY DEF AgreeInv
  <2> QED
    BY <2>1 DEF QuietFor, Recording, Follows
<1>2. ASSUME NEW d \in Calls, call'[d].step = "reopened" PROVE call'[d].stale
  BY <1>2 DEF QuietFor, AgreeInv, Follows
<1>3. ASSUME NEW d \in Calls, UnderReview(call'[d]) PROVE app'[call'[d].vendor] # "awarded"
  <2>1. CASE d = c
    BY <1>3, <2>1 DEF QuietFor
  <2>2. CASE d # c
    <3>1. UnderReview(call[d]) /\ call'[d].vendor = call[d].vendor
      BY <1>3, <2>2 DEF QuietFor, UnderReview, Follows
    <3>2. call[d].vendor \in Vendors /\ app[call[d].vendor] # "awarded"
      BY <3>1 DEF IInv, Held, Carries, UnderReview, Reviews, AgreeInv
    <3> QED
      BY <3>1, <3>2 DEF QuietFor
  <2> QED
    BY <2>1, <2>2
<1> QED
  BY <1>1, <1>2, <1>3 DEF AgreeInv, InTurn, NoReviews, Used, Alone, UnderReview, Recording

-----------------------------------------------------------------------------
\* A request that enters its handler.
LEMMA EnterQuiet ==
  ASSUME IInv, NEW c \in Calls, NEW op, NEW step \in {"application", "read"}, NEW v,
         NEW arg, NEW seen, Enter(c, op, step, v, arg, seen), UNCHANGED <<order, app>>,
         op # "vendorReject", op \in Reviews => arg # "awarded" /\ app[v] # "awarded",
         op = "contractAward" => seen # "awarded"
  PROVE  QuietFor(c)
<1>1. /\ \A d \in Calls \ {c} : call'[d] = call[d]
      /\ call'[c] = [op |-> op, step |-> step, vendor |-> v, arg |-> arg,
                     seen |-> seen, closes |-> {}, stale |-> FALSE]
  BY EnterFollows DEF IInv
<1>2. call[c].step = "idle"
  BY DEF Enter
<1> QED
  BY <1>1, <1>2 DEF QuietFor, Follows, Recording, Writes, UnderReview

\* A call that returns and was not about to record an award.
LEMMA ReturnQuiet ==
  ASSUME IInv, NEW c \in Calls, Return(c), ~Recording(call[c]), order'.vendor = order.vendor,
         \A v \in Vendors : app'[v] = "awarded" <=> app[v] = "awarded"
  PROVE  QuietFor(c)
<1>1. call'[c] = Idle /\ \A d \in Calls \ {c} : call'[d] = call[d]
  BY ReturnFollows DEF IInv
<1> QED
  BY <1>1 DEF QuietFor, Follows, Recording, Writes, UnderReview, Idle, Reviews

\* Every request.
LEMMA RequestQuiet ==
  ASSUME IInv, AwardsInv, NEW c \in Calls, call'[c].op # "vendorReject",
         ManagerRequest(c) \/ \E v \in Vendors : VendorRequest(c, v)
  PROVE  QuietFor(c)
<1>1. ASSUME NEW op, NEW step, NEW v, NEW arg, NEW seen, Enter(c, op, step, v, arg, seen)
      PROVE  op # "vendorReject"
  <2>1. TypeOK
    BY DEF IInv
  <2>2. call'[c] = [op |-> op, step |-> step, vendor |-> v, arg |-> arg,
                    seen |-> seen, closes |-> {}, stale |-> FALSE]
    BY <1>1, <2>1, EnterFollows
  <2> QED
    BY <2>2
<1>2. ASSUME NEW op \in EditOps, NEW v, Read(c, op, v)
      PROVE  QuietFor(c)
  <2>1. Enter(c, op, "read", v, "none", "none") /\ UNCHANGED <<order, app>>
    BY <1>2 DEF Read
  <2>2. op # "vendorReject"
    BY <1>1, <2>1
  <2> QED
    BY <2>1, <2>2, EnterQuiet DEF EditOps, Reviews
<1>3. ASSUME NEW v \in Vendors, Apply(c, v) \/ Invoice(c, v)
      PROVE  QuietFor(c)
  BY <1>3, EnterQuiet DEF Apply, Invoice, Reviews
<1>4. ASSUME NEW v \in Vendors, Withdraw(c, v)
      PROVE  QuietFor(c)
  BY <1>4, EnterQuiet DEF Withdraw
<1>5. ASSUME NEW v \in Vendors, NEW to \in {"under_review", "rejected"}, Review(c, v, to)
      PROVE  QuietFor(c)
  BY <1>5, EnterQuiet DEF Review, Reviewable
<1>6. ASSUME NEW v \in Vendors, Award(c, v)
      PROVE  QuietFor(c)
  BY <1>6, EnterQuiet DEF Award, Reviews
<1>7. ASSUME NEW v \in Vendors, NEW t \in {"technician", "none"}, ContractAward(c, v, t)
      PROVE  QuietFor(c)
  <2>1. order.vendor = NoVendor
    BY <1>7 DEF ContractAward, IInv, WorkHasWorker
  <2>2. app[v] # "awarded"
    BY <2>1, WorkOrdersAssumption DEF AwardsInv
  <2> QED
    BY <1>7, <2>2, EnterQuiet DEF ContractAward, Reviews
<1>8. ASSUME NEW to \in ContractAwardStatus, ContractStatus(c, to)
      PROVE  QuietFor(c)
  BY <1>8, EnterQuiet DEF ContractStatus, Reviews
<1>9. CASE Renew(c)
  BY <1>9, EnterQuiet DEF Renew, Reviews
<1>10. ASSUME NEW t \in Technicians, Assign(c, t)
       PROVE  QuietFor(c)
  <2>1. call' = call /\ order' = order /\ app' = app /\ call[c].step = "idle"
    BY <1>10 DEF Assign, assertInternalTechnician, Selected
  <2> QED
    BY <2>1 DEF QuietFor, AwardsInv, Follows, Recording, UnderReview
<1> QED
  BY <1>2, <1>3, <1>4, <1>5, <1>6, <1>7, <1>8, <1>9, <1>10 DEF ManagerRequest, VendorRequest

\* Edits, applications, contracts and invoices.
LEMMA SaveQuiet ==
  ASSUME IInv, AwardsInv, NEW c \in Calls, Save(c)
  PROVE  QuietFor(c)
<1>1. ~Recording(call[c]) /\ app' = app
  BY DEF Save, Recording
<1>2. CASE Return(c) /\ order' = order
  BY <1>1, <1>2, ReturnQuiet
<1>3. CASE ~call[c].stale /\ order' = Edited(call[c].op) /\ call' = Saved(c, Idle)
  <2>1. Permitted(call[c].op, call[c].vendor)
    BY <1>3 DEF Save, IInv, Held, Holds, Holding
  <2>2. call[c].op \notin {"assign", "vendorReject"}
    BY <2>1 DEF Permitted, AwardsInv, Writes
  <2>3. order'.vendor = order.vendor
    BY <1>3, <2>2 DEF Edited
  <2>4. /\ call'[c] = Idle
        /\ \A d \in Calls \ {c} : Follows(d) /\ call'[d].step = call[d].step
    BY <1>3, SavedFollows DEF IInv
  <2> QED
    BY <1>1, <2>3, <2>4 DEF QuietFor, Recording, Writes, UnderReview, Idle, Reviews
<1> QED
  BY <1>2, <1>3 DEF Save

LEMMA ContinueQuiet ==
  ASSUME IInv, AwardsInv, NEW c \in Calls,
         \/ Save(c) \/ ApplyCreate(c) \/ AwardReadOrder(c) \/ ContractBegin(c)
         \/ UpdateContract(c) \/ InvoiceExists(c) \/ InvoiceCreate(c)
         \/ AwardSave(c) /\ call[c].stale
         \/ ContractCommit(c) /\ (call[c].stale \/ contract.status # "none")
  PROVE  QuietFor(c)
<1>0. call[c] \in Call /\ call \in [Calls -> Call] /\ Writes(call[c])
  BY DEF IInv, TypeOK, AwardsInv
<1>1. CASE Save(c)
  BY <1>1, SaveQuiet
<1>2. CASE ApplyCreate(c)
  <2>1. /\ Return(c) /\ ~Recording(call[c]) /\ order' = order
        /\ call[c].vendor \in Vendors /\ app \in [Vendors -> ApplicationStatus]
    BY <1>2 DEF ApplyCreate, At, Recording, IInv, Held, Carries, TypeOK
  <2>2. \A v \in Vendors : app'[v] = "awarded" <=> app[v] = "awarded"
    BY <1>2, <2>1 DEF ApplyCreate
  <2> QED
    BY <2>1, <2>2, ReturnQuiet
<1>3. CASE \/ UpdateContract(c) \/ InvoiceCreate(c)
           \/ AwardSave(c) /\ call[c].stale
           \/ ContractCommit(c) /\ (call[c].stale \/ contract.status # "none")
  <2>1. Return(c) /\ ~Recording(call[c]) /\ order' = order /\ app' = app
    BY <1>3 DEF UpdateContract, InvoiceCreate, AwardSave, ContractCommit, At, Recording
  <2> QED
    BY <2>1, ReturnQuiet
<1>4. CASE AwardReadOrder(c) \/ InvoiceExists(c)
  <2>1. order' = order /\ app' = app /\ ~Recording(call[c])
    BY <1>4 DEF AwardReadOrder, InvoiceExists, At, Recording
  <2>2. CASE Return(c)
    BY <2>1, <2>2, ReturnQuiet
  <2>3. ASSUME NEW s \in {"read", "closed"}, s = "closed" => call[c].op = "invoice",
               call[c].op \in {"award", "invoice"}, call' = [call EXCEPT ![c].step = s]
        PROVE  QuietFor(c)
    <3>1. /\ call'[c].step = s /\ call'[c].op = call[c].op
          /\ \A d \in Calls \ {c} : call'[d] = call[d]
      BY <1>0, <2>3 DEF Call
    <3> QED
      BY <2>1, <2>3, <3>1 DEF QuietFor, Follows, Recording, Writes, UnderReview, Reviews
  <2> QED
    BY <1>4, <2>2, <2>3 DEF AwardReadOrder, InvoiceExists, At
<1>5. CASE ContractBegin(c)
  <2> DEFINE n == [call[c] EXCEPT !.step = "open", !.closes = Closable(app, call[c].vendor)]
  <2>1. n.op = call[c].op /\ n.step = "open" /\ n.arg = call[c].arg /\ n.seen = call[c].seen
    BY <1>0 DEF Call
  <2>2. call' = [call EXCEPT ![c] = n] /\ order' = order /\ app' = app
        /\ call[c].op = "contractAward"
    BY <1>5 DEF ContractBegin, At
  <2> HIDE DEF n
  <2>3. call'[c] = n /\ \A d \in Calls \ {c} : call'[d] = call[d]
    BY <1>0, <2>2
  <2> QED
    BY <1>0, <2>1, <2>2, <2>3 DEF QuietFor, Follows, Recording, Writes, UnderReview
<1> QED
  BY <1>1, <1>2, <1>3, <1>4, <1>5

-----------------------------------------------------------------------------
\* What a step of the workloads in which awards agree may rely on.
Agreeing ==
  /\ AgreeInv /\ UNCHANGED workload
  /\ InTurn \/ NoReviews
  /\ InTurn => Alone'
  /\ NoReviews => \A d \in Calls : call'[d].op \notin Reviews

\* While call c is in flight no other call is under review.
LEMMA NoOtherReview ==
  ASSUME Agreeing, NEW c \in Calls, call[c].step # "idle", NEW d \in Calls \ {c}, Follows(d)
  PROVE  ~UnderReview(call'[d])
<1>1. CASE InTurn
  BY <1>1 DEF Agreeing, AgreeInv, Alone, UnderReview, Follows
<1>2. CASE NoReviews
  BY <1>2 DEF Agreeing, UnderReview
<1> QED
  BY <1>1, <1>2 DEF Agreeing

\* An order with a vendor is not open, so the award transactions are stale.
LEMMA TakenMakesStale ==
  ASSUME IInv, AwardsInv, order.vendor # NoVendor, NEW d \in Calls,
         call[d].step \in {"open", "reopened"}
  PROVE  call[d].stale
<1>1. call[d].op = "contractAward"
  BY DEF AwardsInv, Writes
<1>2. order.status # "open" /\ Holds(call[d])
  BY DEF IInv, WorkHasWorker, Held
<1> QED
  BY <1>1, <1>2 DEF Holds, Holding

\* An order without a vendor has no award, neither written nor about to be.
LEMMA OpenHasNoAward ==
  ASSUME IInv, AwardsInv, order.vendor = NoVendor
  PROVE  /\ \A v \in Vendors : app[v] # "awarded"
         /\ \A c \in Calls : ~Recording(call[c])
BY WorkOrdersAssumption DEF IInv, Held, Carries, AwardsInv, Recording

LEMMA UpdateApplicationAwards ==
  ASSUME IInv, AwardsInv, NEW c \in Calls, UpdateApplication(c)
  PROVE  AwardsInv' /\ (Agreeing => AgreeInv')
<1>1. call'[c] = Idle /\ \A d \in Calls \ {c} : Follows(d)
  BY UpdatedFollows DEF UpdateApplication, IInv
<1>2. /\ order' = order /\ call[c].op \in Reviews /\ call[c].step = "read"
      /\ call[c].vendor \in Vendors /\ app \in [Vendors -> ApplicationStatus]
      /\ call[c].arg # "awarded"
  BY DEF UpdateApplication, Reviews, IInv, TypeOK, Held, Carries, AwardsInv, Writes
<1>3. /\ app'[call[c].vendor] # "awarded"
      /\ \A v \in Vendors \ {call[c].vendor} : app'[v] = app[v]
  BY <1>2 DEF UpdateApplication
<1>4. \A d \in Calls : Writes(call'[d])
  BY <1>1 DEF AwardsInv, Writes, Follows, Idle, Reviews
<1>5. \A d \in Calls : Recording(call'[d]) => order.vendor = call'[d].vendor
  BY <1>1 DEF AwardsInv, Recording, Follows, Idle
<1>6. AwardsInv'
  BY <1>2, <1>3, <1>4, <1>5 DEF AwardsInv, Writes, Recording
<1>7. ASSUME Agreeing PROVE AgreeInv'
  <2>1. Alone /\ InTurn /\ ~NoReviews
    BY <1>2, <1>7 DEF Agreeing, AgreeInv
  <2>2. \A d \in Calls \ {c} : call[d].step = "idle"
    BY <1>2, <2>1 DEF Alone
  <2>3. \A d \in Calls : call'[d].step = "idle"
    BY <1>1, <2>2 DEF Follows, Idle
  <2>4. \A d \in Calls : ~Recording(call[d])
    BY <1>2, <2>2 DEF Recording, Reviews
  <2>5. app[call[c].vendor] # "awarded"
    BY <1>2, <1>7 DEF Agreeing, AgreeInv, UnderReview
  <2>6. order.vendor # NoVendor => app[order.vendor] = "awarded" /\ order.vendor \in Vendors
    BY <2>4, <1>7 DEF Agreeing, AgreeInv, IInv, TypeOK, WorkOrder
  <2>7. order'.vendor # NoVendor => app'[order'.vendor] = "awarded"
    BY <1>2, <1>3, <2>5, <2>6
  <2> QED
    BY <2>1, <2>3, <2>7, <1>7 DEF AgreeInv, Agreeing, UnderReview, InTurn, NoReviews, Used
<1> QED
  BY <1>6, <1>7

LEMMA AwardSaveAwards ==
  ASSUME IInv, AwardsInv, NEW c \in Calls, AwardSave(c), ~call[c].stale
  PROVE  AwardsInv' /\ (Agreeing => AgreeInv')
<1>0. call[c] \in Call /\ call[c].vendor \in Vendors /\ call[c].op = "award" /\ app' = app
  BY DEF IInv, TypeOK, Held, Carries, AwardSave, At
<1> DEFINE k == [call[c] EXCEPT !.step = "saved"]
<1>1. k.op = "award" /\ k.step = "saved" /\ k.vendor = call[c].vendor
  BY <1>0 DEF Call
<1>2. call' = Saved(c, k)
  BY DEF AwardSave
<1> HIDE DEF k
<1>3. call'[c] = k /\ \A d \in Calls \ {c} : Follows(d) /\ call'[d].step = call[d].step
  BY <1>2, SavedFollows DEF IInv
<1>4. order.status = "open" /\ order \in WorkOrder
  BY DEF IInv, Held, Holds, Holding, TypeOK, AwardSave, At
<1>5. order.vendor = NoVendor
  BY <1>4 DEF IInv, WorkHasWorker
<1>6. (\A v \in Vendors : app[v] # "awarded") /\ \A d \in Calls : ~Recording(call[d])
  BY <1>5, OpenHasNoAward
<1>7. order'.vendor = call[c].vendor
  BY <1>4 DEF AwardSave, WorkOrder
<1>8. \A d \in Calls : Writes(call'[d])
  BY <1>1, <1>3 DEF AwardsInv, Writes, Follows, Reviews
<1>9. \A d \in Calls \ {c} : ~Recording(call'[d])
  BY <1>3, <1>6 DEF Recording, Follows
<1>10. AwardsInv'
  BY <1>0, <1>1, <1>3, <1>6, <1>7, <1>8, <1>9 DEF AwardsInv, Writes, Recording
<1>11. ASSUME Agreeing PROVE AgreeInv'
  <2>1. Recording(call'[c]) /\ call'[c].step # "reopened" /\ ~UnderReview(call'[c])
    BY <1>1, <1>3 DEF Recording, UnderReview
  <2>2. \A d \in Calls : call'[d].step = "reopened" => call'[d].stale
    BY <1>3, <1>11, <2>1 DEF Agreeing, AgreeInv, Follows
  <2>3. \A d \in Calls : ~UnderReview(call'[d])
    BY <1>3, <1>11, <2>1, NoOtherReview DEF AwardSave, At
  <2> QED
    BY <1>11, <2>1, <2>2, <2>3 DEF AgreeInv, Agreeing, UnderReview, InTurn, NoReviews, Used,
       Recording
<1> QED
  BY <1>10, <1>11

LEMMA AwardCloseOthersAwards ==
  ASSUME IInv, AwardsInv, NEW c \in Calls, AwardCloseOthers(c)
  PROVE  AwardsInv' /\ (Agreeing => AgreeInv')
<1>0. /\ call[c] \in Call /\ call[c].vendor \in Vendors /\ call[c].op = "award"
      /\ call[c].step = "saved" /\ order' = order
  BY DEF IInv, TypeOK, Held, Carries, AwardCloseOthers, At
<1> DEFINE k == [call[c] EXCEPT !.step = "closed"]
<1>1. k.op = "award" /\ k.step = "closed" /\ k.vendor = call[c].vendor
  BY <1>0 DEF Call
<1>2. PICK vs : call' = Updated(c, k, vs)
  BY DEF AwardCloseOthers
<1> HIDE DEF k
<1>3. call'[c] = k /\ \A d \in Calls \ {c} : Follows(d)
  BY <1>2, UpdatedFollows DEF IInv
<1>4. order.vendor = call[c].vendor /\ order.vendor # NoVendor
  BY <1>0, WorkOrdersAssumption DEF AwardsInv, Recording
<1>5. \A v \in Vendors : app'[v] = "awarded" => app[v] = "awarded"
  BY DEF AwardCloseOthers
<1>6. \A d \in Calls : Writes(call'[d])
  BY <1>1, <1>3 DEF AwardsInv, Writes, Follows, Reviews
<1>7. \A d \in Calls : Recording(call'[d]) => order.vendor = call'[d].vendor
  BY <1>1, <1>3, <1>4 DEF AwardsInv, Recording, Follows
<1>8. AwardsInv'
  BY <1>0, <1>5, <1>6, <1>7 DEF AwardsInv, Writes, Recording
<1>9. ASSUME Agreeing PROVE AgreeInv'
  <2>1. Recording(call'[c]) /\ call'[c].step # "reopened" /\ ~UnderReview(call'[c])
    BY <1>1, <1>3 DEF Recording, UnderReview
  <2>2. \A d \in Calls : call'[d].step = "reopened" => call'[d].stale
    BY <1>3, <1>4, <2>1, TakenMakesStale DEF Follows
  <2>3. \A d \in Calls : ~UnderReview(call'[d])
    BY <1>0, <1>3, <1>9, <2>1, NoOtherReview
  <2> QED
    BY <1>9, <2>1, <2>2, <2>3 DEF AgreeInv, Agreeing, UnderReview, InTurn, NoReviews, Used,
       Recording
<1> QED
  BY <1>8, <1>9

LEMMA AwardRecordAwards ==
  ASSUME IInv, AwardsInv, NEW c \in Calls, AwardRecord(c)
  PROVE  AwardsInv' /\ (Agreeing => AgreeInv')
<1>0. /\ call[c].vendor \in Vendors /\ call[c].op = "award" /\ call[c].step = "closed"
      /\ order' = order /\ app \in [Vendors -> ApplicationStatus]
  BY DEF IInv, TypeOK, Held, Carries, AwardRecord, At
<1>1. call'[c] = Idle /\ \A d \in Calls \ {c} : Follows(d)
  BY UpdatedFollows DEF AwardRecord, IInv
<1>2. order.vendor = call[c].vendor /\ order.vendor # NoVendor
  BY <1>0, WorkOrdersAssumption DEF AwardsInv, Recording
<1>3. /\ app'[order.vendor] = "awarded"
      /\ \A v \in Vendors : app'[v] = "awarded" => v = order.vendor \/ app[v] = "awarded"
  BY <1>0, <1>2 DEF AwardRecord
<1>4. \A d \in Calls : Writes(call'[d])
  BY <1>1 DEF AwardsInv, Writes, Follows, Idle, Reviews
<1>5. \A d \in Calls : Recording(call'[d]) => order.vendor = call'[d].vendor
  BY <1>1 DEF AwardsInv, Recording, Follows, Idle
<1>6. AwardsInv'
  BY <1>0, <1>3, <1>4, <1>5 DEF AwardsInv, Writes, Recording
<1>7. ASSUME Agreeing PROVE AgreeInv'
  <2>1. \A d \in Calls : call'[d].step = "reopened" => call'[d].stale
    BY <1>1, <1>2, TakenMakesStale DEF Follows, Idle
  <2>2. \A d \in Calls : ~UnderReview(call'[d])
    BY <1>0, <1>1, <1>7, NoOtherReview DEF UnderReview, Idle
  <2> QED
    BY <1>0, <1>3, <1>7, <2>1, <2>2 DEF AgreeInv, Agreeing, UnderReview, InTurn, NoReviews, Used
<1> QED
  BY <1>6, <1>7

LEMMA ContractCommitAwards ==
  ASSUME IInv, AwardsInv, NEW c \in Calls, ContractCommit(c),
         ~call[c].stale, contract.status = "none"
  PROVE  AwardsInv' /\ (Agreeing => AgreeInv')
<1>0. /\ call[c].vendor \in Vendors /\ call[c].op = "contractAward"
      /\ call[c].step \in {"open", "reopened"} /\ call[c].seen # "awarded"
      /\ order \in WorkOrder /\ call' = Saved(c, Idle)
  BY DEF IInv, TypeOK, Held, Carries, ContractCommit, AwardsInv, Writes
<1>1. call'[c] = Idle /\ \A d \in Calls \ {c} : Follows(d) /\ call'[d].step = call[d].step
  BY <1>0, SavedFollows DEF IInv
<1>2. order.status = "open"
  BY <1>0 DEF IInv, Held, Holds, Holding
<1>3. order.vendor = NoVendor
  BY <1>2 DEF IInv, WorkHasWorker
<1>4. (\A v \in Vendors : app[v] # "awarded") /\ \A d \in Calls : ~Recording(call[d])
  BY <1>3, OpenHasNoAward
<1>5. order'.vendor = call[c].vendor
  BY <1>0 DEF ContractCommit, WorkOrder
<1>6. /\ \A v \in Vendors : app'[v] = "awarded" => v = call[c].vendor
      /\ call[c].step = "open" => app'[call[c].vendor] = "awarded"
  BY <1>0, <1>4 DEF ContractCommit
<1>7. \A d \in Calls : Writes(call'[d])
  BY <1>1 DEF AwardsInv, Writes, Follows, Idle, Reviews
<1>8. \A d \in Calls : ~Recording(call'[d])
  BY <1>1, <1>4 DEF Recording, Follows, Idle
<1>9. AwardsInv'
  BY <1>5, <1>6, <1>7, <1>8 DEF AwardsInv, Writes, Recording
<1>10. ASSUME Agreeing PROVE AgreeInv'
  <2>0. call[c].step = "open"
    BY <1>0, <1>10 DEF Agreeing, AgreeInv
  <2>1. app'[order'.vendor] = "awarded"
    BY <1>5, <1>6, <2>0
  <2>2. \A d \in Calls : call'[d].step = "reopened" => call'[d].stale
    <3>1. call'[c].step # "reopened"
      BY <1>1 DEF Idle
    <3>2. \A d \in Calls \ {c} : call[d].step = "reopened" => call[d].stale
      BY <1>10 DEF Agreeing, AgreeInv
    <3> QED
      BY <1>1, <3>1, <3>2 DEF Follows
  <2>3. \A d \in Calls : ~UnderReview(call'[d])
    <3>1. ~UnderReview(call'[c])
      BY <1>1 DEF UnderReview, Idle
    <3>2. \A d \in Calls \ {c} : ~UnderReview(call'[d])
      BY <1>0, <1>1, <1>10, NoOtherReview
    <3> QED
      BY <3>1, <3>2
  <2> QED
    BY <1>10, <2>1, <2>2, <2>3 DEF AgreeInv, Agreeing, UnderReview, InTurn, NoReviews, Used
<1> QED
  BY <1>9, <1>10

-----------------------------------------------------------------------------
\* Every step of a handler keeps both invariants.
LEMMA HandleAwards ==
  ASSUME IInv, AwardsInv, NEW c \in Calls, Handle(c), call'[c].op # "vendorReject"
  PROVE  AwardsInv' /\ (Agreeing => AgreeInv')
<1>1. CASE QuietFor(c)
  BY <1>1, QuietAwards, QuietAgrees DEF Agreeing
<1>2. CASE ManagerRequest(c) \/ \E v \in Vendors : VendorRequest(c, v)
  BY <1>1, <1>2, RequestQuiet
<1>3. CASE Continue(c)
  <2>1. CASE UpdateApplication(c) \/ AwardCloseOthers(c) \/ AwardRecord(c)
    BY <2>1, UpdateApplicationAwards, AwardCloseOthersAwards, AwardRecordAwards
  <2>2. CASE AwardSave(c) /\ ~call[c].stale
    BY <2>2, AwardSaveAwards
  <2>3. CASE ContractCommit(c) /\ ~call[c].stale /\ contract.status = "none"
    BY <2>3, ContractCommitAwards
  <2>4. CASE \/ Save(c) \/ ApplyCreate(c) \/ AwardReadOrder(c) \/ ContractBegin(c)
             \/ UpdateContract(c) \/ InvoiceExists(c) \/ InvoiceCreate(c)
             \/ AwardSave(c) /\ call[c].stale
             \/ ContractCommit(c) /\ (call[c].stale \/ contract.status # "none")
    BY <1>1, <2>4, ContinueQuiet
  <2> QED
    BY <1>3, <2>1, <2>2, <2>3, <2>4 DEF Continue
<1> QED
  BY <1>2, <1>3 DEF Handle

LEMMA CreateAwards ==
  ASSUME IInv, AwardsInv, Create
  PROVE  AwardsInv' /\ (Agreeing => AgreeInv')
<1>1. order'.vendor = order.vendor /\ app' = app /\ call' = call
  BY DEF Create, IInv, TypeOK, WorkOrder
<1>2. AwardsInv'
  BY <1>1 DEF AwardsInv, Writes, Recording
<1>3. ASSUME Agreeing PROVE AgreeInv'
  BY <1>1, <1>3 DEF Agreeing, AgreeInv, Recording, UnderReview, InTurn, NoReviews, Used
<1> QED
  BY <1>2, <1>3

\* At most one call in flight.
LEMMA OneInFlight ==
  ASSUME NEW calls, Cardinality({c \in Calls : calls[c].step # "idle"}) <= 1
  PROVE  \A c, d \in Calls : calls[c].step # "idle" /\ calls[d].step # "idle" => c = d
<1> SUFFICES ASSUME NEW c \in Calls, NEW d \in Calls, c # d,
                    calls[c].step # "idle", calls[d].step # "idle"
             PROVE  FALSE
  OBVIOUS
<1> DEFINE B == {b \in Calls : calls[b].step # "idle"}
<1>1. IsFiniteSet(B)
  BY CallsAssumption, FS_Subset
<1>2. /\ IsFiniteSet(B \ {c}) /\ Cardinality(B \ {c}) = Cardinality(B) - 1
      /\ Cardinality(B) \in Nat
  BY <1>1, FS_RemoveElement, FS_CardinalityType
<1>3. d \in B \ {c}
  OBVIOUS
<1>4. Cardinality(B \ {c}) # 0
  BY <1>2, <1>3, FS_EmptySet
<1> QED
  BY <1>2, <1>4, FS_CardinalityType

LEMMA AwardsInit == MCInit => MCInv
<1> SUFFICES ASSUME MCInit PROVE MCInv
  OBVIOUS
<1>1. IInv /\ Init
  BY OrderInit DEF MCInit
<1>2. /\ \A c \in Calls : call[c] = Idle
      /\ \A v \in Vendors : app[v] = "none"
      /\ order.vendor = NoVendor
  BY <1>1 DEF Init
<1>3. AwardsInv
  BY <1>2 DEF AwardsInv, Recording, Writes, Idle, Reviews
<1>4. AgreeInv
  BY <1>2 DEF AgreeInv, Alone, UnderReview, Idle, Reviews
<1> QED
  BY <1>1, <1>3, <1>4 DEF MCInv

LEMMA AwardsStep == MCInv /\ [MCNext]_<<vars, workload>> => MCInv'
<1> SUFFICES ASSUME MCInv, [MCNext]_<<vars, workload>> PROVE MCInv'
  OBVIOUS
<1>1. CASE UNCHANGED <<vars, workload>>
  <2>1. IInv'
    BY <1>1, OrderStep DEF MCInv
  <2>2. AwardsInv => AwardsInv'
    BY <1>1 DEF vars, AwardsInv, Writes, Recording
  <2>3. AgreeInv => AgreeInv'
    BY <1>1 DEF vars, AgreeInv, Recording, UnderReview, Alone, InTurn, NoReviews, Used
  <2> QED
    BY <1>1, <2>1, <2>2, <2>3 DEF MCInv, Undisturbed, InTurn, NoReviews, Used
<1>2. CASE MCNext
  <2>1. UNCHANGED workload /\ \A c \in Calls : call'[c].op \in Used \cup {"none"}
    BY <1>2 DEF MCNext
  <2>2. IInv'
    <3>1. Next
      BY <1>2 DEF MCNext, Next
    <3> QED
      BY <3>1, OrderStep DEF MCInv
  <2>3. ASSUME Undisturbed
        PROVE  AwardsInv' /\ (InTurn \/ NoReviews => AgreeInv')
    <3>1. Create \/ \E c \in Calls : Handle(c)
      BY <1>2, <2>3 DEF MCNext, Undisturbed
    <3>2. \A c \in Calls : call'[c].op # "vendorReject"
      BY <2>1, <2>3 DEF Undisturbed
    <3>3. AwardsInv' /\ (Agreeing => AgreeInv')
      BY <2>3, <3>1, <3>2, HandleAwards, CreateAwards DEF MCInv
    <3>4. ASSUME InTurn \/ NoReviews
          PROVE  Agreeing
      <4>1. AgreeInv
        BY <2>3, <3>4 DEF MCInv
      <4>2. NoReviews => \A c \in Calls : call'[c].op \notin Reviews
        BY <2>1 DEF NoReviews, Reviews
      <4>3. InTurn => Alone'
        <5>1. InTurn => Cardinality({c \in Calls : call'[c].step # "idle"}) <= 1
          BY <1>2 DEF MCNext, InTurn
        <5>2. Cardinality({c \in Calls : call'[c].step # "idle"}) <= 1 => Alone'
          BY OneInFlight DEF Alone
        <5> QED
          BY <5>1, <5>2
      <4> QED
        BY <2>1, <3>4, <4>1, <4>2, <4>3 DEF Agreeing
    <3> QED
      BY <3>3, <3>4
  <2> QED
    BY <2>1, <2>2, <2>3 DEF MCInv, Undisturbed, InTurn, NoReviews, Used
<1> QED
  BY <1>1, <1>2

\* For any number of vendors and requests: one application is awarded at most,
\* also while reviews and withdrawals overlap awards by both routes; and when
\* nothing is in flight it is that of the vendor the order is assigned to, unless
\* reviews overlapped (vendor-application.service.ts, contract-award.service.ts).
THEOREM OrderAwardsAgree == MCSpec => []AwardsAgree
<1>1. MCInv => AwardsAgree
  <2> SUFFICES ASSUME MCInv, Undisturbed
               PROVE  OneAwarded /\ (InTurn \/ NoReviews => AssignedIsAwarded)
    BY DEF AwardsAgree
  <2>1. OneAwarded
    BY DEF MCInv, AwardsInv, OneAwarded
  <2>2. ASSUME InTurn \/ NoReviews, \A c \in Calls : call[c].step = "idle",
               NEW v \in Vendors, order.vendor # NoVendor
        PROVE  app[v] = "awarded" <=> order.vendor = v
    <3>1. app[order.vendor] = "awarded"
      BY <2>2 DEF MCInv, AgreeInv, Recording
    <3> QED
      BY <3>1 DEF MCInv, AwardsInv
  <2> QED
    BY <2>1, <2>2 DEF AssignedIsAwarded
<1> QED
  BY <1>1, AwardsInit, AwardsStep, PTL DEF MCSpec

=============================================================================
