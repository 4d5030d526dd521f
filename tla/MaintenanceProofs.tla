------------------------- MODULE MaintenanceProofs -------------------------
(***************************************************************************)
(* Proofs about service requests and preventive maintenance, for every set *)
(* of uploads and handlers, every recurrence and every bound.              *)
(***************************************************************************)
EXTENDS MCMaintenance, TLAPS

-----------------------------------------------------------------------------
(***************************************************************************)
(* Service requests.  The version a handler read is not ahead of the       *)
(* document's, and while the two are equal so are the attachments: the     *)
(* save that is matched against the version loses none.                    *)
(***************************************************************************)
Reading(h) == handler[h].step = "read"

RequestInv ==
  /\ SR!TypeOK
  /\ request.status = "none" => attached = {}
  /\ \A h \in Handlers : Reading(h) =>
       /\ request.status # "none"
       /\ handler[h].seen.version <= request.version
       /\ handler[h].seen.version = request.version =>
            handler[h].seen.uploads = request.uploads
       /\ handler[h].op = "update" => handler[h].seen.edits < MaxEdits
  /\ SR!AttachmentsKept

\* Handled one at a time: what a handler checked still holds when it saves, a
\* request that awaits its decision has none, and the one a manager creates is
\* approved without an event until its work order is linked.
DecisionInv ==
  /\ \A g, h \in SR!InFlight : g = h
  /\ \A h \in Handlers : Reading(h) =>
       /\ handler[h].op \in {"update", "approve", "reject"} => request.status = "pending"
       /\ handler[h].op = "rate" =>
            ~request.rated /\ (request.linked => converted = "completed")
  /\ \A h \in Handlers : handler[h].op = "create" =>
       /\ handler[h].step \in {"order", "link"}
       /\ request.status = "approved" /\ ~request.rated
       /\ facts["ServiceRequestApproved"] = 0
  /\ request.status # "rejected" => facts["ServiceRequestRejected"] = 0
  /\ request.status # "approved" => facts["ServiceRequestApproved"] = 0
  /\ request.status \in {"none", "pending"} => decidedOn = {}
  /\ ~request.rated => facts["ServiceRequestRated"] = 0
  /\ request.status = "none" => ~request.rated
  /\ SR!OneDecision

RequestsInTurn == workload = "requests in turn" => DecisionInv

-----------------------------------------------------------------------------
\* What an action does to its handler: it moves on, or has answered.
Only(h) ==
  /\ handler' \in [Handlers -> SR!Handler]
  /\ \A g \in Handlers \ {h} : handler'[g] = handler[g]

Answered(h) == Only(h) /\ handler'[h].op = "none" /\ handler'[h].step = "idle"

LEMMA AnswerEnds ==
  ASSUME SR!TypeOK, NEW h \in Handlers, SR!Answer(h)
  PROVE  Answered(h)
<1>1. SR!Rest \in SR!Handler /\ SR!Rest.op = "none" /\ SR!Rest.step = "idle"
  BY MaintenanceAssumption
     DEF SR!Rest, SR!Handler, SR!NoRequest, SR!Request, SR!RequestStatus, SR!HandlerOps
<1>2. handler \in [Handlers -> SR!Handler] /\ handler' = [handler EXCEPT ![h] = SR!Rest]
  BY DEF SR!TypeOK, SR!Answer
<1>. QED BY <1>1, <1>2 DEF Answered, Only

LEMMA GoMoves ==
  ASSUME SR!TypeOK, NEW h \in Handlers, NEW s \in {"link", "history"}, SR!Go(h, s)
  PROVE  /\ Only(h) /\ handler'[h].op = handler[h].op /\ handler'[h].step = s
<1>. DEFINE k == [handler[h] EXCEPT !.step = s]
<1>1. handler \in [Handlers -> SR!Handler] /\ handler[h] \in SR!Handler
  BY DEF SR!TypeOK
<1>2. k \in SR!Handler /\ k.op = handler[h].op /\ k.step = s
  BY <1>1 DEF SR!Handler
<1>3. handler' = [handler EXCEPT ![h] = k]
  BY <1>1 DEF SR!Go
<1>. HIDE DEF k
<1>. QED BY <1>1, <1>2, <1>3 DEF Only

LEMMA ReadTakes ==
  ASSUME SR!TypeOK, NEW h \in Handlers, NEW op \in SR!HandlerOps, NEW u \in SUBSET Uploads,
         SR!Read(h, op, u)
  PROVE  /\ Only(h) /\ handler'[h].op = op /\ handler'[h].step = "read"
         /\ handler'[h].seen = request
<1>. DEFINE k == [op |-> op, step |-> "read", upload |-> u, seen |-> request]
<1>1. handler \in [Handlers -> SR!Handler] /\ request \in SR!Request
  BY DEF SR!TypeOK
<1>2. k \in SR!Handler /\ k.op = op /\ k.step = "read" /\ k.seen = request
  BY <1>1 DEF SR!Handler
<1>3. handler' = [handler EXCEPT ![h] = k]
  BY DEF SR!Read
<1>. HIDE DEF k
<1>. QED BY <1>1, <1>2, <1>3 DEF Only

\* A request that is created has nothing but what the client sent.
Created(s, u) ==
  /\ request' \in SR!Request
  /\ request'.status = s /\ request'.edits = 0 /\ request'.uploads = u
  /\ ~request'.linked /\ ~request'.rated /\ request'.version = 0

LEMMA CreatePendingEffect ==
  ASSUME SR!TypeOK, NEW h \in Handlers, NEW asset \in BOOLEAN, NEW u \in SUBSET Uploads,
         SR!CreatePending(h, asset, u)
  PROVE  Created("pending", u)
<1>. DEFINE r == [SR!NoRequest EXCEPT !.status = "pending", !.asset = asset, !.uploads = u]
<1>1. SR!NoRequest \in SR!Request
  BY MaintenanceAssumption DEF SR!NoRequest, SR!Request, SR!RequestStatus
<1>2. /\ r \in SR!Request /\ r.status = "pending" /\ r.edits = 0 /\ r.uploads = u
      /\ ~r.linked /\ ~r.rated /\ r.version = 0
  BY <1>1 DEF SR!NoRequest, SR!Request, SR!RequestStatus
<1>3. request' = r
  BY DEF SR!CreatePending
<1>. HIDE DEF r
<1>. QED BY <1>2, <1>3 DEF Created

LEMMA CreateApprovedEffect ==
  ASSUME SR!TypeOK, NEW h \in Handlers, NEW asset \in BOOLEAN, NEW u \in SUBSET Uploads,
         SR!CreateApproved(h, asset, u)
  PROVE  /\ Created("approved", u)
         /\ Only(h) /\ handler'[h].op = "create" /\ handler'[h].step = "order"
<1>. DEFINE r == [SR!NoRequest EXCEPT !.status = "approved", !.asset = asset, !.uploads = u]
<1>1. SR!NoRequest \in SR!Request
  BY MaintenanceAssumption DEF SR!NoRequest, SR!Request, SR!RequestStatus
<1>2. /\ r \in SR!Request /\ r.status = "approved" /\ r.edits = 0 /\ r.uploads = u
      /\ ~r.linked /\ ~r.rated /\ r.version = 0
  BY <1>1 DEF SR!NoRequest, SR!Request, SR!RequestStatus
<1>3. request' = r
  BY DEF SR!CreateApproved
<1>. HIDE DEF r
<1>. DEFINE k == [op |-> "create", step |-> "order", upload |-> {}, seen |-> request']
<1>4. handler \in [Handlers -> SR!Handler]
  BY DEF SR!TypeOK
<1>5. k \in SR!Handler /\ k.op = "create" /\ k.step = "order"
  BY <1>2, <1>3 DEF SR!Handler, SR!HandlerOps
<1>6. handler' = [handler EXCEPT ![h] = k]
  BY DEF SR!CreateApproved
<1>. HIDE DEF k
<1>7. Only(h) /\ handler'[h].op = "create" /\ handler'[h].step = "order"
  BY <1>4, <1>5, <1>6 DEF Only
<1>. QED BY <1>2, <1>3, <1>7 DEF Created

\* What a save leaves of the document: the paths it did not modify.
Status == request.status
Edits == request.edits
Linked == request.linked
Rated == request.rated
Files == <<request.uploads, request.version>>

LEMMA SavesLink ==
  ASSUME SR!TypeOK, request' = [request EXCEPT !.linked = TRUE]
  PROVE  /\ request' \in SR!Request /\ request'.linked
         /\ UNCHANGED <<Status, Edits, Rated, Files>>
BY DEF SR!TypeOK, SR!Request, Status, Edits, Rated, Files

LEMMA SavesRejection ==
  ASSUME SR!TypeOK, request' = [request EXCEPT !.status = "rejected"]
  PROVE  /\ request' \in SR!Request /\ request'.status = "rejected"
         /\ UNCHANGED <<Edits, Linked, Rated, Files>>
BY DEF SR!TypeOK, SR!Request, SR!RequestStatus, Edits, Linked, Rated, Files

LEMMA SavesRating ==
  ASSUME SR!TypeOK, request' = [request EXCEPT !.rated = TRUE]
  PROVE  /\ request' \in SR!Request /\ request'.rated
         /\ UNCHANGED <<Status, Edits, Linked, Files>>
BY DEF SR!TypeOK, SR!Request, Status, Edits, Linked, Files

LEMMA SavesEdits ==
  ASSUME SR!TypeOK, NEW e \in 0..MaxEdits, request' = [request EXCEPT !.edits = e]
  PROVE  /\ request' \in SR!Request /\ request'.edits = e
         /\ UNCHANGED <<Status, Linked, Rated, Files>>
BY DEF SR!TypeOK, SR!Request, Status, Linked, Rated, Files

LEMMA SavesFiles ==
  ASSUME SR!TypeOK, NEW u \in SUBSET Uploads,
         request' = [request EXCEPT !.uploads = u, !.version = @ + 1]
  PROVE  /\ request' \in SR!Request
         /\ request'.uploads = u /\ request'.version = request.version + 1
         /\ UNCHANGED <<Status, Edits, Linked, Rated>>
<1>. DEFINE v == request.version + 1
<1>1. request \in SR!Request /\ v \in Nat
  BY DEF SR!TypeOK, SR!Request
<1>2. request' = [request EXCEPT !.uploads = u, !.version = v]
  OBVIOUS
<1>. HIDE DEF v
<1>3. /\ request' \in SR!Request /\ request'.uploads = u /\ request'.version = v
      /\ UNCHANGED <<Status, Edits, Linked, Rated>>
  BY <1>1, <1>2 DEF SR!Request, Status, Edits, Linked, Rated
<1>. QED BY <1>3 DEF v

LEMMA AppendCounts ==
  ASSUME SR!TypeOK, NEW f \in SR!Facts, SR!Append(f)
  PROVE  /\ facts' \in [SR!Facts -> Nat] /\ facts'[f] = facts[f] + 1
         /\ \A g \in SR!Facts \ {f} : facts'[g] = facts[g]
BY DEF SR!TypeOK, SR!Append

\* A handler that is not about to save, and leaves the files alone, disturbs no
\* other handler's reading.
LEMMA ReadersStay ==
  ASSUME RequestInv, SR!TypeOK', NEW h \in Handlers, Only(h), handler'[h].step # "read",
         request'.status = request.status \/ request'.status # "none",
         UNCHANGED <<Files, attached>>
  PROVE  RequestInv'
BY DEF RequestInv, Only, Reading, Files, SR!AttachmentsKept

-----------------------------------------------------------------------------
\* One step, alone or not.
InTurn == \A g, h \in SR!InFlight : g = h
Kept == RequestInv' /\ (DecisionInv /\ InTurn' => DecisionInv')

LEMMA FailKeeps ==
  ASSUME RequestInv, NEW h \in Handlers,
         SR!Answer(h), UNCHANGED <<request, converted, facts, attached, decidedOn>>
  PROVE  Kept
<1>1. SR!TypeOK /\ Answered(h)
  BY AnswerEnds DEF RequestInv
<1>2. SR!TypeOK'
  BY <1>1 DEF SR!TypeOK, Answered, Only
<1>3. RequestInv'
  BY <1>1, <1>2, ReadersStay DEF Answered, Files
<1>4. ASSUME DecisionInv, InTurn'
      PROVE  DecisionInv'
  BY <1>1, <1>4 DEF DecisionInv, InTurn, Answered, Only, Reading, SR!OneDecision
<1>. QED BY <1>3, <1>4 DEF Kept

LEMMA CreatePendingKeeps ==
  ASSUME RequestInv, NEW h \in Handlers, NEW asset \in BOOLEAN, NEW u \in SUBSET Uploads,
         SR!CreatePending(h, asset, u)
  PROVE  Kept
<1>1. /\ SR!TypeOK /\ Created("pending", u) /\ request.status = "none" /\ attached = {}
      /\ UNCHANGED <<converted, handler, attached, decidedOn>>
  BY CreatePendingEffect DEF RequestInv, SR!CreatePending
<1>2. /\ facts' \in [SR!Facts -> Nat]
      /\ \A g \in SR!Facts \ {"ServiceRequestCreated"} : facts'[g] = facts[g]
  BY <1>1, AppendCounts DEF SR!CreatePending, SR!Facts
<1>3. SR!TypeOK'
  BY <1>1, <1>2 DEF SR!TypeOK, Created
<1>4. RequestInv'
  BY <1>1, <1>3 DEF RequestInv, Reading, Created, SR!AttachmentsKept
<1>5. ASSUME DecisionInv, InTurn'
      PROVE  DecisionInv'
  <2>1. /\ \A h1 \in Handlers : ~Reading(h1) /\ handler[h1].op # "create"
        /\ facts["ServiceRequestRejected"] = 0 /\ facts["ServiceRequestApproved"] = 0
        /\ facts["ServiceRequestRated"] = 0 /\ decidedOn = {}
    BY <1>1, <1>5 DEF DecisionInv, RequestInv, Reading
  <2>2. /\ facts'["ServiceRequestRejected"] = 0 /\ facts'["ServiceRequestApproved"] = 0
        /\ facts'["ServiceRequestRated"] = 0
    BY <1>2, <2>1 DEF SR!Facts
  <2>. QED BY <1>1, <1>5, <2>1, <2>2 DEF DecisionInv, InTurn, Created, Reading, SR!OneDecision
<1>. QED BY <1>4, <1>5 DEF Kept

LEMMA CreateApprovedKeeps ==
  ASSUME RequestInv, NEW h \in Handlers, NEW asset \in BOOLEAN, NEW u \in SUBSET Uploads,
         SR!CreateApproved(h, asset, u)
  PROVE  Kept
<1>1. /\ SR!TypeOK /\ Created("approved", u) /\ request.status = "none" /\ attached = {}
      /\ Only(h) /\ handler'[h].op = "create" /\ handler'[h].step = "order"
      /\ UNCHANGED <<converted, facts, attached>> /\ decidedOn' = {0}
  BY CreateApprovedEffect DEF RequestInv, SR!CreateApproved
<1>2. SR!TypeOK'
  BY <1>1, MaintenanceAssumption DEF SR!TypeOK, Created, Only
<1>3. RequestInv'
  BY <1>1, <1>2 DEF RequestInv, Reading, Created, Only, SR!AttachmentsKept
<1>4. ASSUME DecisionInv, InTurn'
      PROVE  DecisionInv'
  <2>1. /\ \A g \in Handlers : ~Reading(g) /\ handler[g].op # "create"
        /\ facts["ServiceRequestRejected"] = 0 /\ facts["ServiceRequestApproved"] = 0
        /\ facts["ServiceRequestRated"] = 0
    BY <1>1, <1>4 DEF DecisionInv, RequestInv, Reading
  <2>. QED BY <1>1, <1>4, <2>1 DEF DecisionInv, InTurn, Created, Only, Reading, SR!OneDecision
<1>. QED BY <1>3, <1>4 DEF Kept

LEMMA ReadKeeps ==
  ASSUME RequestInv, NEW h \in Handlers, NEW op \in SR!HandlerOps \ {"create"},
         NEW u \in SUBSET Uploads, SR!Read(h, op, u), op = "update" => request.edits < MaxEdits
  PROVE  Kept
<1>1. /\ SR!TypeOK /\ Only(h) /\ handler'[h].op = op /\ handler'[h].step = "read"
      /\ handler'[h].seen = request /\ SR!Admits(op)
      /\ UNCHANGED <<request, converted, facts, attached, decidedOn>>
  BY ReadTakes DEF RequestInv, SR!Read
<1>2. SR!TypeOK' /\ request.version \in Nat
  BY <1>1 DEF SR!TypeOK, SR!Request, Only
<1>3. RequestInv'
  BY <1>1, <1>2 DEF RequestInv, Reading, Only, SR!AttachmentsKept, SR!Admits
<1>4. ASSUME DecisionInv, InTurn'
      PROVE  DecisionInv'
  BY <1>1, <1>4 DEF DecisionInv, InTurn, Only, Reading, SR!OneDecision, SR!Admits
<1>. QED BY <1>3, <1>4 DEF Kept

LEMMA CompleteKeeps ==
  ASSUME RequestInv, SR!CompleteWorkOrder
  PROVE  Kept
<1>1. RequestInv'
  BY DEF RequestInv, SR!CompleteWorkOrder, SR!TypeOK, Reading, SR!AttachmentsKept
<1>2. ASSUME DecisionInv
      PROVE  DecisionInv'
  BY <1>2 DEF DecisionInv, SR!CompleteWorkOrder, SR!InFlight, Reading, SR!OneDecision
<1>. QED BY <1>1, <1>2 DEF Kept

LEMMA CreateFromKeeps ==
  ASSUME RequestInv, NEW h \in Handlers, SR!createFromServiceRequest(h)
  PROVE  Kept
<1>1. /\ SR!TypeOK /\ Only(h) /\ handler[h].op = "create" /\ handler'[h].op = "create"
      /\ handler[h].step = "order" /\ handler'[h].step = "link"
      /\ UNCHANGED <<request, facts, attached, decidedOn>>
      /\ converted' \in {"none", "open", "completed"}
      /\ converted = "completed" => converted' = "completed"
  BY GoMoves DEF RequestInv, SR!createFromServiceRequest, SR!At, SR!TypeOK
<1>2. SR!TypeOK'
  BY <1>1 DEF SR!TypeOK, Only
<1>3. RequestInv'
  BY <1>1, <1>2, ReadersStay DEF Files
<1>4. ASSUME DecisionInv, InTurn'
      PROVE  DecisionInv'
  BY <1>1, <1>4 DEF DecisionInv, InTurn, Only, Reading, SR!OneDecision
<1>. QED BY <1>3, <1>4 DEF Kept

LEMMA LinkKeeps ==
  ASSUME RequestInv, NEW h \in Handlers, SR!LinkWorkOrder(h)
  PROVE  Kept
<1>1. /\ SR!TypeOK /\ Answered(h) /\ handler[h].op = "create" /\ handler[h].step = "link"
      /\ request' \in SR!Request /\ UNCHANGED <<Status, Edits, Rated, Files>>
      /\ UNCHANGED <<converted, attached, decidedOn>>
  BY AnswerEnds, SavesLink DEF RequestInv, SR!LinkWorkOrder, SR!At
<1>2. /\ facts' \in [SR!Facts -> Nat]
      /\ facts'["ServiceRequestApproved"] = facts["ServiceRequestApproved"] + 1
      /\ \A g \in SR!Facts \ {"ServiceRequestApproved"} : facts'[g] = facts[g]
  BY <1>1, AppendCounts DEF SR!LinkWorkOrder, SR!Facts
<1>3. SR!TypeOK'
  BY <1>1, <1>2 DEF SR!TypeOK, Answered, Only
<1>4. RequestInv'
  BY <1>1, <1>3, ReadersStay DEF Answered, Status
<1>5. ASSUME DecisionInv, InTurn'
      PROVE  DecisionInv'
  <2>1. /\ request.status = "approved" /\ ~request.rated
        /\ facts["ServiceRequestApproved"] = 0 /\ facts["ServiceRequestRejected"] = 0
    BY <1>1, <1>5 DEF DecisionInv
  <2>2. \A g \in Handlers : ~Reading(g)' /\ handler'[g].op # "create"
    BY <1>1, <1>5 DEF DecisionInv, SR!InFlight, Answered, Only, Reading
  <2>3. /\ facts'["ServiceRequestRejected"] = 0 /\ facts'["ServiceRequestApproved"] = 1
        /\ facts'["ServiceRequestRated"] = facts["ServiceRequestRated"]
    BY <1>2, <2>1 DEF SR!Facts
  <2>. QED BY <1>1, <1>5, <2>1, <2>2, <2>3
           DEF DecisionInv, InTurn, Status, Edits, Rated, SR!OneDecision
<1>. QED BY <1>4, <1>5 DEF Kept

LEMMA UpdateKeeps ==
  ASSUME RequestInv, NEW h \in Handlers, SR!update(h)
  PROVE  Kept
<1>. DEFINE e == handler[h].seen.edits + 1
<1>1. SR!TypeOK /\ Reading(h) /\ handler[h].op = "update" /\ handler[h].seen.edits < MaxEdits
  BY DEF RequestInv, SR!update, SR!At, Reading
<1>2. e \in 0..MaxEdits
  <2>1. handler[h].seen.edits \in 0..MaxEdits
    BY <1>1 DEF SR!TypeOK, SR!Handler, SR!Request
  <2>. QED BY <1>1, <2>1, MaintenanceAssumption
<1>3. request' = [request EXCEPT !.edits = e]
  BY DEF SR!update
<1>. HIDE DEF e
<1>4. /\ Answered(h) /\ request' \in SR!Request /\ UNCHANGED <<Status, Linked, Rated, Files>>
      /\ UNCHANGED <<converted, facts, attached, decidedOn>>
  BY <1>1, <1>2, <1>3, AnswerEnds, SavesEdits DEF SR!update
<1>5. SR!TypeOK'
  BY <1>1, <1>4 DEF SR!TypeOK, Answered, Only
<1>6. RequestInv'
  BY <1>4, <1>5, ReadersStay DEF Answered, Status
<1>7. ASSUME DecisionInv, InTurn'
      PROVE  DecisionInv'
  <2>1. request.status = "pending" /\ decidedOn = {}
    BY <1>1, <1>7 DEF DecisionInv
  <2>2. \A g \in Handlers : ~Reading(g)' /\ handler'[g].op # "create"
    BY <1>1, <1>4, <1>7, <2>1 DEF DecisionInv, SR!InFlight, Answered, Only, Reading
  <2>. QED BY <1>4, <1>7, <2>1, <2>2
           DEF DecisionInv, InTurn, Status, Linked, Rated, SR!OneDecision
<1>. QED BY <1>6, <1>7 DEF Kept

LEMMA RejectKeeps ==
  ASSUME RequestInv, NEW h \in Handlers, SR!reject(h)
  PROVE  Kept
<1>1. /\ SR!TypeOK /\ Reading(h) /\ handler[h].op = "reject"
      /\ request' \in SR!Request /\ request'.status = "rejected"
      /\ UNCHANGED <<Edits, Linked, Rated, Files>>
      /\ decidedOn' = decidedOn \cup {request.edits} /\ UNCHANGED <<converted, attached>>
  BY SavesRejection DEF RequestInv, SR!reject, SR!At, Reading
<1>2. Only(h) /\ handler'[h].op # "create" /\ handler'[h].step # "read"
  BY <1>1, AnswerEnds, GoMoves DEF SR!reject, Answered
<1>3. /\ facts' \in [SR!Facts -> Nat]
      /\ facts'["ServiceRequestRejected"] = facts["ServiceRequestRejected"] + 1
      /\ \A g \in SR!Facts \ {"ServiceRequestRejected"} : facts'[g] = facts[g]
  BY <1>1, AppendCounts DEF SR!reject, SR!Facts
<1>4. SR!TypeOK'
  <2>1. decidedOn' \in SUBSET (0..MaxEdits)
    BY <1>1 DEF SR!TypeOK, SR!Request
  <2>. QED BY <1>1, <1>2, <1>3, <2>1 DEF SR!TypeOK, Only
<1>5. RequestInv'
  BY <1>1, <1>2, <1>4, ReadersStay
<1>6. ASSUME DecisionInv, InTurn'
      PROVE  DecisionInv'
  <2>1. /\ request.status = "pending" /\ decidedOn = {}
        /\ facts["ServiceRequestApproved"] = 0 /\ facts["ServiceRequestRejected"] = 0
    BY <1>1, <1>6 DEF DecisionInv
  <2>2. \A g \in Handlers : ~Reading(g)' /\ handler'[g].op # "create"
    BY <1>1, <1>2, <1>6, <2>1 DEF DecisionInv, SR!InFlight, Only, Reading
  <2>3. /\ facts'["ServiceRequestRejected"] = 1 /\ facts'["ServiceRequestApproved"] = 0
        /\ facts'["ServiceRequestRated"] = facts["ServiceRequestRated"]
    BY <1>3, <2>1 DEF SR!Facts
  <2>. QED BY <1>1, <1>6, <2>1, <2>2, <2>3
           DEF DecisionInv, InTurn, Edits, Linked, Rated, SR!OneDecision
<1>. QED BY <1>5, <1>6 DEF Kept

LEMMA RateKeeps ==
  ASSUME RequestInv, NEW h \in Handlers, SR!rate(h)
  PROVE  Kept
<1>1. /\ SR!TypeOK /\ Reading(h) /\ handler[h].op = "rate" /\ Answered(h)
      /\ request' \in SR!Request /\ request'.rated
      /\ UNCHANGED <<Status, Edits, Linked, Files>>
      /\ UNCHANGED <<converted, attached, decidedOn>>
  BY AnswerEnds, SavesRating DEF RequestInv, SR!rate, SR!At, Reading
<1>2. /\ facts' \in [SR!Facts -> Nat]
      /\ facts'["ServiceRequestRated"] = facts["ServiceRequestRated"] + 1
      /\ \A g \in SR!Facts \ {"ServiceRequestRated"} : facts'[g] = facts[g]
  BY <1>1, AppendCounts DEF SR!rate, SR!Facts
<1>3. SR!TypeOK'
  BY <1>1, <1>2 DEF SR!TypeOK, Answered, Only
<1>4. RequestInv'
  BY <1>1, <1>3, ReadersStay DEF Answered, Status
<1>5. ASSUME DecisionInv, InTurn'
      PROVE  DecisionInv'
  <2>1. /\ request.status # "none" /\ facts["ServiceRequestRated"] = 0
        /\ request.linked => converted = "completed"
    BY <1>1, <1>5 DEF DecisionInv, RequestInv
  <2>2. \A g \in Handlers : ~Reading(g)' /\ handler'[g].op # "create"
    BY <1>1, <1>5 DEF DecisionInv, SR!InFlight, Answered, Only, Reading
  <2>3. /\ facts'["ServiceRequestRejected"] = facts["ServiceRequestRejected"]
        /\ facts'["ServiceRequestApproved"] = facts["ServiceRequestApproved"]
        /\ facts'["ServiceRequestRated"] = 1
    BY <1>2, <2>1 DEF SR!Facts
  <2>. QED BY <1>1, <1>5, <2>1, <2>2, <2>3
           DEF DecisionInv, InTurn, Status, Edits, Linked, SR!OneDecision
<1>. QED BY <1>4, <1>5 DEF Kept

LEMMA AttachKeeps ==
  ASSUME RequestInv, NEW h \in Handlers, SR!attach(h)
  PROVE  Kept
<1>1. /\ SR!TypeOK /\ Reading(h) /\ handler[h].op = "attach" /\ Answered(h)
      /\ UNCHANGED <<converted, facts, decidedOn>> /\ request.status # "none"
      /\ handler[h].seen.uploads \in SUBSET Uploads /\ handler[h].upload \in SUBSET Uploads
  BY AnswerEnds DEF RequestInv, SR!attach, SR!At, Reading, SR!TypeOK, SR!Handler, SR!Request
<1>2. CASE request.version = handler[h].seen.version
  <2>. DEFINE u == handler[h].seen.uploads \cup handler[h].upload
  <2>1. /\ u \in SUBSET Uploads /\ request.uploads \subseteq u
        /\ attached' = attached \cup handler[h].upload
        /\ request' = [request EXCEPT !.uploads = u, !.version = @ + 1]
        /\ handler[h].upload \subseteq u
    BY <1>1, <1>2 DEF SR!attach, RequestInv
  <2>. HIDE DEF u
  <2>2. /\ request' \in SR!Request
        /\ request'.uploads = u /\ request'.version = request.version + 1
        /\ UNCHANGED <<Status, Edits, Linked, Rated>>
    BY <1>1, <2>1, SavesFiles
  <2>3. SR!TypeOK'
    BY <1>1, <2>1, <2>2 DEF SR!TypeOK, Answered, Only
  <2>4. RequestInv'
    <3>1. request.version \in Nat
      BY <1>1 DEF SR!TypeOK, SR!Request
    <3>2. \A g \in Handlers : handler[g].seen.version \in Nat
      BY <1>1 DEF SR!TypeOK, SR!Handler, SR!Request
    <3>3. \A g \in Handlers : Reading(g)' => g # h /\ Reading(g) /\ handler'[g] = handler[g]
      BY <1>1 DEF Answered, Only, Reading
    <3>. QED BY <1>1, <2>1, <2>2, <2>3, <3>1, <3>2, <3>3
             DEF RequestInv, Status, SR!AttachmentsKept
  <2>5. ASSUME DecisionInv, InTurn'
        PROVE  DecisionInv'
    BY <1>1, <2>2, <2>5 DEF DecisionInv, InTurn, Answered, Only, Reading, Status, Edits, Linked,
                            Rated, SR!OneDecision
  <2>. QED BY <2>4, <2>5 DEF Kept
<1>3. CASE request.version # handler[h].seen.version
  <2>1. SR!Answer(h) /\ UNCHANGED <<request, converted, facts, attached, decidedOn>>
    BY <1>1, <1>3 DEF SR!attach
  <2>. QED BY <2>1, FailKeeps
<1>. QED BY <1>2, <1>3

LEMMA RequestStepKeeps ==
  ASSUME RequestInv, SR!Next
  PROVE  Kept
<1>1. CASE SR!CompleteWorkOrder
  BY <1>1, CompleteKeeps
<1>2. ASSUME NEW h \in Handlers, SR!Begin(h)
      PROVE  Kept
  <2>1. ASSUME NEW asset \in BOOLEAN, NEW u \in SUBSET Uploads,
               SR!CreatePending(h, asset, u) \/ SR!CreateApproved(h, asset, u)
        PROVE  Kept
    BY <2>1, CreatePendingKeeps, CreateApprovedKeeps
  <2>2. ASSUME NEW op \in {"approve", "reject", "rate"}, SR!Read(h, op, {})
        PROVE  Kept
    <3>1. op \in SR!HandlerOps \ {"create"} /\ op # "update" /\ {} \in SUBSET Uploads
      BY DEF SR!HandlerOps
    <3>. QED BY <2>2, <3>1, ReadKeeps
  <2>3. CASE request.edits < MaxEdits /\ SR!Read(h, "update", {})
    <3>1. "update" \in SR!HandlerOps \ {"create"} /\ {} \in SUBSET Uploads
      BY DEF SR!HandlerOps
    <3>. QED BY <2>3, <3>1, ReadKeeps
  <2>4. ASSUME NEW u \in Uploads, SR!Read(h, "attach", {u})
        PROVE  Kept
    <3>1. "attach" \in SR!HandlerOps \ {"create"} /\ {u} \in SUBSET Uploads
      BY DEF SR!HandlerOps
    <3>. QED BY <2>4, <3>1, ReadKeeps
  <2>. QED BY <1>2, <2>1, <2>2, <2>3, <2>4 DEF SR!Begin
<1>3. ASSUME NEW h \in Handlers, SR!Continue(h)
      PROVE  Kept
  <2>1. CASE SR!approve(h) \/ SR!AssetHistoryRefused(h)
    BY <2>1, FailKeeps DEF SR!approve, SR!AssetHistoryRefused
  <2>. QED BY <1>3, <2>1, CreateFromKeeps, LinkKeeps, UpdateKeeps, RejectKeeps, RateKeeps,
              AttachKeeps DEF SR!Continue
<1>4. ASSUME NEW h \in Handlers, SR!Fail(h)
      PROVE  Kept
  BY <1>4, FailKeeps DEF SR!Fail
<1>. QED BY <1>1, <1>2, <1>3, <1>4 DEF SR!Next

LEMMA RequestsHold == Spec => [](RequestInv /\ RequestsInTurn)
<1>1. Init => RequestInv /\ RequestsInTurn
  <2>. SUFFICES ASSUME Init PROVE RequestInv /\ RequestsInTurn
    OBVIOUS
  <2>1. SR!Rest \in SR!Handler /\ SR!Rest.op = "none" /\ SR!Rest.step = "idle"
    BY MaintenanceAssumption
       DEF SR!Rest, SR!Handler, SR!NoRequest, SR!Request, SR!RequestStatus, SR!HandlerOps
  <2>2. SR!NoRequest \in SR!Request
    BY MaintenanceAssumption DEF SR!NoRequest, SR!Request, SR!RequestStatus
  <2>3. /\ request = SR!NoRequest /\ converted = "none" /\ facts = [f \in SR!Facts |-> 0]
        /\ attached = {} /\ decidedOn = {} /\ handler = [h \in Handlers |-> SR!Rest]
    BY DEF Init, SR!Init
  <2>4. \A h \in Handlers : handler[h].op = "none" /\ handler[h].step = "idle"
    BY <2>1, <2>3
  <2>5. SR!TypeOK
    BY <2>1, <2>2, <2>3 DEF SR!TypeOK
  <2>6. RequestInv
    BY <2>3, <2>4, <2>5 DEF RequestInv, Reading, SR!AttachmentsKept
  <2>7. request.status = "none" /\ ~request.rated
    BY <2>3 DEF SR!NoRequest
  <2>8. /\ facts["ServiceRequestRejected"] = 0 /\ facts["ServiceRequestApproved"] = 0
        /\ facts["ServiceRequestRated"] = 0
    BY <2>3 DEF SR!Facts
  <2>9. DecisionInv
    BY <2>3, <2>4, <2>7, <2>8 DEF DecisionInv, Reading, SR!InFlight, SR!OneDecision
  <2>. QED BY <2>6, <2>9 DEF RequestsInTurn
<1>2. RequestInv /\ RequestsInTurn /\ [Next]_all => (RequestInv /\ RequestsInTurn)'
  <2>. SUFFICES ASSUME RequestInv, RequestsInTurn, [Next]_all
                PROVE  (RequestInv /\ RequestsInTurn)'
    OBVIOUS
  <2>1. CASE RequestStep
    <3>1. /\ SR!Next /\ UNCHANGED workload
          /\ workload = "requests in turn" => InTurn'
      BY <2>1 DEF RequestStep, InTurn
    <3>2. Kept
      BY <3>1, RequestStepKeeps
    <3>. QED BY <3>1, <3>2 DEF Kept, RequestsInTurn
  <2>2. CASE PlanStep \/ UNCHANGED all
    <3>1. UNCHANGED <<request, converted, facts, handler, attached, decidedOn, workload>>
      BY <2>2 DEF PlanStep, all, requestVars
    <3>2. RequestInv'
      BY <3>1 DEF RequestInv, SR!TypeOK, Reading, SR!AttachmentsKept
    <3>3. RequestsInTurn'
      BY <3>1 DEF RequestsInTurn, DecisionInv, SR!InFlight, Reading, SR!OneDecision
    <3>. QED BY <3>2, <3>3
  <2>. QED BY <2>1, <2>2 DEF Next
<1>. QED BY <1>1, <1>2, PTL DEF Spec

\* No attachment the client got a 201 for is lost, however additions, decisions
\* and edits overlap: request.routes.ts assigns the whole array it read, and
\* Mongoose matches the version it read it with.
THEOREM AttachmentsStay == Spec => []AttachmentsKept
BY RequestsHold, PTL DEF RequestInv, AttachmentsKept

\* A request whose handlers do not overlap is decided and rated at most once,
\* rated only after its work order, and not edited once it is decided.
THEOREM DecidedOnce == Spec => []OneDecision
<1>1. RequestsInTurn => OneDecision
  BY DEF RequestsInTurn, DecisionInv, OneDecision
<1>. QED BY <1>1, RequestsHold, PTL

-----------------------------------------------------------------------------
(***************************************************************************)
(* Preventive maintenance.  Each invariant has a part about the documents  *)
(* and a part about what a handler in flight knows.                        *)
(***************************************************************************)
Scheduled(d) == occurrence[d].status = "scheduled"
Due(d) == Scheduled(d) /\ ~occurrence[d].late
Alone == \A c, e \in PM!Busy : c = e

\* Always: before the plan there is nothing.
PlanInv ==
  /\ PM!TypeOK
  /\ \A c \in Callers : pm[c].op = "none" <=> pm[c].step = "idle"
  /\ plan.status = "absent" => /\ \A c \in Callers : pm[c].step = "idle"
                               /\ \A d \in Dates : ~PM!Exists(d)

\* One handler at a time, not interrupted and nothing assigned: an occurrence
\* is approved with the one order it has, unless the handler in flight is
\* between its order and the link.
Ordering(k) ==
  /\ ~k.assigned
  /\ k.step = "order" => PM!Exists(k.day) /\ orders[k.day] = 0
  /\ k.step = "link" => PM!Exists(k.day) /\ orders[k.day] = 1 /\ k.order = 1
  /\ k.op = "reject" /\ k.step = "save" =>
       PM!Exists(k.day) /\ occurrence[k.day].approval = "pending_approval"

Settled(d) == IF occurrence[d].approval = "approved"
              THEN occurrence[d].order = 1 /\ orders[d] = 1
              ELSE orders[d] = 0

Pending(c, d) == pm[c].step \in {"order", "link"} /\ pm[c].day = d

OrdersInv ==
  /\ Alone
  /\ ~plan.assigned
  /\ \A d \in Dates : /\ ~occurrence[d].assigned
                      /\ ~PM!Exists(d) => occurrence[d].approval = "pending_approval"
                      /\ Settled(d) \/ \E c \in Callers : Pending(c, d)
  /\ \A c \in Callers : Ordering(pm[c])

\* One request at a time, which may stop anywhere: whatever is scheduled is still
\* on the list of an archive, and creations and skips work on a plan that is not
\* archived.
Archiving(k) ==
  /\ k.op \in {"create", "skip"} => plan.status # "cancelled"
  /\ k.op = "archive" => \A d \in Dates : Scheduled(d) => d \in k.todo

ArchivedInv ==
  /\ Alone
  /\ plan.status = "cancelled" => \A d \in Dates : ~Due(d)
  /\ \A c \in Callers : Archiving(pm[c])

MaintenanceInv ==
  /\ PlanInv
  /\ workload = "planInTurn" => OrdersInv
  /\ workload = "planArchived" => ArchivedInv

-----------------------------------------------------------------------------
\* What an action does to its caller.
OnlyCall(c) ==
  /\ pm' \in [Callers -> PM!PMCall]
  /\ \A e \in Callers \ {c} : pm'[e] = pm[e]

Finished(c) ==
  /\ OnlyCall(c)
  /\ pm'[c].op = "none" /\ pm'[c].step = "idle" /\ ~pm'[c].assigned

Moved(c, s) ==
  /\ OnlyCall(c)
  /\ pm'[c].op = pm[c].op /\ pm'[c].step = s /\ pm'[c].day = pm[c].day
  /\ pm'[c].todo = pm[c].todo /\ pm'[c].assigned = pm[c].assigned

Entered(c, op, s, d, todo, a) ==
  /\ pm[c].step = "idle" /\ OnlyCall(c)
  /\ pm'[c].op = op /\ pm'[c].step = s /\ pm'[c].day = d
  /\ pm'[c].todo = todo /\ pm'[c].assigned = a

Steps == {"idle", "occurrences", "cancel", "save", "order", "link", "plan"}

LEMMA DateFacts == PM!AnyDate \in Dates /\ {} \in PM!Optional(Recurrences)
BY MaintenanceAssumption DEF PM!AnyDate, PM!Optional

LEMMA DatesOfRecurrence ==
  ASSUME NEW r \in PM!Optional(Recurrences)
  PROVE  UNION r \subseteq Dates
<1>1. r = {} \/ \E x \in Recurrences : r = {x}
  BY DEF PM!Optional
<1>2. \A x \in Recurrences : x \subseteq Dates
  BY MaintenanceAssumption
<1>. QED BY <1>1, <1>2

LEMMA RestFacts ==
  /\ PM!AtRest \in PM!PMCall
  /\ PM!AtRest.op = "none" /\ PM!AtRest.step = "idle" /\ ~PM!AtRest.assigned
BY MaintenanceAssumption, DateFacts DEF PM!AtRest, PM!PMCall, PM!PMOps

LEMMA FinishEffect ==
  ASSUME PM!TypeOK, NEW c \in Callers, PM!Finish(c)
  PROVE  Finished(c)
<1>1. pm \in [Callers -> PM!PMCall] /\ pm' = [pm EXCEPT ![c] = PM!AtRest]
  BY DEF PM!TypeOK, PM!Finish
<1>. QED BY <1>1, RestFacts DEF Finished, OnlyCall

LEMMA GoEffect ==
  ASSUME PM!TypeOK, NEW c \in Callers, NEW s \in Steps, PM!Go(c, s)
  PROVE  Moved(c, s)
<1>. DEFINE k == [pm[c] EXCEPT !.step = s]
<1>1. pm \in [Callers -> PM!PMCall] /\ pm[c] \in PM!PMCall
  BY DEF PM!TypeOK
<1>2. /\ k \in PM!PMCall /\ k.op = pm[c].op /\ k.step = s /\ k.day = pm[c].day
      /\ k.todo = pm[c].todo /\ k.assigned = pm[c].assigned
  BY <1>1 DEF PM!PMCall, Steps
<1>3. pm' = [pm EXCEPT ![c] = k]
  BY <1>1 DEF PM!Go
<1>. HIDE DEF k
<1>. QED BY <1>1, <1>2, <1>3 DEF Moved, OnlyCall

LEMMA EnterEffect ==
  ASSUME PM!TypeOK, NEW c \in Callers, NEW op \in PM!PMOps, NEW s \in Steps,
         NEW d \in Dates, NEW todo \in SUBSET Dates, NEW a \in BOOLEAN,
         pm[c].step = "idle",
         pm' = [pm EXCEPT ![c] = [PM!AtRest EXCEPT !.op = op, !.step = s, !.day = d,
                                                   !.todo = todo, !.assigned = a]]
  PROVE  Entered(c, op, s, d, todo, a)
<1>. DEFINE k == [PM!AtRest EXCEPT !.op = op, !.step = s, !.day = d, !.todo = todo,
                                   !.assigned = a]
<1>1. /\ k \in PM!PMCall /\ k.op = op /\ k.step = s /\ k.day = d /\ k.todo = todo
      /\ k.assigned = a
  BY RestFacts DEF PM!PMCall, Steps
<1>2. pm \in [Callers -> PM!PMCall] /\ pm' = [pm EXCEPT ![c] = k]
  BY DEF PM!TypeOK
<1>. HIDE DEF k
<1>. QED BY <1>1, <1>2 DEF Entered, OnlyCall

LEMMA EnterPlain ==
  ASSUME PM!TypeOK, NEW c \in Callers, NEW op \in PM!PMOps, NEW s \in Steps,
         NEW d \in Dates, NEW todo \in SUBSET Dates, NEW r \in PM!Optional(Recurrences),
         PM!Enter(c, op, s, d, todo, r)
  PROVE  Entered(c, op, s, d, todo, FALSE) /\ pm'[c].recurrence = r
<1>. DEFINE k == [PM!AtRest EXCEPT !.op = op, !.step = s, !.day = d, !.todo = todo,
                                   !.recurrence = r]
<1>1. /\ k \in PM!PMCall /\ k.op = op /\ k.step = s /\ k.day = d /\ k.todo = todo
      /\ ~k.assigned /\ k.recurrence = r
  BY RestFacts DEF PM!PMCall, Steps
<1>2. /\ pm \in [Callers -> PM!PMCall] /\ pm' = [pm EXCEPT ![c] = k]
      /\ pm[c].step = "idle"
  BY DEF PM!TypeOK, PM!Enter
<1>. HIDE DEF k
<1>3. pm'[c] = k /\ OnlyCall(c)
  BY <1>1, <1>2 DEF OnlyCall
<1>4. pm'[c].assigned = FALSE
  BY <1>1, <1>3 DEF PM!PMCall
<1>. QED BY <1>1, <1>2, <1>3, <1>4 DEF Entered

\* What an action does to an occurrence.
OnlyOccurrence(d) ==
  /\ occurrence' \in [Dates -> PM!Occurrence]
  /\ \A e \in Dates \ {d} : occurrence'[e] = occurrence[e]

LEMMA StatusWrite ==
  ASSUME PM!TypeOK, NEW d \in Dates,
         occurrence' = [occurrence EXCEPT ![d].status = "cancelled"]
  PROVE  /\ OnlyOccurrence(d) /\ occurrence'[d].status = "cancelled"
         /\ occurrence'[d].approval = occurrence[d].approval
         /\ occurrence'[d].order = occurrence[d].order
         /\ occurrence'[d].assigned = occurrence[d].assigned
<1>. DEFINE o == [occurrence[d] EXCEPT !.status = "cancelled"]
<1>1. occurrence \in [Dates -> PM!Occurrence] /\ occurrence[d] \in PM!Occurrence
  BY DEF PM!TypeOK
<1>2. /\ o \in PM!Occurrence /\ o.status = "cancelled" /\ o.approval = occurrence[d].approval
      /\ o.order = occurrence[d].order /\ o.assigned = occurrence[d].assigned
  BY <1>1 DEF PM!Occurrence, PM!OccurrenceStatus
<1>3. occurrence' = [occurrence EXCEPT ![d] = o]
  BY <1>1
<1>. HIDE DEF o
<1>. QED BY <1>1, <1>2, <1>3 DEF OnlyOccurrence

LEMMA RejectionWrite ==
  ASSUME PM!TypeOK, NEW d \in Dates,
         occurrence' = [occurrence EXCEPT ![d].approval = "rejected"]
  PROVE  /\ OnlyOccurrence(d) /\ occurrence'[d].approval = "rejected"
         /\ occurrence'[d].status = occurrence[d].status
         /\ occurrence'[d].order = occurrence[d].order
         /\ occurrence'[d].assigned = occurrence[d].assigned
         /\ occurrence'[d].late = occurrence[d].late
<1>. DEFINE o == [occurrence[d] EXCEPT !.approval = "rejected"]
<1>1. occurrence \in [Dates -> PM!Occurrence] /\ occurrence[d] \in PM!Occurrence
  BY DEF PM!TypeOK
<1>2. /\ o \in PM!Occurrence /\ o.approval = "rejected" /\ o.status = occurrence[d].status
      /\ o.order = occurrence[d].order /\ o.assigned = occurrence[d].assigned
      /\ o.late = occurrence[d].late
  BY <1>1 DEF PM!Occurrence, PM!ApprovalState
<1>3. occurrence' = [occurrence EXCEPT ![d] = o]
  BY <1>1
<1>. HIDE DEF o
<1>. QED BY <1>1, <1>2, <1>3 DEF OnlyOccurrence

LEMMA AssignmentWrite ==
  ASSUME PM!TypeOK, NEW d \in Dates, NEW a \in BOOLEAN,
         occurrence' = [occurrence EXCEPT ![d].assigned = a]
  PROVE  /\ OnlyOccurrence(d) /\ occurrence'[d].status = occurrence[d].status
         /\ occurrence'[d].late = occurrence[d].late
<1>. DEFINE o == [occurrence[d] EXCEPT !.assigned = a]
<1>1. occurrence \in [Dates -> PM!Occurrence] /\ occurrence[d] \in PM!Occurrence
  BY DEF PM!TypeOK
<1>2. o \in PM!Occurrence /\ o.status = occurrence[d].status /\ o.late = occurrence[d].late
  BY <1>1 DEF PM!Occurrence
<1>3. occurrence' = [occurrence EXCEPT ![d] = o]
  BY <1>1
<1>. HIDE DEF o
<1>. QED BY <1>1, <1>2, <1>3 DEF OnlyOccurrence

LEMMA LinkWrite ==
  ASSUME PM!TypeOK, NEW d \in Dates, NEW n \in 0..MaxOrders,
         occurrence' = [occurrence EXCEPT ![d] =
                          [@ EXCEPT !.status = "generated", !.approval = "approved", !.order = n]]
  PROVE  /\ OnlyOccurrence(d) /\ occurrence'[d].status = "generated"
         /\ occurrence'[d].approval = "approved" /\ occurrence'[d].order = n
         /\ occurrence'[d].assigned = occurrence[d].assigned
<1>. DEFINE o == [occurrence[d] EXCEPT !.status = "generated", !.approval = "approved",
                                       !.order = n]
<1>1. occurrence \in [Dates -> PM!Occurrence] /\ occurrence[d] \in PM!Occurrence
  BY DEF PM!TypeOK
<1>2. /\ o \in PM!Occurrence /\ o.status = "generated" /\ o.approval = "approved"
      /\ o.order = n /\ o.assigned = occurrence[d].assigned
  BY <1>1 DEF PM!Occurrence, PM!OccurrenceStatus, PM!ApprovalState
<1>3. occurrence' = [occurrence EXCEPT ![d] = o]
  BY <1>1
<1>. HIDE DEF o
<1>. QED BY <1>1, <1>2, <1>3 DEF OnlyOccurrence

-----------------------------------------------------------------------------
\* What a step has to keep.
PlanKept ==
  /\ PlanInv'
  /\ OrdersInv /\ Alone' /\ ~plan'.assigned => OrdersInv'
  /\ ArchivedInv /\ Alone' => ArchivedInv'

LEMMA PlanKeeps ==
  ASSUME PlanInv, PM!TypeOK', NEW c \in Callers, OnlyCall(c), plan'.status # "absent",
         pm'[c].op = "none" <=> pm'[c].step = "idle"
  PROVE  PlanInv'
BY DEF PlanInv, OnlyCall

\* With one handler in flight nobody else is between its order and the link.
LEMMA PendingHere ==
  ASSUME OrdersInv, Alone', NEW c \in Callers, OnlyCall(c),
         pm[c].step # "idle" \/ pm'[c].step # "idle"
  PROVE  /\ \A e \in Callers \ {c} : pm[e].step = "idle" /\ pm'[e] = pm[e]
         /\ \A d \in Dates : Settled(d) \/ Pending(c, d)
<1>1. \A e \in Callers \ {c} : pm[e].step = "idle" /\ pm'[e] = pm[e]
  BY DEF OrdersInv, Alone, PM!Busy, OnlyCall
<1>. QED BY <1>1 DEF OrdersInv, Pending

LEMMA OrdersKeep ==
  ASSUME OrdersInv, Alone', ~plan'.assigned, NEW c \in Callers, OnlyCall(c),
         pm[c].step # "idle" \/ pm'[c].step # "idle",
         \A d \in Dates : /\ ~occurrence'[d].assigned
                          /\ ~PM!Exists(d)' => occurrence'[d].approval = "pending_approval"
                          /\ Settled(d)' \/ Pending(c, d)',
         Ordering(pm[c])'
  PROVE  OrdersInv'
<1>1. \A e \in Callers \ {c} : pm[e].step = "idle" /\ pm'[e] = pm[e]
  BY PendingHere
<1>2. \A e \in Callers : Ordering(pm[e])'
  BY <1>1 DEF OrdersInv, Ordering
<1>. QED BY <1>2 DEF OrdersInv

\* Nothing becomes scheduled or due and no occurrence goes.
NoInsert == \A d \in Dates : /\ Scheduled(d)' => Scheduled(d)
                             /\ Due(d)' => Due(d)
                             /\ PM!Exists(d) => PM!Exists(d)'

LEMMA ArchivedKeep ==
  ASSUME ArchivedInv, Alone', NoInsert,
         plan'.status = "cancelled" => plan.status = "cancelled",
         NEW c \in Callers, OnlyCall(c), Archiving(pm[c])'
  PROVE  ArchivedInv'
<1>1. ASSUME NEW e \in Callers, e # c
      PROVE  Archiving(pm[e])'
  <2>1. pm'[e] = pm[e] /\ Archiving(pm[e])
    BY <1>1 DEF OnlyCall, ArchivedInv
  <2>. QED BY <2>1 DEF Archiving, NoInsert
<1>2. plan'.status = "cancelled" => \A d \in Dates : ~Due(d)'
  BY DEF ArchivedInv, NoInsert
<1>. QED BY <1>1, <1>2 DEF ArchivedInv

-----------------------------------------------------------------------------
\* A request that is admitted changes no document.
LEMMA EnterKeeps ==
  ASSUME PlanInv, UNCHANGED horizon, NEW c \in Callers, NEW op \in PM!PMOps \ {"create"},
         NEW s \in Steps \ {"idle", "link"}, NEW d \in Dates, NEW todo \in SUBSET Dates,
         NEW a \in BOOLEAN, Entered(c, op, s, d, todo, a), plan.status # "absent",
         UNCHANGED <<plan, occurrence, orders>>,
         OrdersInv /\ Alone' => Ordering(pm[c])',
         ArchivedInv => Archiving(pm[c])'
  PROVE  PlanKept
<1>1. /\ OnlyCall(c) /\ pm[c].step = "idle" /\ pm'[c].step # "idle" /\ pm[c].op = "none"
      /\ pm'[c].op # "none" /\ pm'[c].op # "create"
  BY DEF Entered, PlanInv, PM!PMOps
<1>2. PM!TypeOK'
  BY <1>1 DEF PlanInv, PM!TypeOK, OnlyCall
<1>3. PlanInv'
  BY <1>1, <1>2, PlanKeeps
<1>4. NoInsert
  BY DEF NoInsert, Scheduled, Due, PM!Exists
<1>5. ASSUME OrdersInv, Alone', ~plan'.assigned
      PROVE  OrdersInv'
  <2>1. \A e \in Dates : Settled(e)
    BY <1>1, <1>5, PendingHere DEF Pending
  <2>2. \A e \in Dates : /\ ~occurrence'[e].assigned
                         /\ ~PM!Exists(e)' => occurrence'[e].approval = "pending_approval"
                         /\ Settled(e)'
    BY <1>5, <2>1 DEF OrdersInv, Settled, PM!Exists
  <2>. QED BY <1>1, <1>5, <2>2, OrdersKeep
<1>6. ArchivedInv /\ Alone' => ArchivedInv'
  BY <1>1, <1>4, ArchivedKeep
<1>. QED BY <1>3, <1>5, <1>6 DEF PlanKept

LEMMA ApproveKeeps ==
  ASSUME PlanInv, UNCHANGED horizon, NEW c \in Callers, NEW d \in Dates, PM!Approve(c, d)
  PROVE  PlanKept
<1>. DEFINE a == occurrence[d].assigned
<1>1. /\ PM!TypeOK /\ a \in BOOLEAN /\ {} \in SUBSET Dates
      /\ "approve" \in PM!PMOps \ {"create"} /\ "order" \in Steps \ {"idle", "link"}
  BY DEF PlanInv, PM!TypeOK, PM!Occurrence, PM!PMOps, Steps
<1>2. Entered(c, "approve", "order", d, {}, a)
  <2>. DEFINE k == [PM!AtRest EXCEPT !.op = "approve", !.step = "order", !.day = d,
                                     !.assigned = a]
  <2>1. /\ k \in PM!PMCall /\ k.op = "approve" /\ k.step = "order" /\ k.day = d /\ k.todo = {}
        /\ k.assigned = a
    BY <1>1, RestFacts DEF PM!PMCall, PM!PMOps, PM!AtRest
  <2>2. /\ pm \in [Callers -> PM!PMCall] /\ pm' = [pm EXCEPT ![c] = k] /\ pm[c].step = "idle"
    BY <1>1 DEF PM!TypeOK, PM!Approve
  <2>. HIDE DEF k
  <2>. QED BY <2>1, <2>2 DEF Entered, OnlyCall
<1>3. plan.status # "absent" /\ UNCHANGED <<plan, occurrence, orders>>
  BY DEF PlanInv, PM!Approve
<1>4. OrdersInv /\ Alone' => Ordering(pm[c])'
  <2>. SUFFICES ASSUME OrdersInv, Alone' PROVE Ordering(pm[c])'
    OBVIOUS
  <2>1. /\ pm[c].step = "idle" /\ pm'[c].op = "approve" /\ pm'[c].step = "order"
        /\ pm'[c].day = d /\ pm'[c].assigned = a /\ OnlyCall(c) /\ PM!Exists(d)
        /\ occurrence[d].approval = "pending_approval"
    BY <1>2 DEF Entered, PM!Approve
  <2>2. Settled(d) /\ ~a
    BY <2>1, PendingHere DEF Pending, OrdersInv
  <2>3. orders[d] = 0
    BY <2>1, <2>2 DEF Settled
  <2>. QED BY <1>3, <2>1, <2>2, <2>3 DEF Ordering, PM!Exists
<1>5. ArchivedInv => Archiving(pm[c])'
  BY <1>2 DEF Entered, Archiving
<1>. QED BY <1>1, <1>2, <1>3, <1>4, <1>5, EnterKeeps

LEMMA UpdateKeepsPlan ==
  ASSUME PlanInv, UNCHANGED horizon, NEW c \in Callers, NEW p \in PM!Optional(Dates),
         NEW r \in PM!Optional(Recurrences), PM!Update(c, p, r)
  PROVE  PlanKept
<1>1. /\ PM!TypeOK /\ p \in SUBSET Dates /\ PM!AnyDate \in Dates
      /\ "update" \in PM!PMOps \ {"create"} /\ "plan" \in Steps \ {"idle", "link"}
  BY DateFacts DEF PlanInv, PM!PMOps, Steps, PM!Optional
<1>2. Entered(c, "update", "plan", PM!AnyDate, p, FALSE)
  BY <1>1, EnterPlain DEF PM!Update
<1>3. plan.status # "absent" /\ UNCHANGED <<plan, occurrence, orders>>
  BY DEF PM!Update
<1>4. Ordering(pm[c])' /\ Archiving(pm[c])'
  BY <1>2 DEF Entered, Ordering, Archiving
<1>. QED BY <1>1, <1>2, <1>3, <1>4, EnterKeeps

LEMMA RejectKeepsPlan ==
  ASSUME PlanInv, UNCHANGED horizon, NEW c \in Callers, PM!Reject(c) \/ PM!RejectNothingPending(c)
  PROVE  PlanKept
<1>1. /\ PM!TypeOK /\ {} \in SUBSET Dates /\ PM!AnyDate \in Dates
      /\ "reject" \in PM!PMOps \ {"create"}
      /\ "plan" \in Steps \ {"idle", "link"} /\ "save" \in Steps \ {"idle", "link"}
  BY DateFacts DEF PlanInv, PM!PMOps, Steps
<1>2. PICK d \in Dates, s \in {"save", "plan"} :
        /\ Entered(c, "reject", s, d, {}, FALSE)
        /\ s = "save" => PM!Exists(d) /\ occurrence[d].approval = "pending_approval"
  <2>1. CASE PM!Reject(c)
    <3>1. PICK d \in Dates : /\ PM!firstPendingOccurrence(d)
                             /\ PM!Enter(c, "reject", "save", d, {}, {})
      BY <2>1 DEF PM!Reject
    <3>2. Entered(c, "reject", "save", d, {}, FALSE)
      BY <1>1, <3>1, EnterPlain, DateFacts
    <3>. QED BY <3>1, <3>2 DEF PM!firstPendingOccurrence, PM!IsFirst, PM!Existing
  <2>2. CASE PM!RejectNothingPending(c)
    <3>1. Entered(c, "reject", "plan", PM!AnyDate, {}, FALSE)
      BY <1>1, <2>2, EnterPlain, DateFacts DEF PM!RejectNothingPending
    <3>. QED BY <1>1, <3>1
  <2>. QED BY <2>1, <2>2
<1>3. plan.status # "absent" /\ UNCHANGED <<plan, occurrence, orders>>
  BY DEF PM!Reject, PM!RejectNothingPending
<1>4. Ordering(pm[c])' /\ Archiving(pm[c])'
  BY <1>2, <1>3 DEF Entered, Ordering, Archiving, PM!Exists
<1>5. s \in Steps \ {"idle", "link"}
  BY <1>1
<1>. QED BY <1>1, <1>2, <1>3, <1>4, <1>5, EnterKeeps

LEMMA ArchiveKeeps ==
  ASSUME PlanInv, UNCHANGED horizon, NEW c \in Callers, PM!Archive(c)
  PROVE  PlanKept
<1>. DEFINE todo == {d \in Dates : occurrence[d].status = "scheduled"}
<1>1. /\ PM!TypeOK /\ todo \in SUBSET Dates /\ PM!AnyDate \in Dates
      /\ "archive" \in PM!PMOps \ {"create"} /\ "cancel" \in Steps \ {"idle", "link"}
  BY DateFacts DEF PlanInv, PM!PMOps, Steps
<1>2. \A d \in Dates : Scheduled(d) => d \in todo
  BY DEF Scheduled
<1>3. PM!Enter(c, "archive", "cancel", PM!AnyDate, todo, {})
  BY DEF PM!Archive
<1>. HIDE DEF todo
<1>4. Entered(c, "archive", "cancel", PM!AnyDate, todo, FALSE)
  BY <1>1, <1>3, EnterPlain, DateFacts
<1>5. plan.status # "absent" /\ UNCHANGED <<plan, occurrence, orders>>
  BY DEF PM!Archive
<1>6. Ordering(pm[c])' /\ Archiving(pm[c])'
  BY <1>2, <1>4, <1>5 DEF Entered, Ordering, Archiving, Scheduled
<1>. QED BY <1>1, <1>4, <1>5, <1>6, EnterKeeps

LEMMA SkipKeeps ==
  ASSUME PlanInv, UNCHANGED horizon, NEW c \in Callers, PM!Skip(c)
  PROVE  PlanKept
<1>. DEFINE p == plan.plannedDate
            s == IF occurrence[p].status \in {"scheduled", "generated"} THEN "cancel" ELSE "plan"
<1>1. /\ PM!TypeOK /\ {} \in SUBSET Dates /\ p \in Dates
      /\ plan.recurrence \in PM!Optional(Recurrences)
      /\ "skip" \in PM!PMOps \ {"create"} /\ s \in Steps \ {"idle", "link"}
      /\ s \in {"cancel", "plan"}
  BY DEF PlanInv, PM!TypeOK, PM!Plan, PM!PMOps, Steps
<1>2. PM!Enter(c, "skip", s, p, {}, plan.recurrence)
  BY DEF PM!Skip
<1>. HIDE DEF s
<1>3. Entered(c, "skip", s, p, {}, FALSE)
  BY <1>1, <1>2, EnterPlain
<1>4. plan.status = "approved" /\ UNCHANGED <<plan, occurrence, orders>>
  BY DEF PM!Skip
<1>5. Ordering(pm[c])' /\ Archiving(pm[c])'
  BY <1>1, <1>3, <1>4 DEF Entered, Ordering, Archiving
<1>. QED BY <1>1, <1>3, <1>4, <1>5, EnterKeeps

LEMMA SkipOccurrenceKeeps ==
  ASSUME PlanInv, UNCHANGED horizon, NEW c \in Callers, NEW d \in Dates, NEW n \in SUBSET Dates,
         PM!SkipOccurrence(c, d, n)
  PROVE  PlanKept
<1>. DEFINE a == occurrence[d].assigned
<1>1. /\ PM!TypeOK /\ a \in BOOLEAN
      /\ "skipOccurrence" \in PM!PMOps \ {"create"} /\ "cancel" \in Steps \ {"idle", "link"}
  BY DEF PlanInv, PM!TypeOK, PM!Occurrence, PM!PMOps, Steps
<1>2. Entered(c, "skipOccurrence", "cancel", d, n, a)
  BY <1>1, EnterEffect DEF PM!SkipOccurrence
<1>3. plan.status # "absent" /\ UNCHANGED <<plan, occurrence, orders>>
  BY DEF PlanInv, PM!SkipOccurrence, PM!Exists
<1>4. OrdersInv => Ordering(pm[c])'
  BY <1>2 DEF Entered, Ordering, OrdersInv
<1>5. Archiving(pm[c])'
  BY <1>2 DEF Entered, Archiving
<1>. QED BY <1>1, <1>2, <1>3, <1>4, <1>5, EnterKeeps

-----------------------------------------------------------------------------
\* The creation of the plan and of its occurrences.
LEMMA CreatePlanKeeps ==
  ASSUME PlanInv, UNCHANGED horizon, NEW c \in Callers,
         NEW manager \in BOOLEAN, NEW assigned \in BOOLEAN,
         NEW r \in PM!Optional(Recurrences), NEW p \in Dates, NEW f \in Dates,
         PM!CreatePlan(c, manager, assigned, r, p, f)
  PROVE  PlanKept
<1>. DEFINE todo == IF r = {} THEN {f} ELSE PM!generateOccurrenceDates(r)
            k == [PM!AtRest EXCEPT !.op = "create", !.step = "occurrences", !.first = manager,
                                   !.assigned = assigned, !.todo = todo]
<1>1. todo \in SUBSET Dates
  BY DatesOfRecurrence DEF PM!generateOccurrenceDates
<1>2. /\ pm \in [Callers -> PM!PMCall] /\ pm' = [pm EXCEPT ![c] = k] /\ plan.status = "absent"
  BY DEF PlanInv, PM!TypeOK, PM!CreatePlan
<1>. HIDE DEF todo
<1>3. /\ k \in PM!PMCall /\ k.op = "create" /\ k.step = "occurrences"
      /\ k.assigned = assigned
  BY <1>1, RestFacts DEF PM!PMCall, PM!PMOps
<1>. HIDE DEF k
<1>4. /\ OnlyCall(c) /\ pm'[c].op = "create" /\ pm'[c].step = "occurrences"
      /\ pm'[c].assigned = assigned
  BY <1>2, <1>3 DEF OnlyCall
<1>5. /\ plan' \in PM!Plan /\ plan'.status \in {"approved", "pending_approval"}
      /\ plan'.assigned = assigned /\ UNCHANGED <<occurrence, orders>>
  BY DEF PM!CreatePlan, PM!Plan, PM!PlanStatus
<1>6. PM!TypeOK'
  BY <1>4, <1>5 DEF PlanInv, PM!TypeOK, OnlyCall
<1>7. PlanInv'
  BY <1>4, <1>5, <1>6, PlanKeeps
<1>8. ASSUME OrdersInv, Alone', ~plan'.assigned
      PROVE  OrdersInv'
  <2>1. \A e \in Dates : Settled(e)
    BY <1>2, <1>4, <1>8, PendingHere DEF Pending, PlanInv
  <2>2. \A e \in Dates : /\ ~occurrence'[e].assigned
                         /\ ~PM!Exists(e)' => occurrence'[e].approval = "pending_approval"
                         /\ Settled(e)'
    BY <1>5, <1>8, <2>1 DEF OrdersInv, Settled, PM!Exists
  <2>3. Ordering(pm[c])'
    BY <1>4, <1>5, <1>8 DEF Ordering
  <2>. QED BY <1>4, <1>8, <2>2, <2>3, OrdersKeep
<1>9. ASSUME ArchivedInv, Alone'
      PROVE  ArchivedInv'
  <2>1. Archiving(pm[c])'
    BY <1>4, <1>5 DEF Archiving
  <2>2. NoInsert
    BY <1>5 DEF NoInsert, Scheduled, Due, PM!Exists
  <2>. QED BY <1>4, <1>5, <1>9, <2>1, <2>2, ArchivedKeep
<1>. QED BY <1>7, <1>8, <1>9 DEF PlanKept

LEMMA CreateOccurrenceKeeps ==
  ASSUME PlanInv, UNCHANGED horizon, NEW c \in Callers, PM!CreateOccurrence(c)
  PROVE  PlanKept
<1>1. PICK d \in pm[c].todo :
        LET insert == ~PM!Exists(d)
            approved == insert /\ pm[c].first
        IN /\ PM!Is(c, "create", "occurrences") /\ PM!IsFirst(d, pm[c].todo)
           /\ occurrence' = IF insert
                            THEN [occurrence EXCEPT ![d] =
                                   [status |-> "scheduled", order |-> 0, late |-> FALSE,
                                    approval |-> IF approved THEN "approved"
                                                             ELSE "pending_approval",
                                    assigned |-> pm[c].assigned]]
                            ELSE occurrence
           /\ pm' = [pm EXCEPT ![c] = [PM!AtRest EXCEPT
                       !.op = "create", !.step = IF approved THEN "order" ELSE "occurrences",
                       !.day = d, !.todo = pm[c].todo \ {d},
                       !.assigned = pm[c].assigned /\ approved]]
           /\ UNCHANGED <<plan, orders>>
  BY DEF PM!CreateOccurrence
<1>2. /\ PM!TypeOK /\ pm \in [Callers -> PM!PMCall] /\ pm[c] \in PM!PMCall /\ d \in Dates
      /\ pm[c].op = "create" /\ pm[c].step = "occurrences" /\ UNCHANGED <<plan, orders>>
      /\ pm[c].assigned \in BOOLEAN /\ pm[c].first \in BOOLEAN /\ pm[c].todo \in SUBSET Dates
  BY <1>1 DEF PlanInv, PM!TypeOK, PM!PMCall, PM!Is
<1>. DEFINE ok == ~PM!Exists(d) /\ pm[c].first
            s == IF ok THEN "order" ELSE "occurrences"
            a == pm[c].assigned /\ ok
            k == [PM!AtRest EXCEPT !.op = "create", !.step = s, !.day = d,
                                   !.todo = pm[c].todo \ {d}, !.assigned = a]
<1>3. s \in {"order", "occurrences"} /\ a \in BOOLEAN /\ (a => pm[c].assigned)
  OBVIOUS
<1>4. pm' = [pm EXCEPT ![c] = k]
  BY <1>1
<1>5. s = "order" <=> ~PM!Exists(d) /\ pm[c].first
  OBVIOUS
<1>. HIDE DEF s, a
<1>6. k \in PM!PMCall /\ k.op = "create" /\ k.step = s /\ k.day = d /\ k.assigned = a
  BY <1>2, <1>3, RestFacts DEF PM!PMCall, PM!PMOps
<1>. HIDE DEF k
<1>7. /\ OnlyCall(c) /\ pm'[c].op = "create" /\ pm'[c].step = s /\ pm'[c].day = d
      /\ (pm'[c].assigned => pm[c].assigned)
  BY <1>2, <1>3, <1>4, <1>6 DEF OnlyCall
<1>8. plan.status # "absent"
  BY <1>2 DEF PlanInv
<1>9. CASE PM!Exists(d)
  <2>1. UNCHANGED occurrence /\ NoInsert /\ s = "occurrences"
    BY <1>1, <1>3, <1>5, <1>9 DEF NoInsert, Scheduled, Due, PM!Exists
  <2>2. PM!TypeOK'
    BY <1>2, <1>7, <2>1 DEF PM!TypeOK, OnlyCall
  <2>3. PlanInv'
    BY <1>2, <1>7, <1>8, <2>1, <2>2, PlanKeeps
  <2>4. ASSUME OrdersInv, Alone', ~plan'.assigned
        PROVE  OrdersInv'
    <3>1. \A e \in Dates : Settled(e)
      BY <1>2, <1>7, <2>4, PendingHere DEF Pending
    <3>2. \A e \in Dates : /\ ~occurrence'[e].assigned
                           /\ ~PM!Exists(e)' => occurrence'[e].approval = "pending_approval"
                           /\ Settled(e)'
      BY <1>2, <2>1, <2>4, <3>1 DEF OrdersInv, Settled, PM!Exists
    <3>3. Ordering(pm[c])'
      BY <1>7, <2>1, <2>4 DEF Ordering, OrdersInv
    <3>. QED BY <1>2, <1>7, <2>4, <3>2, <3>3, OrdersKeep
  <2>5. ASSUME ArchivedInv, Alone'
        PROVE  ArchivedInv'
    <3>1. Archiving(pm[c])'
      BY <1>2, <1>7, <2>5 DEF Archiving, ArchivedInv
    <3>. QED BY <1>2, <1>7, <2>1, <2>5, <3>1, ArchivedKeep
  <2>. QED BY <2>3, <2>4, <2>5 DEF PlanKept
<1>10. CASE ~PM!Exists(d)
  <2>. DEFINE o == [status |-> "scheduled", order |-> 0, late |-> FALSE,
                    approval |-> IF ~PM!Exists(d) /\ pm[c].first THEN "approved"
                                                                 ELSE "pending_approval",
                    assigned |-> pm[c].assigned]
  <2>1. /\ o \in PM!Occurrence /\ o.status = "scheduled"
        /\ o.approval = IF s = "order" THEN "approved" ELSE "pending_approval"
        /\ o.assigned => pm[c].assigned
    BY <1>2, <1>3, <1>5, <1>10, MaintenanceAssumption
       DEF PM!Occurrence, PM!OccurrenceStatus, PM!ApprovalState
  <2>2. occurrence' = [occurrence EXCEPT ![d] = o]
    BY <1>1, <1>10
  <2>. HIDE DEF o
  <2>3. OnlyOccurrence(d) /\ occurrence'[d] = o
    BY <1>2, <2>1, <2>2 DEF OnlyOccurrence, PM!TypeOK
  <2>4. PM!TypeOK'
    BY <1>2, <1>7, <2>3 DEF PM!TypeOK, OnlyCall, OnlyOccurrence
  <2>5. PlanInv'
    BY <1>2, <1>3, <1>7, <1>8, <2>4, PlanKeeps
  <2>6. ASSUME OrdersInv, Alone', ~plan'.assigned
        PROVE  OrdersInv'
    <3>1. \A e \in Dates : Settled(e)
      BY <1>2, <1>7, <2>6, PendingHere DEF Pending
    <3>2. orders'[d] = 0 /\ ~pm[c].assigned
      BY <1>2, <1>10, <2>6, <3>1 DEF OrdersInv, Settled, Ordering
    <3>3. ASSUME NEW e \in Dates
          PROVE  /\ ~occurrence'[e].assigned
                 /\ ~PM!Exists(e)' => occurrence'[e].approval = "pending_approval"
                 /\ Settled(e)' \/ Pending(c, e)'
      <4>1. CASE e = d
        BY <1>3, <1>7, <2>1, <2>3, <3>2, <4>1 DEF PM!Exists, Settled, Pending
      <4>2. CASE e # d
        BY <1>2, <2>3, <2>6, <3>1, <4>2 DEF OnlyOccurrence, OrdersInv, Settled, PM!Exists
      <4>. QED BY <4>1, <4>2
    <3>4. Ordering(pm[c])'
      BY <1>3, <1>7, <2>1, <2>3, <3>2 DEF Ordering, PM!Exists
    <3>. QED BY <1>2, <1>7, <2>6, <3>3, <3>4, OrdersKeep
  <2>7. ASSUME ArchivedInv, Alone'
        PROVE  ArchivedInv'
    <3>1. plan'.status # "cancelled"
      BY <1>2, <2>7 DEF ArchivedInv, Archiving
    <3>2. \A e \in Callers \ {c} : pm[e].step = "idle" /\ pm[e].op = "none"
      BY <1>2, <2>7 DEF ArchivedInv, Alone, PM!Busy, PlanInv
    <3>3. \A e \in Callers : Archiving(pm[e])'
      BY <1>7, <3>1, <3>2 DEF Archiving, OnlyCall
    <3>. QED BY <2>7, <3>1, <3>3 DEF ArchivedInv
  <2>. QED BY <2>5, <2>6, <2>7 DEF PlanKept
<1>. QED BY <1>9, <1>10

-----------------------------------------------------------------------------
\* A handler that ends without a write.
LEMMA EndKeeps ==
  ASSUME PlanInv, UNCHANGED horizon, NEW c \in Callers, PM!Finish(c), pm[c].step # "idle",
         UNCHANGED <<plan, occurrence, orders>>
  PROVE  /\ PlanInv'
         /\ ArchivedInv /\ Alone' => ArchivedInv'
         /\ pm[c].step \notin {"order", "link"} \/ pm[c].assigned =>
              (OrdersInv /\ Alone' /\ ~plan'.assigned => OrdersInv')
<1>1. /\ Finished(c) /\ OnlyCall(c) /\ pm'[c].op = "none" /\ pm'[c].step = "idle"
      /\ plan.status # "absent"
  BY FinishEffect DEF PlanInv, Finished
<1>2. PM!TypeOK' /\ NoInsert
  BY <1>1 DEF PlanInv, PM!TypeOK, OnlyCall, NoInsert, Scheduled, Due, PM!Exists
<1>3. PlanInv'
  BY <1>1, <1>2, PlanKeeps
<1>4. ArchivedInv /\ Alone' => ArchivedInv'
  <2>1. Archiving(pm[c])'
    BY <1>1 DEF Archiving
  <2>. QED BY <1>1, <1>2, <2>1, ArchivedKeep
<1>5. ASSUME pm[c].step \notin {"order", "link"} \/ pm[c].assigned,
             OrdersInv, Alone', ~plan'.assigned
      PROVE  OrdersInv'
  <2>1. pm[c].step \notin {"order", "link"}
    BY <1>5 DEF OrdersInv, Ordering
  <2>2. \A e \in Dates : Settled(e)
    BY <1>1, <1>5, <2>1, PendingHere DEF Pending
  <2>3. \A e \in Dates : /\ ~occurrence'[e].assigned
                         /\ ~PM!Exists(e)' => occurrence'[e].approval = "pending_approval"
                         /\ Settled(e)'
    BY <1>5, <2>2 DEF OrdersInv, Settled, PM!Exists
  <2>4. Ordering(pm[c])'
    BY <1>1 DEF Finished, Ordering
  <2>. QED BY <1>1, <1>5, <2>3, <2>4, OrdersKeep
<1>. QED BY <1>3, <1>4, <1>5

LEMMA CreateDoneKeeps ==
  ASSUME PlanInv, UNCHANGED horizon, NEW c \in Callers, PM!CreateDone(c)
  PROVE  PlanKept
BY EndKeeps DEF PM!CreateDone, PM!Is, PlanKept

LEMMA ClashKeeps ==
  ASSUME PlanInv, UNCHANGED horizon, NEW c \in Callers, PM!Clash(c)
  PROVE  PlanKept
BY EndKeeps DEF PM!Clash, PlanKept

\* The work order and the link.
LEMMA GenerateKeeps ==
  ASSUME PlanInv, UNCHANGED horizon, NEW c \in Callers, PM!generateWorkOrder(c)
  PROVE  PlanKept
<1>. DEFINE d == pm[c].day
            n == orders[d] + 1
<1>1. /\ PM!TypeOK /\ pm \in [Callers -> PM!PMCall] /\ pm[c] \in PM!PMCall /\ d \in Dates
      /\ orders[d] \in 0..MaxOrders /\ pm[c].step = "order" /\ UNCHANGED <<plan, occurrence>>
      /\ pm[c].op # "none" /\ plan.status # "absent"
  BY DEF PlanInv, PM!TypeOK, PM!PMCall, PM!generateWorkOrder
<1>2. CASE pm[c].assigned
  <2>1. PM!Finish(c) /\ UNCHANGED orders
    BY <1>2 DEF PM!generateWorkOrder
  <2>. QED BY <1>1, <1>2, <2>1, EndKeeps DEF PlanKept
<1>3. CASE ~pm[c].assigned
  <2>1. /\ n \in 0..MaxOrders /\ orders' = [orders EXCEPT ![d] = n]
        /\ pm' = [pm EXCEPT ![c].step = "link", ![c].order = n]
    BY <1>1, <1>3, MaintenanceAssumption DEF PM!generateWorkOrder
  <2>. DEFINE k == [pm[c] EXCEPT !.step = "link", !.order = n]
  <2>2. /\ n \in 0..MaxOrders /\ pm' = [pm EXCEPT ![c] = k] /\ n = orders[d] + 1
        /\ orders' \in [Dates -> 0..MaxOrders] /\ orders'[d] = n
        /\ \A e \in Dates \ {d} : orders'[e] = orders[e]
    BY <1>1, <2>1 DEF PM!TypeOK
  <2>. HIDE DEF n
  <2>3. /\ k \in PM!PMCall /\ k.op = pm[c].op /\ k.step = "link" /\ k.day = d
        /\ k.todo = pm[c].todo /\ k.assigned = pm[c].assigned /\ k.order = n
    BY <1>1, <2>2 DEF PM!PMCall
  <2>. HIDE DEF k
  <2>4. Moved(c, "link") /\ OnlyCall(c) /\ pm'[c].order = n
    BY <1>1, <2>2, <2>3 DEF Moved, OnlyCall
  <2>5. PM!TypeOK' /\ NoInsert
    BY <1>1, <2>2, <2>4
       DEF PM!TypeOK, OnlyCall, NoInsert, Scheduled, Due, PM!Exists
  <2>6. PlanInv'
    BY <1>1, <2>4, <2>5, PlanKeeps DEF Moved
  <2>7. ASSUME OrdersInv, Alone', ~plan'.assigned
        PROVE  OrdersInv'
    <3>1. orders[d] = 0 /\ PM!Exists(d) /\ n = 1
      BY <1>1, <2>2, <2>7 DEF OrdersInv, Ordering
    <3>2. Ordering(pm[c])'
      BY <1>1, <1>3, <2>2, <2>4, <3>1 DEF Ordering, Moved, PM!Exists
    <3>3. \A e \in Dates : Settled(e) \/ e = d
      BY <1>1, <2>4, <2>7, PendingHere DEF Pending
    <3>4. \A e \in Dates : /\ ~occurrence'[e].assigned
                           /\ ~PM!Exists(e)' => occurrence'[e].approval = "pending_approval"
                           /\ Settled(e)' \/ Pending(c, e)'
      BY <1>1, <2>2, <2>4, <2>7, <3>3 DEF OrdersInv, Settled, PM!Exists, Pending, Moved
    <3>. QED BY <1>1, <2>4, <2>7, <3>2, <3>4, OrdersKeep
  <2>8. ASSUME ArchivedInv, Alone'
        PROVE  ArchivedInv'
    <3>1. Archiving(pm[c])'
      BY <1>1, <2>4, <2>8 DEF Moved, Archiving, ArchivedInv, Scheduled
    <3>. QED BY <1>1, <2>4, <2>5, <2>8, <3>1, ArchivedKeep
  <2>. QED BY <2>6, <2>7, <2>8 DEF PlanKept
<1>. QED BY <1>2, <1>3

LEMMA LinkOrderKeeps ==
  ASSUME PlanInv, UNCHANGED horizon, NEW c \in Callers, PM!LinkOrder(c)
  PROVE  PlanKept
<1>. DEFINE d == pm[c].day
            n == pm[c].order
<1>1. /\ PM!TypeOK /\ d \in Dates /\ n \in 0..MaxOrders /\ pm[c].step = "link"
      /\ pm[c].op # "none" /\ plan.status # "absent" /\ UNCHANGED <<plan, orders>>
  BY DEF PlanInv, PM!TypeOK, PM!PMCall, PM!LinkOrder
<1>2. /\ OnlyOccurrence(d) /\ occurrence'[d].status = "generated"
      /\ occurrence'[d].approval = "approved" /\ occurrence'[d].order = n
      /\ occurrence'[d].assigned = occurrence[d].assigned
  BY <1>1, LinkWrite DEF PM!LinkOrder
<1>3. /\ OnlyCall(c)
      /\ pm[c].op = "create" => Moved(c, "occurrences")
      /\ pm[c].op # "create" => Finished(c)
  BY <1>1, GoEffect, FinishEffect DEF PM!LinkOrder, Steps, Moved, Finished
<1>4. PM!TypeOK' /\ NoInsert
  <2>1. NoInsert
    BY <1>1, <1>2 DEF NoInsert, OnlyOccurrence, Scheduled, Due, PM!Exists
  <2>. QED BY <1>1, <1>2, <1>3, <2>1 DEF PM!TypeOK, OnlyCall, OnlyOccurrence
<1>5. PlanInv'
  BY <1>1, <1>3, <1>4, PlanKeeps DEF Moved, Finished
<1>6. ASSUME OrdersInv, Alone', ~plan'.assigned
      PROVE  OrdersInv'
  <2>1. orders[d] = 1 /\ n = 1 /\ ~pm[c].assigned
    BY <1>1, <1>6 DEF OrdersInv, Ordering
  <2>2. Ordering(pm[c])'
    BY <1>1, <1>3, <2>1 DEF Ordering, Moved, Finished
  <2>3. \A e \in Dates : Settled(e) \/ e = d
    BY <1>1, <1>3, <1>6, PendingHere DEF Pending
  <2>4. \A e \in Dates : /\ ~occurrence'[e].assigned
                         /\ ~PM!Exists(e)' => occurrence'[e].approval = "pending_approval"
                         /\ Settled(e)'
    BY <1>1, <1>2, <1>6, <2>1, <2>3 DEF OnlyOccurrence, OrdersInv, Settled, PM!Exists
  <2>. QED BY <1>1, <1>3, <1>6, <2>2, <2>4, OrdersKeep
<1>7. ASSUME ArchivedInv, Alone'
      PROVE  ArchivedInv'
  <2>1. Archiving(pm[c])'
    BY <1>1, <1>3, <1>7 DEF Moved, Finished, Archiving, ArchivedInv
  <2>. QED BY <1>1, <1>3, <1>4, <1>7, <2>1, ArchivedKeep
<1>. QED BY <1>5, <1>6, <1>7 DEF PlanKept

-----------------------------------------------------------------------------
\* A write to one occurrence that inserts nothing.
LEMMA WriteKeeps ==
  ASSUME PlanInv, UNCHANGED horizon, NEW c \in Callers, NEW d \in Dates,
         OnlyOccurrence(d), OnlyCall(c),
         UNCHANGED <<plan, orders>>, NoInsert,
         pm[c].step \notin {"idle", "order", "link"}, pm[c].op # "create",
         pm'[c].op \in {pm[c].op, "none"}, pm'[c].op = "none" <=> pm'[c].step = "idle",
         occurrence'[d].assigned = occurrence[d].assigned,
         OrdersInv /\ Settled(d) =>
           /\ Settled(d)' /\ Ordering(pm[c])'
           /\ ~PM!Exists(d)' => occurrence'[d].approval = "pending_approval",
         ArchivedInv => Archiving(pm[c])'
  PROVE  PlanKept
<1>1. PM!TypeOK' /\ plan.status # "absent"
  BY DEF PlanInv, PM!TypeOK, OnlyCall, OnlyOccurrence
<1>2. PlanInv'
  BY <1>1, PlanKeeps DEF PlanInv
<1>3. ASSUME OrdersInv, Alone', ~plan'.assigned
      PROVE  OrdersInv'
  <2>1. \A e \in Dates : Settled(e)
    BY <1>3, PendingHere DEF Pending
  <2>2. \A e \in Dates : /\ ~occurrence'[e].assigned
                         /\ ~PM!Exists(e)' => occurrence'[e].approval = "pending_approval"
                         /\ Settled(e)'
    BY <1>3, <2>1 DEF OnlyOccurrence, OrdersInv, Settled, PM!Exists
  <2>. QED BY <1>3, <2>1, <2>2, OrdersKeep
<1>4. ArchivedInv /\ Alone' => ArchivedInv'
  BY <1>1, ArchivedKeep
<1>. QED BY <1>2, <1>3, <1>4 DEF PlanKept

LEMMA CancelledInserts ==
  ASSUME NEW d \in Dates, OnlyOccurrence(d), occurrence'[d].status = "cancelled"
  PROVE  NoInsert
BY DEF OnlyOccurrence, NoInsert, Scheduled, Due, PM!Exists

LEMMA RejectOccurrenceKeeps ==
  ASSUME PlanInv, UNCHANGED horizon, NEW c \in Callers, PM!RejectOccurrence(c)
  PROVE  PlanKept
<1>0. PICK d \in Dates : d = pm[c].day
  BY DEF PlanInv, PM!TypeOK, PM!PMCall
<1>1. /\ PM!TypeOK /\ d \in Dates /\ pm[c].op = "reject" /\ pm[c].step = "save"
      /\ UNCHANGED <<plan, orders>> /\ Moved(c, "plan") /\ OnlyCall(c)
  BY <1>0, GoEffect DEF PlanInv, PM!TypeOK, PM!PMCall, PM!RejectOccurrence, PM!Is, Steps, Moved
<1>2. /\ OnlyOccurrence(d) /\ occurrence'[d].approval = "rejected"
      /\ occurrence'[d].status = occurrence[d].status
      /\ occurrence'[d].assigned = occurrence[d].assigned
      /\ occurrence'[d].late = occurrence[d].late
  BY <1>0, <1>1, RejectionWrite DEF PM!RejectOccurrence
<1>3. NoInsert
  BY <1>0, <1>1, <1>2 DEF OnlyOccurrence, NoInsert, Scheduled, Due, PM!Exists
<1>4. OrdersInv /\ Settled(d) =>
        /\ Settled(d)' /\ Ordering(pm[c])'
        /\ ~PM!Exists(d)' => occurrence'[d].approval = "pending_approval"
  <2>. SUFFICES ASSUME OrdersInv, Settled(d)
                PROVE  /\ Settled(d)' /\ Ordering(pm[c])'
                       /\ ~PM!Exists(d)' => occurrence'[d].approval = "pending_approval"
    OBVIOUS
  <2>1. PM!Exists(d) /\ orders[d] = 0 /\ ~pm[c].assigned
    BY <1>0, <1>1 DEF OrdersInv, Ordering, Settled
  <2>. QED BY <1>0, <1>1, <1>2, <2>1 DEF Settled, Ordering, Moved, PM!Exists
<1>5. Archiving(pm[c])'
  BY <1>0, <1>1 DEF Moved, Archiving
<1>6. /\ pm[c].step \notin {"idle", "order", "link"} /\ pm[c].op # "create"
      /\ pm'[c].op \in {pm[c].op, "none"} /\ (pm'[c].op = "none" <=> pm'[c].step = "idle")
  BY <1>0, <1>1 DEF Moved
<1>. QED BY <1>0, <1>1, <1>2, <1>3, <1>4, <1>5, <1>6, WriteKeeps

LEMMA SkipCancelKeeps ==
  ASSUME PlanInv, UNCHANGED horizon, NEW c \in Callers, PM!SkipCancel(c)
  PROVE  PlanKept
<1>0. PICK d \in Dates : d = pm[c].day
  BY DEF PlanInv, PM!TypeOK, PM!PMCall
<1>1. /\ PM!TypeOK /\ d \in Dates /\ pm[c].op = "skip" /\ pm[c].step = "cancel"
      /\ UNCHANGED <<plan, orders>> /\ Moved(c, "plan") /\ OnlyCall(c)
  BY <1>0, GoEffect DEF PlanInv, PM!TypeOK, PM!PMCall, PM!SkipCancel, PM!Is, Steps, Moved
<1>2. /\ OnlyOccurrence(d) /\ occurrence'[d].status = "cancelled"
      /\ occurrence'[d].approval = occurrence[d].approval
      /\ occurrence'[d].order = occurrence[d].order
      /\ occurrence'[d].assigned = occurrence[d].assigned
  BY <1>0, <1>1, StatusWrite DEF PM!SkipCancel
<1>3. NoInsert
  BY <1>0, <1>1, <1>2, CancelledInserts
<1>4. OrdersInv /\ Settled(d) =>
        /\ Settled(d)' /\ Ordering(pm[c])'
        /\ ~PM!Exists(d)' => occurrence'[d].approval = "pending_approval"
  BY <1>0, <1>1, <1>2 DEF OrdersInv, Ordering, Settled, Moved, PM!Exists
<1>5. ArchivedInv => Archiving(pm[c])'
  BY <1>0, <1>1, <1>2 DEF Moved, Archiving, ArchivedInv, Scheduled
<1>6. /\ pm[c].step \notin {"idle", "order", "link"} /\ pm[c].op # "create"
      /\ pm'[c].op \in {pm[c].op, "none"} /\ (pm'[c].op = "none" <=> pm'[c].step = "idle")
  BY <1>0, <1>1 DEF Moved
<1>. QED BY <1>0, <1>1, <1>2, <1>3, <1>4, <1>5, <1>6, WriteKeeps

LEMMA SkipOccurrenceCancelKeeps ==
  ASSUME PlanInv, UNCHANGED horizon, NEW c \in Callers, PM!SkipOccurrenceCancel(c)
  PROVE  PlanKept
<1>0. PICK d \in Dates : d = pm[c].day
  BY DEF PlanInv, PM!TypeOK, PM!PMCall
<1>1. /\ PM!TypeOK /\ d \in Dates /\ pm[c].op = "skipOccurrence" /\ pm[c].step = "cancel"
      /\ UNCHANGED <<plan, orders>> /\ OnlyCall(c) /\ (Moved(c, "save") \/ Finished(c))
  BY <1>0, GoEffect, FinishEffect
     DEF PlanInv, PM!TypeOK, PM!PMCall, PM!SkipOccurrenceCancel, PM!Is, Steps, Moved, Finished
<1>2. /\ OnlyOccurrence(d) /\ occurrence'[d].status = "cancelled"
      /\ occurrence'[d].approval = occurrence[d].approval
      /\ occurrence'[d].order = occurrence[d].order
      /\ occurrence'[d].assigned = occurrence[d].assigned
  BY <1>0, <1>1, StatusWrite DEF PM!SkipOccurrenceCancel
<1>3. NoInsert
  BY <1>0, <1>1, <1>2, CancelledInserts
<1>4. OrdersInv /\ Settled(d) =>
        /\ Settled(d)' /\ Ordering(pm[c])'
        /\ ~PM!Exists(d)' => occurrence'[d].approval = "pending_approval"
  BY <1>0, <1>1, <1>2 DEF OrdersInv, Ordering, Settled, Moved, Finished, PM!Exists
<1>5. Archiving(pm[c])'
  BY <1>0, <1>1 DEF Moved, Finished, Archiving
<1>6. /\ pm[c].step \notin {"idle", "order", "link"} /\ pm[c].op # "create"
      /\ pm'[c].op \in {pm[c].op, "none"} /\ (pm'[c].op = "none" <=> pm'[c].step = "idle")
  BY <1>0, <1>1 DEF Moved, Finished
<1>. QED BY <1>0, <1>1, <1>2, <1>3, <1>4, <1>5, <1>6, WriteKeeps

LEMMA ArchiveOccurrenceKeeps ==
  ASSUME PlanInv, UNCHANGED horizon, NEW c \in Callers, PM!ArchiveOccurrence(c)
  PROVE  PlanKept
<1>1. PICK d \in pm[c].todo :
        /\ PM!Is(c, "archive", "cancel")
        /\ occurrence' = [occurrence EXCEPT ![d].status = "cancelled"]
        /\ pm' = [pm EXCEPT ![c].todo = @ \ {d}]
        /\ UNCHANGED <<plan, orders>>
  BY DEF PM!ArchiveOccurrence
<1>2. /\ PM!TypeOK /\ pm \in [Callers -> PM!PMCall] /\ pm[c] \in PM!PMCall /\ d \in Dates
      /\ pm[c].op = "archive" /\ pm[c].step = "cancel" /\ pm[c].todo \in SUBSET Dates
  BY <1>1 DEF PlanInv, PM!TypeOK, PM!PMCall, PM!Is
<1>3. /\ OnlyOccurrence(d) /\ occurrence'[d].status = "cancelled"
      /\ occurrence'[d].approval = occurrence[d].approval
      /\ occurrence'[d].order = occurrence[d].order
      /\ occurrence'[d].assigned = occurrence[d].assigned
  BY <1>1, <1>2, StatusWrite
<1>4. NoInsert
  BY <1>2, <1>3, CancelledInserts
<1>5. /\ OnlyCall(c) /\ pm'[c].op = "archive" /\ pm'[c].step = "cancel"
      /\ pm'[c].todo = pm[c].todo \ {d} /\ pm'[c].assigned = pm[c].assigned
  <2>. DEFINE k == [pm[c] EXCEPT !.todo = pm[c].todo \ {d}]
  <2>1. /\ k \in PM!PMCall /\ k.op = "archive" /\ k.step = "cancel"
        /\ k.todo = pm[c].todo \ {d} /\ k.assigned = pm[c].assigned
    BY <1>2 DEF PM!PMCall
  <2>2. pm' = [pm EXCEPT ![c] = k]
    BY <1>1, <1>2
  <2>. HIDE DEF k
  <2>. QED BY <1>2, <2>1, <2>2 DEF OnlyCall
<1>6. OrdersInv /\ Settled(d) =>
        /\ Settled(d)' /\ Ordering(pm[c])'
        /\ ~PM!Exists(d)' => occurrence'[d].approval = "pending_approval"
  BY <1>1, <1>3, <1>5 DEF OrdersInv, Ordering, Settled, PM!Exists
<1>7. ArchivedInv => Archiving(pm[c])'
  <2>. SUFFICES ASSUME ArchivedInv PROVE Archiving(pm[c])'
    OBVIOUS
  <2>1. \A e \in Dates : Scheduled(e)' => e # d /\ e \in pm[c].todo
    BY <1>2, <1>3, <1>4 DEF ArchivedInv, Archiving, NoInsert, Scheduled
  <2>. QED BY <1>5, <2>1 DEF Archiving
<1>8. /\ pm[c].step \notin {"idle", "order", "link"} /\ pm[c].op # "create"
      /\ pm'[c].op \in {pm[c].op, "none"} /\ (pm'[c].op = "none" <=> pm'[c].step = "idle")
  BY <1>2, <1>5
<1>. QED BY <1>1, <1>2, <1>3, <1>4, <1>5, <1>6, <1>7, <1>8, WriteKeeps

-----------------------------------------------------------------------------
\* A write to the plan.
LEMMA RejectionOfPlan ==
  ASSUME PM!TypeOK, plan' = [plan EXCEPT !.status = "rejected"]
  PROVE  plan' \in PM!Plan /\ plan'.status = "rejected"
BY DEF PM!TypeOK, PM!Plan, PM!PlanStatus

LEMMA CancellationOfPlan ==
  ASSUME PM!TypeOK, plan' = [plan EXCEPT !.status = "cancelled", !.isActive = FALSE]
  PROVE  plan' \in PM!Plan /\ plan'.status = "cancelled"
BY DEF PM!TypeOK, PM!Plan, PM!PlanStatus

LEMMA DateOfPlan ==
  ASSUME PM!TypeOK, NEW d \in Dates, plan' = [plan EXCEPT !.plannedDate = d]
  PROVE  plan' \in PM!Plan /\ plan'.status = plan.status
BY DEF PM!TypeOK, PM!Plan

LEMMA AssignmentOfPlan ==
  ASSUME PM!TypeOK, NEW a \in BOOLEAN, plan' = [plan EXCEPT !.assigned = a]
  PROVE  plan' \in PM!Plan /\ plan'.status = plan.status
BY DEF PM!TypeOK, PM!Plan

\* A handler that writes only the plan, and then ends or goes on.
LEMMA PlanWriteKeeps ==
  ASSUME PlanInv, UNCHANGED horizon, NEW c \in Callers, OnlyCall(c),
         UNCHANGED <<occurrence, orders>>,
         plan' \in PM!Plan, plan'.status # "absent",
         pm[c].step \notin {"idle", "order", "link"}, pm[c].op # "create",
         pm'[c].op \in {pm[c].op, "none"}, pm'[c].op = "none" <=> pm'[c].step = "idle",
         ~pm[c].assigned => Ordering(pm[c])'
  PROVE  /\ PlanInv'
         /\ OrdersInv /\ Alone' /\ ~plan'.assigned => OrdersInv'
         /\ NoInsert
<1>1. PM!TypeOK' /\ NoInsert
  BY DEF PlanInv, PM!TypeOK, OnlyCall, NoInsert, Scheduled, Due, PM!Exists
<1>2. PlanInv'
  BY <1>1, PlanKeeps DEF PlanInv
<1>3. ASSUME OrdersInv, Alone', ~plan'.assigned
      PROVE  OrdersInv'
  <2>1. \A e \in Dates : Settled(e)
    BY <1>3, PendingHere DEF Pending
  <2>2. \A e \in Dates : /\ ~occurrence'[e].assigned
                         /\ ~PM!Exists(e)' => occurrence'[e].approval = "pending_approval"
                         /\ Settled(e)'
    BY <1>3, <2>1 DEF OrdersInv, Settled, PM!Exists
  <2>3. Ordering(pm[c])'
    BY <1>3 DEF OrdersInv, Ordering
  <2>. QED BY <1>3, <2>2, <2>3, OrdersKeep
<1>. QED BY <1>1, <1>2, <1>3

LEMMA RejectPlanKeeps ==
  ASSUME PlanInv, UNCHANGED horizon, NEW c \in Callers, PM!RejectPlan(c)
  PROVE  PlanKept
<1>1. /\ PM!TypeOK /\ pm[c].op = "reject" /\ pm[c].step = "plan" /\ Finished(c) /\ OnlyCall(c)
      /\ plan' \in PM!Plan /\ plan'.status = "rejected"
      /\ plan.status # "absent" /\ UNCHANGED <<occurrence, orders>>
  BY FinishEffect, RejectionOfPlan DEF PlanInv, PM!RejectPlan, PM!Is, Finished
<1>2. /\ pm[c].step \notin {"idle", "order", "link"} /\ pm[c].op # "create"
      /\ pm'[c].op \in {pm[c].op, "none"} /\ (pm'[c].op = "none" <=> pm'[c].step = "idle")
      /\ Ordering(pm[c])' /\ Archiving(pm[c])'
  BY <1>1 DEF Finished, Ordering, Archiving
<1>3. /\ PlanInv'
      /\ OrdersInv /\ Alone' /\ ~plan'.assigned => OrdersInv'
      /\ NoInsert
  BY <1>1, <1>2, PlanWriteKeeps
<1>4. ArchivedInv /\ Alone' => ArchivedInv'
  BY <1>1, <1>2, <1>3, ArchivedKeep
<1>. QED BY <1>3, <1>4 DEF PlanKept

LEMMA UpdatePlanKeeps ==
  ASSUME PlanInv, UNCHANGED horizon, NEW c \in Callers, PM!UpdatePlan(c)
  PROVE  PlanKept
<1>1. /\ PM!TypeOK /\ pm[c].op = "update" /\ pm[c].step = "plan" /\ Finished(c) /\ OnlyCall(c)
      /\ pm[c].day \in Dates /\ UNCHANGED <<occurrence, orders>> /\ plan.status # "absent"
  BY FinishEffect DEF PlanInv, PM!UpdatePlan, PM!Is, Finished, PM!TypeOK, PM!PMCall
<1>2. PICK d \in PM!Given(pm[c].todo, plan.plannedDate) :
        plan' = [plan EXCEPT !.plannedDate = d,
                             !.recurrence = IF pm[c].recurrence = {} THEN @
                                                                     ELSE pm[c].recurrence]
  BY DEF PM!UpdatePlan
<1>3. /\ d \in Dates /\ plan \in PM!Plan
      /\ plan.recurrence \in PM!Optional(Recurrences)
      /\ pm[c].recurrence \in PM!Optional(Recurrences)
  BY <1>1 DEF PM!TypeOK, PM!Plan, PM!PMCall, PM!Given
<1>4. plan' \in PM!Plan /\ plan'.status = plan.status
  BY <1>2, <1>3 DEF PM!Plan
<1>5. /\ pm[c].step \notin {"idle", "order", "link"} /\ pm[c].op # "create"
      /\ pm'[c].op \in {pm[c].op, "none"} /\ (pm'[c].op = "none" <=> pm'[c].step = "idle")
      /\ Ordering(pm[c])' /\ Archiving(pm[c])'
  BY <1>1 DEF Finished, Ordering, Archiving
<1>6. /\ PlanInv'
      /\ OrdersInv /\ Alone' /\ ~plan'.assigned => OrdersInv'
      /\ NoInsert
  BY <1>1, <1>4, <1>5, PlanWriteKeeps
<1>7. ArchivedInv /\ Alone' => ArchivedInv'
  BY <1>1, <1>4, <1>5, <1>6, ArchivedKeep
<1>. QED BY <1>6, <1>7 DEF PlanKept

LEMMA ArchivePlanKeeps ==
  ASSUME PlanInv, UNCHANGED horizon, NEW c \in Callers, PM!ArchivePlan(c)
  PROVE  PlanKept
<1>1. /\ PM!TypeOK /\ pm[c].op = "archive" /\ pm[c].step = "cancel" /\ pm[c].todo = {}
      /\ Finished(c) /\ OnlyCall(c)
      /\ plan' \in PM!Plan /\ plan'.status = "cancelled"
      /\ UNCHANGED <<occurrence, orders>>
  BY FinishEffect, CancellationOfPlan DEF PlanInv, PM!ArchivePlan, PM!Is, Finished
<1>2. /\ pm[c].step \notin {"idle", "order", "link"} /\ pm[c].op # "create"
      /\ pm'[c].op \in {pm[c].op, "none"} /\ (pm'[c].op = "none" <=> pm'[c].step = "idle")
      /\ Ordering(pm[c])'
  BY <1>1 DEF Finished, Ordering
<1>3. /\ PlanInv'
      /\ OrdersInv /\ Alone' /\ ~plan'.assigned => OrdersInv'
      /\ NoInsert
  BY <1>1, <1>2, PlanWriteKeeps
<1>4. ASSUME ArchivedInv, Alone'
      PROVE  ArchivedInv'
  <2>1. \A d \in Dates : ~Due(d)'
    BY <1>1, <1>3, <1>4 DEF ArchivedInv, Archiving, NoInsert, Due
  <2>3. \A e \in Callers : pm'[e].op = "none"
    <3>1. \A e \in Callers \ {c} : pm[e].step = "idle" /\ pm[e].op = "none"
      BY <1>1, <1>4 DEF ArchivedInv, Alone, PM!Busy, PlanInv
    <3>. QED BY <1>1, <3>1 DEF OnlyCall, Finished
  <2>4. \A e \in Callers : Archiving(pm[e])'
    BY <2>3 DEF Archiving
  <2>. QED BY <1>4, <2>1, <2>4 DEF ArchivedInv
<1>. QED BY <1>3, <1>4 DEF PlanKept

LEMMA SkipPlanKeeps ==
  ASSUME PlanInv, UNCHANGED horizon, NEW c \in Callers, PM!SkipPlan(c)
  PROVE  PlanKept
<1>1. /\ PM!TypeOK /\ pm \in [Callers -> PM!PMCall] /\ pm[c] \in PM!PMCall
      /\ pm[c].op = "skip" /\ pm[c].step = "plan" /\ UNCHANGED <<occurrence, orders>>
      /\ pm[c].day \in Dates /\ plan.status # "absent"
  BY DEF PlanInv, PM!TypeOK, PM!PMCall, PM!SkipPlan, PM!Is
<1>2. CASE PM!NextDates(c) = {}
  <2>1. PM!Finish(c) /\ UNCHANGED plan
    BY <1>2 DEF PM!SkipPlan
  <2>. QED BY <1>1, <2>1, EndKeeps DEF PlanKept
<1>3. CASE PM!NextDates(c) # {}
  <2>1. PICK d \in PM!NextDates(c) :
          /\ PM!IsFirst(d, PM!NextDates(c))
          /\ plan' = [plan EXCEPT !.plannedDate = d]
          /\ pm' = [pm EXCEPT ![c].step = "save", ![c].day = d]
    BY <1>3 DEF PM!SkipPlan
  <2>2. d \in Dates
    <3>1. pm[c].recurrence \in PM!Optional(Recurrences)
      BY <1>1 DEF PM!PMCall
    <3>. QED BY <2>1, <3>1, DatesOfRecurrence DEF PM!NextDates, PM!generateOccurrenceDates
  <2>3. plan' \in PM!Plan /\ plan'.status = plan.status
    BY <1>1, <2>1, <2>2, DateOfPlan
  <2>4. /\ OnlyCall(c) /\ pm'[c].op = "skip" /\ pm'[c].step = "save" /\ pm'[c].day = d
        /\ pm'[c].assigned = pm[c].assigned
    <3>. DEFINE k == [pm[c] EXCEPT !.step = "save", !.day = d]
    <3>1. /\ k \in PM!PMCall /\ k.op = "skip" /\ k.step = "save" /\ k.day = d
          /\ k.assigned = pm[c].assigned
      BY <1>1, <2>2 DEF PM!PMCall
    <3>2. pm' = [pm EXCEPT ![c] = k]
      BY <1>1, <2>1
    <3>. HIDE DEF k
    <3>. QED BY <1>1, <3>1, <3>2 DEF OnlyCall
  <2>5. /\ pm[c].step \notin {"idle", "order", "link"} /\ pm[c].op # "create"
        /\ pm'[c].op \in {pm[c].op, "none"} /\ (pm'[c].op = "none" <=> pm'[c].step = "idle")
        /\ ~pm[c].assigned => Ordering(pm[c])'
    BY <1>1, <2>4 DEF Ordering
  <2>6. /\ PlanInv'
        /\ OrdersInv /\ Alone' /\ ~plan'.assigned => OrdersInv'
        /\ NoInsert
    BY <1>1, <2>3, <2>4, <2>5, PlanWriteKeeps
  <2>7. ASSUME ArchivedInv, Alone'
        PROVE  ArchivedInv'
    <3>1. Archiving(pm[c])'
      BY <1>1, <2>3, <2>4, <2>7 DEF ArchivedInv, Archiving
    <3>. QED BY <2>3, <2>4, <2>6, <2>7, <3>1, ArchivedKeep
  <2>. QED BY <2>6, <2>7 DEF PlanKept
<1>. QED BY <1>2, <1>3

-----------------------------------------------------------------------------
\* The insertions of the two skips.
LEMMA NewOccurrence ==
  /\ PM!NoOccurrence \in PM!Occurrence /\ PM!NoOccurrence.approval = "pending_approval"
  /\ PM!NoOccurrence.assigned = FALSE
BY MaintenanceAssumption
   DEF PM!NoOccurrence, PM!Occurrence, PM!OccurrenceStatus, PM!ApprovalState

LEMMA SkipCreateKeeps ==
  ASSUME PlanInv, UNCHANGED horizon, NEW c \in Callers, PM!SkipCreate(c)
  PROVE  PlanKept
<1>0. PICK d \in Dates : d = pm[c].day
  BY DEF PlanInv, PM!TypeOK, PM!PMCall
<1>1. /\ PM!TypeOK /\ pm[c].op = "skip" /\ pm[c].step = "save" /\ UNCHANGED <<plan, orders>>
      /\ plan.status # "absent"
  BY DEF PlanInv, PM!SkipCreate, PM!Is
<1>2. CASE PM!Exists(d)
  <2>1. PM!Finish(c) /\ UNCHANGED occurrence
    BY <1>0, <1>2 DEF PM!SkipCreate
  <2>. QED BY <1>1, <2>1, EndKeeps DEF PlanKept
<1>3. CASE ~PM!Exists(d)
  <2>. DEFINE o == [PM!NoOccurrence EXCEPT !.status = "scheduled", !.approval = "approved"]
  <2>1. /\ o \in PM!Occurrence /\ o.status = "scheduled" /\ o.approval = "approved"
        /\ ~o.assigned
    BY NewOccurrence DEF PM!Occurrence, PM!OccurrenceStatus, PM!ApprovalState
  <2>2. occurrence' = [occurrence EXCEPT ![d] = o] /\ PM!Go(c, "order")
    BY <1>0, <1>3 DEF PM!SkipCreate
  <2>. HIDE DEF o
  <2>3. OnlyOccurrence(d) /\ occurrence'[d] = o /\ Moved(c, "order") /\ OnlyCall(c)
    BY <1>1, <2>1, <2>2, GoEffect DEF OnlyOccurrence, PM!TypeOK, Steps, Moved
  <2>4. PM!TypeOK'
    BY <1>1, <2>3 DEF PM!TypeOK, OnlyCall, OnlyOccurrence
  <2>5. PlanInv'
    BY <1>1, <2>3, <2>4, PlanKeeps DEF Moved
  <2>6. ASSUME OrdersInv, Alone', ~plan'.assigned
        PROVE  OrdersInv'
    <3>1. \A e \in Dates : Settled(e)
      BY <1>1, <2>3, <2>6, PendingHere DEF Pending
    <3>2. orders[d] = 0 /\ ~pm[c].assigned
      BY <1>3, <2>6, <3>1 DEF OrdersInv, Ordering, Settled
    <3>3. ASSUME NEW e \in Dates
          PROVE  /\ ~occurrence'[e].assigned
                 /\ ~PM!Exists(e)' => occurrence'[e].approval = "pending_approval"
                 /\ Settled(e)' \/ Pending(c, e)'
      <4>1. CASE e = d
        BY <1>0, <2>1, <2>3, <4>1 DEF PM!Exists, Pending, Moved
      <4>2. CASE e # d
        BY <1>1, <2>3, <2>6, <3>1, <4>2 DEF OnlyOccurrence, OrdersInv, Settled, PM!Exists
      <4>. QED BY <4>1, <4>2
    <3>4. Ordering(pm[c])'
      BY <1>0, <1>1, <2>1, <2>3, <3>2 DEF Ordering, Moved, PM!Exists
    <3>. QED BY <1>1, <2>3, <2>6, <3>3, <3>4, OrdersKeep
  <2>7. ASSUME ArchivedInv, Alone'
        PROVE  ArchivedInv'
    <3>1. plan'.status # "cancelled"
      BY <1>1, <2>7 DEF ArchivedInv, Archiving
    <3>2. \A e \in Callers \ {c} : pm[e].step = "idle" /\ pm[e].op = "none"
      BY <1>1, <2>7 DEF ArchivedInv, Alone, PM!Busy, PlanInv
    <3>3. \A e \in Callers : Archiving(pm[e])'
      BY <1>1, <2>3, <3>1, <3>2 DEF Archiving, OnlyCall, Moved
    <3>. QED BY <2>7, <3>1, <3>3 DEF ArchivedInv
  <2>. QED BY <2>5, <2>6, <2>7 DEF PlanKept
<1>. QED BY <1>2, <1>3

LEMMA SkipOccurrenceNextKeeps ==
  ASSUME PlanInv, UNCHANGED horizon, NEW c \in Callers, PM!SkipOccurrenceNext(c)
  PROVE  PlanKept
<1>1. /\ PM!TypeOK /\ pm[c].op = "skipOccurrence" /\ pm[c].step = "save"
      /\ UNCHANGED <<plan, orders>> /\ Finished(c) /\ OnlyCall(c) /\ plan.status # "absent"
      /\ pm[c].assigned \in BOOLEAN /\ occurrence \in [Dates -> PM!Occurrence]
  BY FinishEffect
     DEF PlanInv, PM!SkipOccurrenceNext, PM!Is, Finished, PM!TypeOK, PM!PMCall
<1>. DEFINE l == plan.status = "cancelled"
            o == [PM!NoOccurrence EXCEPT !.status = "scheduled", !.assigned = pm[c].assigned,
                                         !.late = l]
            new == {e \in Dates : e \in pm[c].todo /\ ~PM!Exists(e)}
<1>2. /\ o \in PM!Occurrence /\ o.status = "scheduled" /\ o.approval = "pending_approval"
      /\ o.assigned = pm[c].assigned /\ (plan.status = "cancelled" => o.late)
  BY <1>1, NewOccurrence DEF PM!Occurrence, PM!OccurrenceStatus
<1>3. occurrence' = [e \in Dates |-> IF e \in new THEN o ELSE occurrence[e]]
  BY DEF PM!SkipOccurrenceNext
<1>4. \A e \in new : ~PM!Exists(e)
  OBVIOUS
<1>. HIDE DEF o, new
<1>5. /\ occurrence' \in [Dates -> PM!Occurrence]
      /\ \A e \in Dates : occurrence'[e] = IF e \in new THEN o ELSE occurrence[e]
  BY <1>1, <1>2, <1>3
<1>6. PM!TypeOK'
  BY <1>1, <1>5 DEF PM!TypeOK, OnlyCall
<1>7. PlanInv'
  BY <1>1, <1>6, PlanKeeps DEF Finished
<1>8. ASSUME OrdersInv, Alone', ~plan'.assigned
      PROVE  OrdersInv'
  <2>1. \A e \in Dates : Settled(e)
    BY <1>1, <1>8, PendingHere DEF Pending
  <2>2. ~o.assigned
    BY <1>2, <1>8 DEF OrdersInv, Ordering
  <2>3. ASSUME NEW e \in Dates
        PROVE  /\ ~occurrence'[e].assigned
               /\ ~PM!Exists(e)' => occurrence'[e].approval = "pending_approval"
               /\ Settled(e)'
    <3>1. CASE e \in new
      <4>1. orders[e] = 0
        BY <1>4, <1>8, <2>1, <3>1 DEF OrdersInv, Settled
      <4>. QED BY <1>1, <1>2, <1>5, <2>2, <3>1, <4>1 DEF Settled
    <3>2. CASE e \notin new
      BY <1>1, <1>5, <1>8, <2>1, <3>2 DEF OrdersInv, Settled, PM!Exists
    <3>. QED BY <3>1, <3>2
  <2>4. Ordering(pm[c])'
    BY <1>1 DEF Finished, Ordering
  <2>. QED BY <1>1, <1>8, <2>3, <2>4, OrdersKeep
<1>9. ASSUME ArchivedInv, Alone'
      PROVE  ArchivedInv'
  <2>1. \A e \in Callers \ {c} : pm[e].step = "idle" /\ pm[e].op = "none"
    BY <1>1, <1>9 DEF ArchivedInv, Alone, PM!Busy, PlanInv
  <2>2. \A e \in Callers : Archiving(pm[e])'
    BY <1>1, <2>1 DEF Archiving, OnlyCall, Finished
  <2>3. plan.status = "cancelled" => \A e \in Dates : ~Due(e)'
    BY <1>2, <1>5, <1>9 DEF ArchivedInv, Due, Scheduled
  <2>. QED BY <1>1, <1>9, <2>2, <2>3 DEF ArchivedInv
<1>. QED BY <1>7, <1>8, <1>9 DEF PlanKept

\* Assignments touch neither the status nor the date of anything.
OnlyAssigned ==
  /\ PM!TypeOK' /\ UNCHANGED <<orders, pm>>
  /\ plan'.status = plan.status
  /\ \A d \in Dates : /\ occurrence'[d].status = occurrence[d].status
                      /\ occurrence'[d].late = occurrence[d].late

LEMMA AssignKeeps ==
  ASSUME PlanInv, UNCHANGED horizon, PM!Assign
  PROVE  PlanInv' /\ (ArchivedInv => ArchivedInv')
<1>0. OnlyAssigned
  <2>1. ASSUME NEW a \in BOOLEAN, PM!AssignPlan(a)
        PROVE  OnlyAssigned
    BY <2>1, AssignmentOfPlan DEF OnlyAssigned, PM!AssignPlan, PlanInv, PM!TypeOK
  <2>2. ASSUME NEW a \in BOOLEAN, NEW d \in Dates, PM!AssignOccurrence(d, a)
        PROVE  OnlyAssigned
    <3>1. /\ OnlyOccurrence(d) /\ occurrence'[d].status = occurrence[d].status
          /\ occurrence'[d].late = occurrence[d].late
      BY <2>2, AssignmentWrite DEF PM!AssignOccurrence, PlanInv
    <3>. QED BY <2>2, <3>1 DEF OnlyAssigned, PM!AssignOccurrence, PlanInv, PM!TypeOK,
                               OnlyOccurrence
  <2>. QED BY <2>1, <2>2 DEF PM!Assign
<1>1. /\ PM!TypeOK' /\ UNCHANGED <<orders, pm>>
      /\ plan'.status = plan.status
      /\ \A d \in Dates : /\ occurrence'[d].status = occurrence[d].status
                          /\ occurrence'[d].late = occurrence[d].late
  BY <1>0 DEF OnlyAssigned
<1>2. \A d \in Dates : /\ Scheduled(d)' <=> Scheduled(d)
                       /\ Due(d)' <=> Due(d)
                       /\ PM!Exists(d)' <=> PM!Exists(d)
  BY <1>1 DEF Scheduled, Due, PM!Exists
<1>3. PlanInv'
  BY <1>1, <1>2 DEF PlanInv
<1>4. ASSUME ArchivedInv
      PROVE  ArchivedInv'
  <2>1. Alone'
    BY <1>1, <1>4 DEF ArchivedInv, Alone, PM!Busy
  <2>2. \A e \in Callers : Archiving(pm[e])'
    BY <1>1, <1>2, <1>4 DEF ArchivedInv, Archiving
  <2>. QED BY <1>1, <1>2, <1>4, <2>1, <2>2 DEF ArchivedInv
<1>. QED BY <1>3, <1>4

-----------------------------------------------------------------------------
LEMMA CallKeeps ==
  ASSUME PlanInv, UNCHANGED horizon, NEW c \in Callers, PM!Begin(c) \/ PM!Continue(c)
  PROVE  PlanKept
<1>1. CASE PM!Begin(c)
  <2>1. ASSUME NEW d \in Dates, NEW n \in PM!Optional(Dates),
               PM!SkipOccurrence(c, d, n)
        PROVE  PlanKept
    <3>1. n \in SUBSET Dates
      BY DEF PM!Optional
    <3>. QED BY <2>1, <3>1, SkipOccurrenceKeeps
  <2>2. ASSUME NEW d \in Dates, PM!approve(c, d) \/ PM!approveOccurrence(c, d)
        PROVE  PlanKept
    BY <2>2, ApproveKeeps DEF PM!approve, PM!approveOccurrence
  <2>. QED BY <1>1, <2>1, <2>2, CreatePlanKeeps, UpdateKeepsPlan, RejectKeepsPlan, ArchiveKeeps,
              SkipKeeps DEF PM!Begin
<1>2. CASE PM!Continue(c)
  BY <1>2, CreateOccurrenceKeeps, CreateDoneKeeps, GenerateKeeps, LinkOrderKeeps,
     RejectOccurrenceKeeps, RejectPlanKeeps, UpdatePlanKeeps, ClashKeeps, ArchiveOccurrenceKeeps,
     ArchivePlanKeeps, SkipCancelKeeps, SkipPlanKeeps, SkipCreateKeeps,
     SkipOccurrenceCancelKeeps, SkipOccurrenceNextKeeps DEF PM!Continue
<1>. QED BY <1>1, <1>2

\* What each workload grants.
LEMMA WorkloadFacts ==
  /\ DOMAIN PlanWorkloads = {"plansOverlap", "planInTurn", "planArchived"}
  /\ LET w == PlanWorkloads["plansOverlap"] IN ~w.fails /\ ~w.assigns
  /\ LET w == PlanWorkloads["planInTurn"] IN w.alone /\ ~w.fails /\ ~w.assigns
  /\ LET w == PlanWorkloads["planArchived"] IN w.alone
BY DEF PlanWorkloads

LEMMA TickKeeps ==
  ASSUME MaintenanceInv, PM!Tick, UNCHANGED workload
  PROVE  MaintenanceInv'
<1>1. UNCHANGED <<plan, occurrence, orders, pm, workload>> /\ horizon' \in Dates
  BY DEF PM!Tick
<1>2. PlanInv'
  BY <1>1 DEF MaintenanceInv, PlanInv, PM!TypeOK, PM!Exists
<1>3. workload = "planInTurn" => OrdersInv'
  BY <1>1 DEF MaintenanceInv, OrdersInv, Alone, PM!Busy, PM!Exists, Settled, Pending, Ordering
<1>4. workload = "planArchived" => ArchivedInv'
  BY <1>1 DEF MaintenanceInv, ArchivedInv, Alone, PM!Busy, Due, Scheduled, Archiving
<1>. QED BY <1>1, <1>2, <1>3, <1>4 DEF MaintenanceInv

LEMMA PlanStepKeeps ==
  ASSUME MaintenanceInv, PlanStep
  PROVE  MaintenanceInv'
<1>. DEFINE w == PlanWorkloads[workload]
            act == /\ \/ w.assigns /\ PM!Assign
                      \/ \E c \in Callers :
                           PM!Begin(c) \/ PM!Continue(c) \/ (w.fails /\ PM!Fail(c))
                   /\ plan'.assigned => w.assigns
                   /\ w.alone => Alone'
                   /\ UNCHANGED horizon
<1>1. /\ workload \in {"plansOverlap", "planInTurn", "planArchived"} /\ UNCHANGED workload
      /\ PlanInv
      /\ PM!Tick \/ act
  BY WorkloadFacts DEF PlanStep, MaintenanceInv, Alone
<1>2. /\ workload = "plansOverlap" => ~w.fails /\ ~w.assigns
      /\ workload = "planInTurn" => w.alone /\ ~w.fails /\ ~w.assigns
      /\ workload = "planArchived" => w.alone
  BY WorkloadFacts
<1>. HIDE DEF w
<1>3. CASE act /\ PlanKept
  <2>1. PlanInv'
    BY <1>3 DEF PlanKept
  <2>2. workload = "planInTurn" => OrdersInv'
    BY <1>2, <1>3 DEF PlanKept, MaintenanceInv
  <2>3. workload = "planArchived" => ArchivedInv'
    BY <1>2, <1>3 DEF PlanKept, MaintenanceInv
  <2>. QED BY <1>1, <2>1, <2>2, <2>3 DEF MaintenanceInv
<1>4. CASE act /\ w.assigns /\ PM!Assign
  <2>1. workload = "planArchived" /\ UNCHANGED horizon
    BY <1>1, <1>2, <1>4
  <2>2. PlanInv' /\ ArchivedInv'
    BY <1>1, <1>4, <2>1, AssignKeeps DEF MaintenanceInv
  <2>. QED BY <1>1, <2>1, <2>2 DEF MaintenanceInv
<1>5. ASSUME act, NEW c \in Callers, w.fails, PM!Fail(c)
      PROVE  MaintenanceInv'
  <2>1. workload = "planArchived" /\ Alone' /\ UNCHANGED horizon
    BY <1>1, <1>2, <1>5
  <2>2. PlanInv' /\ ArchivedInv'
    BY <1>1, <1>5, <2>1, EndKeeps DEF MaintenanceInv, PM!Fail
  <2>. QED BY <1>1, <2>1, <2>2 DEF MaintenanceInv
<1>6. ASSUME act, NEW c \in Callers, PM!Begin(c) \/ PM!Continue(c)
      PROVE  PlanKept
  BY <1>1, <1>6, CallKeeps
<1>. QED BY <1>1, <1>3, <1>4, <1>5, <1>6, TickKeeps

LEMMA PlansHold == Spec => []MaintenanceInv
<1>1. Init => MaintenanceInv
  <2>. SUFFICES ASSUME Init PROVE MaintenanceInv
    OBVIOUS
  <2>1. /\ plan = PM!NoPlan /\ occurrence = [d \in Dates |-> PM!NoOccurrence]
        /\ orders = [d \in Dates |-> 0] /\ pm = [c \in Callers |-> PM!AtRest]
        /\ horizon \in Dates
    BY DEF Init, PM!Init
  <2>2. plan \in PM!Plan /\ plan.status = "absent" /\ ~plan.assigned
    BY <2>1, DateFacts DEF PM!NoPlan, PM!Plan, PM!PlanStatus
  <2>3. \A d \in Dates : /\ orders[d] = 0 /\ occurrence[d].status = "absent"
                         /\ occurrence[d].approval = "pending_approval"
                         /\ ~occurrence[d].assigned
    BY <2>1 DEF PM!NoOccurrence
  <2>4. \A c \in Callers : /\ pm[c].op = "none" /\ pm[c].step = "idle" /\ ~pm[c].assigned
    BY <2>1, RestFacts
  <2>5. PM!TypeOK
    BY <2>1, <2>2, NewOccurrence, RestFacts, MaintenanceAssumption DEF PM!TypeOK
  <2>6. PlanInv
    BY <2>3, <2>4, <2>5 DEF PlanInv, PM!Exists
  <2>7. Alone
    BY <2>4 DEF Alone, PM!Busy
  <2>8. OrdersInv
    BY <2>2, <2>3, <2>4, <2>7 DEF OrdersInv, Settled, Ordering
  <2>9. ArchivedInv
    BY <2>2, <2>4, <2>7 DEF ArchivedInv, Archiving
  <2>. QED BY <2>6, <2>8, <2>9 DEF MaintenanceInv
<1>2. MaintenanceInv /\ [Next]_all => MaintenanceInv'
  <2>. SUFFICES ASSUME MaintenanceInv, [Next]_all PROVE MaintenanceInv'
    OBVIOUS
  <2>1. CASE PlanStep
    BY <2>1, PlanStepKeeps
  <2>2. CASE RequestStep \/ UNCHANGED all
    <3>1. UNCHANGED <<plan, occurrence, orders, pm, horizon, workload>>
      BY <2>2 DEF RequestStep, all, planVars
    <3>2. PlanInv'
      BY <3>1 DEF MaintenanceInv, PlanInv, PM!TypeOK, PM!Exists
    <3>3. workload = "planInTurn" => OrdersInv'
      BY <3>1 DEF MaintenanceInv, OrdersInv, Alone, PM!Busy, PM!Exists, Settled, Pending, Ordering
    <3>4. workload = "planArchived" => ArchivedInv'
      BY <3>1 DEF MaintenanceInv, ArchivedInv, Alone, PM!Busy, Due, Scheduled, Archiving
    <3>. QED BY <3>1, <3>2, <3>3, <3>4 DEF MaintenanceInv
  <2>. QED BY <2>1, <2>2 DEF Next
<1>. QED BY <1>1, <1>2, PTL DEF Spec

\* Every document and handler of both parts keeps its type: no status outside
\* its schema, no edit and no order beyond its bound, no date off the calendar.
THEOREM MaintenanceTypes == Spec => []TypeOK
<1>1. RequestInv /\ RequestsInTurn /\ MaintenanceInv => TypeOK
  BY DEF RequestInv, MaintenanceInv, PlanInv, TypeOK
<1>. QED BY <1>1, RequestsHold, PlansHold, PTL

\* Requests that are handled one at a time and not interrupted give an
\* occurrence of the plan at most one work order, linked once it is approved.
THEOREM OccurrenceOrderedOnce == Spec => []OneOrderPerOccurrence
<1>1. MaintenanceInv => OneOrderPerOccurrence
  <2>. SUFFICES ASSUME PlanInv, OrdersInv, NEW d \in Dates
                PROVE  /\ orders[d] <= 1
                       /\ PM!Busy = {} /\ occurrence[d].approval = "approved" =>
                            occurrence[d].order = 1 /\ orders[d] = 1
    BY DEF MaintenanceInv, OneOrderPerOccurrence, PM!OneOrderPerOccurrence
  <2>1. CASE Settled(d)
    BY <2>1 DEF Settled
  <2>2. ASSUME NEW c \in Callers, Pending(c, d)
        PROVE  c \in PM!Busy /\ orders[d] \in {0, 1}
    BY <2>2 DEF OrdersInv, Ordering, Pending, PM!Busy
  <2>. QED BY <2>1, <2>2 DEF OrdersInv
<1>. QED BY <1>1, PlansHold, PTL

\* Requests of every kind, one at a time, stopped anywhere and repeated: an
\* archived plan has no occurrence left that could still come due, but for those
\* the route that skips one occurrence inserted into it since.
THEOREM ArchiveIsComplete == Spec => []ArchivedIsQuiet
<1>1. MaintenanceInv => ArchivedIsQuiet
  BY DEF MaintenanceInv, ArchivedInv, Due, Scheduled, ArchivedIsQuiet, PM!ArchivedIsQuiet
<1>. QED BY <1>1, PlansHold, PTL

=============================================================================
