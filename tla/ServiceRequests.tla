-------------------------- MODULE ServiceRequests --------------------------
(***************************************************************************)
(* One service request: intake by staff or by a manager, editing, the      *)
(* decision, the conversion into a work order, the rating and the          *)
(* attachments.  A handler reads the document, checks it and saves it in   *)
(* separate awaits.  save writes only the modified paths and is            *)
(* conditional on the version read only when it assigns an array           *)
(* (attachmentUploadIds): Mongoose then matches and advances __v.          *)
(***************************************************************************)
EXTENDS Naturals

CONSTANTS Uploads,   \* uploads with purpose service-request-attachment
          Handlers,  \* request handlers that may be in flight
          MaxEdits   \* bound on the edits of the description

VARIABLES request,   \* the service request document
          converted, \* status of the work order with this serviceRequestId
          facts,     \* how often each event was appended to the outbox
          handler,   \* the handlers in flight
          attached,  \* uploads whose attachment was acknowledged
          decidedOn  \* the edits the request had when a decision was committed

vars == <<request, converted, facts, handler, attached, decidedOn>>

Facts == {"ServiceRequestCreated", "ServiceRequestApproved",
          "ServiceRequestRejected", "ServiceRequestRated"}
RequestStatus == {"none", "pending", "approved", "rejected"}
Request == [status : RequestStatus,
            edits : 0..MaxEdits,
            asset : BOOLEAN,         \* assetId is set
            linked : BOOLEAN,        \* workOrderId is set
            rated : BOOLEAN,
            uploads : SUBSET Uploads,
            version : Nat]

HandlerOps == {"create", "update", "approve", "reject", "rate", "attach"}
\* seen: the document as the handler read it.
Handler == [op : HandlerOps \cup {"none"},
            step : {"idle", "read", "order", "link", "history"},
            upload : SUBSET Uploads,
            seen : Request]

NoRequest == [status |-> "none", edits |-> 0, asset |-> FALSE, linked |-> FALSE,
              rated |-> FALSE, uploads |-> {}, version |-> 0]
Rest == [op |-> "none", step |-> "idle", upload |-> {}, seen |-> NoRequest]

TypeOK ==
  /\ request \in Request
  /\ converted \in {"none", "open", "completed"}
  /\ facts \in [Facts -> Nat]
  /\ handler \in [Handlers -> Handler]
  /\ attached \in SUBSET Uploads
  /\ decidedOn \in SUBSET (0..MaxEdits)

Init ==
  /\ request = NoRequest
  /\ converted = "none"
  /\ facts = [f \in Facts |-> 0]
  /\ handler = [h \in Handlers |-> Rest]
  /\ attached = {}
  /\ decidedOn = {}

-----------------------------------------------------------------------------
Append(f) == facts' = [facts EXCEPT ![f] = @ + 1]
At(h, op, step) == handler[h].op = op /\ handler[h].step = step
Go(h, step) == handler' = [handler EXCEPT ![h].step = step]
Answer(h) == handler' = [handler EXCEPT ![h] = Rest]

\* The handler throws or its process dies; what it committed stays.
Fail(h) ==
  /\ handler[h].step # "idle"
  /\ Answer(h)
  /\ UNCHANGED <<request, converted, facts, attached, decidedOn>>

\* create by a role that is no manager: the pending request and its event in
\* one transaction (createPendingWithOutbox).
CreatePending(h, asset, uploads) ==
  /\ request.status = "none" /\ handler[h].step = "idle"
  /\ request' = [NoRequest EXCEPT !.status = "pending", !.asset = asset,
                                  !.uploads = uploads]
  /\ Append("ServiceRequestCreated")
  /\ UNCHANGED <<converted, handler, attached, decidedOn>>

\* create by a manager: the request is inserted approved; its work order and
\* the link with the event are two later commits.
CreateApproved(h, asset, uploads) ==
  /\ request.status = "none" /\ handler[h].step = "idle"
  /\ request' = [NoRequest EXCEPT !.status = "approved", !.asset = asset,
                                  !.uploads = uploads]
  /\ handler' = [handler EXCEPT ![h] = [op |-> "create", step |-> "order", upload |-> {},
                                        seen |-> request']]
  /\ decidedOn' = {0}
  /\ UNCHANGED <<converted, facts, attached>>

\* createWorkOrder -> createFromServiceRequest: the one already there, or a new one.
createFromServiceRequest(h) ==
  /\ At(h, "create", "order")
  /\ converted' = IF converted = "none" THEN "open" ELSE converted
  /\ Go(h, "link")
  /\ UNCHANGED <<request, facts, attached, decidedOn>>

LinkWorkOrder(h) ==
  /\ At(h, "create", "link")
  /\ request' = [request EXCEPT !.linked = TRUE]
  /\ Append("ServiceRequestApproved")
  /\ Answer(h)
  /\ UNCHANGED <<converted, attached, decidedOn>>

\* External: the work-order module completes the order.
CompleteWorkOrder ==
  /\ converted = "open"
  /\ converted' = "completed"
  /\ UNCHANGED <<request, facts, handler, attached, decidedOn>>

\* Mutant: rating only looks at the request's own status.
AdmitsUnfinished(op) ==
  /\ request.status # "none"
  /\ \/ op \in {"update", "approve", "reject"} /\ request.status = "pending"
     \/ op = "rate" /\ ~request.rated
     \/ op = "attach"

-----------------------------------------------------------------------------
\* Which document an operation goes on with, by the checks of its handler.
\* (A staff member never passes update: requestedBy is populated and compared
\* as a document.)
Admits(op) ==
  /\ request.status # "none"
  /\ \/ op \in {"update", "approve", "reject"} /\ request.status = "pending"
     \/ op = "rate" /\ ~request.rated /\ (request.linked => converted = "completed")
     \/ op = "attach"

Read(h, op, upload) ==
  /\ handler[h].step = "idle"
  /\ Admits(op)
  /\ handler' = [handler EXCEPT ![h] = [op |-> op, step |-> "read", upload |-> upload,
                                        seen |-> request]]
  /\ UNCHANGED <<request, converted, facts, attached, decidedOn>>

update(h) ==
  /\ At(h, "update", "read")
  /\ request' = [request EXCEPT !.edits = handler[h].seen.edits + 1]
  /\ Answer(h)
  /\ UNCHANGED <<converted, facts, attached, decidedOn>>

\* approve: facilityId, locationId and assetId were populated, so toString does
\* not give ids and assertHierarchy throws inside the transaction, which aborts.
approve(h) ==
  /\ At(h, "approve", "read")
  /\ Answer(h)
  /\ UNCHANGED <<request, converted, facts, attached, decidedOn>>

\* reject: the request and its event commit together.  The history entry of a
\* request with an asset is then refused (assetId is a document): the client
\* sees an error for a decision that stands.
reject(h) ==
  /\ At(h, "reject", "read")
  /\ request' = [request EXCEPT !.status = "rejected"]
  /\ Append("ServiceRequestRejected")
  /\ decidedOn' = decidedOn \cup {request.edits}
  /\ IF handler[h].seen.asset THEN Go(h, "history") ELSE Answer(h)
  /\ UNCHANGED <<converted, attached>>

AssetHistoryRefused(h) ==
  /\ handler[h].step = "history"
  /\ Answer(h)
  /\ UNCHANGED <<request, converted, facts, attached, decidedOn>>

\* saveRequestRating: the rating and its event commit together.
rate(h) ==
  /\ At(h, "rate", "read")
  /\ request' = [request EXCEPT !.rated = TRUE]
  /\ Append("ServiceRequestRated")
  /\ Answer(h)
  /\ UNCHANGED <<converted, attached, decidedOn>>

\* Mutant: the array is written without a condition on the version.
attachUnversioned(h) ==
  LET seen == handler[h].seen IN
  /\ At(h, "attach", "read")
  /\ request' = [request EXCEPT !.uploads = seen.uploads \cup handler[h].upload]
  /\ attached' = attached \cup handler[h].upload
  /\ Answer(h)
  /\ UNCHANGED <<converted, facts, decidedOn>>

\* The whole array is assigned, so the save is matched against the version read.
attach(h) ==
  LET seen == handler[h].seen IN
  /\ At(h, "attach", "read")
  /\ IF request.version = seen.version
     THEN /\ request' = [request EXCEPT !.uploads = seen.uploads \cup handler[h].upload,
                                        !.version = @ + 1]
          /\ attached' = attached \cup handler[h].upload
     ELSE UNCHANGED <<request, attached>>
  /\ Answer(h)
  /\ UNCHANGED <<converted, facts, decidedOn>>

Begin(h) ==
  \/ \E asset \in BOOLEAN, u \in SUBSET Uploads :
        (\A v, w \in u : v = w) /\ (CreatePending(h, asset, u) \/ CreateApproved(h, asset, u))
  \/ \E op \in {"approve", "reject", "rate"} : Read(h, op, {})
  \/ request.edits < MaxEdits /\ Read(h, "update", {})
  \/ \E u \in Uploads : u \notin request.uploads /\ Read(h, "attach", {u})

Continue(h) ==
  \/ createFromServiceRequest(h) \/ LinkWorkOrder(h)
  \/ update(h) \/ approve(h) \/ reject(h) \/ AssetHistoryRefused(h)
  \/ rate(h) \/ attach(h)

Next == CompleteWorkOrder \/ \E h \in Handlers : Begin(h) \/ Continue(h) \/ Fail(h)

Spec == Init /\ [][Next]_vars

-----------------------------------------------------------------------------
InFlight == {h \in Handlers : handler[h].step # "idle"}

\* No attachment the client got a 201 for disappears, however additions
\* overlap (request.routes.ts assigns the whole array it read).
AttachmentsKept == attached \subseteq request.uploads

\* Handled one at a time, through any failures: a request is rejected and rated
\* at most once, a rated request that has a work order has it completed, and
\* what was decided on is not edited afterwards.
OneDecision ==
  /\ facts["ServiceRequestRejected"] + facts["ServiceRequestApproved"] <= 1
  /\ facts["ServiceRequestRated"] <= 1
  /\ request.rated /\ request.linked => converted = "completed"
  /\ decidedOn \subseteq {request.edits}
=============================================================================
