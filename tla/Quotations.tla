----------------------------- MODULE Quotations -----------------------------
(***************************************************************************)
(* The quotations vendors submit for their applications to one work order. *)
(* Accepting one first awards its application (VendorApplicationService    *)
(* .updateStatus): it reads the application and the order, saves the order *)
(* under Mongoose's version check, and then rejects the other applications *)
(* and awards its own, without a transaction.  Last it writes the          *)
(* quotation.  A revision is a row of its own and then an update of the    *)
(* quotation.  Only the save of the order is conditional.                  *)
(***************************************************************************)
EXTENDS Naturals, FiniteSets

CONSTANTS Quotes,        \* quotations that may be submitted
          Applications,  \* the vendors' applications to the work order
          Clerks,        \* request handlers that may be in flight
          MaxRevision,   \* bound on the revisions of a quotation
          MaxReopened    \* bound: how often a vendor turns the order down

VARIABLES quote,      \* the Quotation documents
          applied,    \* status of each application
          order,      \* the work order they are all for
          revisions,  \* rows of QuotationRevision: quotation and number
          clerk       \* the handlers in flight

vars == <<quote, applied, order, revisions, clerk>>

QuotationStatus == {"none", "submitted", "under_review", "accepted", "rejected"}
Quotation == [status : QuotationStatus,
              application : SUBSET Applications,   \* the one it quotes for
              current : 1..MaxRevision]   \* currentRevision, whose totals it shows
\* "open" stands for submitted, under_review and rejected, which an award does
\* not tell apart.
ApplicationStatus == {"open", "withdrawn", "awarded"}
Order == [taken : BOOLEAN,            \* not open, or with an assignedVendorId
          reopened : 0..MaxReopened]  \* the vendors that turned it down
ClerkState == [step : {"idle", "application", "order", "save", "others", "award", "write",
                       "insert", "revise"},
               quote : SUBSET Quotes,     \* the quotation it works on
               status : QuotationStatus,  \* the status to write
               revision : 1..MaxRevision,
               version : 0..MaxReopened]  \* of the order it read

NoQuotation == [status |-> "none", application |-> {}, current |-> 1]
Off == [step |-> "idle", quote |-> {}, status |-> "none", revision |-> 1, version |-> 0]

TypeOK ==
  /\ quote \in [Quotes -> Quotation]
  /\ applied \in [Applications -> ApplicationStatus]
  /\ order \in Order
  /\ revisions \subseteq Quotes \X (1..MaxRevision)
  /\ clerk \in [Clerks -> ClerkState]

Init ==
  /\ quote = [q \in Quotes |-> NoQuotation]
  /\ applied = [a \in Applications |-> "open"]
  /\ order = [taken |-> FALSE, reopened |-> 0]
  /\ revisions = {}
  /\ clerk = [c \in Clerks |-> Off]

-----------------------------------------------------------------------------
Done(c) == clerk' = [clerk EXCEPT ![c] = Off]
Start(c, step, q, status, revision) ==
  /\ clerk[c].step = "idle"
  /\ clerk' = [clerk EXCEPT ![c] = [step |-> step, quote |-> {q}, status |-> status,
                                    revision |-> revision, version |-> 0]]

\* The handler throws or its process dies.
Fail(c) ==
  /\ clerk[c].step # "idle"
  /\ Done(c)
  /\ UNCHANGED <<quote, applied, order, revisions>>

\* create looks for the application, not at its status.
create(q, a) ==
  /\ quote[q].status = "none"
  /\ quote' = [quote EXCEPT ![q] = [status |-> "submitted", application |-> {a}, current |-> 1]]
  /\ UNCHANGED <<applied, order, revisions, clerk>>

allowed == [submitted |-> {"under_review", "accepted", "rejected"},
            under_review |-> {"accepted", "rejected"},
            none |-> {}, accepted |-> {}, rejected |-> {}]

\* updateStatus: the transition is checked on the quotation read.
UpdateStatus(c, q, status) ==
  /\ status \in allowed[quote[q].status]
  /\ Start(c, IF status = "accepted" THEN "application" ELSE "write", q, status, 1)
  /\ UNCHANGED <<quote, applied, order, revisions>>

-----------------------------------------------------------------------------
(* The award an acceptance begins with. *)

\* The application of the quotation a handler works on.
Applicant(c) == UNION {quote[q].application : q \in clerk[c].quote}

Goto(c, step) == clerk' = [clerk EXCEPT ![c].step = step]

\* The application must not be awarded or withdrawn; a rejected one may be taken.
ReadApplication(c) ==
  /\ clerk[c].step = "application"
  /\ IF \E a \in Applicant(c) : applied[a] \in {"awarded", "withdrawn"}
     THEN Done(c) ELSE Goto(c, "order")
  /\ UNCHANGED <<quote, applied, order, revisions>>

\* The order must be open and without a vendor: ConflictException otherwise.
ReadOrder(c) ==
  /\ clerk[c].step = "order"
  /\ IF order.taken THEN Done(c)
     ELSE clerk' = [clerk EXCEPT ![c].step = "save", ![c].version = order.reopened]
  /\ UNCHANGED <<quote, applied, order, revisions>>

\* Mutant: no optimisticConcurrency, the save meets whatever is there.
SaveOrderBlindly(c) ==
  /\ clerk[c].step = "save"
  /\ order' = [order EXCEPT !.taken = TRUE] /\ Goto(c, "others")
  /\ UNCHANGED <<quote, applied, revisions>>

\* optimisticConcurrency: a VersionError if the order was saved since it was read.
SaveOrder(c) ==
  /\ clerk[c].step = "save"
  /\ IF ~order.taken /\ order.reopened = clerk[c].version
     THEN order' = [order EXCEPT !.taken = TRUE] /\ Goto(c, "others")
     ELSE Done(c) /\ UNCHANGED order
  /\ UNCHANGED <<quote, applied, revisions>>

\* updateMany rejects the order's other applications, one awarded before included.
RejectOthers(c) ==
  /\ clerk[c].step = "others"
  /\ applied' = [a \in Applications |->
                    IF a \in Applicant(c) \/ applied[a] = "withdrawn"
                    THEN applied[a] ELSE "open"]
  /\ Goto(c, "award")
  /\ UNCHANGED <<quote, order, revisions>>

AwardApplication(c) ==
  /\ clerk[c].step = "award"
  /\ applied' = [a \in Applications |-> IF a \in Applicant(c) THEN "awarded" ELSE applied[a]]
  /\ Goto(c, "write")
  /\ UNCHANGED <<quote, order, revisions>>

\* The order is awarded, assigned to a technician or put out to bidding
\* elsewhere, always under the same version check.
TakenElsewhere ==
  /\ ~order.taken
  /\ order' = [order EXCEPT !.taken = TRUE]
  /\ UNCHANGED <<quote, applied, revisions, clerk>>

\* The assigned vendor turns the work down: the order is open again, and its
\* applications and quotations stay as they are.
VendorReject ==
  /\ order.taken /\ order.reopened < MaxReopened
  /\ order' = [taken |-> FALSE, reopened |-> order.reopened + 1]
  /\ UNCHANGED <<quote, applied, revisions, clerk>>

\* Applications are reviewed, withdrawn and awarded elsewhere too (in detail in
\* WorkOrders); those writes do not look at the status they meet.
ReviewElsewhere(a, status) ==
  /\ applied' = [applied EXCEPT ![a] = status]
  /\ UNCHANGED <<quote, order, revisions, clerk>>

-----------------------------------------------------------------------------
WriteStatus(c) ==
  /\ clerk[c].step = "write"
  /\ quote' = [q \in Quotes |-> IF q \in clerk[c].quote
                                THEN [quote[q] EXCEPT !.status = clerk[c].status] ELSE quote[q]]
  /\ Done(c)
  /\ UNCHANGED <<applied, order, revisions>>

\* createRevision numbers the revision from the quotation read; the unique index
\* (quotationId, revision) lets one insert through.  The quotation then shows
\* the new totals and is submitted again.
CreateRevision(c, q) ==
  /\ quote[q].status \in {"submitted", "under_review"}
  /\ quote[q].current < MaxRevision
  /\ Start(c, "insert", q, "submitted", quote[q].current + 1)
  /\ UNCHANGED <<quote, applied, order, revisions>>

InsertRevision(c) ==
  LET row == clerk[c].quote \X {clerk[c].revision} IN
  /\ clerk[c].step = "insert"
  /\ IF row \cap revisions = {}
     THEN revisions' = revisions \cup row /\ clerk' = [clerk EXCEPT ![c].step = "revise"]
     ELSE Done(c) /\ UNCHANGED revisions
  /\ UNCHANGED <<quote, applied, order>>

ReviseQuotation(c) ==
  /\ clerk[c].step = "revise"
  /\ quote' = [q \in Quotes |-> IF q \in clerk[c].quote
                                THEN [quote[q] EXCEPT !.status = "submitted",
                                                      !.current = clerk[c].revision]
                                ELSE quote[q]]
  /\ Done(c)
  /\ UNCHANGED <<applied, order, revisions>>

Handle(c) ==
  \/ \E q \in Quotes : \/ \E s \in QuotationStatus : UpdateStatus(c, q, s)
                       \/ CreateRevision(c, q)
  \/ ReadApplication(c) \/ ReadOrder(c) \/ SaveOrder(c) \/ RejectOthers(c)
  \/ AwardApplication(c) \/ WriteStatus(c) \/ InsertRevision(c) \/ ReviseQuotation(c)

Next ==
  \/ \E q \in Quotes, a \in Applications : create(q, a)
  \/ TakenElsewhere \/ VendorReject
  \/ \E a \in Applications, status \in ApplicationStatus : ReviewElsewhere(a, status)
  \/ \E c \in Clerks : Handle(c) \/ Fail(c)

Spec == Init /\ [][Next]_vars

-----------------------------------------------------------------------------
Accepted == {q \in Quotes : quote[q].status = "accepted"}

\* However acceptances, rejections and revisions overlap or stop half-way, the
\* accepted quotations are never more than the times the order was taken: one,
\* and one more for each vendor that turned the order down afterwards.
AcceptedOncePerAward ==
  Cardinality(Accepted) <= order.reopened + IF order.taken THEN 1 ELSE 0

\* The revision a quotation shows has its row.
CurrentRevisionExists ==
  \A q \in Quotes : quote[q].current > 1 => <<q, quote[q].current>> \in revisions
=============================================================================
