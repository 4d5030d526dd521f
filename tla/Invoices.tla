------------------------------ MODULE Invoices ------------------------------
(***************************************************************************)
(* One invoice after its submission (see WorkOrders for that): review,     *)
(* payment and dispute.  Review and payment read the invoice and then      *)
(* update it on condition of its status; dispute saves what it read.       *)
(***************************************************************************)
CONSTANTS References,  \* external payment references
          Accountants  \* request handlers that may be in flight

VARIABLES invoice,  \* status and the payment reference ({} or one)
          desk,     \* the handlers in flight
          receipts  \* references a caller was told are recorded

vars == <<invoice, desk, receipts>>

InvoiceStatus == {"submitted", "under_review", "approved", "rejected", "paid", "disputed"}
Desk == [step : {"idle", "review", "paid", "dispute"},
         reference : SUBSET References,
         approve : BOOLEAN]
Free == [step |-> "idle", reference |-> {}, approve |-> FALSE]

TypeOK ==
  /\ invoice \in [status : InvoiceStatus, reference : SUBSET References]
  /\ desk \in [Accountants -> Desk]
  /\ receipts \subseteq References

Init ==
  /\ invoice = [status |-> "submitted", reference |-> {}]
  /\ desk = [a \in Accountants |-> Free]
  /\ receipts = {}

-----------------------------------------------------------------------------
Reviewable == {"submitted", "under_review"}
Take(a, step, reference, approve) ==
  /\ desk[a].step = "idle"
  /\ desk' = [desk EXCEPT ![a] = [step |-> step, reference |-> reference, approve |-> approve]]
Release(a) == desk' = [desk EXCEPT ![a] = Free]

\* PATCH /:id/review: approved, or rejected when a reason is given; it may also
\* name a payment reference.
ReadForReview(a, approve, reference) ==
  /\ invoice.status \in Reviewable
  /\ Take(a, "review", reference, approve)
  /\ UNCHANGED <<invoice, receipts>>

Reviewed(a) ==
  [status |-> IF desk[a].approve THEN "approved" ELSE "rejected",
   reference |-> IF desk[a].reference = {} THEN invoice.reference ELSE desk[a].reference]

\* Mutant: the update is not conditional on the status.
ReviewAnyway(a) ==
  /\ desk[a].step = "review"
  /\ invoice' = Reviewed(a)
  /\ Release(a)
  /\ UNCHANGED receipts

Review(a) ==
  /\ desk[a].step = "review"
  /\ invoice' = IF invoice.status \in Reviewable THEN Reviewed(a) ELSE invoice
  /\ Release(a)
  /\ UNCHANGED receipts

\* PATCH /:id/paid: recorded again under its own reference, refused under another.
AlreadyPaid(a, ref) ==
  /\ desk[a].step = "idle"
  /\ invoice.status = "paid" /\ invoice.reference = {ref}
  /\ receipts' = receipts \cup {ref}
  /\ UNCHANGED <<invoice, desk>>

ReadForPayment(a, ref) ==
  /\ invoice.status = "approved"
  /\ Take(a, "paid", {ref}, FALSE)
  /\ UNCHANGED <<invoice, receipts>>

Paid(a) ==
  /\ desk[a].step = "paid"
  /\ IF invoice.status = "approved"
     THEN /\ invoice' = [status |-> "paid", reference |-> desk[a].reference]
          /\ receipts' = receipts \cup desk[a].reference
     ELSE UNCHANGED <<invoice, receipts>>
  /\ Release(a)

\* PATCH /:id/dispute: the status read is checked, the save is unconditional.
ReadForDispute(a) ==
  /\ invoice.status \in Reviewable \cup {"approved"}
  /\ Take(a, "dispute", {}, FALSE)
  /\ UNCHANGED <<invoice, receipts>>

Dispute(a) ==
  /\ desk[a].step = "dispute"
  /\ invoice' = [invoice EXCEPT !.status = "disputed"]
  /\ Release(a)
  /\ UNCHANGED receipts

Handle(a) ==
  \/ \E ok \in BOOLEAN : \/ ReadForReview(a, ok, {})
                        \/ \E ref \in References : ReadForReview(a, ok, {ref})
  \/ \E ref \in References : AlreadyPaid(a, ref) \/ ReadForPayment(a, ref)
  \/ ReadForDispute(a)
  \/ Review(a) \/ Paid(a) \/ Dispute(a)

Next == \E a \in Accountants : Handle(a)

Spec == Init /\ [][Next]_vars

-----------------------------------------------------------------------------
\* However payments, reviews and disputes overlap, at most one payment reference
\* is ever confirmed for an invoice, and the invoice keeps it: no other payment,
\* review or reference reaches it any more.  (A dispute that read the invoice
\* before the payment still overwrites the status, not the reference.)
PaidOnce ==
  \A ref \in receipts : invoice.reference = {ref} /\ invoice.status \in {"paid", "disputed"}
=============================================================================
