----------------------------- MODULE MCCommerce -----------------------------
(***************************************************************************)
(* Billing, quotations, invoices and the idempotency middleware for TLC.   *)
(* They share no documents, so a behaviour exercises one of them.          *)
(***************************************************************************)
EXTENDS Naturals, FiniteSets, TLC

CONSTANTS Plans, Payments, Methods, Requests,
          Quotes, Applications, Clerks, MaxRevision, MaxReopened,
          References, Accountants,
          Attempts, Bodies, Rests, MaxExpirations,
          Parts  \* the components the run exercises

VARIABLES subscription, payment, checkout, activations, method, api,
          quote, applied, order, revisions, clerk,
          invoice, desk, receipts,
          stored, locked, attempt, runs, expired,
          part

B == INSTANCE Billing
Q == INSTANCE Quotations
I == INSTANCE Invoices
H == INSTANCE HttpIdempotency

billing == <<subscription, payment, checkout, activations, method, api>>
quotations == <<quote, applied, order, revisions, clerk>>
invoices == <<invoice, desk, receipts>>
middleware == <<stored, locked, attempt, runs, expired>>
all == <<billing, quotations, invoices, middleware, part>>

AllParts == {"subscription", "methods", "quotations", "invoices", "idempotency"}
ASSUME PartsAssumption == Parts \subseteq AllParts
\* BILLING_PLANS has a lowest plan; quotations have a first revision.
ASSUME CommerceAssumption ==
  /\ \E p \in Plans : \A q \in Plans : p <= q
  /\ IsFiniteSet(Quotes)
  /\ MaxRevision \in Nat \ {0}
  /\ MaxReopened \in Nat
  /\ Bodies # {} /\ Rests # {}
  /\ MaxExpirations \in Nat

Init == B!Init /\ Q!Init /\ I!Init /\ H!Init /\ part \in Parts

\* Payment methods are saved before there is a subscription, so they have a
\* part of their own; there no call is interrupted.
BillingPart ==
  \/ /\ part = "subscription"
     /\ \/ \E r \in Requests : B!Begin(r) \/ B!Continue(r) \/ B!Fail(r)
        \/ \E cycle \in B!Cycles : B!updateSubscriptionCycle(cycle)
        \/ B!Provider
  \/ part = "methods" /\ B!SaveMethods

Next ==
  /\ UNCHANGED part
  /\ \/ BillingPart /\ UNCHANGED <<quotations, invoices, middleware>>
     \/ part = "quotations" /\ Q!Next /\ UNCHANGED <<billing, invoices, middleware>>
     \/ part = "invoices" /\ I!Next /\ UNCHANGED <<billing, quotations, middleware>>
     \/ part = "idempotency" /\ H!Next /\ UNCHANGED <<billing, quotations, invoices>>

Spec == Init /\ [][Next]_all

QuotationSymmetry == Permutations(Quotes) \cup Permutations(Applications) \cup Permutations(Clerks)

\* Every part keeps its types.
TypeOK == B!TypeOK /\ Q!TypeOK /\ I!TypeOK /\ H!TypeOK

\* A subscription payment is activated at most once, whatever the provider repeats
\* or delivers out of order (BillingService, see Billing).
ActivatedOncePerPayment == B!ActivatedOncePerPayment

\* A settled payment keeps its status through every later or overlapping write.
SettledIsFinal == B!SettledIsFinal

\* Overlapping calls that run to their end leave one default payment method.
OneDefaultMethod == B!OneDefaultMethod

\* Accepted quotations never outnumber the times the order was taken, and the
\* revision a quotation shows has its row (QuotationService, see Quotations).
AcceptedOncePerAward == Q!AcceptedOncePerAward /\ Q!CurrentRevisionExists

\* One payment reference at most is ever confirmed for an invoice, and it stays
\* (invoice.routes.ts, see Invoices).
PaidOnce == I!PaidOnce

\* One execution at a time under a key, and answers only from executions with the
\* request's fingerprint (idempotency.ts, see HttpIdempotency).
KeyGuardsExecution == H!KeyGuardsExecution
=============================================================================
