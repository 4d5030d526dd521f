--------------------------- MODULE CommerceProofs ---------------------------
(***************************************************************************)
(* Proofs about billing, quotations, invoices and the idempotency          *)
(* middleware, for every set of payments, quotations, references, requests *)
(* and handlers.                                                           *)
(***************************************************************************)
EXTENDS MCCommerce, FiniteSetTheorems, TLAPS

-----------------------------------------------------------------------------
(***************************************************************************)
(* Invoices.  Once a reference is confirmed the invoice is paid or         *)
(* disputed, and the only write that meets such an invoice is a dispute's, *)
(* which leaves the reference.                                             *)
(***************************************************************************)
InvoiceInv ==
  /\ I!TypeOK
  /\ I!PaidOnce
  /\ \A a \in Accountants : desk[a].step = "paid" => \E ref \in References : desk[a].reference = {ref}

LEMMA InvoiceStep ==
  ASSUME InvoiceInv, NEW a \in Accountants, I!Handle(a)
  PROVE  InvoiceInv'
<1>. USE DEF InvoiceInv, I!TypeOK, I!PaidOnce, I!Reviewable,
             I!Desk, I!InvoiceStatus, I!Take, I!Release, I!Free
<1>1. CASE \E ok \in BOOLEAN : \/ I!ReadForReview(a, ok, {})
                              \/ \E ref \in References : I!ReadForReview(a, ok, {ref})
  BY <1>1 DEF I!ReadForReview
<1>2. CASE \E ref \in References : I!AlreadyPaid(a, ref)
  BY <1>2 DEF I!AlreadyPaid
<1>3. CASE \E ref \in References : I!ReadForPayment(a, ref)
  BY <1>3 DEF I!ReadForPayment
<1>4. CASE I!ReadForDispute(a)
  BY <1>4 DEF I!ReadForDispute
<1>5. CASE I!Review(a)
  <2>1. CASE invoice.status \in {"submitted", "under_review"}
    <3>1. receipts = {}
      BY <2>1
    <3>2. invoice' \in [status : {"approved", "rejected"}, reference : SUBSET References]
      BY <1>5, <2>1 DEF I!Review, I!Reviewed
    <3>. QED BY <1>5, <3>1, <3>2 DEF I!Review
  <2>2. CASE invoice.status \notin {"submitted", "under_review"}
    BY <1>5, <2>2 DEF I!Review
  <2>. QED BY <2>1, <2>2
<1>6. CASE I!Paid(a)
  BY <1>6 DEF I!Paid
<1>7. CASE I!Dispute(a)
  BY <1>7 DEF I!Dispute
<1>. QED BY <1>1, <1>2, <1>3, <1>4, <1>5, <1>6, <1>7 DEF I!Handle

\* However payments, reviews and disputes of any number of handlers overlap, one
\* reference at most is ever confirmed, and the invoice keeps it (modules/invoices,
\* PATCH /:id/review, /:id/paid, /:id/dispute).
THEOREM InvoicePaidOnce == Spec => []PaidOnce
<1>1. Init => InvoiceInv
  BY DEF Init, I!Init, InvoiceInv, I!TypeOK, I!PaidOnce, I!Desk, I!Free, I!InvoiceStatus
<1>2. InvoiceInv /\ [Next]_all => InvoiceInv'
  <2>. SUFFICES ASSUME InvoiceInv, [Next]_all PROVE InvoiceInv'
    OBVIOUS
  <2>1. CASE I!Next
    BY <2>1, InvoiceStep DEF I!Next
  <2>2. CASE UNCHANGED invoices
    BY <2>2 DEF invoices, InvoiceInv, I!TypeOK, I!PaidOnce
  <2>. QED BY <2>1, <2>2 DEF Next, all
<1>3. InvoiceInv => PaidOnce
  BY DEF InvoiceInv, PaidOnce
<1>. QED BY <1>1, <1>2, <1>3, PTL DEF Spec

-----------------------------------------------------------------------------
(***************************************************************************)
(* Quotations.  The save of the order is the exclusive step: a quotation   *)
(* that is accepted, or whose handler has saved the order and will write   *)
(* it accepted, is paid for by one of the times the order was taken.       *)
(***************************************************************************)
Winning(k) == k.step \in {"others", "award"} \/ (k.step = "write" /\ k.status = "accepted")
Won == Q!Accepted \cup {q \in Quotes : \E c \in Clerks : Winning(clerk[c]) /\ q \in clerk[c].quote}
Takings(o) == o.reopened + IF o.taken THEN 1 ELSE 0

QuotationInv ==
  /\ Q!TypeOK
  /\ Cardinality(Won) <= Takings(order)
  /\ \A c \in Clerks : clerk[c].step \in {"application", "order", "save", "others", "award"}
                         => clerk[c].status = "accepted"
  /\ \A c \in Clerks : \A p, q \in clerk[c].quote : p = q
  /\ Q!CurrentRevisionExists
  /\ \A c \in Clerks : clerk[c].step = "revise" =>
       \A q \in clerk[c].quote : <<q, clerk[c].revision>> \in revisions

\* A bound on the accepted quotations survives a step that adds none, and one
\* that adds one when the order is taken once more.
LEMMA BoundKept ==
  ASSUME NEW S \in SUBSET Quotes, NEW T \in SUBSET Quotes, NEW n \in Nat, NEW m \in Nat,
         Cardinality(S) <= n,
         \/ T \subseteq S /\ n <= m
         \/ n + 1 <= m /\ \E q \in Quotes : T \subseteq S \cup {q}
  PROVE  Cardinality(T) <= m
<1>1. IsFiniteSet(S) /\ IsFiniteSet(T) /\ Cardinality(S) \in Nat /\ Cardinality(T) \in Nat
  BY CommerceAssumption, FS_Subset, FS_CardinalityType
<1>2. CASE T \subseteq S /\ n <= m
  BY <1>1, <1>2, FS_Subset
<1>3. CASE n + 1 <= m /\ \E q \in Quotes : T \subseteq S \cup {q}
  <2>1. PICK q \in Quotes : T \subseteq S \cup {q}
    BY <1>3
  <2>2. IsFiniteSet(S \cup {q}) /\ Cardinality(S \cup {q}) <= Cardinality(S) + 1
    BY <1>1, FS_AddElement
  <2>3. Cardinality(T) <= Cardinality(S \cup {q}) /\ Cardinality(S \cup {q}) \in Nat
    BY <2>1, <2>2, FS_Subset, FS_CardinalityType
  <2>. QED BY <1>1, <1>3, <2>2, <2>3
<1>. QED BY <1>2, <1>3

\* How often the order was taken is a number.
LEMMA TakingsNat == ASSUME NEW o \in Q!Order PROVE Takings(o) \in Nat
  BY CommerceAssumption DEF Q!Order, Takings

\* A status changes only from one that is still open, and never to none.
LEMMA AllowedOpen ==
  ASSUME NEW s \in Q!QuotationStatus, NEW t \in Q!allowed[s]
  PROVE  s \in {"submitted", "under_review"} /\ t \in {"under_review", "accepted", "rejected"}
  BY DEF Q!QuotationStatus, Q!allowed

\* A handler goes on to k and writes no quotation: it wins no new one, or it has
\* just taken the order once more.
LEMMA ClerkMoves ==
  ASSUME QuotationInv, NEW c \in Clerks, NEW k \in Q!ClerkState,
         clerk' = [clerk EXCEPT ![c] = k], quote' = quote,
         applied' \in [Applications -> Q!ApplicationStatus], order' \in Q!Order,
         revisions' \subseteq Quotes \X (1..MaxRevision), revisions \subseteq revisions',
         k.step \in {"application", "order", "save", "others", "award"} => k.status = "accepted",
         \A p, q \in k.quote : p = q,
         k.step = "revise" => \A q \in k.quote : <<q, k.revision>> \in revisions',
         \/ /\ Takings(order) <= Takings(order')
            /\ Winning(k) => Winning(clerk[c]) /\ k.quote \subseteq clerk[c].quote
         \/ Takings(order) + 1 <= Takings(order')
  PROVE  QuotationInv'
<1>1. /\ clerk'[c] = k
      /\ \A d \in Clerks \ {c} : clerk'[d] = clerk[d]
      /\ clerk' \in [Clerks -> Q!ClerkState]
  BY DEF QuotationInv, Q!TypeOK
<1>2. Q!Accepted' = Q!Accepted /\ k.quote \subseteq Quotes
  BY DEF Q!Accepted, Q!ClerkState
<1>3. Won' \subseteq Won \cup k.quote
  BY <1>1, <1>2 DEF Won
<1>4. (Winning(k) => Winning(clerk[c]) /\ k.quote \subseteq clerk[c].quote) => Won' \subseteq Won
  BY <1>1, <1>2 DEF Won
<1>5. Won \in SUBSET Quotes /\ Won' \in SUBSET Quotes
  BY DEF Won, Q!Accepted
<1>6. Takings(order) \in Nat /\ Takings(order') \in Nat /\ Cardinality(Won) <= Takings(order)
  BY TakingsNat DEF QuotationInv, Q!TypeOK
<1>7. Won' \subseteq Won \/ \E q \in Quotes : Won' \subseteq Won \cup {q}
  BY <1>2, <1>3
<1>8. \/ Won' \subseteq Won /\ Takings(order) <= Takings(order')
      \/ Takings(order) + 1 <= Takings(order') /\ \E q \in Quotes : Won' \subseteq Won \cup {q}
  BY <1>4, <1>6, <1>7
<1>9. Cardinality(Won') <= Takings(order')
  BY <1>5, <1>6, <1>8, BoundKept
<1>10. Q!TypeOK'
  BY <1>1 DEF QuotationInv, Q!TypeOK
<1>11. Q!CurrentRevisionExists'
  BY DEF QuotationInv, Q!CurrentRevisionExists
<1>. QED BY <1>1, <1>9, <1>10, <1>11 DEF QuotationInv

LEMMA OffShape == Q!Off \in Q!ClerkState /\ Q!Off.step = "idle" /\ Q!Off.quote = {} /\ ~Winning(Q!Off)
  BY CommerceAssumption DEF Q!Off, Q!ClerkState, Q!QuotationStatus, Winning

\* A handler ends without writing anything.
LEMMA ClerkEnds ==
  ASSUME QuotationInv, NEW c \in Clerks, Q!Done(c), UNCHANGED <<quote, applied, order, revisions>>
  PROVE  QuotationInv'
<1>1. clerk' = [clerk EXCEPT ![c] = Q!Off] /\ Takings(order) <= Takings(order')
  BY TakingsNat DEF Q!Done, QuotationInv, Q!TypeOK
<1>. QED BY <1>1, OffShape, ClerkMoves DEF QuotationInv, Q!TypeOK

\* A handler goes on to its next step, with all it has.
LEMMA ClerkGoes ==
  ASSUME QuotationInv, NEW c \in Clerks,
         NEW step \in {"order", "others", "award", "write"}, Q!Goto(c, step),
         clerk[c].step \in {"application", "save", "others", "award"},
         UNCHANGED <<quote, revisions>>,
         applied' \in [Applications -> Q!ApplicationStatus], order' \in Q!Order,
         \/ /\ Takings(order) <= Takings(order')
            /\ step \in {"others", "award", "write"} => clerk[c].step \in {"others", "award"}
         \/ Takings(order) + 1 <= Takings(order')
  PROVE  QuotationInv'
<1>. DEFINE k == [clerk[c] EXCEPT !.step = step]
<1>1. clerk[c] \in Q!ClerkState
  BY DEF QuotationInv, Q!TypeOK
<1>2. /\ k \in Q!ClerkState /\ k.step = step /\ k.status = clerk[c].status
      /\ k.quote = clerk[c].quote
  BY <1>1 DEF Q!ClerkState
<1>3. clerk' = [clerk EXCEPT ![c] = k]
  BY DEF Q!Goto
<1>4. clerk[c].status = "accepted" /\ \A p, q \in clerk[c].quote : p = q
  BY DEF QuotationInv
<1>5. revisions \subseteq Quotes \X (1..MaxRevision) /\ revisions' = revisions /\ quote' = quote
  BY DEF QuotationInv, Q!TypeOK
<1>. HIDE DEF k
<1>6. Winning(k) => step \in {"others", "award", "write"}
  BY <1>2 DEF Winning
<1>7. clerk[c].step \in {"others", "award"} => Winning(clerk[c])
  BY DEF Winning
<1>8. \/ /\ Takings(order) <= Takings(order')
         /\ Winning(k) => Winning(clerk[c]) /\ k.quote \subseteq clerk[c].quote
      \/ Takings(order) + 1 <= Takings(order')
  BY <1>2, <1>6, <1>7
<1>9. /\ k.step \in {"application", "order", "save", "others", "award"} => k.status = "accepted"
      /\ \A p, q \in k.quote : p = q
      /\ k.step # "revise"
  BY <1>2, <1>4
<1>. QED BY <1>2, <1>3, <1>5, <1>8, <1>9, ClerkMoves

\* A handler that wins nothing goes on to k.
LEMMA ClerkQuiet ==
  ASSUME QuotationInv, NEW c \in Clerks, NEW k \in Q!ClerkState, ~Winning(k),
         clerk' = [clerk EXCEPT ![c] = k], UNCHANGED <<quote, applied, order>>,
         revisions' \subseteq Quotes \X (1..MaxRevision), revisions \subseteq revisions',
         k.step \in {"application", "order", "save"} => k.status = "accepted",
         \A p, q \in k.quote : p = q,
         k.step = "revise" => \A q \in k.quote : <<q, k.revision>> \in revisions'
  PROVE  QuotationInv'
<1>1. /\ order \in Q!Order /\ order' = order /\ quote' = quote
      /\ applied' \in [Applications -> Q!ApplicationStatus]
  BY DEF QuotationInv, Q!TypeOK
<1>2. Takings(order) <= Takings(order')
  BY <1>1, TakingsNat
<1>3. k.step \notin {"others", "award"}
  BY DEF Winning
<1>. QED BY <1>1, <1>2, <1>3, ClerkMoves

LEMMA CreateStep ==
  ASSUME QuotationInv, NEW q \in Quotes, NEW a \in Applications, Q!create(q, a)
  PROVE  QuotationInv'
<1>. DEFINE n == [status |-> "submitted", application |-> {a}, current |-> 1]
<1>1. /\ n \in Q!Quotation
      /\ quote'[q] = n
      /\ \A p \in Quotes \ {q} : quote'[p] = quote[p]
      /\ quote' \in [Quotes -> Q!Quotation]
      /\ UNCHANGED <<applied, order, revisions, clerk>>
  BY CommerceAssumption DEF QuotationInv, Q!TypeOK, Q!create, Q!Quotation, Q!QuotationStatus
<1>2. Won' \subseteq Won
  BY <1>1 DEF Won, Q!Accepted
<1>3. Won \in SUBSET Quotes /\ Won' \in SUBSET Quotes
  BY DEF Won, Q!Accepted
<1>4. Takings(order) \in Nat /\ Cardinality(Won) <= Takings(order)
  BY TakingsNat DEF QuotationInv, Q!TypeOK
<1>5. Cardinality(Won') <= Takings(order)
  BY <1>2, <1>3, <1>4, BoundKept
<1>6. Q!CurrentRevisionExists'
  BY <1>1 DEF QuotationInv, Q!CurrentRevisionExists
<1>. QED BY <1>1, <1>5, <1>6 DEF QuotationInv, Q!TypeOK

\* The award of an acceptance, await by await.
LEMMA AwardStep ==
  ASSUME QuotationInv, NEW c \in Clerks,
         \/ Q!ReadApplication(c) \/ Q!ReadOrder(c) \/ Q!SaveOrder(c)
         \/ Q!RejectOthers(c) \/ Q!AwardApplication(c)
  PROVE  QuotationInv'
<1>0. /\ order \in Q!Order /\ Takings(order) \in Nat
      /\ applied \in [Applications -> Q!ApplicationStatus]
      /\ clerk[c] \in Q!ClerkState
      /\ revisions \subseteq Quotes \X (1..MaxRevision)
  BY TakingsNat DEF QuotationInv, Q!TypeOK
<1>1. CASE Q!ReadApplication(c)
  BY <1>0, <1>1, ClerkEnds, ClerkGoes DEF Q!ReadApplication
<1>2. CASE Q!ReadOrder(c)
  <2>1. CASE order.taken
    BY <1>2, <2>1, ClerkEnds DEF Q!ReadOrder
  <2>2. CASE ~order.taken
    <3>. DEFINE k == [clerk[c] EXCEPT !.step = "save", !.version = order.reopened]
    <3>1. order.reopened \in 0..MaxReopened
      BY <1>0 DEF Q!Order
    <3>2. /\ k \in Q!ClerkState /\ k.step = "save" /\ k.status = clerk[c].status
          /\ k.quote = clerk[c].quote
      BY <1>0, <3>1 DEF Q!ClerkState
    <3>3. /\ clerk' = [clerk EXCEPT ![c] = k] /\ UNCHANGED <<quote, applied, order, revisions>>
          /\ clerk[c].step = "order"
      BY <1>2, <2>2 DEF Q!ReadOrder
    <3>4. clerk[c].status = "accepted" /\ \A p, q \in clerk[c].quote : p = q
      BY <3>3 DEF QuotationInv
    <3>. HIDE DEF k
    <3>5. ~Winning(k) /\ \A p, q \in k.quote : p = q
      BY <3>2, <3>4 DEF Winning
    <3>6. /\ revisions' \subseteq Quotes \X (1..MaxRevision) /\ revisions \subseteq revisions'
          /\ UNCHANGED <<quote, applied, order>> /\ k.status = "accepted" /\ k.step # "revise"
      BY <1>0, <3>2, <3>3, <3>4
    <3>. QED BY <3>2, <3>3, <3>5, <3>6, ClerkQuiet
  <2>. QED BY <2>1, <2>2
<1>3. CASE Q!SaveOrder(c)
  <2>1. CASE ~order.taken /\ order.reopened = clerk[c].version
    <3>1. /\ order' = [order EXCEPT !.taken = TRUE] /\ Q!Goto(c, "others")
          /\ UNCHANGED <<quote, applied, revisions>> /\ clerk[c].step = "save"
      BY <1>3, <2>1 DEF Q!SaveOrder
    <3>2. order' \in Q!Order /\ order'.reopened = order.reopened /\ order'.taken = TRUE
      BY <1>0, <3>1 DEF Q!Order
    <3>3. Takings(order) + 1 <= Takings(order')
      BY <1>0, <2>1, <3>2 DEF Takings, Q!Order
    <3>. QED BY <1>0, <3>1, <3>2, <3>3, ClerkGoes
  <2>2. CASE ~(~order.taken /\ order.reopened = clerk[c].version)
    BY <1>3, <2>2, ClerkEnds DEF Q!SaveOrder
  <2>. QED BY <2>1, <2>2
<1>4. CASE Q!RejectOthers(c)
  <2>1. /\ applied' \in [Applications -> Q!ApplicationStatus]
        /\ Q!Goto(c, "award") /\ UNCHANGED <<quote, order, revisions>> /\ clerk[c].step = "others"
    BY <1>0, <1>4 DEF Q!RejectOthers, Q!ApplicationStatus
  <2>. QED BY <1>0, <2>1, ClerkGoes
<1>5. CASE Q!AwardApplication(c)
  <2>1. /\ applied' \in [Applications -> Q!ApplicationStatus]
        /\ Q!Goto(c, "write") /\ UNCHANGED <<quote, order, revisions>> /\ clerk[c].step = "award"
    BY <1>0, <1>5 DEF Q!AwardApplication, Q!ApplicationStatus
  <2>. QED BY <1>0, <2>1, ClerkGoes
<1>. QED BY <1>1, <1>2, <1>3, <1>4, <1>5

\* A handler writes its quotation and ends: it wins no other one.
LEMMA ClerkWrites ==
  ASSUME QuotationInv, NEW c \in Clerks, Q!Done(c), UNCHANGED <<applied, order, revisions>>,
         quote' \in [Quotes -> Q!Quotation], Q!CurrentRevisionExists',
         \A q \in Quotes : quote'[q].status = "accepted" => q \in Won
  PROVE  QuotationInv'
<1>1. /\ clerk'[c] = Q!Off
      /\ \A d \in Clerks \ {c} : clerk'[d] = clerk[d]
      /\ clerk' \in [Clerks -> Q!ClerkState]
  BY OffShape DEF QuotationInv, Q!TypeOK, Q!Done
<1>2. Won' \subseteq Won
  BY <1>1, OffShape DEF Won, Q!Accepted
<1>3. Won \in SUBSET Quotes /\ Won' \in SUBSET Quotes
  BY DEF Won, Q!Accepted
<1>4. Takings(order) \in Nat /\ Cardinality(Won) <= Takings(order)
  BY TakingsNat DEF QuotationInv, Q!TypeOK
<1>5. Cardinality(Won') <= Takings(order)
  BY <1>2, <1>3, <1>4, BoundKept
<1>. QED BY <1>1, <1>5, OffShape DEF QuotationInv, Q!TypeOK

LEMMA WriteStatusStep ==
  ASSUME QuotationInv, NEW c \in Clerks, Q!WriteStatus(c)
  PROVE  QuotationInv'
<1>1. /\ Q!Done(c) /\ UNCHANGED <<applied, order, revisions>> /\ clerk[c].step = "write"
      /\ quote' = [q \in Quotes |-> IF q \in clerk[c].quote
                                    THEN [quote[q] EXCEPT !.status = clerk[c].status] ELSE quote[q]]
  BY DEF Q!WriteStatus
<1>2. \A q \in Quotes :
        /\ quote'[q].current = quote[q].current
        /\ quote'[q].status = IF q \in clerk[c].quote THEN clerk[c].status ELSE quote[q].status
        /\ quote'[q] \in Q!Quotation
  BY <1>1 DEF QuotationInv, Q!TypeOK, Q!Quotation, Q!ClerkState
<1>3. \A q \in Quotes : quote'[q].status = "accepted" => q \in Won
  BY <1>1, <1>2 DEF Won, Winning, Q!Accepted
<1>4. quote' \in [Quotes -> Q!Quotation]
  BY <1>1, <1>2
<1>5. Q!CurrentRevisionExists'
  BY <1>1, <1>2 DEF QuotationInv, Q!CurrentRevisionExists
<1>. QED BY <1>1, <1>3, <1>4, <1>5, ClerkWrites

LEMMA InsertRevisionStep ==
  ASSUME QuotationInv, NEW c \in Clerks, Q!InsertRevision(c)
  PROVE  QuotationInv'
<1>. DEFINE row == clerk[c].quote \X {clerk[c].revision}
<1>1. CASE row \cap revisions = {}
  <2>. DEFINE k == [clerk[c] EXCEPT !.step = "revise"]
  <2>0. clerk[c] \in Q!ClerkState
    BY DEF QuotationInv, Q!TypeOK
  <2>1. /\ revisions' = revisions \cup row
        /\ clerk' = [clerk EXCEPT ![c] = k]
        /\ UNCHANGED <<quote, applied, order>>
    BY <1>1 DEF Q!InsertRevision
  <2>2. /\ k \in Q!ClerkState /\ k.step = "revise" /\ k.quote = clerk[c].quote
        /\ k.revision = clerk[c].revision
    BY <2>0 DEF Q!ClerkState
  <2>3. /\ revisions' \subseteq Quotes \X (1..MaxRevision)
        /\ \A q \in clerk[c].quote : <<q, clerk[c].revision>> \in revisions'
    BY <2>0, <2>1 DEF QuotationInv, Q!TypeOK, Q!ClerkState
  <2>4. \A p, q \in clerk[c].quote : p = q
    BY DEF QuotationInv
  <2>. HIDE DEF k, row
  <2>5. ~Winning(k) /\ \A p, q \in k.quote : p = q
    BY <2>2, <2>4 DEF Winning
  <2>6. revisions \subseteq revisions' /\ \A q \in k.quote : <<q, k.revision>> \in revisions'
    BY <2>1, <2>2, <2>3
  <2>. QED BY <2>1, <2>2, <2>3, <2>5, <2>6, ClerkQuiet
<1>2. CASE row \cap revisions # {}
  BY <1>2, ClerkEnds DEF Q!InsertRevision
<1>. QED BY <1>1, <1>2

LEMMA ReviseStep ==
  ASSUME QuotationInv, NEW c \in Clerks, Q!ReviseQuotation(c)
  PROVE  QuotationInv'
<1>. DEFINE f(q) == [quote[q] EXCEPT !.status = "submitted", !.current = clerk[c].revision]
<1>1. /\ Q!Done(c) /\ UNCHANGED <<applied, order, revisions>> /\ clerk[c].step = "revise"
      /\ quote' = [q \in Quotes |-> IF q \in clerk[c].quote THEN f(q) ELSE quote[q]]
  BY DEF Q!ReviseQuotation
<1>2. ASSUME NEW q \in Quotes
      PROVE  /\ f(q).status = "submitted"
             /\ f(q).current = clerk[c].revision
             /\ f(q) \in Q!Quotation
  <2>1. quote[q] \in Q!Quotation /\ clerk[c].revision \in 1..MaxRevision
    BY DEF QuotationInv, Q!TypeOK, Q!ClerkState
  <2>. QED BY <2>1 DEF Q!Quotation, Q!QuotationStatus
<1>. HIDE DEF f
<1>3. \A q \in Quotes :
        /\ quote'[q].status = IF q \in clerk[c].quote THEN "submitted" ELSE quote[q].status
        /\ quote'[q].current = IF q \in clerk[c].quote THEN clerk[c].revision ELSE quote[q].current
  BY <1>1, <1>2
<1>4. quote' \in [Quotes -> Q!Quotation]
  BY <1>1, <1>2 DEF QuotationInv, Q!TypeOK
<1>5. \A q \in Quotes : quote'[q].status = "accepted" => q \in Won
  BY <1>3 DEF Won, Q!Accepted
<1>6. Q!CurrentRevisionExists'
  BY <1>1, <1>3 DEF QuotationInv, Q!CurrentRevisionExists
<1>. QED BY <1>1, <1>4, <1>5, <1>6, ClerkWrites

\* The order and the applications change elsewhere.
LEMMA ElsewhereStep ==
  ASSUME QuotationInv,
         \/ Q!TakenElsewhere \/ Q!VendorReject
         \/ \E a \in Applications, status \in Q!ApplicationStatus : Q!ReviewElsewhere(a, status)
  PROVE  QuotationInv'
<1>0. order \in Q!Order /\ Takings(order) \in Nat /\ Cardinality(Won) <= Takings(order)
  BY TakingsNat DEF QuotationInv, Q!TypeOK
<1>1. UNCHANGED <<quote, revisions, clerk>>
  BY DEF Q!TakenElsewhere, Q!VendorReject, Q!ReviewElsewhere
<1>2. order' \in Q!Order /\ Takings(order) <= Takings(order')
  <2>1. CASE Q!TakenElsewhere
    <3>1. order' \in Q!Order /\ order'.reopened = order.reopened /\ order'.taken = TRUE
      BY <1>0, <2>1 DEF Q!TakenElsewhere, Q!Order
    <3>. QED BY <1>0, <3>1 DEF Takings, Q!Order
  <2>2. CASE Q!VendorReject
    <3>1. order.reopened \in 0..MaxReopened /\ order.reopened < MaxReopened /\ order.taken
      BY <1>0, <2>2 DEF Q!VendorReject, Q!Order
    <3>2. order' = [taken |-> FALSE, reopened |-> order.reopened + 1]
      BY <2>2 DEF Q!VendorReject
    <3>. QED BY <3>1, <3>2, CommerceAssumption DEF Takings, Q!Order
  <2>3. CASE order' = order
    BY <1>0, <2>3
  <2>. QED BY <2>1, <2>2, <2>3 DEF Q!ReviewElsewhere
<1>3. applied' \in [Applications -> Q!ApplicationStatus]
  BY DEF QuotationInv, Q!TypeOK, Q!TakenElsewhere, Q!VendorReject, Q!ReviewElsewhere
<1>4. Won' = Won
  BY <1>1 DEF Won, Q!Accepted
<1>5. Cardinality(Won') <= Takings(order')
  <2>1. Won \in SUBSET Quotes /\ Takings(order') \in Nat
    BY <1>2, TakingsNat DEF Won, Q!Accepted
  <2>. QED BY <1>0, <1>2, <1>4, <2>1, BoundKept
<1>. QED BY <1>1, <1>2, <1>3, <1>5 DEF QuotationInv, Q!TypeOK, Q!CurrentRevisionExists

LEMMA QuotationStep ==
  ASSUME QuotationInv, Q!Next
  PROVE  QuotationInv'
<1>0. /\ order \in Q!Order /\ Takings(order) \in Nat
      /\ applied \in [Applications -> Q!ApplicationStatus]
      /\ revisions \subseteq Quotes \X (1..MaxRevision)
  BY TakingsNat DEF QuotationInv, Q!TypeOK
<1>1. ASSUME NEW c \in Clerks, NEW q \in Quotes, NEW s \in Q!QuotationStatus, Q!UpdateStatus(c, q, s)
      PROVE  QuotationInv'
  <2>. DEFINE k == [step |-> IF s = "accepted" THEN "application" ELSE "write", quote |-> {q},
                    status |-> s, revision |-> 1, version |-> 0]
  <2>1. k \in Q!ClerkState
    BY CommerceAssumption DEF Q!ClerkState
  <2>2. clerk' = [clerk EXCEPT ![c] = k] /\ UNCHANGED <<quote, applied, order, revisions>>
    BY <1>1 DEF Q!UpdateStatus, Q!Start
  <2>3. ~Winning(k)
    BY DEF Winning
  <2>4. /\ k.step \in {"application", "order", "save"} => k.status = "accepted"
        /\ k.quote = {q} /\ k.step # "revise"
    OBVIOUS
  <2>. HIDE DEF k
  <2>. QED BY <1>0, <2>1, <2>2, <2>3, <2>4, ClerkQuiet
<1>2. ASSUME NEW c \in Clerks, NEW q \in Quotes, Q!CreateRevision(c, q)
      PROVE  QuotationInv'
  <2>. DEFINE k == [step |-> "insert", quote |-> {q}, status |-> "submitted",
                    revision |-> quote[q].current + 1, version |-> 0]
  <2>1. k \in Q!ClerkState
    BY <1>2, CommerceAssumption
    DEF Q!CreateRevision, QuotationInv, Q!TypeOK, Q!Quotation, Q!ClerkState, Q!QuotationStatus
  <2>2. clerk' = [clerk EXCEPT ![c] = k] /\ UNCHANGED <<quote, applied, order, revisions>>
    BY <1>2 DEF Q!CreateRevision, Q!Start
  <2>3. ~Winning(k)
    BY DEF Winning
  <2>4. k.step = "insert" /\ k.quote = {q}
    OBVIOUS
  <2>. HIDE DEF k
  <2>. QED BY <1>0, <2>1, <2>2, <2>3, <2>4, ClerkQuiet
<1>3. ASSUME NEW c \in Clerks, Q!Fail(c)
      PROVE  QuotationInv'
  BY <1>3, ClerkEnds DEF Q!Fail
<1>. QED BY <1>1, <1>2, <1>3, CreateStep, AwardStep, WriteStatusStep, InsertRevisionStep,
            ReviseStep, ElsewhereStep DEF Q!Next, Q!Handle

\* However reviews, acceptances, revisions and awards overlap or stop, and however
\* often a vendor's rejection reopens the order: the accepted quotations are never
\* more than the times the order was taken, and the revision a quotation shows
\* exists (QuotationService.updateStatus, createRevision; VendorApplicationService
\* .updateStatus; POST /:id/vendor/reject).
THEOREM QuotationAcceptedPerAward == Spec => []AcceptedOncePerAward
<1>1. Init => QuotationInv
  <2>. SUFFICES ASSUME Q!Init PROVE QuotationInv
    BY DEF Init
  <2>1. Q!NoQuotation \in Q!Quotation /\ Q!NoQuotation.status = "none" /\ Q!NoQuotation.current = 1
    BY CommerceAssumption DEF Q!NoQuotation, Q!Quotation, Q!QuotationStatus
  <2>2. Won = {}
    BY <2>1, OffShape DEF Q!Init, Won, Q!Accepted
  <2>3. Cardinality(Won) = 0 /\ Takings(order) = 0
    BY <2>2, FS_EmptySet DEF Q!Init, Takings
  <2>4. Q!TypeOK
    BY <2>1, OffShape, CommerceAssumption DEF Q!Init, Q!TypeOK, Q!Order, Q!ApplicationStatus
  <2>. QED BY <2>1, <2>3, <2>4, OffShape DEF Q!Init, QuotationInv, Q!CurrentRevisionExists
<1>2. QuotationInv /\ [Next]_all => QuotationInv'
  <2>1. QuotationInv /\ UNCHANGED quotations => QuotationInv'
    BY DEF quotations, QuotationInv, Q!TypeOK, Q!CurrentRevisionExists, Won, Q!Accepted
  <2>. QED BY <2>1, QuotationStep DEF Next, all
<1>3. QuotationInv => AcceptedOncePerAward
  <2>. SUFFICES ASSUME QuotationInv PROVE AcceptedOncePerAward
    OBVIOUS
  <2>1. /\ Q!Accepted \subseteq Won /\ Won \in SUBSET Quotes /\ Q!Accepted \in SUBSET Quotes
    BY DEF Won, Q!Accepted
  <2>2. Takings(order) \in Nat /\ Cardinality(Won) <= Takings(order)
    BY TakingsNat DEF QuotationInv, Q!TypeOK
  <2>3. Cardinality(Q!Accepted) <= Takings(order)
    BY <2>1, <2>2, BoundKept
  <2>4. Q!AcceptedOncePerAward
    BY <2>3 DEF Takings, Q!AcceptedOncePerAward, Cardinality, Q!Cardinality
  <2>. QED BY <2>4 DEF AcceptedOncePerAward, QuotationInv
<1>. QED BY <1>1, <1>2, <1>3, PTL DEF Spec

-----------------------------------------------------------------------------
(***************************************************************************)
(* The idempotency middleware.  Until the lock expires, whoever has passed *)
(* setIfAbsent and not yet unlocked is alone and the lock is there; what   *)
(* is stored or answered names an execution of the same fingerprint.       *)
(***************************************************************************)
\* An execution that ran on the data in D had the fingerprint f.
Ran(D, f) == \E d \in D : H!fingerprint(d) = f

Holding == {a \in Attempts : attempt[a].step \in {"run", "store", "unlock"}}

MiddlewareInv ==
  /\ H!TypeOK
  /\ expired = 0 => (\A a, b \in Holding : a = b) /\ (Holding # {} => locked)
  /\ \A a \in Attempts : \A e \in attempt[a].answer : Ran(runs[e], H!fingerprint(attempt[a].data))
  /\ \A s \in stored : Ran(runs[s.run], s.fingerprint)
  /\ \A a \in Attempts : attempt[a].step \in {"unsent", "lookup", "lock", "wait", "run"}
                           => runs[a] = {} /\ attempt[a].answer = {}
  /\ \A a \in Attempts : attempt[a].step = "store" => attempt[a].answer = {a}

\* A request takes a step that neither locks nor runs the handler: it is answered
\* with what is stored for its data, or with nothing new.
LEMMA RequestMoves ==
  ASSUME MiddlewareInv, NEW a \in Attempts, NEW k \in H!AttemptState,
         attempt' = [attempt EXCEPT ![a] = k],
         UNCHANGED <<runs, expired>>, locked' = locked, H!TypeOK',
         attempt[a].step # "unsent" => k.data = attempt[a].data,
         k.step \in {"run", "store", "unlock"} => a \in Holding,
         k.step # "store",
         k.step \in {"unsent", "lookup", "lock", "wait", "run"} => runs[a] = {} /\ k.answer = {},
         \A e \in k.answer : Ran(runs[e], H!fingerprint(k.data)),
         \A s \in stored' : Ran(runs[s.run], s.fingerprint)
  PROVE  MiddlewareInv'
<1>1. /\ attempt'[a] = k
      /\ \A b \in Attempts \ {a} : attempt'[b] = attempt[b]
  BY DEF MiddlewareInv, H!TypeOK
<1>2. Holding' \subseteq Holding
  BY <1>1 DEF Holding
<1>. QED BY <1>1, <1>2 DEF MiddlewareInv

LEMMA MiddlewareStep ==
  ASSUME MiddlewareInv, H!Next
  PROVE  MiddlewareInv'
<1>1. CASE H!LockExpires
  <2>0. expired' \in 0..MaxExpirations /\ expired' # 0
    BY <1>1, CommerceAssumption DEF H!LockExpires, MiddlewareInv, H!TypeOK
  <2>1. H!TypeOK' /\ expired' # 0
    BY <1>1, <2>0 DEF H!LockExpires, MiddlewareInv, H!TypeOK
  <2>. QED BY <1>1, <2>1 DEF H!LockExpires, MiddlewareInv
<1>0. \A d \in H!Data : H!fingerprint(d) \in Bodies
  BY DEF H!Data, H!fingerprint
<1>. USE DEF H!AttemptState
<1>2. ASSUME NEW a \in Attempts, NEW d \in H!Data, H!Send(a, d)
      PROVE  MiddlewareInv'
  <2>. DEFINE k == [attempt[a] EXCEPT !.step = "lookup", !.data = d]
  <2>0. attempt[a] \in H!AttemptState
    BY DEF MiddlewareInv, H!TypeOK
  <2>1. k \in H!AttemptState /\ k.step = "lookup" /\ k.answer = attempt[a].answer
    BY <2>0
  <2>2. attempt' = [attempt EXCEPT ![a] = k] /\ H!TypeOK'
    BY <1>2, <2>1 DEF H!Send, MiddlewareInv, H!TypeOK
  <2>3. runs[a] = {} /\ k.answer = {} /\ attempt[a].step = "unsent"
    BY <1>2, <2>1 DEF H!Send, MiddlewareInv
  <2>4. UNCHANGED <<stored, locked, runs, expired>> /\ \A s \in stored' : Ran(runs[s.run], s.fingerprint)
    BY <1>2 DEF H!Send, MiddlewareInv
  <2>. HIDE DEF k
  <2>. QED BY <2>1, <2>2, <2>3, <2>4, RequestMoves
<1>3. ASSUME NEW a \in Attempts, NEW s \in stored, H!Replay(a, s),
             attempt[a].step \in {"lookup", "wait"},
             UNCHANGED <<stored, locked, runs, expired>>
      PROVE  MiddlewareInv'
  <2>. DEFINE k == [attempt[a] EXCEPT !.step = "done",
                                      !.answer = IF s.fingerprint = H!fingerprint(attempt[a].data) THEN {s.run} ELSE {}]
  <2>0. attempt[a] \in H!AttemptState /\ s.run \in Attempts
    BY DEF MiddlewareInv, H!TypeOK
  <2>1. /\ k \in H!AttemptState /\ k.step = "done" /\ k.data = attempt[a].data
        /\ k.answer = IF s.fingerprint = H!fingerprint(attempt[a].data) THEN {s.run} ELSE {}
    BY <2>0
  <2>2. attempt' = [attempt EXCEPT ![a] = k] /\ H!TypeOK'
    BY <1>3, <2>1 DEF H!Replay, MiddlewareInv, H!TypeOK
  <2>3. \A e \in k.answer : Ran(runs[e], H!fingerprint(k.data))
    BY <2>1 DEF MiddlewareInv
  <2>. HIDE DEF k
  <2>. QED BY <1>3, <2>1, <2>2, <2>3, RequestMoves DEF MiddlewareInv
<1>4. ASSUME NEW a \in Attempts, NEW step \in {"lock", "wait", "unlock", "done"}, H!Go(a, step),
             step \in {"lock", "wait"} => attempt[a].step \in {"lookup", "lock"},
             step = "unlock" => attempt[a].step \in {"run", "store"},
             attempt[a].step # "unsent",
             UNCHANGED <<locked, runs, expired>>,
             stored' \in {stored, {[fingerprint |-> H!fingerprint(attempt[a].data), run |-> a]}},
             stored' # stored => attempt[a].step = "store"
      PROVE  MiddlewareInv'
  <2>. DEFINE k == [attempt[a] EXCEPT !.step = step]
  <2>1. /\ k \in H!AttemptState /\ k.step = step /\ k.data = attempt[a].data
        /\ k.answer = attempt[a].answer
    BY <1>4 DEF MiddlewareInv, H!TypeOK
  <2>2. attempt' = [attempt EXCEPT ![a] = k]
    BY <1>4 DEF H!Go, MiddlewareInv, H!TypeOK
  <2>3. H!TypeOK'
    <3>1. attempt[a].data \in H!Data
      BY DEF MiddlewareInv, H!TypeOK
    <3>2. stored' \subseteq [fingerprint : Bodies, run : Attempts]
      BY <1>0, <1>4, <3>1 DEF MiddlewareInv, H!TypeOK
    <3>. QED BY <1>4, <2>1, <2>2, <3>2 DEF MiddlewareInv, H!TypeOK
  <2>4. \A s \in stored' : Ran(runs[s.run], s.fingerprint)
    BY <1>4 DEF MiddlewareInv
  <2>5. /\ \A e \in k.answer : Ran(runs[e], H!fingerprint(k.data))
        /\ step \in {"lock", "wait"} => runs[a] = {} /\ k.answer = {}
        /\ step = "unlock" => a \in Holding
    BY <1>4, <2>1 DEF MiddlewareInv, Holding
  <2>. HIDE DEF k
  <2>. QED BY <1>4, <2>1, <2>2, <2>3, <2>4, <2>5, RequestMoves
<1>5. ASSUME NEW a \in Attempts, H!Lookup(a)
      PROVE  MiddlewareInv'
  BY <1>3, <1>4, <1>5 DEF H!Lookup
<1>6. ASSUME NEW a \in Attempts, H!Poll(a)
      PROVE  MiddlewareInv'
  BY <1>3, <1>6 DEF H!Poll
<1>7. ASSUME NEW a \in Attempts, H!setIfAbsent(a)
      PROVE  MiddlewareInv'
  <2>1. CASE locked
    BY <1>4, <1>7, <2>1 DEF H!setIfAbsent
  <2>2. CASE ~locked
    <3>1. /\ attempt' = [attempt EXCEPT ![a].step = "run"]
          /\ locked' = TRUE /\ UNCHANGED <<stored, runs, expired>>
          /\ attempt[a].step = "lock"
      BY <1>7, <2>2 DEF H!setIfAbsent, H!Go
    <3>2. /\ attempt'[a].step = "run" /\ attempt'[a].data = attempt[a].data
          /\ attempt'[a].answer = attempt[a].answer
          /\ \A b \in Attempts \ {a} : attempt'[b] = attempt[b]
          /\ attempt' \in [Attempts -> H!AttemptState]
      BY <3>1 DEF MiddlewareInv, H!TypeOK
    <3>3. Holding' \subseteq Holding \cup {a} /\ (expired = 0 => Holding = {})
      BY <2>2, <3>2 DEF Holding, MiddlewareInv
    <3>. QED BY <3>1, <3>2, <3>3 DEF MiddlewareInv, H!TypeOK
  <2>. QED BY <2>1, <2>2
<1>8. ASSUME NEW a \in Attempts, H!HandlerSucceeds(a)
      PROVE  MiddlewareInv'
  <2>. DEFINE k == [attempt[a] EXCEPT !.step = "store", !.answer = {a}]
  <2>1. attempt[a] \in H!AttemptState /\ attempt \in [Attempts -> H!AttemptState]
    BY DEF MiddlewareInv, H!TypeOK
  <2>2. k \in H!AttemptState /\ k.step = "store" /\ k.answer = {a} /\ k.data = attempt[a].data
    BY <2>1
  <2>3. /\ attempt' = [attempt EXCEPT ![a] = k]
        /\ runs' = [runs EXCEPT ![a] = {attempt[a].data}]
        /\ UNCHANGED <<stored, locked, expired>> /\ attempt[a].step = "run"
    BY <1>8, <2>1 DEF H!HandlerSucceeds
  <2>. HIDE DEF k
  <2>4. /\ attempt'[a] = k
        /\ \A b \in Attempts \ {a} : attempt'[b] = attempt[b]
        /\ attempt' \in [Attempts -> H!AttemptState]
    BY <2>1, <2>2, <2>3
  <2>5. attempt[a].data \in H!Data
    BY <2>1
  <2>6. /\ runs'[a] = {attempt[a].data}
        /\ \A b \in Attempts \ {a} : runs'[b] = runs[b]
        /\ runs' \in [Attempts -> SUBSET H!Data]
        /\ runs[a] = {}
    BY <2>3, <2>5 DEF MiddlewareInv, H!TypeOK
  <2>7. Holding' = Holding
    BY <2>2, <2>3, <2>4 DEF Holding
  <2>8. \A b \in Attempts : attempt[b].answer \subseteq Attempts \ {a}
    BY <2>6 DEF MiddlewareInv, H!TypeOK, Ran
  <2>9. ASSUME NEW s \in stored PROVE s.run \in Attempts \ {a}
    <3>1. s \in [fingerprint : Bodies, run : Attempts]
      BY DEF MiddlewareInv, H!TypeOK
    <3>2. Ran(runs[s.run], s.fingerprint)
      BY DEF MiddlewareInv
    <3>3. runs[s.run] # {}
      BY <3>2 DEF Ran
    <3>. QED BY <2>6, <3>1, <3>3
  <2>10. H!TypeOK'
    BY <2>3, <2>4, <2>6 DEF MiddlewareInv, H!TypeOK
  <2>11. \A b \in Attempts : \A e \in attempt'[b].answer : Ran(runs'[e], H!fingerprint(attempt'[b].data))
    <3>1. Ran(runs'[a], H!fingerprint(attempt[a].data))
      BY <2>6 DEF Ran
    <3>. QED BY <2>2, <2>4, <2>6, <2>8, <3>1 DEF MiddlewareInv
  <2>. QED BY <2>2, <2>3, <2>4, <2>6, <2>7, <2>9, <2>10, <2>11 DEF MiddlewareInv
<1>9. ASSUME NEW a \in Attempts, H!Unlock(a)
      PROVE  MiddlewareInv'
  <2>1. /\ attempt' = [attempt EXCEPT ![a].step = "done"]
        /\ UNCHANGED <<stored, runs, expired>> /\ attempt[a].step = "unlock" /\ locked' = FALSE
    BY <1>9 DEF H!Unlock, H!Go
  <2>2. /\ attempt'[a].step = "done" /\ attempt'[a].data = attempt[a].data
        /\ attempt'[a].answer = attempt[a].answer
        /\ \A b \in Attempts \ {a} : attempt'[b] = attempt[b]
        /\ attempt' \in [Attempts -> H!AttemptState]
    BY <2>1 DEF MiddlewareInv, H!TypeOK
  <2>3. expired = 0 => Holding' = {}
    BY <2>1, <2>2 DEF MiddlewareInv, Holding
  <2>4. H!TypeOK'
    BY <2>1, <2>2 DEF MiddlewareInv, H!TypeOK
  <2>5. attempt[a].answer \subseteq Attempts
    BY DEF MiddlewareInv, H!TypeOK
  <2>. QED BY <2>1, <2>2, <2>3, <2>4, <2>5 DEF MiddlewareInv
<1>10. ASSUME NEW a \in Attempts,
              H!StillProcessing(a) \/ H!HandlerFails(a) \/ H!StoreFails(a) \/ H!StoreResponse(a)
                \/ H!Crash(a)
       PROVE  MiddlewareInv'
  BY <1>4, <1>10 DEF H!StillProcessing, H!HandlerFails, H!StoreFails, H!StoreResponse, H!Crash
<1>. QED BY <1>1, <1>2, <1>5, <1>6, <1>7, <1>8, <1>9, <1>10 DEF H!Next, H!Middleware

\* Until the lock's TTL passes one request at a time executes under a key, and in
\* any case a request is answered only with an execution of its own fingerprint,
\* through crashes, expirations and lost responses (shared/middleware/idempotency.ts).
THEOREM KeyIsGuarded == Spec => []KeyGuardsExecution
<1>1. Init => MiddlewareInv
  <2>1. [step |-> "unsent", data |-> H!AnyData, answer |-> {}] \in H!AttemptState
    <3>1. \E d \in H!Data : TRUE
      <4>1. PICK b \in Bodies, e \in Rests : TRUE
        BY CommerceAssumption
      <4>2. [body |-> b, rest |-> e] \in H!Data
        BY DEF H!Data
      <4>. QED BY <4>2
    <3>2. H!AnyData \in H!Data
      BY <3>1 DEF H!AnyData
    <3>. QED BY <3>2 DEF H!AttemptState
  <2>. DEFINE k == [step |-> "unsent", data |-> H!AnyData, answer |-> {}]
  <2>2. k.step = "unsent" /\ k.answer = {}
    OBVIOUS
  <2>. HIDE DEF k
  <2>. SUFFICES ASSUME H!Init PROVE MiddlewareInv
    BY DEF Init
  <2>3. attempt = [a \in Attempts |-> k]
    BY DEF H!Init, k
  <2>4. H!TypeOK
    <3>1. k \in H!AttemptState
      BY <2>1 DEF k
    <3>2. attempt \in [Attempts -> H!AttemptState]
      BY <2>3, <3>1
    <3>3. expired \in 0..MaxExpirations
      BY CommerceAssumption DEF H!Init
    <3>. QED BY <3>2, <3>3 DEF H!Init, H!TypeOK
  <2>. QED BY <2>2, <2>3, <2>4 DEF H!Init, MiddlewareInv, Holding
<1>2. MiddlewareInv /\ [Next]_all => MiddlewareInv'
  <2>1. MiddlewareInv /\ UNCHANGED middleware => MiddlewareInv'
    BY DEF middleware, MiddlewareInv, H!TypeOK, Holding
  <2>. QED BY <2>1, MiddlewareStep DEF Next, all
<1>3. MiddlewareInv => KeyGuardsExecution
  BY DEF MiddlewareInv, Holding, Ran, KeyGuardsExecution, H!KeyGuardsExecution, H!Running
<1>. QED BY <1>1, <1>2, <1>3, PTL DEF Spec

-----------------------------------------------------------------------------
(***************************************************************************)
(* Billing.  A payment that a checkout call is still working on is pending *)
(* and unknown to webhooks, and no other call works on it; so a settled    *)
(* payment is out of reach of every write but the webhook's own, which     *)
(* claims a pending one.                                                   *)
(***************************************************************************)
CheckingOut(r) == api[r].op = "checkout" /\ api[r].step \in {"gateway", "store"}

BillingInv ==
  /\ B!TypeOK
  /\ B!ActivatedOncePerPayment
  /\ \A r \in Requests : CheckingOut(r) => \A p \in api[r].pay : /\ payment[p].status = "pending"
                                                                 /\ ~payment[p].known
  /\ \A r, s \in Requests : CheckingOut(r) /\ CheckingOut(s) /\ r # s => api[r].pay \cap api[s].pay = {}
  /\ B!OneDefaultMethod
  /\ \A r \in Requests : api[r].op = "saveMethod" => /\ part = "methods"
                                                     /\ \E m \in Methods : api[r].card = {m}

Settled(p) == payment[p].status \in {"succeeded", "failed"}
StaysSettled == \A p \in Payments : Settled(p) => payment'[p].status = payment[p].status

LEMMA QuietIsIdle == B!Quiet \in B!Api /\ B!Quiet.op = "none" /\ B!LowestPlan \in Plans
<1>1. B!LowestPlan \in Plans
  BY CommerceAssumption DEF B!LowestPlan
<1>. QED BY <1>1 DEF B!Quiet, B!Api, B!Cycles

\* A call of the subscription's part moves on or returns and writes at most the
\* subscription.
LEMMA CallMoves ==
  ASSUME BillingInv, NEW r \in Requests, NEW k \in B!Api,
         api' = [api EXCEPT ![r] = k],
         k.op # "saveMethod", k.step \notin {"gateway", "store"},
         part = "subscription", part' = part,
         subscription' \in B!Subscription,
         UNCHANGED <<payment, checkout, activations, method>>
  PROVE  BillingInv'
<1>1. /\ api'[r] = k
      /\ \A s \in Requests \ {r} : api'[s] = api[s]
      /\ api' \in [Requests -> B!Api]
  BY DEF BillingInv, B!TypeOK
<1>2. \A s \in Requests : CheckingOut(s)' => CheckingOut(s) /\ api'[s] = api[s]
  BY <1>1 DEF CheckingOut
<1>3. B!TypeOK' /\ B!ActivatedOncePerPayment'
  BY <1>1 DEF BillingInv, B!TypeOK, B!ActivatedOncePerPayment
<1>4. B!OneDefaultMethod'
  BY <1>1 DEF BillingInv, B!OneDefaultMethod
<1>. QED BY <1>1, <1>2, <1>3, <1>4 DEF BillingInv

\* In particular a call may return, or stop, at any step.
LEMMA CallReturns ==
  ASSUME BillingInv, NEW r \in Requests, B!Reply(r),
         part = "subscription", part' = part,
         subscription' \in B!Subscription,
         UNCHANGED <<payment, checkout, activations, method>>
  PROVE  BillingInv'
  BY QuietIsIdle, CallMoves DEF B!Reply, B!Quiet

LEMMA ReadStep ==
  ASSUME BillingInv, part = "subscription", part' = part,
         NEW r \in Requests, NEW op \in B!ApiOps \ {"saveMethod"}, NEW plan \in Plans,
         NEW cycle \in B!Cycles, B!Read(r, op, plan, cycle)
  PROVE  BillingInv'
<1>. DEFINE k == [B!Quiet EXCEPT !.op = op, !.step = "read", !.plan = plan, !.cycle = cycle]
<1>1. B!Quiet \in B!Api
  BY QuietIsIdle
<1>2. k \in B!Api /\ k.op = op /\ k.step = "read"
  BY <1>1 DEF B!Api
<1>3. api' = [api EXCEPT ![r] = k] /\ UNCHANGED <<subscription, payment, checkout, activations, method>>
  BY DEF B!Read
<1>. HIDE DEF k
<1>. QED BY <1>2, <1>3, CallMoves DEF BillingInv, B!TypeOK

LEMMA SubscriptionWritten ==
  ASSUME BillingInv, part = "subscription", part' = part, NEW r \in Requests,
         B!createSubscription(r) \/ B!UpdateSubscription(r)
  PROVE  BillingInv'
<1>1. subscription \in B!Subscription /\ api[r] \in B!Api
  BY DEF BillingInv, B!TypeOK
<1>2. CASE B!createSubscription(r)
  <2>1. subscription' \in B!Subscription
    BY <1>1, <1>2 DEF B!createSubscription, B!Subscription, B!SubscriptionStatus, B!Api
  <2>. QED BY <1>2, <2>1, CallReturns DEF B!createSubscription
<1>3. CASE B!UpdateSubscription(r)
  <2>1. subscription' \in B!Subscription
    BY <1>1, <1>3 DEF B!UpdateSubscription, B!Subscription, B!SubscriptionStatus, B!Api
  <2>. QED BY <1>3, <2>1, CallReturns DEF B!UpdateSubscription
<1>. QED BY <1>2, <1>3

\* A checkout call goes on: its payments p change, those of nobody else.
LEMMA CreatePaymentStep ==
  ASSUME BillingInv, part = "subscription", part' = part, NEW r \in Requests, NEW p \in Payments,
         B!CreatePayment(r, p)
  PROVE  BillingInv' /\ StaysSettled
<1>. DEFINE k == [api[r] EXCEPT !.step = "gateway", !.pay = {p}]
            n == [status |-> "pending", known |-> FALSE]
<1>1. api[r] \in B!Api /\ api \in [Requests -> B!Api] /\ n \in B!Payment
  BY DEF BillingInv, B!TypeOK, B!Payment
<1>2. k \in B!Api /\ k.op = api[r].op /\ k.step = "gateway" /\ k.pay = {p} /\ k.card = api[r].card
  BY <1>1 DEF B!Api
<1>3. /\ api' = [api EXCEPT ![r] = k] /\ payment' = [payment EXCEPT ![p] = n]
      /\ payment[p].status = "none" /\ api[r].op = "checkout"
      /\ UNCHANGED <<subscription, checkout, activations, method>>
  BY <1>1 DEF B!CreatePayment, B!At
<1>4. n.status = "pending" /\ ~n.known
  OBVIOUS
<1>. HIDE DEF k, n
<1>5. /\ api'[r] = k
      /\ \A s \in Requests \ {r} : api'[s] = api[s]
      /\ api' \in [Requests -> B!Api]
  BY <1>1, <1>2, <1>3
<1>6. /\ payment'[p] = n
      /\ \A q \in Payments \ {p} : payment'[q] = payment[q]
      /\ payment' \in [Payments -> B!Payment]
  BY <1>1, <1>3 DEF BillingInv, B!TypeOK
<1>7. \A s \in Requests \ {r} : /\ CheckingOut(s)' <=> CheckingOut(s)
                                /\ CheckingOut(s) => api[s].pay \subseteq Payments \ {p}
  BY <1>1, <1>3, <1>5 DEF BillingInv, CheckingOut, B!Api
<1>8. B!TypeOK' /\ B!ActivatedOncePerPayment'
  BY <1>3, <1>4, <1>5, <1>6 DEF BillingInv, B!TypeOK, B!ActivatedOncePerPayment
<1>9. B!OneDefaultMethod'
  BY <1>2, <1>3, <1>5 DEF BillingInv, B!OneDefaultMethod
<1>10. \A s \in Requests : CheckingOut(s)' => \A q \in api'[s].pay : /\ payment'[q].status = "pending"
                                                                     /\ ~payment'[q].known
  BY <1>2, <1>4, <1>5, <1>6, <1>7 DEF BillingInv
<1>11. \A s, t \in Requests : CheckingOut(s)' /\ CheckingOut(t)' /\ s # t => api'[s].pay \cap api'[t].pay = {}
  BY <1>2, <1>5, <1>7 DEF BillingInv
<1>12. StaysSettled
  BY <1>3, <1>6 DEF StaysSettled, Settled
<1>. QED BY <1>2, <1>3, <1>5, <1>8, <1>9, <1>10, <1>11, <1>12 DEF BillingInv

\* The provider answers or throws, or the checkout's id is stored: the call writes
\* the payments it works on, which are pending.
LEMMA CheckoutStep ==
  ASSUME BillingInv, part = "subscription", part' = part, NEW r \in Requests, CheckingOut(r),
         NEW k \in B!Api, api' = [api EXCEPT ![r] = k],
         k = B!Quiet \/ k = [api[r] EXCEPT !.step = "store"],
         payment' \in [Payments -> B!Payment],
         checkout' \in [Payments -> {"none", "open", "paid", "declined"}],
         \A p \in Payments \ api[r].pay : payment'[p] = payment[p] /\ checkout'[p] = checkout[p],
         \A p \in api[r].pay : payment'[p].status \in {"pending", "failed"},
         k # B!Quiet => payment' = payment,
         UNCHANGED <<subscription, activations, method>>
  PROVE  BillingInv' /\ StaysSettled
<1>1. /\ api'[r] = k
      /\ \A s \in Requests \ {r} : api'[s] = api[s]
      /\ api' \in [Requests -> B!Api]
      /\ api[r] \in B!Api
  BY DEF BillingInv, B!TypeOK
<1>2. /\ k.op # "saveMethod"
      /\ k = B!Quiet => k.step = "idle"
      /\ k # B!Quiet => k.pay = api[r].pay
  BY <1>1, QuietIsIdle DEF CheckingOut, B!Quiet, B!Api
<1>3. \A s \in Requests \ {r} : /\ CheckingOut(s)' <=> CheckingOut(s)
                                /\ CheckingOut(s) => api[s].pay \subseteq Payments \ api[r].pay
  <2>1. \A s \in Requests : api[s].pay \subseteq Payments
    BY DEF BillingInv, B!TypeOK, B!Api
  <2>. QED BY <1>1, <2>1 DEF BillingInv, CheckingOut
<1>4. CheckingOut(r)' => k # B!Quiet
  BY <1>1, <1>2 DEF CheckingOut
<1>5. B!TypeOK'
  BY <1>1 DEF BillingInv, B!TypeOK
<1>6. \A p \in api[r].pay : payment[p].status = "pending" /\ p \in Payments
  BY <1>1 DEF BillingInv, B!Api
<1>7. B!ActivatedOncePerPayment'
  BY <1>6 DEF BillingInv, B!ActivatedOncePerPayment
<1>8. B!OneDefaultMethod'
  BY <1>1, <1>2 DEF BillingInv, B!OneDefaultMethod
<1>9. \A s \in Requests : CheckingOut(s)' => \A q \in api'[s].pay : /\ payment'[q].status = "pending"
                                                                    /\ ~payment'[q].known
  BY <1>1, <1>2, <1>3, <1>4 DEF BillingInv
<1>10. \A s, t \in Requests : CheckingOut(s)' /\ CheckingOut(t)' /\ s # t => api'[s].pay \cap api'[t].pay = {}
  BY <1>1, <1>2, <1>3, <1>4 DEF BillingInv
<1>11. StaysSettled
  BY <1>6 DEF StaysSettled, Settled
<1>. QED BY <1>1, <1>2, <1>5, <1>7, <1>8, <1>9, <1>10, <1>11 DEF BillingInv

LEMMA GatewayStep ==
  ASSUME BillingInv, part = "subscription", part' = part, NEW r \in Requests,
         B!GatewayAnswers(r) \/ B!StoreCheckoutId(r) \/ \E opened \in BOOLEAN : B!GatewayThrows(r, opened)
  PROVE  BillingInv' /\ StaysSettled
<1>1. /\ api[r] \in B!Api /\ api \in [Requests -> B!Api] /\ payment \in [Payments -> B!Payment]
      /\ checkout \in [Payments -> {"none", "open", "paid", "declined"}]
      /\ api[r].pay \subseteq Payments
  BY DEF BillingInv, B!TypeOK, B!Api
<1>2. CASE B!GatewayAnswers(r)
  <2>. DEFINE k == [api[r] EXCEPT !.step = "store"]
  <2>1. k \in B!Api
    BY <1>1 DEF B!Api
  <2>2. /\ api' = [api EXCEPT ![r] = k] /\ CheckingOut(r)
        /\ UNCHANGED <<subscription, payment, activations, method>>
        /\ checkout' = [p \in Payments |-> IF p \in api[r].pay THEN "open" ELSE checkout[p]]
    BY <1>1, <1>2 DEF B!GatewayAnswers, B!At, CheckingOut
  <2>3. \A p \in api[r].pay : payment'[p].status = "pending"
    BY <2>2 DEF BillingInv
  <2>4. checkout' \in [Payments -> {"none", "open", "paid", "declined"}]
    BY <1>1, <2>2
  <2>5. \A p \in Payments \ api[r].pay : payment'[p] = payment[p] /\ checkout'[p] = checkout[p]
    BY <2>2
  <2>. QED BY <1>1, <2>1, <2>2, <2>3, <2>4, <2>5, CheckoutStep
<1>3. CASE B!StoreCheckoutId(r)
  <2>. DEFINE f(p) == [payment[p] EXCEPT !.known = TRUE]
  <2>1. /\ api' = [api EXCEPT ![r] = B!Quiet] /\ CheckingOut(r)
        /\ UNCHANGED <<subscription, checkout, activations, method>>
        /\ payment' = [p \in Payments |-> IF p \in api[r].pay THEN f(p) ELSE payment[p]]
    BY <1>3 DEF B!StoreCheckoutId, B!At, B!Reply, CheckingOut
  <2>2. \A p \in Payments : f(p) \in B!Payment /\ f(p).status = payment[p].status
    BY <1>1 DEF B!Payment
  <2>. HIDE DEF f
  <2>3. /\ payment' \in [Payments -> B!Payment]
        /\ \A p \in Payments \ api[r].pay : payment'[p] = payment[p] /\ checkout'[p] = checkout[p]
    BY <1>1, <2>1, <2>2
  <2>4. \A p \in api[r].pay : payment'[p].status = "pending"
    BY <1>1, <2>1, <2>2 DEF BillingInv
  <2>. QED BY <1>1, <2>1, <2>3, <2>4, CheckoutStep, QuietIsIdle
<1>4. ASSUME NEW opened \in BOOLEAN, B!GatewayThrows(r, opened)
      PROVE  BillingInv' /\ StaysSettled
  <2>. DEFINE f(p) == [payment[p] EXCEPT !.status = "failed"]
  <2>1. /\ api' = [api EXCEPT ![r] = B!Quiet] /\ CheckingOut(r)
        /\ UNCHANGED <<subscription, activations, method>>
        /\ payment' = [p \in Payments |-> IF p \in api[r].pay THEN f(p) ELSE payment[p]]
        /\ checkout' = [p \in Payments |-> IF p \in api[r].pay /\ opened THEN "open" ELSE checkout[p]]
    BY <1>4 DEF B!GatewayThrows, B!At, B!Reply, CheckingOut
  <2>2. \A p \in Payments : f(p) \in B!Payment /\ f(p).status = "failed"
    BY <1>1 DEF B!Payment
  <2>. HIDE DEF f
  <2>3. /\ payment' \in [Payments -> B!Payment]
        /\ checkout' \in [Payments -> {"none", "open", "paid", "declined"}]
        /\ \A p \in Payments \ api[r].pay : payment'[p] = payment[p] /\ checkout'[p] = checkout[p]
    BY <1>1, <2>1, <2>2
  <2>4. \A p \in api[r].pay : payment'[p].status = "failed"
    BY <1>1, <2>1, <2>2
  <2>. QED BY <1>1, <2>1, <2>3, <2>4, CheckoutStep, QuietIsIdle
<1>. QED BY <1>2, <1>3, <1>4

\* The customer pays or not; a webhook claims a pending payment or does nothing.
LEMMA ProviderStep ==
  ASSUME BillingInv, part = "subscription", part' = part, B!Provider
  PROVE  BillingInv' /\ StaysSettled
<1>1. PICK p \in Payments : \/ B!ProviderCharges(p) \/ B!ProviderDeclines(p)
                            \/ B!WebhookSucceeded(p) \/ B!WebhookFailed(p)
  BY DEF B!Provider
<1>2. /\ payment \in [Payments -> B!Payment] /\ payment[p] \in B!Payment
      /\ subscription \in B!Subscription
      /\ activations \in [Payments -> Nat]
      /\ checkout \in [Payments -> {"none", "open", "paid", "declined"}]
  BY DEF BillingInv, B!TypeOK
<1>3. CASE B!ProviderCharges(p) \/ B!ProviderDeclines(p)
  <2>1. /\ UNCHANGED <<subscription, payment, activations, method, api>>
        /\ checkout' \in [Payments -> {"none", "open", "paid", "declined"}]
        /\ \A q \in Payments : checkout[q] = "paid" => checkout'[q] = "paid"
    BY <1>2, <1>3 DEF B!ProviderCharges, B!ProviderDeclines
  <2>. QED BY <2>1 DEF BillingInv, B!TypeOK, B!ActivatedOncePerPayment, B!OneDefaultMethod,
                      CheckingOut, StaysSettled
<1>4. ASSUME NEW st \in {"succeeded", "failed"}, NEW sub \in {"active", "past_due"},
             payment' = [payment EXCEPT ![p].status = st],
             subscription' = [subscription EXCEPT !.status = sub],
             payment[p].known, payment[p].status = "pending",
             st = "succeeded" => checkout[p] = "paid" /\ activations' = [activations EXCEPT ![p] = @ + 1],
             st = "failed" => activations' = activations,
             UNCHANGED <<checkout, method, api>>
      PROVE  BillingInv' /\ StaysSettled
  <2>. DEFINE n == [payment[p] EXCEPT !.status = st]
              u == [subscription EXCEPT !.status = sub]
  <2>1. n \in B!Payment /\ n.status = st /\ u \in B!Subscription
    BY <1>2 DEF B!Payment, B!Subscription, B!SubscriptionStatus
  <2>2. payment' = [payment EXCEPT ![p] = n] /\ subscription' = u
    BY <1>2, <1>4
  <2>. HIDE DEF n, u
  <2>3. /\ payment'[p] = n /\ \A q \in Payments \ {p} : payment'[q] = payment[q]
        /\ payment' \in [Payments -> B!Payment]
    BY <1>2, <2>1, <2>2
  <2>4. /\ activations' \in [Payments -> Nat]
        /\ \A q \in Payments \ {p} : activations'[q] = activations[q]
        /\ activations'[p] = IF st = "succeeded" THEN activations[p] + 1 ELSE activations[p]
    BY <1>2, <1>4
  <2>5. activations[p] = 0
    BY <1>4 DEF BillingInv, B!ActivatedOncePerPayment
  <2>6. \A r \in Requests : CheckingOut(r) => api[r].pay \subseteq Payments \ {p}
    BY <1>4 DEF BillingInv, B!TypeOK, B!Api
  <2>7. \A r \in Requests : CheckingOut(r)' <=> CheckingOut(r)
    BY <1>4 DEF CheckingOut
  <2>8. B!TypeOK'
    BY <1>4, <2>1, <2>2, <2>3, <2>4 DEF BillingInv, B!TypeOK
  <2>9. B!ActivatedOncePerPayment'
    BY <1>4, <2>1, <2>3, <2>4, <2>5 DEF BillingInv, B!ActivatedOncePerPayment
  <2>10. B!OneDefaultMethod'
    BY <1>4 DEF BillingInv, B!OneDefaultMethod
  <2>11. StaysSettled
    BY <1>4, <2>3 DEF StaysSettled, Settled
  <2>. QED BY <1>4, <2>3, <2>6, <2>7, <2>8, <2>9, <2>10, <2>11 DEF BillingInv
<1>5. CASE B!WebhookSucceeded(p)
  BY <1>4, <1>5 DEF B!WebhookSucceeded
<1>6. CASE B!WebhookFailed(p)
  BY <1>4, <1>6 DEF B!WebhookFailed
<1>. QED BY <1>1, <1>3, <1>5, <1>6

\* Saving a method makes it a default until its call has cleared the others; the
\* call that clears leaves its own method as the only default.
LEMMA SaveMethodsStep ==
  ASSUME BillingInv, part = "methods", part' = part, B!SaveMethods
  PROVE  BillingInv' /\ StaysSettled
<1>1. api \in [Requests -> B!Api] /\ method \in [Methods -> {"none", "saved", "default"}]
  BY DEF BillingInv, B!TypeOK
<1>2. ASSUME NEW r \in Requests, NEW m \in Methods, B!UpsertMethod(r, m)
      PROVE  BillingInv' /\ StaysSettled
  <2>. DEFINE k == [B!Quiet EXCEPT !.op = "saveMethod", !.step = "default", !.card = {m}]
  <2>1. B!Quiet \in B!Api
    BY QuietIsIdle
  <2>2. k \in B!Api /\ k.op = "saveMethod" /\ k.card = {m} /\ k.step = "default"
    BY <2>1 DEF B!Api, B!ApiOps
  <2>3. /\ api' = [api EXCEPT ![r] = k] /\ method' = [method EXCEPT ![m] = "default"]
        /\ UNCHANGED <<subscription, payment, checkout, activations>>
    BY <1>2 DEF B!UpsertMethod
  <2>. HIDE DEF k
  <2>4. /\ api'[r] = k /\ \A s \in Requests \ {r} : api'[s] = api[s]
        /\ api' \in [Requests -> B!Api]
    BY <1>1, <2>2, <2>3
  <2>5. method' \in [Methods -> {"none", "saved", "default"}]
    BY <1>1, <2>3
  <2>6. \A s \in Requests : CheckingOut(s)' => CheckingOut(s) /\ api'[s] = api[s]
    BY <2>2, <2>4 DEF CheckingOut
  <2>7. B!TypeOK' /\ B!ActivatedOncePerPayment' /\ B!OneDefaultMethod' /\ StaysSettled
    BY <2>2, <2>3, <2>4, <2>5 DEF BillingInv, B!TypeOK, B!ActivatedOncePerPayment, B!OneDefaultMethod,
                                  StaysSettled
  <2>. QED BY <2>2, <2>3, <2>4, <2>6, <2>7 DEF BillingInv
<1>3. ASSUME NEW r \in Requests, B!ClearOtherDefaults(r)
      PROVE  BillingInv' /\ StaysSettled
  <2>1. /\ api' = [api EXCEPT ![r] = B!Quiet] /\ api[r].op = "saveMethod"
        /\ method' = [m \in Methods |-> IF method[m] = "default" /\ m \notin api[r].card
                                        THEN "saved" ELSE method[m]]
        /\ UNCHANGED <<subscription, payment, checkout, activations>>
    BY <1>3 DEF B!ClearOtherDefaults, B!At, B!Reply
  <2>2. /\ api'[r] = B!Quiet /\ \A s \in Requests \ {r} : api'[s] = api[s]
        /\ api' \in [Requests -> B!Api]
    BY <1>1, <2>1, QuietIsIdle
  <2>3. /\ method' \in [Methods -> {"none", "saved", "default"}]
        /\ \A m \in Methods : method'[m] = "default" => m \in api[r].card
    BY <1>1, <2>1
  <2>4. \A s \in Requests : CheckingOut(s)' => CheckingOut(s) /\ api'[s] = api[s]
    BY <2>2, QuietIsIdle DEF CheckingOut
  <2>5. B!OneDefaultMethod'
    BY <2>1, <2>3 DEF BillingInv, B!OneDefaultMethod
  <2>6. B!TypeOK' /\ B!ActivatedOncePerPayment' /\ StaysSettled
    BY <2>1, <2>2, <2>3 DEF BillingInv, B!TypeOK, B!ActivatedOncePerPayment, StaysSettled
  <2>. QED BY <2>1, <2>2, <2>4, <2>5, <2>6, QuietIsIdle DEF BillingInv
<1>4. ASSUME NEW m \in Methods, B!RemoveMethod(m)
      PROVE  BillingInv' /\ StaysSettled
  <2>1. /\ method' \in [Methods -> {"none", "saved", "default"}]
        /\ \A n \in Methods : method'[n] = "default" => method[n] = "default"
        /\ UNCHANGED <<subscription, payment, checkout, activations, api>>
    BY <1>1, <1>4 DEF B!RemoveMethod
  <2>. QED BY <2>1 DEF BillingInv, B!TypeOK, B!ActivatedOncePerPayment, B!OneDefaultMethod,
                      CheckingOut, StaysSettled
<1>. QED BY <1>2, <1>3, <1>4 DEF B!SaveMethods

\* Every step of the composition keeps the invariant and settled payments.
LEMMA BillingStep ==
  ASSUME BillingInv, [Next]_all
  PROVE  BillingInv' /\ StaysSettled
<1>1. CASE UNCHANGED <<billing, part>>
  BY <1>1 DEF billing, BillingInv, B!TypeOK, B!ActivatedOncePerPayment, B!OneDefaultMethod,
             CheckingOut, StaysSettled
<1>2. CASE part = "methods" /\ part' = part /\ B!SaveMethods
  BY <1>2, SaveMethodsStep
<1>3. CASE part = "subscription" /\ part' = part /\ B!Provider
  BY <1>3, ProviderStep
<1>4. ASSUME part = "subscription", part' = part, NEW cycle \in B!Cycles,
             B!updateSubscriptionCycle(cycle)
      PROVE  BillingInv' /\ StaysSettled
  <2>1. subscription \in B!Subscription
    BY DEF BillingInv, B!TypeOK
  <2>2. subscription' \in B!Subscription /\ UNCHANGED <<payment, checkout, activations, method, api>>
    BY <1>4, <2>1 DEF B!updateSubscriptionCycle, B!Subscription
  <2>. QED BY <1>4, <2>2 DEF BillingInv, B!TypeOK, B!ActivatedOncePerPayment, B!OneDefaultMethod,
                            CheckingOut, StaysSettled
<1>5. ASSUME part = "subscription", part' = part, NEW r \in Requests,
             B!Begin(r) \/ B!Continue(r) \/ B!Fail(r)
      PROVE  BillingInv' /\ StaysSettled
  <2>1. CASE B!Begin(r)
    <3>1. BillingInv'
      BY <1>5, <2>1, ReadStep, QuietIsIdle DEF B!Begin, B!Cycles, B!ApiOps
    <3>2. UNCHANGED payment
      BY <2>1 DEF B!Begin, B!Read
    <3>. QED BY <3>1, <3>2 DEF StaysSettled
  <2>2. CASE B!createSubscription(r) \/ B!UpdateSubscription(r)
    <3>1. BillingInv'
      BY <1>5, <2>2, SubscriptionWritten
    <3>2. UNCHANGED payment
      BY <2>2 DEF B!createSubscription, B!UpdateSubscription
    <3>. QED BY <3>1, <3>2 DEF StaysSettled
  <2>3. CASE B!Fail(r)
    <3>1. BillingInv'
      BY <1>5, <2>3, CallReturns DEF B!Fail, BillingInv, B!TypeOK
    <3>2. UNCHANGED payment
      BY <2>3 DEF B!Fail
    <3>. QED BY <3>1, <3>2 DEF StaysSettled
  <2>. QED BY <1>5, <2>1, <2>2, <2>3, CreatePaymentStep, GatewayStep DEF B!Continue
<1>. QED BY <1>1, <1>2, <1>3, <1>4, <1>5 DEF Next, all, BillingPart

LEMMA BillingAlways == Spec => []BillingInv
<1>1. Init => BillingInv
  <2>. SUFFICES ASSUME B!Init PROVE BillingInv
    BY DEF Init
  <2>1. B!NoPayment \in B!Payment /\ B!NoPayment.status = "none" /\ B!NoSubscription \in B!Subscription
    BY QuietIsIdle DEF B!NoPayment, B!Payment, B!NoSubscription, B!Subscription, B!SubscriptionStatus, B!Cycles
  <2>2. B!TypeOK
    BY <2>1, QuietIsIdle DEF B!Init, B!TypeOK
  <2>3. B!ActivatedOncePerPayment /\ B!OneDefaultMethod
    BY <2>1 DEF B!Init, B!ActivatedOncePerPayment, B!OneDefaultMethod
  <2>. QED BY <2>2, <2>3, QuietIsIdle DEF B!Init, BillingInv, CheckingOut
<1>2. BillingInv /\ [Next]_all => BillingInv'
  BY BillingStep
<1>. QED BY <1>1, <1>2, PTL DEF Spec

\* Every succeeded payment has activated the subscription exactly once, however
\* often and in which order webhooks arrive beside calls that update the same
\* subscription without a condition (BillingService.handleWebhook).
THEOREM PaymentActivatesOnce == Spec => []ActivatedOncePerPayment
<1>1. BillingInv => ActivatedOncePerPayment
  BY DEF BillingInv, ActivatedOncePerPayment
<1>. QED BY <1>1, BillingAlways, PTL

\* However saves and removals of payment methods overlap, the calls leave one
\* default at most (PaymentMethodService.upsert).
THEOREM DefaultMethodIsOne == Spec => []OneDefaultMethod
<1>1. BillingInv => OneDefaultMethod
  BY DEF BillingInv, OneDefaultMethod
<1>. QED BY <1>1, BillingAlways, PTL

\* No checkout, late gateway error, webhook or retry touches the status of a
\* payment once it has succeeded or failed.
THEOREM PaymentStaysSettled == Spec => SettledIsFinal
<1>1. BillingInv /\ [Next]_all
        => [\A p \in Payments : payment[p].status \in {"succeeded", "failed"}
                                  => payment'[p].status = payment[p].status]_(B!vars)
  BY BillingStep DEF StaysSettled, Settled
<1>. QED BY <1>1, BillingAlways, PTL DEF Spec, SettledIsFinal, B!SettledIsFinal

=============================================================================
