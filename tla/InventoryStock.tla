---------------------------- MODULE InventoryStock ----------------------------
(***************************************************************************)
(* Stock of one inventory item: balances per stock location, reservations  *)
(* and the immutable transaction ledger (src/src/modules/inventory).       *)
(*                                                                         *)
(* Every movement is one MongoDB transaction: it reads a snapshot, and it  *)
(* is aborted and retried by withTransaction when a document it writes was *)
(* written by a transaction that committed after the snapshot (stale).     *)
(* What it only reads may have changed by the time it commits.  The        *)
(* service's checks (active location, known idempotency key) come before   *)
(* the snapshot.  A release never commits (see releaseAtomic).             *)
(***************************************************************************)
EXTENDS Integers, Sequences, FiniteSetsExt

CONSTANTS Locations,     \* stock locations; a balance document per location
          Reservations,  \* reservation ids
          Clients,       \* requests in flight
          Keys,          \* idempotency keys
          Quantities,    \* quantities asked for
          Kinds,         \* bound: the kinds of movement clients ask for
          MaxEntries,    \* bound: length of the ledger
          None

ASSUME StockAssumption ==
  /\ Quantities \subseteq Nat \ {0}
  /\ MaxEntries \in Nat
  /\ None \notin Locations \cup Reservations \cup Keys

InventoryTransactionType ==
  {"receipt", "reservation", "issue", "consumption", "release", "adjustment",
   "transfer", "return"}

VARIABLES quantity, reserved,      \* per location
          active,                  \* per location: status = "active"
          resStatus, resQuantity, resConsumed, resLocation,  \* per reservation
          ledger,                  \* sequence of InventoryTransaction entries
          pc, op,                  \* per client: the request it works on
          stale                    \* per client: the open transaction conflicts

balanceVars == <<quantity, reserved>>
reservationVars == <<resStatus, resQuantity, resConsumed, resLocation>>
vars == <<balanceVars, active, reservationVars, ledger, pc, op, stale>>

\* A movement: issue and consumption name a reservation (res), a source issue
\* (src) or nothing; release names a reservation, return an original entry.
Movements ==
  [type : InventoryTransactionType, loc : Locations \cup {None}, dest : Locations \cup {None},
   q : Int, res : Reservations \cup {None}, src : Nat, key : Keys \cup {None}]

\* The requests the schemas let through; only adjust takes a signed quantity.
\* (A consumption that names a source and a reservation is one of its source.)
Requests ==
  {m \in [type : InventoryTransactionType, loc : Locations \cup {None},
          dest : Locations \cup {None}, q : Quantities \cup {0} \cup {-x : x \in Quantities},
          res : Reservations \cup {None}, src : 0..MaxEntries, key : Keys \cup {None}] :
     /\ m.loc = None <=> m.type \in {"release", "return"}
     /\ m.dest # None <=> m.type = "transfer"
     /\ m.dest # None => m.dest # m.loc
     /\ m.res # None => m.type \in {"issue", "consumption", "release"}
     /\ m.src # 0 => m.type \in {"consumption", "return"}
     /\ m.type = "consumption" => (m.res = None <=> m.src # 0)
     /\ m.type = "release" => m.res # None /\ m.key = None
     /\ m.type = "return" => m.src # 0
     /\ m.q = 0 <=> m.type = "release"
     /\ m.q < 0 => m.type = "adjustment"}

TypeOK ==
  /\ quantity \in [Locations -> Int] /\ reserved \in [Locations -> Int]
  /\ active \in [Locations -> BOOLEAN]
  /\ resStatus \in [Reservations -> {"absent", "reserved", "consumed"}]
  /\ resQuantity \in [Reservations -> Nat] /\ resConsumed \in [Reservations -> Nat]
  /\ resLocation \in [Reservations -> Locations \cup {None}]
  /\ ledger \in Seq(Movements)
  /\ pc \in [Clients -> {"idle", "ready", "open"}]
  /\ op \in [Clients -> Requests \cup {None}]
  /\ stale \in [Clients -> BOOLEAN]

Init ==
  /\ quantity = [l \in Locations |-> 0] /\ reserved = [l \in Locations |-> 0]
  /\ active \in [Locations -> BOOLEAN]
  /\ resStatus = [r \in Reservations |-> "absent"]
  /\ resQuantity = [r \in Reservations |-> 0] /\ resConsumed = [r \in Reservations |-> 0]
  /\ resLocation = [r \in Reservations |-> None]
  /\ ledger = <<>>
  /\ pc = [c \in Clients |-> "idle"]
  /\ op = [c \in Clients |-> None]
  /\ stale = [c \in Clients |-> FALSE]

-----------------------------------------------------------------------------
(* What a transaction checks in its snapshot. *)

Available(l) == quantity[l] - reserved[l]
Remaining(r) == resQuantity[r] - resConsumed[r]

\* The balance document a movement works on.
Where(m) == IF m.type = "release" THEN resLocation[m.res]
            ELSE IF m.type = "return" THEN ledger[m.src].loc
            ELSE m.loc

\* findTransactionsBySource and findReturns, summed.
SumOf(type, s) ==
  SumFunctionOnSet([i \in DOMAIN ledger |-> ledger[i].q],
                   {i \in DOMAIN ledger : ledger[i].type = type /\ ledger[i].src = s})
ConsumedFrom(s) == SumOf("consumption", s)
Returned(s) == SumOf("return", s)

FromReservation(m) == m.type \in {"issue", "consumption"} /\ m.res # None
FromIssue(m) == m.type = "consumption" /\ m.src # 0
Takes(m) == \/ m.type \in {"reservation", "transfer"}
            \/ m.type = "issue" /\ m.res = None
            \/ FromIssue(m)
            \/ m.type = "adjustment" /\ m.q < 0

\* The documents read before the balance is touched: INVALID_RESERVATION,
\* SOURCE_TRANSACTION_NOT_FOUND, CONSUMPTION_EXCEEDS_SOURCE and
\* RETURN_EXCEEDS_SOURCE otherwise.
ReservationAllows(m) ==
  FromReservation(m) => /\ resStatus[m.res] = "reserved"
                        /\ resLocation[m.res] = m.loc
                        /\ m.q <= Remaining(m.res)

ReleaseAllows(m) == m.type = "release" => resStatus[m.res] = "reserved"
IssueAllows(m) ==
  FromIssue(m) => /\ m.src \in DOMAIN ledger
                  /\ ledger[m.src].type = "issue" /\ ledger[m.src].loc = m.loc
                  /\ ConsumedFrom(m.src) + m.q <= ledger[m.src].q
ReturnAllows(m) ==
  m.type = "return" => /\ m.src \in DOMAIN ledger
                       /\ ledger[m.src].type \in {"issue", "consumption"}
                       /\ Returned(m.src) + m.q <= ledger[m.src].q

\* The filters of decreaseAvailable, reserveBalance, consumeReserved and
\* releaseBalance: INSUFFICIENT_STOCK otherwise.
Magnitude(m) == IF m.q < 0 THEN -m.q ELSE m.q
BalanceAllows(m) ==
  /\ Takes(m) => Available(m.loc) >= Magnitude(m)
  /\ FromReservation(m) => quantity[m.loc] >= m.q /\ reserved[m.loc] >= m.q
  /\ m.type = "release" => reserved[resLocation[m.res]] >= Remaining(m.res)

Allowed(m) == /\ ReservationAllows(m) /\ ReleaseAllows(m)
              /\ IssueAllows(m) /\ ReturnAllows(m)
              /\ BalanceAllows(m)

\* The unique index on idempotencyKey.
KeyUsed(k) == k # None /\ \E i \in DOMAIN ledger : ledger[i].key = k

\* Mutant: consumeSource and return are taken for reads of the balance.
WrittenBalancesDirect(m) ==
  IF m.type \in {"return"} \/ FromIssue(m) THEN {}
  ELSE {Where(m)} \cup (IF m.type = "transfer" THEN {m.dest} ELSE {})

\* The documents a movement writes.
WrittenBalances(m) ==
  {Where(m)} \cup (IF m.type = "transfer" THEN {m.dest} ELSE {})
WriteConflict(m, n) ==
  \/ WrittenBalances(m) \cap WrittenBalances(n) # {}
  \/ m.res # None /\ m.res = n.res

-----------------------------------------------------------------------------
(* The life of a request. *)

\* The service's prelude.  release and return look at no location.
Request(c, m) ==
  /\ pc[c] = "idle"
  /\ m.type \in Kinds
  /\ \A l \in {m.loc, m.dest} \ {None} : active[l]
  /\ ~KeyUsed(m.key)
  /\ pc' = [pc EXCEPT ![c] = "ready"]
  /\ op' = [op EXCEPT ![c] = m]
  /\ UNCHANGED <<balanceVars, active, reservationVars, ledger, stale>>

\* The transaction's reads, all from one snapshot.
Begin(c) ==
  /\ pc[c] = "ready"
  /\ Allowed(op[c])
  /\ pc' = [pc EXCEPT ![c] = "open"]
  /\ stale' = [stale EXCEPT ![c] = FALSE]
  /\ UNCHANGED <<balanceVars, active, reservationVars, ledger, op>>

Answer(c) ==
  /\ pc' = [pc EXCEPT ![c] = "idle"]
  /\ op' = [op EXCEPT ![c] = None]

\* The transaction throws and nothing is written.
Refuse(c) ==
  /\ pc[c] = "ready"
  /\ ~Allowed(op[c])
  /\ Answer(c)
  /\ UNCHANGED <<balanceVars, active, reservationVars, ledger, stale>>

\* E11000 on idempotencyKey: the service answers with the existing entry.
Duplicate(c) ==
  /\ pc[c] = "open" /\ ~stale[c]
  /\ KeyUsed(op[c].key)
  /\ Answer(c)
  /\ UNCHANGED <<balanceVars, active, reservationVars, ledger, stale>>

\* TransientTransactionError: withTransaction runs the callback again.
Retry(c) ==
  /\ pc[c] = "open" /\ stale[c]
  /\ pc' = [pc EXCEPT ![c] = "ready"]
  /\ stale' = [stale EXCEPT ![c] = FALSE]
  /\ UNCHANGED <<balanceVars, active, reservationVars, ledger, op>>

\* The process dies or loses MongoDB: the transaction is rolled back.
Abort(c) ==
  /\ pc[c] # "idle"
  /\ Answer(c)
  /\ stale' = [stale EXCEPT ![c] = FALSE]
  /\ UNCHANGED <<balanceVars, active, reservationVars, ledger>>

\* A release that passed its checks and met no conflict writes the balance and
\* the reservation, then creates its ledger entry with unitOfMeasure "", which
\* the schema requires: the validation throws, the transaction is rolled back
\* and not retried.
releaseAtomic(c) ==
  /\ pc[c] = "open" /\ ~stale[c]
  /\ op[c].type = "release"
  /\ Answer(c)
  /\ UNCHANGED <<balanceVars, active, reservationVars, ledger, stale>>

Deactivate(l) ==
  /\ active[l]
  /\ active' = [active EXCEPT ![l] = FALSE]
  /\ UNCHANGED <<balanceVars, reservationVars, ledger, pc, op, stale>>

-----------------------------------------------------------------------------
(* What each movement writes when it commits. *)

receiveAtomic(m) ==
  /\ m.type = "receipt"
  /\ quantity' = [quantity EXCEPT ![m.loc] = @ + m.q]
  /\ UNCHANGED <<reserved, reservationVars>>

reserveAtomic(m, r) ==
  /\ m.type = "reservation"
  /\ resStatus[r] = "absent"
  /\ reserved' = [reserved EXCEPT ![m.loc] = @ + m.q]
  /\ resStatus' = [resStatus EXCEPT ![r] = "reserved"]
  /\ resQuantity' = [resQuantity EXCEPT ![r] = m.q]
  /\ resLocation' = [resLocation EXCEPT ![r] = m.loc]
  /\ UNCHANGED <<quantity, resConsumed>>

\* Mutant: the reserved part of the balance is left as it was.
issueReservedLeak(m) ==
  /\ FromReservation(m) /\ ~FromIssue(m)
  /\ quantity' = [quantity EXCEPT ![m.loc] = @ - m.q]
  /\ resConsumed' = [resConsumed EXCEPT ![m.res] = @ + m.q]
  /\ resStatus' = [resStatus EXCEPT ![m.res] =
                     IF resConsumed[m.res] + m.q = resQuantity[m.res]
                     THEN "consumed" ELSE "reserved"]
  /\ UNCHANGED <<reserved, resQuantity, resLocation>>

\* issueAtomic with a reservation.
issueReserved(m) ==
  /\ FromReservation(m) /\ ~FromIssue(m)
  /\ quantity' = [quantity EXCEPT ![m.loc] = @ - m.q]
  /\ reserved' = [reserved EXCEPT ![m.loc] = @ - m.q]
  /\ resConsumed' = [resConsumed EXCEPT ![m.res] = @ + m.q]
  /\ resStatus' = [resStatus EXCEPT ![m.res] =
                     IF resConsumed[m.res] + m.q = resQuantity[m.res]
                     THEN "consumed" ELSE "reserved"]
  /\ UNCHANGED <<resQuantity, resLocation>>

\* issueAtomic without one.
issueAvailable(m) ==
  /\ m.type = "issue" /\ m.res = None
  /\ quantity' = [quantity EXCEPT ![m.loc] = @ - m.q]
  /\ UNCHANGED <<reserved, reservationVars>>

\* The consumption of an issue takes its quantity from the balance once more.
consumeSourceAtomic(m) ==
  /\ FromIssue(m)
  /\ quantity' = [quantity EXCEPT ![m.loc] = @ - m.q]
  /\ UNCHANGED <<reserved, reservationVars>>

\* q is signed: an increase, or a decrease of what is available.
adjustAtomic(m) ==
  /\ m.type = "adjustment"
  /\ quantity' = [quantity EXCEPT ![m.loc] = @ + m.q]
  /\ UNCHANGED <<reserved, reservationVars>>

returnAtomic(m) ==
  /\ m.type = "return"
  /\ quantity' = [quantity EXCEPT ![Where(m)] = @ + m.q]
  /\ UNCHANGED <<reserved, reservationVars>>

\* Mutant: the destination is not credited.
transferAtomicDebit(m) ==
  /\ m.type = "transfer"
  /\ quantity' = [quantity EXCEPT ![m.loc] = @ - m.q]
  /\ UNCHANGED <<reserved, reservationVars>>

transferAtomic(m) ==
  /\ m.type = "transfer"
  /\ quantity' = [quantity EXCEPT ![m.loc] = @ - m.q, ![m.dest] = @ + m.q]
  /\ UNCHANGED <<reserved, reservationVars>>

Apply(m) ==
  \/ receiveAtomic(m) \/ \E r \in Reservations : reserveAtomic(m, r)
  \/ issueReserved(m) \/ issueAvailable(m) \/ consumeSourceAtomic(m)
  \/ adjustAtomic(m) \/ returnAtomic(m) \/ transferAtomic(m)

\* The ledger entry: a return is entered at the original entry's location.
Entry(m) == [m EXCEPT !.loc = Where(m)]

\* Mutant: nothing but the transaction's own documents is looked at.
CommitUnserialised(c) ==
  /\ pc[c] = "open" /\ ~KeyUsed(op[c].key)
  /\ Len(ledger) < MaxEntries
  /\ Apply(op[c])
  /\ ledger' = Append(ledger, Entry(op[c]))
  /\ Answer(c)
  /\ UNCHANGED <<active, stale>>

\* Mutant: no unique index on idempotencyKey.
CommitUnindexed(c) ==
  /\ pc[c] = "open" /\ ~stale[c]
  /\ Len(ledger) < MaxEntries
  /\ Apply(op[c])
  /\ ledger' = Append(ledger, Entry(op[c]))
  /\ Answer(c)
  /\ stale' = [d \in Clients |-> \/ stale[d]
                                 \/ d # c /\ pc[d] = "open" /\ WriteConflict(op[d], op[c])]
  /\ UNCHANGED active

\* The transaction commits: the first committer wins, every other open
\* transaction that writes one of its documents will have to be retried.
Commit(c) ==
  /\ pc[c] = "open" /\ ~stale[c]
  /\ ~KeyUsed(op[c].key)
  /\ Len(ledger) < MaxEntries
  /\ Apply(op[c])
  /\ ledger' = Append(ledger, Entry(op[c]))
  /\ Answer(c)
  /\ stale' = [d \in Clients |-> \/ stale[d]
                                 \/ d # c /\ pc[d] = "open" /\ WriteConflict(op[d], op[c])]
  /\ UNCHANGED active

Proceed ==
  \/ \E c \in Clients : \/ Begin(c) \/ Refuse(c) \/ Duplicate(c) \/ Retry(c) \/ Abort(c)
                        \/ Commit(c) \/ releaseAtomic(c)
  \/ \E l \in Locations : Deactivate(l)

Next == (\E c \in Clients, m \in Requests : Request(c, m)) \/ Proceed

Spec == Init /\ [][Next]_vars

-----------------------------------------------------------------------------
\* Stock is never oversold: no interleaving of movements, each of which checked
\* its own snapshot, reserves more than there is or drives a balance negative
\* ("never reserves more stock than is available under concurrent requests").
ReservedWithinStock ==
  \A l \in Locations : 0 <= reserved[l] /\ reserved[l] <= quantity[l]

\* reservedQuantity is exactly what the open reservations of the location still
\* hold: partial consumption, the release that is always rolled back and
\* concurrent retries leak nothing.
ReservedIsOutstanding ==
  \A l \in Locations :
    reserved[l] = SumFunctionOnSet([r \in Reservations |-> Remaining(r)],
                    {r \in Reservations : resStatus[r] = "reserved" /\ resLocation[r] = l})

\* The change of location l's quantity that a ledger entry stands for.
Effect(e, l) ==
  IF e.type \in {"issue", "consumption"} /\ e.loc = l THEN -e.q
  ELSE IF e.type \in {"receipt", "return", "adjustment"} /\ e.loc = l THEN e.q
  ELSE IF e.type = "transfer" /\ e.loc = l THEN -e.q
  ELSE IF e.type = "transfer" /\ e.dest = l THEN e.q
  ELSE 0

\* The audit trail explains every balance: no movement changes a quantity
\* without its entry, or is entered twice.
QuantityIsLedger ==
  \A l \in Locations :
    quantity[l] = SumFunction([i \in DOMAIN ledger |-> Effect(ledger[i], l)])

\* Concurrent returns and consumptions never exceed the entry they refer to,
\* although each only reads the other entries: they meet on the balance
\* document all of them write.
WithinSource ==
  \A i \in DOMAIN ledger :
    ledger[i].type \in {"issue", "consumption"} =>
      Returned(i) <= ledger[i].q /\ ConsumedFrom(i) <= ledger[i].q

\* A request repeated under its idempotency key moves stock once.
KeyAppliedOnce ==
  \A i, j \in DOMAIN ledger :
    ledger[i].key # None /\ ledger[i].key = ledger[j].key => i = j

\* reserved -> consumed, and nothing after that: an issue or consumption that
\* checked the reservation before another one finished it changes nothing.
ReservationFinal ==
  [][\A r \in Reservations :
       resStatus[r] = "consumed" =>
         resStatus'[r] = resStatus[r] /\ resConsumed'[r] = resConsumed[r]]_vars
=============================================================================
