------------------------- MODULE InventoryStockProofs -------------------------
(***************************************************************************)
(* Proofs about InventoryStock for any number of locations, reservations,  *)
(* requests in flight and keys, and any quantities.                        *)
(*                                                                         *)
(* The argument: a transaction that is open and not stale still stands on  *)
(* what it read (SnapshotHolds), because whoever changes a document it     *)
(* writes makes it stale.  A commit then finds its own balance conditions  *)
(* true in the state it changes.  What it only reads (SourceInv) stands    *)
(* for the same reason: whoever enters a return or a consumption of one    *)
(* entry writes the balance of that entry's location.  The last sections   *)
(* add up the ledger and the reservations.                                 *)
(***************************************************************************)
EXTENDS InventoryStock, FiniteSetTheorems, TLAPS

\* What Begin read of the documents that the movement also writes.
Stands(m) ==
  /\ BalanceAllows(m) /\ ReservationAllows(m) /\ ReleaseAllows(m)
  /\ m.type = "return" => m.src \in DOMAIN ledger
  /\ Where(m) \in Locations

SnapshotHolds ==
  \A c \in Clients : pc[c] = "open" /\ ~stale[c] => Stands(op[c])

InFlight == \A c \in Clients : pc[c] # "idle" => op[c] \in Requests

ReservationsSound ==
  \A r \in Reservations :
    resStatus[r] # "absent" => /\ resLocation[r] \in Locations
                               /\ resConsumed[r] <= resQuantity[r]

LedgerLocated == \A i \in DOMAIN ledger : ledger[i].loc \in Locations

FreshReservations ==
  \A r \in Reservations : resStatus[r] = "absent" => resConsumed[r] = 0

StockInv ==
  /\ TypeOK /\ InFlight /\ ReservationsSound /\ FreshReservations /\ LedgerLocated
  /\ SnapshotHolds /\ ReservedWithinStock

-----------------------------------------------------------------------------
\* What a request carries, by the kind of movement.
LEMMA RequestShape ==
  ASSUME NEW m \in Requests
  PROVE  /\ m \in Movements
         /\ m.type \notin {"release", "return"} => m.loc \in Locations
         /\ m.type = "transfer" => m.dest \in Locations /\ m.dest # m.loc
         /\ m.res # None => m.res \in Reservations
         /\ m.type = "release" => m.res \in Reservations
         /\ m.type \notin {"adjustment", "release"} => m.q \in Nat /\ m.q > 0
<1> DEFINE T == [type : InventoryTransactionType, loc : Locations \cup {None},
          dest : Locations \cup {None}, q : Quantities \cup {0} \cup {-x : x \in Quantities},
          res : Reservations \cup {None}, src : 0..MaxEntries, key : Keys \cup {None}]
<1>1. m \in T
  BY DEF Requests
<1>2. m.q \in Quantities \cup {0} \cup {-x : x \in Quantities}
  BY <1>1
<1>3. m.q \in Int
  <2>1. 0 \in Int /\ \A x \in Quantities : x \in Int /\ -x \in Int
    BY StockAssumption
  <2> QED
    BY <1>2, <2>1, Zenon
<1>4. m \in Movements
  BY <1>1, <1>3, StockAssumption DEF Movements
<1>5. m.type \notin {"release", "return"} => m.loc \in Locations
  BY <1>1 DEF Requests
<1>6. m.type = "transfer" => m.dest \in Locations /\ m.dest # m.loc
  BY <1>1 DEF Requests
<1>7. m.type \notin {"adjustment", "release"} => m.q \in Nat /\ m.q > 0
  BY <1>3 DEF Requests
<1>8. m.res \in Reservations \cup {None} /\ (m.type = "release" => m.res # None)
  BY <1>1 DEF Requests
<1> QED
  BY <1>4, <1>5, <1>6, <1>7, <1>8

\* The initial states satisfy the inductive invariant.
LEMMA StockInit == Init => StockInv
<1> SUFFICES ASSUME Init PROVE StockInv
  OBVIOUS
<1> QED
  BY StockAssumption DEF Init, StockInv, TypeOK, InFlight, ReservationsSound, LedgerLocated,
     FreshReservations, SnapshotHolds, ReservedWithinStock, Movements, InventoryTransactionType

\* The reservation state after a movement is applied.
LEMMA ApplyReservations ==
  ASSUME StockInv, NEW m \in Requests, Stands(m), Apply(m)
  PROVE  /\ resStatus' \in [Reservations -> {"absent", "reserved", "consumed"}]
         /\ resQuantity' \in [Reservations -> Nat] /\ resConsumed' \in [Reservations -> Nat]
         /\ resLocation' \in [Reservations -> Locations \cup {None}]
         /\ ReservationsSound' /\ FreshReservations'
         /\ \A r \in Reservations :
              resStatus[r] # "absent" => resLocation'[r] = resLocation[r]
         /\ \A r \in Reservations :
              resStatus[r] # "absent" /\ r # m.res =>
                /\ resStatus'[r] = resStatus[r] /\ resQuantity'[r] = resQuantity[r]
                /\ resConsumed'[r] = resConsumed[r]
<1>0. /\ m.q \in Int
      /\ m.type \notin {"release", "return"} => m.loc \in Locations
      /\ m.type = "transfer" => m.dest \in Locations /\ m.dest # m.loc
      /\ m.res # None => m.res \in Reservations
      /\ m.type = "release" => m.res \in Reservations
      /\ m.type \notin {"adjustment", "release"} => m.q \in Nat /\ m.q > 0
  BY RequestShape DEF Movements
<1> USE <1>0
    DEF StockInv, TypeOK, ReservationsSound, FreshReservations, reservationVars
<1>1. CASE \E r \in Reservations : reserveAtomic(m, r)
  BY <1>1 DEF reserveAtomic
<1>2. CASE issueReserved(m)
  <2>1. /\ m.res \in Reservations /\ resStatus[m.res] = "reserved" /\ m.q \in Nat
        /\ resConsumed[m.res] + m.q <= resQuantity[m.res]
    BY <1>2 DEF issueReserved, FromReservation, Stands, ReservationAllows, Remaining
  <2>2. /\ resConsumed' = [resConsumed EXCEPT ![m.res] = @ + m.q]
        /\ resStatus' = [resStatus EXCEPT ![m.res] = resStatus'[m.res]]
        /\ resStatus'[m.res] \in {"consumed", "reserved"}
        /\ resQuantity' = resQuantity /\ resLocation' = resLocation
    BY <1>2, <2>1 DEF issueReserved
  <2>3. /\ resConsumed' \in [Reservations -> Nat]
        /\ resStatus' \in [Reservations -> {"absent", "reserved", "consumed"}]
    <3>1. resConsumed' \in [Reservations -> Nat]
      BY <2>1, <2>2
    <3>2. resStatus' \in [Reservations -> {"absent", "reserved", "consumed"}]
      BY <1>2, <2>1 DEF issueReserved
    <3> QED
      BY <3>1, <3>2
  <2>4. resConsumed'[m.res] <= resQuantity[m.res] /\ resStatus'[m.res] # "absent"
    BY <2>1, <2>2
  <2>5. \A r \in Reservations \ {m.res} :
          resConsumed'[r] = resConsumed[r] /\ resStatus'[r] = resStatus[r]
    BY <2>1, <2>2
  <2> QED
    BY <2>1, <2>2, <2>3, <2>4, <2>5
<1>3. CASE UNCHANGED reservationVars
  BY <1>3
<1> QED
  BY <1>1, <1>2, <1>3 DEF Apply, receiveAtomic, issueAvailable, consumeSourceAtomic,
     adjustAtomic, returnAtomic, transferAtomic

\* The balances after a movement is applied: typed, sound, and changed only
\* where the movement writes.
LEMMA ApplyBalances ==
  ASSUME StockInv, NEW m \in Requests, Stands(m), Apply(m)
  PROVE  /\ quantity' \in [Locations -> Int] /\ reserved' \in [Locations -> Int]
         /\ ReservedWithinStock'
         /\ \A l \in Locations \ WrittenBalances(m) :
              quantity'[l] = quantity[l] /\ reserved'[l] = reserved[l]
<1>0. /\ m.q \in Int
      /\ m.type \notin {"release", "return"} => m.loc \in Locations
      /\ m.type = "transfer" => m.dest \in Locations /\ m.dest # m.loc
      /\ m.res # None => m.res \in Reservations
      /\ m.type = "release" => m.res \in Reservations
      /\ m.type \notin {"adjustment", "release"} => m.q \in Nat /\ m.q > 0
  BY RequestShape DEF Movements
<1> USE <1>0
    DEF StockInv, TypeOK, ReservedWithinStock, WrittenBalances, Where
<1>1. CASE receiveAtomic(m)
  BY <1>1 DEF receiveAtomic
<1>2. CASE \E r \in Reservations : reserveAtomic(m, r)
  BY <1>2 DEF reserveAtomic, Stands, BalanceAllows, Takes, Magnitude, Available
<1>3. CASE issueReserved(m)
  BY <1>3 DEF issueReserved, FromReservation, Stands, BalanceAllows
<1>4. CASE issueAvailable(m)
  BY <1>4 DEF issueAvailable, Stands, BalanceAllows, Takes, Magnitude, Available
<1>5. CASE consumeSourceAtomic(m)
  BY <1>5 DEF consumeSourceAtomic, FromIssue, Stands, BalanceAllows, Takes, Magnitude, Available
<1>7. CASE adjustAtomic(m)
  BY <1>7 DEF adjustAtomic, Stands, BalanceAllows, Takes, Magnitude, Available
<1>8. CASE returnAtomic(m)
  BY <1>8 DEF returnAtomic, Stands, LedgerLocated
<1>9. CASE transferAtomic(m)
  <2>1. /\ m.loc \in Locations /\ m.dest \in Locations /\ m.dest # m.loc /\ m.q \in Nat
        /\ quantity[m.loc] - reserved[m.loc] >= m.q
    BY <1>9 DEF transferAtomic, Stands, BalanceAllows, Takes, Magnitude, Available
  <2>2. /\ quantity' = [quantity EXCEPT ![m.loc] = @ - m.q, ![m.dest] = @ + m.q]
        /\ reserved' = reserved
    BY <1>9 DEF transferAtomic
  <2>3. /\ quantity' \in [Locations -> Int]
        /\ quantity'[m.loc] = quantity[m.loc] - m.q
        /\ quantity'[m.dest] = quantity[m.dest] + m.q
        /\ \A l \in Locations \ {m.loc, m.dest} : quantity'[l] = quantity[l]
    BY <2>1, <2>2
  <2>4. ReservedWithinStock'
    <3> SUFFICES ASSUME NEW l \in Locations
                 PROVE  0 <= reserved'[l] /\ reserved'[l] <= quantity'[l]
      OBVIOUS
    <3>1. /\ 0 <= reserved[l] /\ reserved[l] <= quantity[l] /\ reserved'[l] = reserved[l]
          /\ reserved[l] \in Int /\ quantity[l] \in Int
      BY <2>2
    <3>2. CASE l = m.loc
      BY <2>1, <2>3, <3>1, <3>2
    <3>3. CASE l = m.dest
      BY <2>1, <2>3, <3>1, <3>3
    <3> QED
      BY <2>3, <3>1, <3>2, <3>3
  <2> QED
    BY <1>9, <2>2, <2>3, <2>4 DEF transferAtomic
<1> QED
  BY <1>1, <1>2, <1>3, <1>4, <1>5, <1>7, <1>8, <1>9 DEF Apply

\* The ledger after a movement is entered.
LEMMA EntryLedger ==
  ASSUME StockInv, NEW m \in Requests, Stands(m), ledger' = Append(ledger, Entry(m))
  PROVE  /\ ledger' \in Seq(Movements)
         /\ LedgerLocated'
         /\ \A i \in DOMAIN ledger : i \in DOMAIN ledger' /\ ledger'[i] = ledger[i]
<1>1. Entry(m) \in Movements /\ Entry(m).loc \in Locations
  <2>1. m \in Movements /\ Where(m) \in Locations
    BY RequestShape DEF Stands
  <2> QED
    BY <2>1 DEF Entry, Movements
<1>2. ledger \in Seq(Movements)
  BY DEF StockInv, TypeOK
<1>3. /\ ledger' \in Seq(Movements) /\ DOMAIN ledger = 1..Len(ledger)
      /\ DOMAIN ledger' = 1..(Len(ledger) + 1) /\ Len(ledger) \in Nat
      /\ \A i \in 1..Len(ledger) : ledger'[i] = ledger[i]
      /\ ledger'[Len(ledger) + 1] = Entry(m)
  BY <1>1, <1>2
<1>4. \A i \in DOMAIN ledger : i \in DOMAIN ledger' /\ ledger'[i] = ledger[i]
  BY <1>3
<1>5. LedgerLocated'
  BY <1>1, <1>3 DEF StockInv, LedgerLocated
<1> QED
  BY <1>3, <1>4, <1>5

\* A commit leaves every other open transaction that does not become stale
\* standing on what it read.
LEMMA CommitKeepsStanding ==
  ASSUME StockInv, NEW c \in Clients, NEW d \in Clients, c # d, Commit(c),
         pc[d] = "open", ~stale'[d]
  PROVE  Stands(op[d])'
<1> DEFINE m == op[c]  n == op[d]
<1>1. /\ m \in Requests /\ n \in Requests /\ op'[d] = n
      /\ Stands(m) /\ Stands(n) /\ ~WriteConflict(n, m)
      /\ Apply(m) /\ ledger' = Append(ledger, Entry(m))
  BY DEF Commit, Answer, StockInv, TypeOK, InFlight, SnapshotHolds
<1>2. \A i \in DOMAIN ledger : i \in DOMAIN ledger' /\ ledger'[i] = ledger[i]
  BY <1>1, EntryLedger
<1>3. n.res # None => n.res \in Reservations /\ n.res # m.res
  BY <1>1, RequestShape DEF WriteConflict
<1>4. n.type = "release" => n.res # None
  BY <1>1 DEF Requests
<1>5. \A r \in Reservations : resStatus[r] # "absent" /\ r # m.res =>
        /\ resStatus'[r] = resStatus[r] /\ resLocation'[r] = resLocation[r]
        /\ resQuantity'[r] = resQuantity[r] /\ resConsumed'[r] = resConsumed[r]
  BY <1>1, ApplyReservations
<1>6. (FromReservation(n) \/ n.type = "release") =>
        /\ n.res \in Reservations
        /\ resStatus'[n.res] = resStatus[n.res] /\ resLocation'[n.res] = resLocation[n.res]
        /\ resQuantity'[n.res] = resQuantity[n.res] /\ resConsumed'[n.res] = resConsumed[n.res]
  BY <1>1, <1>3, <1>4, <1>5 DEF Stands, ReservationAllows, ReleaseAllows, FromReservation
<1>7. Where(n)' = Where(n) /\ (n.type = "return" => n.src \in DOMAIN ledger')
  BY <1>1, <1>2, <1>6 DEF Where, Stands
<1>8. quantity'[Where(n)] = quantity[Where(n)] /\ reserved'[Where(n)] = reserved[Where(n)]
  BY <1>1, ApplyBalances DEF WriteConflict, WrittenBalances, Stands
<1>9. BalanceAllows(n)'
  BY <1>1, <1>6, <1>7, <1>8
     DEF Stands, BalanceAllows, Takes, FromReservation, FromIssue, Available, Remaining, Where
<1>10. ReservationAllows(n)' /\ ReleaseAllows(n)'
  BY <1>1, <1>6 DEF Stands, ReservationAllows, ReleaseAllows, FromReservation, Remaining
<1> QED
  BY <1>1, <1>7, <1>9, <1>10 DEF Stands

\* What Begin finds allowed stands.
LEMMA AllowedStands ==
  ASSUME StockInv, NEW m \in Requests, Allowed(m)
  PROVE  Stands(m)
BY RequestShape DEF Allowed, Stands, StockInv, Where, ReturnAllows, LedgerLocated, ReleaseAllows,
   ReservationsSound, Requests

\* Steps that write no document.
LEMMA QuietStep ==
  ASSUME StockInv, UNCHANGED <<balanceVars, reservationVars, ledger>>,
         active' \in [Locations -> BOOLEAN],
         pc' \in [Clients -> {"idle", "ready", "open"}],
         op' \in [Clients -> Requests \cup {None}],
         stale' \in [Clients -> BOOLEAN],
         \A c \in Clients : pc'[c] # "idle" => op'[c] \in Requests,
         \A c \in Clients : pc'[c] = "open" /\ ~stale'[c] => Stands(op'[c])
  PROVE  StockInv'
<1>1. \A m : Stands(m)' <=> Stands(m)
  BY DEF balanceVars, reservationVars, Stands, Where, BalanceAllows, ReservationAllows,
     ReleaseAllows, Available, Remaining
<1> QED
  BY <1>1 DEF StockInv, TypeOK, InFlight, ReservationsSound, FreshReservations, LedgerLocated,
     SnapshotHolds, ReservedWithinStock, balanceVars, reservationVars

\* Every step keeps the inductive invariant.
LEMMA StockStep == StockInv /\ [Next]_vars => StockInv'
<1> SUFFICES ASSUME StockInv, [Next]_vars PROVE StockInv'
  OBVIOUS
<1> USE DEF StockInv, TypeOK, InFlight, SnapshotHolds
<1>1. ASSUME NEW c \in Clients, NEW m \in Requests, Request(c, m) PROVE StockInv'
  BY <1>1, QuietStep DEF Request
<1>2. ASSUME NEW c \in Clients, Begin(c) PROVE StockInv'
  BY <1>2, QuietStep, AllowedStands DEF Begin
<1>3. ASSUME NEW c \in Clients, Refuse(c) \/ Duplicate(c) \/ releaseAtomic(c) PROVE StockInv'
  BY <1>3, QuietStep DEF Refuse, Duplicate, releaseAtomic, Answer
<1>4. ASSUME NEW c \in Clients, Retry(c) \/ Abort(c) PROVE StockInv'
  BY <1>4, QuietStep DEF Retry, Abort, Answer
<1>5. ASSUME NEW l \in Locations, Deactivate(l) PROVE StockInv'
  BY <1>5, QuietStep DEF Deactivate
<1>6. ASSUME NEW c \in Clients, Commit(c) PROVE StockInv'
  <2>1. op[c] \in Requests /\ Stands(op[c]) /\ Apply(op[c])
        /\ ledger' = Append(ledger, Entry(op[c]))
    BY <1>6 DEF Commit
  <2>2. /\ ReservationsSound' /\ FreshReservations' /\ LedgerLocated' /\ ReservedWithinStock'
    BY <2>1, ApplyReservations, ApplyBalances, EntryLedger
  <2>3. TypeOK'
    BY <1>6, <2>1, ApplyReservations, ApplyBalances, EntryLedger DEF Commit, Answer
  <2>4. InFlight'
    BY <1>6 DEF Commit, Answer
  <2>5. SnapshotHolds'
    BY <1>6, CommitKeepsStanding DEF Commit, Answer
  <2> QED
    BY <2>2, <2>3, <2>4, <2>5
<1>7. CASE UNCHANGED vars
  BY <1>7, QuietStep DEF vars
<1> QED
  BY <1>1, <1>2, <1>3, <1>4, <1>5, <1>6, <1>7 DEF Next, Proceed

\* The inductive invariant holds in every reachable state.
THEOREM StockInvariant == Spec => []StockInv
<1>1. Init => StockInv
  BY StockInit
<1>2. StockInv /\ [Next]_vars => StockInv'
  BY StockStep
<1> QED
  BY <1>1, <1>2, PTL DEF Spec

\* The stock state keeps its types.
THEOREM StockTypeOK == Spec => []TypeOK
<1>1. StockInv => TypeOK
  BY DEF StockInv
<1> QED
  BY <1>1, StockInvariant, PTL

\* However many movements run concurrently, no balance goes negative and no
\* location has more reserved than it holds.
THEOREM StockNeverOversold == Spec => []ReservedWithinStock
<1>1. StockInv => ReservedWithinStock
  BY DEF StockInv
<1> QED
  BY <1>1, StockInvariant, PTL

\* A reservation that was consumed is never touched again, although an issue or
\* a consumption may have checked it before the one that finished it committed.
THEOREM StockReservationFinal == Spec => ReservationFinal
<1>1. ASSUME StockInv, [Next]_vars
      PROVE  [\A r \in Reservations :
                resStatus[r] = "consumed" =>
                  resStatus'[r] = resStatus[r] /\ resConsumed'[r] = resConsumed[r]]_vars
  <2> SUFFICES ASSUME NEW r \in Reservations, resStatus[r] = "consumed"
               PROVE  resStatus'[r] = resStatus[r] /\ resConsumed'[r] = resConsumed[r]
    OBVIOUS
  <2>1. CASE \E c \in Clients : Commit(c)
    <3>1. PICK c \in Clients : Commit(c)
      BY <2>1
    <3>2. op[c] \in Requests /\ Stands(op[c]) /\ Apply(op[c])
      BY <1>1, <3>1 DEF Commit, StockInv, InFlight, SnapshotHolds
    <3>3. CASE r # op[c].res
      BY <1>1, <3>2, <3>3, ApplyReservations
    <3>4. CASE r = op[c].res
      <4>1. op[c].res # None
        BY <3>4, StockAssumption
      <4>2. op[c].type \in {"issue", "consumption", "release"}
        BY <3>2, <4>1 DEF Requests
      <4> QED
        BY <3>2, <3>4, <4>1, <4>2 DEF Stands, ReservationAllows, ReleaseAllows, FromReservation
    <3> QED
      BY <3>3, <3>4
  <2>2. CASE UNCHANGED reservationVars
    BY <2>2 DEF reservationVars
  <2> QED
    BY <1>1, <2>1, <2>2 DEF Next, Proceed, vars, reservationVars, Request, Begin, Refuse, Duplicate,
       Retry, Abort, releaseAtomic, Deactivate
<1> QED
  BY <1>1, StockInvariant, PTL DEF Spec, ReservationFinal

\* The unique index makes a repeated request move stock once, whoever repeats
\* it and whenever.
THEOREM StockKeyAppliedOnce == Spec => []KeyAppliedOnce
<1>1. Init => KeyAppliedOnce
  BY DEF Init, KeyAppliedOnce
<1>2. StockInv /\ KeyAppliedOnce /\ [Next]_vars => KeyAppliedOnce'
  <2> SUFFICES ASSUME StockInv, KeyAppliedOnce, [Next]_vars PROVE KeyAppliedOnce'
    OBVIOUS
  <2>1. CASE \E c \in Clients : Commit(c)
    <3>1. PICK c \in Clients : Commit(c)
      BY <2>1
    <3>2. op[c] \in Requests /\ ledger' = Append(ledger, Entry(op[c])) /\ ~KeyUsed(op[c].key)
      BY <3>1 DEF Commit, StockInv, InFlight
    <3>3. Entry(op[c]).key = op[c].key
      BY <3>2, RequestShape DEF Entry, Movements
    <3>4. ledger \in Seq(Movements)
      BY DEF StockInv, TypeOK
    <3>5. /\ DOMAIN ledger = 1..Len(ledger) /\ DOMAIN ledger' = 1..(Len(ledger) + 1)
          /\ Len(ledger) \in Nat
          /\ \A i \in 1..Len(ledger) : ledger'[i] = ledger[i]
          /\ ledger'[Len(ledger) + 1].key = op[c].key
      BY <3>2, <3>3, <3>4
    <3> QED
      BY <3>2, <3>5 DEF KeyAppliedOnce, KeyUsed
  <2>2. CASE UNCHANGED ledger
    BY <2>2 DEF KeyAppliedOnce
  <2> QED
    BY <2>1, <2>2 DEF Next, Proceed, vars, Request, Begin, Refuse, Duplicate, Retry, Abort,
       releaseAtomic, Deactivate
<1> QED
  BY <1>1, <1>2, StockInvariant, PTL DEF Spec

-----------------------------------------------------------------------------
(***************************************************************************)
(* Sums over finite sets.  SumFunctionOnSet adds up the values one by one, *)
(* taking the element that CHOOSE finds first.  That this computes a sum   *)
(* (it exists, and any element can be taken out of it) is proved by        *)
(* looking at a smallest set for which it would fail.                      *)
(***************************************************************************)
First(s) == CHOOSE x \in s : TRUE
Adds(f, S, g) == g = [s \in SUBSET S |-> IF s = {} THEN 0 ELSE f[First(s)] + g[s \ {First(s)}]]
Iter(f, S) == CHOOSE g : Adds(f, S, g)

\* The definitions of the library, unfolded.
LEMMA SumIter == ASSUME NEW f, NEW S PROVE SumFunctionOnSet(f, S) = Iter(f, S)[S]
BY DEF SumFunctionOnSet, FoldFunctionOnSet, MapThenFoldSet, Iter, Adds, First

\* Induction over the subsets of a finite set.
LEMMA SmallestSubset ==
  ASSUME NEW S, IsFiniteSet(S), NEW T \in SUBSET (SUBSET S), T # {}
  PROVE  \E s \in T : \A t \in T : ~(t \subseteq s /\ t # s)
<1>1. IsWellFoundedOn(StrictSubsetOrdering(S), SUBSET S)
  BY FS_StrictSubsetOrderingWellFounded, FS_FiniteSubsetsOfFinite
<1>2. PICK s \in T : \A t \in T : ~(<<t, s>> \in StrictSubsetOrdering(S))
  BY <1>1, WFMin
<1> QED
  BY <1>2 DEF StrictSubsetOrdering

\* What is added up to for a set depends on nothing but the values there.
LEMMA AddsAgree ==
  ASSUME NEW S, IsFiniteSet(S), NEW T, NEW f, NEW h, NEW g, NEW k, Adds(f, S, g), Adds(h, T, k),
         S \subseteq T, \A x \in S : f[x] \in Int /\ h[x] = f[x]
  PROVE  g[S] = k[S] /\ g[S] \in Int
<1> DEFINE Bad == {s \in SUBSET S : ~(g[s] = k[s] /\ g[s] \in Int)}
<1>1. \A s \in SUBSET S : /\ g[s] = IF s = {} THEN 0 ELSE f[First(s)] + g[s \ {First(s)}]
                          /\ k[s] = IF s = {} THEN 0 ELSE h[First(s)] + k[s \ {First(s)}]
  BY DEF Adds
<1>2. \A s : s # {} => First(s) \in s
  BY DEF First
<1>3. CASE Bad # {}
  <2>0. \E s \in Bad : \A t \in Bad : ~(t \subseteq s /\ t # s)
    <3>1. Bad \in SUBSET (SUBSET S)
      OBVIOUS
    <3> HIDE DEF Bad
    <3> QED
      BY <1>3, <3>1, SmallestSubset
  <2>1. PICK s \in Bad : \A t \in Bad : ~(t \subseteq s /\ t # s)
    BY <2>0
  <2>2. s # {}
    <3>1. ~(g[s] = k[s] /\ g[s] \in Int) /\ s \in SUBSET S
      BY <2>1
    <3>2. s = {} => g[s] = 0 /\ k[s] = 0
      BY <1>1, <3>1
    <3> QED
      BY <3>1, <3>2
  <2>3. First(s) \in s /\ s \ {First(s)} \in SUBSET S /\ s \ {First(s)} \subseteq s /\ s \ {First(s)} # s
    BY <1>2, <2>1, <2>2
  <2>4. g[s \ {First(s)}] = k[s \ {First(s)}] /\ g[s \ {First(s)}] \in Int
    BY <2>1, <2>3
  <2>5. f[First(s)] \in Int /\ h[First(s)] = f[First(s)]
    BY <2>1, <2>3
  <2>6. g[s] = k[s] /\ g[s] \in Int
    BY <1>1, <2>1, <2>2, <2>4, <2>5
  <2> QED
    BY <2>1, <2>6
<1> QED
  BY <1>3

\* Over a finite set there is a function that adds up.
LEMMA AddsExists ==
  ASSUME NEW S, IsFiniteSet(S), NEW f, \A x \in S : f[x] \in Int
  PROVE  Adds(f, S, Iter(f, S))
<1> DEFINE Bad == {s \in SUBSET S : ~Adds(f, s, Iter(f, s))}
<1>1. CASE Bad # {}
  <2>0. \E s \in Bad : \A t \in Bad : ~(t \subseteq s /\ t # s)
    <3>1. Bad \in SUBSET (SUBSET S)
      OBVIOUS
    <3> HIDE DEF Bad
    <3> QED
      BY <1>1, <3>1, SmallestSubset
  <2>1. PICK s \in Bad : \A t \in Bad : ~(t \subseteq s /\ t # s)
    BY <2>0
  <2>2. \A t \in SUBSET s : t # s => Adds(f, t, Iter(f, t))
    BY <2>1
  <2> DEFINE V(t) == Iter(f, t)[t]
             G == [t \in SUBSET s |-> IF t = {} THEN 0 ELSE f[First(t)] + V(t \ {First(t)})]
  <2>3. ASSUME NEW u \in SUBSET s, u # s
        PROVE  V(u) = G[u]
    <3>1. Iter(f, u)[u] = IF u = {} THEN 0 ELSE f[First(u)] + Iter(f, u)[u \ {First(u)}]
      BY <2>2, <2>3 DEF Adds
    <3>2. CASE u = {}
      BY <3>1, <3>2
    <3>3. CASE u # {}
      <4>1. First(u) \in u
        BY <3>3 DEF First
      <4> DEFINE v == u \ {First(u)}
      <4>2. v \in SUBSET s /\ v # s /\ v \subseteq u /\ IsFiniteSet(v)
        BY <2>1, <4>1, FS_Subset
      <4>3. Iter(f, v)[v] = Iter(f, u)[v]
        <5>1. Adds(f, v, Iter(f, v)) /\ Adds(f, u, Iter(f, u))
          BY <2>2, <2>3, <4>2
        <5>2. \A x \in v : f[x] \in Int /\ f[x] = f[x]
          BY <2>1, <4>2
        <5> QED
          BY <4>2, <5>1, <5>2, AddsAgree
      <4> QED
        BY <3>1, <3>3, <4>3
    <3> QED
      BY <3>2, <3>3
  <2>4. \A t \in SUBSET s : t # {} => t \ {First(t)} \in SUBSET s /\ t \ {First(t)} # s
    BY DEF First
  <2>5. \A t \in SUBSET s : t # {} => V(t \ {First(t)}) = G[t \ {First(t)}]
    BY <2>3, <2>4
  <2>6. G = [t \in SUBSET s |-> IF t = {} THEN 0 ELSE f[First(t)] + G[t \ {First(t)}]]
    <3> DEFINE G2 == [t \in SUBSET s |-> IF t = {} THEN 0 ELSE f[First(t)] + G[t \ {First(t)}]]
    <3>1. \A t \in SUBSET s : G[t] = G2[t]
      BY <2>5
    <3> QED
      BY <3>1
  <2>7. Adds(f, s, G)
    BY <2>6 DEF Adds
  <2>8. Adds(f, s, Iter(f, s))
    BY <2>7 DEF Iter
  <2> QED
    BY <2>1, <2>8
<1>2. CASE Bad = {}
  BY <1>2
<1> QED
  BY <1>1, <1>2

\* Sums of equal terms are equal integers.
LEMMA SumSame ==
  ASSUME NEW S, IsFiniteSet(S), NEW f, NEW h, \A x \in S : f[x] \in Int /\ h[x] = f[x]
  PROVE  SumFunctionOnSet(f, S) \in Int /\ SumFunctionOnSet(h, S) = SumFunctionOnSet(f, S)
<1>1. Adds(f, S, Iter(f, S)) /\ Adds(h, S, Iter(h, S))
  BY AddsExists
<1> QED
  BY <1>1, AddsAgree, SumIter

\* Nothing adds up to zero.
LEMMA SumEmpty ==
  ASSUME NEW f
  PROVE  SumFunctionOnSet(f, {}) = 0
<1>1. Adds(f, {}, Iter(f, {}))
  BY AddsExists, FS_EmptySet
<1>2. Iter(f, {})[{}] = 0
  BY <1>1 DEF Adds
<1> QED
  BY <1>2, SumIter

\* The element CHOOSE finds can be taken out of a sum.
LEMMA SumFirst ==
  ASSUME NEW S, IsFiniteSet(S), NEW f, \A x \in S : f[x] \in Int, S # {}
  PROVE  /\ First(S) \in S
         /\ SumFunctionOnSet(f, S) = f[First(S)] + SumFunctionOnSet(f, S \ {First(S)})
<1> DEFINE T == S \ {First(S)}
<1>1. First(S) \in S
  BY DEF First
<1>2. IsFiniteSet(T) /\ T \subseteq S
  BY FS_Subset
<1>3. Adds(f, S, Iter(f, S)) /\ Adds(f, T, Iter(f, T))
  BY <1>2, AddsExists
<1>4. Iter(f, S)[S] = f[First(S)] + Iter(f, S)[T]
  BY <1>3 DEF Adds
<1>5. \A x \in T : f[x] \in Int /\ f[x] = f[x]
  BY <1>2
<1>6. Iter(f, T)[T] = Iter(f, S)[T]
  BY <1>2, <1>3, <1>5, AddsAgree
<1> QED
  BY <1>1, <1>4, <1>6, SumIter

\* Any element can be taken out first.
LEMMA SumRemove ==
  ASSUME NEW S, IsFiniteSet(S), NEW f, \A x \in S : f[x] \in Int, NEW y \in S
  PROVE  SumFunctionOnSet(f, S) = f[y] + SumFunctionOnSet(f, S \ {y})
<1> DEFINE V(t) == SumFunctionOnSet(f, t)
           Bad == {s \in SUBSET S : \E x \in s : V(s) # f[x] + V(s \ {x})}
<1>0. \A s \in SUBSET S : IsFiniteSet(s) /\ V(s) \in Int
  <2> SUFFICES ASSUME NEW s \in SUBSET S PROVE IsFiniteSet(s) /\ V(s) \in Int
    OBVIOUS
  <2>1. IsFiniteSet(s) /\ \A x \in s : f[x] \in Int /\ f[x] = f[x]
    BY FS_Subset
  <2> QED
    BY <2>1, SumSame
<1>1. CASE Bad # {}
  <2>0. \E s \in Bad : \A t \in Bad : ~(t \subseteq s /\ t # s)
    <3>1. Bad \in SUBSET (SUBSET S)
      OBVIOUS
    <3> HIDE DEF Bad
    <3> QED
      BY <1>1, <3>1, SmallestSubset
  <2>1. PICK s \in Bad : \A t \in Bad : ~(t \subseteq s /\ t # s)
    BY <2>0
  <2>2. s \in SUBSET S /\ \E x \in s : V(s) # f[x] + V(s \ {x})
    BY <2>1
  <2>3. PICK x \in s : V(s) # f[x] + V(s \ {x})
    BY <2>2
  <2> DEFINE c == First(s)
  <2>4. c \in s /\ V(s) = f[c] + V(s \ {c})
    <3>1. IsFiniteSet(s) /\ s # {} /\ \A z \in s : f[z] \in Int
      BY <1>0, <2>2, <2>3
    <3> QED
      BY <3>1, SumFirst
  <2> HIDE DEF c
  <2>5. x # c
    BY <2>3, <2>4
  <2>6. \A t \in SUBSET s : t # s => \A z \in t : V(t) = f[z] + V(t \ {z})
    BY <2>1, <2>2
  <2>7. V(s \ {c}) = f[x] + V((s \ {c}) \ {x})
    BY <2>4, <2>5, <2>6, <2>3
  <2>8. V(s \ {x}) = f[c] + V((s \ {x}) \ {c})
    BY <2>4, <2>5, <2>6, <2>3
  <2>9. (s \ {c}) \ {x} = (s \ {x}) \ {c}
    OBVIOUS
  <2>10. /\ f[x] \in Int /\ f[c] \in Int /\ V((s \ {c}) \ {x}) \in Int
         /\ V(s \ {c}) \in Int /\ V(s \ {x}) \in Int /\ V(s) \in Int
    <3>1. (s \ {c}) \ {x} \in SUBSET S /\ s \ {c} \in SUBSET S /\ s \ {x} \in SUBSET S /\ x \in S /\ c \in S
      BY <2>2, <2>3, <2>4
    <3> HIDE DEF V
    <3> QED
      BY <1>0, <2>2, <3>1
  <2>11. V(s) = f[x] + V(s \ {x})
    <3>1. V((s \ {x}) \ {c}) = V((s \ {c}) \ {x})
      BY <2>9
    <3> HIDE DEF V
    <3> QED
      BY <2>4, <2>7, <2>8, <2>10, <3>1
  <2> QED
    BY <2>3, <2>11
<1>2. CASE Bad = {}
  <2>1. S \notin Bad /\ S \in SUBSET S
    BY <1>2
  <2> QED
    BY <2>1
<1> QED
  BY <1>1, <1>2

\* A sum that gains one term.
LEMMA SumAdd ==
  ASSUME NEW S, IsFiniteSet(S), NEW f, NEW h, \A x \in S : f[x] \in Int /\ h[x] = f[x],
         NEW y, y \notin S, h[y] \in Int
  PROVE  SumFunctionOnSet(h, S \cup {y}) = SumFunctionOnSet(f, S) + h[y]
<1>1. IsFiniteSet(S \cup {y}) /\ (S \cup {y}) \ {y} = S /\ y \in S \cup {y}
  BY FS_AddElement
<1>2. \A x \in S \cup {y} : h[x] \in Int
  OBVIOUS
<1>3. SumFunctionOnSet(h, S \cup {y}) = h[y] + SumFunctionOnSet(h, (S \cup {y}) \ {y})
  BY <1>1, <1>2, SumRemove
<1>4. SumFunctionOnSet(f, S) \in Int /\ SumFunctionOnSet(h, S) = SumFunctionOnSet(f, S)
  BY SumSame
<1>5. SumFunctionOnSet(h, (S \cup {y}) \ {y}) = SumFunctionOnSet(f, S)
  BY <1>1, <1>4
<1> QED
  BY <1>3, <1>4, <1>5

\* What an element contributes to a sum.
Part(f, S, y) == IF y \in S THEN f[y] ELSE 0

\* A sum in which one term changes, comes or goes.
LEMMA SumChange ==
  ASSUME NEW S, IsFiniteSet(S), NEW T, IsFiniteSet(T), NEW f, NEW h, NEW y, S \ {y} = T \ {y},
         \A x \in S : f[x] \in Int, \A x \in T : h[x] \in Int,
         \A x \in S \ {y} : h[x] = f[x]
  PROVE  /\ SumFunctionOnSet(f, S) \in Int
         /\ SumFunctionOnSet(h, T) = SumFunctionOnSet(f, S) + Part(h, T, y) - Part(f, S, y)
<1> DEFINE a == SumFunctionOnSet(f, S)  b == SumFunctionOnSet(h, T)
           k == SumFunctionOnSet(f, S \ {y})
<1>1. IsFiniteSet(S \ {y}) /\ a \in Int
  BY FS_RemoveElement, SumSame
<1>2. k \in Int /\ SumFunctionOnSet(h, S \ {y}) = k
  BY <1>1, SumSame
<1>3. SumFunctionOnSet(h, T \ {y}) = k
  BY <1>2
<1>4. a = k + (IF y \in S THEN f[y] ELSE 0)
  <2>1. CASE y \in S
    <3>1. a = f[y] + k /\ f[y] \in Int
      BY <2>1, SumRemove
    <3> HIDE DEF a, k
    <3> QED
      BY <1>2, <2>1, <3>1
  <2>2. CASE y \notin S
    <3>1. S \ {y} = S
      BY <2>2
    <3>2. a = k
      BY <3>1
    <3> HIDE DEF a, k
    <3> QED
      BY <1>2, <2>2, <3>2
  <2> QED
    BY <2>1, <2>2
<1>5. b = k + (IF y \in T THEN h[y] ELSE 0)
  <2>1. CASE y \in T
    <3>1. b = h[y] + k /\ h[y] \in Int
      BY <1>3, <2>1, SumRemove
    <3> HIDE DEF b, k
    <3> QED
      BY <1>2, <2>1, <3>1
  <2>2. CASE y \notin T
    <3>1. T \ {y} = T
      BY <2>2
    <3>2. b = k
      BY <1>3, <3>1
    <3> HIDE DEF b, k
    <3> QED
      BY <1>2, <2>2, <3>2
  <2> QED
    BY <2>1, <2>2
<1>6. (y \in T => h[y] \in Int) /\ (y \in S => f[y] \in Int)
  OBVIOUS
<1>7. b = a + (IF y \in T THEN h[y] ELSE 0) - (IF y \in S THEN f[y] ELSE 0)
  <2> HIDE DEF a, b, k
  <2> QED
    BY <1>1, <1>2, <1>4, <1>5, <1>6
<1> QED
  BY <1>1, <1>7 DEF Part

-----------------------------------------------------------------------------
(* The audit trail. *)

\* The ledger after an entry, by index.
LEMMA LedgerGrows ==
  ASSUME StockInv, NEW m \in Requests, Stands(m), ledger' = Append(ledger, Entry(m))
  PROVE  /\ Len(ledger) \in Nat /\ DOMAIN ledger = 1..Len(ledger)
         /\ DOMAIN ledger' = DOMAIN ledger \cup {Len(ledger) + 1}
         /\ Len(ledger) + 1 \notin DOMAIN ledger
         /\ IsFiniteSet(DOMAIN ledger)
         /\ \A i \in DOMAIN ledger : ledger'[i] = ledger[i] /\ ledger[i] \in Movements
         /\ ledger'[Len(ledger) + 1] = Entry(m)
<1>1. ledger \in Seq(Movements) /\ ledger' \in Seq(Movements)
  BY EntryLedger DEF StockInv, TypeOK
<1>2. /\ Len(ledger) \in Nat /\ DOMAIN ledger = 1..Len(ledger)
      /\ DOMAIN ledger' = 1..(Len(ledger) + 1)
      /\ \A i \in 1..Len(ledger) : ledger'[i] = ledger[i] /\ ledger[i] \in Movements
      /\ ledger'[Len(ledger) + 1] = Entry(m)
  BY <1>1
<1>3. 1..(Len(ledger) + 1) = (1..Len(ledger)) \cup {Len(ledger) + 1} /\ Len(ledger) + 1 \notin 1..Len(ledger)
  BY <1>2
<1>4. IsFiniteSet(1..Len(ledger))
  BY <1>2, FS_Interval
<1> QED
  BY <1>2, <1>3, <1>4

\* What an entry says of the movement it records.
LEMMA EntryShape ==
  ASSUME NEW m \in Requests
  PROVE  /\ Entry(m).type = m.type /\ Entry(m).loc = Where(m) /\ Entry(m).dest = m.dest
         /\ Entry(m).src = m.src /\ Entry(m).q = m.q
BY RequestShape DEF Entry, Movements

\* A movement changes every balance by what its entry says.
LEMMA ApplyEffect ==
  ASSUME StockInv, NEW m \in Requests, Stands(m), Apply(m), NEW l \in Locations
  PROVE  Effect(Entry(m), l) \in Int /\ quantity'[l] = quantity[l] + Effect(Entry(m), l)
<1>0. /\ m.q \in Int /\ m.type \in InventoryTransactionType
      /\ m.type \notin {"release", "return"} => m.loc \in Locations
      /\ m.type = "transfer" => m.dest \in Locations /\ m.dest # m.loc
      /\ m.dest # None => m.type = "transfer"
  BY RequestShape DEF Movements, Requests
<1>1. /\ quantity \in [Locations -> Int] /\ quantity[l] \in Int /\ Where(m) \in Locations
  BY DEF StockInv, TypeOK, Stands
<1> DEFINE e == Entry(m)
<1>2. /\ e.type = m.type /\ e.loc = Where(m) /\ e.dest = m.dest
      /\ e.q = m.q
  BY EntryShape
<1> SUFFICES Effect(e, l) \in Int /\ quantity'[l] = quantity[l] + Effect(e, l)
  OBVIOUS
<1> HIDE DEF e
<1>3. CASE receiveAtomic(m)
  BY <1>0, <1>1, <1>2, <1>3 DEF receiveAtomic, Effect, Where
<1>4. CASE \E r \in Reservations : reserveAtomic(m, r)
  BY <1>0, <1>1, <1>2, <1>4 DEF reserveAtomic, Effect
<1>5. CASE issueReserved(m)
  BY <1>0, <1>1, <1>2, <1>5 DEF issueReserved, FromReservation, Effect, Where
<1>6. CASE issueAvailable(m)
  BY <1>0, <1>1, <1>2, <1>6 DEF issueAvailable, Effect, Where
<1>7. CASE consumeSourceAtomic(m)
  BY <1>0, <1>1, <1>2, <1>7 DEF consumeSourceAtomic, FromIssue, Effect, Where
<1>9. CASE adjustAtomic(m)
  BY <1>0, <1>1, <1>2, <1>9 DEF adjustAtomic, Effect, Where
<1>10. CASE returnAtomic(m)
  BY <1>0, <1>1, <1>2, <1>10 DEF returnAtomic, Effect
<1>11. CASE transferAtomic(m)
  BY <1>0, <1>1, <1>2, <1>11 DEF transferAtomic, Effect, Where
<1> QED
  BY <1>3, <1>4, <1>5, <1>6, <1>7, <1>9, <1>10, <1>11 DEF Apply

\* The entries' effects are numbers.
LEMMA EffectTypes ==
  ASSUME NEW e \in Movements, NEW l
  PROVE  Effect(e, l) \in Int
BY DEF Movements, Effect

\* A commit enters what it does to the balances.
LEMMA CommitExplained ==
  ASSUME StockInv, QuantityIsLedger, NEW c \in Clients, Commit(c)
  PROVE  QuantityIsLedger'
<1> DEFINE m == op[c]  n == Len(ledger) + 1
<1>1. m \in Requests /\ Stands(m) /\ Apply(m) /\ ledger' = Append(ledger, Entry(m))
  BY DEF Commit, StockInv, InFlight, SnapshotHolds
<1> HIDE DEF m
<1> SUFFICES ASSUME NEW l \in Locations
             PROVE  quantity'[l] = SumFunction([i \in DOMAIN ledger' |-> Effect(ledger'[i], l)])
  BY DEF QuantityIsLedger
<1> DEFINE f == [i \in DOMAIN ledger |-> Effect(ledger[i], l)]
           h == [i \in DOMAIN ledger' |-> Effect(ledger'[i], l)]
<1>2. /\ DOMAIN ledger' = DOMAIN ledger \cup {n} /\ n \notin DOMAIN ledger
      /\ IsFiniteSet(DOMAIN ledger)
      /\ \A i \in DOMAIN ledger : ledger'[i] = ledger[i] /\ ledger[i] \in Movements
      /\ ledger'[n] = Entry(m)
  BY <1>1, LedgerGrows
<1>3. Effect(Entry(m), l) \in Int /\ quantity'[l] = quantity[l] + Effect(Entry(m), l)
  BY <1>1, ApplyEffect
<1>4. \A i \in DOMAIN ledger : f[i] \in Int /\ h[i] = f[i]
  BY <1>2, EffectTypes
<1>5. h[n] = Effect(Entry(m), l)
  BY <1>2
<1>6. DOMAIN f = DOMAIN ledger /\ DOMAIN h = DOMAIN ledger \cup {n}
  BY <1>2
<1>7. quantity[l] = SumFunction(f)
  BY DEF QuantityIsLedger
<1> HIDE DEF f, h, n
<1>8. SumFunctionOnSet(h, DOMAIN ledger \cup {n}) = SumFunctionOnSet(f, DOMAIN ledger) + h[n]
  BY <1>2, <1>3, <1>4, <1>5, SumAdd
<1>9. quantity'[l] = SumFunction(h)
  BY <1>3, <1>5, <1>6, <1>7, <1>8 DEF SumFunction
<1> QED
  BY <1>9 DEF h

\* Only commits enter the ledger or change balances and reservations.
LEMMA OnlyCommitsWrite ==
  ASSUME [Next]_vars, \A c \in Clients : ~Commit(c)
  PROVE  UNCHANGED <<balanceVars, reservationVars, ledger>>
BY DEF Next, Proceed, vars, Request, Begin, Refuse, Duplicate, Retry, Abort,
   releaseAtomic, Deactivate

\* QuantityIsLedger for every number of locations, movements and quantities: the
\* ledger explains each balance to the unit, whatever is retried, aborted or
\* answered as a duplicate (the *Atomic methods of inventory.repository.ts).
THEOREM StockExplained == Spec => []QuantityIsLedger
<1>1. Init => QuantityIsLedger
  <2> SUFFICES ASSUME Init, NEW l \in Locations
               PROVE  quantity[l] = SumFunction([i \in DOMAIN ledger |-> Effect(ledger[i], l)])
    BY DEF QuantityIsLedger
  <2> DEFINE f == [i \in DOMAIN ledger |-> Effect(ledger[i], l)]
  <2>1. DOMAIN f = {} /\ quantity[l] = 0
    BY DEF Init
  <2> HIDE DEF f
  <2>2. SumFunction(f) = 0
    BY <2>1, SumEmpty DEF SumFunction
  <2> QED
    BY <2>1, <2>2 DEF f
<1>2. StockInv /\ QuantityIsLedger /\ [Next]_vars => QuantityIsLedger'
  <2> SUFFICES ASSUME StockInv, QuantityIsLedger, [Next]_vars PROVE QuantityIsLedger'
    OBVIOUS
  <2>1. CASE UNCHANGED <<balanceVars, reservationVars, ledger>>
    BY <2>1 DEF QuantityIsLedger, balanceVars
  <2> QED
    BY <2>1, CommitExplained, OnlyCommitsWrite
<1> QED
  BY <1>1, <1>2, StockInvariant, PTL DEF Spec

-----------------------------------------------------------------------------
(* Returns and consumptions of an entry. *)

\* What is only read still holds for an open transaction that is not stale,
\* because the movements that would break it write its balance document.
SourceInv ==
  /\ \A c \in Clients : pc[c] = "open" /\ ~stale[c] => IssueAllows(op[c]) /\ ReturnAllows(op[c])
  /\ \A i \in DOMAIN ledger :
       /\ ledger[i].type \in {"issue", "consumption", "return"} => ledger[i].q >= 0
       /\ ledger[i].type \in {"consumption", "return"} => ledger[i].src \in DOMAIN ledger \cup {0}
  /\ WithinSource

\* An entry adds to one sum over the entries of a source, or to none.
LEMMA SumOfGrows ==
  ASSUME StockInv, NEW m \in Requests, Stands(m), ledger' = Append(ledger, Entry(m)),
         NEW type \in {"consumption", "return"}, NEW s
  PROVE  /\ SumOf(type, s) \in Int
         /\ SumOf(type, s)' = SumOf(type, s) + IF m.type = type /\ m.src = s THEN m.q ELSE 0
<1> DEFINE n == Len(ledger) + 1
           f == [i \in DOMAIN ledger |-> ledger[i].q]
           h == [i \in DOMAIN ledger' |-> ledger'[i].q]
           S == {i \in DOMAIN ledger : ledger[i].type = type /\ ledger[i].src = s}
           T == {i \in DOMAIN ledger' : ledger'[i].type = type /\ ledger'[i].src = s}
<1>1. /\ DOMAIN ledger' = DOMAIN ledger \cup {n} /\ n \notin DOMAIN ledger
      /\ IsFiniteSet(DOMAIN ledger)
      /\ \A i \in DOMAIN ledger : ledger'[i] = ledger[i] /\ ledger[i] \in Movements
      /\ ledger'[n] = Entry(m)
  BY LedgerGrows
<1>2. Entry(m).type = m.type /\ Entry(m).src = m.src /\ Entry(m).q = m.q
  BY EntryShape
<1>3. IsFiniteSet(S) /\ S \subseteq DOMAIN ledger /\ n \notin S
  BY <1>1, FS_Subset
<1>4. \A i \in S : f[i] \in Int /\ h[i] = f[i]
  BY <1>1 DEF Movements
<1>5. T = IF m.type = type /\ m.src = s THEN S \cup {n} ELSE S
  BY <1>1, <1>2
<1>6. m.q \in Int /\ (m.type = type => h[n] = m.q)
  BY <1>1, <1>2, RequestShape DEF Movements
<1>7. SumOf(type, s) = SumFunctionOnSet(f, S) /\ SumOf(type, s)' = SumFunctionOnSet(h, T)
  BY DEF SumOf
<1> HIDE DEF f, h, S, T, n
<1>8. SumFunctionOnSet(f, S) \in Int /\ SumFunctionOnSet(h, S) = SumFunctionOnSet(f, S)
  BY <1>3, <1>4, SumSame
<1>9. CASE m.type = type /\ m.src = s
  <2>1. SumFunctionOnSet(h, S \cup {n}) = SumFunctionOnSet(f, S) + h[n]
    BY <1>3, <1>4, <1>6, <1>9, SumAdd
  <2> QED
    BY <1>5, <1>6, <1>7, <1>8, <1>9, <2>1
<1>10. CASE ~(m.type = type /\ m.src = s)
  BY <1>5, <1>7, <1>8, <1>10
<1> QED
  BY <1>9, <1>10

\* A commit leaves what the other open transactions read of the ledger.
LEMMA CommitKeepsSources ==
  ASSUME StockInv, SourceInv, NEW c \in Clients, NEW d \in Clients, c # d, Commit(c),
         pc[d] = "open", ~stale'[d]
  PROVE  IssueAllows(op[d])' /\ ReturnAllows(op[d])'
<1>0. PICK m \in Requests, k \in Requests : m = op[c] /\ k = op[d] /\ op'[d] = k
  BY DEF Commit, Answer, StockInv, TypeOK, InFlight
<1>1. /\ Stands(m) /\ Stands(k) /\ ~WriteConflict(k, m)
      /\ ledger' = Append(ledger, Entry(m))
      /\ IssueAllows(m) /\ IssueAllows(k) /\ ReturnAllows(k)
  BY <1>0 DEF Commit, Answer, StockInv, TypeOK, InFlight, SnapshotHolds, SourceInv
<1>2. Where(k) # Where(m)
  BY <1>1 DEF WriteConflict, WrittenBalances
<1>3. \A i \in DOMAIN ledger : i \in DOMAIN ledger' /\ ledger'[i] = ledger[i]
  BY <1>1, EntryLedger
<1>4. \A type \in {"consumption", "return"}, s \in Nat :
        SumOf(type, s)' = SumOf(type, s) + (IF m.type = type /\ m.src = s THEN m.q ELSE 0)
        /\ SumOf(type, s) \in Int
  BY <1>1, SumOfGrows
<1>5. k.src \in Nat
  BY <1>1, RequestShape DEF Movements
<1>6. ASSUME FromIssue(k) PROVE IssueAllows(k)'
  <2>1. k.type = "consumption" /\ k.src # 0 /\ k.src \in DOMAIN ledger /\ ledger[k.src].loc = k.loc
    BY <1>1, <1>6 DEF FromIssue, IssueAllows
  <2>2. ~(m.type = "consumption" /\ m.src = k.src)
    BY <1>1, <1>2, <2>1 DEF IssueAllows, FromIssue, Where
  <2>3. ConsumedFrom(k.src)' = ConsumedFrom(k.src)
    BY <1>4, <1>5, <2>2 DEF ConsumedFrom
  <2> QED
    BY <1>1, <1>3, <1>6, <2>1, <2>3 DEF IssueAllows
<1>7. ASSUME k.type = "return" PROVE ReturnAllows(k)'
  <2>1. k.src \in DOMAIN ledger
    BY <1>1, <1>7 DEF ReturnAllows
  <2>2. ~(m.type = "return" /\ m.src = k.src)
    BY <1>2, <1>7 DEF Where
  <2>3. Returned(k.src)' = Returned(k.src)
    BY <1>4, <1>5, <2>2 DEF Returned
  <2> QED
    BY <1>1, <1>3, <1>7, <2>1, <2>3 DEF ReturnAllows
<1>8. IssueAllows(k)' /\ ReturnAllows(k)'
  BY <1>6, <1>7 DEF IssueAllows, ReturnAllows, FromIssue
<1> QED
  BY <1>0, <1>8

\* A commit finds room in its source and leaves the other sources as they were.
LEMMA CommitKeepsWithin ==
  ASSUME StockInv, SourceInv, NEW c \in Clients, Commit(c)
  PROVE  SourceInv'
<1>0. PICK m \in Requests, n \in Nat : m = op[c] /\ n = Len(ledger) + 1
  BY DEF Commit, StockInv, InFlight
<1>1. /\ Stands(m) /\ ledger' = Append(ledger, Entry(m))
      /\ IssueAllows(m) /\ ReturnAllows(m)
  BY <1>0 DEF Commit, StockInv, InFlight, SnapshotHolds, SourceInv
<1>2. \A d \in Clients : pc'[d] = "open" /\ ~stale'[d] => IssueAllows(op[d])' /\ ReturnAllows(op[d])'
  BY CommitKeepsSources DEF Commit, Answer, StockInv, TypeOK
<1>3. /\ Len(ledger) \in Nat /\ DOMAIN ledger = 1..Len(ledger)
      /\ DOMAIN ledger' = DOMAIN ledger \cup {n} /\ n \notin DOMAIN ledger
      /\ \A i \in DOMAIN ledger : ledger'[i] = ledger[i] /\ ledger[i] \in Movements
      /\ ledger'[n] = Entry(m)
  BY <1>0, <1>1, LedgerGrows
<1>4. Entry(m).type = m.type /\ Entry(m).src = m.src /\ Entry(m).q = m.q
  BY <1>1, EntryShape
<1>5. /\ m.type \in {"issue", "consumption", "return"} => m.q \in Nat
      /\ m.src \in Nat
  BY <1>1, RequestShape DEF Movements
<1>6. m.type \in {"consumption", "return"} => m.src \in DOMAIN ledger \cup {0}
  BY <1>1, <1>5 DEF IssueAllows, FromIssue, ReturnAllows
<1>7. \A i \in DOMAIN ledger' :
        /\ ledger'[i].type \in {"issue", "consumption", "return"} => ledger'[i].q >= 0
        /\ ledger'[i].type \in {"consumption", "return"} => ledger'[i].src \in DOMAIN ledger' \cup {0}
  <2> SUFFICES ASSUME NEW i \in DOMAIN ledger'
               PROVE  /\ ledger'[i].type \in {"issue", "consumption", "return"} => ledger'[i].q >= 0
                      /\ ledger'[i].type \in {"consumption", "return"} => ledger'[i].src \in DOMAIN ledger' \cup {0}
    OBVIOUS
  <2>1. CASE i \in DOMAIN ledger
    BY <1>3, <2>1 DEF SourceInv
  <2>2. CASE i = n
    BY <1>3, <1>4, <1>5, <1>6, <2>2
  <2> QED
    BY <1>3, <2>1, <2>2
<1>8. \A type \in {"consumption", "return"}, s \in Nat :
        SumOf(type, s)' = SumOf(type, s) + (IF m.type = type /\ m.src = s THEN m.q ELSE 0)
        /\ SumOf(type, s) \in Int
  BY <1>1, SumOfGrows
<1>9. WithinSource'
  <2> SUFFICES ASSUME NEW i \in DOMAIN ledger', ledger'[i].type \in {"issue", "consumption"}
               PROVE  SumOf("return", i)' <= ledger'[i].q /\ SumOf("consumption", i)' <= ledger'[i].q
    BY DEF WithinSource, Returned, ConsumedFrom
  <2>1. CASE i \in DOMAIN ledger
    <3>1. /\ i \in Nat /\ i # 0 /\ ledger'[i] = ledger[i] /\ ledger[i].q \in Int
          /\ SumOf("return", i) <= ledger[i].q /\ SumOf("consumption", i) <= ledger[i].q
      BY <1>3, <2>1 DEF SourceInv, WithinSource, Returned, ConsumedFrom, Movements
    <3>2. m.type = "return" /\ m.src = i => SumOf("return", i) + m.q <= ledger[i].q
      BY <1>1 DEF ReturnAllows, Returned
    <3>3. m.type = "consumption" /\ m.src = i => SumOf("consumption", i) + m.q <= ledger[i].q
      BY <1>1, <3>1 DEF IssueAllows, FromIssue, ConsumedFrom
    <3>4. SumOf("return", i)' <= ledger[i].q
      BY <1>8, <3>1, <3>2
    <3>5. SumOf("consumption", i)' <= ledger[i].q
      BY <1>8, <3>1, <3>3
    <3> QED
      BY <3>1, <3>4, <3>5
  <2>2. CASE i = n
    <3>0. n \in Nat /\ n # 0 /\ n \notin DOMAIN ledger
      BY <1>0, <1>3
    <3>1. \A type \in {"consumption", "return"} : SumOf(type, n) = 0
      <4> SUFFICES ASSUME NEW type \in {"consumption", "return"} PROVE SumOf(type, n) = 0
        OBVIOUS
      <4>1. {j \in DOMAIN ledger : ledger[j].type = type /\ ledger[j].src = n} = {}
        BY <3>0 DEF SourceInv
      <4> QED
        BY <4>1, SumEmpty DEF SumOf
    <3>2. m.type \in {"consumption", "return"} => m.src # n
      BY <1>6, <3>0
    <3>3. ledger'[i].q >= 0 /\ ledger'[i].q \in Int
      <4>1. ledger'[i] = Entry(m) /\ m.type \in {"issue", "consumption"}
        BY <1>3, <1>4, <2>2
      <4> QED
        BY <1>4, <1>5, <4>1
    <3>4. SumOf("return", n)' = 0 /\ SumOf("consumption", n)' = 0
      BY <1>8, <3>0, <3>1, <3>2
    <3> QED
      BY <2>2, <3>3, <3>4
  <2> QED
    BY <1>3, <2>1, <2>2
<1> QED
  BY <1>2, <1>7, <1>9 DEF SourceInv

\* The other steps leave the ledger, and Begin opens only what it allows.
LEMMA QuietKeepsSources ==
  ASSUME StockInv, SourceInv, [Next]_vars, \A c \in Clients : ~Commit(c)
  PROVE  SourceInv'
<1>1. ledger' = ledger
  BY OnlyCommitsWrite
<1>2. \A k : (IssueAllows(k)' <=> IssueAllows(k)) /\ (ReturnAllows(k)' <=> ReturnAllows(k))
  BY <1>1 DEF IssueAllows, ReturnAllows, ConsumedFrom, Returned, SumOf
<1>3. ASSUME NEW d \in Clients, pc'[d] = "open", ~stale'[d]
      PROVE  IssueAllows(op'[d]) /\ ReturnAllows(op'[d])
  <2>1. CASE pc[d] = "open" /\ ~stale[d] /\ op'[d] = op[d]
    BY <2>1 DEF SourceInv
  <2>2. CASE Begin(d)
    BY <2>2 DEF Begin, Allowed
  <2> QED
    BY <1>3, <2>1, <2>2 DEF Next, Proceed, vars, Request, Begin, Refuse, Duplicate, Retry, Abort,
       releaseAtomic, Answer, Deactivate, StockInv, TypeOK
<1>4. WithinSource'
  BY <1>1 DEF SourceInv, WithinSource, Returned, ConsumedFrom, SumOf
<1> QED
  BY <1>1, <1>2, <1>3, <1>4 DEF SourceInv

\* WithinSource for every number of requests, entries and quantities: returns
\* and consumptions that race on one original entry never exceed it, although
\* returnAtomic and consumeSourceAtomic only read the entries they add up.
THEOREM StockWithinSource == Spec => []WithinSource
<1>1. Init => SourceInv
  BY DEF Init, SourceInv, WithinSource
<1>2. StockInv /\ SourceInv /\ [Next]_vars => SourceInv'
  BY CommitKeepsWithin, QuietKeepsSources
<1>3. SourceInv => WithinSource
  BY DEF SourceInv
<1> QED
  BY <1>1, <1>2, <1>3, StockInvariant, PTL DEF Spec

-----------------------------------------------------------------------------
(* What is reserved at a location. *)

Held(l) == {r \in Reservations : resStatus[r] = "reserved" /\ resLocation[r] = l}

\* Only finitely many reservations were ever made, so that their sum exists.
FinitelyUsed == IsFiniteSet({r \in Reservations : resStatus[r] # "absent"})

\* A movement that touches one reservation moves the sum by that one's part.
LEMMA OutstandingChange ==
  ASSUME StockInv, FinitelyUsed, FinitelyUsed', NEW z \in Reservations, NEW l \in Locations,
         resQuantity' \in [Reservations -> Nat], resConsumed' \in [Reservations -> Nat],
         \A r \in Reservations \ {z} :
           /\ resStatus'[r] = resStatus[r] /\ resLocation'[r] = resLocation[r]
           /\ resQuantity'[r] = resQuantity[r] /\ resConsumed'[r] = resConsumed[r],
         reserved[l] = SumFunctionOnSet([r \in Reservations |-> Remaining(r)], Held(l)),
         reserved'[l] = reserved[l] + (IF z \in Held(l)' THEN Remaining(z)' ELSE 0)
                                    - (IF z \in Held(l) THEN Remaining(z) ELSE 0)
  PROVE  reserved'[l] = SumFunctionOnSet([r \in Reservations |-> Remaining(r)], Held(l))'
<1> DEFINE f == [r \in Reservations |-> Remaining(r)]
           h == [r \in Reservations |-> Remaining(r)']
           S == Held(l)
           T == Held(l)'
<1>1. IsFiniteSet(S) /\ IsFiniteSet(T)
  <2>1. S \subseteq {r \in Reservations : resStatus[r] # "absent"}
    BY DEF Held
  <2>2. T \subseteq {r \in Reservations : resStatus'[r] # "absent"}
    BY DEF Held
  <2> QED
    BY <2>1, <2>2, FS_Subset DEF FinitelyUsed
<1>2. S \ {z} = T \ {z} /\ S \subseteq Reservations /\ T \subseteq Reservations
  BY DEF Held
<1>3. \A r \in Reservations : f[r] \in Int /\ h[r] \in Int
  BY DEF Remaining, StockInv, TypeOK
<1>4. \A r \in S \ {z} : h[r] = f[r]
  BY <1>2 DEF Remaining
<1>5. f[z] = Remaining(z) /\ h[z] = Remaining(z)'
  OBVIOUS
<1>6. /\ reserved[l] = SumFunctionOnSet(f, S)
      /\ reserved'[l] = reserved[l] + Part(h, T, z) - Part(f, S, z)
  BY <1>5 DEF Part
<1> HIDE DEF f, h, S, T
<1>7. SumFunctionOnSet(h, T) = SumFunctionOnSet(f, S) + Part(h, T, z) - Part(f, S, z)
  <2>1. (\A x \in S : f[x] \in Int) /\ (\A x \in T : h[x] \in Int) /\ S \ {z} = T \ {z}
    BY <1>2, <1>3
  <2> QED
    BY <1>1, <1>4, <2>1, SumChange
<1>8. reserved'[l] = SumFunctionOnSet(h, T)
  BY <1>6, <1>7
<1> QED
  BY <1>8 DEF h, T

\* Every movement changes the counter by what it does to its reservation.
LEMMA ApplyOutstanding ==
  ASSUME StockInv, FinitelyUsed, ReservedIsOutstanding, NEW m \in Requests, Stands(m), Apply(m)
  PROVE  FinitelyUsed' /\ ReservedIsOutstanding'
<1>0. /\ m.q \in Int
      /\ m.type \notin {"release", "return"} => m.loc \in Locations
      /\ m.res # None => m.res \in Reservations
      /\ m.type = "release" => m.res \in Reservations
      /\ m.type \notin {"adjustment", "release"} => m.q \in Nat /\ m.q > 0
  BY RequestShape DEF Movements
<1>1. /\ resQuantity' \in [Reservations -> Nat] /\ resConsumed' \in [Reservations -> Nat]
      /\ resStatus' \in [Reservations -> {"absent", "reserved", "consumed"}]
  BY ApplyReservations
<1>2. /\ reserved \in [Locations -> Int]
      /\ resStatus \in [Reservations -> {"absent", "reserved", "consumed"}]
      /\ resQuantity \in [Reservations -> Nat] /\ resConsumed \in [Reservations -> Nat]
      /\ resLocation \in [Reservations -> Locations \cup {None}]
  BY DEF StockInv, TypeOK
<1>3. \A l \in Locations :
        reserved[l] = SumFunctionOnSet([r \in Reservations |-> Remaining(r)], Held(l))
  BY DEF ReservedIsOutstanding, Held
<1>4. ASSUME NEW z \in Reservations,
             \A r \in Reservations \ {z} :
               /\ resStatus'[r] = resStatus[r] /\ resLocation'[r] = resLocation[r]
               /\ resQuantity'[r] = resQuantity[r] /\ resConsumed'[r] = resConsumed[r],
             \A l \in Locations :
               reserved'[l] = reserved[l] + (IF z \in Held(l)' THEN Remaining(z)' ELSE 0)
                                          - (IF z \in Held(l) THEN Remaining(z) ELSE 0)
      PROVE  FinitelyUsed' /\ ReservedIsOutstanding'
  <2>1. FinitelyUsed'
    <3>1. IsFiniteSet({r \in Reservations : resStatus[r] # "absent"} \cup {z})
      BY FS_AddElement DEF FinitelyUsed
    <3>2. {r \in Reservations : resStatus'[r] # "absent"}
            \subseteq {r \in Reservations : resStatus[r] # "absent"} \cup {z}
      BY <1>4
    <3> QED
      BY <3>1, <3>2, FS_Subset DEF FinitelyUsed
  <2>2. ASSUME NEW l \in Locations
        PROVE  reserved'[l] = SumFunctionOnSet([r \in Reservations |-> Remaining(r)], Held(l))'
    BY <1>1, <1>3, <1>4, <2>1, OutstandingChange
  <2> QED
    BY <2>1, <2>2 DEF ReservedIsOutstanding, Held
<1>5. CASE \E r \in Reservations : reserveAtomic(m, r)
  <2>1. PICK z \in Reservations : reserveAtomic(m, z)
    BY <1>5
  <2>2. /\ resStatus[z] = "absent" /\ resConsumed[z] = 0 /\ m.loc \in Locations
        /\ resStatus'[z] = "reserved" /\ resLocation'[z] = m.loc
        /\ resQuantity'[z] = m.q /\ resConsumed'[z] = 0
        /\ \A l \in Locations : reserved'[l] = IF l = m.loc THEN reserved[l] + m.q ELSE reserved[l]
        /\ \A r \in Reservations \ {z} :
             /\ resStatus'[r] = resStatus[r] /\ resLocation'[r] = resLocation[r]
             /\ resQuantity'[r] = resQuantity[r] /\ resConsumed'[r] = resConsumed[r]
    BY <1>0, <1>2, <2>1 DEF reserveAtomic, StockInv, FreshReservations
  <2>3. /\ Remaining(z)' = m.q
        /\ \A l \in Locations : z \notin Held(l) /\ (z \in Held(l)' <=> l = m.loc)
    BY <1>0, <2>2 DEF Remaining, Held
  <2> QED
    BY <1>0, <1>2, <1>4, <2>2, <2>3
<1>6. CASE issueReserved(m)
  <2>1. PICK z \in Reservations : z = m.res
    BY <1>0, <1>6 DEF issueReserved, FromReservation
  <2>2. /\ resStatus[z] = "reserved" /\ resLocation[z] = m.loc /\ m.loc \in Locations
        /\ m.q <= Remaining(z)
    BY <1>0, <1>6, <2>1 DEF issueReserved, FromReservation, Stands, ReservationAllows
  <2>3. /\ resLocation'[z] = m.loc /\ resQuantity'[z] = resQuantity[z]
        /\ resConsumed'[z] = resConsumed[z] + m.q
        /\ \A l \in Locations : reserved'[l] = IF l = m.loc THEN reserved[l] - m.q ELSE reserved[l]
    BY <1>0, <1>2, <1>6, <2>1, <2>2 DEF issueReserved
  <2>4. resStatus'[z] = IF resConsumed[z] + m.q = resQuantity[z] THEN "consumed" ELSE "reserved"
    BY <1>2, <1>6, <2>1 DEF issueReserved
  <2>5. \A r \in Reservations \ {z} :
          /\ resStatus'[r] = resStatus[r] /\ resLocation'[r] = resLocation[r]
          /\ resQuantity'[r] = resQuantity[r] /\ resConsumed'[r] = resConsumed[r]
    BY <1>2, <1>6, <2>1 DEF issueReserved
  <2>6. /\ Remaining(z) \in Int /\ Remaining(z)' = Remaining(z) - m.q
        /\ resStatus'[z] = "reserved" \/ Remaining(z)' = 0
    BY <1>0, <1>2, <2>3, <2>4 DEF Remaining
  <2>7. \A l \in Locations : /\ z \in Held(l) <=> l = m.loc
                             /\ z \in Held(l)' <=> l = m.loc /\ resStatus'[z] = "reserved"
    BY <2>2, <2>3 DEF Held
  <2>8. \A l \in Locations :
          reserved'[l] = reserved[l] + (IF z \in Held(l)' THEN Remaining(z)' ELSE 0)
                                     - (IF z \in Held(l) THEN Remaining(z) ELSE 0)
    BY <1>0, <1>2, <2>3, <2>6, <2>7
  <2> QED
    BY <1>4, <2>5, <2>8
<1>8. CASE UNCHANGED <<reserved, reservationVars>>
  BY <1>8 DEF FinitelyUsed, ReservedIsOutstanding, Remaining, reservationVars
<1> QED
  BY <1>5, <1>6, <1>8 DEF Apply, receiveAtomic, issueAvailable, consumeSourceAtomic,
     adjustAtomic, returnAtomic, transferAtomic

\* ReservedIsOutstanding for every number of locations, reservations and
\* requests: reserveAtomic and issueAtomic keep, and the release that rolls back
\* leaves, the counter on the balance equal to what the open reservations still hold.
THEOREM StockReservedExact == Spec => []ReservedIsOutstanding
<1>1. Init => FinitelyUsed /\ ReservedIsOutstanding
  <2> SUFFICES ASSUME Init PROVE FinitelyUsed /\ ReservedIsOutstanding
    OBVIOUS
  <2>1. {r \in Reservations : resStatus[r] # "absent"} = {}
    BY DEF Init
  <2>2. \A l \in Locations :
          {r \in Reservations : resStatus[r] = "reserved" /\ resLocation[r] = l} = {}
    BY DEF Init
  <2>3. FinitelyUsed
    BY <2>1, FS_EmptySet DEF FinitelyUsed
  <2>4. ReservedIsOutstanding
    BY <2>2, SumEmpty DEF Init, ReservedIsOutstanding
  <2> QED
    BY <2>3, <2>4
<1>2. StockInv /\ (FinitelyUsed /\ ReservedIsOutstanding) /\ [Next]_vars
        => (FinitelyUsed /\ ReservedIsOutstanding)'
  <2> SUFFICES ASSUME StockInv, FinitelyUsed, ReservedIsOutstanding, [Next]_vars
               PROVE  FinitelyUsed' /\ ReservedIsOutstanding'
    OBVIOUS
  <2>1. ASSUME NEW c \in Clients, Commit(c) PROVE FinitelyUsed' /\ ReservedIsOutstanding'
    <3>1. op[c] \in Requests /\ Stands(op[c]) /\ Apply(op[c])
      BY <2>1 DEF Commit, StockInv, InFlight, SnapshotHolds
    <3> QED
      BY <3>1, ApplyOutstanding
  <2>2. CASE UNCHANGED <<balanceVars, reservationVars, ledger>>
    BY <2>2 DEF FinitelyUsed, ReservedIsOutstanding, Remaining, balanceVars, reservationVars
  <2> QED
    BY <2>1, <2>2, OnlyCommitsWrite
<1> QED
  BY <1>1, <1>2, StockInvariant, PTL DEF Spec

=============================================================================
