---------------------------- MODULE MCWorkOrders ----------------------------
(***************************************************************************)
(* Instances of WorkOrders for TLC.  A behaviour has one of four           *)
(* workloads: the operations its clients use, how many of them overlap and *)
(* how many vendors apply.                                                 *)
(***************************************************************************)
EXTENDS WorkOrders, TLC

VARIABLE workload

\* Requests in flight can be counted.
ASSUME CallsAssumption == IsFiniteSet(Calls)

Workload(ops, overlap, vendors) == [ops |-> ops, overlap |-> overlap, vendors |-> vendors]

Reviews == {"review", "withdraw"}

\* 1: every edit of the order against applications, awards and failures;
\* 2: awards by both routes, the contract and the invoice; 3: any sequence of
\* reviews, withdrawals and awards, one request at a time; 4: reviews and
\* withdrawals that overlap each other and an award.
Workloads ==
  <<Workload(EditOps \cup {"apply", "award", "contractAward", "fail"}, 2, 2),
    Workload({"apply", "award", "contractAward", "contractStatus", "renew", "start",
              "finish", "invoice"}, 2, 2),
    Workload(Reviews \cup {"apply", "award", "contractAward", "contractStatus", "renew",
                           "archive"}, 1, 3),
    Workload(Reviews \cup {"apply", "award", "contractAward"}, 2, 2)>>

Used == Workloads[workload].ops

MCInit == Init /\ workload \in DOMAIN Workloads

MCNext ==
  /\ \/ Create
     \/ \E c \in Calls : Handle(c) \/ ("fail" \in Used /\ Fail(c))
  /\ \A c \in Calls : call'[c].op \in Used \cup {"none"}
  /\ refused' # refused => "assign" \in Used
  /\ Cardinality({c \in Calls : call'[c].step # "idle"}) <= Workloads[workload].overlap
  /\ Cardinality({v \in Vendors : app'[v] # "none"}) <= Workloads[workload].vendors
  /\ UNCHANGED workload

MCSpec == MCInit /\ [][MCNext]_<<vars, workload>>

\* At most one application is awarded, also while reviews and withdrawals
\* overwrite each other and award transactions are run again.  At rest, it is the
\* application of the vendor the order is assigned to: however awards by the two
\* routes overlap, and through any sequence of reviews and withdrawals that do
\* not overlap them.  (A vendor that rejects its assignment keeps the award, and
\* an award by updateStatus that fails half-way is not undone.)
Undisturbed == {"fail", "vendorReject"} \cap Used = {}
InTurn == Workloads[workload].overlap = 1
NoReviews == Reviews \cap Used = {}
AwardsAgree ==
  Undisturbed =>
    /\ OneAwarded
    /\ InTurn \/ NoReviews => AssignedIsAwarded

Symmetry == Permutations(Vendors) \cup Permutations(Calls)
=============================================================================
