-------------------------- MODULE MCInventoryStock --------------------------
(***************************************************************************)
(* Instances of InventoryStock for TLC.  A behaviour has one of three      *)
(* workloads, which bound what its clients ask for, so that each group of  *)
(* movements that interact can be explored to the depth it needs.          *)
(***************************************************************************)
EXTENDS InventoryStock, TLC

VARIABLE workload

\* n: locations in use; largest: quantity asked for; entries: length of the
\* ledger.  Keys are used where there are two locations.
Workload(kinds, n, largest, entries) ==
  [requests |-> {m : m \in {m \in Requests : /\ m.type \in kinds
                                             /\ Magnitude(m) <= largest
                                             /\ m.key # None => n = 2}},
   locations |-> n,
   entries |-> entries]

Workloads ==
  <<Workload({"receipt", "reservation", "issue", "consumption", "release"}, 1, 2, 4),
    Workload({"receipt", "issue", "consumption", "return"}, 1, 2, 4),
    Workload({"receipt", "adjustment", "transfer"}, 2, 1, 3)>>

MCInit ==
  /\ Init
  /\ workload \in DOMAIN Workloads
  /\ Cardinality({l \in Locations : active[l]}) = Workloads[workload].locations

MCNext ==
  /\ \/ \E c \in Clients, m \in Workloads[workload].requests : Request(c, m)
     \/ Proceed
  /\ Len(ledger') <= Workloads[workload].entries
  /\ UNCHANGED workload

MCSpec == MCInit /\ [][MCNext]_<<vars, workload>>

Symmetry == Permutations(Clients) \cup Permutations(Reservations) \cup Permutations(Locations)
=============================================================================
