------------------------------ MODULE MCEstate ------------------------------
(***************************************************************************)
(* What an organization maintains and with whom, for TLC: an asset with    *)
(* its cached copies, the tree of locations, the relationship with a       *)
(* vendor.  They do not share state, so a behaviour exercises one of them. *)
(***************************************************************************)
EXTENDS Naturals

CONSTANTS Handlers, Processes, MaxWrites, Places, None,
          Parts  \* the components the run exercises

ASSUME EstateAssumption == None \notin Places /\ Parts \subseteq {"assets", "locations", "vendors"}

VARIABLES key, asset, history, redis, local, request,
          place, edit,
          relation, associated, agreement, agent,
          part

AC == INSTANCE AssetCache WITH Requests <- Handlers
LO == INSTANCE Locations WITH Editors <- Handlers
VR == INSTANCE VendorRelations WITH Agents <- Handlers

assetVars == <<key, asset, history, redis, local, request>>
placeVars == <<place, edit>>
vendorVars == <<relation, associated, agreement, agent>>
all == <<assetVars, placeVars, vendorVars, part>>

\* The parts that do not run start in one of their initial states.
Init ==
  /\ AC!Init /\ LO!Init /\ VR!Init
  /\ part \in Parts
  /\ part # "assets" => key = "asset"

InAssets == part = "assets" /\ UNCHANGED <<placeVars, vendorVars, part>>
Begin(h) == AC!Begin(h) /\ InAssets
Continue(h) == AC!Continue(h) /\ InAssets
ExpireRedis == AC!ExpireRedis /\ InAssets
ExpireLocal(p) == AC!ExpireLocal(p) /\ InAssets

\* One update that names a parent at a time; the others overlap freely.
LocationStep ==
  /\ part = "locations"
  /\ LO!Next
  /\ \A e, f \in LO!Reparenting' : e = f
  /\ UNCHANGED <<assetVars, vendorVars, part>>

VendorStep == part = "vendors" /\ VR!Next /\ UNCHANGED <<assetVars, placeVars, part>>

Next ==
  \/ LocationStep \/ VendorStep
  \/ \E h \in Handlers : Begin(h) \/ Continue(h)
  \/ ExpireRedis
  \/ \E p \in Processes : ExpireLocal(p)

\* As in AssetCache: handlers run to their end, every copy has a limited life.
Fairness ==
  /\ \A h \in Handlers : WF_all(Continue(h))
  /\ WF_all(ExpireRedis)
  /\ \A p \in Processes : WF_all(ExpireLocal(p))

Spec == Init /\ [][Next]_all /\ Fairness

\* Every part keeps its types.
TypeOK == AC!TypeOK /\ LO!TypeOK /\ VR!TypeOK

\* Whatever is cached of an asset catches up with its last write and stays so.
StaleFades == AC!StaleFades

\* The parents of a facility's locations form no cycle, whatever overlaps the one
\* update that moves a location.
LocationsFormTree == LO!LocationsFormTree

\* The stored status of an agreement moves along its documented lifecycle only.
SlaLifecycle == VR!SlaLifecycle
=============================================================================
