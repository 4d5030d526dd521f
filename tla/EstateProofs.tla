---------------------------- MODULE EstateProofs ----------------------------
(***************************************************************************)
(* Proofs about the tree of locations, for every set of locations and      *)
(* request handlers.                                                       *)
(***************************************************************************)
EXTENDS MCEstate, TLAPS

-----------------------------------------------------------------------------
(***************************************************************************)
(* Locations.  The one reparenting in flight knows a set of locations,     *)
(* without the one to be moved, that holds the new parent and everything   *)
(* above it as far as the walk has come; writes of the others do not touch *)
(* parents, and a new location is not in the set.                          *)
(***************************************************************************)
Parent(l) == place[l].parent

Climbed(e) ==
  \E W \in SUBSET LO!There :
    /\ edit[e].parent \in W /\ edit[e].id \notin W
    /\ edit[e].step = "walk" => /\ edit[e].current \in W
                                /\ \A w \in W \ {edit[e].current} : Parent(w) \in W
    /\ edit[e].step = "update" => \A w \in W : Parent(w) \in W \cup {None}

LocationInv ==
  /\ LO!TypeOK
  /\ \A l \in Places : Parent(l) \in LO!There \cup {None}
  /\ \A e \in Handlers : edit[e].step # "idle" => edit[e].id \in LO!There
  /\ \A e \in Handlers : edit[e].step = "walk" => edit[e].parent # None
  /\ \A e \in Handlers : edit[e].step \in {"idle", "delete"} => edit[e].parent = None
  /\ \A e \in LO!Reparenting : Climbed(e)
  /\ \A e, f \in LO!Reparenting : e = f
  /\ LO!LocationsFormTree

\* What LocationInv says does not depend on the status of a location, nor on an
\* edit that has ended: an edit that reparents nothing may change in any way.
LEMMA ParentsStay ==
  ASSUME LocationInv, LO!TypeOK',
         LO!There' = LO!There, \A l \in Places : Parent(l)' = Parent(l),
         NEW e \in Handlers, \A f \in Handlers \ {e} : edit'[f] = edit[f],
         edit'[e].step # "idle" => edit'[e].id \in LO!There,
         edit'[e].step = "walk" => edit'[e].parent # None,
         edit'[e].step \in {"idle", "delete"} => edit'[e].parent = None,
         edit'[e].parent # None => Climbed(e)',
         \A f, g \in LO!Reparenting' : f = g
  PROVE  LocationInv'
<1>1. ASSUME NEW f \in LO!Reparenting', f # e
      PROVE  Climbed(f)'
  <2>1. f \in LO!Reparenting /\ edit'[f] = edit[f]
    BY <1>1 DEF LO!Reparenting
  <2>2. PICK W \in SUBSET LO!There :
          /\ edit[f].parent \in W /\ edit[f].id \notin W
          /\ edit[f].step = "walk" => /\ edit[f].current \in W
                                      /\ \A w \in W \ {edit[f].current} : Parent(w) \in W
          /\ edit[f].step = "update" => \A w \in W : Parent(w) \in W \cup {None}
    BY <2>1 DEF LocationInv, Climbed
  <2>3. \A w \in W : w \in Places
    BY DEF LO!There
  <2>. QED BY <2>1, <2>2, <2>3 DEF Climbed
<1>2. LO!LocationsFormTree'
  <2>1. ASSUME NEW S \in SUBSET LO!There, S # {}
        PROVE  \E l \in S : Parent(l)' \notin S
    <3>1. PICK l \in S : Parent(l) \notin S
      BY <2>1 DEF LocationInv, LO!LocationsFormTree, Parent
    <3>2. l \in Places
      BY DEF LO!There
    <3>. QED BY <3>1, <3>2
  <2>2. \A S \in (SUBSET LO!There) \ {{}} : \E l \in S : place'[l].parent \notin S
    BY <2>1 DEF Parent
  <2>. QED BY <2>2 DEF LO!LocationsFormTree
<1>3. \A f \in LO!Reparenting' : Climbed(f)'
  BY <1>1 DEF LO!Reparenting
<1>4. \A f \in Handlers : edit'[f].step # "idle" => edit'[f].id \in LO!There'
  BY DEF LocationInv
<1>. QED BY <1>2, <1>3, <1>4 DEF LocationInv

\* An edit that ends leaves nothing behind.
LEMMA EditEnds ==
  ASSUME LO!TypeOK, NEW e \in Handlers, LO!End(e)
  PROVE  /\ edit' \in [Handlers -> LO!Edit] /\ edit'[e].step = "idle" /\ edit'[e].parent = None
         /\ \A f \in Handlers \ {e} : edit'[f] = edit[f]
         /\ LO!Reparenting' = LO!Reparenting \ {e}
<1>1. LO!Idle \in LO!Edit /\ LO!Idle.step = "idle" /\ LO!Idle.parent = None
  BY DEF LO!Idle, LO!Edit
<1>2. /\ edit' \in [Handlers -> LO!Edit] /\ edit'[e] = LO!Idle
      /\ \A f \in Handlers \ {e} : edit'[f] = edit[f]
  BY <1>1 DEF LO!TypeOK, LO!End
<1>. QED BY <1>1, <1>2 DEF LO!Reparenting

LEMMA LocationStepKeeps ==
  ASSUME LocationInv, LO!Next, \A e, f \in LO!Reparenting' : e = f
  PROVE  LocationInv'
<1>0. /\ LO!TypeOK /\ place \in [Places -> LO!Location] /\ edit \in [Handlers -> LO!Edit]
      /\ LO!There \subseteq Places
  BY DEF LocationInv, LO!TypeOK, LO!There
\* An edit changes and no location does.
<1>1. ASSUME NEW e \in Handlers, NEW k \in LO!Edit, UNCHANGED place,
             edit' = [edit EXCEPT ![e] = k],
             k.step # "idle" => k.id \in LO!There,
             k.step = "walk" => k.parent # None,
             k.step \in {"idle", "delete"} => k.parent = None,
             k.parent # None =>
               \E W \in SUBSET LO!There :
                 /\ k.parent \in W /\ k.id \notin W
                 /\ k.step = "walk" => /\ k.current \in W
                                       /\ \A w \in W \ {k.current} : Parent(w) \in W
                 /\ k.step = "update" => \A w \in W : Parent(w) \in W \cup {None}
      PROVE  LocationInv'
  <2>1. /\ edit'[e] = k /\ edit' \in [Handlers -> LO!Edit]
        /\ \A f \in Handlers \ {e} : edit'[f] = edit[f]
    BY <1>0, <1>1
  <2>2. /\ LO!TypeOK' /\ LO!There' = LO!There /\ \A l \in Places : Parent(l)' = Parent(l)
    BY <1>0, <1>1, <2>1 DEF LO!TypeOK, LO!There, Parent
  <2>3. k.parent # None => Climbed(e)'
    BY <1>1, <2>1, <2>2 DEF Climbed, Parent
  <2>. QED BY <1>1, <2>1, <2>2, <2>3, ParentsStay
<1>2. ASSUME NEW e \in Handlers, LO!End(e), UNCHANGED place
      PROVE  LocationInv'
  <2>1. /\ edit' \in [Handlers -> LO!Edit] /\ edit'[e].step = "idle" /\ edit'[e].parent = None
        /\ \A f \in Handlers \ {e} : edit'[f] = edit[f]
    BY <1>0, <1>2, EditEnds
  <2>2. /\ LO!TypeOK' /\ LO!There' = LO!There /\ \A l \in Places : Parent(l)' = Parent(l)
    BY <1>0, <1>2, <2>1 DEF LO!TypeOK, LO!There, Parent
  <2>. QED BY <2>1, <2>2, ParentsStay
<1>3. ASSUME NEW l \in Places, NEW parent \in Places \cup {None}, NEW s \in LO!LocationStatus,
             LO!createLocation(l, parent, s)
      PROVE  LocationInv'
  <2>. DEFINE new == [there |-> TRUE, parent |-> parent, status |-> s]
  <2>1. new \in LO!Location /\ new.there /\ new.parent = parent
    BY DEF LO!Location
  <2>2. /\ l \notin LO!There /\ parent \in LO!There \cup {None} /\ UNCHANGED edit
        /\ place' = [place EXCEPT ![l] = new]
    BY <1>3 DEF LO!createLocation
  <2>. HIDE DEF new
  <2>3. /\ place'[l] = new /\ place' \in [Places -> LO!Location]
        /\ \A m \in Places \ {l} : place'[m] = place[m]
    BY <1>0, <2>1, <2>2
  <2>4. LO!There' = LO!There \cup {l} /\ LO!TypeOK' /\ LO!Reparenting' = LO!Reparenting
    BY <1>0, <2>1, <2>2, <2>3 DEF LO!There, LO!TypeOK, LO!Reparenting
  <2>5. ASSUME NEW e \in LO!Reparenting'
        PROVE  Climbed(e)'
    <3>1. PICK W \in SUBSET LO!There :
            /\ edit[e].parent \in W /\ edit[e].id \notin W
            /\ edit[e].step = "walk" => /\ edit[e].current \in W
                                        /\ \A w \in W \ {edit[e].current} : Parent(w) \in W
            /\ edit[e].step = "update" => \A w \in W : Parent(w) \in W \cup {None}
      BY <2>4 DEF LocationInv, Climbed
    <3>2. \A w \in W : Parent(w)' = Parent(w)
      BY <1>0, <2>2, <2>3 DEF Parent
    <3>. QED BY <2>2, <2>4, <3>1, <3>2 DEF Climbed
  <2>6. ASSUME NEW S \in SUBSET (LO!There \cup {l}), S # {}
        PROVE  \E m \in S : place'[m].parent \notin S
    <3>1. CASE S \ {l} = {}
      <4>1. l \in S /\ parent \notin S
        BY <2>2, <2>6, <3>1, EstateAssumption
      <4>. QED BY <2>1, <2>3, <4>1
    <3>2. CASE S \ {l} # {}
      <4>1. PICK m \in S \ {l} : place[m].parent \notin S \ {l}
        BY <3>2 DEF LocationInv, LO!LocationsFormTree
      <4>2. m \in Places /\ place'[m] = place[m]
        BY <1>0, <2>3
      <4>3. place[m].parent # l
        BY <2>2, <4>2, EstateAssumption DEF LocationInv, Parent
      <4>. QED BY <4>1, <4>2, <4>3
    <3>. QED BY <3>1, <3>2
  <2>7. LO!LocationsFormTree'
    BY <2>4, <2>6 DEF LO!LocationsFormTree
  <2>8. \A m \in Places : place'[m].parent \in LO!There' \cup {None}
    BY <1>0, <2>1, <2>2, <2>3, <2>4 DEF LocationInv, Parent
  <2>. QED BY <2>2, <2>4, <2>5, <2>7, <2>8 DEF LocationInv, Parent
<1>4. ASSUME NEW e \in Handlers, NEW l \in Places, NEW parent \in Places \cup {None},
             NEW s \in {{}} \cup {{t} : t \in LO!LocationStatus}, LO!updateLocation(e, l, parent, s)
      PROVE  LocationInv'
  <2>. DEFINE k == [step |-> IF parent = None THEN "update" ELSE "walk",
                    id |-> l, parent |-> parent, status |-> s, current |-> parent]
  <2>1. /\ k \in LO!Edit /\ k.step = (IF parent = None THEN "update" ELSE "walk")
        /\ k.id = l /\ k.parent = parent /\ k.current = parent
    BY DEF LO!Edit
  <2>2. /\ l \in LO!There /\ parent \in (LO!There \ {l}) \cup {None} /\ UNCHANGED place
        /\ edit' = [edit EXCEPT ![e] = k]
    BY <1>4 DEF LO!updateLocation
  <2>. HIDE DEF k
  <2>3. parent # None => {parent} \in SUBSET LO!There /\ l \notin {parent}
    BY <2>2
  <2>. QED BY <1>1, <2>1, <2>2, <2>3
<1>5. ASSUME NEW e \in Handlers, NEW l \in Places, LO!deleteLocation(e, l)
      PROVE  LocationInv'
  <2>. DEFINE k == [LO!Idle EXCEPT !.step = "delete", !.id = l]
  <2>1. k \in LO!Edit /\ k.step = "delete" /\ k.id = l /\ k.parent = None
    BY DEF LO!Edit, LO!Idle
  <2>2. l \in LO!There /\ UNCHANGED place /\ edit' = [edit EXCEPT ![e] = k]
    BY <1>5 DEF LO!deleteLocation
  <2>. HIDE DEF k
  <2>. QED BY <1>1, <2>1, <2>2
<1>6. ASSUME NEW e \in Handlers, LO!hasDescendant(e)
      PROVE  LocationInv'
  <2>. DEFINE up == place[edit[e].current].parent
  <2>0. edit[e] \in LO!Edit
    BY <1>0
  <2>1. /\ edit[e].step = "walk" /\ UNCHANGED place /\ edit[e].parent # None
        /\ e \in LO!Reparenting /\ edit[e].id \in LO!There
    BY <1>6 DEF LO!hasDescendant, LocationInv, LO!Reparenting
  <2>2. PICK W \in SUBSET LO!There :
          /\ edit[e].parent \in W /\ edit[e].id \notin W /\ edit[e].current \in W
          /\ \A w \in W \ {edit[e].current} : Parent(w) \in W
    BY <2>1 DEF LocationInv, Climbed
  <2>3. up \in LO!There \cup {None}
    BY <1>0, <2>2 DEF LocationInv, Parent
  <2>4. CASE up = edit[e].id
    <3>1. LO!End(e)
      BY <1>0, <1>6, <2>1, <2>4, EstateAssumption DEF LO!hasDescendant
    <3>. QED BY <1>2, <2>1, <3>1
  <2>5. CASE up = None /\ up # edit[e].id
    <3>. DEFINE k == [edit[e] EXCEPT !.step = "update"]
    <3>1. k \in LO!Edit /\ k.step = "update" /\ k.id = edit[e].id /\ k.parent = edit[e].parent
      BY <2>0 DEF LO!Edit
    <3>2. edit' = [edit EXCEPT ![e] = k]
      BY <1>0, <1>6, <2>5 DEF LO!hasDescendant
    <3>. HIDE DEF k
    <3>3. \A w \in W : Parent(w) \in W \cup {None}
      BY <2>2, <2>5 DEF Parent
    <3>. QED BY <1>1, <2>1, <2>2, <3>1, <3>2, <3>3
  <2>6. CASE up # None /\ up # edit[e].id
    <3>. DEFINE k == [edit[e] EXCEPT !.current = up]
    <3>1. up \in LO!There
      BY <2>3, <2>6
    <3>2. /\ k \in LO!Edit /\ k.step = "walk" /\ k.id = edit[e].id /\ k.parent = edit[e].parent
          /\ k.current = up
      BY <1>0, <2>0, <2>1, <3>1 DEF LO!Edit
    <3>3. edit' = [edit EXCEPT ![e] = k]
      BY <1>0, <1>6, <2>6 DEF LO!hasDescendant
    <3>. HIDE DEF k
    <3>4. /\ W \cup {up} \in SUBSET LO!There /\ edit[e].id \notin W \cup {up}
          /\ edit[e].parent \in W \cup {up}
          /\ \A w \in (W \cup {up}) \ {up} : Parent(w) \in W \cup {up}
      BY <2>2, <2>6, <3>1 DEF Parent
    <3>5. \E V \in SUBSET LO!There :
            /\ k.parent \in V /\ k.id \notin V
            /\ k.step = "walk" => k.current \in V /\ \A w \in V \ {k.current} : Parent(w) \in V
            /\ k.step = "update" => \A w \in V : Parent(w) \in V \cup {None}
      <4>. DEFINE V == W \cup {up}
      <4>1. /\ V \in SUBSET LO!There /\ k.parent \in V /\ k.id \notin V /\ k.step = "walk"
            /\ k.current \in V /\ \A w \in V \ {k.current} : Parent(w) \in V
        BY <3>2, <3>4
      <4>. HIDE DEF V
      <4>. QED BY <4>1
    <3>. QED BY <1>1, <2>1, <3>2, <3>3, <3>5
  <2>. QED BY <2>4, <2>5, <2>6
<1>7. ASSUME NEW e \in Handlers, LO!Delete(e)
      PROVE  LocationInv'
  <2>. DEFINE l == edit[e].id
              new == [place[l] EXCEPT !.status = "inactive"]
  <2>1. l \in LO!There /\ LO!End(e) /\ place' = [place EXCEPT ![l].status = "inactive"]
    BY <1>7 DEF LO!Delete, LocationInv
  <2>2. place[l] \in LO!Location
    BY <1>0, <2>1
  <2>3. new \in LO!Location /\ new.there = place[l].there /\ new.parent = place[l].parent
    BY <2>2 DEF LO!Location, LO!LocationStatus
  <2>4. place' = [place EXCEPT ![l] = new]
    BY <1>0, <2>1
  <2>. HIDE DEF new, l
  <2>5. /\ place' \in [Places -> LO!Location]
        /\ \A m \in Places : place'[m].there = place[m].there /\ place'[m].parent = place[m].parent
    BY <1>0, <2>1, <2>3, <2>4
  <2>6. /\ edit' \in [Handlers -> LO!Edit] /\ edit'[e].step = "idle" /\ edit'[e].parent = None
        /\ \A f \in Handlers \ {e} : edit'[f] = edit[f]
    BY <1>0, <2>1, EditEnds
  <2>7. LO!TypeOK' /\ LO!There' = LO!There /\ \A m \in Places : Parent(m)' = Parent(m)
    BY <2>5, <2>6 DEF LO!TypeOK, LO!There, Parent
  <2>. QED BY <2>6, <2>7, ParentsStay
<1>8. ASSUME NEW e \in Handlers, LO!Update(e)
      PROVE  LocationInv'
  <2>. DEFINE l == edit[e].id
              p == edit[e].parent
              status == IF edit[e].status = {} THEN place[l].status
                        ELSE CHOOSE s \in edit[e].status : TRUE
              parent == IF p = None THEN place[l].parent ELSE p
              new == [place[l] EXCEPT !.parent = parent, !.status = status]
  <2>1. /\ edit[e].step = "update" /\ l \in LO!There /\ LO!End(e)
        /\ place' = [place EXCEPT ![l] = new]
    BY <1>8 DEF LO!Update, LocationInv
  <2>2. place[l] \in LO!Location /\ edit[e] \in LO!Edit /\ p \in Places \cup {None} /\ l \in Places
    BY <1>0, <2>1 DEF LO!Edit
  <2>3. status \in LO!LocationStatus
    BY <2>2 DEF LO!Edit, LO!Location
  <2>4. parent \in Places \cup {None}
    BY <2>2 DEF LO!Location
  <2>. HIDE DEF status
  <2>6. new \in LO!Location /\ new.there = place[l].there /\ new.parent = parent
    BY <2>2, <2>3, <2>4 DEF LO!Location
  <2>. HIDE DEF new, l
  <2>7. /\ place' \in [Places -> LO!Location] /\ place'[l].parent = parent
        /\ \A m \in Places : place'[m].there = place[m].there
        /\ \A m \in Places \ {l} : place'[m].parent = place[m].parent
    BY <1>0, <2>1, <2>2, <2>6
  <2>8. /\ edit' \in [Handlers -> LO!Edit] /\ edit'[e].step = "idle" /\ edit'[e].parent = None
        /\ \A f \in Handlers \ {e} : edit'[f] = edit[f]
        /\ LO!Reparenting' = LO!Reparenting \ {e}
    BY <1>0, <2>1, EditEnds
  <2>9. LO!TypeOK' /\ LO!There' = LO!There
    BY <2>7, <2>8 DEF LO!TypeOK, LO!There
  <2>10. CASE p = None
    <3>1. \A m \in Places : Parent(m)' = Parent(m)
      BY <2>7, <2>10 DEF Parent
    <3>. QED BY <2>8, <2>9, <3>1, ParentsStay
  <2>11. CASE p # None
    <3>1. e \in LO!Reparenting /\ LO!Reparenting' = {}
      BY <2>8, <2>11 DEF LO!Reparenting, LocationInv
    <3>2. PICK W \in SUBSET LO!There :
            p \in W /\ l \notin W /\ \A w \in W : Parent(w) \in W \cup {None}
      BY <2>1, <3>1 DEF LocationInv, Climbed, l
    <3>3. ASSUME NEW S \in SUBSET LO!There, S # {}, \A m \in S : place'[m].parent \in S
          PROVE  FALSE
      <4>1. CASE l \notin S
        <5>1. PICK m \in S : place[m].parent \notin S
          BY <3>3 DEF LocationInv, LO!LocationsFormTree
        <5>. QED BY <1>0, <2>7, <3>3, <4>1, <5>1
      <4>2. CASE l \in S
        <5>1. p \in S \cap W
          BY <2>7, <2>11, <3>2, <3>3, <4>2
        <5>2. PICK m \in S \cap W : place[m].parent \notin S \cap W
          BY <5>1 DEF LocationInv, LO!LocationsFormTree
        <5>3. place'[m].parent = place[m].parent /\ place[m].parent \in W \cup {None}
          BY <1>0, <2>7, <3>2, <5>2 DEF Parent
        <5>4. place[m].parent \in S /\ None \notin S
          BY <1>0, <3>3, <5>3, EstateAssumption
        <5>. QED BY <5>2, <5>3, <5>4
      <4>. QED BY <4>1, <4>2
    <3>4. LO!LocationsFormTree'
      BY <2>9, <3>3 DEF LO!LocationsFormTree
    <3>5. \A m \in Places : place'[m].parent \in LO!There \cup {None}
      BY <2>7, <2>11, <3>2 DEF LocationInv, Parent
    <3>6. \A f \in Handlers :
            /\ edit'[f].step # "idle" => edit'[f].id \in LO!There
            /\ edit'[f].step = "walk" => edit'[f].parent # None
            /\ edit'[f].step \in {"idle", "delete"} => edit'[f].parent = None
      BY <2>8 DEF LocationInv
    <3>. QED BY <2>9, <3>1, <3>4, <3>5, <3>6 DEF LocationInv, Parent
  <2>. QED BY <2>10, <2>11
<1>. QED BY <1>3, <1>4, <1>5, <1>6, <1>7, <1>8 DEF LO!Next

\* The locations of a facility form a forest for ever, although creations,
\* archivings and plain updates overlap the walk of an update that names a parent,
\* as long as such updates come one at a time (LocationService.updateLocation).
THEOREM LocationsStayTree == Spec => []LocationsFormTree
<1>1. Init => LocationInv
  <2>. SUFFICES ASSUME LO!Init PROVE LocationInv
    BY DEF Init
  <2>1. /\ LO!Absent \in LO!Location /\ ~LO!Absent.there /\ LO!Absent.parent = None
        /\ LO!Idle \in LO!Edit /\ LO!Idle.step = "idle" /\ LO!Idle.parent = None
    BY DEF LO!Absent, LO!Location, LO!LocationStatus, LO!Idle, LO!Edit
  <2>2. LO!TypeOK /\ LO!There = {} /\ LO!Reparenting = {}
    BY <2>1 DEF LO!Init, LO!TypeOK, LO!There, LO!Reparenting
  <2>. QED BY <2>1, <2>2 DEF LO!Init, LocationInv, Parent, LO!LocationsFormTree
<1>2. LocationInv /\ [Next]_all => LocationInv'
  <2>. SUFFICES ASSUME LocationInv, [Next]_all PROVE LocationInv'
    OBVIOUS
  <2>1. CASE LocationStep
    BY <2>1, LocationStepKeeps DEF LocationStep
  <2>2. CASE UNCHANGED placeVars
    BY <2>2 DEF placeVars, LocationInv, LO!TypeOK, LO!There, LO!Reparenting, Parent, Climbed,
                LO!LocationsFormTree
  <2>. QED BY <2>1, <2>2 DEF Next, VendorStep, Begin, Continue, ExpireRedis, ExpireLocal, InAssets, all
<1>3. LocationInv => LocationsFormTree
  BY DEF LocationInv, LocationsFormTree
<1>. QED BY <1>1, <1>2, <1>3, PTL DEF Spec

=============================================================================
