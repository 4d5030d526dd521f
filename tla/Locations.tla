----------------------------- MODULE Locations -----------------------------
(***************************************************************************)
(* The locations of one facility, a tree by their parents.  Rows are never *)
(* removed, so a parent found once stays; names are unique per facility    *)
(* and left out.  An update walks up from the new parent, one query per    *)
(* step, before it writes.                                                 *)
(***************************************************************************)
CONSTANTS Places,   \* ids of locations
          Editors,  \* request handlers that may be in flight
          None      \* no location

VARIABLES place,  \* the rows
          edit    \* the handlers in flight

vars == <<place, edit>>

LocationStatus == {"active", "inactive"}
Location == [there : BOOLEAN, parent : Places \cup {None}, status : LocationStatus]
Absent == [there |-> FALSE, parent |-> None, status |-> "active"]
\* status is {} when the request does not name one; current is where the walk is.
Edit == [step : {"idle", "walk", "update", "delete"},
         id : Places \cup {None},
         parent : Places \cup {None},
         status : {{}} \cup {{s} : s \in LocationStatus},
         current : Places \cup {None}]
Idle == [step |-> "idle", id |-> None, parent |-> None, status |-> {}, current |-> None]

TypeOK == place \in [Places -> Location] /\ edit \in [Editors -> Edit]

Init == place = [l \in Places |-> Absent] /\ edit = [e \in Editors |-> Idle]

There == {l \in Places : place[l].there}
End(e) == edit' = [edit EXCEPT ![e] = Idle]

-----------------------------------------------------------------------------
\* The parent, if any, is a location of the facility, whatever its status.
createLocation(l, parent, status) ==
  /\ l \notin There
  /\ parent \in There \cup {None}
  /\ place' = [place EXCEPT ![l] = [there |-> TRUE, parent |-> parent, status |-> status]]
  /\ UNCHANGED edit

\* Only a request that names a parent walks; one that clears it changes nothing,
\* since an undefined field is not written.
updateLocation(e, l, parent, status) ==
  /\ edit[e] = Idle
  /\ l \in There
  /\ parent \in (There \ {l}) \cup {None}
  /\ edit' = [edit EXCEPT ![e] = [step |-> IF parent = None THEN "update" ELSE "walk",
                                  id |-> l, parent |-> parent, status |-> status,
                                  current |-> parent]]
  /\ UNCHANGED place

\* Mutant: only the new parent's own parent is looked at.
hasDescendantDirect(e) ==
  LET up == place[edit[e].current].parent IN
  /\ edit[e].step = "walk"
  /\ IF up = edit[e].id THEN End(e) ELSE edit' = [edit EXCEPT ![e].step = "update"]
  /\ UNCHANGED place

\* One query of the walk: refused on meeting the location itself, done at a root.
hasDescendant(e) ==
  LET up == place[edit[e].current].parent IN
  /\ edit[e].step = "walk"
  /\ CASE up = edit[e].id -> End(e)
       [] up = None -> edit' = [edit EXCEPT ![e].step = "update"]
       [] OTHER -> edit' = [edit EXCEPT ![e].current = up]
  /\ UNCHANGED place

Update(e) ==
  LET c == edit[e]
      row == place[c.id]
  IN
  /\ c.step = "update"
  /\ place' = [place EXCEPT ![c.id] =
       [row EXCEPT !.parent = IF c.parent = None THEN row.parent ELSE c.parent,
                   !.status = IF c.status = {} THEN row.status ELSE CHOOSE s \in c.status : TRUE]]
  /\ End(e)

\* Archiving is refused while a child is active; the write comes later.
deleteLocation(e, l) ==
  /\ edit[e] = Idle
  /\ l \in There
  /\ \A child \in There : place[child].parent = l => place[child].status # "active"
  /\ edit' = [edit EXCEPT ![e] = [Idle EXCEPT !.step = "delete", !.id = l]]
  /\ UNCHANGED place

Delete(e) ==
  /\ edit[e].step = "delete"
  /\ place' = [place EXCEPT ![edit[e].id].status = "inactive"]
  /\ End(e)

Next ==
  \/ \E l \in Places, parent \in Places \cup {None}, s \in LocationStatus : createLocation(l, parent, s)
  \/ \E e \in Editors :
       \/ \E l \in Places :
            \/ \E parent \in Places \cup {None}, s \in {{}} \cup {{t} : t \in LocationStatus} :
                 updateLocation(e, l, parent, s)
            \/ deleteLocation(e, l)
       \/ hasDescendant(e) \/ Update(e) \/ Delete(e)

Spec == Init /\ [][Next]_vars

-----------------------------------------------------------------------------
Reparenting == {e \in Editors : edit[e].parent # None}

\* "Location hierarchy cannot contain a cycle": no set of locations is closed
\* upwards without a root.  It needs every walk to see the tree its write meets;
\* two reparentings in flight can close a cycle, and a later walk that enters it
\* does not end.
LocationsFormTree ==
  \A S \in (SUBSET There) \ {{}} : \E l \in S : place[l].parent \notin S
=============================================================================
