-------------------------- MODULE VendorRelations --------------------------
(***************************************************************************)
(* One organization and one vendor: their relationship, the association of *)
(* the vendor with one facility, and one service-level agreement.  Every   *)
(* handler checks what it read and then writes without a condition.        *)
(***************************************************************************)
CONSTANT Agents  \* request handlers that may be in flight

VARIABLES relation,    \* status of the relationship, "none" without a row
          associated,  \* the facility has the vendor
          agreement,   \* status of the agreement, "none" without a row
          agent        \* the handlers in flight

vars == <<relation, associated, agreement, agent>>

RelationshipStatus == {"pending", "active", "suspended", "inactive", "removed"}
SlaStatus == {"proposed", "accepted", "rejected", "active", "terminated"}
Agent == [step : {"idle", "request", "reopen", "changeStatus", "respond", "associate", "sla"},
          status : {"none"} \cup RelationshipStatus \cup SlaStatus]
Idle == [step |-> "idle", status |-> "none"]

TypeOK ==
  /\ relation \in RelationshipStatus \cup {"none"}
  /\ associated \in BOOLEAN
  /\ agreement \in SlaStatus \cup {"none"}
  /\ agent \in [Agents -> Agent]

Init ==
  /\ relation = "none" /\ agreement = "none"
  /\ associated = FALSE
  /\ agent = [a \in Agents |-> Idle]

Begin(a, step, status) ==
  /\ agent[a] = Idle
  /\ agent' = [agent EXCEPT ![a] = [step |-> step, status |-> status]]
  /\ UNCHANGED <<relation, associated, agreement>>
At(a, step) == agent[a].step = step
End(a) == agent' = [agent EXCEPT ![a] = Idle]

-----------------------------------------------------------------------------
\* The organization asks: a new row, or a removed one opened again.  A unique
\* index stops the second of two inserts.
requestRelationship(a) ==
  \/ relation = "none" /\ Begin(a, "request", "pending")
  \/ relation = "removed" /\ Begin(a, "reopen", "pending")

\* The organization may set every status but active.
changeStatus(a, status) == relation # "none" /\ status # "active" /\ Begin(a, "changeStatus", status)

\* The vendor may set every status but pending.
respondToRelationship(a, status) == relation # "none" /\ status # "pending" /\ Begin(a, "respond", status)

WriteRelation(a) ==
  /\ At(a, "request") \/ At(a, "reopen") \/ At(a, "changeStatus") \/ At(a, "respond")
  /\ relation' = IF At(a, "request") /\ relation # "none" THEN relation ELSE agent[a].status
  /\ End(a)
  /\ UNCHANGED <<associated, agreement>>

associate(a) == relation = "active" /\ Begin(a, "associate", "none")

\* A unique index makes the second insert a conflict.
Associate(a) ==
  /\ At(a, "associate")
  /\ associated' = TRUE
  /\ End(a)
  /\ UNCHANGED <<relation, agreement>>

removeAssociation ==
  /\ associated
  /\ associated' = FALSE
  /\ UNCHANGED <<relation, agreement, agent>>

-----------------------------------------------------------------------------
\* Made from an application of the vendor; the relationship is not looked at.
create ==
  /\ agreement = "none"
  /\ agreement' = "proposed"
  /\ UNCHANGED <<relation, associated, agent>>

allowed ==
  [none |-> {}, proposed |-> {"accepted", "rejected"}, accepted |-> {"active"},
   active |-> {"terminated"}, rejected |-> {}, terminated |-> {}]

\* Either party may take any of the steps, the one that proposed the agreement too.
updateStatus(a, status) == status \in allowed[agreement] /\ Begin(a, "sla", status)

\* Mutant: an agreement is written with the status of the application it is from.
WriteAwarded(a) ==
  /\ At(a, "sla")
  /\ agreement' = "awarded"
  /\ End(a)
  /\ UNCHANGED <<relation, associated>>

WriteStatus(a) ==
  /\ At(a, "sla")
  /\ agreement' = agent[a].status
  /\ End(a)
  /\ UNCHANGED <<relation, associated>>

Handle(a) ==
  \/ requestRelationship(a)
  \/ \E s \in RelationshipStatus : changeStatus(a, s) \/ respondToRelationship(a, s)
  \/ associate(a)
  \/ \E s \in SlaStatus : updateStatus(a, s)
  \/ WriteRelation(a) \/ Associate(a) \/ WriteStatus(a)

Next == (\E a \in Agents : Handle(a)) \/ removeAssociation \/ create

Spec == Init /\ [][Next]_vars

-----------------------------------------------------------------------------
\* "draft -> proposed -> accepted -> active -> terminated (or rejected before
\* acceptance)": the stored status of an agreement moves along this line only.
SlaLifecycle ==
  [][agreement' # agreement
       => <<agreement, agreement'>> \in {<<"none", "proposed">>, <<"proposed", "accepted">>,
                                        <<"proposed", "rejected">>, <<"accepted", "active">>,
                                        <<"active", "terminated">>}]_vars
=============================================================================
