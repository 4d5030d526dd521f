---------------------------- MODULE Registration ----------------------------
(***************************************************************************)
(* Registration of organizations and vendors and sign-in by OAuth.  A      *)
(* registration writes the tenant, the user, and for an organization its   *)
(* head office (facility, location) and the user's facility, one after the *)
(* other without a transaction; User.email and the provider ids are unique *)
(* indexes.  An OAuth callback first consumes the state it started with.   *)
(***************************************************************************)
EXTENDS Naturals

CONSTANTS Emails,      \* e-mail addresses
          Identities,  \* accounts at the OAuth provider
          Visits,      \* requests; each registers or calls back once
          States       \* OAuth states that may be started

VARIABLES tenant,     \* documents each visit has created for its tenant
          account,    \* the User of each address
          visit,      \* the requests
          state,      \* states saved in Redis
          callbacks,  \* callbacks let through, by state
          signedIn    \* visits that got a session, with the address signed in to

vars == <<tenant, account, visit, state, callbacks, signedIn>>

Tenant == {"organization", "vendor", "facility", "location"}
\* by: the visit that created the user; office: the visit whose facility it has.
Account == [by : SUBSET (Visits \cup {"earlier"}), office : SUBSET Visits, linked : SUBSET Identities]
Visit == [kind : {"none", "organization", "vendor", "oauthSignup", "oauthLogin"},
          step : {"idle", "callback", "tenant", "user", "facility", "location", "assign",
                  "lookup", "link", "session", "done"},
          email : Emails,
          identity : SUBSET Identities]

AnyEmail == CHOOSE e \in Emails : TRUE
NoAccount == [by |-> {}, office |-> {}, linked |-> {}]
OldAccount == [NoAccount EXCEPT !.by = {"earlier"}]

TypeOK ==
  /\ tenant \in [Visits -> SUBSET Tenant]
  /\ account \in [Emails -> Account]
  /\ visit \in [Visits -> Visit]
  /\ state \in SUBSET States
  /\ callbacks \in [States -> Nat]
  /\ signedIn \in SUBSET (Visits \X Emails)

Init ==
  /\ tenant = [v \in Visits |-> {}]
  /\ account \in [Emails -> {NoAccount, OldAccount}]
  /\ visit = [v \in Visits |-> [kind |-> "none", step |-> "idle", email |-> AnyEmail,
                                identity |-> {}]]
  /\ state = {}
  /\ callbacks = [s \in States |-> 0]
  /\ signedIn = {}

-----------------------------------------------------------------------------
Go(v, step) == visit' = [visit EXCEPT ![v].step = step]
Exists(e) == account[e].by # {}
Make(v, document, next) ==
  /\ tenant' = [tenant EXCEPT ![v] = @ \cup {document}]
  /\ Go(v, next)
  /\ UNCHANGED <<account, state, callbacks, signedIn>>

\* registerOrganization, registerVendor: the address is free when looked up.
Register(v, kind, e) ==
  /\ visit[v].step = "idle"
  /\ ~Exists(e)
  /\ visit' = [visit EXCEPT ![v] = [kind |-> kind, step |-> "tenant", email |-> e,
                                    identity |-> {}]]
  /\ UNCHANGED <<tenant, account, state, callbacks, signedIn>>

\* An organization of the address, perhaps one whose registration went no further.
HasOrganization(e) == \E v \in Visits : visit[v].email = e /\ "organization" \in tenant[v]

\* createOrganization, createVendor.  The e-mail of Organization is unique, the one
\* of Vendor is not.
CreateTenant(v) ==
  /\ visit[v].step = "tenant"
  /\ \/ visit[v].kind # "organization" /\ Make(v, "vendor", "user")
     \/ /\ visit[v].kind # "vendor" /\ ~HasOrganization(visit[v].email)
        /\ Make(v, "organization", "user")
     \/ /\ visit[v].kind # "vendor" /\ HasOrganization(visit[v].email)
        /\ Go(v, "done")
        /\ UNCHANGED <<tenant, account, state, callbacks, signedIn>>

\* Mutant: a second user of the address is allowed.
CreatableAnyway(v) == visit[v].kind \in {"organization", "vendor"}

\* User requires a password, which an OAuth signup does not have, and an address
\* of its own; otherwise create throws and the tenant stays behind.
Creatable(v) == visit[v].kind \in {"organization", "vendor"} /\ ~Exists(visit[v].email)

CreateUser(v) ==
  /\ visit[v].step = "user"
  /\ IF Creatable(v)
     THEN /\ account' = [account EXCEPT ![visit[v].email] = [NoAccount EXCEPT !.by = {v}]]
          /\ Go(v, IF visit[v].kind = "organization" THEN "facility" ELSE "session")
     ELSE UNCHANGED account /\ Go(v, "done")
  /\ UNCHANGED <<tenant, state, callbacks, signedIn>>

\* provisionHeadOffice: facility, location, then the user's facility.
CreateFacility(v) == visit[v].step = "facility" /\ Make(v, "facility", "location")
CreateLocation(v) == visit[v].step = "location" /\ Make(v, "location", "assign")

assignFacility(v) ==
  /\ visit[v].step = "assign"
  /\ account' = [account EXCEPT ![visit[v].email].office = {v}]
  /\ Go(v, "session")
  /\ UNCHANGED <<tenant, state, callbacks, signedIn>>

createAuthenticatedSession(v) ==
  /\ visit[v].step = "session"
  /\ signedIn' = signedIn \cup {<<v, visit[v].email>>}
  /\ Go(v, "done")
  /\ UNCHANGED <<tenant, account, state, callbacks>>

\* The request throws or its process dies.
Fail(v) ==
  /\ visit[v].step \notin {"idle", "done"}
  /\ Go(v, "done")
  /\ UNCHANGED <<tenant, account, state, callbacks, signedIn>>

-----------------------------------------------------------------------------
\* startOAuth saves the state; it lives ten minutes.
startOAuth(s) ==
  /\ callbacks[s] = 0
  /\ state' = state \cup {s}
  /\ UNCHANGED <<tenant, account, visit, callbacks, signedIn>>

StateExpires(s) ==
  /\ s \in state
  /\ state' = state \ {s}
  /\ UNCHANGED <<tenant, account, visit, callbacks, signedIn>>

\* consumeOAuthState deletes the state in one command if it is still there.
consumeOAuthState(s) == state' = state \ {s}

\* oauthCallback of a started state: a login goes on to the linked user, a signup
\* to the registration if the address is free.
oauthCallback(v, s, kind, e, id) ==
  /\ visit[v].step = "idle"
  /\ s \in state
  /\ consumeOAuthState(s)
  /\ callbacks' = [callbacks EXCEPT ![s] = @ + 1]
  /\ visit' = [visit EXCEPT ![v] = [kind |-> kind, email |-> e, identity |-> {id},
                                    step |-> IF kind = "oauthLogin" THEN "lookup"
                                             ELSE IF Exists(e) THEN "done" ELSE "tenant"]]
  /\ UNCHANGED <<tenant, account, signedIn>>

LinkedTo(id) == {e \in Emails : id \in account[e].linked}

\* findAndLinkProvider on the documents read: the user of the address, not linked
\* to another identity, and nobody else linked to this one.
MayLink(e, id) ==
  /\ Exists(e)
  /\ account[e].linked \subseteq {id}
  /\ LinkedTo(id) \subseteq {e}

LookupProvider(v) ==
  /\ visit[v].step = "lookup"
  /\ \E id \in visit[v].identity, e \in {visit[v].email} :
       Go(v, IF ~MayLink(e, id) THEN "done"
             ELSE IF id \in account[e].linked THEN "session" ELSE "link")
  /\ UNCHANGED <<tenant, account, state, callbacks, signedIn>>

\* Mutant: without the unique index the link is written to a second account.
UniqueNowhere(e, id) == TRUE

\* The unique index on the provider id, against a callback that linked it meanwhile.
UniqueIdentity(e, id) == LinkedTo(id) \subseteq {e}

LinkProvider(v) ==
  /\ visit[v].step = "link"
  /\ \E id \in visit[v].identity, e \in {visit[v].email} :
       IF UniqueIdentity(e, id)
       THEN account' = [account EXCEPT ![e].linked = {id}] /\ Go(v, "session")
       ELSE UNCHANGED account /\ Go(v, "done")
  /\ UNCHANGED <<tenant, state, callbacks, signedIn>>

Serve(v) ==
  \/ \E e \in Emails : \/ \E kind \in {"organization", "vendor"} : Register(v, kind, e)
                       \/ \E s \in States, id \in Identities, kind \in {"oauthLogin", "oauthSignup"} :
                            oauthCallback(v, s, kind, e, id)
  \/ CreateTenant(v) \/ CreateUser(v) \/ CreateFacility(v) \/ CreateLocation(v) \/ assignFacility(v)
  \/ createAuthenticatedSession(v) \/ LookupProvider(v) \/ LinkProvider(v) \/ Fail(v)

Next ==
  \/ \E s \in States : startOAuth(s) \/ StateExpires(s)
  \/ \E v \in Visits : Serve(v)

Spec == Init /\ [][Next]_vars

-----------------------------------------------------------------------------
\* Whoever registered an organization and was signed in administers that
\* organization, works at its head office, and is the only one registered with the
\* address, although competing registrations leave tenants behind.
RegistrationIsWhole ==
  \A v \in Visits, e \in Emails :
    visit[v].kind = "organization" /\ <<v, e>> \in signedIn
      => /\ account[e].by = {v} /\ account[e].office = {v}
         /\ tenant[v] = {"organization", "facility", "location"}

\* However callbacks overlap: an identity at the provider is linked to one account
\* at most, an account signed in to is linked, and a state lets one callback through.
ProviderLinkedOnce ==
  /\ \A id \in Identities : \A e, f \in LinkedTo(id) : e = f
  /\ \A v \in Visits, e \in Emails :
       visit[v].kind = "oauthLogin" /\ <<v, e>> \in signedIn => account[e].linked # {}
  /\ \A s \in States : callbacks[s] <= 1
=============================================================================
