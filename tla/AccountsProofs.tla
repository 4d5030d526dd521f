--------------------------- MODULE AccountsProofs ---------------------------
(***************************************************************************)
(* Proofs about registration, invitations, one-time codes and sign-in, for *)
(* every set of addresses, visits, identities, invitations, codes and      *)
(* requests, and every limit on attempts.                                  *)
(***************************************************************************)
EXTENDS MCAccounts, FiniteSetTheorems, TLAPS

-----------------------------------------------------------------------------
(***************************************************************************)
(* Registration.  What a registration has written by each of its steps;    *)
(* the user it created keeps its creator for ever, and only the creator    *)
(* writes the head office.                                                 *)
(***************************************************************************)
WrittenSoFar ==
  \A v \in Visits :
    /\ visit[v].step \in {"idle", "tenant"} => tenant[v] = {}
    /\ visit[v].step \in {"facility", "location", "assign"} => visit[v].kind = "organization"
    /\ visit[v].kind = "organization" =>
         /\ visit[v].step \notin {"lookup", "link"}
         /\ visit[v].step \in {"user", "facility"} => tenant[v] = {"organization"}
         /\ visit[v].step = "location" => tenant[v] = {"organization", "facility"}
         /\ visit[v].step \in {"assign", "session"}
              => tenant[v] = {"organization", "facility", "location"}
         /\ visit[v].step \in {"facility", "location", "assign", "session"}
              => account[visit[v].email].by = {v}
         /\ visit[v].step = "session" => account[visit[v].email].office = {v}

\* A link hangs on a user, and a callback that got as far as the session has one.
LinksHold ==
  /\ \A e \in Emails : account[e].linked # {} => R!Exists(e)
  /\ \A v \in Visits : visit[v].step = "link" => R!Exists(visit[v].email)
  /\ \A v \in Visits : visit[v].kind = "oauthLogin" /\ visit[v].step = "session"
                         => account[visit[v].email].linked # {}
  /\ \A s \in state : callbacks[s] = 0

RegistrationInv ==
  /\ R!TypeOK
  /\ WrittenSoFar
  /\ LinksHold
  /\ \A v \in Visits, e \in Emails : <<v, e>> \in signedIn => visit[v].step = "done"
  /\ R!RegistrationIsWhole
  /\ R!ProviderLinkedOnce

\* What changes when a visit goes to another step.
LEMMA VisitGoes ==
  ASSUME R!TypeOK, NEW v \in Visits, NEW step, R!Go(v, step),
         step \in {"user", "facility", "location", "assign", "link", "session", "done"}
  PROVE  /\ visit'[v].step = step /\ visit'[v].kind = visit[v].kind
         /\ visit'[v].email = visit[v].email /\ visit'[v].identity = visit[v].identity
         /\ \A w \in Visits \ {v} : visit'[w] = visit[w]
         /\ visit' \in [Visits -> R!Visit]
         /\ visit[v].email \in Emails
  BY DEF R!TypeOK, R!Go, R!Visit

\* A visit that has not begun begins as k, without an account or a document.
LEMMA VisitBegins ==
  ASSUME RegistrationInv, NEW v \in Visits, NEW k \in R!Visit,
         visit[v].step = "idle", visit' = [visit EXCEPT ![v] = k],
         k.step \in {"tenant", "lookup", "done"},
         k.kind = "organization" => k.step = "tenant",
         UNCHANGED <<tenant, account, signedIn>>,
         state' \subseteq state,
         callbacks' \in [States -> Nat],
         \A s \in States : callbacks'[s] <= 1,
         \A s \in state' : callbacks'[s] = 0
  PROVE  RegistrationInv'
<1>1. /\ visit'[v] = k
      /\ \A w \in Visits \ {v} : visit'[w] = visit[w]
      /\ visit' \in [Visits -> R!Visit]
  BY DEF RegistrationInv, R!TypeOK
<1>2. R!TypeOK'
  BY <1>1 DEF RegistrationInv, R!TypeOK
<1>3. WrittenSoFar'
  BY <1>1 DEF RegistrationInv, WrittenSoFar
<1>4. LinksHold'
  BY <1>1 DEF RegistrationInv, LinksHold, R!Exists
<1>5. \A w \in Visits, e \in Emails : <<w, e>> \in signedIn => w # v
  BY DEF RegistrationInv
<1>6. R!RegistrationIsWhole' /\ R!ProviderLinkedOnce'
  BY <1>1, <1>5 DEF RegistrationInv, R!RegistrationIsWhole, R!ProviderLinkedOnce, R!LinkedTo
<1>. QED BY <1>1, <1>2, <1>3, <1>4, <1>5, <1>6 DEF RegistrationInv

\* A visit goes on, having written at most a document of its own tenant.
LEMMA VisitMakes ==
  ASSUME RegistrationInv, NEW v \in Visits, NEW step, R!Go(v, step),
         step \in {"user", "facility", "location", "assign", "link", "session", "done"},
         visit[v].step # "idle",
         tenant' \in [Visits -> SUBSET R!Tenant],
         \A w \in Visits \ {v} : tenant'[w] = tenant[w],
         visit[v].step = "done" => step = "done" /\ tenant'[v] = tenant[v],
         WrittenSoFar', LinksHold',
         UNCHANGED <<account, state, callbacks, signedIn>>
  PROVE  RegistrationInv'
<1>1. /\ visit'[v].step = step /\ visit'[v].kind = visit[v].kind
      /\ visit'[v].email = visit[v].email
      /\ \A w \in Visits \ {v} : visit'[w] = visit[w]
      /\ visit' \in [Visits -> R!Visit]
  BY VisitGoes DEF RegistrationInv
<1>2. R!TypeOK'
  BY <1>1 DEF RegistrationInv, R!TypeOK
<1>3. \A w \in Visits, e \in Emails : <<w, e>> \in signedIn => visit'[w].step = "done"
  BY <1>1 DEF RegistrationInv
<1>4. R!RegistrationIsWhole'
  BY <1>1 DEF RegistrationInv, R!RegistrationIsWhole
<1>5. R!ProviderLinkedOnce'
  BY <1>1 DEF RegistrationInv, R!ProviderLinkedOnce, R!LinkedTo
<1>. QED BY <1>2, <1>3, <1>4, <1>5 DEF RegistrationInv

LEMMA RegistrationStep ==
  ASSUME RegistrationInv, R!Next
  PROVE  RegistrationInv'
<1>0. R!TypeOK
  BY DEF RegistrationInv
<1>1. ASSUME NEW s \in States, R!startOAuth(s) \/ R!StateExpires(s)
      PROVE  RegistrationInv'
  <2>1. /\ UNCHANGED <<tenant, account, visit, callbacks, signedIn>>
        /\ state' \in SUBSET States
        /\ \A t \in state' : callbacks[t] = 0
    BY <1>0, <1>1 DEF R!startOAuth, R!StateExpires, R!TypeOK, RegistrationInv, LinksHold
  <2>. QED BY <2>1 DEF RegistrationInv, R!TypeOK, WrittenSoFar, LinksHold, R!Exists,
                        R!RegistrationIsWhole, R!ProviderLinkedOnce, R!LinkedTo
<1>2. ASSUME NEW v \in Visits, NEW e \in Emails, NEW how \in {"organization", "vendor"},
             R!Register(v, how, e)
      PROVE  RegistrationInv'
  <2>. DEFINE k == [kind |-> how, step |-> "tenant", email |-> e, identity |-> {}]
  <2>1. k \in R!Visit /\ k.step = "tenant" /\ k.kind = how
    BY DEF R!Visit
  <2>2. /\ visit[v].step = "idle" /\ visit' = [visit EXCEPT ![v] = k]
        /\ UNCHANGED <<tenant, account, state, callbacks, signedIn>>
    BY <1>2 DEF R!Register
  <2>. HIDE DEF k
  <2>3. /\ callbacks' \in [States -> Nat] /\ \A s \in States : callbacks'[s] <= 1
        /\ \A s \in state' : callbacks'[s] = 0
    BY <2>2 DEF RegistrationInv, R!TypeOK, LinksHold, R!ProviderLinkedOnce
  <2>. QED BY <2>1, <2>2, <2>3, VisitBegins
<1>3. ASSUME NEW v \in Visits, NEW e \in Emails, NEW s \in States, NEW id \in Identities,
             NEW how \in {"oauthLogin", "oauthSignup"}, R!oauthCallback(v, s, how, e, id)
      PROVE  RegistrationInv'
  <2>. DEFINE k == [kind |-> how, email |-> e, identity |-> {id},
                    step |-> IF how = "oauthLogin" THEN "lookup"
                             ELSE IF R!Exists(e) THEN "done" ELSE "tenant"]
  <2>1. k \in R!Visit /\ k.step \in {"lookup", "done", "tenant"} /\ k.kind = how
    BY DEF R!Visit
  <2>2. /\ visit[v].step = "idle" /\ visit' = [visit EXCEPT ![v] = k]
        /\ UNCHANGED <<tenant, account, signedIn>>
        /\ s \in state /\ state' = state \ {s} /\ callbacks' = [callbacks EXCEPT ![s] = @ + 1]
    BY <1>3 DEF R!oauthCallback, R!consumeOAuthState
  <2>. HIDE DEF k
  <2>3. callbacks[s] = 0
    BY <2>2 DEF RegistrationInv, LinksHold
  <2>4. /\ callbacks' \in [States -> Nat] /\ \A t \in States : callbacks'[t] <= 1
        /\ \A t \in state' : callbacks'[t] = 0
    BY <2>2, <2>3 DEF RegistrationInv, R!TypeOK, LinksHold, R!ProviderLinkedOnce
  <2>. QED BY <2>1, <2>2, <2>4, VisitBegins
<1>4. ASSUME NEW v \in Visits, NEW document \in R!Tenant, NEW next, R!Make(v, document, next),
             \/ /\ visit[v].step = "tenant" /\ next = "user"
                /\ visit[v].kind = "organization" => document = "organization"
             \/ visit[v].step = "facility" /\ next = "location" /\ document = "facility"
             \/ visit[v].step = "location" /\ next = "assign" /\ document = "location"
      PROVE  RegistrationInv'
  <2>1. /\ R!Go(v, next) /\ UNCHANGED <<account, state, callbacks, signedIn>>
        /\ tenant' = [tenant EXCEPT ![v] = @ \cup {document}]
    BY <1>4 DEF R!Make
  <2>2. /\ tenant' \in [Visits -> SUBSET R!Tenant] /\ tenant'[v] = tenant[v] \cup {document}
        /\ \A w \in Visits \ {v} : tenant'[w] = tenant[w]
    BY <1>0, <2>1 DEF R!TypeOK
  <2>3. /\ visit'[v].step = next /\ visit'[v].kind = visit[v].kind
        /\ visit'[v].email = visit[v].email
        /\ \A w \in Visits \ {v} : visit'[w] = visit[w]
    BY <1>0, <1>4, <2>1, VisitGoes
  <2>4. WrittenSoFar'
    BY <1>4, <2>1, <2>2, <2>3 DEF RegistrationInv, WrittenSoFar
  <2>5. LinksHold'
    BY <1>4, <2>1, <2>3 DEF RegistrationInv, LinksHold, R!Exists
  <2>. QED BY <1>4, <2>1, <2>2, <2>4, <2>5, VisitMakes
<1>6. ASSUME NEW v \in Visits, R!Go(v, "done"), visit[v].step # "idle",
             UNCHANGED <<tenant, account, state, callbacks, signedIn>>
      PROVE  RegistrationInv'
  <2>1. /\ visit'[v].step = "done" /\ visit'[v].kind = visit[v].kind
        /\ visit'[v].email = visit[v].email
        /\ \A w \in Visits \ {v} : visit'[w] = visit[w]
    BY <1>0, <1>6, VisitGoes
  <2>2. WrittenSoFar' /\ LinksHold'
    BY <1>6, <2>1 DEF RegistrationInv, WrittenSoFar, LinksHold, R!Exists
  <2>. QED BY <1>0, <1>6, <2>2, VisitMakes DEF R!TypeOK
<1>5. ASSUME NEW v \in Visits, R!CreateTenant(v) \/ R!CreateFacility(v) \/ R!CreateLocation(v)
      PROVE  RegistrationInv'
  <2>1. CASE R!CreateFacility(v) \/ R!CreateLocation(v)
    BY <1>4, <2>1 DEF R!CreateFacility, R!CreateLocation, R!Tenant
  <2>2. CASE R!CreateTenant(v)
    BY <1>4, <1>6, <2>2 DEF R!CreateTenant, R!Tenant
  <2>. QED BY <1>5, <2>1, <2>2
<1>7. ASSUME NEW v \in Visits, R!CreateUser(v), R!Creatable(v)
      PROVE  RegistrationInv'
  <2>. DEFINE e == visit[v].email
              new == [R!NoAccount EXCEPT !.by = {v}]
              step == IF visit[v].kind = "organization" THEN "facility" ELSE "session"
  <2>1. /\ visit[v].step = "user" /\ visit[v].kind \in {"organization", "vendor"}
        /\ ~R!Exists(e) /\ account' = [account EXCEPT ![e] = new] /\ R!Go(v, step)
        /\ UNCHANGED <<tenant, state, callbacks, signedIn>>
    BY <1>7 DEF R!CreateUser, R!Creatable
  <2>2. new \in R!Account /\ new.by = {v} /\ new.linked = {}
    BY DEF R!Account, R!NoAccount
  <2>3. /\ visit'[v].step = step /\ visit'[v].kind = visit[v].kind /\ visit'[v].email = e
        /\ \A w \in Visits \ {v} : visit'[w] = visit[w]
        /\ visit' \in [Visits -> R!Visit] /\ e \in Emails
    BY <1>0, <2>1, VisitGoes
  <2>. HIDE DEF new, e
  <2>4. /\ account'[e] = new /\ account' \in [Emails -> R!Account]
        /\ \A f \in Emails \ {e} : account'[f] = account[f]
    BY <1>0, <2>1, <2>2, <2>3 DEF R!TypeOK
  <2>5. account[e].by = {} /\ account[e].linked = {}
    BY <2>1, <2>3 DEF R!Exists, RegistrationInv, LinksHold
  <2>5a. \A w \in Visits : visit[w].email \in Emails
    BY <1>0 DEF R!TypeOK, R!Visit
  <2>6. R!TypeOK'
    BY <1>0, <2>1, <2>3, <2>4 DEF R!TypeOK
  <2>7. WrittenSoFar'
    BY <2>1, <2>2, <2>3, <2>4, <2>5, <2>5a DEF RegistrationInv, WrittenSoFar
  <2>8. LinksHold'
    BY <2>1, <2>2, <2>3, <2>4, <2>5, <2>5a DEF RegistrationInv, LinksHold, R!Exists
  <2>9. \A w \in Visits, f \in Emails : <<w, f>> \in signedIn => w # v
    BY <2>1 DEF RegistrationInv
  <2>10. R!RegistrationIsWhole'
    BY <2>1, <2>3, <2>4, <2>5, <2>9 DEF RegistrationInv, R!RegistrationIsWhole
  <2>11. R!ProviderLinkedOnce'
    BY <2>1, <2>2, <2>3, <2>4, <2>5, <2>9 DEF RegistrationInv, R!ProviderLinkedOnce, R!LinkedTo
  <2>. QED BY <2>1, <2>3, <2>6, <2>7, <2>8, <2>9, <2>10, <2>11 DEF RegistrationInv

<1>8. ASSUME NEW v \in Visits, R!assignFacility(v)
      PROVE  RegistrationInv'
  <2>. DEFINE e == visit[v].email
              new == [account[e] EXCEPT !.office = {v}]
  <2>1. /\ visit[v].step = "assign" /\ R!Go(v, "session")
        /\ account' = [account EXCEPT ![e].office = {v}]
        /\ UNCHANGED <<tenant, state, callbacks, signedIn>>
    BY <1>8 DEF R!assignFacility
  <2>2. /\ visit'[v].step = "session" /\ visit'[v].kind = visit[v].kind /\ visit'[v].email = e
        /\ \A w \in Visits \ {v} : visit'[w] = visit[w]
        /\ visit' \in [Visits -> R!Visit] /\ e \in Emails
    BY <1>0, <2>1, VisitGoes
  <2>2a. account[e] \in R!Account
    BY <1>0, <2>2 DEF R!TypeOK
  <2>3. /\ new \in R!Account /\ new.by = account[e].by /\ new.linked = account[e].linked
        /\ new.office = {v}
    BY <2>2a DEF R!Account
  <2>4. account' = [account EXCEPT ![e] = new]
    BY <1>0, <2>1, <2>2 DEF R!TypeOK
  <2>. HIDE DEF new, e
  <2>5. /\ account'[e] = new /\ account' \in [Emails -> R!Account]
        /\ \A f \in Emails \ {e} : account'[f] = account[f]
    BY <1>0, <2>2, <2>3, <2>4 DEF R!TypeOK
  <2>6. /\ account[e].by = {v} /\ visit[v].kind = "organization"
        /\ tenant[v] = {"organization", "facility", "location"}
    BY <2>1 DEF RegistrationInv, WrittenSoFar, e
  <2>7. \A w \in Visits : visit[w].email \in Emails
    BY <1>0 DEF R!TypeOK, R!Visit
  <2>8. R!TypeOK'
    BY <1>0, <2>1, <2>2, <2>5 DEF R!TypeOK
  <2>9. WrittenSoFar'
    BY <2>1, <2>2, <2>3, <2>5, <2>6, <2>7 DEF RegistrationInv, WrittenSoFar
  <2>10. LinksHold'
    BY <2>1, <2>2, <2>3, <2>5, <2>6, <2>7 DEF RegistrationInv, LinksHold, R!Exists
  <2>11. \A w \in Visits, f \in Emails : <<w, f>> \in signedIn => w # v
    BY <2>1 DEF RegistrationInv
  <2>12. R!RegistrationIsWhole'
    BY <2>1, <2>2, <2>3, <2>5, <2>6, <2>11 DEF RegistrationInv, R!RegistrationIsWhole
  <2>13. R!ProviderLinkedOnce'
    BY <2>1, <2>2, <2>3, <2>5, <2>11 DEF RegistrationInv, R!ProviderLinkedOnce, R!LinkedTo
  <2>. QED BY <2>1, <2>2, <2>8, <2>9, <2>10, <2>11, <2>12, <2>13 DEF RegistrationInv
<1>9. ASSUME NEW v \in Visits, R!createAuthenticatedSession(v)
      PROVE  RegistrationInv'
  <2>. DEFINE e == visit[v].email
  <2>1. /\ visit[v].step = "session" /\ signedIn' = signedIn \cup {<<v, e>>} /\ R!Go(v, "done")
        /\ UNCHANGED <<tenant, account, state, callbacks>>
    BY <1>9 DEF R!createAuthenticatedSession
  <2>2. /\ visit'[v].step = "done" /\ visit'[v].kind = visit[v].kind /\ visit'[v].email = e
        /\ \A w \in Visits \ {v} : visit'[w] = visit[w]
        /\ visit' \in [Visits -> R!Visit] /\ e \in Emails
    BY <1>0, <2>1, VisitGoes
  <2>3. R!TypeOK'
    BY <1>0, <2>1, <2>2 DEF R!TypeOK
  <2>4. WrittenSoFar'
    BY <2>1, <2>2 DEF RegistrationInv, WrittenSoFar
  <2>4a. LinksHold'
    BY <2>1, <2>2 DEF RegistrationInv, LinksHold, R!Exists
  <2>5. /\ visit[v].kind = "organization" =>
             /\ account[e].by = {v} /\ account[e].office = {v}
             /\ tenant[v] = {"organization", "facility", "location"}
        /\ visit[v].kind = "oauthLogin" => account[e].linked # {}
    BY <2>1 DEF RegistrationInv, WrittenSoFar, LinksHold
  <2>. HIDE DEF e
  <2>6. \A w \in Visits, f \in Emails :
          <<w, f>> \in signedIn' => <<w, f>> \in signedIn \/ (w = v /\ f = e)
    BY <2>1
  <2>7. R!RegistrationIsWhole'
    BY <2>1, <2>2, <2>5, <2>6 DEF RegistrationInv, R!RegistrationIsWhole
  <2>8. R!ProviderLinkedOnce'
    BY <2>1, <2>2, <2>5, <2>6 DEF RegistrationInv, R!ProviderLinkedOnce, R!LinkedTo
  <2>9. \A w \in Visits, f \in Emails : <<w, f>> \in signedIn' => visit'[w].step = "done"
    BY <2>2, <2>6 DEF RegistrationInv
  <2>. QED BY <2>3, <2>4, <2>4a, <2>7, <2>8, <2>9 DEF RegistrationInv
<1>10. ASSUME NEW v \in Visits, R!LookupProvider(v)
       PROVE  RegistrationInv'
  <2>1. PICK id \in visit[v].identity :
          R!Go(v, IF ~R!MayLink(visit[v].email, id) THEN "done"
                  ELSE IF id \in account[visit[v].email].linked THEN "session" ELSE "link")
    BY <1>10 DEF R!LookupProvider
  <2>2. visit[v].step = "lookup" /\ UNCHANGED <<tenant, account, state, callbacks, signedIn>>
    BY <1>10 DEF R!LookupProvider
  <2>3. CASE ~R!MayLink(visit[v].email, id)
    BY <1>6, <2>1, <2>2, <2>3
  <2>4. CASE R!MayLink(visit[v].email, id)
    <3>. DEFINE step == IF id \in account[visit[v].email].linked THEN "session" ELSE "link"
    <3>1. R!Go(v, step)
      BY <2>1, <2>4
    <3>2. /\ visit'[v].step = step /\ visit'[v].kind = visit[v].kind
          /\ visit'[v].email = visit[v].email
          /\ \A w \in Visits \ {v} : visit'[w] = visit[w]
      BY <1>0, <3>1, VisitGoes
    <3>3. R!Exists(visit[v].email) /\ visit[v].kind # "organization"
      BY <2>2, <2>4 DEF R!MayLink, RegistrationInv, WrittenSoFar
    <3>4. WrittenSoFar'
      BY <2>2, <3>2, <3>3 DEF RegistrationInv, WrittenSoFar
    <3>5. LinksHold'
      BY <2>2, <3>2, <3>3 DEF RegistrationInv, LinksHold, R!Exists
    <3>6. step \in {"session", "link"} /\ tenant \in [Visits -> SUBSET R!Tenant]
      BY <1>0 DEF R!TypeOK
    <3>. HIDE DEF step
    <3>. QED BY <2>2, <3>1, <3>4, <3>5, <3>6, VisitMakes
  <2>. QED BY <2>3, <2>4
<1>11. ASSUME NEW v \in Visits, R!LinkProvider(v)
       PROVE  RegistrationInv'
  <2>. DEFINE e == visit[v].email
  <2>1. PICK id \in visit[v].identity :
          IF R!UniqueIdentity(e, id)
          THEN account' = [account EXCEPT ![e].linked = {id}] /\ R!Go(v, "session")
          ELSE UNCHANGED account /\ R!Go(v, "done")
    BY <1>11 DEF R!LinkProvider
  <2>2. visit[v].step = "link" /\ UNCHANGED <<tenant, state, callbacks, signedIn>>
    BY <1>11 DEF R!LinkProvider
  <2>3. CASE ~R!UniqueIdentity(e, id)
    BY <1>6, <2>1, <2>2, <2>3
  <2>4. CASE R!UniqueIdentity(e, id)
    <3>. DEFINE new == [account[e] EXCEPT !.linked = {id}]
    <3>1. R!Go(v, "session") /\ account' = [account EXCEPT ![e].linked = {id}]
      BY <2>1, <2>4
    <3>2. /\ visit'[v].step = "session" /\ visit'[v].kind = visit[v].kind /\ visit'[v].email = e
          /\ \A w \in Visits \ {v} : visit'[w] = visit[w]
          /\ visit' \in [Visits -> R!Visit] /\ e \in Emails
      BY <1>0, <3>1, VisitGoes
    <3>3. account[e] \in R!Account /\ id \in Identities
      BY <1>0, <3>2 DEF R!TypeOK, R!Visit
    <3>4. /\ new \in R!Account /\ new.by = account[e].by /\ new.office = account[e].office
          /\ new.linked = {id}
      BY <3>3 DEF R!Account
    <3>5. account' = [account EXCEPT ![e] = new]
      BY <1>0, <3>1, <3>2 DEF R!TypeOK
    <3>6. R!Exists(e) /\ visit[v].kind # "organization"
      BY <2>2 DEF RegistrationInv, LinksHold, WrittenSoFar
    <3>. HIDE DEF new, e
    <3>7. /\ account'[e] = new /\ account' \in [Emails -> R!Account]
          /\ \A f \in Emails \ {e} : account'[f] = account[f]
      BY <1>0, <3>2, <3>4, <3>5 DEF R!TypeOK
    <3>8. \A w \in Visits : visit[w].email \in Emails
      BY <1>0 DEF R!TypeOK, R!Visit
    <3>9. R!TypeOK'
      BY <1>0, <2>2, <3>2, <3>7 DEF R!TypeOK
    <3>10. WrittenSoFar'
      BY <2>2, <3>2, <3>4, <3>6, <3>7, <3>8 DEF RegistrationInv, WrittenSoFar
    <3>11. LinksHold'
      <4>1. \A f \in Emails : /\ account'[f].by = account[f].by
                              /\ account[f].linked # {} => account'[f].linked # {}
        BY <3>4, <3>7
      <4>2. \A f \in Emails : account'[f].linked # {} => account[f].by # {}
        BY <3>6, <3>7 DEF RegistrationInv, LinksHold, R!Exists
      <4>3. account'[e].linked # {} /\ visit'[v].step # "link"
        BY <3>2, <3>4, <3>7
      <4>4. \A f \in Emails : account'[f].linked # {} => account'[f].by # {}
        BY <4>1, <4>2
      <4>5. \A w \in Visits : visit'[w].step = "link" => account'[visit'[w].email].by # {}
        BY <3>2, <3>8, <4>1, <4>3 DEF RegistrationInv, LinksHold, R!Exists
      <4>6. \A w \in Visits : visit'[w].kind = "oauthLogin" /\ visit'[w].step = "session"
                                => account'[visit'[w].email].linked # {}
        BY <3>2, <3>8, <4>1, <4>3 DEF RegistrationInv, LinksHold
      <4>. QED BY <2>2, <4>4, <4>5, <4>6 DEF RegistrationInv, LinksHold, R!Exists
    <3>12. \A w \in Visits, f \in Emails : <<w, f>> \in signedIn => w # v
      BY <2>2 DEF RegistrationInv
    <3>13. R!RegistrationIsWhole'
      BY <2>2, <3>2, <3>4, <3>7, <3>12 DEF RegistrationInv, R!RegistrationIsWhole
    <3>14. \A i \in Identities : \A f, g \in R!LinkedTo(i)' : f = g
      <4>1. R!LinkedTo(id)' \subseteq {e}
        BY <2>4, <3>7 DEF R!UniqueIdentity, R!LinkedTo
      <4>2. \A i \in Identities \ {id} : R!LinkedTo(i)' \subseteq R!LinkedTo(i)
        BY <3>4, <3>7 DEF R!LinkedTo
      <4>3. \A i \in Identities : \A f, g \in R!LinkedTo(i) : f = g
        BY DEF RegistrationInv, R!ProviderLinkedOnce
      <4>. QED BY <4>1, <4>2, <4>3
    <3>15. R!ProviderLinkedOnce'
      <4>1. \A i \in Identities : \A f, g \in {h \in Emails : i \in account'[h].linked} : f = g
        BY <3>14 DEF R!LinkedTo
      <4>. QED BY <2>2, <3>2, <3>4, <3>7, <3>12, <4>1
               DEF RegistrationInv, R!ProviderLinkedOnce, R!LinkedTo
    <3>. QED BY <2>2, <3>2, <3>9, <3>10, <3>11, <3>12, <3>13, <3>15 DEF RegistrationInv
  <2>. QED BY <2>3, <2>4
<1>12. ASSUME NEW v \in Visits, R!CreateUser(v), ~R!Creatable(v)
       PROVE  RegistrationInv'
  BY <1>6, <1>12 DEF R!CreateUser
<1>13. ASSUME NEW v \in Visits, R!Fail(v)
       PROVE  RegistrationInv'
  BY <1>6, <1>13 DEF R!Fail
<1>. QED BY <1>1, <1>2, <1>3, <1>5, <1>7, <1>8, <1>9, <1>10, <1>11, <1>12, <1>13
         DEF R!Next, R!Serve

LEMMA RegistrationInvariant == Spec => []RegistrationInv
<1>1. Init => RegistrationInv
  <2>. SUFFICES ASSUME R!Init PROVE RegistrationInv
    BY DEF Init
  <2>. DEFINE k == [kind |-> "none", step |-> "idle", email |-> R!AnyEmail, identity |-> {}]
  <2>1. k \in R!Visit /\ k.step = "idle" /\ k.kind = "none"
    BY AccountsAssumption DEF R!Visit, R!AnyEmail
  <2>2. visit = [v \in Visits |-> k]
    BY DEF R!Init
  <2>. HIDE DEF k
  <2>3. \A e \in Emails : account[e] \in R!Account /\ account[e].linked = {}
    BY DEF R!Init, R!NoAccount, R!OldAccount, R!Account
  <2>4. account \in [Emails -> R!Account]
    BY <2>3 DEF R!Init
  <2>5. R!TypeOK
    BY <2>1, <2>2, <2>4 DEF R!Init, R!TypeOK
  <2>6. WrittenSoFar
    BY <2>1, <2>2 DEF R!Init, WrittenSoFar
  <2>7. LinksHold
    BY <2>1, <2>2, <2>3 DEF R!Init, LinksHold
  <2>8. R!RegistrationIsWhole
    BY DEF R!Init, R!RegistrationIsWhole
  <2>9. R!ProviderLinkedOnce
    BY <2>3 DEF R!Init, R!ProviderLinkedOnce, R!LinkedTo
  <2>. QED BY <2>5, <2>6, <2>7, <2>8, <2>9 DEF R!Init, RegistrationInv
<1>2. RegistrationInv /\ [Next]_all => RegistrationInv'
  <2>1. RegistrationInv /\ UNCHANGED registration => RegistrationInv'
    <3>. SUFFICES ASSUME RegistrationInv, UNCHANGED registration PROVE RegistrationInv'
      OBVIOUS
    <3>. USE DEF registration
    <3>1. R!TypeOK' /\ WrittenSoFar'
      BY DEF RegistrationInv, R!TypeOK, WrittenSoFar
    <3>2. LinksHold'
      BY DEF RegistrationInv, LinksHold, R!Exists
    <3>3. R!RegistrationIsWhole'
      BY DEF RegistrationInv, R!RegistrationIsWhole
    <3>4. R!ProviderLinkedOnce'
      BY DEF RegistrationInv, R!ProviderLinkedOnce, R!LinkedTo
    <3>. QED BY <3>1, <3>2, <3>3, <3>4 DEF RegistrationInv
  <2>. QED BY <2>1, RegistrationStep DEF Next, CleanUp, all
<1>. QED BY <1>1, <1>2, PTL DEF Spec

\* Whoever is signed in by registering an organization created the user of the
\* address, whichever registrations and failures overlap, and the organization,
\* its head office and the user's assignment are all there
\* (modules/identity/auth.service.ts).
THEOREM RegistrationEndsWhole == Spec => []RegistrationIsWhole
<1>1. RegistrationInv => RegistrationIsWhole
  BY DEF RegistrationInv, RegistrationIsWhole
<1>. QED BY <1>1, RegistrationInvariant, PTL

\* An identity at the provider is linked to one account at most and a state lets
\* one callback through, however callbacks interleave with each other and with
\* registrations.
THEOREM IdentityLinkedOnce == Spec => []ProviderLinkedOnce
<1>1. RegistrationInv => ProviderLinkedOnce
  BY DEF RegistrationInv, ProviderLinkedOnce
<1>. QED BY <1>1, RegistrationInvariant, PTL

-----------------------------------------------------------------------------
(***************************************************************************)
(* Invitations.  Rows are never deleted, and a decided one stays decided;  *)
(* an account, or a request that will write one, has a row behind it.      *)
(***************************************************************************)
Sent == {i \in Invites : invite[i].status # "none"}
Decided == {i \in Invites : invite[i].status \in {"accepted", "revoked"}}

InvitationInv ==
  /\ I!TypeOK
  /\ member.status # "none" => Sent # {}
  /\ \A h \in Handlers : handler[h].invite \subseteq Sent
  /\ \A h \in Handlers :
       handler[h].step \in {"user", "revoke", "reissue", "refresh", "join", "mark"}
         => handler[h].invite # {}
  /\ \A h \in Handlers : handler[h].step = "accept" => Sent # {}
  /\ \A h \in Handlers : handler[h].step = "activate" => Decided # {}
  /\ member.status = "active"
       => Decided # {} \/ cut \/ \E h \in Handlers : handler[h].step = "mark"

\* A request takes a step that leaves the account alone and undoes no decision;
\* what it claims of the rows after the step is true of them.
LEMMA InvitationRequest ==
  ASSUME InvitationInv, NEW h \in Handlers, NEW k \in I!Handler,
         handler' = [handler EXCEPT ![h] = k], UNCHANGED member,
         invite' \in [Invites -> I!Invitation],
         Sent \subseteq Sent', Decided \subseteq Decided',
         k.invite \subseteq Sent',
         k.step \in {"user", "revoke", "reissue", "refresh", "join", "mark"} => k.invite # {},
         k.step = "accept" => Sent' # {},
         k.step = "activate" => Decided' # {},
         cut' \in BOOLEAN, cut => cut', handler[h].step = "mark" => Decided' # {} \/ cut'
  PROVE  InvitationInv'
<1>1. /\ handler'[h] = k
      /\ \A g \in Handlers \ {h} : handler'[g] = handler[g]
      /\ handler' \in [Handlers -> I!Handler]
  BY DEF InvitationInv, I!TypeOK
<1>2. I!TypeOK'
  BY <1>1 DEF InvitationInv, I!TypeOK
<1>3. \A g \in Handlers : handler'[g].invite \subseteq Sent'
  BY <1>1 DEF InvitationInv
<1>4. /\ \A g \in Handlers :
           handler'[g].step \in {"user", "revoke", "reissue", "refresh", "join", "mark"}
             => handler'[g].invite # {}
      /\ \A g \in Handlers : handler'[g].step = "accept" => Sent' # {}
      /\ \A g \in Handlers : handler'[g].step = "activate" => Decided' # {}
  BY <1>1 DEF InvitationInv
<1>5. member'.status # "none" => Sent' # {}
  BY DEF InvitationInv
<1>6. member'.status = "active"
        => Decided' # {} \/ cut' \/ \E g \in Handlers : handler'[g].step = "mark"
  BY <1>1 DEF InvitationInv
<1>. QED BY <1>2, <1>3, <1>4, <1>5, <1>6 DEF InvitationInv

\* A request creates the active account and goes on to mark the invitation.
LEMMA AccountJoined ==
  ASSUME InvitationInv, NEW h \in Handlers, NEW k \in I!Handler,
         handler' = [handler EXCEPT ![h] = k], UNCHANGED <<invite, cut>>,
         member' \in I!Member,
         k.step = "mark", k.invite = handler[h].invite, k.invite # {}
  PROVE  InvitationInv'
<1>1. /\ handler'[h] = k
      /\ \A g \in Handlers \ {h} : handler'[g] = handler[g]
      /\ handler' \in [Handlers -> I!Handler]
  BY DEF InvitationInv, I!TypeOK
<1>2. I!TypeOK'
  BY <1>1 DEF InvitationInv, I!TypeOK
<1>3. Sent' = Sent /\ Decided' = Decided /\ Sent # {}
  BY DEF Sent, Decided, InvitationInv
<1>4. \A g \in Handlers : handler'[g].invite \subseteq Sent
  BY <1>1 DEF InvitationInv
<1>5. /\ \A g \in Handlers :
           handler'[g].step \in {"user", "revoke", "reissue", "refresh", "join", "mark"}
             => handler'[g].invite # {}
      /\ \A g \in Handlers : handler'[g].step = "accept" => Sent # {}
      /\ \A g \in Handlers : handler'[g].step = "activate" => Decided # {}
  BY <1>1 DEF InvitationInv
<1>6. \E g \in Handlers : handler'[g].step = "mark"
  BY <1>1
<1>. QED BY <1>2, <1>3, <1>4, <1>5, <1>6 DEF InvitationInv

\* A request writes the account and ends.
LEMMA AccountLeft ==
  ASSUME InvitationInv, NEW h \in Handlers, I!End(h), UNCHANGED <<invite, cut>>,
         handler[h].step # "mark",
         member' \in I!Member,
         member'.status # "none" => Sent # {},
         member'.status = "active" => Decided # {} \/ member.status = "active"
  PROVE  InvitationInv'
<1>0. I!Resting \in I!Handler /\ I!Resting.step = "idle" /\ I!Resting.invite = {}
  BY DEF I!Resting, I!Handler
<1>1. /\ handler'[h] = I!Resting
      /\ \A g \in Handlers \ {h} : handler'[g] = handler[g]
      /\ handler' \in [Handlers -> I!Handler]
  BY <1>0 DEF I!End, InvitationInv, I!TypeOK
<1>2. I!TypeOK'
  BY <1>1 DEF InvitationInv, I!TypeOK
<1>3. Sent' = Sent /\ Decided' = Decided
  BY DEF Sent, Decided
<1>4. \A g \in Handlers : handler'[g].invite \subseteq Sent
  BY <1>0, <1>1 DEF InvitationInv
<1>5. /\ \A g \in Handlers :
           handler'[g].step \in {"user", "revoke", "reissue", "refresh", "join", "mark"}
             => handler'[g].invite # {}
      /\ \A g \in Handlers : handler'[g].step = "accept" => Sent # {}
      /\ \A g \in Handlers : handler'[g].step = "activate" => Decided # {}
  BY <1>0, <1>1 DEF InvitationInv
<1>6. member'.status = "active"
        => Decided # {} \/ cut \/ \E g \in Handlers : handler'[g].step = "mark"
  BY <1>1 DEF InvitationInv
<1>. QED BY <1>2, <1>3, <1>4, <1>5, <1>6 DEF InvitationInv

\* A request at rest, and the next step of a request.
LEMMA RequestStates ==
  ASSUME InvitationInv, NEW h \in Handlers
  PROVE  /\ I!Resting \in I!Handler /\ I!Resting.step = "idle" /\ I!Resting.invite = {}
         /\ handler[h] \in I!Handler
         /\ \A step \in {"refresh", "rotate", "mark", "activate"} :
              LET k == [handler[h] EXCEPT !.step = step] IN
              /\ k \in I!Handler /\ k.step = step /\ k.invite = handler[h].invite
              /\ I!Go(h, step) => handler' = [handler EXCEPT ![h] = k]
<1>1. handler \in [Handlers -> I!Handler] /\ handler[h] \in I!Handler
  BY DEF InvitationInv, I!TypeOK
<1>2. I!Resting \in I!Handler /\ I!Resting.step = "idle" /\ I!Resting.invite = {}
  BY DEF I!Resting, I!Handler
<1>3. ASSUME NEW step \in {"refresh", "rotate", "mark", "activate"}
      PROVE  LET k == [handler[h] EXCEPT !.step = step] IN
              /\ k \in I!Handler /\ k.step = step /\ k.invite = handler[h].invite
              /\ I!Go(h, step) => handler' = [handler EXCEPT ![h] = k]
  BY <1>1 DEF I!Handler, I!Go
<1>. QED BY <1>1, <1>2, <1>3

\* The rows after one of the writes to invitations: all keep a status that is set,
\* and those written get status s.
LEMMA RowsWritten ==
  ASSUME InvitationInv, NEW rows \in SUBSET Sent, NEW s \in {"accepted", "revoked"},
         invite' = [i \in Invites |-> IF i \in rows THEN [invite[i] EXCEPT !.status = s]
                                      ELSE invite[i]]
  PROVE  /\ invite' \in [Invites -> I!Invitation]
         /\ Sent \subseteq Sent' /\ Decided \subseteq Decided' /\ rows \subseteq Decided'
<1>. DEFINE w(i) == [invite[i] EXCEPT !.status = s]
<1>1. \A i \in Invites : invite[i] \in I!Invitation
  BY DEF InvitationInv, I!TypeOK
<1>2. \A i \in Invites : w(i) \in I!Invitation /\ w(i).status = s
  BY <1>1 DEF I!Invitation
<1>3. invite' = [i \in Invites |-> IF i \in rows THEN w(i) ELSE invite[i]]
  OBVIOUS
<1>. HIDE DEF w
<1>4. \A i \in Invites : invite'[i] = IF i \in rows THEN w(i) ELSE invite[i]
  BY <1>3
<1>5. invite' \in [Invites -> I!Invitation]
  BY <1>1, <1>2, <1>3
<1>. QED BY <1>2, <1>4, <1>5 DEF Sent, Decided

LEMMA InvitationStep ==
  ASSUME InvitationInv, NEW h \in Handlers, I!Handle(h)
  PROVE  InvitationInv'
<1>0. /\ invite \in [Invites -> I!Invitation] /\ member \in I!Member
      /\ handler \in [Handlers -> I!Handler] /\ cut \in BOOLEAN
  BY DEF InvitationInv, I!TypeOK
<1>0a. UNCHANGED cut => cut' \in BOOLEAN /\ (cut => cut')
  BY <1>0
\* A request begins.
<1>1. ASSUME NEW step \in {"insert", "revoke", "reissue", "join", "accept", "delete"},
             NEW rows \in SUBSET Sent, NEW named \in BOOLEAN,
             I!Begin(h, step, rows, named), UNCHANGED <<invite, member, cut>>,
             step \in {"revoke", "reissue", "join"} => rows # {},
             step = "accept" => Sent # {}
      PROVE  InvitationInv'
  <2>. DEFINE k == [step |-> step, invite |-> rows, named |-> named]
  <2>1. k \in I!Handler /\ k.step = step /\ k.invite = rows
    BY <1>1 DEF I!Handler, Sent
  <2>2. handler' = [handler EXCEPT ![h] = k] /\ handler[h].step = "idle"
    BY <1>1 DEF I!Begin
  <2>. HIDE DEF k
  <2>3. Sent' = Sent /\ Decided' = Decided
    BY <1>1 DEF Sent, Decided
  <2>. QED BY <1>0, <1>1, <2>1, <2>2, <2>3, InvitationRequest
<1>2. ASSUME NEW named \in BOOLEAN, I!Invite(h, named)
      PROVE  InvitationInv'
  BY <1>1, <1>2 DEF I!Invite
<1>3. ASSUME NEW i \in Invites, I!Revoke(h, i) \/ I!ResendInvitation(h, i) \/ I!AcceptInvitation(h, i)
      PROVE  InvitationInv'
  <2>1. {i} \in SUBSET Sent /\ invite[i].named \in BOOLEAN
    BY <1>0, <1>3 DEF I!Revoke, I!ResendInvitation, I!AcceptInvitation, Sent, I!Invitation
  <2>2. CASE I!Revoke(h, i)
    BY <1>1, <2>1, <2>2 DEF I!Revoke
  <2>3. CASE I!ResendInvitation(h, i)
    BY <1>1, <2>1, <2>3 DEF I!ResendInvitation
  <2>4. CASE I!AcceptInvitation(h, i)
    BY <1>1, <2>1, <2>4 DEF I!AcceptInvitation
  <2>. QED BY <1>3, <2>2, <2>3, <2>4
<1>4. ASSUME I!FirstLogin(h)
      PROVE  InvitationInv'
  <2>1. Sent # {}
    BY <1>4 DEF I!FirstLogin, InvitationInv
  <2>. QED BY <1>1, <1>4, <2>1 DEF I!FirstLogin
\* A request writes rows.
<1>5. ASSUME NEW i \in Invites, I!InsertInvitation(h, i)
      PROVE  InvitationInv'
  <2>. DEFINE k == [handler[h] EXCEPT !.step = "user", !.invite = {i}]
              row == [status |-> "pending", named |-> handler[h].named, fresh |-> TRUE]
  <2>1. handler[h] \in I!Handler /\ handler[h].named \in BOOLEAN
    BY <1>0 DEF I!Handler
  <2>2. k \in I!Handler /\ k.step = "user" /\ k.invite = {i}
    BY <2>1 DEF I!Handler
  <2>3. row \in I!Invitation /\ row.status = "pending"
    BY <2>1 DEF I!Invitation
  <2>4. /\ handler' = [handler EXCEPT ![h] = k] /\ UNCHANGED <<member, cut>>
        /\ invite' = [invite EXCEPT ![i] = row] /\ invite[i].status = "none"
        /\ handler[h].step = "insert"
    BY <1>0, <1>5 DEF I!InsertInvitation
  <2>. HIDE DEF k, row
  <2>5. invite' \in [Invites -> I!Invitation] /\ Sent' = Sent \cup {i} /\ Decided' = Decided
    BY <1>0, <2>3, <2>4 DEF Sent, Decided
  <2>. QED BY <1>0a, <2>2, <2>4, <2>5, InvitationRequest
<1>6. ASSUME I!WriteRevoked(h) \/ I!markAccepted(h)
      PROVE  InvitationInv'
  <2>1. /\ handler[h].invite \in SUBSET Sent /\ handler[h].invite # {}
        /\ handler' = [handler EXCEPT ![h] = I!Resting] /\ UNCHANGED <<member, cut>>
    BY <1>6 DEF I!WriteRevoked, I!markAccepted, I!End, InvitationInv
  <2>2. PICK s \in {"accepted", "revoked"} :
          invite' = [i \in Invites |-> IF i \in handler[h].invite
                                       THEN [invite[i] EXCEPT !.status = s] ELSE invite[i]]
    BY <1>6 DEF I!WriteRevoked, I!markAccepted
  <2>3. /\ invite' \in [Invites -> I!Invitation]
        /\ Sent \subseteq Sent' /\ Decided \subseteq Decided' /\ Decided' # {}
    BY <2>1, <2>2, RowsWritten
  <2>. QED BY <1>0a, <2>1, <2>3, RequestStates, InvitationRequest
<1>7. ASSUME I!Reissue(h)
      PROVE  InvitationInv'
  <2>. DEFINE k == [handler[h] EXCEPT !.step = "refresh"]
              w(i) == [invite[i] EXCEPT !.fresh = TRUE]
  <2>1. /\ k \in I!Handler /\ k.step = "refresh" /\ k.invite = handler[h].invite
        /\ handler' = [handler EXCEPT ![h] = k]
    BY <1>7, RequestStates DEF I!Reissue
  <2>2. \A i \in Invites : w(i) \in I!Invitation /\ w(i).status = invite[i].status
    BY <1>0 DEF I!Invitation
  <2>3. /\ invite' = [i \in Invites |-> IF i \in handler[h].invite THEN w(i) ELSE invite[i]]
        /\ UNCHANGED <<member, cut>> /\ handler[h].step = "reissue"
    BY <1>7 DEF I!Reissue
  <2>. HIDE DEF k, w
  <2>4. \A i \in Invites : invite'[i].status = invite[i].status
    BY <2>2, <2>3
  <2>5. invite' \in [Invites -> I!Invitation]
    BY <1>0, <2>2, <2>3
  <2>6. Sent' = Sent /\ Decided' = Decided
    BY <2>4 DEF Sent, Decided
  <2>. QED BY <1>0a, <2>1, <2>3, <2>5, <2>6, InvitationRequest DEF InvitationInv
<1>8. ASSUME I!acceptPendingForUser(h)
      PROVE  InvitationInv'
  <2>. DEFINE k == [handler[h] EXCEPT !.step = "activate"]
  <2>1. /\ k \in I!Handler /\ k.step = "activate" /\ k.invite = handler[h].invite
        /\ handler' = [handler EXCEPT ![h] = k]
    BY <1>8, RequestStates DEF I!acceptPendingForUser
  <2>2. handler[h].step = "accept" /\ UNCHANGED <<member, cut>> /\ Sent # {}
    BY <1>8 DEF I!acceptPendingForUser, InvitationInv
  <2>. HIDE DEF k
  <2>3. CASE I!PendingRows = {} /\ UNCHANGED <<invite, cut>>
    <3>1. Sent' = Sent /\ Decided' = Decided
      BY <2>3 DEF Sent, Decided
    <3>2. Sent \subseteq Decided
      BY <1>0, <2>3 DEF Sent, Decided, I!PendingRows, I!Invitation
    <3>. QED BY <1>0, <1>0a, <2>1, <2>2, <2>3, <3>1, <3>2, InvitationRequest DEF InvitationInv
  <2>4. ASSUME NEW i \in I!PendingRows, invite' = [invite EXCEPT ![i].status = "accepted"]
        PROVE  InvitationInv'
    <3>. DEFINE row == [invite[i] EXCEPT !.status = "accepted"]
    <3>0. i \in Invites /\ invite[i] \in I!Invitation
      BY <1>0 DEF I!PendingRows
    <3>1. row \in I!Invitation /\ row.status = "accepted"
      BY <3>0 DEF I!Invitation
    <3>2. invite' = [invite EXCEPT ![i] = row]
      BY <1>0, <2>4, <3>0
    <3>. HIDE DEF row
    <3>3. /\ invite'[i] = row /\ invite' \in [Invites -> I!Invitation]
          /\ \A j \in Invites \ {i} : invite'[j] = invite[j]
      BY <1>0, <3>0, <3>1, <3>2
    <3>4. Sent \subseteq Sent' /\ Decided \subseteq Decided' /\ i \in Decided'
      BY <3>0, <3>1, <3>3 DEF Sent, Decided
    <3>5. k.invite \subseteq Sent'
      BY <2>1, <3>4 DEF InvitationInv
    <3>. QED BY <1>0a, <2>1, <2>2, <3>3, <3>4, <3>5, InvitationRequest
  <2>. QED BY <1>8, <2>3, <2>4 DEF I!acceptPendingForUser
\* A request writes the account.
<1>9. ASSUME handler[h].step \in {"user", "refresh"}, I!createTempInvitedUser(h)
      PROVE  InvitationInv'
  <2>. DEFINE new == [status |-> "pending_invitation", fresh |-> TRUE]
  <2>1. new \in I!Member /\ new.status = "pending_invitation"
    BY DEF I!Member
  <2>2. /\ handler' = [handler EXCEPT ![h] = I!Resting] /\ UNCHANGED <<invite, cut>>
        /\ member' \in {member, new}
    BY <1>9 DEF I!createTempInvitedUser, I!End
  <2>. HIDE DEF new
  <2>3. Sent # {}
    BY <1>9 DEF InvitationInv
  <2>4. /\ member' \in I!Member
        /\ member'.status = "active" => member.status = "active"
    BY <1>0, <2>1, <2>2
  <2>. QED BY <1>9, <2>2, <2>3, <2>4, AccountLeft DEF I!End
<1>10. ASSUME I!refreshTempInvitedUser(h)
       PROVE  InvitationInv'
  <2>1. CASE I!Go(h, "rotate") /\ UNCHANGED <<invite, member, cut>>
    <3>. DEFINE k == [handler[h] EXCEPT !.step = "rotate"]
    <3>1. /\ k \in I!Handler /\ k.step = "rotate" /\ k.invite = handler[h].invite
          /\ handler' = [handler EXCEPT ![h] = k]
      BY <2>1, RequestStates
    <3>. HIDE DEF k
    <3>2. Sent' = Sent /\ Decided' = Decided /\ handler[h].step = "refresh"
      BY <1>10, <2>1 DEF Sent, Decided, I!refreshTempInvitedUser
    <3>. QED BY <1>0, <2>1, <3>1, <3>2, InvitationRequest DEF InvitationInv
  <2>. QED BY <1>9, <1>10, <2>1 DEF I!refreshTempInvitedUser
<1>11. ASSUME I!RotatePassword(h) \/ I!DeleteExpired(h) \/ I!activate(h)
       PROVE  InvitationInv'
  <2>1. /\ member' \in I!Member
        /\ member'.status # "none" => member.status # "none"
        /\ member'.status = "active" => member.status = "active" \/ handler[h].step = "activate"
    <3>1. CASE I!RotatePassword(h)
      BY <1>0, <3>1 DEF I!RotatePassword, I!Member
    <3>2. CASE I!DeleteExpired(h)
      BY <3>2 DEF I!DeleteExpired, I!Member, I!NoMember
    <3>3. CASE I!activate(h)
      BY <1>0, <3>3 DEF I!activate, I!Member
    <3>. QED BY <1>11, <3>1, <3>2, <3>3
  <2>2. /\ handler' = [handler EXCEPT ![h] = I!Resting] /\ UNCHANGED <<invite, cut>>
        /\ handler[h].step \in {"rotate", "delete", "activate"}
    BY <1>11 DEF I!RotatePassword, I!DeleteExpired, I!activate, I!End
  <2>3. /\ member'.status # "none" => Sent # {}
        /\ handler[h].step = "activate" => Decided # {}
    BY <2>1 DEF InvitationInv
  <2>. QED BY <2>1, <2>2, <2>3, AccountLeft DEF I!End
<1>12. ASSUME I!createInvitedUser(h)
       PROVE  InvitationInv'
  <2>1. handler[h].step = "join" /\ UNCHANGED <<invite, cut>> /\ handler[h].invite # {} /\ Sent # {}
    BY <1>12 DEF I!createInvitedUser, InvitationInv
  <2>2. CASE member.status = "none"
    <3>. DEFINE k == [handler[h] EXCEPT !.step = "mark"]
                new == [status |-> "active", fresh |-> FALSE]
    <3>1. /\ k \in I!Handler /\ k.step = "mark" /\ k.invite = handler[h].invite
          /\ handler' = [handler EXCEPT ![h] = k]
      BY <1>12, <2>2, RequestStates DEF I!createInvitedUser
    <3>2. new \in I!Member /\ member' = new
      BY <1>12, <2>2 DEF I!createInvitedUser, I!Member
    <3>. HIDE DEF k, new
    <3>. QED BY <2>1, <3>1, <3>2, AccountJoined
  <2>3. CASE member.status # "none"
    <3>1. handler' = [handler EXCEPT ![h] = I!Resting] /\ UNCHANGED <<member, cut>>
      BY <1>12, <2>3 DEF I!createInvitedUser, I!End
    <3>. QED BY <1>0, <2>1, <3>1, AccountLeft DEF I!End
  <2>. QED BY <2>2, <2>3
\* A request ends early.
<1>13. ASSUME I!Fail(h)
       PROVE  InvitationInv'
  <2>1. /\ handler' = [handler EXCEPT ![h] = I!Resting] /\ UNCHANGED <<invite, member>>
        /\ cut' = (cut \/ handler[h].step = "mark")
    BY <1>13 DEF I!Fail, I!End
  <2>2. cut' \in BOOLEAN /\ (cut => cut') /\ (handler[h].step = "mark" => cut')
    BY <1>0, <2>1
  <2>3. Sent' = Sent /\ Decided' = Decided
    BY <2>1 DEF Sent, Decided
  <2>. QED BY <1>0, <2>1, <2>2, <2>3, RequestStates, InvitationRequest
<1>. QED BY <1>2, <1>3, <1>4, <1>5, <1>6, <1>7, <1>8, <1>9, <1>10, <1>11, <1>12, <1>13
         DEF I!Handle, I!CreateUser

LEMMA InvitationInvariant == Spec => []InvitationInv
<1>1. Init => InvitationInv
  <2>1. Init => cut \in BOOLEAN
    BY DEF Init, I!Init
  <2>. QED BY <2>1 DEF Init, I!Init, InvitationInv, I!TypeOK, I!NoInvitation, I!NoMember, I!Resting,
         I!Invitation, I!Member, I!Handler, Sent, Decided
<1>2. InvitationInv /\ [Next]_all => InvitationInv'
  <2>. SUFFICES ASSUME InvitationInv, [Next]_all PROVE InvitationInv'
    OBVIOUS
  <2>0. /\ invite \in [Invites -> I!Invitation] /\ member \in I!Member
        /\ handler \in [Handlers -> I!Handler]
    BY DEF InvitationInv, I!TypeOK
  <2>1. CASE UNCHANGED invitations
    BY <2>1 DEF invitations, InvitationInv, I!TypeOK, Sent, Decided
  <2>2. CASE I!Expire
    <3>. DEFINE w(i) == [invite[i] EXCEPT !.fresh = FALSE]
    <3>1. \A i \in Invites : w(i) \in I!Invitation /\ w(i).status = invite[i].status
      BY <2>0 DEF I!Invitation
    <3>2. invite' = [i \in Invites |-> w(i)] /\ UNCHANGED <<handler, cut>>
      BY <2>2 DEF I!Expire
    <3>3. member' \in I!Member /\ member'.status = member.status
      BY <2>0, <2>2 DEF I!Expire, I!Member
    <3>. HIDE DEF w
    <3>4. invite' \in [Invites -> I!Invitation]
          /\ \A i \in Invites : invite'[i].status = invite[i].status
      BY <3>1, <3>2
    <3>5. Sent' = Sent /\ Decided' = Decided
      BY <3>4 DEF Sent, Decided
    <3>. QED BY <3>2, <3>3, <3>4, <3>5 DEF InvitationInv, I!TypeOK
  <2>3. CASE I!deleteExpiredTempUsers
    <3>1. /\ member' \in I!Member /\ member'.status = "none"
          /\ UNCHANGED <<invite, handler, cut>>
      BY <2>3 DEF I!deleteExpiredTempUsers, I!NoMember, I!Member
    <3>. QED BY <2>0, <3>1 DEF InvitationInv, I!TypeOK, Sent, Decided
  <2>4. CASE \E h \in Handlers : I!Handle(h)
    BY <2>4, InvitationStep
  <2>. QED BY <2>1, <2>2, <2>3, <2>4 DEF Next, CleanUp, all
<1>. QED BY <1>1, <1>2, PTL DEF Spec

\* However invitations to an address are created, resent and used at the same time,
\* and wherever requests end, an active member none of whose invitations was revoked
\* has an accepted one, unless an acceptance by token was cut off right after it had
\* made the member (modules/invitations, modules/users, AuthService.acceptInvitation).
THEOREM MembersAreRecorded == Spec => []MembershipRecorded
<1>1. InvitationInv => MembershipRecorded
  BY DEF InvitationInv, MembershipRecorded, I!MembershipRecorded, I!NobodyBusy, I!Revoked, Decided
<1>. QED BY <1>1, InvitationInvariant, PTL

-----------------------------------------------------------------------------
(***************************************************************************)
(* One-time codes.  A counter that counts without a TTL has a call about   *)
(* to give it one.  Of the wrong guesses at the stored secret the counter  *)
(* holds those since its last reset, and calls in flight the ones not yet  *)
(* counted; every reset hides less than MaxAttempts of them, and only      *)
(* calls that were about to reset when the secret was stored can do so.    *)
(***************************************************************************)
Counting == {r \in Calls : call[r].step = "count"}
Dropping == {r \in Calls : call[r].step = "drop" \/ (call[r].step = "window" /\ call[r].full)}
Spare == {r \in Calls : call[r].step # "reset"}
Counted == IF wrong.count < MaxAttempts THEN wrong.count ELSE MaxAttempts - 1
GuessBound == Counted + Cardinality(Counting) + (MaxAttempts - 1) * (Cardinality(Spare) - 1)

WindowsOpen ==
  /\ wrong.count > 0 /\ ~wrong.ttl => \E r \in Calls : call[r].step = "window"
  /\ sends.count > 0 /\ ~sends.ttl => \E r \in Calls : call[r].step = "resendWindow"

GuessesCounted == stored # {} => Spare # {} /\ (Dropping = {} => guesses <= GuessBound)

CodeInv == C!TypeOK /\ WindowsOpen /\ GuessesCounted

CallSteps == {"idle", "count", "window", "drop", "accept", "reset",
              "resend", "resendWindow", "forget", "create"}

\* Call r, and no other, goes to a step.
Moved(r, step) ==
  /\ call' \in [Calls -> C!Call]
  /\ call'[r].step = step
  /\ \A q \in Calls \ {r} : call'[q] = call[q]

LEMMA CallMoves ==
  ASSUME C!TypeOK, NEW r \in Calls
  PROVE  /\ \A step \in CallSteps :
              C!Step(r, step) => Moved(r, step) /\ call'[r].full = call[r].full
         /\ C!Return(r) => Moved(r, "idle")
<1>1. call \in [Calls -> C!Call] /\ call[r] \in C!Call
  BY DEF C!TypeOK
<1>2. ASSUME NEW step \in CallSteps, C!Step(r, step)
      PROVE  Moved(r, step) /\ call'[r].full = call[r].full
  <2>. DEFINE k == [call[r] EXCEPT !.step = step]
  <2>1. k \in C!Call /\ k.step = step /\ k.full = call[r].full
    BY <1>1 DEF C!Call, CallSteps
  <2>2. call' = [call EXCEPT ![r] = k]
    BY <1>1, <1>2 DEF C!Step
  <2>. HIDE DEF k
  <2>. QED BY <1>1, <2>1, <2>2 DEF Moved
<1>3. ASSUME C!Return(r)
      PROVE  Moved(r, "idle")
  <2>1. C!Waiting \in C!Call /\ C!Waiting.step = "idle"
    BY DEF C!Waiting, C!Call
  <2>. QED BY <1>1, <1>3, <2>1 DEF C!Return, Moved
<1>. QED BY <1>2, <1>3

\* The sets of calls after the step, and what they count.
LEMMA CallCounts ==
  ASSUME C!TypeOK, NEW r \in Calls, NEW step, Moved(r, step)
  PROVE  /\ Counting' = IF step = "count" THEN Counting \cup {r} ELSE Counting \ {r}
         /\ Spare' = IF step = "reset" THEN Spare \ {r} ELSE Spare \cup {r}
         /\ step \notin {"drop", "window"} => Dropping' = Dropping \ {r}
         /\ Dropping \ {r} \subseteq Dropping'
  BY DEF Moved, Counting, Spare, Dropping

LEMMA CallCardinality ==
  /\ Cardinality(Counting) \in Nat /\ Cardinality(Spare) \in Nat
  /\ Spare # {} => Cardinality(Spare) >= 1
  /\ \A r \in Calls :
       /\ Cardinality(Counting \cup {r}) = IF r \in Counting THEN Cardinality(Counting)
                                           ELSE Cardinality(Counting) + 1
       /\ Cardinality(Counting \ {r}) = IF r \in Counting THEN Cardinality(Counting) - 1
                                        ELSE Cardinality(Counting)
       /\ Cardinality(Spare \cup {r}) = IF r \in Spare THEN Cardinality(Spare)
                                        ELSE Cardinality(Spare) + 1
<1>1. Counting \subseteq Calls /\ Spare \subseteq Calls
  BY DEF Counting, Spare
<1>2. IsFiniteSet(Counting) /\ IsFiniteSet(Spare)
  BY <1>1, AccountsAssumption, FS_Subset
<1>3. Cardinality(Counting) \in Nat /\ Cardinality(Spare) \in Nat
  BY <1>2, FS_CardinalityType
<1>4. Spare # {} => Cardinality(Spare) # 0
  BY <1>2, FS_EmptySet
<1>. QED BY <1>2, <1>3, <1>4, FS_AddElement, FS_RemoveElement

\* One reset more hides as many guesses as the counter may hold.
LEMMA OneResetMore ==
  ASSUME NEW m \in Nat \ {0}, NEW n \in Nat
  PROVE  (m - 1) * ((n + 1) - 1) = (m - 1) * (n - 1) + (m - 1) /\ (n >= 1 => (m - 1) * (n - 1) >= 0)
<1>1. (m - 1) * ((n + 1) - 1) = (m - 1) * (n - 1) + (m - 1)
  OBVIOUS
<1>2. n >= 1 => (m - 1) * (n - 1) >= 0
  OBVIOUS
<1>. QED BY <1>1, <1>2

\* A call that neither counts, drops nor resets moves on: the guesses stay counted.
LEMMA GuessesKept ==
  ASSUME CodeInv, NEW r \in Calls, NEW step, Moved(r, step),
         call[r].step \notin {"count", "reset"}, step \notin {"count", "reset"},
         UNCHANGED guesses, wrong'.count = wrong.count,
         stored' = stored, r \in Dropping => r \in Dropping'
  PROVE  GuessesCounted'
<1>1. Counting' = Counting /\ Spare' = Spare
  BY CallCounts DEF CodeInv, Counting, Spare
<1>2. Dropping \subseteq Dropping'
  BY CallCounts DEF CodeInv
<1>3. GuessBound' = GuessBound
  BY <1>1 DEF GuessBound, Counted
<1>. QED BY <1>1, <1>2, <1>3 DEF CodeInv, GuessesCounted

\* The counters after INCR and EXPIRE.
LEMMA CounterSteps ==
  ASSUME NEW c \in C!Counter
  PROVE  /\ C!Increment(c) \in C!Counter /\ C!Increment(c).count = c.count + 1
         /\ C!Increment(c).ttl = c.ttl
         /\ C!Expire(c) \in C!Counter /\ C!Expire(c).count = c.count
         /\ C!Expire(c).ttl = (c.count > 0)
         /\ C!NoCounter \in C!Counter /\ C!NoCounter.count = 0
         /\ c.count \in Nat /\ c.ttl \in BOOLEAN
<1>1. c.count \in Nat /\ c.ttl \in BOOLEAN /\ (c.count > 0) \in BOOLEAN
  BY DEF C!Counter
<1>2. /\ C!Increment(c) \in C!Counter /\ C!Increment(c).count = c.count + 1
      /\ C!Increment(c).ttl = c.ttl
  BY <1>1 DEF C!Increment, C!Counter
<1>3. C!Expire(c).count = c.count /\ C!Expire(c).ttl = (c.count > 0)
  BY <1>1 DEF C!Expire, C!Counter
<1>4. C!Expire(c) \in C!Counter
  BY <1>1 DEF C!Expire, C!Counter
<1>5. C!NoCounter \in C!Counter /\ C!NoCounter.count = 0
  BY DEF C!NoCounter, C!Counter
<1>. QED BY <1>1, <1>2, <1>3, <1>4, <1>5

LEMMA CodeStep ==
  ASSUME CodeInv, NEW r \in Calls, C!Serve(r)
  PROVE  CodeInv'
<1>0. /\ kind \in C!Kinds /\ stored \in SUBSET Codes /\ (\A c, d \in stored : c = d)
      /\ issued \in SUBSET Codes /\ wrong \in C!Counter /\ sends \in C!Counter
      /\ call \in [Calls -> C!Call] /\ opened \in [Codes -> Nat] /\ guesses \in Nat
      /\ C!TypeOK /\ MaxAttempts \in Nat \ {0}
  BY AccountsAssumption DEF CodeInv, C!TypeOK
\* A call moves on without touching the secret or the guesses counted.
<1>1. ASSUME NEW step \in CallSteps \ {"count", "reset"}, Moved(r, step),
             call[r].step \notin {"count", "reset", "window", "resendWindow", "drop"},
             UNCHANGED <<kind, stored, issued, wrong, opened, guesses>>,
             sends' \in {sends, C!Increment(sends)},
             sends' # sends /\ sends.count = 0 => step = "resendWindow"
      PROVE  CodeInv'
  <2>1. sends' \in C!Counter
    BY <1>0, <1>1, CounterSteps
  <2>2. C!TypeOK'
    BY <1>0, <1>1, <2>1 DEF C!TypeOK, Moved
  <2>3. WindowsOpen'
    BY <1>0, <1>1, CounterSteps DEF CodeInv, WindowsOpen, Moved
  <2>4. GuessesCounted'
    BY <1>1, GuessesKept DEF Dropping
  <2>. QED BY <2>2, <2>3, <2>4 DEF CodeInv
<1>2. ASSUME NEW given \in {{}} \cup {{c} : c \in issued}, C!Verify(r, given)
      PROVE  CodeInv'
  <2>. DEFINE k(step) == [C!Waiting EXCEPT !.step = step, !.given = given]
  <2>1. \A step \in {"accept", "count"} : k(step) \in C!Call /\ k(step).step = step
    <3>1. given \in SUBSET Codes /\ C!Waiting \in C!Call
      BY <1>0 DEF C!Waiting, C!Call
    <3>. QED BY <3>1 DEF C!Call
  <2>2. UNCHANGED <<kind, stored, issued, wrong, sends, opened>> /\ call[r].step = "idle" /\ stored # {}
    BY <1>2 DEF C!Verify
  <2>3. CASE call' = [call EXCEPT ![r] = k("accept")] /\ UNCHANGED guesses
    <3>1. Moved(r, "accept")
      BY <1>0, <2>1, <2>3 DEF Moved
    <3>. QED BY <1>1, <2>2, <2>3, <3>1 DEF CallSteps
  <2>4. CASE call' = [call EXCEPT ![r] = k("count")] /\ guesses' = guesses + 1
    <3>1. Moved(r, "count")
      BY <1>0, <2>1, <2>4 DEF Moved
    <3>2. C!TypeOK'
      BY <1>0, <2>2, <2>4, <3>1 DEF C!TypeOK, Moved
    <3>3. WindowsOpen'
      BY <2>2, <3>1 DEF CodeInv, WindowsOpen, Moved
    <3>4. /\ Counting' = Counting \cup {r} /\ r \notin Counting
          /\ Spare' = Spare /\ Dropping' = Dropping
      BY <1>0, <2>2, <3>1, CallCounts DEF Counting, Spare, Dropping
    <3>5. Cardinality(Counting') = Cardinality(Counting) + 1 /\ Cardinality(Counting) \in Nat
      BY <3>4, CallCardinality
    <3>. DEFINE hidden == (MaxAttempts - 1) * (Cardinality(Spare) - 1)
    <3>6. hidden \in Int /\ Counted \in Int
      BY <1>0, CallCardinality, CounterSteps DEF Counted
    <3>7. GuessBound = Counted + Cardinality(Counting) + hidden
          /\ GuessBound' = Counted + Cardinality(Counting') + hidden
      BY <2>2, <3>4 DEF GuessBound, Counted
    <3>. HIDE DEF hidden
    <3>8. Dropping = {} => guesses + 1 <= GuessBound'
      BY <1>0, <2>2, <3>5, <3>6, <3>7 DEF CodeInv, GuessesCounted
    <3>9. GuessesCounted'
      BY <2>2, <2>4, <3>4, <3>8 DEF CodeInv, GuessesCounted
    <3>. QED BY <3>2, <3>3, <3>9 DEF CodeInv
  <2>. QED BY <1>2, <2>3, <2>4 DEF C!Verify
<1>3. ASSUME C!incrementAttempts(r)
      PROVE  CodeInv'
  <2>. DEFINE full == wrong'.count >= MaxAttempts
  <2>1. /\ call[r].step = "count" /\ UNCHANGED <<kind, stored, issued, sends, opened, guesses>>
        /\ wrong' \in C!Counter /\ wrong'.count = wrong.count + 1 /\ wrong'.ttl = wrong.ttl
        /\ wrong.count \in Nat
    BY <1>0, <1>3, CounterSteps DEF C!incrementAttempts
  <2>2. \E step \in {"window", "drop", "idle"} :
          /\ Moved(r, step)
          /\ wrong.count = 0 <=> step = "window"
          /\ full => step = "drop" \/ (step = "window" /\ call'[r].full)
    <3>1. CASE wrong.count = 0
      <4>. DEFINE k == [call[r] EXCEPT !.step = "window", !.full = full]
      <4>1. call[r] \in C!Call /\ full \in BOOLEAN
        BY <1>0
      <4>2. k \in C!Call /\ k.step = "window" /\ k.full = full
        BY <4>1 DEF C!Call
      <4>3. call' = [call EXCEPT ![r] = k]
        BY <1>0, <1>3, <3>1 DEF C!incrementAttempts, C!OpensWindow
      <4>. HIDE DEF k, full
      <4>4. Moved(r, "window") /\ call'[r].full = full
        BY <1>0, <4>2, <4>3 DEF Moved
      <4>. QED BY <3>1, <4>4
    <3>2. CASE wrong.count # 0 /\ full
      <4>1. C!Step(r, "drop")
        BY <1>3, <3>2 DEF C!incrementAttempts, C!OpensWindow
      <4>. QED BY <1>0, <3>2, <4>1, CallMoves DEF CallSteps
    <3>3. CASE wrong.count # 0 /\ ~full
      <4>1. C!Return(r)
        BY <1>3, <3>3 DEF C!incrementAttempts, C!OpensWindow
      <4>. QED BY <1>0, <3>3, <4>1, CallMoves
    <3>. QED BY <3>1, <3>2, <3>3
  <2>3. PICK step \in {"window", "drop", "idle"} :
          /\ Moved(r, step)
          /\ wrong.count = 0 <=> step = "window"
          /\ full => step = "drop" \/ (step = "window" /\ call'[r].full)
    BY <2>2
  <2>4. C!TypeOK'
    BY <1>0, <2>1, <2>3 DEF C!TypeOK, Moved
  <2>5. WindowsOpen'
    BY <1>0, <2>1, <2>3 DEF CodeInv, WindowsOpen, Moved
  <2>6. /\ Counting' = Counting \ {r} /\ r \in Counting /\ r \in Spare
        /\ Spare' = Spare /\ Dropping \subseteq Dropping' /\ (full => r \in Dropping')
    <3>1. Counting' = Counting \ {r} /\ r \in Counting /\ r \in Spare /\ Spare' = Spare
      BY <1>0, <2>1, <2>3, CallCounts DEF Counting, Spare
    <3>2. r \notin Dropping /\ (full => r \in Dropping')
      BY <2>1, <2>3 DEF Dropping, Moved
    <3>. QED BY <1>0, <2>3, <3>1, <3>2, CallCounts
  <2>. DEFINE hidden == (MaxAttempts - 1) * (Cardinality(Spare) - 1)
  <2>7. /\ Cardinality(Counting') = Cardinality(Counting) - 1 /\ Cardinality(Counting) \in Nat
        /\ hidden \in Int
    BY <1>0, <2>6, CallCardinality
  <2>8. /\ GuessBound = Counted + Cardinality(Counting) + hidden
        /\ GuessBound' = Counted' + Cardinality(Counting') + hidden
    BY <2>6 DEF GuessBound
  <2>. HIDE DEF hidden
  <2>9. ~full => GuessBound' = GuessBound
    BY <1>0, <2>1, <2>7, <2>8 DEF Counted
  <2>10. GuessesCounted'
    BY <2>1, <2>6, <2>9 DEF CodeInv, GuessesCounted
  <2>. QED BY <2>4, <2>5, <2>10 DEF CodeInv
<1>4. ASSUME C!ExpireAttempts(r)
      PROVE  CodeInv'
  <2>1. /\ call[r].step = "window" /\ UNCHANGED <<kind, stored, issued, sends, opened, guesses>>
        /\ wrong' \in C!Counter /\ wrong'.count = wrong.count /\ wrong'.ttl = (wrong.count > 0)
    BY <1>0, <1>4, CounterSteps DEF C!ExpireAttempts
  <2>2. PICK step \in {"drop", "idle"} : Moved(r, step) /\ (call[r].full => step = "drop")
    BY <1>0, <1>4, CallMoves DEF C!ExpireAttempts, CallSteps
  <2>3. C!TypeOK'
    BY <1>0, <2>1, <2>2 DEF C!TypeOK, Moved
  <2>4. WindowsOpen'
    BY <2>1, <2>2 DEF CodeInv, WindowsOpen, Moved
  <2>5. r \in Dropping => r \in Dropping'
    BY <2>1, <2>2 DEF Dropping, Moved
  <2>6. GuessesCounted'
    BY <2>1, <2>2, <2>5, GuessesKept
  <2>. QED BY <2>3, <2>4, <2>6 DEF CodeInv
\* The secret is deleted.
<1>5. ASSUME NEW step \in {"reset", "create", "idle"}, Moved(r, step), stored' = {},
             call[r].step \notin {"window", "resendWindow"},
             UNCHANGED <<kind, issued, wrong, sends, guesses>>, opened' \in [Codes -> Nat]
      PROVE  CodeInv'
  <2>1. C!TypeOK'
    BY <1>0, <1>5 DEF C!TypeOK, Moved
  <2>2. WindowsOpen'
    BY <1>5 DEF CodeInv, WindowsOpen, Moved
  <2>. QED BY <1>5, <2>1, <2>2 DEF CodeInv, GuessesCounted
<1>6. ASSUME C!invalidate(r) \/ C!Forget(r)
      PROVE  CodeInv'
  <2>1. CASE C!invalidate(r)
    BY <1>0, <1>5, <2>1, CallMoves DEF C!invalidate, CallSteps
  <2>2. CASE C!Forget(r)
    BY <1>0, <1>5, <2>2, CallMoves DEF C!Forget, CallSteps
  <2>. QED BY <1>6, <2>1, <2>2
<1>7. ASSUME C!Accept(r)
      PROVE  CodeInv'
  <2>1. opened' \in [Codes -> Nat]
    BY <1>0, <1>7 DEF C!Accept
  <2>2. Moved(r, "reset") \/ Moved(r, "idle")
    BY <1>0, <1>7, CallMoves DEF C!Accept, CallSteps
  <2>. QED BY <1>5, <1>7, <2>1, <2>2 DEF C!Accept
<1>8. ASSUME C!resetAttempts(r)
      PROVE  CodeInv'
  <2>1. /\ call[r].step = "reset" /\ UNCHANGED <<kind, stored, issued, sends, opened, guesses>>
        /\ wrong' \in C!Counter /\ wrong'.count = 0
        /\ Moved(r, "idle")
    BY <1>0, <1>8, CounterSteps, CallMoves DEF C!resetAttempts
  <2>2. C!TypeOK'
    BY <1>0, <2>1 DEF C!TypeOK, Moved
  <2>3. WindowsOpen'
    BY <2>1 DEF CodeInv, WindowsOpen, Moved
  <2>4. /\ Counting' = Counting /\ Dropping' = Dropping
        /\ Spare' = Spare \cup {r} /\ r \notin Spare
    BY <1>0, <2>1, CallCounts DEF Counting, Spare, Dropping
  <2>. DEFINE n == Cardinality(Spare)
  <2>5. Cardinality(Spare') = n + 1 /\ n \in Nat /\ Cardinality(Counting) \in Nat
    BY <2>4, CallCardinality
  <2>6. /\ GuessBound = Counted + Cardinality(Counting) + (MaxAttempts - 1) * (n - 1)
        /\ GuessBound' = Counted' + Cardinality(Counting) + (MaxAttempts - 1) * ((n + 1) - 1)
    BY <2>4, <2>5 DEF GuessBound
  <2>7. Counted' = 0 /\ Counted <= MaxAttempts - 1 /\ Counted \in Int
    BY <1>0, <2>1, CounterSteps DEF Counted
  <2>. HIDE DEF n
  <2>8. (MaxAttempts - 1) * ((n + 1) - 1) = (MaxAttempts - 1) * (n - 1) + (MaxAttempts - 1)
    BY <1>0, <2>5, OneResetMore
  <2>9. (MaxAttempts - 1) * (n - 1) \in Int
    BY <1>0, <2>5
  <2>10. GuessBound <= GuessBound' /\ GuessBound \in Int /\ GuessBound' \in Int
    BY <1>0, <2>5, <2>6, <2>7, <2>8, <2>9
  <2>11. GuessesCounted'
    BY <1>0, <2>1, <2>4, <2>10 DEF CodeInv, GuessesCounted
  <2>. QED BY <2>2, <2>3, <2>11 DEF CodeInv
<1>9. ASSUME C!publishVerificationCredential(r)
      PROVE  CodeInv'
  <2>1. Moved(r, "create")
    BY <1>0, <1>9, CallMoves DEF C!publishVerificationCredential, CallSteps
  <2>. QED BY <1>1, <1>9, <2>1 DEF C!publishVerificationCredential, CallSteps
<1>10. ASSUME C!Resend(r)
       PROVE  CodeInv'
  <2>1. PICK step \in {"resendWindow", "idle", "create", "forget"} :
          Moved(r, step) /\ (sends.count = 0 => step = "resendWindow")
    <3>1. CASE sends.count = 0
      <4>. DEFINE full == sends'.count > MaxSends
                  k == [call[r] EXCEPT !.step = "resendWindow", !.full = full]
      <4>1. call[r] \in C!Call /\ full \in BOOLEAN
        BY <1>0
      <4>2. k \in C!Call /\ k.step = "resendWindow"
        BY <4>1 DEF C!Call
      <4>3. call' = [call EXCEPT ![r] = k]
        BY <1>0, <1>10, <3>1 DEF C!Resend, C!OpensWindow
      <4>. HIDE DEF k
      <4>4. Moved(r, "resendWindow")
        BY <1>0, <4>2, <4>3 DEF Moved
      <4>. QED BY <4>4
    <3>2. CASE sends.count # 0
      <4>1. C!Return(r) \/ C!Step(r, "create") \/ C!Step(r, "forget")
        BY <1>10, <3>2 DEF C!Resend, C!OpensWindow
      <4>. QED BY <1>0, <3>2, <4>1, CallMoves DEF CallSteps
    <3>. QED BY <3>1, <3>2
  <2>. QED BY <1>1, <1>10, <2>1 DEF C!Resend, CallSteps
<1>11. ASSUME C!ExpireSends(r)
       PROVE  CodeInv'
  <2>1. /\ call[r].step = "resendWindow"
        /\ UNCHANGED <<kind, stored, issued, wrong, opened, guesses>>
        /\ sends' \in C!Counter /\ sends'.count = sends.count /\ sends'.ttl = (sends.count > 0)
    BY <1>0, <1>11, CounterSteps DEF C!ExpireSends
  <2>2. PICK step \in {"idle", "create", "forget"} : Moved(r, step)
    BY <1>0, <1>11, CallMoves DEF C!ExpireSends, CallSteps
  <2>3. C!TypeOK'
    BY <1>0, <2>1, <2>2 DEF C!TypeOK, Moved
  <2>4. WindowsOpen'
    BY <2>1, <2>2 DEF CodeInv, WindowsOpen, Moved
  <2>5. GuessesCounted'
    BY <2>1, <2>2, GuessesKept DEF Dropping
  <2>. QED BY <2>3, <2>4, <2>5 DEF CodeInv
<1>12. ASSUME NEW c \in Codes, C!create(r, c)
       PROVE  CodeInv'
  <2>1. /\ call[r].step = "create" /\ UNCHANGED <<kind, wrong, sends, opened>>
        /\ stored' = {c} /\ issued' = issued \cup {c} /\ guesses' = 0 /\ Moved(r, "idle")
    BY <1>0, <1>12, CallMoves DEF C!create
  <2>2. C!TypeOK'
    BY <1>0, <2>1 DEF C!TypeOK, Moved
  <2>3. WindowsOpen'
    BY <2>1 DEF CodeInv, WindowsOpen, Moved
  <2>4. r \in Spare' /\ Spare' = Spare /\ Counting' = Counting
    BY <1>0, <2>1, CallCounts DEF Counting, Spare
  <2>5. 0 <= GuessBound'
    <3>1. Cardinality(Spare) >= 1 /\ Cardinality(Spare) \in Nat /\ Cardinality(Counting) \in Nat
      BY <2>4, CallCardinality
    <3>2. (MaxAttempts - 1) * (Cardinality(Spare) - 1) >= 0
      BY <1>0, <3>1, OneResetMore
    <3>3. (MaxAttempts - 1) * (Cardinality(Spare) - 1) \in Int
      BY <1>0, <3>1
    <3>4. Counted >= 0 /\ Counted \in Int /\ Counted' = Counted
      BY <1>0, <2>1, CounterSteps DEF Counted
    <3>5. GuessBound' = Counted + Cardinality(Counting) + (MaxAttempts - 1) * (Cardinality(Spare) - 1)
      BY <2>4, <3>4 DEF GuessBound
    <3>. QED BY <3>1, <3>2, <3>3, <3>4, <3>5
  <2>6. GuessesCounted'
    BY <2>1, <2>4, <2>5 DEF GuessesCounted
  <2>. QED BY <2>2, <2>3, <2>6 DEF CodeInv
<1>. QED BY <1>2, <1>3, <1>4, <1>6, <1>7, <1>8, <1>9, <1>10, <1>11, <1>12 DEF C!Serve

LEMMA CodeInvariant == Spec => []CodeInv
<1>1. Init => CodeInv
  <2>. SUFFICES ASSUME C!Init PROVE CodeInv
    BY DEF Init
  <2>1. C!Waiting \in C!Call /\ C!NoCounter \in C!Counter /\ C!NoCounter.count = 0
    BY DEF C!Waiting, C!Call, C!NoCounter, C!Counter
  <2>2. C!TypeOK
    BY <2>1 DEF C!Init, C!TypeOK
  <2>. QED BY <2>1, <2>2 DEF C!Init, CodeInv, WindowsOpen, GuessesCounted
<1>2. CodeInv /\ [Next]_all => CodeInv'
  <2>. SUFFICES ASSUME CodeInv, [Next]_all PROVE CodeInv'
    OBVIOUS
  <2>0. /\ kind \in C!Kinds /\ stored \in SUBSET Codes /\ (\A c, d \in stored : c = d)
        /\ issued \in SUBSET Codes /\ wrong \in C!Counter /\ sends \in C!Counter
        /\ call \in [Calls -> C!Call] /\ opened \in [Codes -> Nat] /\ guesses \in Nat
    BY DEF CodeInv, C!TypeOK
  <2>1. CASE UNCHANGED codes
    <3>1. C!TypeOK' /\ WindowsOpen'
      BY <2>1 DEF codes, CodeInv, C!TypeOK, WindowsOpen
    <3>2. Counting' = Counting /\ Dropping' = Dropping /\ Spare' = Spare /\ Counted' = Counted
      BY <2>1 DEF codes, Counting, Dropping, Spare, Counted
    <3>. QED BY <2>1, <3>1, <3>2 DEF codes, CodeInv, GuessesCounted, GuessBound
  <2>2. CASE C!SecretExpires
    BY <2>0, <2>2 DEF C!SecretExpires, CodeInv, C!TypeOK, WindowsOpen, GuessesCounted
  <2>3. CASE C!AttemptsExpire
    <3>1. /\ UNCHANGED <<kind, stored, issued, sends, call, opened>> /\ guesses' = 0
          /\ wrong' \in C!Counter /\ wrong'.count = 0
      BY <2>0, <2>3, CounterSteps DEF C!AttemptsExpire
    <3>2. C!TypeOK' /\ WindowsOpen'
      BY <2>0, <3>1 DEF CodeInv, C!TypeOK, WindowsOpen
    <3>3. Counting' = Counting /\ Spare' = Spare /\ Counted' = 0
      BY <3>1, AccountsAssumption DEF Counting, Spare, Counted
    <3>4. Spare # {} => 0 <= GuessBound'
      <4>1. CASE Spare = {}
        BY <4>1
      <4>2. CASE Spare # {}
        <5>1. Cardinality(Spare) >= 1 /\ Cardinality(Spare) \in Nat /\ Cardinality(Counting) \in Nat
          BY <4>2, CallCardinality
        <5>2. /\ (MaxAttempts - 1) * (Cardinality(Spare) - 1) >= 0
              /\ (MaxAttempts - 1) * (Cardinality(Spare) - 1) \in Int
          BY <5>1, OneResetMore, AccountsAssumption
        <5>3. GuessBound' = 0 + Cardinality(Counting) + (MaxAttempts - 1) * (Cardinality(Spare) - 1)
          BY <3>3 DEF GuessBound
        <5>. QED BY <5>1, <5>2, <5>3
      <4>. QED BY <4>1, <4>2
    <3>. QED BY <3>1, <3>2, <3>3, <3>4 DEF CodeInv, GuessesCounted
  <2>4. CASE C!SendsExpire
    <3>1. /\ UNCHANGED <<kind, stored, issued, wrong, call, opened, guesses>>
          /\ sends' \in C!Counter /\ sends'.count = 0
      BY <2>0, <2>4, CounterSteps DEF C!SendsExpire
    <3>2. C!TypeOK' /\ WindowsOpen'
      BY <2>0, <3>1 DEF CodeInv, C!TypeOK, WindowsOpen
    <3>3. Counting' = Counting /\ Dropping' = Dropping /\ Spare' = Spare /\ Counted' = Counted
      BY <3>1 DEF Counting, Dropping, Spare, Counted
    <3>. QED BY <3>1, <3>2, <3>3 DEF CodeInv, GuessesCounted, GuessBound
  <2>5. CASE \E r \in Calls : C!Serve(r)
    BY <2>5, CodeStep
  <2>. QED BY <2>1, <2>2, <2>3, <2>4, <2>5 DEF Next, CleanUp, all, C!Next
<1>. QED BY <1>1, <1>2, PTL DEF Spec

\* Once the calls for a key have returned, a counter that counts has a TTL: no
\* interleaving of INCR, EXPIRE and reset locks a user out for ever (OtpService,
\* VerificationLinkService, RateLimitService).
THEOREM CountersAlwaysExpire == Spec => []CountersExpire
<1>1. CodeInv => CountersExpire
  BY DEF CodeInv, WindowsOpen, CountersExpire, C!CountersExpire, C!Quiet
<1>. QED BY <1>1, CodeInvariant, PTL

\* However many calls overlap, a code that is still stored once they have returned
\* was guessed at no more than MaxAttempts - 1 times per call, for every number of
\* calls and every limit (OtpService.verify).
THEOREM GuessesLimited == Spec => []GuessLimit
<1>1. ASSUME CodeInv, C!Quiet, stored # {}
      PROVE  guesses <= (MaxAttempts - 1) * Cardinality(Calls)
  <2>1. Counting = {} /\ Dropping = {} /\ Spare = Calls
    BY <1>1 DEF C!Quiet, Counting, Dropping, Spare
  <2>2. Cardinality(Counting) = 0 /\ Cardinality(Calls) \in Nat /\ guesses \in Nat
    BY <2>1, FS_EmptySet, AccountsAssumption, FS_CardinalityType, <1>1 DEF CodeInv, C!TypeOK
  <2>3. guesses <= Counted + 0 + (MaxAttempts - 1) * (Cardinality(Calls) - 1)
    BY <1>1, <2>1, <2>2 DEF CodeInv, GuessesCounted, GuessBound
  <2>4. Counted <= MaxAttempts - 1 /\ Counted \in Int
    <3>1. wrong.count \in Nat
      BY <1>1, CounterSteps DEF CodeInv, C!TypeOK
    <3>. QED BY <3>1, AccountsAssumption DEF Counted
  <2>5. (MaxAttempts - 1) * Cardinality(Calls)
          = (MaxAttempts - 1) * (Cardinality(Calls) - 1) + (MaxAttempts - 1)
    BY <2>2, AccountsAssumption
  <2>6. (MaxAttempts - 1) * (Cardinality(Calls) - 1) \in Int
    BY <2>2, AccountsAssumption
  <2>. QED BY <2>2, <2>3, <2>4, <2>5, <2>6, AccountsAssumption
<1>2. CodeInv => GuessLimit
  BY <1>1 DEF GuessLimit, C!GuessLimit
<1>. QED BY <1>2, CodeInvariant, PTL

-----------------------------------------------------------------------------
(***************************************************************************)
(* Sign-in.  The wrong passwords since the last unlock are in the count of *)
(* failures, in a request that has yet to add its own, or lost.  While the *)
(* account is not locked, all but MaxAttempts - 1 of them are lost or      *)
(* belong to requests in flight: one that found the limit reached goes on  *)
(* to lock.                                                                *)
(***************************************************************************)
Failed == {r \in Logins : login[r].step = "failed"}
Trying == {r \in Logins : login[r].step \in {"failed", "publish", "tally", "lock"}}

SignInInv ==
  /\ S!TypeOK
  /\ misses <= user.failedLoginAttempts + Cardinality(Failed) + lost
  /\ user.lock # "on" => misses <= (MaxAttempts - 1) + Cardinality(Trying) + lost
  /\ misses <= (MaxAttempts - 1) + Cardinality(Logins) + lost

LEMMA LoginCardinality ==
  /\ Cardinality(Failed) \in Nat /\ Cardinality(Trying) \in Nat /\ Cardinality(Logins) \in Nat
  /\ Cardinality(Trying) <= Cardinality(Logins)
  /\ \A S1 \in SUBSET Logins, S2 \in SUBSET Logins :
       S1 \subseteq S2 => Cardinality(S1) <= Cardinality(S2)
  /\ \A S1 \in SUBSET Logins : Cardinality(S1) \in Nat
  /\ \A S1 \in SUBSET Logins, r \in Logins :
       /\ Cardinality(S1 \cup {r}) = IF r \in S1 THEN Cardinality(S1) ELSE Cardinality(S1) + 1
       /\ Cardinality(S1 \ {r}) = IF r \in S1 THEN Cardinality(S1) - 1 ELSE Cardinality(S1)
<1>1. Failed \subseteq Logins /\ Trying \subseteq Logins
  BY DEF Failed, Trying
<1>2. \A S1 \in SUBSET Logins : IsFiniteSet(S1)
  BY AccountsAssumption, FS_Subset
<1>3. \A S1 \in SUBSET Logins : Cardinality(S1) \in Nat
  BY <1>2, FS_CardinalityType
<1>4. ASSUME NEW S1 \in SUBSET Logins, NEW S2 \in SUBSET Logins, S1 \subseteq S2
      PROVE  Cardinality(S1) <= Cardinality(S2)
  BY <1>2, <1>4, FS_Subset
<1>5. ASSUME NEW S1 \in SUBSET Logins, NEW r \in Logins
      PROVE  /\ Cardinality(S1 \cup {r}) = IF r \in S1 THEN Cardinality(S1) ELSE Cardinality(S1) + 1
             /\ Cardinality(S1 \ {r}) = IF r \in S1 THEN Cardinality(S1) - 1 ELSE Cardinality(S1)
  BY <1>2, FS_AddElement, FS_RemoveElement
<1>. QED BY <1>1, <1>3, <1>4, <1>5

LoginSteps == {"idle", "read", "failed", "publish", "tally", "lock", "matched", "unlock"}

\* Request r, and no other, goes to a step.
Advanced(r, step) ==
  /\ login' \in [Logins -> S!Login]
  /\ login'[r].step = step
  /\ \A q \in Logins \ {r} : login'[q] = login[q]

LEMMA AnyLogin ==
  S!NewUser \in S!User /\ S!Closed \in S!Login /\ S!Closed.step = "idle"
<1>1. S!AnyPassword \in Passwords
  BY AccountsAssumption DEF S!AnyPassword
<1>2. S!NewUser \in S!User /\ S!NewUser.status = "pending_verification"
      /\ S!NewUser.password \in Passwords
  BY <1>1, AccountsAssumption DEF S!NewUser, S!User
<1>3. S!CopyOf(S!NewUser) \in S!Copy
  BY <1>2 DEF S!CopyOf, S!Copy
<1>4. S!Closed \in S!Login /\ S!Closed.step = "idle"
  BY <1>1, <1>3 DEF S!Closed, S!Login
<1>. QED BY <1>2, <1>4

LEMMA LoginMoves ==
  ASSUME S!TypeOK, NEW r \in Logins
  PROVE  /\ \A step \in LoginSteps : S!To(r, step) => Advanced(r, step)
         /\ S!Finish(r) => Advanced(r, "idle")
<1>1. login \in [Logins -> S!Login] /\ login[r] \in S!Login
  BY DEF S!TypeOK
<1>2. ASSUME NEW step \in LoginSteps, S!To(r, step)
      PROVE  Advanced(r, step)
  <2>. DEFINE k == [S!Closed EXCEPT !.op = login[r].op, !.step = step]
  <2>1. k \in S!Login /\ k.step = step
    BY <1>1, AnyLogin DEF S!Login, LoginSteps
  <2>2. login' = [login EXCEPT ![r] = k]
    BY <1>1, <1>2 DEF S!To
  <2>. HIDE DEF k
  <2>. QED BY <1>1, <2>1, <2>2 DEF Advanced
<1>3. ASSUME S!Finish(r)
      PROVE  Advanced(r, "idle")
  BY <1>1, <1>3, AnyLogin DEF S!Finish, Advanced
<1>. QED BY <1>2, <1>3

\* A request goes on with what it was given and has read.
LEMMA StepForward ==
  ASSUME S!TypeOK, NEW r \in Logins, NEW step \in LoginSteps,
         login' = [login EXCEPT ![r].step = step]
  PROVE  Advanced(r, step)
<1>1. login \in [Logins -> S!Login] /\ login[r] \in S!Login
  BY DEF S!TypeOK
<1>. DEFINE k == [login[r] EXCEPT !.step = step]
<1>2. k \in S!Login /\ k.step = step
  BY <1>1 DEF S!Login, LoginSteps
<1>3. login' = [login EXCEPT ![r] = k]
  BY <1>1
<1>. HIDE DEF k
<1>. QED BY <1>1, <1>2, <1>3 DEF Advanced

LEMMA LoginCounts ==
  ASSUME S!TypeOK, NEW r \in Logins, NEW step, Advanced(r, step)
  PROVE  /\ Failed' = IF step = "failed" THEN Failed \cup {r} ELSE Failed \ {r}
         /\ Trying' = IF step \in {"failed", "publish", "tally", "lock"} THEN Trying \cup {r}
                      ELSE Trying \ {r}
  BY DEF Advanced, Failed, Trying

\* A request outside the tally takes a step that fails nothing, and leaves the
\* count of failures and the lock alone.
LEMMA LoginQuiet ==
  ASSUME SignInInv, NEW r \in Logins, NEW step, Advanced(r, step), step # "failed",
         r \notin Trying, UNCHANGED <<misses, lost>>, user' \in S!User,
         user'.failedLoginAttempts = user.failedLoginAttempts, user'.lock = user.lock
  PROVE  SignInInv'
<1>1. Failed \subseteq Trying
  BY DEF Failed, Trying
<1>2. Failed' = Failed /\ Trying \subseteq Trying' /\ Trying' \subseteq Logins /\ Trying \subseteq Logins
  BY <1>1, LoginCounts DEF SignInInv, Failed, Trying
<1>3. Cardinality(Trying) <= Cardinality(Trying') /\ Cardinality(Trying') \in Nat
      /\ Cardinality(Trying) \in Nat
  BY <1>2, LoginCardinality
<1>4. S!TypeOK'
  BY DEF SignInInv, S!TypeOK, Advanced
<1>5. misses \in Nat /\ lost \in Nat /\ MaxAttempts \in Nat \ {0}
  BY AccountsAssumption DEF SignInInv, S!TypeOK
<1>. QED BY <1>2, <1>3, <1>4, <1>5 DEF SignInInv

\* The account is unlocked, or the lock ends: nothing has been tried since.
LEMMA NoMisses ==
  ASSUME SignInInv, misses' = 0, lost' = 0, user' \in S!User, login' \in [Logins -> S!Login]
  PROVE  SignInInv'
<1>1. Failed' \in SUBSET Logins /\ Trying' \in SUBSET Logins
  BY DEF Failed, Trying
<1>2. Cardinality(Failed') \in Nat /\ Cardinality(Trying') \in Nat /\ Cardinality(Logins) \in Nat
  BY <1>1, LoginCardinality
<1>3. user'.failedLoginAttempts \in Nat /\ MaxAttempts \in Nat \ {0}
  BY AccountsAssumption DEF S!User
<1>. QED BY <1>2, <1>3 DEF SignInInv, S!TypeOK

LEMMA SignInStep ==
  ASSUME SignInInv, NEW r \in Logins, S!Handle(r)
  PROVE  SignInInv'
<1>0. /\ S!TypeOK /\ user \in S!User /\ login \in [Logins -> S!Login]
      /\ misses \in Nat /\ lost \in Nat
      /\ MaxAttempts \in Nat \ {0} /\ MaxFailed \in Nat
      /\ user.failedLoginAttempts \in 0..MaxFailed
  BY AccountsAssumption DEF SignInInv, S!TypeOK, S!User
<1>0a. Failed \in SUBSET Logins /\ Trying \in SUBSET Logins /\ Failed \subseteq Trying
  BY DEF Failed, Trying
<1>1. ASSUME NEW op \in {"login", "oauth", "change", "reset"}, NEW given \in Passwords,
             S!Start(r, op, given)
      PROVE  SignInInv'
  <2>. DEFINE k == [op |-> op, step |-> "read", given |-> given, seen |-> S!CopyOf(user)]
  <2>1. S!CopyOf(user) \in S!Copy
    BY <1>0 DEF S!CopyOf, S!Copy, S!User
  <2>2. k \in S!Login /\ k.step = "read"
    BY <2>1 DEF S!Login
  <2>3. /\ login' = [login EXCEPT ![r] = k] /\ login[r].step = "idle"
        /\ UNCHANGED <<user, misses, lost>>
    BY <1>1 DEF S!Start
  <2>. HIDE DEF k
  <2>4. Advanced(r, "read") /\ r \notin Trying
    BY <1>0, <2>2, <2>3 DEF Advanced, Trying
  <2>. QED BY <1>0, <2>3, <2>4, LoginQuiet
<1>2. ASSUME S!ComparePassword(r)
      PROVE  SignInInv'
  <2>1. login[r].step = "read" /\ UNCHANGED <<user, lost>> /\ r \notin Trying /\ r \notin Failed
    BY <1>2 DEF S!ComparePassword, S!At, Trying, Failed
  <2>2. CASE UNCHANGED misses /\ S!Finish(r)
    BY <1>0, <2>1, <2>2, LoginMoves, LoginQuiet
  <2>4. CASE UNCHANGED misses /\ login' = [login EXCEPT ![r].step = "matched"]
    <3>1. Advanced(r, "matched")
      BY <1>0, <2>4, StepForward DEF LoginSteps
    <3>. QED BY <1>0, <2>1, <2>4, <3>1, LoginQuiet
  <2>3. CASE user.lock # "on" /\ S!To(r, "failed") /\ misses' = misses + 1
    <3>1. Advanced(r, "failed")
      BY <1>0, <2>3, LoginMoves DEF LoginSteps
    <3>2. Failed' = Failed \cup {r} /\ Trying' = Trying \cup {r}
      BY <1>0, <3>1, LoginCounts
    <3>3. /\ Cardinality(Failed') = Cardinality(Failed) + 1
          /\ Cardinality(Trying') = Cardinality(Trying) + 1
      BY <1>0a, <2>1, <3>2, LoginCardinality
    <3>4. Trying' \in SUBSET Logins
      BY <1>0a, <3>2
    <3>5. /\ Cardinality(Trying') <= Cardinality(Logins)
          /\ Cardinality(Failed) \in Nat /\ Cardinality(Trying) \in Nat /\ Cardinality(Logins) \in Nat
      BY <3>4, LoginCardinality
    <3>6. S!TypeOK'
      BY <1>0, <2>1, <2>3, <3>1 DEF S!TypeOK, Advanced
    <3>. QED BY <1>0, <2>1, <2>3, <3>3, <3>5, <3>6 DEF SignInInv
  <2>. QED BY <1>2, <2>2, <2>3, <2>4 DEF S!ComparePassword, S!isLockedNow
<1>3. ASSUME S!incrementFailedLoginAttempts(r)
      PROVE  SignInInv'
  <2>1. /\ login[r].step = "failed" /\ r \in Failed /\ r \in Trying
        /\ UNCHANGED <<misses, lost>> /\ Advanced(r, "publish")
    BY <1>0, <1>3, LoginMoves DEF S!incrementFailedLoginAttempts, S!At, LoginSteps, Failed, Trying
  <2>2. /\ user' \in S!User /\ user'.failedLoginAttempts = user.failedLoginAttempts + 1
        /\ user'.lock = user.lock
    BY <1>0, <1>3 DEF S!incrementFailedLoginAttempts, S!User
  <2>3. Failed' = Failed \ {r} /\ Trying' = Trying
    BY <1>0, <2>1, LoginCounts
  <2>4. Cardinality(Failed') = Cardinality(Failed) - 1 /\ Cardinality(Failed) \in Nat
    BY <1>0a, <2>1, <2>3, LoginCardinality
  <2>5. S!TypeOK'
    BY <1>0, <2>1, <2>2 DEF S!TypeOK, Advanced
  <2>. QED BY <1>0, <2>1, <2>2, <2>3, <2>4, <2>5 DEF SignInInv
<1>4. ASSUME S!isLocked(r)
      PROVE  SignInInv'
  <2>1. UNCHANGED <<user, misses, lost>> /\ r \in Trying /\ r \notin Failed
    BY <1>4 DEF S!isLocked, S!At, Trying, Failed
  <2>2. CASE S!To(r, "lock")
    <3>1. Advanced(r, "lock")
      BY <1>0, <2>2, LoginMoves DEF LoginSteps
    <3>2. Failed' = Failed /\ Trying' = Trying
      BY <1>0, <2>1, <3>1, LoginCounts
    <3>. QED BY <1>0, <2>1, <3>1, <3>2 DEF SignInInv, S!TypeOK, Advanced
  <2>3. CASE user.failedLoginAttempts < MaxAttempts /\ S!Finish(r)
    <3>1. Advanced(r, "idle")
      BY <1>0, <2>3, LoginMoves
    <3>2. Failed' = Failed /\ Trying' = Trying \ {r} /\ Failed \subseteq Trying'
      BY <1>0, <1>0a, <2>1, <3>1, LoginCounts
    <3>3. Trying' \in SUBSET Logins
      BY <1>0a, <3>2
    <3>4. /\ Cardinality(Failed) <= Cardinality(Trying') /\ Cardinality(Failed) \in Nat
          /\ Cardinality(Trying') \in Nat
      BY <1>0a, <3>2, <3>3, LoginCardinality
    <3>5. S!TypeOK'
      BY <1>0, <2>1, <3>1 DEF S!TypeOK, Advanced
    <3>6. misses <= (MaxAttempts - 1) + Cardinality(Trying') + lost
      BY <1>0, <2>3, <3>4 DEF SignInInv
    <3>. QED BY <2>1, <3>2, <3>5, <3>6 DEF SignInInv
  <2>. QED BY <1>0, <1>4, <2>2, <2>3 DEF S!isLocked
<1>5. ASSUME S!lockAccount(r)
      PROVE  SignInInv'
  <2>1. UNCHANGED <<misses, lost>> /\ r \notin Failed /\ Advanced(r, "idle")
    BY <1>0, <1>5, LoginMoves DEF S!lockAccount, S!At, Failed
  <2>2. /\ user' \in S!User /\ user'.failedLoginAttempts = user.failedLoginAttempts
        /\ user'.lock = "on"
    BY <1>0, <1>5 DEF S!lockAccount, S!User
  <2>3. Failed' = Failed
    BY <1>0, <2>1, LoginCounts
  <2>. QED BY <1>0, <2>1, <2>2, <2>3 DEF SignInInv, S!TypeOK, Advanced
<1>6. ASSUME S!CreateSession(r)
      PROVE  SignInInv'
  <2>1. UNCHANGED <<user, misses, lost>> /\ r \notin Trying
    BY <1>6 DEF S!CreateSession, S!At, Trying
  <2>2. login[r].seen.status \in {"pending_verification", "active", "suspended"}
    BY <1>0 DEF S!Login, S!Copy
  <2>3. S!Finish(r) \/ S!To(r, "tally") \/ S!To(r, "unlock")
    BY <1>6, <2>2 DEF S!CreateSession
  <2>. QED BY <1>0, <2>1, <2>3, LoginMoves, LoginQuiet DEF LoginSteps
<1>7. ASSUME S!unlockAccount(r)
      PROVE  SignInInv'
  <2>1. misses' = 0 /\ lost' = 0 /\ Advanced(r, "idle")
    BY <1>0, <1>7, LoginMoves DEF S!unlockAccount
  <2>2. user' \in S!User
    <3>1. user' = [user EXCEPT !.failedLoginAttempts = 0, !.lock = "none"]
      BY <1>7 DEF S!unlockAccount
    <3>2. 0 \in 0..MaxFailed
      BY <1>0
    <3>3. [user EXCEPT !.failedLoginAttempts = 0] \in S!User
      BY <1>0, <3>2 DEF S!User
    <3>. QED BY <1>0, <3>1, <3>2, <3>3 DEF S!User
  <2>. QED BY <2>1, <2>2, NoMisses DEF Advanced
<1>8. ASSUME S!oauthLogin(r)
      PROVE  SignInInv'
  <2>1. UNCHANGED <<user, misses, lost>> /\ r \notin Trying
    BY <1>8 DEF S!oauthLogin, S!At, Trying
  <2>2. S!Finish(r) \/ S!To(r, "unlock")
    BY <1>8 DEF S!oauthLogin
  <2>. QED BY <1>0, <2>1, <2>2, LoginMoves, LoginQuiet DEF LoginSteps
<1>9. ASSUME NEW new \in Passwords, S!changePassword(r, new) \/ S!resetPassword(r)
      PROVE  SignInInv'
  <2>1. UNCHANGED <<misses, lost>> /\ r \notin Trying
    BY <1>9 DEF S!changePassword, S!resetPassword, S!At, Trying
  <2>2. S!Finish(r) \/ S!To(r, "unlock")
    BY <1>9 DEF S!changePassword, S!resetPassword
  <2>3. login[r].given \in Passwords
    BY <1>0 DEF S!Login
  <2>4. PICK p \in Passwords : user' = [user EXCEPT !.password = p] \/ user' = user
    BY <1>9, <2>3 DEF S!changePassword, S!resetPassword
  <2>5. /\ user' \in S!User /\ user'.failedLoginAttempts = user.failedLoginAttempts
        /\ user'.lock = user.lock
    BY <1>0, <2>4 DEF S!User
  <2>. QED BY <1>0, <2>1, <2>2, <2>5, LoginMoves, LoginQuiet DEF LoginSteps
<1>10. ASSUME S!PublishLoginFailed(r)
       PROVE  SignInInv'
  <2>1. UNCHANGED <<user, misses, lost>> /\ r \in Trying /\ r \notin Failed /\ Advanced(r, "tally")
    BY <1>0, <1>10, LoginMoves DEF S!PublishLoginFailed, S!At, Trying, Failed, LoginSteps
  <2>2. Failed' = Failed /\ Trying' = Trying
    BY <1>0, <2>1, LoginCounts
  <2>. QED BY <1>0, <2>1, <2>2 DEF SignInInv, S!TypeOK, Advanced
<1>11. ASSUME S!Stop(r)
       PROVE  SignInInv'
  <2>1. UNCHANGED <<user, misses>> /\ Advanced(r, "idle")
    BY <1>0, <1>11, LoginMoves DEF S!Stop
  <2>2. CASE UNCHANGED lost /\ login[r].step \in {"read", "matched", "unlock"}
    <3>1. r \notin Trying
      BY <2>2 DEF Trying
    <3>. QED BY <1>0, <2>1, <2>2, <3>1, LoginQuiet
  <2>3. CASE lost' = lost + 1
    <3>1. Failed' = Failed \ {r} /\ Trying' = Trying \ {r}
      BY <1>0, <2>1, LoginCounts
    <3>2. /\ Cardinality(Failed) <= Cardinality(Failed') + 1
          /\ Cardinality(Trying) <= Cardinality(Trying') + 1
          /\ Cardinality(Failed') \in Nat /\ Cardinality(Trying') \in Nat
          /\ Cardinality(Failed) \in Nat /\ Cardinality(Trying) \in Nat
          /\ Cardinality(Logins) \in Nat
      <4>1. Failed' \in SUBSET Logins /\ Trying' \in SUBSET Logins
        BY <1>0a, <3>1
      <4>2. /\ Cardinality(Failed') \in Nat /\ Cardinality(Trying') \in Nat
            /\ Cardinality(Failed) \in Nat /\ Cardinality(Trying) \in Nat
            /\ Cardinality(Logins) \in Nat
        BY <4>1, LoginCardinality
      <4>3. ASSUME NEW S1 \in SUBSET Logins
            PROVE  Cardinality(S1) <= Cardinality(S1 \ {r}) + 1
        <5>1. Cardinality(S1) \in Nat
          BY LoginCardinality
        <5>2. \/ Cardinality(S1 \ {r}) = Cardinality(S1) - 1
              \/ Cardinality(S1 \ {r}) = Cardinality(S1)
          BY LoginCardinality
        <5>. QED BY <5>1, <5>2
      <4>4. /\ Cardinality(Failed) <= Cardinality(Failed') + 1
            /\ Cardinality(Trying) <= Cardinality(Trying') + 1
        BY <1>0a, <3>1, <4>3
      <4>. QED BY <4>2, <4>3, <4>4
    <3>3. S!TypeOK'
      BY <1>0, <2>1, <2>3 DEF S!TypeOK, Advanced
    <3>. QED BY <1>0, <2>1, <2>3, <3>2, <3>3 DEF SignInInv
  <2>. QED BY <1>11, <2>2, <2>3 DEF S!Stop
<1>12. S!AnyPassword \in Passwords
  BY AccountsAssumption DEF S!AnyPassword
<1>. QED BY <1>1, <1>2, <1>3, <1>4, <1>5, <1>6, <1>7, <1>8, <1>9, <1>10, <1>11, <1>12
         DEF S!Handle

LEMMA SignInInvariant == Spec => []SignInInv
<1>1. Init => SignInInv
  <2>. SUFFICES ASSUME S!Init PROVE SignInInv
    BY DEF Init
  <2>1. S!TypeOK
    <3>1. S!NewUser \in S!User /\ S!Closed \in S!Login
      BY AnyLogin
    <3>2. login \in [Logins -> S!Login] /\ user \in S!User /\ misses \in Nat /\ lost \in Nat
      BY <3>1 DEF S!Init
    <3>. QED BY <3>2 DEF S!TypeOK
  <2>2. misses = 0 /\ lost = 0 /\ user.failedLoginAttempts = 0
    BY DEF S!Init, S!NewUser
  <2>. QED BY <2>1, <2>2, LoginCardinality, AccountsAssumption DEF SignInInv
<1>2. SignInInv /\ [Next]_all => SignInInv'
  <2>. SUFFICES ASSUME SignInInv, [Next]_all PROVE SignInInv'
    OBVIOUS
  <2>0. user \in S!User /\ login \in [Logins -> S!Login] /\ misses \in Nat /\ lost \in Nat
    BY DEF SignInInv, S!TypeOK
  <2>1. CASE UNCHANGED <<login, misses, lost>> /\ user' \in S!User
             /\ user'.failedLoginAttempts = user.failedLoginAttempts /\ user'.lock = user.lock
    <3>1. Failed' = Failed /\ Trying' = Trying
      BY <2>1 DEF Failed, Trying
    <3>. QED BY <2>1, <3>1 DEF SignInInv, S!TypeOK
  <2>2. CASE UNCHANGED signIn
    BY <2>0, <2>1, <2>2 DEF signIn
  <2>3. CASE S!markEmailVerified \/ S!suspend
    <3>1. UNCHANGED <<login, misses, lost>> /\ \E s \in {"active", "suspended"} : user' = [user EXCEPT !.status = s]
      BY <2>3 DEF S!markEmailVerified, S!suspend
    <3>2. /\ user' \in S!User /\ user'.failedLoginAttempts = user.failedLoginAttempts
          /\ user'.lock = user.lock
      BY <2>0, <3>1 DEF S!User
    <3>. QED BY <2>1, <3>1, <3>2
  <2>4. CASE S!LockEnds
    <3>1. user' \in S!User
      BY <2>0, <2>4 DEF S!LockEnds, S!User
    <3>. QED BY <2>0, <2>4, <3>1, NoMisses DEF S!LockEnds
  <2>5. CASE \E r \in Logins : S!Handle(r)
    BY <2>5, SignInStep
  <2>. QED BY <2>2, <2>3, <2>4, <2>5 DEF Next, CleanUp, all, S!Next
<1>. QED BY <1>1, <1>2, PTL DEF Spec

\* Between two unlocks fewer than MaxAttempts wrong passwords are compared, plus at
\* most one for every request in flight and one for every request that ended between
\* the wrong password and the lock (LockoutService, AuthService.login).
THEOREM PasswordGuessesLimited == Spec => []PasswordGuessesBounded
<1>1. SignInInv => PasswordGuessesBounded
  BY LoginCardinality, AccountsAssumption
     DEF SignInInv, PasswordGuessesBounded, S!PasswordGuessesBounded, S!TypeOK
<1>. QED BY <1>1, SignInInvariant, PTL

\* The four parts keep their types: no sequence of codes, sign-ins, invitations
\* and registrations leaves a document or a counter in a form the code does not know.
THEOREM AccountTypes == Spec => []TypeOK
<1>1. CodeInv /\ SignInInv /\ InvitationInv /\ RegistrationInv => TypeOK
  BY DEF CodeInv, SignInInv, InvitationInv, RegistrationInv, TypeOK
<1>. QED BY <1>1, CodeInvariant, SignInInvariant, InvitationInvariant, RegistrationInvariant, PTL

=============================================================================
