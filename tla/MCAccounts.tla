----------------------------- MODULE MCAccounts -----------------------------
(***************************************************************************)
(* One-time codes, sign-in, invitations and registration for TLC.  They    *)
(* work on different users and keys, so a behaviour exercises one of them. *)
(***************************************************************************)
EXTENDS Naturals, FiniteSets

CONSTANTS Codes, Calls, MaxAttempts, MaxSends, MaxRefused,
          Passwords, Logins, MaxFailed, MaxLost,
          Invites, Handlers,
          Emails, Identities, Visits, States,
          Parts  \* the components the run exercises

VARIABLES kind, stored, issued, wrong, sends, call, opened, guesses,
          user, login, misses, lost,
          invite, member, handler, cut,
          tenant, account, visit, state, callbacks, signedIn,
          part

C == INSTANCE OneTimeCodes
S == INSTANCE SignIn
I == INSTANCE Invitations
R == INSTANCE Registration

codes == <<kind, stored, issued, wrong, sends, call, opened, guesses>>
signIn == <<user, login, misses, lost>>
invitations == <<invite, member, handler, cut>>
registration == <<tenant, account, visit, state, callbacks, signedIn>>
all == <<codes, signIn, invitations, registration, part>>

AllParts == {"codes", "signIn", "invitations", "registration"}
ASSUME PartsAssumption == Parts \subseteq AllParts

\* Requests in flight are finitely many, the limits are the positive constants of
\* the services, and there is an address and a password to start from.
ASSUME AccountsAssumption ==
  /\ IsFiniteSet(Calls) /\ IsFiniteSet(Logins)
  /\ MaxAttempts \in Nat \ {0} /\ MaxSends \in Nat /\ MaxRefused \in Nat
  /\ MaxFailed \in Nat /\ MaxLost \in Nat
  /\ Emails # {} /\ Passwords # {}

\* The parts that do not run start in one of their initial states.
Init ==
  /\ part \in Parts
  /\ C!Init /\ S!Init /\ I!Init /\ R!Init
  /\ part # "codes" => kind = "otp"
  /\ part # "registration" => \A e \in Emails : account[e] = R!NoAccount

CleanUp ==
  /\ part = "invitations"
  /\ I!deleteExpiredTempUsers
  /\ UNCHANGED <<codes, signIn, registration, part>>

Next ==
  \/ /\ UNCHANGED part
     /\ \/ part = "codes" /\ C!Next /\ UNCHANGED <<signIn, invitations, registration>>
        \/ part = "signIn" /\ S!Next /\ UNCHANGED <<codes, invitations, registration>>
        \/ /\ part = "invitations"
           /\ I!Expire \/ \E h \in Handlers : I!Handle(h)
           /\ UNCHANGED <<codes, signIn, registration>>
        \/ part = "registration" /\ R!Next /\ UNCHANGED <<codes, signIn, invitations>>
  \/ CleanUp

\* The clean-up job runs every five minutes.
Spec == Init /\ [][Next]_all /\ WF_all(CleanUp)

\* Every part keeps its types.
TypeOK == C!TypeOK /\ S!TypeOK /\ I!TypeOK /\ R!TypeOK

\* Once the calls for a key have returned, a counter that counts has a life: no
\* interleaving of INCR, EXPIRE and reset locks a user out for ever.
CountersExpire == C!CountersExpire

\* A code still stored once all calls have returned was guessed at fewer than
\* MaxAttempts times per call in flight.
GuessLimit == C!GuessLimit(Cardinality(Calls))

\* Between two unlocks fewer than MaxAttempts wrong passwords are tried, plus one
\* for every request in flight and one for every request that ended between its
\* wrong password and the lock.
PasswordGuessesBounded == S!PasswordGuessesBounded(Cardinality(Logins))

\* An active member none of whose invitations was revoked has an accepted one,
\* unless an acceptance was cut off right after it had made the member.
MembershipRecorded == I!MembershipRecorded

\* A temporary account whose credentials have expired is removed, refreshed or
\* activated in the end.
LeftoversVanish == I!LeftoversVanish

\* Whoever registered an organization and was signed in administers it, works at
\* its head office and is the only one registered with the address.
RegistrationIsWhole == R!RegistrationIsWhole

\* An identity at the provider is linked to one account at most, an account signed
\* in to is linked, and a state lets one callback through.
ProviderLinkedOnce == R!ProviderLinkedOnce
=============================================================================
