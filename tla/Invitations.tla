---------------------------- MODULE Invitations ----------------------------
(***************************************************************************)
(* The invitations sent to one e-mail address and the member account they  *)
(* lead to: creation, resend, revocation, acceptance by token, the first   *)
(* sign-in with the temporary password, and the clean-up job.  The account *)
(* and the invitation are separate documents, written one after the other; *)
(* the only guard across them is the unique e-mail of User, and a request  *)
(* may end between any two.  An account created anew after a deletion is   *)
(* not told apart from the one deleted.  Tokens and passwords given are    *)
(* the current ones; see SignIn for wrong passwords.                       *)
(***************************************************************************)
CONSTANTS Invites,    \* Invitation rows that may be created
          Handlers    \* requests that may be in flight

VARIABLES invite,   \* the Invitation documents
          member,   \* the User document of the address
          handler,  \* the requests in flight
          cut       \* a request ended after it made a member and before it marked the row

vars == <<invite, member, handler, cut>>

\* named: firstName and lastName are stored (only createTempUserInvitation does);
\* fresh: expiresAt is ahead.
Invitation == [status : {"none", "pending", "accepted", "revoked"},
               named : BOOLEAN, fresh : BOOLEAN]
\* fresh: tempPasswordExpiresAt is ahead.
Member == [status : {"none", "pending_invitation", "active"},
           fresh : BOOLEAN]
Handler == [step : {"idle", "insert", "user", "revoke", "reissue", "refresh", "rotate",
                    "join", "mark", "accept", "activate", "delete"},
            invite : SUBSET Invites,
            named : BOOLEAN]

NoInvitation == [status |-> "none", named |-> FALSE, fresh |-> FALSE]
NoMember == [status |-> "none", fresh |-> FALSE]
Resting == [step |-> "idle", invite |-> {}, named |-> FALSE]

TypeOK ==
  /\ invite \in [Invites -> Invitation]
  /\ member \in Member
  /\ handler \in [Handlers -> Handler]
  /\ cut \in BOOLEAN

Init ==
  /\ invite = [i \in Invites |-> NoInvitation]
  /\ member = NoMember
  /\ handler = [h \in Handlers |-> Resting]
  /\ cut = FALSE

-----------------------------------------------------------------------------
PendingRows == {i \in Invites : invite[i].status = "pending"}
Begin(h, step, rows, named) ==
  /\ handler[h].step = "idle"
  /\ handler' = [handler EXCEPT ![h] = [step |-> step, invite |-> rows, named |-> named]]
Go(h, step) == handler' = [handler EXCEPT ![h].step = step]
End(h) == handler' = [handler EXCEPT ![h] = Resting]

\* create and createTempUserInvitation: no user and no pending invitation read.
Invite(h, named) ==
  /\ member.status = "none" /\ PendingRows = {}
  /\ Begin(h, "insert", {}, named)
  /\ UNCHANGED <<invite, member, cut>>

InsertInvitation(h, i) ==
  /\ handler[h].step = "insert"
  /\ invite[i].status = "none"
  /\ invite' = [invite EXCEPT ![i] = [status |-> "pending", named |-> handler[h].named,
                                      fresh |-> TRUE]]
  /\ handler' = [handler EXCEPT ![h].step = "user", ![h].invite = {i}]
  /\ UNCHANGED <<member, cut>>

\* createTempInvitedUser: User requires the names and a new e-mail, else it throws.
createTempInvitedUser(h) ==
  /\ IF handler[h].named /\ member.status = "none"
     THEN member' = [status |-> "pending_invitation", fresh |-> TRUE]
     ELSE UNCHANGED member
  /\ End(h)
  /\ UNCHANGED <<invite, cut>>

CreateUser(h) == handler[h].step = "user" /\ createTempInvitedUser(h)

\* revokeInvitation: the status read is checked, the write is not conditional and
\* leaves the account alone.
Revoke(h, i) ==
  /\ invite[i].status = "pending"
  /\ Begin(h, "revoke", {i}, FALSE)
  /\ UNCHANGED <<invite, member, cut>>

WriteRevoked(h) ==
  /\ handler[h].step = "revoke"
  /\ invite' = [i \in Invites |-> IF i \in handler[h].invite
                                  THEN [invite[i] EXCEPT !.status = "revoked"] ELSE invite[i]]
  /\ End(h)
  /\ UNCHANGED <<member, cut>>

\* resendInvitation: a new token, then refreshTempInvitedUser: find the temporary
\* user, then update it by id, or create it.
ResendInvitation(h, i) ==
  /\ invite[i].status = "pending"
  /\ Begin(h, "reissue", {i}, invite[i].named)
  /\ UNCHANGED <<invite, member, cut>>

Reissue(h) ==
  /\ handler[h].step = "reissue"
  /\ invite' = [i \in Invites |-> IF i \in handler[h].invite
                                  THEN [invite[i] EXCEPT !.fresh = TRUE] ELSE invite[i]]
  /\ Go(h, "refresh")
  /\ UNCHANGED <<member, cut>>

refreshTempInvitedUser(h) ==
  /\ handler[h].step = "refresh"
  /\ \/ /\ member.status = "pending_invitation"
        /\ Go(h, "rotate")
        /\ UNCHANGED <<invite, member, cut>>
     \/ member.status # "pending_invitation" /\ createTempInvitedUser(h)

RotatePassword(h) ==
  /\ handler[h].step = "rotate"
  /\ member' = IF member.status = "none" THEN member ELSE [member EXCEPT !.fresh = TRUE]
  /\ End(h)
  /\ UNCHANGED <<invite, cut>>

-----------------------------------------------------------------------------
\* acceptInvitation with the token of i: validate, no user yet, createInvitedUser,
\* then accept, which marks the row unconditionally.
AcceptInvitation(h, i) ==
  /\ invite[i].status = "pending" /\ invite[i].fresh
  /\ member.status = "none"
  /\ Begin(h, "join", {i}, FALSE)
  /\ UNCHANGED <<invite, member, cut>>

createInvitedUser(h) ==
  /\ handler[h].step = "join"
  /\ IF member.status = "none"
     THEN member' = [status |-> "active", fresh |-> FALSE] /\ Go(h, "mark")
     ELSE UNCHANGED member /\ End(h)
  /\ UNCHANGED <<invite, cut>>

markAccepted(h) ==
  /\ handler[h].step = "mark"
  /\ invite' = [i \in Invites |-> IF i \in handler[h].invite
                                  THEN [invite[i] EXCEPT !.status = "accepted"] ELSE invite[i]]
  /\ End(h)
  /\ UNCHANGED <<member, cut>>

\* login with the temporary password: expired credentials delete the account,
\* others accept a pending invitation of the address, if any, and activate it.
FirstLogin(h) ==
  /\ member.status = "pending_invitation"
  /\ Begin(h, IF member.fresh THEN "accept" ELSE "delete", {}, FALSE)
  /\ UNCHANGED <<invite, member, cut>>

DeleteExpired(h) ==
  /\ handler[h].step = "delete"
  /\ member' = NoMember
  /\ End(h)
  /\ UNCHANGED <<invite, cut>>

\* Mutant: the first sign-in leaves the invitation to a later job.
acceptNothing(h) ==
  /\ handler[h].step = "accept"
  /\ Go(h, "activate")
  /\ UNCHANGED <<invite, member, cut>>

acceptPendingForUser(h) ==
  /\ handler[h].step = "accept"
  /\ \/ \E i \in PendingRows : invite' = [invite EXCEPT ![i].status = "accepted"]
     \/ PendingRows = {} /\ UNCHANGED invite
  /\ Go(h, "activate")
  /\ UNCHANGED <<member, cut>>

\* Mutant: the account gets the status of its invitation.
activateAccepted(h) ==
  /\ handler[h].step = "activate"
  /\ member' = IF member.status = "none" THEN member ELSE [member EXCEPT !.status = "accepted"]
  /\ End(h)
  /\ UNCHANGED <<invite, cut>>

activate(h) ==
  /\ handler[h].step = "activate"
  /\ member' = IF member.status = "none" THEN member ELSE [member EXCEPT !.status = "active"]
  /\ End(h)
  /\ UNCHANGED <<invite, cut>>

\* A call of the request rejects or its process dies.  publishUserRegistered is
\* awaited after the account is created, InvitationAcceptedEvent after the row is
\* marked: the member may be there without the mark, the mark without the member.
Fail(h) ==
  /\ handler[h].step # "idle"
  /\ cut' = (cut \/ handler[h].step = "mark")
  /\ End(h)
  /\ UNCHANGED <<invite, member>>

\* Fifteen minutes pass.
Expire ==
  /\ member.fresh \/ \E i \in Invites : invite[i].fresh
  /\ member' = [member EXCEPT !.fresh = FALSE]
  /\ invite' = [i \in Invites |-> [invite[i] EXCEPT !.fresh = FALSE]]
  /\ UNCHANGED <<handler, cut>>

\* Mutant: the job looks for the accounts the schema calls unverified.
deleteNobody ==
  /\ member.status = "pending_verification" /\ ~member.fresh
  /\ member' = NoMember
  /\ UNCHANGED <<invite, handler, cut>>

\* CleanupTempUsersJob, every five minutes.
deleteExpiredTempUsers ==
  /\ member.status = "pending_invitation" /\ ~member.fresh
  /\ member' = NoMember
  /\ UNCHANGED <<invite, handler, cut>>

Handle(h) ==
  \/ \E named \in BOOLEAN : Invite(h, named)
  \/ \E i \in Invites : \/ InsertInvitation(h, i) \/ Revoke(h, i) \/ ResendInvitation(h, i)
                        \/ AcceptInvitation(h, i)
  \/ CreateUser(h) \/ WriteRevoked(h) \/ Reissue(h) \/ refreshTempInvitedUser(h)
  \/ RotatePassword(h) \/ createInvitedUser(h) \/ markAccepted(h)
  \/ FirstLogin(h) \/ DeleteExpired(h) \/ acceptPendingForUser(h) \/ activate(h) \/ Fail(h)

Next == Expire \/ deleteExpiredTempUsers \/ \E h \in Handlers : Handle(h)

Fairness == WF_vars(deleteExpiredTempUsers)

Spec == Init /\ [][Next]_vars /\ Fairness

-----------------------------------------------------------------------------
NobodyBusy == \A h \in Handlers : handler[h].step = "idle"

Revoked == \E i \in Invites : invite[i].status = "revoked"

\* However invitations are created, resent and used at the same time, and wherever
\* requests end: an active member none of whose invitations was revoked has an
\* accepted one, unless an acceptance by token was cut off right after it had made
\* the member (the member then has only open invitations, for good).
MembershipRecorded ==
  NobodyBusy /\ member.status = "active" /\ ~Revoked /\ ~cut
    => \E i \in Invites : invite[i].status = "accepted"

\* A temporary account whose credentials have expired does not block its address
\* for ever: it is removed, refreshed or activated.
LeftoversVanish ==
  (member.status = "pending_invitation" /\ ~member.fresh)
    ~> (member.status # "pending_invitation" \/ member.fresh)
=============================================================================
