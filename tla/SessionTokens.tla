---------------------------- MODULE SessionTokens ----------------------------
(***************************************************************************)
(* The refresh tokens of one user: SessionService and SessionRepository.   *)
(* A login starts a session, that is, a token family; refresh exchanges    *)
(* the family's token for a new one; logout, revokeSession, logoutAll (by  *)
(* the user, or by SessionSecurityListener after a password change) and    *)
(* the detection of a reused token revoke.                                 *)
(*                                                                         *)
(* Every database call of a handler is a step of its own.  In particular   *)
(* rotateToken is two of them (mark the old row, insert the new one), and  *)
(* updateMany changes its documents one after the other, sees the ones     *)
(* that match when it starts, and may or may not see later ones.           *)
(***************************************************************************)
EXTENDS Naturals, FiniteSets

CONSTANTS Tokens,     \* refresh tokens that can be generated (their hashes)
          Families,   \* sessions: familyId and sessionId are issued together
          Calls,      \* request handlers that may be in flight
          NoToken, NoFamily

ASSUME SessionTokensAssumption == NoToken \notin Tokens /\ NoFamily \notin Families

VARIABLES row,      \* the RefreshToken documents
          call,     \* the handlers in flight
          issued,   \* tokens that have been returned to a client
          revoked   \* families some handler has reported as revoked

vars == <<row, call, issued, revoked>>

Reasons == {"logout", "logout_all", "rotation", "token_reuse"}

\* state: not stored, revokedAt null, or the revokeReason.
Row == [state : {"none", "active"} \cup Reasons,
        family : Families \cup {NoFamily},
        parentTokenHash : Tokens \cup {NoToken},
        replacedByTokenHash : Tokens \cup {NoToken}]

NoRow == [state |-> "none", family |-> NoFamily, parentTokenHash |-> NoToken,
          replacedByTokenHash |-> NoToken]

\* token: the token presented; new: the one generated; scope: the families an
\* updateMany selects, todo: the active rows among them when it started; named:
\* the sessions the events of the handler will name as revoked.
Call == [step : {"idle", "created", "found", "missed", "reuse", "rotated",
                 "session", "revoking"},
         token : Tokens \cup {NoToken},
         new : Tokens \cup {NoToken},
         reason : Reasons,
         scope : SUBSET Families,
         todo : SUBSET Tokens,
         named : SUBSET Families]

Idle == [step |-> "idle", token |-> NoToken, new |-> NoToken, reason |-> "logout",
         scope |-> {}, todo |-> {}, named |-> {}]

TypeOK ==
  /\ row \in [Tokens -> Row]
  /\ call \in [Calls -> Call]
  /\ issued \in SUBSET Tokens
  /\ revoked \in SUBSET Families

Init ==
  /\ row = [t \in Tokens |-> NoRow]
  /\ call = [c \in Calls |-> Idle]
  /\ issued = {}
  /\ revoked = {}

-----------------------------------------------------------------------------
Active(t) == row[t].state = "active"
ActiveIn(S) == {t \in Tokens : Active(t) /\ row[t].family \in S}

\* A token of crypto.randomUUID, never generated before.
Fresh(n) == row[n].state = "none" /\ \A t \in Tokens : row[t].replacedByTokenHash # n

At(c, step) == call[c].step = step
Become(c, k) == call' = [call EXCEPT ![c] = k]
Goto(c, step) == Become(c, [call[c] EXCEPT !.step = step])
Return(c) == Become(c, Idle)

\* The handler rejects at an await, or its process dies: no write is undone.
Fail(c) ==
  /\ ~ At(c, "idle")
  /\ Return(c)
  /\ UNCHANGED <<row, issued, revoked>>

-----------------------------------------------------------------------------
(* Login: createSession stores the row, the response carries the token. *)

CreateSession(c, n, f) ==
  /\ At(c, "idle")
  /\ Fresh(n)
  /\ \A t \in Tokens : row[t].family # f
  /\ row' = [row EXCEPT ![n] = [NoRow EXCEPT !.state = "active", !.family = f]]
  /\ Become(c, [Idle EXCEPT !.step = "created", !.new = n])
  /\ UNCHANGED <<issued, revoked>>

\* The handler returns the token it holds: createAuthenticatedSession after its
\* slug updates, refresh after its event.
Issue(c) ==
  /\ At(c, "created")
  /\ issued' = issued \cup {call[c].new}
  /\ Return(c)
  /\ UNCHANGED <<row, revoked>>

-----------------------------------------------------------------------------
(* refresh *)

\* findByHash: is the presented token active?
FindByHash(c, t) ==
  /\ At(c, "idle")
  /\ t \in issued
  /\ Become(c, [Idle EXCEPT !.step = IF Active(t) THEN "found" ELSE "missed", !.token = t])
  /\ UNCHANGED <<row, issued, revoked>>

\* findByHashIncludingRevoked: a token that was exchanged before has been
\* stolen; any other is only refused.
Missed(c) ==
  /\ At(c, "missed")
  /\ IF row[call[c].token].state = "rotation" THEN Goto(c, "reuse") ELSE Return(c)
  /\ UNCHANGED <<row, issued, revoked>>

\* Mutants: the row is updated whatever its state; the old row does not name its
\* successor.
RotateUnguarded(c, n) ==
  /\ At(c, "found")
  /\ Fresh(n)
  /\ row' = [row EXCEPT ![call[c].token].state = "rotation",
                        ![call[c].token].replacedByTokenHash = n]
  /\ Become(c, [call[c] EXCEPT !.step = "rotated", !.new = n])
  /\ UNCHANGED <<issued, revoked>>

RotateUnlinked(c, n) ==
  /\ At(c, "found")
  /\ Fresh(n)
  /\ Active(call[c].token)
  /\ row' = [row EXCEPT ![call[c].token].state = "rotation"]
  /\ Become(c, [call[c] EXCEPT !.step = "rotated", !.new = n])
  /\ UNCHANGED <<issued, revoked>>

\* The first write of rotateToken: findOneAndUpdate of the row while it is
\* active.  If it is not, refresh is denied.
Rotate(c, n) ==
  /\ At(c, "found")
  /\ Fresh(n)
  /\ \/ /\ Active(call[c].token)
        /\ row' = [row EXCEPT ![call[c].token].state = "rotation",
                              ![call[c].token].replacedByTokenHash = n]
        /\ Become(c, [call[c] EXCEPT !.step = "rotated", !.new = n])
     \/ /\ ~ Active(call[c].token)
        /\ Return(c)
        /\ UNCHANGED row
  /\ UNCHANGED <<issued, revoked>>

\* The second write: the successor, in the same family.  The partial unique
\* index on sessionId admits one active row of a session.
Insert(c) ==
  /\ At(c, "rotated")
  /\ LET t == call[c].token
         f == row[t].family
     IN  \/ /\ ActiveIn({f}) = {}
            /\ row' = [row EXCEPT ![call[c].new] =
                         [NoRow EXCEPT !.state = "active", !.family = f,
                                       !.parentTokenHash = t]]
            /\ Goto(c, "created")
         \/ /\ ActiveIn({f}) # {}
            /\ Return(c)
            /\ UNCHANGED row
  /\ UNCHANGED <<issued, revoked>>

-----------------------------------------------------------------------------
(* Revocation *)

\* logout: the row of the presented token, whatever its state.
Logout(t) ==
  /\ t \in issued
  /\ row' = [row EXCEPT ![t].state = "logout"]
  /\ UNCHANGED <<call, issued, revoked>>

\* revokeSession reads the session by its id, logoutAll the user's sessions;
\* without an active one both end with NotFound.
FindSessions(c, S, reason) ==
  /\ At(c, "idle")
  /\ ActiveIn(S) # {}
  /\ Become(c, [Idle EXCEPT !.step = "session", !.reason = reason, !.scope = S,
                          !.named = {row[t].family : t \in ActiveIn(S)}])
  /\ UNCHANGED <<row, issued, revoked>>

RevokeSession(c, f) == FindSessions(c, {f}, "logout")
LogoutAll(c) == FindSessions(c, Families, "logout_all")

\* An updateMany over the active rows of the families S begins.
UpdateMany(c, S, reason, named) ==
  /\ Become(c, [call[c] EXCEPT !.step = "revoking", !.reason = reason, !.scope = S,
                               !.todo = ActiveIn(S), !.named = named])
  /\ UNCHANGED <<row, issued, revoked>>

RevokeSessions(c) ==
  At(c, "session") /\ UpdateMany(c, call[c].scope, call[c].reason, call[c].named)
RevokeFamily(c) ==
  LET S == {row[call[c].token].family}
  IN  At(c, "reuse") /\ UpdateMany(c, S, "token_reuse", S)

RevokeOne(c, t) ==
  /\ At(c, "revoking")
  /\ t \in ActiveIn(call[c].scope)
  /\ row' = [row EXCEPT ![t].state = call[c].reason]
  /\ UNCHANGED <<call, issued, revoked>>

\* updateMany is done; the handler publishes its events and answers: logoutAll
\* and revokeSession for the sessions found before, refresh for the family.
Revoked(c) ==
  /\ At(c, "revoking")
  /\ \A t \in call[c].todo : ~ Active(t)
  /\ revoked' = revoked \cup call[c].named
  /\ Return(c)
  /\ UNCHANGED <<row, issued>>

-----------------------------------------------------------------------------
Refresh(c) ==
  \/ \E t \in Tokens : FindByHash(c, t)
  \/ Missed(c)
  \/ \E n \in Tokens : Rotate(c, n)
  \/ Insert(c)

Revoke(c) ==
  \/ \E f \in Families : RevokeSession(c, f)
  \/ LogoutAll(c)
  \/ RevokeSessions(c)
  \/ RevokeFamily(c)
  \/ \E t \in Tokens : RevokeOne(c, t)
  \/ Revoked(c)

Next ==
  \/ \E c \in Calls : \/ \E n \in Tokens, f \in Families : CreateSession(c, n, f)
                      \/ Issue(c)
                      \/ Refresh(c)
                      \/ Revoke(c)
                      \/ Fail(c)
  \/ \E t \in Tokens : Logout(t)

Spec == Init /\ [][Next]_vars

-----------------------------------------------------------------------------
(* Properties *)

Rotating(c, f) == At(c, "rotated") /\ row[call[c].token].family = f

\* A session has one live credential: an active row, or a rotation that has
\* taken the old row and not yet stored the new one, and never two of these.  So
\* concurrent refreshes with one token cannot both be served, and the insert of
\* rotateToken never meets the unique index on sessionId.
OneLive ==
  \A f \in Families :
    /\ \A t, u \in ActiveIn({f}) : t = u
    /\ \A c, d \in Calls : Rotating(c, f) /\ Rotating(d, f) => c = d
    /\ \A c \in Calls : Rotating(c, f) => ActiveIn({f}) = {}

\* The audit chain of a family is a chain: a successor's parent is a revoked row
\* of the same family that names it in replacedByTokenHash, so that no token was
\* ever exchanged for two.
ChainIntact ==
  \A t \in Tokens :
    row[t].parentTokenHash # NoToken =>
      LET p == row[row[t].parentTokenHash]
      IN  /\ p.state \notin {"none", "active"}
          /\ p.family = row[t].family
          /\ p.replacedByTokenHash = t

\* No client is handed a token that has no session record behind it, also when
\* it lost the race for the rotation.
IssuedHasRecord == \A t \in issued : row[t].state # "none"

\* A session without an active row and without a rotation half-way never gets an
\* active row again: no refresh that had already read its token, no second
\* refresh and no login revives it.
Dead(f) ==
  /\ \E t \in Tokens : row[t].family = f
  /\ ActiveIn({f}) = {}
  /\ \A c \in Calls : ~ Rotating(c, f)
DeadStaysDead == [][\A f \in Families : Dead(f) => Dead(f)']_vars

\* What the documentation promises, and a rotation half-way breaks: a session
\* whose revocation has been reported has no usable token.
RevokedSessionsEnd == \A f \in revoked : ActiveIn({f}) = {}
=============================================================================
