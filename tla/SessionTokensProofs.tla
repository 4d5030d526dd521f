------------------------- MODULE SessionTokensProofs -------------------------
(***************************************************************************)
(* Proofs about SessionTokens, for every set of tokens, sessions and       *)
(* handlers.                                                               *)
(***************************************************************************)
EXTENDS SessionTokens, TLAPS

\* What a rotation between its two writes has established: its token is revoked
\* and names the successor, which is not stored yet; a session that a presented
\* token belongs to exists.  A row that is not stored has no fields.
InFlight ==
  /\ \A c \in Calls :
       /\ At(c, "rotated") =>
            /\ call[c].token \in Tokens
            /\ call[c].new \in Tokens
            /\ row[call[c].token].state \notin {"none", "active"}
            /\ row[call[c].token].family \in Families
            /\ row[call[c].token].replacedByTokenHash = call[c].new
            /\ row[call[c].new].state = "none"
       /\ At(c, "created") => /\ call[c].new \in Tokens
                              /\ row[call[c].new].state # "none"
       /\ call[c].step \in {"found", "missed", "reuse"} =>
            call[c].token \in issued
       /\ \A t \in call[c].todo : row[t].state # "none"
  /\ \A c, d \in Calls : At(c, "rotated") /\ At(d, "rotated") /\ call[c].new = call[d].new
                           => c = d
  /\ \A t \in Tokens : /\ row[t].state = "none" => row[t] = NoRow
                       /\ row[t].state # "none" => row[t].family \in Families

IInv == TypeOK /\ OneLive /\ ChainIntact /\ IssuedHasRecord /\ InFlight

-----------------------------------------------------------------------------
\* The empty database satisfies the invariant.
LEMMA InitIInv == Init => IInv
  BY SessionTokensAssumption
  DEF Init, IInv, TypeOK, OneLive, ChainIntact, IssuedHasRecord, InFlight, Row, NoRow,
      Call, Idle, Reasons, At, Rotating, ActiveIn, Active

\* A handler that only changes its own record k, writes no row and is not between
\* the two writes of a rotation afterwards, keeps the invariant if k names tokens
\* with a row.  Most steps are of this kind.
LEMMA HandlerStep ==
  ASSUME IInv, NEW c \in Calls, NEW k \in Call,
         call' = [call EXCEPT ![c] = k], row' = row,
         issued \subseteq issued', issued' \subseteq Tokens, IssuedHasRecord',
         revoked' \subseteq Families,
         k.step # "rotated",
         k.step = "created" => k.new \in Tokens /\ row[k.new].state # "none",
         k.step \in {"found", "missed", "reuse"} => k.token \in issued',
         \A t \in k.todo : row[t].state # "none"
  PROVE  IInv'
<1>1. /\ call'[c] = k
      /\ \A d \in Calls \ {c} : call'[d] = call[d]
  BY DEF IInv, TypeOK
<1>2. TypeOK'
  BY DEF IInv, TypeOK
<1>3. OneLive'
  BY <1>1 DEF IInv, OneLive, Rotating, At, ActiveIn, Active
<1>4. ChainIntact'
  BY DEF IInv, ChainIntact
<1>5. InFlight'
  BY <1>1 DEF IInv, InFlight, At
<1>. QED BY <1>2, <1>3, <1>4, <1>5 DEF IInv

\* In particular a handler may end at any step.
LEMMA ReturnStep ==
  ASSUME IInv, NEW c \in Calls, Return(c), row' = row,
         issued \subseteq issued', issued' \subseteq Tokens, IssuedHasRecord',
         revoked' \subseteq Families
  PROVE  IInv'
<1>1. /\ Idle \in Call
      /\ Idle.step = "idle" /\ Idle.todo = {}
  BY DEF Idle, Call, Reasons
<1>. QED BY <1>1, HandlerStep DEF Return, Become

\* Revoking a stored row, whatever its state, keeps the invariant: parents and
\* successors are looked up by their links, which a revocation leaves alone.
LEMMA RevokeRowStep ==
  ASSUME IInv, NEW t \in Tokens, NEW r \in Reasons,
         row[t].state # "none",
         row' = [row EXCEPT ![t].state = r],
         UNCHANGED <<call, issued, revoked>>
  PROVE  IInv'
<1>1. /\ row'[t].state = r /\ r \notin {"none", "active"}
      /\ \A u \in Tokens : /\ row'[u].family = row[u].family
                           /\ row'[u].parentTokenHash = row[u].parentTokenHash
                           /\ row'[u].replacedByTokenHash = row[u].replacedByTokenHash
                           /\ u # t => row'[u] = row[u]
  BY DEF IInv, TypeOK, Row, Reasons
<1>2. TypeOK'
  <2>1. [row[t] EXCEPT !.state = r] \in Row
    BY DEF IInv, TypeOK, Row
  <2>. QED BY <2>1 DEF IInv, TypeOK
<1>3. \A d \in Calls : call[d].todo \subseteq Tokens
  BY DEF IInv, TypeOK, Call
<1>4. OneLive'
  BY <1>1 DEF IInv, OneLive, InFlight, Rotating, At, ActiveIn, Active
<1>5. ChainIntact'
  <2>1. \A u \in Tokens : row[u].parentTokenHash # NoToken => row[u].parentTokenHash \in Tokens
    BY DEF IInv, TypeOK, Row
  <2>. QED BY <1>1, <2>1 DEF IInv, ChainIntact
<1>6. IssuedHasRecord'
  BY <1>1 DEF IInv, TypeOK, IssuedHasRecord
<1>7. InFlight'
  BY <1>1, <1>3 DEF IInv, InFlight, At, TypeOK
<1>. QED BY <1>2, <1>4, <1>5, <1>6, <1>7 DEF IInv

-----------------------------------------------------------------------------
LEMMA FailStep ==
  ASSUME IInv, NEW c \in Calls, Fail(c)
  PROVE  IInv'
  BY ReturnStep DEF Fail, IInv, TypeOK, IssuedHasRecord

LEMMA CreateSessionStep ==
  ASSUME IInv, NEW c \in Calls, NEW n \in Tokens, NEW f \in Families,
         CreateSession(c, n, f)
  PROVE  IInv'
<1>. DEFINE r == [NoRow EXCEPT !.state = "active", !.family = f]
           k == [Idle EXCEPT !.step = "created", !.new = n]
<1>1. /\ r \in Row /\ k \in Call
      /\ r.state = "active" /\ r.family = f
      /\ r.parentTokenHash = NoToken /\ r.replacedByTokenHash = NoToken
      /\ k.step = "created" /\ k.new = n /\ k.todo = {}
  BY DEF Row, NoRow, Call, Idle, Reasons
<1>2. /\ row' = [row EXCEPT ![n] = r]
      /\ call' = [call EXCEPT ![c] = k]
      /\ row[n].state = "none"
      /\ \A u \in Tokens : row[u].replacedByTokenHash # n /\ row[u].family # f
      /\ UNCHANGED <<issued, revoked>>
  BY DEF CreateSession, Fresh, Become
<1>. HIDE DEF r, k
<1>3. TypeOK'
  BY <1>1, <1>2 DEF IInv, TypeOK
<1>4. /\ row'[n] = r
      /\ \A u \in Tokens \ {n} : row'[u] = row[u]
      /\ call'[c] = k
      /\ \A d \in Calls \ {c} : call'[d] = call[d]
      /\ \A d \in Calls : call[d].todo \subseteq Tokens
  BY <1>2 DEF IInv, TypeOK, Call
<1>5. \A d \in Calls : At(d, "rotated") =>
         call[d].token # n /\ call[d].new # n /\ row[call[d].token].family # f
  BY <1>2 DEF IInv, InFlight, At
<1>6. OneLive'
  BY <1>1, <1>2, <1>4, <1>5 DEF IInv, InFlight, OneLive, Rotating, At, ActiveIn, Active
<1>7. ChainIntact'
  <2>1. \A u \in Tokens : row[u].parentTokenHash # NoToken =>
           row[u].parentTokenHash \in Tokens /\ row[u].parentTokenHash # n
    BY <1>2 DEF IInv, TypeOK, Row, ChainIntact
  <2>. QED BY <1>1, <1>4, <2>1 DEF IInv, ChainIntact
<1>8. IssuedHasRecord'
  BY <1>1, <1>2, <1>4 DEF IInv, TypeOK, IssuedHasRecord
<1>9. InFlight'
  BY <1>1, <1>2, <1>4, <1>5 DEF IInv, InFlight, At, TypeOK
<1>. QED BY <1>3, <1>6, <1>7, <1>8, <1>9 DEF IInv

LEMMA IssueStep ==
  ASSUME IInv, NEW c \in Calls, Issue(c)
  PROVE  IInv'
<1>1. /\ issued' = issued \cup {call[c].new}
      /\ call[c].new \in Tokens /\ row[call[c].new].state # "none"
      /\ UNCHANGED <<row, revoked>>
  BY DEF Issue, IInv, InFlight
<1>. QED BY <1>1, ReturnStep DEF Issue, IInv, TypeOK, IssuedHasRecord

LEMMA FindByHashStep ==
  ASSUME IInv, NEW c \in Calls, NEW t \in Tokens, FindByHash(c, t)
  PROVE  IInv'
<1>. DEFINE k == [Idle EXCEPT !.step = IF Active(t) THEN "found" ELSE "missed", !.token = t]
<1>1. /\ k \in Call
      /\ k.step \in {"found", "missed"} /\ k.token = t /\ k.todo = {}
  BY DEF Idle, Call, Reasons
<1>2. /\ t \in issued
      /\ call' = [call EXCEPT ![c] = k]
      /\ UNCHANGED <<row, issued, revoked>>
  BY DEF FindByHash, Become
<1>. HIDE DEF k
<1>. QED BY <1>1, <1>2, HandlerStep DEF IInv, TypeOK, IssuedHasRecord

LEMMA MissedStep ==
  ASSUME IInv, NEW c \in Calls, Missed(c)
  PROVE  IInv'
<1>. DEFINE k == [call[c] EXCEPT !.step = "reuse"]
<1>1. CASE Goto(c, "reuse")
  <2>1. /\ k \in Call
        /\ k.step = "reuse" /\ k.token = call[c].token /\ k.todo = call[c].todo
    BY DEF Call, IInv, TypeOK
  <2>2. /\ call[c].token \in issued
        /\ \A t \in call[c].todo : row[t].state # "none"
    BY DEF Missed, At, IInv, InFlight
  <2>3. call' = [call EXCEPT ![c] = k] /\ UNCHANGED <<row, issued, revoked>>
    BY <1>1 DEF Goto, Become, Missed
  <2>. HIDE DEF k
  <2>. QED BY <2>1, <2>2, <2>3, HandlerStep DEF IInv, TypeOK, IssuedHasRecord
<1>2. CASE Return(c)
  BY <1>2, ReturnStep DEF Missed, IInv, TypeOK, IssuedHasRecord
<1>. QED BY <1>1, <1>2 DEF Missed

LEMMA RotateStep ==
  ASSUME IInv, NEW c \in Calls, NEW n \in Tokens, Rotate(c, n)
  PROVE  IInv'
<1>1. CASE ~ Active(call[c].token)
  BY <1>1, ReturnStep DEF Rotate, IInv, TypeOK, IssuedHasRecord
<1>2. CASE Active(call[c].token)
  <2>. DEFINE t == call[c].token
             k == [call[c] EXCEPT !.step = "rotated", !.new = n]
  <2>1. /\ t \in Tokens
        /\ row[t].state = "active"
        /\ row[t].family \in Families
        /\ At(c, "found")
        /\ row[n] = NoRow
        /\ n # t
        /\ \A u \in Tokens : row[u].replacedByTokenHash # n
    BY <1>2 DEF Rotate, IInv, TypeOK, InFlight, Active, At, Fresh, NoRow
  <2>2. /\ row' = [row EXCEPT ![t] = [row[t] EXCEPT !.state = "rotation",
                                                    !.replacedByTokenHash = n]]
        /\ call' = [call EXCEPT ![c] = k]
        /\ UNCHANGED <<issued, revoked>>
    BY <1>2, <2>1 DEF Rotate, Become, IInv, TypeOK, Row
  <2>3. TypeOK'
    <3>1. call[c] \in Call /\ row[t] \in Row
      BY <2>1 DEF IInv, TypeOK
    <3>2. k \in Call
      BY <3>1 DEF Call
    <3>3. [row[t] EXCEPT !.state = "rotation", !.replacedByTokenHash = n] \in Row
      BY <3>1 DEF Row, Reasons
    <3>. QED BY <2>1, <2>2, <3>2, <3>3 DEF IInv, TypeOK
  <2>4. /\ row'[t].state = "rotation" /\ row'[t].replacedByTokenHash = n
        /\ \A u \in Tokens : /\ row'[u].family = row[u].family
                             /\ row'[u].parentTokenHash = row[u].parentTokenHash
                             /\ u # t => row'[u] = row[u]
        /\ call'[c] = k /\ k.step = "rotated" /\ k.token = t /\ k.new = n
        /\ k.todo = call[c].todo
        /\ \A d \in Calls \ {c} : call'[d] = call[d]
    BY <2>1, <2>2 DEF IInv, TypeOK, Row, Call
  <2>. HIDE DEF k
  <2>5. OneLive'
    BY <2>1, <2>4 DEF IInv, TypeOK, OneLive, InFlight, Rotating, ActiveIn, Active, At
  <2>6. ChainIntact'
    BY <2>1, <2>4, SessionTokensAssumption DEF IInv, TypeOK, Row, ChainIntact
  <2>7. IssuedHasRecord'
    BY <2>1, <2>2, <2>4 DEF IInv, TypeOK, IssuedHasRecord
  <2>8. InFlight'
    <3>1. \A d \in Calls : d # c /\ At(d, "rotated") =>
             /\ call[d].new # n /\ call[d].new # t /\ call[d].token # t
      BY <2>1 DEF IInv, InFlight
    <3>2. row'[n] = NoRow
      BY <2>1, <2>4
    <3>3. \A d \in Calls : call[d].todo \subseteq Tokens
      BY DEF IInv, TypeOK, Call
    <3>. QED
      BY <2>1, <2>2, <2>4, <3>1, <3>2, <3>3 DEF IInv, InFlight, IssuedHasRecord, TypeOK, At, NoRow
  <2>. QED BY <2>3, <2>5, <2>6, <2>7, <2>8 DEF IInv
<1>. QED BY <1>1, <1>2

LEMMA InsertStep ==
  ASSUME IInv, NEW c \in Calls, Insert(c)
  PROVE  IInv'
<1>. DEFINE t == call[c].token
           n == call[c].new
           f == row[t].family
<1>1. /\ At(c, "rotated")
      /\ t \in Tokens /\ n \in Tokens /\ f \in Families
      /\ row[t].state \notin {"none", "active"}
      /\ row[t].replacedByTokenHash = n
      /\ row[n] = NoRow
      /\ ActiveIn({f}) = {}
      /\ n # t
  BY DEF Insert, IInv, InFlight, OneLive, Rotating, At, NoRow
<1>2. /\ row' = [row EXCEPT ![n] = [NoRow EXCEPT !.state = "active", !.family = f,
                                                 !.parentTokenHash = t]]
      /\ call' = [call EXCEPT ![c] = [call[c] EXCEPT !.step = "created"]]
      /\ UNCHANGED <<issued, revoked>>
  BY <1>1 DEF Insert, Goto, Become
<1>3. TypeOK'
  <2>1. call[c] \in Call
    BY DEF IInv, TypeOK
  <2>2. [call[c] EXCEPT !.step = "created"] \in Call
    BY <2>1 DEF Call
  <2>3. [NoRow EXCEPT !.state = "active", !.family = f, !.parentTokenHash = t] \in Row
    BY <1>1 DEF Row, NoRow
  <2>. QED BY <1>1, <1>2, <2>2, <2>3 DEF IInv, TypeOK
<1>4. /\ row'[n].state = "active" /\ row'[n].family = f
      /\ row'[n].parentTokenHash = t /\ row'[n].replacedByTokenHash = NoToken
      /\ \A u \in Tokens \ {n} : row'[u] = row[u]
      /\ call'[c].step = "created" /\ call'[c].new = n /\ call'[c].todo = call[c].todo
      /\ \A d \in Calls \ {c} : call'[d] = call[d]
      /\ \A d \in Calls : call[d].todo \subseteq Tokens
  BY <1>1, <1>2 DEF IInv, TypeOK, Row, Call, NoRow
<1>5. OneLive'
  BY <1>1, <1>4 DEF IInv, InFlight, OneLive, Rotating, ActiveIn, Active, At
<1>6. ChainIntact'
  <2>1. SUFFICES ASSUME NEW u \in Tokens, row'[u].parentTokenHash # NoToken
                 PROVE  LET p == row'[row'[u].parentTokenHash]
                        IN  /\ p.state \notin {"none", "active"}
                            /\ p.family = row'[u].family
                            /\ p.replacedByTokenHash = u
    BY DEF ChainIntact
  <2>2. CASE u = n
    BY <1>1, <1>4, <2>2
  <2>3. CASE u # n
    <3>1. row'[u] = row[u] /\ row[u].parentTokenHash \in Tokens
      BY <1>4, <2>1, <2>3 DEF IInv, TypeOK, Row
    <3>2. row[u].parentTokenHash # n
      BY <1>1, <2>1, <3>1 DEF IInv, ChainIntact, NoRow
    <3>. QED BY <1>4, <2>1, <3>1, <3>2 DEF IInv, ChainIntact
  <2>. QED BY <2>2, <2>3
<1>7. IssuedHasRecord'
  BY <1>1, <1>2, <1>4 DEF IInv, TypeOK, IssuedHasRecord
<1>8. InFlight'
  <2>1. \A d \in Calls : d # c /\ At(d, "rotated") => call[d].new # n /\ call[d].token # n
    BY <1>1 DEF IInv, InFlight, NoRow
  <2>. QED
    BY <1>1, <1>2, <1>4, <2>1 DEF IInv, InFlight, TypeOK, At, NoRow
<1>. QED BY <1>3, <1>5, <1>6, <1>7, <1>8 DEF IInv

LEMMA LogoutStep ==
  ASSUME IInv, NEW t \in Tokens, Logout(t)
  PROVE  IInv'
<1>1. row[t].state # "none" /\ "logout" \in Reasons
  BY DEF Logout, IInv, IssuedHasRecord, Reasons
<1>. QED BY <1>1, RevokeRowStep DEF Logout

LEMMA FindSessionsStep ==
  ASSUME IInv, NEW c \in Calls, NEW S \in SUBSET Families, NEW r \in Reasons,
         FindSessions(c, S, r)
  PROVE  IInv'
<1>. DEFINE N == {row[t].family : t \in ActiveIn(S)}
           k == [Idle EXCEPT !.step = "session", !.reason = r, !.scope = S, !.named = N]
<1>1. N \in SUBSET Families
  BY DEF ActiveIn
<1>2. k \in Call /\ k.step = "session" /\ k.todo = {}
  BY <1>1 DEF Idle, Call
<1>3. call' = [call EXCEPT ![c] = k] /\ UNCHANGED <<row, issued, revoked>>
  BY DEF FindSessions, Become
<1>. HIDE DEF k
<1>. QED BY <1>2, <1>3, HandlerStep DEF IInv, TypeOK, IssuedHasRecord

LEMMA UpdateManyStep ==
  ASSUME IInv, NEW c \in Calls, NEW S \in SUBSET Families, NEW r \in Reasons,
         NEW N \in SUBSET Families, UpdateMany(c, S, r, N)
  PROVE  IInv'
<1>. DEFINE k == [call[c] EXCEPT !.step = "revoking", !.reason = r, !.scope = S,
                                !.todo = ActiveIn(S), !.named = N]
<1>1. ActiveIn(S) \in SUBSET Tokens /\ \A t \in ActiveIn(S) : row[t].state # "none"
  BY DEF ActiveIn, Active
<1>2. k \in Call /\ k.step = "revoking" /\ k.todo = ActiveIn(S)
  BY <1>1 DEF Call, IInv, TypeOK
<1>3. call' = [call EXCEPT ![c] = k] /\ UNCHANGED <<row, issued, revoked>>
  BY DEF UpdateMany, Become
<1>. HIDE DEF k
<1>. QED BY <1>1, <1>2, <1>3, HandlerStep DEF IInv, TypeOK, IssuedHasRecord

LEMMA RevokeSessionsStep ==
  ASSUME IInv, NEW c \in Calls, RevokeSessions(c)
  PROVE  IInv'
<1>1. /\ call[c].scope \in SUBSET Families /\ call[c].reason \in Reasons
      /\ call[c].named \in SUBSET Families
  BY DEF IInv, TypeOK, Call
<1>. QED BY <1>1, UpdateManyStep DEF RevokeSessions

LEMMA RevokeFamilyStep ==
  ASSUME IInv, NEW c \in Calls, RevokeFamily(c)
  PROVE  IInv'
<1>1. {row[call[c].token].family} \in SUBSET Families /\ "token_reuse" \in Reasons
  BY DEF RevokeFamily, At, IInv, TypeOK, InFlight, IssuedHasRecord, Reasons
<1>. QED BY <1>1, UpdateManyStep DEF RevokeFamily

LEMMA RevokeOneStep ==
  ASSUME IInv, NEW c \in Calls, NEW t \in Tokens, RevokeOne(c, t)
  PROVE  IInv'
<1>1. row[t].state # "none" /\ call[c].reason \in Reasons
  BY DEF RevokeOne, ActiveIn, Active, IInv, TypeOK, Call
<1>. QED BY <1>1, RevokeRowStep DEF RevokeOne

LEMMA RevokedStep ==
  ASSUME IInv, NEW c \in Calls, Revoked(c)
  PROVE  IInv'
<1>1. revoked' \subseteq Families
  BY DEF Revoked, IInv, TypeOK, Call
<1>. QED BY <1>1, ReturnStep DEF Revoked, IInv, TypeOK, IssuedHasRecord

-----------------------------------------------------------------------------
LEMMA StutterStep ==
  ASSUME IInv, UNCHANGED vars
  PROVE  IInv'
  BY DEF vars, IInv, TypeOK, OneLive, ChainIntact, IssuedHasRecord, InFlight, At, Rotating,
         ActiveIn, Active

LEMMA NextIInv == IInv /\ [Next]_vars => IInv'
<1>1. ASSUME IInv, [Next]_vars
      PROVE  IInv'
  <2>1. CASE \E t \in Tokens : Logout(t)
    BY <1>1, <2>1, LogoutStep
  <2>2. ASSUME NEW c \in Calls, \E n \in Tokens, f \in Families : CreateSession(c, n, f)
        PROVE  IInv'
    BY <1>1, <2>2, CreateSessionStep
  <2>3. ASSUME NEW c \in Calls, Refresh(c)
        PROVE  IInv'
    BY <1>1, <2>3, FindByHashStep, MissedStep, RotateStep, InsertStep DEF Refresh
  <2>4. ASSUME NEW c \in Calls, Revoke(c)
        PROVE  IInv'
    <3>1. CASE \E f \in Families : RevokeSession(c, f)
      BY <1>1, <3>1, FindSessionsStep DEF RevokeSession, Reasons
    <3>2. CASE LogoutAll(c)
      BY <1>1, <3>2, FindSessionsStep DEF LogoutAll, Reasons
    <3>3. CASE \E t \in Tokens : RevokeOne(c, t)
      BY <1>1, <3>3, RevokeOneStep
    <3>. QED
      BY <1>1, <2>4, <3>1, <3>2, <3>3, RevokeSessionsStep, RevokeFamilyStep, RevokedStep
      DEF Revoke
  <2>5. ASSUME NEW c \in Calls, Issue(c) \/ Fail(c)
        PROVE  IInv'
    BY <1>1, <2>5, IssueStep, FailStep
  <2>6. CASE UNCHANGED vars
    BY <1>1, <2>6, StutterStep
  <2>. QED BY <1>1, <2>1, <2>2, <2>3, <2>4, <2>5, <2>6 DEF Next
<1>. QED BY <1>1

\* The inductive invariant holds in every reachable state.
THEOREM Inductive == Spec => []IInv
  BY InitIInv, NextIInv, PTL DEF Spec

\* The database and the handlers stay within their types.
THEOREM TypeCorrect == Spec => []TypeOK
<1>1. IInv => TypeOK
  BY DEF IInv
<1>. QED BY <1>1, Inductive, PTL

\* However refreshes, logouts, revocations and crashes interleave, a session never
\* has two live credentials.
THEOREM OneLiveCredential == Spec => []OneLive
<1>1. IInv => OneLive
  BY DEF IInv
<1>. QED BY <1>1, Inductive, PTL

\* No refresh token is ever exchanged for two successors, and the recorded chain
\* of a session is complete.
THEOREM ChainAlwaysIntact == Spec => []ChainIntact
<1>1. IInv => ChainIntact
  BY DEF IInv
<1>. QED BY <1>1, Inductive, PTL

\* Every token a client holds has a session record.
THEOREM IssuedAlwaysRecorded == Spec => []IssuedHasRecord
<1>1. IInv => IssuedHasRecord
  BY DEF IInv
<1>. QED BY <1>1, Inductive, PTL

\* A session that has neither an active row nor a rotation half-way stays without.
THEOREM NoRevival == Spec => DeadStaysDead
<1>1. ASSUME IInv, [Next]_vars, NEW f \in Families, Dead(f)
      PROVE  Dead(f)'
  <2>. USE DEF Dead, ActiveIn, Active, Rotating, At, Become, Goto, Return
  <2>0. row \in [Tokens -> Row] /\ call \in [Calls -> Call]
    BY <1>1 DEF IInv, TypeOK
  <2>1. ASSUME NEW t \in Tokens, Logout(t)
        PROVE  Dead(f)'
    BY <1>1, <2>0, <2>1 DEF Logout, Row
  <2>2. ASSUME NEW c \in Calls, NEW n \in Tokens, NEW g \in Families, CreateSession(c, n, g)
        PROVE  Dead(f)'
    BY <1>1, <2>0, <2>2, SessionTokensAssumption
    DEF CreateSession, IInv, InFlight, Fresh, NoRow, Idle, Row, Call
  <2>3. ASSUME NEW c \in Calls, Refresh(c)
        PROVE  Dead(f)'
    <3>1. ASSUME NEW t \in Tokens, FindByHash(c, t) PROVE Dead(f)'
      BY <1>1, <2>0, <3>1 DEF FindByHash, Idle, Call
    <3>2. CASE Missed(c)
      BY <1>1, <2>0, <3>2 DEF Missed, Idle, Call
    <3>3. ASSUME NEW n \in Tokens, Rotate(c, n) PROVE Dead(f)'
      <4>1. CASE ~ Active(call[c].token)
        BY <1>1, <2>0, <3>3, <4>1 DEF Rotate, Idle, Call
      <4>2. CASE Active(call[c].token)
        <5>. DEFINE t == call[c].token
        <5>1. t \in Tokens /\ row[t].family # f
          BY <1>1, <3>3, <4>2 DEF Rotate, IInv, InFlight, TypeOK
        <5>2. \A u \in Tokens : row'[u].family = row[u].family
                                /\ (u # t => row'[u] = row[u])
          BY <2>0, <3>3, <4>2, <5>1 DEF Rotate, Row
        <5>3. row'[t].state = "rotation"
          BY <2>0, <3>3, <4>2, <5>1 DEF Rotate, Row
        <5>5. /\ call'[c] = [call[c] EXCEPT !.step = "rotated", !.new = n]
              /\ \A d \in Calls \ {c} : call'[d] = call[d]
          BY <2>0, <3>3, <4>2 DEF Rotate
        <5>6. call'[c].token = t
          BY <2>0, <5>5 DEF Call
        <5>4. \A d \in Calls : call[d].step = "rotated" => call[d].token \in Tokens
          BY <1>1 DEF IInv, InFlight
        <5>7. (\E u \in Tokens : row[u].family = f)'
          BY <1>1, <5>2
        <5>8. ASSUME NEW u \in Tokens, row'[u].state = "active", row'[u].family = f
              PROVE  FALSE
          BY <1>1, <5>2, <5>3, <5>8
        <5>9. ASSUME NEW d \in Calls, call'[d].step = "rotated",
                     row'[call'[d].token].family = f
              PROVE  FALSE
          <6>1. CASE d = c
            BY <5>1, <5>2, <5>6, <5>9, <6>1
          <6>2. CASE d # c
            <7>1. call'[d] = call[d] /\ call[d].token \in Tokens
              BY <5>4, <5>5, <5>9, <6>2
            <7>. QED BY <1>1, <5>2, <5>9, <7>1
          <6>. QED BY <6>1, <6>2
        <5>. QED BY <5>7, <5>8, <5>9
      <4>. QED BY <4>1, <4>2
    <3>4. CASE Insert(c)
      <4>. DEFINE t == call[c].token
                  n == call[c].new
      <4>1. /\ t \in Tokens /\ n \in Tokens /\ row[n].state = "none"
            /\ row[t].family # f /\ row[n] = NoRow
            /\ NoFamily # f
        BY <1>1, <3>4, SessionTokensAssumption DEF Insert, IInv, InFlight
      <4>2. \A d \in Calls : call[d].step = "rotated" =>
               call[d].token \in Tokens /\ call[d].token # n
        BY <1>1, <4>1 DEF IInv, InFlight, NoRow
      <4>3. \A u \in Tokens \ {n} : row'[u] = row[u]
        BY <2>0, <3>4, <4>1 DEF Insert
      <4>4. row' = row \/ row'[n].family = row[t].family
        <5>1. CASE ActiveIn({row[t].family}) # {}
          BY <3>4, <5>1 DEF Insert
        <5>2. CASE ActiveIn({row[t].family}) = {}
          <6>1. row'[n] = [NoRow EXCEPT !.state = "active", !.family = row[t].family,
                                        !.parentTokenHash = t]
            BY <2>0, <3>4, <4>1, <5>2 DEF Insert
          <6>. QED BY <6>1 DEF NoRow
        <5>. QED BY <5>1, <5>2
      <4>5. /\ call'[c].step # "rotated"
            /\ \A d \in Calls \ {c} : call'[d] = call[d]
        BY <2>0, <3>4 DEF Insert, Idle, Call
      <4>6. row[n].family # f
        BY <4>1 DEF NoRow
      <4>. QED BY <1>1, <4>1, <4>2, <4>3, <4>4, <4>5, <4>6
    <3>. QED BY <2>3, <3>1, <3>2, <3>3, <3>4 DEF Refresh
  <2>4. ASSUME NEW c \in Calls, Revoke(c)
        PROVE  Dead(f)'
    <3>1. ASSUME NEW S, NEW r, FindSessions(c, S, r) PROVE Dead(f)'
      BY <1>1, <2>0, <3>1 DEF FindSessions, Idle, Call
    <3>2. ASSUME NEW S, NEW r, NEW N, UpdateMany(c, S, r, N) PROVE Dead(f)'
      BY <1>1, <2>0, <3>2 DEF UpdateMany, Call
    <3>3. ASSUME NEW t \in Tokens, RevokeOne(c, t) PROVE Dead(f)'
      BY <1>1, <2>0, <3>3 DEF RevokeOne, Reasons, Row, Call
    <3>4. CASE Revoked(c)
      BY <1>1, <2>0, <3>4 DEF Revoked, Idle, Call
    <3>. HIDE DEF Dead
    <3>. QED
      BY <2>4, <3>1, <3>2, <3>3, <3>4
      DEF Revoke, RevokeSession, LogoutAll, RevokeSessions, RevokeFamily
  <2>5. ASSUME NEW c \in Calls, Issue(c) \/ Fail(c)
        PROVE  Dead(f)'
    BY <1>1, <2>0, <2>5 DEF Issue, Fail, Idle, Call
  <2>6. CASE UNCHANGED vars
    BY <1>1, <2>6 DEF vars
  <2>. HIDE DEF Dead
  <2>. QED BY <1>1, <2>1, <2>2, <2>3, <2>4, <2>5, <2>6 DEF Next
<1>2. IInv /\ [Next]_vars => [\A f \in Families : Dead(f) => Dead(f)']_vars
  BY <1>1
<1>. QED BY <1>2, Inductive, PTL DEF Spec, DeadStaysDead
=============================================================================
