------------------------------- MODULE SignIn -------------------------------
(***************************************************************************)
(* Signing in to one account by password or by an OAuth provider, the      *)
(* lockout after failed attempts (LockoutService), and the operations that *)
(* change the account under a sign-in: e-mail verification, a change or a  *)
(* reset of the password, suspension.  A sign-in reads the user, reads it  *)
(* again for the lock, and decides on these copies.  Every await may throw *)
(* or be the last of its process: the request then ends where it is.       *)
(***************************************************************************)
EXTENDS Naturals

CONSTANTS Passwords,    \* passwords a request may give
          Logins,       \* requests that may be in flight
          MaxAttempts,  \* MAX_ATTEMPTS
          MaxFailed,    \* bound on failedLoginAttempts
          MaxLost       \* bound on lost

VARIABLES user,      \* the User document
          login,     \* the requests in flight
          misses,    \* wrong passwords tried since the last unlock or end of a lock
          lost       \* requests since then that ended before they had counted and locked

vars == <<user, login, misses, lost>>

\* lock: lockedUntil is unset, in the future, or past.
User == [status : {"pending_verification", "active", "suspended"},
         password : Passwords,
         failedLoginAttempts : 0..MaxFailed,
         lock : {"none", "on", "past"}]
\* What a request uses of the user it read: stained if there is something to unlock.
Copy == [status : {"pending_verification", "active", "suspended"},
         password : Passwords,
         stained : BOOLEAN]
Login == [op : {"none", "login", "oauth", "change", "reset"},
          step : {"idle", "read", "failed", "publish", "tally", "lock", "matched", "unlock"},
          given : Passwords,
          seen : Copy]

AnyPassword == CHOOSE p \in Passwords : TRUE
NewUser == [status |-> "pending_verification", password |-> AnyPassword,
            failedLoginAttempts |-> 0, lock |-> "none"]
CopyOf(u) == [status |-> u.status, password |-> u.password,
              stained |-> u.failedLoginAttempts > 0 \/ u.lock # "none"]
Closed == [op |-> "none", step |-> "idle", given |-> AnyPassword, seen |-> CopyOf(NewUser)]

TypeOK ==
  /\ user \in User
  /\ login \in [Logins -> Login]
  /\ misses \in Nat /\ lost \in Nat

Init ==
  /\ user = NewUser
  /\ login = [r \in Logins |-> Closed]
  /\ misses = 0 /\ lost = 0

-----------------------------------------------------------------------------
\* A request goes on; what it was given and has read is not used any more.
To(r, step) ==
  login' = [login EXCEPT ![r] = [Closed EXCEPT !.op = login[r].op, !.step = step]]
Finish(r) == login' = [login EXCEPT ![r] = Closed]
At(r, op, step) == login[r].op = op /\ login[r].step = step

\* A request reads the user.
Start(r, op, given) ==
  /\ login[r].step = "idle"
  /\ login' = [login EXCEPT ![r] = [op |-> op, step |-> "read", given |-> given,
                                   seen |-> CopyOf(user)]]
  /\ UNCHANGED <<user, misses, lost>>

\* Mutant: a lock is honoured only while attempts are counted.
LockedByCount == user.lock = "on" /\ user.failedLoginAttempts < MaxAttempts

\* isNotLocked reads the user again.
isLockedNow == user.lock = "on"

\* login: the lock, then the password of the copy read first.
ComparePassword(r) ==
  /\ At(r, "login", "read")
  /\ IF isLockedNow THEN Finish(r) /\ UNCHANGED misses
     ELSE IF login[r].given = login[r].seen.password
          THEN login' = [login EXCEPT ![r].step = "matched"] /\ UNCHANGED misses
     ELSE To(r, "failed") /\ misses' = misses + 1
  /\ UNCHANGED <<user, lost>>

incrementFailedLoginAttempts(r) ==
  /\ At(r, "login", "failed")
  /\ user.failedLoginAttempts < MaxFailed
  /\ user' = [user EXCEPT !.failedLoginAttempts = @ + 1]
  /\ To(r, "publish")
  /\ UNCHANGED <<misses, lost>>

\* UserLoginFailedEvent is enqueued before the lock is decided on; see Stop for an
\* enqueue that rejects.
PublishLoginFailed(r) ==
  /\ At(r, "login", "publish")
  /\ To(r, "tally")
  /\ UNCHANGED <<user, misses, lost>>

\* LockoutService.isLocked counts on a fresh copy; lockAccount follows.
isLocked(r) ==
  /\ At(r, "login", "tally")
  /\ IF user.failedLoginAttempts >= MaxAttempts THEN To(r, "lock") ELSE Finish(r)
  /\ UNCHANGED <<user, misses, lost>>

lockAccount(r) ==
  /\ At(r, "login", "lock")
  /\ user' = [user EXCEPT !.lock = "on"]
  /\ Finish(r)
  /\ UNCHANGED <<misses, lost>>

\* createAuthenticatedSession (see SessionTokens) comes before the status is looked
\* at: an unverified user keeps the session, an inactive one is refused although it
\* exists.  isUnlocked then decides on the copy the request read first.
CreateSession(r) ==
  /\ At(r, "login", "matched")
  /\ CASE login[r].seen.status = "pending_verification" -> Finish(r)
       [] login[r].seen.status = "suspended" -> To(r, "tally")
       [] login[r].seen.status = "active" -> IF login[r].seen.stained THEN To(r, "unlock")
                                             ELSE Finish(r)
  /\ UNCHANGED <<user, misses, lost>>

\* unlockAccount, for a sign-in, a change or a reset of the password.
unlockAccount(r) ==
  /\ login[r].step = "unlock"
  /\ user' = [user EXCEPT !.failedLoginAttempts = 0, !.lock = "none"]
  /\ misses' = 0 /\ lost' = 0
  /\ Finish(r)

\* A call of the request rejects (the database, Redis or the queue) or its process
\* dies.  The wrong password may be tried and not counted, or counted and not locked.
Stop(r) ==
  /\ login[r].step # "idle"
  /\ \/ login[r].step \in {"failed", "publish", "tally", "lock"} /\ lost < MaxLost /\ lost' = lost + 1
     \/ login[r].step \in {"read", "matched", "unlock"} /\ UNCHANGED lost
  /\ Finish(r)
  /\ UNCHANGED <<user, misses>>

-----------------------------------------------------------------------------
\* oauthLogin on the linked user: lock, unlock, session; the status is not read.
oauthLogin(r) ==
  /\ At(r, "oauth", "read")
  /\ IF ~isLockedNow /\ login[r].seen.stained THEN To(r, "unlock") ELSE Finish(r)
  /\ UNCHANGED <<user, misses, lost>>

\* changePassword validates against the copy read; resetPassword has verified a
\* code (see OneTimeCodes).  Both overwrite the password and then unlock.
changePassword(r, new) ==
  /\ At(r, "change", "read")
  /\ IF login[r].given = login[r].seen.password /\ new # login[r].seen.password
     THEN user' = [user EXCEPT !.password = new] /\ To(r, "unlock")
     ELSE Finish(r) /\ UNCHANGED user
  /\ UNCHANGED <<misses, lost>>

resetPassword(r) ==
  /\ At(r, "reset", "read")
  /\ user' = [user EXCEPT !.password = login[r].given]
  /\ To(r, "unlock")
  /\ UNCHANGED <<misses, lost>>

markEmailVerified ==
  /\ user.status # "active"
  /\ user' = [user EXCEPT !.status = "active"]
  /\ UNCHANGED <<login, misses, lost>>

suspend ==
  /\ user.status # "suspended"
  /\ user' = [user EXCEPT !.status = "suspended"]
  /\ UNCHANGED <<login, misses, lost>>

\* LOCK_MINUTES pass; the count of failures stays.
LockEnds ==
  /\ user.lock = "on"
  /\ user' = [user EXCEPT !.lock = "past"]
  /\ misses' = 0 /\ lost' = 0
  /\ UNCHANGED login

Handle(r) ==
  \/ \E given \in Passwords, op \in {"login", "change", "reset"} : Start(r, op, given)
  \/ Start(r, "oauth", AnyPassword)
  \/ ComparePassword(r) \/ incrementFailedLoginAttempts(r) \/ PublishLoginFailed(r)
  \/ isLocked(r) \/ lockAccount(r)
  \/ CreateSession(r) \/ unlockAccount(r) \/ Stop(r)
  \/ oauthLogin(r) \/ resetPassword(r)
  \/ \E new \in Passwords : changePassword(r, new)

Next == markEmailVerified \/ suspend \/ LockEnds \/ \E r \in Logins : Handle(r)

Spec == Init /\ [][Next]_vars

-----------------------------------------------------------------------------
\* Between two unlocks (or ends of a lock) at most MaxAttempts - 1 wrong passwords
\* are tried, plus those of requests already past the lock when it was set, plus one
\* for every request that ended between its wrong password and the lock.
PasswordGuessesBounded(logins) == misses < MaxAttempts + logins + lost
=============================================================================
