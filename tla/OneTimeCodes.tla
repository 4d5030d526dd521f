---------------------------- MODULE OneTimeCodes ----------------------------
(***************************************************************************)
(* The one-time secret of one user and purpose in Redis: a numeric code    *)
(* (OtpService) or the token of a link (VerificationLinkService), with the *)
(* counters that limit wrong guesses and resends.  Every await on Redis is *)
(* a step of its own, so calls for the same key interleave between them.   *)
(***************************************************************************)
EXTENDS Naturals

CONSTANTS Codes,        \* secrets that may be generated
          Calls,        \* calls that may be in flight
          MaxAttempts,  \* MAX_ATTEMPTS
          MaxSends,     \* MAX_RESENDS, MAX_REGENS
          MaxRefused    \* bound on the refused resends of a window

VARIABLES kind,     \* which service keeps the key
          stored,   \* the secret under the key: {} or one
          issued,   \* secrets generated so far
          wrong,    \* the counter of wrong guesses
          sends,    \* the counter of resends
          call,     \* the calls in flight
          opened,   \* secrets accepted, and how often
          guesses   \* wrong guesses at the stored secret in this window

vars == <<kind, stored, issued, wrong, sends, call, opened, guesses>>

Kinds == {"otp", "link"}
Counter == [count : Nat, ttl : BOOLEAN]
NoCounter == [count |-> 0, ttl |-> FALSE]
Call == [step : {"idle", "count", "window", "drop", "accept", "reset",
                 "resend", "resendWindow", "forget", "create"},
         given : SUBSET Codes,    \* the secret presented; {} is a wrong guess
         full : BOOLEAN]          \* the counter it read is at the limit
Waiting == [step |-> "idle", given |-> {}, full |-> FALSE]

TypeOK ==
  /\ kind \in Kinds
  /\ stored \in SUBSET Codes /\ (\A c, d \in stored : c = d)
  /\ issued \in SUBSET Codes
  /\ wrong \in Counter /\ sends \in Counter
  /\ call \in [Calls -> Call]
  /\ opened \in [Codes -> Nat]
  /\ guesses \in Nat

Init ==
  /\ kind \in Kinds
  /\ stored = {} /\ issued = {}
  /\ wrong = NoCounter /\ sends = NoCounter
  /\ call = [r \in Calls |-> Waiting]
  /\ opened = [c \in Codes |-> 0]
  /\ guesses = 0

-----------------------------------------------------------------------------
Step(r, step) == call' = [call EXCEPT ![r].step = step]
Return(r) == call' = [call EXCEPT ![r] = Waiting]

\* verify reads the key: absent answers false, equal goes on to accept, and a
\* wrong code is counted (a wrong link token is only refused).
Verify(r, given) ==
  /\ call[r].step = "idle"
  /\ stored # {}
  /\ \/ /\ stored = given
        /\ call' = [call EXCEPT ![r] = [Waiting EXCEPT !.step = "accept", !.given = given]]
        /\ UNCHANGED guesses
     \/ /\ stored # given /\ kind = "otp"
        /\ call' = [call EXCEPT ![r] = [Waiting EXCEPT !.step = "count", !.given = given]]
        /\ guesses' = guesses + 1
  /\ UNCHANGED <<kind, stored, issued, wrong, sends, opened>>

Increment(counter) == [counter EXCEPT !.count = @ + 1]
Expire(counter) == [counter EXCEPT !.ttl = counter.count > 0]

\* Mutant: the window is opened by the second wrong guess.
OpensLate(counter) == counter.count = 1

\* incrementAttempts: INCR, and EXPIRE by the call that counted to one.
OpensWindow(counter) == counter.count = 0

incrementAttempts(r) ==
  /\ call[r].step = "count"
  /\ wrong' = Increment(wrong)
  /\ LET full == wrong'.count >= MaxAttempts IN
     IF OpensWindow(wrong)
     THEN call' = [call EXCEPT ![r].step = "window", ![r].full = full]
     ELSE IF full THEN Step(r, "drop") ELSE Return(r)
  /\ UNCHANGED <<kind, stored, issued, sends, opened, guesses>>

ExpireAttempts(r) ==
  /\ call[r].step = "window"
  /\ wrong' = Expire(wrong)
  /\ IF call[r].full THEN Step(r, "drop") ELSE Return(r)
  /\ UNCHANGED <<kind, stored, issued, sends, opened, guesses>>

\* Mutant: the limit forgets the counter and keeps the code.
invalidateNothing(r) ==
  /\ call[r].step = "drop"
  /\ Step(r, "reset")
  /\ UNCHANGED <<kind, stored, issued, wrong, sends, opened, guesses>>

\* Too many wrong guesses: invalidate, then resetAttempts.
invalidate(r) ==
  /\ call[r].step = "drop"
  /\ stored' = {}
  /\ Step(r, "reset")
  /\ UNCHANGED <<kind, issued, wrong, sends, opened, guesses>>

\* The right secret: the key is deleted, whatever it holds by now.
Accept(r) ==
  /\ call[r].step = "accept"
  /\ stored' = {}
  /\ opened' = [c \in Codes |-> IF c \in call[r].given THEN opened[c] + 1 ELSE opened[c]]
  /\ IF kind = "otp" THEN Step(r, "reset") ELSE Return(r)
  /\ UNCHANGED <<kind, issued, wrong, sends, guesses>>

resetAttempts(r) ==
  /\ call[r].step = "reset"
  /\ wrong' = NoCounter
  /\ Return(r)
  /\ UNCHANGED <<kind, stored, issued, sends, opened, guesses>>

-----------------------------------------------------------------------------
\* publishVerificationCredential of a registration: the first code is not counted.
publishVerificationCredential(r) ==
  /\ call[r].step = "idle" /\ kind = "otp"
  /\ issued = {}
  /\ Step(r, "create")
  /\ UNCHANGED <<kind, stored, issued, wrong, sends, opened, guesses>>

\* canResend, RateLimitService.hit and the counter of regenerate: INCR, EXPIRE by
\* the first of the window, refused above the limit.
Resend(r) ==
  /\ call[r].step = "idle"
  /\ sends.count < MaxSends + MaxRefused
  /\ sends' = Increment(sends)
  /\ LET full == sends'.count > MaxSends IN
     IF OpensWindow(sends)
     THEN call' = [call EXCEPT ![r].step = "resendWindow", ![r].full = full]
     ELSE IF full THEN Return(r) ELSE Step(r, IF kind = "otp" THEN "create" ELSE "forget")
  /\ UNCHANGED <<kind, stored, issued, wrong, opened, guesses>>

ExpireSends(r) ==
  /\ call[r].step = "resendWindow"
  /\ sends' = Expire(sends)
  /\ IF call[r].full THEN Return(r) ELSE Step(r, IF kind = "otp" THEN "create" ELSE "forget")
  /\ UNCHANGED <<kind, stored, issued, wrong, opened, guesses>>

\* regenerate deletes the old token before it creates the new one.
Forget(r) ==
  /\ call[r].step = "forget"
  /\ stored' = {}
  /\ Step(r, "create")
  /\ UNCHANGED <<kind, issued, wrong, sends, opened, guesses>>

\* create: the new secret replaces whatever is stored.
create(r, c) ==
  /\ call[r].step = "create"
  /\ c \notin issued
  /\ stored' = {c}
  /\ issued' = issued \cup {c}
  /\ guesses' = 0
  /\ Return(r)
  /\ UNCHANGED <<kind, wrong, sends, opened>>

\* Redis: the TTLs run out.
SecretExpires ==
  /\ stored # {}
  /\ stored' = {}
  /\ UNCHANGED <<kind, issued, wrong, sends, call, opened, guesses>>

AttemptsExpire ==
  /\ wrong.ttl
  /\ wrong' = NoCounter /\ guesses' = 0
  /\ UNCHANGED <<kind, stored, issued, sends, call, opened>>

SendsExpire ==
  /\ sends.ttl
  /\ sends' = NoCounter
  /\ UNCHANGED <<kind, stored, issued, wrong, call, opened, guesses>>

Serve(r) ==
  \/ \E given \in {{}} \cup {{c} : c \in issued} : Verify(r, given)
  \/ incrementAttempts(r) \/ ExpireAttempts(r) \/ invalidate(r) \/ Accept(r) \/ resetAttempts(r)
  \/ publishVerificationCredential(r) \/ Resend(r) \/ ExpireSends(r) \/ Forget(r)
  \/ \E c \in Codes : create(r, c)

Next == SecretExpires \/ AttemptsExpire \/ SendsExpire \/ \E r \in Calls : Serve(r)

Spec == Init /\ [][Next]_vars

-----------------------------------------------------------------------------
Quiet == \A r \in Calls : call[r].step = "idle"

\* Once the calls have returned, a counter that counts will expire: no
\* interleaving of counting, resetting and expiring leaves a user refused for ever.
CountersExpire == Quiet => \A counter \in {wrong, sends} : counter.count > 0 => counter.ttl

\* A stored code has been guessed at less than MaxAttempts times in the window by
\* calls one at a time, and less than that once more for every other call: one that
\* accepted or dropped an older code resets the counter after this one was stored.
GuessLimit(calls) == Quiet /\ stored # {} => guesses <= (MaxAttempts - 1) * calls
=============================================================================
