-------------------------- MODULE HttpIdempotency --------------------------
(***************************************************************************)
(* The Idempotency-Key middleware for the requests that carry one key: the *)
(* stored response, the lock that marks an execution, the polling of the   *)
(* requests that find it taken.  Redis executes one command at a time; a   *)
(* request goes on between two of them.  The response is stored and the    *)
(* lock deleted without waiting, in that order on the connection.          *)
(***************************************************************************)
EXTENDS Naturals

CONSTANTS Attempts,       \* requests sent with the key, retries included
          Bodies,         \* what of a request's data the fingerprint covers (JSON body)
          Rests,          \* what it does not: query parameters, multipart content
          MaxExpirations  \* bound on the expirations of the lock's TTL

VARIABLES stored,    \* the cached response: {} or {[fingerprint, run]}
          locked,    \* the lock key exists
          attempt,   \* the requests
          runs,      \* the data each request ran the handler on: {} or one
          expired    \* how often the lock has expired

vars == <<stored, locked, attempt, runs, expired>>

Data == [body : Bodies, rest : Rests]

\* Method and path are in the key already; req.body is the parsed JSON body and
\* is missing for a multipart request.
fingerprint(d) == d.body

\* An execution is named by the request that ran it.  answer: the execution a
\* request was answered with ({}: none yet, refused or an error); busy, conflict
\* and error answers only differ in what is sent.
AttemptState == [step : {"unsent", "lookup", "lock", "wait", "run", "store", "unlock", "done"},
                 data : Data,
                 answer : SUBSET Attempts]

AnyData == CHOOSE d \in Data : TRUE

TypeOK ==
  /\ stored \subseteq [fingerprint : Bodies, run : Attempts]
  /\ locked \in BOOLEAN
  /\ attempt \in [Attempts -> AttemptState]
  /\ runs \in [Attempts -> SUBSET Data]
  /\ expired \in 0..MaxExpirations

Init ==
  /\ stored = {}
  /\ locked = FALSE
  /\ attempt = [a \in Attempts |-> [step |-> "unsent", data |-> AnyData, answer |-> {}]]
  /\ runs = [a \in Attempts |-> {}]
  /\ expired = 0

-----------------------------------------------------------------------------
Go(a, step) == attempt' = [attempt EXCEPT ![a].step = step]

Send(a, data) ==
  /\ attempt[a].step = "unsent"
  /\ attempt' = [attempt EXCEPT ![a].step = "lookup", ![a].data = data]
  /\ UNCHANGED <<stored, locked, runs, expired>>

\* Mutant: the fingerprint of the stored response is not compared.
ReplayAnyone(a, s) == attempt' = [attempt EXCEPT ![a].step = "done", ![a].answer = {s.run}]

\* The answer a stored response gives: replayed when the fingerprints agree,
\* otherwise the key was reused with different data (409).
Replay(a, s) ==
  attempt' = [attempt EXCEPT ![a].step = "done",
                             ![a].answer = IF s.fingerprint = fingerprint(attempt[a].data)
                                           THEN {s.run} ELSE {}]

Lookup(a) ==
  /\ attempt[a].step = "lookup"
  /\ IF stored = {} THEN Go(a, "lock") ELSE \E s \in stored : Replay(a, s)
  /\ UNCHANGED <<stored, locked, runs, expired>>

\* Mutant: whoever finds no response runs.
setAlways(a) ==
  /\ attempt[a].step = "lock"
  /\ Go(a, "run") /\ locked' = TRUE
  /\ UNCHANGED <<stored, runs, expired>>

\* setIfAbsent on the lock key.
setIfAbsent(a) ==
  /\ attempt[a].step = "lock"
  /\ IF locked THEN Go(a, "wait") /\ UNCHANGED locked
               ELSE Go(a, "run") /\ locked' = TRUE
  /\ UNCHANGED <<stored, runs, expired>>

\* A waiting request looks again every 200 ms and gives up after 30 rounds.
Poll(a) ==
  /\ attempt[a].step = "wait" /\ stored # {}
  /\ \E s \in stored : Replay(a, s)
  /\ UNCHANGED <<stored, locked, runs, expired>>

StillProcessing(a) ==
  /\ attempt[a].step = "wait"
  /\ Go(a, "done")
  /\ UNCHANGED <<stored, locked, runs, expired>>

\* The handler runs and answers: below 400 the response is stored, an error only
\* gives the lock back.
HandlerSucceeds(a) ==
  /\ attempt[a].step = "run"
  /\ runs' = [runs EXCEPT ![a] = {attempt[a].data}]
  /\ attempt' = [attempt EXCEPT ![a].step = "store", ![a].answer = {a}]
  /\ UNCHANGED <<stored, locked, expired>>

HandlerFails(a) ==
  /\ attempt[a].step = "run"
  /\ Go(a, "unlock")
  /\ UNCHANGED <<stored, locked, runs, expired>>

\* redis.set and redis.delete, neither awaited; the set may fail unnoticed.
StoreResponse(a) ==
  /\ attempt[a].step = "store"
  /\ stored' = {[fingerprint |-> fingerprint(attempt[a].data), run |-> a]}
  /\ Go(a, "unlock")
  /\ UNCHANGED <<locked, runs, expired>>

StoreFails(a) ==
  /\ attempt[a].step = "store"
  /\ Go(a, "unlock")
  /\ UNCHANGED <<stored, locked, runs, expired>>

Unlock(a) ==
  /\ attempt[a].step = "unlock"
  /\ locked' = FALSE
  /\ Go(a, "done")
  /\ UNCHANGED <<stored, runs, expired>>

\* The process dies while the handler runs: the lock stays until its TTL.
Crash(a) ==
  /\ attempt[a].step \in {"run", "store", "unlock"}
  /\ Go(a, "done")
  /\ UNCHANGED <<stored, locked, runs, expired>>

LockExpires ==
  /\ locked /\ expired < MaxExpirations
  /\ locked' = FALSE
  /\ expired' = expired + 1
  /\ UNCHANGED <<stored, attempt, runs>>

Middleware(a) ==
  \/ \E d \in Data : Send(a, d)
  \/ Lookup(a) \/ setIfAbsent(a) \/ Poll(a) \/ StillProcessing(a)
  \/ HandlerSucceeds(a) \/ HandlerFails(a) \/ StoreResponse(a) \/ StoreFails(a)
  \/ Unlock(a) \/ Crash(a)

Next == LockExpires \/ \E a \in Attempts : Middleware(a)

Spec == Init /\ [][Next]_vars

-----------------------------------------------------------------------------
Running == {a \in Attempts : attempt[a].step \in {"run", "store"}}

\* Until the lock's TTL passes, two requests with one key never execute at the
\* same time, and a request is only ever answered with an execution that had its
\* own fingerprint, also across expirations, crashes and lost responses.
KeyGuardsExecution ==
  /\ expired = 0 => \A a, b \in Running : a = b
  /\ \A a \in Attempts : \A e \in attempt[a].answer :
       \E d \in runs[e] : fingerprint(d) = fingerprint(attempt[a].data)
=============================================================================
