---------------------------- MODULE AssetCache ----------------------------
(***************************************************************************)
(* One asset and the copies of it in the two-level cache: a map with a     *)
(* short life in every API process in front of Redis.  The cache keeps the *)
(* asset itself, the facility's list and pages of a search under separate  *)
(* keys; a behaviour follows one of them, since no key affects another.    *)
(* A version of the asset is its number of writes; 0 is no asset yet.      *)
(* Tags are unique per facility and the asset's key names the organization *)
(* and the tag only, so it also serves the twin: the asset of another      *)
(* facility with the same tag, which is read here and not written.         *)
(***************************************************************************)
EXTENDS Naturals

CONSTANTS Processes,  \* API processes, each with its own map
          Requests,   \* request handlers that may be in flight
          MaxWrites   \* bound on the writes of the asset

VARIABLES key,      \* the cache key that is followed
          asset,    \* version of the row
          history,  \* entries of the asset's history
          redis,    \* copy in Redis: {} or one version
          local,    \* copy in the map of each process
          request   \* the handlers in flight

vars == <<key, asset, history, redis, local, request>>

Keys == {"asset", "list", "page"}
Twin == MaxWrites + 1  \* stands for the twin's version in a copy
Copy == {{}} \cup {{n} : n \in 0..Twin}
Steps == {"idle", "get", "remember", "load", "set", "store",
          "create", "createdHistory", "update", "archive",
          "dropAsset", "scan", "dropLists", "dashboard", "history"}
\* own: the caller's facility is the one of the asset, not of the twin.
Request == [step : Steps, process : Processes, copy : Copy, own : BOOLEAN]
Idle == [step |-> "idle", process |-> CHOOSE p \in Processes : TRUE, copy |-> {}, own |-> TRUE]

TypeOK ==
  /\ key \in Keys
  /\ asset \in 0..MaxWrites /\ history \in 0..MaxWrites
  /\ redis \in Copy
  /\ local \in [Processes -> Copy]
  /\ request \in [Requests -> Request]

Init ==
  /\ key \in Keys
  /\ asset = 0 /\ history = 0
  /\ redis = {}
  /\ local = [p \in Processes |-> {}]
  /\ request = [r \in Requests |-> Idle]

At(r, step) == request[r].step = step
Home(r) == request[r].process
Enter(r, p, step, own) ==
  /\ At(r, "idle")
  /\ request' = [request EXCEPT ![r] = [step |-> step, process |-> p, copy |-> {}, own |-> own]]
Go(r, step, copy) == request' = [request EXCEPT ![r].step = step, ![r].copy = copy]
End(r) == request' = [request EXCEPT ![r] = Idle]

-----------------------------------------------------------------------------
(* Readers.  findByTagName and findByFacility look in the cache first;     *)
(* list only ever writes to it.                                            *)

\* Mutant: a hit in the process renews the copy in Redis.
LocalHitRenews(r, p) ==
  /\ At(r, "idle") /\ local[p] # {}
  /\ redis' = local[p]
  /\ UNCHANGED <<key, asset, history, local, request>>

LocalHit(r, p) ==
  /\ At(r, "idle") /\ local[p] # {}
  /\ UNCHANGED vars

LocalMiss(r, p, own) ==
  /\ local[p] = {}
  /\ Enter(r, p, "get", own)
  /\ UNCHANGED <<key, asset, history, redis, local>>

findByTagName(r, p) ==
  /\ key = "asset"
  /\ LocalHit(r, p) \/ \E own \in BOOLEAN : LocalMiss(r, p, own)
findByFacility(r, p) == key = "list" /\ (LocalHit(r, p) \/ LocalMiss(r, p, TRUE))

list(r, p) ==
  /\ key = "page"
  /\ Enter(r, p, "load", TRUE)
  /\ UNCHANGED <<key, asset, history, redis, local>>

\* Redis answers with a copy or without, or the read fails and counts as a miss.
RedisGet(r) ==
  /\ At(r, "get")
  /\ \/ redis # {} /\ Go(r, "remember", redis)
     \/ Go(r, "load", {})
  /\ UNCHANGED <<key, asset, history, redis, local>>

remember(r) ==
  /\ At(r, "remember")
  /\ local' = [local EXCEPT ![Home(r)] = request[r].copy]
  /\ End(r)
  /\ UNCHANGED <<key, asset, history, redis>>

\* An asset that is not there is an error and is not cached; a list without it is.
Load(r) ==
  /\ At(r, "load")
  /\ IF ~request[r].own THEN Go(r, "set", {Twin})
     ELSE IF key = "asset" /\ asset = 0 THEN End(r)
     ELSE Go(r, "set", {asset})
  /\ UNCHANGED <<key, asset, history, redis, local>>

set(r) ==
  /\ At(r, "set")
  /\ local' = [local EXCEPT ![Home(r)] = request[r].copy]
  /\ Go(r, "store", request[r].copy)
  /\ UNCHANGED <<key, asset, history, redis>>

\* The write to Redis, whose failure is only logged.
Store(r) ==
  /\ At(r, "store")
  /\ redis' \in {redis, request[r].copy}
  /\ End(r)
  /\ UNCHANGED <<key, asset, history, local>>

-----------------------------------------------------------------------------
(* Writers.                                                                *)

\* create and the rows of importCsv: no such tag yet; a unique index stops the
\* second of two.  Cached lists are left alone.
BeginCreate(r, p) ==
  /\ asset = 0
  /\ Enter(r, p, "create", TRUE)
  /\ UNCHANGED <<key, asset, history, redis, local>>

create(r) ==
  /\ At(r, "create")
  /\ IF asset = 0 THEN asset' = 1 /\ Go(r, "createdHistory", {}) ELSE End(r) /\ UNCHANGED asset
  /\ UNCHANGED <<key, history, redis, local>>

\* The entry may fail; so may the dashboard's invalidation after it.
CreatedHistory(r) ==
  /\ At(r, "createdHistory")
  /\ history' \in {history, history + 1}
  /\ End(r)
  /\ UNCHANGED <<key, asset, redis, local>>

BeginWrite(r, p, op) ==
  /\ asset \in 1..(MaxWrites - 1)
  /\ Enter(r, p, op, TRUE)
  /\ UNCHANGED <<key, asset, history, redis, local>>

update(r, p) == BeginWrite(r, p, "update")
delete(r, p) == BeginWrite(r, p, "archive")

\* update drops the asset's own copy, archive does not.
Write(r) ==
  /\ At(r, "update") \/ At(r, "archive")
  /\ asset < MaxWrites
  /\ asset' = asset + 1
  /\ Go(r, IF At(r, "update") THEN "dropAsset" ELSE "scan", {})
  /\ local' = IF At(r, "update") /\ key = "asset" THEN [local EXCEPT ![Home(r)] = {}]
              ELSE IF At(r, "archive") /\ key # "asset" THEN [local EXCEPT ![Home(r)] = {}]
              ELSE local
  /\ UNCHANGED <<key, history, redis>>

\* A failure of this deletion is only logged.
DropAsset(r) ==
  /\ At(r, "dropAsset")
  /\ redis' \in IF key = "asset" THEN {redis, {}} ELSE {redis}
  /\ local' = IF key = "asset" THEN local ELSE [local EXCEPT ![Home(r)] = {}]
  /\ Go(r, "scan", {})
  /\ UNCHANGED <<key, asset, history>>

\* deleteByPattern deletes the keys its scan found; an error ends the request.
ScanLists(r) ==
  /\ At(r, "scan")
  /\ \/ End(r)
     \/ Go(r, IF key # "asset" /\ redis # {} THEN "dropLists" ELSE "dashboard", {})
  /\ UNCHANGED <<key, asset, history, redis, local>>

DropLists(r) ==
  /\ At(r, "dropLists")
  /\ \/ End(r) /\ UNCHANGED redis
     \/ redis' = {} /\ Go(r, "dashboard", {})
  /\ UNCHANGED <<key, asset, history, local>>

\* The same for the dashboard's keys, then the history's entry, which may fail.
DropDashboard(r) ==
  /\ At(r, "dashboard")
  /\ End(r) \/ Go(r, "history", {})
  /\ UNCHANGED <<key, asset, history, redis, local>>

AppendHistory(r) ==
  /\ At(r, "history")
  /\ history' \in {history, history + 1}
  /\ End(r)
  /\ UNCHANGED <<key, asset, redis, local>>

-----------------------------------------------------------------------------
(* Copies end: in Redis after the key's life, in a process after at most   *)
(* five seconds or when its map is full.                                   *)
ExpireRedis ==
  /\ redis # {}
  /\ redis' = {}
  /\ UNCHANGED <<key, asset, history, local, request>>

ExpireLocal(p) ==
  /\ local[p] # {}
  /\ local' = [local EXCEPT ![p] = {}]
  /\ UNCHANGED <<key, asset, history, redis, request>>

Begin(r) == \E p \in Processes :
  \/ findByTagName(r, p) \/ findByFacility(r, p) \/ list(r, p)
  \/ BeginCreate(r, p) \/ update(r, p) \/ delete(r, p)
Continue(r) ==
  \/ RedisGet(r) \/ remember(r) \/ Load(r) \/ set(r) \/ Store(r)
  \/ create(r) \/ CreatedHistory(r)
  \/ Write(r) \/ DropAsset(r) \/ ScanLists(r) \/ DropLists(r) \/ DropDashboard(r) \/ AppendHistory(r)

Next ==
  \/ \E r \in Requests : Begin(r) \/ Continue(r)
  \/ ExpireRedis
  \/ \E p \in Processes : ExpireLocal(p)

\* Handlers run to their end and every copy has a limited life.
Fairness ==
  /\ \A r \in Requests : WF_vars(Continue(r))
  /\ WF_vars(ExpireRedis)
  /\ \A p \in Processes : WF_vars(ExpireLocal(p))

Spec == Init /\ [][Next]_vars /\ Fairness

-----------------------------------------------------------------------------
Fresh == \A copy \in {redis} \cup {local[p] : p \in Processes} : copy \in {{}, {asset}, {Twin}}

\* The copies of an asset catch up with its last write and stay so, although a
\* reader may store what it loaded before a write, invalidations fail, reach
\* only the writer's process, come from a stale scan or are forgotten (archive
\* keeps the asset's copy, create the lists).
StaleFades == <>[]Fresh
=============================================================================
