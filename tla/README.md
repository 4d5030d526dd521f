# A verification project for the MaintainPro backend

TLA+ models of the parts of the MaintainPro backend (`src/src`, TypeScript on
Express, MongoDB/Mongoose, Redis and BullMQ) in which several requests, worker
processes or retries meet on the same state; TLC runs that check them on small
instances; and TLAPS proofs of their central invariants for every instance.
Paths below are relative to the repository; `PROJECT.json` maps every definition
to the lines it models.

## 1. The system

The program is a multi-tenant maintenance platform. API processes (`server.ts`)
serve HTTP; worker processes (`worker.ts`) run the BullMQ consumers and the outbox
relay. Everything durable is in MongoDB or Redis, there is no shared memory between
requests, and a request handler is a sequence of awaits: between any two of them any
other request, worker or crash may happen. That is where the hard behaviour is.

| Component | State it keeps | Operations | Interacts with |
|---|---|---|---|
| Outbox (`infrastructure/events/outbox`) | rows with status, attempts, availableAt, leaseUntil | append, claimNext, markPublished, markFailed, poller start/stop | appended to in the transactions of the business modules; enqueues on BullMQ |
| Event delivery (`infrastructure/events/dispatcher`, `idempotency`, `bus`) | ProcessedEvent per event and consumer | execute: claim, handle, complete, fail | called by the queue consumer; handlers write audit, notifications, e-mail |
| Queue and DLQ (`infrastructure/queue`) | BullMQ jobs, dead-letter records | enqueue, processJob with timeout, stall, capture, replay | outbox, event delivery, operators |
| Inventory stock (`modules/inventory`) | balances, reservations, ledger, locations | receive, reserve, issue, consume, release, adjust, transfer, return, reconcile | work orders (references), events |
| Work orders (`modules/work-orders`) | the order (optimistically versioned), support records | create, update, archive, assign, progress, transition, completion review, vendor accept/reject, invoice | applications, awards, service requests, PM, outbox |
| Vendor applications, contract awards | application per vendor and order; one award per order | apply, review, withdraw, award; contract create, status, renew | work orders |
| Service requests | the request and its decision | submit, edit, approve into a work order, reject, rate, attach | work orders, outbox |
| Quotations, invoices | revisions and status; invoice status and payment reference | submit, review, accept, revise; review, pay, dispute | applications, work orders |
| Preventive maintenance | plans, occurrences, links to work orders | create, approve, reject, assign, update, archive, skip | work orders |
| Identity: sessions | refresh-token rows | create session, refresh, revoke, logout everywhere | users, events |
| Identity: codes, sign-in, registration | secrets and counters in Redis; failed attempts and lock of a user; tenants and accounts | verify, resend; login, lock, unlock, change password; register, OAuth start and callback | Redis, users, organizations, vendors |
| HTTP idempotency (`shared/middleware/idempotency.ts`) | Redis lock and stored response per key | claim, wait, replay, store | every mutating route |
| Billing | subscription, payments, payment methods | subscribe, activate, change plan, cancel, checkout, webhook, expire, save a method | payment providers, outbox |
| Invitations and users | invitations, temporary accounts | invite, resend, revoke, accept, first login, clean-up job | users, e-mail |
| Assets and the cache | the asset and its history; copies in Redis and in every API process | create, import, update, archive; get, set, delete | dashboard, audit |
| Organizations, facilities, locations | profiles; the tree of locations | create, update (reparent), archive | assets, plans |
| Vendors and agreements | relationship, facility associations, service-level agreements | request, respond, associate, propose, accept, end | applications |
| Reports, search, audit, notifications, e-mail, uploads, settings, adapters | logs or nothing | queries and I/O | consumers of the events |

What makes each part correct, and what is hard to test there, is the "hazards" list of
`PROJECT.json`: overlapping read-check-write handlers, snapshot transactions that only
read what they depend on, leases that expire under a slow worker, timeouts that do not
stop the work they give up on, retries of what was already done, crashes between two
writes, and replays.

## 2. The modules

| Module | Models | Notes |
|---|---|---|
| `ReliableHandover` | the promise of the outbox | abstract specification |
| `EventOutbox` | outbox rows and the relay | refines `ReliableHandover` |
| `EventDispatch` | the queue `domain-events`, the consumer, `DomainEventWorker.execute`, claims, DLQ and replay | |
| `EventPipeline` | `EventOutbox` and `EventDispatch` on the shared queue | composition with INSTANCE |
| `InventoryStock` | stock movements of one item as snapshot transactions | |
| `WorkOrders` | one marketplace order, its applications, contract and invoice | |
| `SessionTokens` | refresh-token rows of one user and the handlers on them | |
| `ServiceRequests` | one service request, its decision and its conversion | in `MCMaintenance` |
| `PreventiveMaintenance` | one plan, its occurrences and their orders | in `MCMaintenance` |
| `Billing` | one tenant's subscription, payments and payment methods | in `MCCommerce` |
| `Quotations` | the quotations for one order | in `MCCommerce` |
| `Invoices` | one invoice after its submission | in `MCCommerce` |
| `HttpIdempotency` | the requests under one idempotency key | in `MCCommerce` |
| `OneTimeCodes` | one secret (code or link) and its counters | in `MCAccounts` |
| `SignIn` | one account's password, lock and sign-ins | in `MCAccounts` |
| `Invitations` | the invitations of one address and the account they lead to | in `MCAccounts` |
| `Registration` | registrations and OAuth callbacks that compete for addresses and identities | in `MCAccounts` |
| `AssetCache` | one asset behind the two-level cache | in `MCEstate` |
| `Locations` | the tree of locations of one facility | in `MCEstate` |
| `VendorRelations` | one organization and one vendor | in `MCEstate` |
| `*Proofs` | theorems about `EventOutbox` and `EventDispatch` (`EventProofs`), `InventoryStock`, `WorkOrders`, `SessionTokens` and the parts of `MCMaintenance`, `MCCommerce`, `MCAccounts`, `MCEstate` | |
| `MC*` | instances for TLC: symmetry and workloads | |

How they correspond to the code:

* **EventOutbox.** `status`, `attempts`, `ready` and `lease` are the columns of a row,
  the two dates reduced to what the filters compare with `now`. A *relay* is one
  `runOnce` call; `start` fires one every second without waiting, so a process has
  several (`Slots`). `ClaimNext`, `EnqueueOk`/`EnqueueThrows`, `MarkPublished` and
  `MarkFailed` are the awaits of `runOnce`, each of which may reject. A rejected enqueue
  may or may not have reached BullMQ. `Crash` loses the calls, not the rows.
* **EventDispatch.** A worker is one concurrency slot. `Timeout` detaches an execution
  from its job (`attached` becomes FALSE): the work goes on, the job is retried. `Claimable`
  is the filter of `ProcessedEventRepository.claim`; `Complete` and `Fail` update by event
  and consumer only, as the code does. `ReplayRead`, `ReplayAdd` and `ReplayUpdate` are the
  awaits of `replay`; adding a job id that exists does nothing.
* **InventoryStock.** A request passes the service's checks (`Request`), opens a
  transaction on a snapshot in which all its conditions hold (`Begin`), and commits
  (`Commit`) or is retried (`Retry`) because a transaction that committed meanwhile wrote
  one of its documents (`stale`). This is MongoDB's snapshot isolation with first
  committer wins, the one external mechanism the code rests on. `Duplicate` is the E11000
  branch. Every `*Atomic` of the repository is one definition. `releaseAtomic` changes
  nothing: its ledger entry carries an empty `unitOfMeasure`, which the schema requires, so
  the transaction is always rolled back.
* **WorkOrders.** A call in flight is a record: the operation, how far it is, what it
  read. The order is saved under `optimisticConcurrency`: another save marks the holders
  `stale`, whose own save is then a VersionError. Applications and contracts are written
  without a condition, as in the repositories. The award by `updateStatus` is four separate
  writes; the award by `ContractAwardService.create` is a transaction, which is run again
  after a write conflict, with an application document Mongoose already counts as saved.
  `assertInternalTechnician` compares a path its query does not select.
* **SessionTokens.** `row` holds the RefreshToken documents: a state (not stored, active,
  or the reason of the revocation), the family and the two links of the chain. A family
  stands for the pair familyId and sessionId, which are issued together. Every database
  call of `refresh`, `revokeSession` and `logoutAll` is a step; `rotateToken` is two
  (`Rotate`, `Insert`), an `updateMany` revokes its documents one by one (`RevokeOne`) and
  must have met those that were active when it began (`todo`). `Fail` ends a handler at any
  await without undoing its writes. `issued` and `revoked` record what clients were handed
  and which sessions the published events name. Expiry and the purge after 90 days only
  take tokens away and are left out.
* **ServiceRequests.** `save` writes the paths that were modified; it is conditional on the
  version only when an array is assigned (`attach`). Converting a manager's request is three
  commits (`CreateApproved`, `createFromServiceRequest`, `LinkWorkOrder`). The populated
  references of `approve` and `reject` are modelled by what `toString` makes of them: the
  first always throws inside its transaction, the second after its commit.
* **PreventiveMaintenance.** Every handler is a chain of separate commits (plan, occurrence,
  order, link); `pm[c]` records how far it is and what it read, `Fail` stops it anywhere.
  Dates are instants. A recurrence is the set of UTC midnights it matches, whatever its
  frequency; `plannedDate`, `nextDueAt` and the date of a plan without recurrence are
  independent inputs. `horizon` is ninety days from now and moves (`Tick`). A sorted query
  with a limit of one is `IsFirst`. `late` marks occurrences inserted into an archived plan.
* **Billing.** Only `handleWebhook` is transactional (claim of the payment, policy check,
  activation, outbox event). The other calls read, check `SubscriptionPolicy` and update
  without a condition. The provider is external: it opens checkouts, charges, declines, and
  delivers webhooks in any order, any number of times, also before the checkout id is stored.
  `activations` counts what each payment has activated.
* **Quotations.** `updateStatus` to accepted awards the application first, in the awaits of
  `VendorApplicationService.updateStatus`: read the application, read the order, save the order
  under its version, reject the other applications, award its own; then it writes the quotation.
  `order.reopened` is the version: the order changes hands by being taken and turned down, and
  `TakenElsewhere`, `VendorReject` and `ReviewElsewhere` are the other requests that do so (in
  detail in `WorkOrders`). `revise` inserts the revision under a unique index and then updates
  the quotation.
* **Invoices.** Review and payment update on condition of the status; dispute saves over
  whatever is there what it decided on the status it read. All three overlap freely.
* **HttpIdempotency.** Redis executes one command at a time; a request goes on between two.
  Storing the response and deleting the lock are not awaited, and the first can fail.
  An execution is named by the request that makes it; `runs` records the data it was for,
  `answer` the execution a request was answered with. Data is a body and a rest (query,
  multipart content); `fingerprint` sees the body only.
* **OneTimeCodes.** Every await on Redis is a step. Counting is INCR and then EXPIRE by the
  call that counted to one. Codes and links differ only in what a wrong guess does (`kind`).
* **SignIn.** A sign-in decides on copies: the user read first, and a second read for the
  lock. `UserLoginFailedEvent` is enqueued between the count and the lock
  (`PublishLoginFailed`). `Stop` ends a request at any await, which is also what a rejected
  enqueue does. `misses` counts the wrong passwords since the last unlocking, `lost` the
  requests that ended between a wrong password and the lock.
* **Invitations.** Invitation and account are two documents written one after the other; the
  unique e-mail of `User` is the only guard across them. `fresh` stands for the dates. `Fail`
  ends a request at any await; `cut` records that one ended between the member it made and the
  row it was to mark (`publishUserRegistered` rejects, or the process stops before `accept`).
* **Registration.** Tenant, user, head office and the user's facility are written one after
  the other. `consumeOAuthState` is one Redis command, the unique indexes refuse a second
  organization and a second user of an address and a second link of an identity.
* **AssetCache.** A version of the asset is its number of writes. A behaviour follows one
  cache key (the asset, a facility's list, a page). Every call of the Redis client may fail,
  which the code logs or lets through; the local map is per process. The key of the asset
  leaves out the facility, so an asset of the same tag in another facility (the twin, which is
  only read here) goes through the same copies.
* **Locations.** The ancestor walk is one query per step, the write a further one.
* **VendorRelations.** Every handler checks what it read and writes without a condition. Either
  party may take any step of an agreement.

## 3. The runs

| Run | Checks | Instance |
|---|---|---|
| `events` | the refinement KeepsPromise; LossOnlyAfterFault, HandledOnceWhileLeased | outbox: 2 events, 1 process with 2 overlapping calls, 2 attempts, 1 fault; delivery: 1 event, 2 consumers, 2 executions, 2 operators, 2 timeouts, 1 crash, 1 expiry, 3 handler and 1 database error |
| `pipeline` | under fairness CommittedReachesConsumers, JobsSettle | 1 event, 2 consumers, 1 relay, 1 execution slot, one fault of each kind |
| `inventory` | ReservedWithinStock, ReservedIsOutstanding, WithinSource, QuantityIsLedger, KeyAppliedOnce | 2 clients, three workloads |
| `work_orders` | WorkHasWorker, AwardsAgree, LifecycleOrder, VendorNotReplaced | 2 overlapping calls, 2 vendors (3 in sequences), four workloads |
| `sessions` | OneLive, ChainIntact, DeadStaysDead | 4 tokens, 2 sessions, 2 overlapping handlers |
| `maintenance` | TypeOK, AttachmentsKept, OneDecision, OneOrderPerOccurrence, ArchivedIsQuiet | 2 handlers, 2 uploads, 1 edit; a plan with 2 dates, 2 recurrences, 2 orders, handled in turn, also with stops and assignments; four workloads |
| `commerce` | ActivatedOncePerPayment, SettledIsFinal, OneDefaultMethod, AcceptedOncePerAward, PaidOnce, KeyGuardsExecution | 2 plans, 2 payments, 3 methods, 2 overlapping calls; 2 quotations, 2 applications, 2 handlers, 2 revisions, 1 vendor that turns the order down; 2 payment references; 3 requests with 2 bodies and 2 rests, 1 expiry of the lock |
| `accounts` | TypeOK, CountersExpire, GuessLimit, PasswordGuessesBounded, MembershipRecorded, RegistrationIsWhole, ProviderLinkedOnce, and under fairness LeftoversVanish | 2 codes, 2 calls, 3 attempts, 2 sends; 2 passwords, 2 sign-ins, 1 lost request; 2 invitations, 2 handlers; 2 addresses, 2 identities, 2 visits, 2 states |
| `estate` | TypeOK, LocationsFormTree, and under fairness StaleFades | 2 handlers, 2 processes, 2 writes; 3 locations |
| `dispatch_loss`, `session_revocation`, `sla_lifecycle` | one documented statement each, which TLC refutes | the smallest instance that shows it, or that of the component's passing run |

What they show:

* The outbox keeps its promise through every overlap of relays, takeover of leases, lost
  reply and crash: an event is owed until the queue really has it or it is parked after
  `MAX_ATTEMPTS` claims.
* Delivery is precise about its faults. Handler failures, retries, replays and expired
  leases never lose a consumer silently (LossOnlyAfterFault); it takes a timeout, a crash
  or a failing database. While leases outlast handlers, two executions never share a
  handler and no effect is doubled.
* Inventory is serialised by its balance documents: even conditions over entries that are
  only read (returns, consumptions) cannot be broken by write skew, because all the
  movements concerned write the same balance. A mutant that drops that write is found.
* Optimistic versioning is enough for the order itself (lifecycle, vendor, worker); the
  documents around it, which have none, keep weaker guarantees, and AwardsAgree needs reviews
  that do not overlap awards.
* The conditional first write of `rotateToken` alone decides a race between refreshes: a
  session has one live credential, its chain never forks, the loser gets no token, and a
  session that has ended stays ended. The unique index on sessionId is never what saves
  it. What two writes cannot give is in the violation run: a revocation between them is
  reported and the session goes on.
* Where a handler writes an array (attachments of a service request), Mongoose's version check
  keeps every addition that was acknowledged. Decisions have no such check: OneDecision holds
  for requests handled one at a time, through any failures.
* A maintenance plan that is worked on by one request at a time has one order per occurrence.
  Stopping anywhere never leaves an archived plan with an occurrence of its own that comes due;
  only the route that skips one occurrence puts a new one into it.
* The transaction of the webhook makes activation exactly-once per payment under repeated,
  reordered and contradictory deliveries, beside unconditional updates of the same subscription.
* Of all the writes of an award only the save of the order is conditional, and that is what
  bounds the accepted quotations: one for each time the order was taken. Conditional updates
  keep an invoice to one confirmed payment reference, also when disputes overlap.
* Within the lock's life, a key runs one handler at a time, and no request is ever answered
  with an execution of another fingerprint, also after expiry, crash or a lost response.
* No interleaving of INCR, EXPIRE and DEL leaves a counter without an end once its calls have
  returned. A stored code admits `MaxAttempts - 1` wrong guesses, and as many again for every
  other call in flight: a verification that accepted or dropped an older code deletes the
  counter in an await of its own, possibly after the next code was stored and guessed at.
* Wrong passwords are bounded by the limit, the requests in flight, and the requests that
  ended between their wrong password and the lock: the last term is not the code's to bound.
* Whoever became a member by an invitation has one that says so, through every overlap of
  invitations, resends and logins; the exceptions are a revoked invitation and an acceptance
  that ended half-way.
* A unique index decides every race for an address or an identity, so that whoever is signed
  in has a whole account; what the losers wrote stays behind.
* A cached copy can be stale because a reader stored it late, an invalidation failed, reached
  only its own process, used an old scan or was never made; each ends with the copies' life.

Bounds. Two overlapping actors are the smallest number that interleaves; the properties
relate pairs (two relays, two executions, two transactions, two calls), and each workload
leaves room for a third step of either. Two vendors are the smallest competition; three
are used where requests are sequential, so that a re-award after a rejection meets a
bystander. Ledgers of 4 entries hold a receipt, an issue and two competing movements on
it; 3 entries hold a receipt and two competing transfers. Attempts and replays of 1 or 2
reach both sides of each limit. Three attempts at a code or password are the first limit at
which a reset can hide more than one guess; `MaxFailed` 4 and `MaxRefused` leave room above the
limits for calls that overlap; `MaxLost` 1 is the first request that escapes the lock, and
`MaxReopened` 1 the first second award. Two dates hold a recurrence with a
next occurrence and one that misses the client's date; three
locations are the smallest cycle that a look at the new parent's own parent would miss, three
payment methods let two calls replace a third. Four tokens in two sessions allow two rotations beside a
second session, or three in one; tokens are never reused, so the run ends when they are
used up. Fault counters only bound how often a fault happens; the properties mention them where a guarantee depends on the absence of a fault. Symmetry is
used for safety only (in `events`, `inventory`, `work_orders`, `sessions`, `maintenance` and, for
quotations, `commerce`), on sets whose members are never compared with anything but each other.

Workloads. `MCInventoryStock`, `MCWorkOrders` and `MCMaintenance` choose one workload
initially, which restricts the requests of that behaviour (which operations, how many at once,
whether they stop half-way). It only restricts the clients; the operations are those of the
component, and a property that needs a restriction names its workload. `MCCommerce`,
`MCAccounts` and `MCEstate` choose one part initially: the parts share no document and no key,
so their product would only interleave independent steps; `Parts` and `Workloads` name those a
configuration looks at. `MCEvents` chooses the outbox or the delivery; `pipeline` has both. The
workload of overlapping plan handlers (`plansOverlap`) is in no run: its types are proved with the
others, and its two orders for one occurrence are among the divergences below. One part is restricted further: one update of a location that names a
parent is in flight at a time; section "What the code does otherwise" says what happens
without. Deadlock is checked in the runs of `MCEstate`. The other runs end when their inputs are used up
(events, tokens, ledger entries, orders, payments, invitations), which is no deadlock of the code.

Fairness (in `EventOutbox!Fairness`, `EventDispatch!FairSpec`, `EventPipeline!FairSpec`,
`Invitations!Fairness`, `AssetCache!Fairness`):
`setInterval` ticks for ever in a live process, an await in a live process settles, the
supervisor restarts a stopped process (`docker-compose.production.yml` and `render.yaml`
run the worker as a service), time passes for leases and retry dates of the outbox, and
BullMQ hands out waiting jobs and recovers stalled ones; the clean-up of temporary accounts
runs every five minutes; keys in Redis have a TTL and local copies live at most five seconds,
and the handlers of the asset routes run to their end. No fairness is assumed of
clients, operators, faults, or of the expiry of a consumer lease.

### What the code does otherwise than documented

Three statements of the documentation are refuted by a run and listed under "findings":

* `dispatch_loss`: a retry skips a consumer that the execution it replaces still holds.
* `session_revocation`: a revocation between the two writes of a rotation is without effect.
* `sla_lifecycle`: accepting and rejecting an agreement at the same time overwrite each other
  (`sla-agreement.service.ts:187`; `PROCUREMENT_API.md:11`).

While modelling, these were met as well. They are represented in the models, without a run of
their own:

* A consumer lease that runs out under a slow handler lets a second execution succeed too
  (`processed-event.repository.ts:36`; `IDEMPOTENCY_ARCHITECTURE.md:5`).
* The replay of a record captured from a failed replay reuses a job id and adds nothing
  (`dead-letter.queue.ts:61` and `:119`; `DLQ_ARCHITECTURE.md:21`).
* Every release of a reservation fails: its ledger entry has an empty `unitOfMeasure`
  (`inventory.repository.ts:513`), which `inventory-transaction.model.ts:55` requires, and the
  transaction is rolled back (`INVENTORY_API.md:29`, `INVENTORY_ARCHITECTURE.md:19`). A reserved
  quantity is only ever given back by consumption.
* A return is bounded by prior returns only, not by prior consumption
  (`inventory.repository.ts:656`; `INVENTORY_API.md:31`).
* `ContractAwardService.create` awards withdrawn and rejected applications
  (`contract-award.service.ts:47`; `PROCUREMENT_API.md:9`), and a cancellation that overlaps
  an activation cancels an active contract (`:248`; `PROCUREMENT_API.md:12`).
* An invoice can be created after the completion was sent back
  (`work-order.routes.ts:267`).
* A logout with a token that was rotated meanwhile revokes only the old row: the session's
  new token stays active, and the old row no longer counts as rotated
  (`session.service.ts:370`; `IDENTITY_ARCHITECTURE.md:29`).
* Two invoice submissions that overlap both find none and create two
  (`work-order.routes.ts:269`); `assertInternalTechnician` compares a path its query does not
  select and refuses every technician (`work-order.service.ts:887`).
* `reconcile` gives a transfer no effect at its source (`inventory.repository.ts:140`;
  `INVENTORY_ARCHITECTURE.md:23`). A query, not modelled.
* Service requests: `approve` always fails on its populated references; `reject` of a request
  with an asset reports an error for a decision that stands.
* Preventive maintenance: two approvals of one occurrence in flight generate two orders
  (`pm.service.ts:258`; `preventive-maintenance/API.md:16`), and so does one that stops before the
  link and is repeated. `POST /occurrences/:id/skip` looks at no plan and inserts a scheduled
  occurrence into an archived one (`pm.routes.ts:74`). `skip` looks for an occurrence at the very
  instant of `plannedDate`, which keeps its time of day while generated occurrences are at UTC
  midnight: it often finds none to cancel and moves the plan on (`pm.service.ts:102`,
  `pm.recurrence.ts:3`).
* Billing: a webhook that arrives before the checkout id is stored is acknowledged and lost; a
  failure event makes a cancelled or expired subscription past due; two checkouts that overlap
  open two payments; an interrupted save of a payment method leaves two defaults.
* A revision in flight sets an accepted quotation back to submitted. When a vendor turns the
  order down, its quotation stays accepted and its application awarded, and another one can be
  accepted beside it (`vendor-application.service.ts:206`; also a rejected one).
* A dispute that read the invoice before a payment overwrites the status of the paid invoice
  (`invoice.routes.ts:148`); the reference stays.
* The fingerprint of the idempotency middleware leaves out the query and multipart content: a
  request that differs only there is answered with the other's response (`idempotency.ts:13`;
  its own message at `:38`).
* A one-time secret can be accepted by two verifications that overlap; a process that dies
  between INCR and EXPIRE leaves a counter without end (such a crash is not modelled). A
  session is created before the status of the user is looked at.
* An enqueue that rejects between the count of a wrong password and the lock skips the lock
  (`auth.service.ts:353`): while the queue is down, wrong passwords are counted and never locked.
* An acceptance that ends after the account was made and before its row is marked (a rejected
  `publishUserRegistered`, `user.service.ts:255`, or a stop before `auth.service.ts:325`) leaves
  an active member whose invitation stays pending.
* A revoked invitation leaves its temporary account, which its first login activates
  (`invitation.service.ts:425`, `auth.service.ts:383`; `INVITATIONS_ARCHITECTURE.md:24`).
* A login with expired temporary credentials deletes the account by its id, also when it was
  refreshed or activated meanwhile (`auth.service.ts:370`).
* `create` of an invitation stores no names, so the account of such an invitation is refused and
  the pending row stays.
* An organization left behind by a registration that stopped keeps its unique e-mail: the address
  can register no other (`organization.model.ts:19`).
* A signup by OAuth always fails at the user, who needs a password, and leaves the tenant.
* Two locations reparented at the same time can close a cycle, on which later walks do not end;
  clearing the parent of a location does nothing.
* The cached copy of one facility's asset answers another facility with the same tag
  (`asset.service.ts:276`, `cache-keys.ts:6`; `ASSETS_ARCHITECTURE.md:11`).
* `archive` keeps the cached copy of the asset, `create` the cached lists, until they expire.
* Associations with facilities outlive the relationship. The party that proposed an agreement
  may accept it itself (`sla-agreement.service.ts:171`).
* Facilities are counted against the plan's limit before the insert (`facility.service.ts:175`);
  two creations can pass together. Not modelled.

## 4. The proofs

The eight `*Proofs` modules prove the theorems listed in `PROJECT.json`: type correctness, the
safety invariants and action properties of the runs, and that the outbox implements
`ReliableHandover`. They hold for every value of the constants that satisfies the named
assumptions:

| Assumption | Says |
|---|---|
| `OutboxAssumption` | at least one attempt, a fault bound, `NoEvent` is no event |
| `DispatchAssumption` | at least one consumer and one attempt; the bounds are numbers |
| `StockAssumption` | quantities are positive, the ledger bound is a number, `None` is no location, reservation or key |
| `WorkOrdersAssumption` | `NoVendor` is no vendor, the operations are those of the code |
| `CallsAssumption` | finitely many calls in flight |
| `SessionTokensAssumption` | `NoToken` is no token, `NoFamily` no family |
| `CommerceAssumption` | there is a lowest plan, a body, a first revision; quotations are finitely many; the bounds are numbers |
| `AccountsAssumption` | finitely many requests in flight; limits are positive; there is an address and a password |
| `EstateAssumption`, `PartsAssumption` | `None` is no location; `Parts` are parts |
| `MaintenanceAssumption` | dates are numbers and there is one; a recurrence is a set of dates; the bounds are numbers |

AwardsAgree and the theorems about a part of `MCMaintenance`, `MCCommerce`, `MCAccounts` or
`MCEstate` are about the specification the run checks, with its workloads; every set and bound is
arbitrary. The others are about the component's own specification. Each argument is an inductive invariant, checked by TLC before it was proved:

* **Outbox.** A relay past its enqueue has its event in the queue, and a relay's attempt
  number is at most the row's, with equality for one relay only. The second part is what
  makes "claim number" an identity and the dead-letter limit sound for stale relays.
* **Delivery** (`DispatchInv`). While leases outlast handlers and the database answers, a
  claim in progress has one execution at most and its effect lies between claim and
  completion (`OneHolder`, `EffectOnce`): HandledOnceWhileLeased. Without timeouts, crashes
  and database errors an execution is the only one of its job, and a failed job is captured
  (`OneExecution`). An event without a dead letter then has only the job it was published
  with, and what lies behind the consumer in turn is completed (`InOrder`):
  LossOnlyAfterFault.
* **Inventory.** ReservedWithinStock is not inductive: a commit relies on conditions read
  earlier. The strengthening `SnapshotHolds` says that an open transaction that is not
  stale still stands on what it read, because whoever writes one of its documents makes it
  stale. WithinSource rests on entries that a transaction only reads; they still allow
  it (`SourceInv`) because whoever enters a return or a consumption of the same entry writes
  the balance of that entry's location. QuantityIsLedger and ReservedIsOutstanding compare a
  counter with a sum, so a section of the module proves what is needed of
  `SumFunctionOnSet`: that the sum over a finite set exists and that any term can be taken
  out of it. Induction over finite sets is a step to a smallest counterexample, with the
  library's theorem that the strict subset order is well-founded. The reservations ever made
  are finitely many (`FinitelyUsed`), also when their ids are not.
* **Work orders.** The same idea for optimistic versioning (`Held`): a call that holds the
  document and is not stale still satisfies the checks its handler made when it read. For
  AwardsAgree: an awarded application, and one a call is about to record as awarded, is that
  of the order's vendor (`AwardsInv`); the order is taken by one save only. Where reviews
  do not overlap awards, the vendor's application is awarded or a call will record it, a
  transaction that is run again is stale and cannot commit, and what a lone review has read
  still holds (`AgreeInv`).
* **Sessions.** OneLive and ChainIntact need to know what a rotation between its two
  writes stands on (`InFlight`): its old row is revoked and names the successor, the
  successor is not stored and no other handler is about to store it. The first write
  establishes this because the row was active, so nobody else was rotating the session.
  Two lemmas carry most steps: one for steps that write no row (`HandlerStep`), one for
  revocations (`RevokeRowStep`). NoRevival is an action property proved from the same
  invariant.
* **Service requests** (`RequestInv`, `DecisionInv`). A handler's version is not ahead of the
  document's, and while the two are equal so are the attachments: this is why the save under
  the version loses none. OneDecision, for requests in turn, needs that what a handler checked
  still holds when it saves, and that a manager's request is approved without an event until
  its order is linked.
* **Preventive maintenance** (`MaintenanceInv`). One part per workload, each relating the
  documents to what the handler in flight knows. Orders: every occurrence is settled (approved
  with its one order, or without any) unless a handler is between its order and the link.
  Archive: whatever is scheduled is still on the list of the archive in flight, and creations
  and skips work on a plan that is not archived; what is inserted later is marked `late`.
* **Billing** (`BillingInv`). A payment that a checkout is still working on is pending, unknown
  to webhooks and that checkout's alone; a settled one is therefore out of reach of every write
  but the webhook's, which claims pending payments only.
* **Quotations, invoices** (`QuotationInv`, `InvoiceInv`). The quotations that are accepted, or
  that a handler past the save of the order is going to accept, are at most as many as the times
  the order was taken; only that save adds one, and it takes the order. Once a reference is
  confirmed the invoice is paid or disputed, where no conditional write reaches it.
* **Idempotency** (`MiddlewareInv`). Until the lock expires, the request that passed
  `setIfAbsent` and has not yet unlocked is alone and the lock is there; what is stored, or
  answered, names an execution of the same fingerprint.
* **Registration** (`RegistrationInv`). `WrittenSoFar` says what a registration has written by
  each of its steps, `LinksHold` that a link hangs on a user and a state was used once at most.
* **Invitations** (`InvitationInv`). Rows are never deleted and a decided one stays decided; an
  account, or a request that will write one, has a row behind it; an active member has a decided
  row, or a request that is about to mark one, or one was cut off there.
* **One-time codes** (`CodeInv`). A counter that counts without a TTL has a call about to give
  it one. The guesses at the stored secret are the counted ones, those of calls yet to count,
  and less than `MaxAttempts` for each call that may have reset the counter. This proof failed
  on the limit stated before (the limit plus the calls in flight): TLC refutes that one as soon
  as `MaxAttempts` is 3, and the property now states the limit that holds.
* **Sign-in** (`SignInInv`). Wrong passwords are in the count of failures or in a request that
  has yet to add its own, or were lost with theirs; while the account is not locked, all but
  `MaxAttempts - 1` belong to requests in flight or lost. Both limits count sets of requests, with the cardinality theorems of the
  library.
* **Locations** (`LocationInv`). The reparenting in flight knows a set of locations without the
  one to be moved, which holds the new parent and everything above it as far as the walk came
  (`Climbed`). Writes of others do not touch parents and new locations are not in the set, so
  at the write the set is closed upwards and no cycle is closed.

Proved and not repeated in a run: the type invariants of `EventOutbox`, `EventDispatch`,
`InventoryStock`, `WorkOrders` and `SessionTokens`, PublishedWasQueued, DeadLetterAfterMaxAttempts,
OneHolderPerClaim, ReservationFinal and IssuedHasRecord.

Only model-checked: liveness (CommittedReachesConsumers, JobsSettle, LeftoversVanish,
StaleFades), because fairness is outside the prover, and the types of the parts of `MCEstate`.
Every other invariant and action property of the passing runs is stated by a theorem.

## 5. Not modelled

Reads, formatting, access control by role and tenant (a request is modelled after it
passed them), the wording of errors, audit metadata, e-mail and notification contents,
and adapters. Reports, dashboard, search and `reconcile` are queries. Profiles of users,
organizations and vendors, facilities, settings and the inventory catalogue are single
documents written whole by one request; the change of an e-mail address and the set-up of
the second factor reuse the codes of `OneTimeCodes`. Support records of a work order
(comments, attachments, time logs, parts) are appended independently. `addWorkOrder` and
`removeWorkOrder` of a contract, removal of old BullMQ jobs, rate limits and the
development-only fallback of the Redis client are not modelled. One item, order, request, plan,
tenant, key, account, address, asset tag, facility or pair of partners is modelled at a time.
Where one of them meets another, the model has what is seen of the other: an asset the twin with
its tag (`AssetCache`), a plan the unique date of another plan of the asset (`Clash`), a
registration the other addresses, an order the awards made elsewhere.

## 6. Plan

Done: the event path, inventory, the work order with its award, sessions, service requests,
preventive maintenance, billing, quotations, invoices, the idempotency middleware, codes,
sign-in, invitations, registration, the asset cache, locations and vendor relations; and the
proofs of section 4.

Left: the further orders of a contract award, and facilities under the plan's limit.
