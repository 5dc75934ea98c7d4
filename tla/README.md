# ReliaCode in TLA+

Specifications, model-checking runs and machine-checked proofs for ReliaCode, a
traceability service: brands print codes on items, cases and pallets, members of
the supply chain scan them under business documents, receipts earn rewards, and
every accepted event is exported to an EPCIS repository and to webhooks. The
reference is the source of this repository: `apps/scan-api`, the service;
`apps/scan-web`, its browser client; and `server-snapshots/20260917-production`,
the single-process application it is to replace. Each definition that models
code is mapped to its lines in `PROJECT.json`.

## 1. The system

| Component | State it keeps | Operations | Hard behaviour | Modelled |
|---|---|---|---|---|
| Object lifecycle (`domain.mjs`) | none | `nextObjectStatus`, `verificationForEvent` | partial transition table | `ObjectLifecycle` |
| Trace events (`routes.mjs:609`) | `serialized_objects`, `trace_events`, snapshots, relationships, risk cases | one handler for ten event types, risk decisions | row locks of several tables in different orders, trees found by one statement | `TraceEvents`, `TraceTransactions` |
| Business documents (`saas-routes.mjs:224`) | `business_documents` and their lines | create, add and remove lines, transition; fulfilled by events | approver, clerk and scanner race | `BusinessDocuments` |
| Idempotency, pool (`idempotency.mjs`, `db.mjs`) | `idempotency_records`, connections | lock key, look up, save; connect, commit, roll back | retries, lost answers, expiry, exhausted pool | `IdempotentCommand`, `Rewards` |
| Rewards (`routes.mjs:133`) | `reward_claims`, `ledger_entries` | `createRewardForEvent` | sums read without a lock | `Rewards` |
| Outbox, webhook, export workers | `event_outbox`, `webhook_deliveries`, export columns of jobs | claim, post, record; replay, retry, revoke | leases, crashes, late outcomes, lost answers | `Deliveries` |
| Code generation (`saas-routes.mjs:261`, `code-job-worker.mjs`) | jobs, codes, company prefix, SSCC reference, monthly usage | create, approve, cancel, retry, set prefix; generate a chunk | quota and range arithmetic, crashes, a queue with a stuck head | `CodeJobs` |
| Sessions, members, invitations (`auth.mjs`, `session-security.mjs`, `routes.mjs`) | `local_users`, `local_memberships`, `admin_sessions`, invitations | log in, authenticate and rotate, revoke, invite, change roles, freeze | a request works on what was read when it was authenticated | `Accounts` |
| Account recovery, passkeys (`auth-recovery*.mjs`) | one-time links, codes, cases, challenges | recover, reset, sign in, step up | two requests with one credential | `Accounts`, in part |
| Workspace, public projection (`routes.mjs:88`, `:464`) | `admin_workspaces`, `admin_public_objects` | load, versioned save, reset | concurrent saves | `Workspaces`, in part |
| Scan web console (`apps/scan-web`) | the page, `localStorage`, the persistence queue | edit, flush, conflict, retry, reset, close | lost answers, edits during a save | `Workspaces`, in part |
| Legacy server: stock (`server.js`) | `boxes`, `items`, `shipments`, `pack_records` in SQLite | pack, confirm, ship whole or loose, cancel, invalidate, delete | long sequences of legal calls that undo each other in part | `LegacyStock` |
| Legacy server: brands, factories, products, accounts | their tables, links, `agent_tokens` | create, edit, link, archive, delete, invite; backfills of every start | references that no foreign key guards | `LegacyTenants` |
| Legacy server: code packages, exports | `code_packages`, key tables, image archives | reserve, create, export, draw | crash half-way, repeated posts | `LegacyPackages` |
| Legacy server: public page, verification, prizes, alerts | trace entries, promotions, `scan_logs`, `prize_records`, `alerts` | edit, publish, approve, verify, draw, handle | what was approved is edited, logs are deleted | `LegacyPublic` |
| API process | none but the request's context | authentication hook, write guard | – | hook in `Accounts` |
| GS1 keys, EPCIS documents | none | check digits, links, serialization | digits and widths | no |
| Partners, shared events, recalls | relationships, grants, recalls | invite, accept, grant, revoke, record, activate | a second writer of objects | no |
| Tenants, products, locations, devices | their tables | administration | mostly single statements | no |
| Legacy sessions and read-only access; deployment | a session table; none | – | – | no |

How they interact: an HTTP request is one PostgreSQL transaction, which begins
with the advisory lock of its `Idempotency-Key`, takes row locks with
`SELECT ... FOR UPDATE`, writes, stores its response and commits. A trace event
locks its object, its document and the objects it moves; it calls
`createRewardForEvent`, and leaves an outbox row and webhook deliveries for the
workers, which are processes of their own. Code jobs are approved over HTTP,
generated by the code worker, and then exported by the export worker. Requests
of people pass the authentication hook first, which rotates their session. The
console saves a whole workspace with the version it loaded. The legacy server is
one Node process over SQLite: a handler runs without interruption up to its next
`await`.

What makes each component correct, in a line: *objects* – packaging is a forest,
a container moves as a whole, nothing live is in a destroyed container;
*documents* – each expected line is fulfilled by exactly one event, lines are
frozen once approved; *history* – snapshots and aggregations tell the same story
as the rows; *transactions* – the interleaved handlers are serializable and end;
*idempotency* – a key takes effect once, whatever is repeated; *rewards* – paid
for verified receipts only, one for a shipment, within the budget; *deliveries* – at least once,
never lost, settled in the end; *code jobs* – exactly what was ordered, numbers
never reused, usage equal to what is held; *accounts* – what is revoked stays
revoked, a credential works once, somebody can administer; *workspace* – a
save replaces what its page had loaded (the first two saves and resets apart),
nothing shown is lost, the projection is the workspace; *legacy stock* – confirmed boxes are full, receipts are of one lot and
factory, shipments tell where things are; *legacy tenants* – nothing dangles, and
the server starts again; *legacy packages* – one package for a key, whole files;
*legacy public side* – the page shows what was approved, prizes go to first
scans, alerts are true of places whose text names its own province.

## 2. Modules

- `ObjectLifecycle` – levels, statuses, the transition table. Pure.
- `BusinessDocuments` – documents and lines; one action per handler.
- `TraceEvents` – extends both. One action per kind of request, with all the
  handler writes: `Move` (shipping to destroying, with a container's contents),
  `ReceiveForReview`, `Pack`, `Unpack`, `Repack`, `Verify`, `DecideRisk`. The
  append-only rows of a request are one record of `log`. A refused request is
  rolled back and is no action.
- `TraceTransactions` – the same requests as PostgreSQL runs them: `LockObject`,
  `LockDocument`, `FindRows` (the tree query), `LockRow`, `Commit`, `Refuse`,
  `Abort` (deadlock or lost connection). It extends `TraceEvents`, and
  `Serializable` states that every commit is a step of `TraceEvents!Next` and
  every other step a stutter: `TraceEvents` is its abstract specification.
- `IdempotentCommand` – the abstract promise of a key. `Rewards` – rewarded
  receipts as transactions over the pool, the key and the unlocked sums;
  `KeyPromiseKept` is the refinement of the promise (`INSTANCE ... WITH effect`
  mapped to the bodies of the stored records).
- `Deliveries` – the three queues of outgoing rows, which share their protocol
  but differ where the code does: an outbox row keeps `processed_at` after a
  late failure while `DELIVERED` and `COMPLETED` are reopened; deliveries need an
  active endpoint; a verification event has no EPCIS document; exports are
  retried by one person, the others replayed by two.
- `CodeJobs` – jobs, quota, SSCC ranges and workers that hold their job locked.
- `Accounts` – accounts, sessions, one-time credentials and members of a tenant in
  local mode. A session's token is the number of its rotations. Where the code
  reads, then writes in another transaction, there are two actions: `Login` and
  the minting of the session, reading a reset link and consuming it, the three
  queries before a change of role and the change. `uses` and `doomed` are history.
- `Workspaces` – the row of the server as the history of its saves, the
  projection, and the console: the page, `persistNow`'s request, the persistence
  queue, and the copy it keeps in `localStorage`. A workspace is the set of
  edits it contains. It is about deployments with a persistent workspace, not the
  domain API. `base` is history: how many saves there were when the page loaded or
  saved last. What the module shows of the code: the first save is accepted whatever
  version it quotes and stored as version 0, which a page that found no workspace
  quotes too; a reset quotes none, and replaces what its page may never have seen; a reset of the page leaves a dirty
  queue, which saves the edits again; after a conflict the queue is clean, so that
  a reload drops the pending copy.
- `LegacyStock` – boxes and items of the legacy server. Its handlers are
  synchronous over SQLite, so each is one action; `NoConflict` and `Alike` are
  its triggers.
- `LegacyTenants` – brands, factories, products, accounts and invitations, with
  what the handlers refuse, the triggers, the cascades, and `Start`: the backfills of
  `initDatabase`. Brands are numbers because a default factory goes to the
  lowest enabled brand.
- `LegacyPackages` – codes made at once and as packages under their keys, exports,
  and image archives with their slots; `Crash` at every `await`, `Restart`.
- `LegacyPublic` – one product's page (batch, trace, promotion) and the
  verification of its items, with prizes and diversion alerts. The text of a place is
  a value; what `detectDiversion` tells of it are constants: the keys of provinces and
  the cities it contains (`Names`) and which texts contain which (`Includes`). Where
  it really is (`Where`) only the properties know. Provinces are numbers in the order
  of `PROVINCE_KEYS`, the first of which is taken, and the numbers after them are names
  that only the pattern of `getProvinceName` finds. Regions are kept as the handlers
  store them, those without a province included: `normalizeRegionSelection` refuses
  nothing. `covered_regions` is a column that `database.js` of this snapshot does not
  create; the handlers take it for granted, and so does the model.
- `MC*` – instances for TLC. `MCConsole` composes `Accounts` and `Workspaces`,
  `MCWorkers` `CodeJobs` and `Deliveries`, and `MCLegacy` the four legacy modules:
  those share no variables, so that a behaviour is about one of them and the
  interleavings that matter are all there.
- `*Proofs` – theorems of the module that each is named after; `ConsoleProofs` of
  `Accounts` and `Workspaces`, `LegacyProofs` of `LegacyTenants`, `LegacyPackages` and
  `LegacyPublic`.

Properties that are checked together are conjunctions of named parts
(`PackagingSound`, `DocumentsSound`, `SnapshotsSound`, `CodesSound`, `BoxesSound`,
...), and each module's type invariant is part of one of them. Definitions marked *Mutant* are
deliberate defects; each property is violated when its mutant replaces the
definition it is named after.

Abstractions: one tenant; codes, names, texts and points are small values;
wall-clock times are reduced to what a statement tests (due, expired, the month).
Device authorization and capabilities decide who may call a handler: the latter
are the constant `Capability`, or the roles of `Accounts`. `TraceTransactions`
leaves out the idempotency key (in `Rewards`), the shipment row, receipts for
review and verification queries, and advisory locks. `Rewards` takes one campaign
that every receipt matches; `TraceEvents` has no, one or several matching
campaigns, and lets the budget decide either way. An ambiguous match or a risk
decision changes no object. Shipments' rows are constants because no handler
writes them. `Accounts` leaves out passwords, e-mail addresses and passkey rows.
In `LegacyTenants` one role stands for the three that refer to a brand only, and
distributors are left out; in `LegacyPublic` whether an item is boxed, shipped or
void changes at will, since `LegacyStock` says how.

## 3. Runs

| Run | Question | Bounds, and why they suffice |
|---|---|---|
| `TraceEvents` | Do packaging, documents, snapshots, aggregations, claims and moves stay consistent, in every order of clerk, approver and scanner? | 2 items, 2 cases, 3 organizations, 4 events: enough to pack, repack, ship, and receive or destroy; repacking needs both cases, the empty and the full one. 6 documents are approved already, a shipment and a receipt are followed from their creation, with lines as action, context or not expected |
| `TraceTransactions` | Are the handlers atomic, and do they end? | 3 requests that share both cases and lock in opposite orders, and approvers that may close a document at any time |
| `Rewards` | Does a key take effect once, are all attempts answered, how far is the budget overrun? | 5 attempts, 3 keys (repeated, reused with another body, same object), 2 connections, budget and cap of one reward |
| `Workers` | Are ranges, codes and usage right, and do jobs end? Is anything that leaves lost, held twice, revived or left behind? | jobs: 3 of 5 per behaviour (2 sequential of a series or 2 of pallets, with the legacy one), quantities 1 and 2 with chunks of 1, 2 prefixes of different capacity, 2 workers, 2 months; queues: 2 workers each, 2 events, a delivery, an export, limit 2 instead of 10, 1 replay, 1 crash. A behaviour is about the jobs or the one queue that is deployed; what else it enqueues is an export that no worker serves |
| `Console` | Do revocation, one-time use, the last owner, and saves hold up under requests in flight? | accounts: 3 users, 2 sessions, 2 requests, 1 rotation each, and 8 credentials used in 4 scenarios, two of a kind where one revokes the other; workspace: 2 browsers, 2 edits, 3 saves, 1 fault |
| `Legacy` | Are references, keys, files, the page, prizes, alerts, receipts and shipments right? | 2 brands, 2 factories, and a product, code, user and invitation each (what relates two products is the brand); 2 requests under one key with different bodies, 2 packages of 2 codes, 1 slot and 2 archives; 2 trace entries (one revises the other), 1 item, 2 scans, 2 campaigns, 1 deletion of a scan; 5 texts (with and without suffixes, of two provinces, with a road that has the name of another one, without a province) and 5 territories (two cities, a city and a province, a region without a province, a text, nothing); stock: 2 boxes, 3 items, 2 factories, 2 batches, sizes 1 and 2, of which a behaviour has 2 boxes with 1 item or 1 box with 2 or 3, the other codes being deleted before, and no bound on the calls |
| `Rewards_budget`, `Console_roles`, `Console_retries`, `LegacyTenants_restart` | violated: `BudgetRespected`, `BrandAdminRemains`, `FailedSavesAreRetried`, `ServerStarts` | findings, section 7 |
| `TraceEvents_rewards`, `Console_saves` | violated: `FirstReceiptsOnly`, `ConflictsAreReported` | findings, section 7. The first follows one case to a distributor, to another one and back (`TripSpec`), 6 events |

The event run starts from approved documents and `TraceTransactions` from an
item that is packed already, states that the requests themselves lead to; the
bound on events is then spent on what the run is about. Constants that bound a
model only are named: `MaxEvents`, `MaxReplays`, `MaxCrashes`, `LastMonth`,
`MaxRotations`, `MaxSaves`, `MaxFaults`, `MaxText`, `MaxScans`, `MaxCleared`. Symmetry
is declared only where no property is a liveness property and no constant tells
the permuted values apart: sessions, requests, factories, the two blank items of
`LegacyStock`. Deadlock is not checked where the bounded system may come to
rest: every request answered, every row settled, the bound reached.

## 4. Fairness

- `TraceTransactions`: weak fairness of each transaction (the server goes on and
  a granted lock is taken) and of aborting a deadlocked one (PostgreSQL's
  `deadlock_timeout`). No fairness of clerks or of crashes.
- `Rewards`: weak fairness of each attempt's next step. None of failures,
  expiry, or giving up; an attempt that waits for a connection gets one because
  `finally { client.release() }` runs on every path.
- `Workers`, the queues (`DeliveriesFairness`): weak fairness of workers and of the clock. A worker's container
  is restarted (`restart: unless-stopped` in `deploy/compose.production.yaml`),
  and crashes are bounded.
- `Workers`, the jobs (`JobsFairness`): weak fairness of taking a job, strong fairness of finishing its
  chunk: crashes are unbounded, but a worker that takes a job again and again
  does not crash every time. `JobsEndUnlessStuck` assumes that failed jobs are
  not retried for ever (they are the oldest, and would always be taken first).
- `Workspaces`: weak fairness of `Flush` (the timer of the queue fires) and of
  `ReceiveAnswer` (a request is answered or fails). None of people: nobody has to
  edit, press retry, reload or reset.
- `Accounts` and the legacy modules assume none and claim no liveness.

## 5. Proofs

Eight modules, each for every value of the constants under the assumptions that its
component names, and which TLC evaluates in the runs. A theorem has an initial step, one lemma per step (a case per
action) and a temporal conclusion. Every invariant and action property of a passing
run is stated by a theorem. Few are inductive; what each needs besides the types,
and TLC has checked before it was proved:

- `TraceEventsProofs`. `TypeCorrect`. `PackagingCorrect` (`PackagingSound`): a
  destroying `Move` takes all contents of the container with it, a new parent
  outranks the child and is not destroyed by the guard `PackagingParent`, and no
  event leaves the status DESTROYED. `DocumentsCorrect` (`DocumentsSound`):
  `DraftUnfulfilled` (otherwise overwriting a line would forget an event) and
  `ApprovedHasAction` (otherwise an empty document could be completed).
  `ContainersCorrect` (`ContainersMoveWhole`), by `ContentsOfContents`; it uses that
  packaging is ranked. `LinesFrozen` (`ApprovedLinesFrozen`), which needs the types
  only. `SnapshotsCorrect` (`SnapshotsSound`), by `LastRowsTrue`: the last row of an
  object is its present state, so that the next one continues it.
  `AggregationsCorrect` (`AggregationsTellTheParents`), by `JoinedStep`, what one more
  event changes. `ClaimsCorrect` (`ClaimsSound`), by `NoEarlyCase` (no
  case is open for an event yet to happen) and `TransitIsShipped` (what is in transit
  was shipped and not received since, alone or in its container, so that the receipt
  that takes it out of transit answers a shipment).
- `TraceTransactionsProofs`. `ReadsStayCurrent` (`RowsAreCurrent`) and
  `TransactionsSerialize` (`Serializable`), by `Held`: the rows that a transaction has
  read are as it read them and locked by it, and together with those it has still to
  lock they are all that its tree query would find now. For that a tree must not grow
  while it is locked: a row that enters or leaves one is locked together with its
  container, and `OnlyItemsPacked` keeps the trees one generation deep (the requests
  of this module pack items only). `TransactionsImplementRequests` concludes that the
  transactions implement `TraceEvents`.
- `CodeJobsProofs`. `SsccsNeverReused` (`SsccSound`): nothing is allocated without
  a prefix, so that the first prefix finds the reference at zero; an allocation
  keeps it positive, and `SetPrefix` then cannot change the prefix. `CodesCorrect`
  (`CodesSound`), by `LockedRuns` (a worker holds a job that can run, alone, so that a
  job that ended is not charged or released twice) and `JobOK` (no job is charged
  ahead, so that a new month owes nothing; only legacy jobs fail, which have
  generated nothing, so that a retry is charged all of it). Sums are cardinalities of
  sets of pairs (`SumOf`), which the lemmas `SumAdd` and `SumChange` reason about.
  `LegacyAssumption`: jobs of before the SSCC migration were charged to the quota,
  which migration 008 had introduced before migration 022. `LaterJobsCorrect`: both,
  in a month in which any jobs were cancelled before, as in the run.
- `ConsoleProofs`. Of `Accounts`: `RevocationCorrect` (`RevokedStayOver`), by
  `DoomedOver`: a token is rotated, stepped up or minted on a row that is not over.
  `CredentialsCorrect` (`OneUse`), by `SpentOnce`: who uses a credential locks it
  open. `OwnerCorrect` (`OwnerStays`), by `ChangesKeepOwner`: a change of the
  owner's role that is in flight was checked to keep an administrator's. Of
  `Workspaces`: `ProjectionCorrect`, `VersionsCorrect` (`ReplacedWasLoaded`, by
  `Based`: a page that quotes a version has loaded the save that is stored as it, or,
  quoting 0, has found no workspace), `UnsavedCorrect` (by `PageOK` and
  `SendingOK`: what a page shows is in the version it quotes or in storage, and
  what is on its way is what it shows unless something newer is kept).
- `DeliveriesProofs`. `ReceivedCorrect` (by `Believed`), `LeasesCorrect` (by `Leased`:
  while no lease lapses, a row in hand waits under its lease in one hand) and
  `SettledCorrect`. `Counted` bounds attempts by the limit and the workers that
  hold the row, with cardinalities.
- `RewardsProofs`. `PromiseCorrect`: `Spec => KeyPromiseKept`, the refinement, by
  `KeysHeld` (a key is in one hand, which has found no stored response).
  `RetriesCorrect`. `BudgetCorrect` (`BudgetOverrunBounded`), by `GrantsBounded`:
  what is granted and not yet spent is at most one reward for each connection.
- `LegacyStockProofs`. `BoxesCorrect` (`BoxesSound`), `ReceiptsCorrect` (`OneReceipt`)
  and `ShipmentsCorrect` (`ShipmentsTellWhere`), by `StockInv`: an item is in a box by
  a receipt only (`BoxedByReceipt`, or a cancelled receipt would leave it there); a row
  of shipments tells of a whole box, or of an item that is still in the box it was
  shipped from (`RowsTell`, or taking an item out would turn it into a shipment of
  another box); only a box whose receipt is confirmed is shipped
  (`ShippedIsConfirmed`, so that nothing is packed into what is on its way).
  `UsedDatabaseCorrect`: all three, whatever was deleted or looked up before.
  `InvalidItemsCorrect` (`InvalidItemsStay`).
- `LegacyProofs`. Of `LegacyTenants`: `ReferencesCorrect` (`NothingDangles`),
  `StockPlacesCorrect` (`StockAtItsFactory`) and `PrimaryBrandsCorrect`
  (`PrimaryBrandIsLinked`). Their conjunction is inductive without more: what one
  handler refuses is what the others rely on, as that goods were received of a product
  that is there. A start is proved to keep them whether or not the trigger lets it
  through. `UsedTenantsCorrect`: whatever
  identifiers were used up before. Of `LegacyPackages`: `KeysCorrect`
  (`OneBatchPerKey`), by what a key's row,
  its package and each answer say of what was made (`BatchOK`, `PackageOK`,
  `AnswerOK`, `CreatingOK`: a half-made package belongs to the running handler,
  or the process is down). `ExportsCorrect` and `SlotsCorrect`, by `FilesInv`: an
  archive holds all codes it was begun with, and its slot is given back once. Of
  `LegacyPublic`: `PageCorrect` (by `ReviewTrue`, which is about promotions
  that are not shown as well), `PrizesCorrect` (by `PrizesOK`: an item that is not
  verified, or no more, has won less than it may in the end; with cardinalities) and
  `AlertsCorrect` (by `DetectionTrue`, a lemma about `detectDiversion`). The
  latter assumes nothing of territories or of what texts contain: it is the property
  that is about texts that name their own province and city.

Only model-checked: liveness under fairness, which is out of the prover's reach:
`EveryRequestEnds`, `EveryAttemptAnswered`, `EveryRowSettles`, `JobsEndUnlessStuck`.

## 6. What the runs show

All properties of the passing runs hold, and by the proofs all but the liveness ones
beyond the bounds of the runs. In particular the tree query plus row locks is
serializable; a captured event is
never sent back to the queue by a late failure; SSCC ranges are never reused; a
retry within a day never trips over its own key; a session that is revoked while
a request rotates it does not survive; a link that two requests have read works
for one of them; and whatever fails between a page and the server, what the page
shows is on one side or the other. In the legacy server cancelling in any order
leaves no orphan, invalid items stay invalid, a key makes one package over
crashes, and no deletion leaves a dangling reference in the tables of
`LegacyTenants`; code packages, distributors and the product of pack records refer to
products and brands as well, and are not modelled there. A claim answers a shipment of
its own: repeated receipts, and receipts of what came in its carton, earn nothing until
the object is shipped again. `BudgetOverrunBounded` shows how far
the budget can be overrun: one reward for each further connection.

## 7. Where documents and code disagree

Shown by a run each:

1. `Rewards_budget`: concurrent receipts overrun the budget
   (`docs/production-readiness.md:15`, `routes.mjs:146`).
2. `Console_roles`: two administrators demote each other, because the check that
   one remains is outside of the transaction that writes (`routes.mjs:257`).
3. `Console_retries`: a failed save is announced to be tried again and is not
   (`app.js:128`, `app.js:146`): `persistNow` swallows the failure, the queue marks
   itself clean, and `schedulePersistRetry` does nothing once there is a queue.
4. `LegacyTenants_restart`: after legal edits the backfill of the next start is aborted
   by a trigger (`database.js:749`, whose comment calls it idempotent).
5. `TraceEvents_rewards`: an object that was rewarded, is shipped on and comes back is
   rewarded again: only a first receipt should be, and a claim be unique by campaign,
   activity, object and beneficiary (`docs/domain/scan-incentive.md:11-13`, `:64-66`,
   `docs/role-event-model.md:33`, `routes.mjs:165`). Nor does the handler look at the
   claims of a carton when the items in it are received one by one later.
6. `Console_saves`: of two browsers that found no workspace both first saves are
   accepted, and the second overwrites the first unseen
   (`docs/local-persistence-runbook.md:34`, `routes.mjs:465`).

Stated beside the models without a run of their own. Each is violated once its name is
added to the `.cfg` of its run, as PROPERTY (`ApprovedJobsEnd`, `InvalidBoxesStay`,
`DraftsStayInside`) or INVARIANT (the others):

7. `ReceivedByConsignee` (`TraceEvents`): a receipt is checked against its own document
   and not against the shipment's (`docs/role-event-model.md:32`, `routes.mjs:654`).
8. `QuotaHonoured` (`CodeJobs`, run `Workers`): releases are booked in the month of the
   cancellation, which is then charged more than the quota (`entitlements.mjs:99`,
   `saas-routes.mjs:297`).
9. `ApprovedJobsEnd` (`CodeJobs`, run `Workers`): a second sequential job of a series
   never ends and blocks the queue (`apps/scan-api/README.md:21`,
   `code-job-worker.mjs:44`).
10. `InvalidBoxesStay` (`LegacyStock`, run `Legacy`): a box that was invalidated is in
    stock again once its last item is unbound (`server.js:2349`, `server.js:3227`).
11. `ArchivesBounded` (`LegacyPackages`, run `Legacy`): a slot is given back when the
    client goes, while the archive is still being drawn (`server.js:3871`).
12. `DraftsStayInside` (`LegacyPublic`, run `Legacy`): making a draft of a published
    entry takes the entry off the page.
13. `SevereIsAcrossProvinces` (`LegacyPublic`, run `Legacy`): a place whose text contains
    the name of another province, as a road or a prefecture does, is taken to be there,
    and an alert on covered ground is severe (`server.js:4315`, `server.js:4320`).
14. `TerritoriesAreRegions` (`LegacyPublic`, run `Legacy`): a distributor without a valid
    region should be refused with `INVALID_REGION_SELECTION` (`server.js:2439`, `:2471`).
    The check never fires, since `normalizeRegionSelection` always returns something
    (`region-catalog.js:10-18`); a region without a province is stored, and every scan
    of a known place is severe from then on. The catalogue of this snapshot says that it
    stands in for the production one, which may refuse what this one accepts.

Behaviour that is in the models but contradicts no document: an unpacked item
cannot be packed again; a late failure reopens a delivered webhook, and a completed
export; editing lines does not bump a document's version; an item can be packed into a
case in transit, which then cannot be received; logging out after a concurrent rotation
leaves the rotated session; a login verified before a reset mints its session after it;
a reset replaces edits that its page has not loaded; a page that opens with a pending
copy takes the version of the newer workspace, shows the copy and saves it over that; a text without a province alerts
as severe wherever it is, a single text is compared as it is spelt (广东省深圳市 is
not in 广东深圳), and a place whose text names a covered city raises no alert.

## 8. Left out

Planned, in order: `SharedTrace` (partner events on the same objects, composed
with `TraceEvents`), `Recalls`, `Gs1` (check digits and SSCC composition against
reference definitions), the approver's view in `BusinessDocuments`, registering
and removing passkeys, limits of attempts, e-mail verification and recovery by
phone in `Accounts`. Next theorems: under which edits a start of `LegacyTenants` goes
through, and what concurrent changes of roles in `Accounts` can at worst lead to.

### Not modelled

- The normalization of a workspace into rows: only tests call it.
- Views of the console and its calls of the domain API; they keep no state that
  a property here is about.
- Legacy sessions and read-only access: single statements on one table, and a
  filter of methods. Distributors' accounts, statistics, media and lottery texts.
- Wiring, configuration, rate limits, row-level security policies, TLS and storage
  clients (`app.mjs` beyond its hook, `config.mjs`, `database-context.mjs`,
  `object-storage.mjs`, ...), and deployment scripts. That a worker that ends is
  started again is used as fairness.
- Administration of tenants, products, locations and devices: mostly single
  statements.
